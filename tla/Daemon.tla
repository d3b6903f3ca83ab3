------------------------------- MODULE Daemon --------------------------------
(***************************************************************************)
(* run of cmd/portoland: the parts are started in order, MCP is served     *)
(* until the client leaves, a signal comes or the server fails, and what   *)
(* was started is closed.  Each part is what its own module promises:      *)
(* Transport (Close returns; a call whose context ended, or whose          *)
(* connection was closed, returns), ControlConns (a cancellation lets Wait *)
(* return, and nothing runs behind it), Telemetry (the composite Close     *)
(* returns) and JsonlLogger, OtelLogger (Log returns).  Whether the MCP    *)
(* library waits for its handlers is not known here: a call may outlive    *)
(* RunStdio.                                                               *)
(***************************************************************************)
EXTENDS Tools

VARIABLES
  run,       \* where run is
  part,      \* each part: "none", "open", "closed", or a sink still "closing"
  canceled,  \* the context of the daemon has ended
  asked,     \* what asked the daemon to stop: "signal", "eof"
  todo,      \* what run has still to close
  served,    \* what RunStdio returned: "nil", "canceled" or "error"
  exit       \* what run returned: "none", "nil" or "error"

daemonVars == <<run, part, canceled, asked, todo, served, exit>>
vars == <<toolVars, daemonVars>>

Parts == {"jsonl", "exporter", "provider", "control"}

TypeOK ==
  /\ ToolTypeOK
  /\ run \in {"jsonl", "exporter", "provider", "control", "serve", "cancel", "close",
              "exit"}
  /\ part \in [Parts -> {"none", "open", "closed", "closing"}]
  /\ canceled \in BOOLEAN /\ asked \subseteq {"signal", "eof"}
  /\ todo \in Seq({"control", "provider", "logger", "exporter"})
  /\ served \in {"none", "nil", "canceled", "error"}
  /\ exit \in {"none", "nil", "error"}

Init ==
  /\ ToolInit
  /\ run = "jsonl" /\ part = [p \in Parts |-> "none"]
  /\ canceled = FALSE /\ asked = {} /\ todo = <<>>
  /\ served = "none" /\ exit = "none"

running == exit = "none"

-----------------------------------------------------------------------------
(* Startup.                                                                *)

opens(p, next) ==
  /\ run = p /\ run' = next
  /\ part' = [part EXCEPT ![p] = "open"]
  /\ UNCHANGED <<canceled, asked, todo, served, exit>>

\* A part cannot be started: close what there is, and end with an error.
startupFails(p, cleanup) ==
  /\ run = p /\ run' = "close"
  /\ todo' = cleanup
  /\ UNCHANGED <<part, canceled, asked, served, exit>>

\* NewJSONL, the first sink of FromConfig.
NewJSONL == opens("jsonl", "exporter") \/ startupFails("jsonl", <<>>)

\* The OTLP mirror of FromConfig: not configured, built, not built, or built
\* behind an exporter that has to be shut down again.
NewMirror ==
  \/ opens("exporter", "provider")
  \/ run = "exporter" /\ run' = "provider" /\ UNCHANGED <<part, canceled, asked, todo, served, exit>>
  \/ startupFails("exporter", <<"logger">>)
  \/ /\ run = "exporter" /\ run' = "close"
     /\ part' = [part EXCEPT !["exporter"] = "open"]
     /\ todo' = <<"exporter", "logger">>
     /\ UNCHANGED <<canceled, asked, served, exit>>

\* lsp.New: on a failure it has killed the language server itself.
NewProvider == opens("provider", "control") \/ startupFails("provider", <<"logger">>)

\* Mutant: the provider is forgotten when the control socket cannot be started.
StartControlForgets ==
  opens("control", "serve") \/ startupFails("control", <<"logger">>)

\* control.Start.
StartControl ==
  opens("control", "serve") \/ startupFails("control", <<"provider", "logger">>)

-----------------------------------------------------------------------------
(* Serving and shutdown.                                                   *)

\* SIGINT or SIGTERM, at any time.
Signal ==
  /\ running /\ "signal" \notin asked
  /\ canceled' = TRUE /\ asked' = asked \cup {"signal"}
  /\ UNCHANGED <<run, part, todo, served, exit>>

\* The client closes stdin; RunStdio sees it when it gets there.
ClientLeaves ==
  /\ running /\ "eof" \notin asked
  /\ asked' = asked \cup {"eof"}
  /\ UNCHANGED <<run, part, canceled, todo, served, exit>>

\* RunStdio returns: the client has left, or it failed, perhaps with an error of
\* some context, whether or not that of the daemon has ended.
RunStdio ==
  /\ run = "serve" /\ run' = "cancel"
  /\ \/ "eof" \in asked /\ served' = "nil"
     \/ served' \in {"canceled", "error"}
  /\ UNCHANGED <<part, canceled, asked, todo, exit>>

\* Mutant: the context is left alone, as RunStdio has returned anyway.
CancelNothing ==
  /\ run = "cancel" /\ run' = "close"
  /\ served' = IF canceled /\ served = "error" THEN "canceled" ELSE served
  /\ todo' = <<"control", "provider", "logger">>
  /\ UNCHANGED <<part, canceled, asked, exit>>

\* wasCanceled makes any error of RunStdio a clean shutdown; then cancel.
Cancel ==
  /\ run = "cancel" /\ run' = "close"
  /\ canceled' = TRUE
  /\ served' = IF canceled /\ served = "error" THEN "canceled" ELSE served
  /\ todo' = <<"control", "provider", "logger">>
  /\ UNCHANGED <<part, asked, exit>>

close(p, to) == IF part[p] = "open" THEN to ELSE part[p]

\* control.Wait, provider.Close and logger.Close, in the order of todo.  Wait
\* returns only once the context has ended.  The Close of the logger, which may
\* return at its deadline, leaves sinks that are still closing.
CloseNext ==
  /\ run = "close" /\ todo # <<>>
  /\ Head(todo) = "control" => canceled
  /\ IF Head(todo) = "logger"
       THEN \E j, e \in {"closed", "closing"} :
              part' = [part EXCEPT !["jsonl"] = close("jsonl", j),
                                   !["exporter"] = close("exporter", e)]
       ELSE part' = [part EXCEPT ![Head(todo)] = close(Head(todo), "closed")]
  /\ todo' = Tail(todo)
  /\ UNCHANGED <<run, canceled, asked, served, exit>>

\* run returns: an error when startup failed, or the server did with an error that
\* is not of a context while that of the daemon was alive.
Return ==
  /\ run = "close" /\ todo = <<>>
  /\ run' = "exit" /\ canceled' = TRUE
  /\ exit' = IF served \in {"nil", "canceled"} THEN "nil" ELSE "error"
  /\ UNCHANGED <<part, asked, todo, served>>

Main ==
  \/ NewJSONL \/ NewMirror \/ NewProvider \/ StartControl
  \/ Cancel \/ CloseNext \/ Return

-----------------------------------------------------------------------------

\* A client's call while MCP is served, and a sync while the control socket is.
Serve ==
  \/ \E c \in Calls : run = "serve" /\ StartCall(c)
  \/ \E s \in Syncs : part["control"] = "open" /\ Bump(s)

\* The calls that were started go on until the process ends.
CallStep(c) == running /\ (Work(c) \/ operationEnds(c)) /\ UNCHANGED daemonVars

ProviderReturns(c) == running /\ invoke(c) /\ UNCHANGED daemonVars

Next ==
  \/ (Main \/ Signal \/ ClientLeaves \/ RunStdio) /\ UNCHANGED toolVars
  \/ Serve /\ UNCHANGED daemonVars
  \/ \E c \in Calls : CallStep(c) \/ ProviderReturns(c)

\* run is scheduled, and the parts it waits for return; RunStdio returns when
\* the client has left or the context has ended.  Goroutines are scheduled and
\* the budget of a call ends; the provider returns from a call whose context
\* has ended, and otherwise when it likes.
Spec ==
  /\ Init /\ [][Next]_vars
  /\ WF_vars(Main /\ UNCHANGED toolVars)
  /\ WF_vars(asked # {} /\ RunStdio /\ UNCHANGED toolVars)
  /\ \A c \in Calls :
       /\ WF_vars(CallStep(c))
       /\ WF_vars(running /\ operationEnds(c) /\ UNCHANGED daemonVars)
       /\ WF_vars(c \in ended /\ ProviderReturns(c))

-----------------------------------------------------------------------------
(* Properties                                                              *)

\* When run returns, the Close or Wait of everything that was started has
\* returned, on every path through a partial startup: the control socket and the
\* language server are closed, and a sink is, or was still closing when the Close
\* of the logger gave up waiting.  No error means that the daemon had served.
CleanExit ==
  exit # "none" =>
    /\ \A p \in Parts : part[p] # "open"
    /\ \A p \in {"provider", "control"} : part[p] \in {"none", "closed"}
    /\ exit = "nil" => part["control"] = "closed" /\ canceled

\* A daemon that gets a signal, during startup or later, or whose client leaves,
\* comes to an end although calls and syncs may be under way.
StopIsHeeded == asked # {} ~> exit # "none"

\* Every call returns within its budget, although the provider may hang for as
\* long as the budget lasts, unless the process ends first.
CallReturns == \A c \in Calls : pc[c] # "idle" ~> (pc[c] = "returned" \/ ~running)

=============================================================================
