------------------------------ MODULE Telemetry ------------------------------
(***************************************************************************)
(* The shutdown of the telemetry as the daemon sees it: the composite      *)
(* logger (Tee) closes its sinks, one of which owns a diagnostic           *)
(* dispatcher (Diagnostics) that its closeBy closes last, by the deadline  *)
(* the composite has set for all of them.                                  *)
(***************************************************************************)
EXTENDS Tee, Naturals, Sequences

CONSTANTS Owner,      \* the sink that reports to the dispatcher
          Reports, Capacity

ASSUME OwnerAssumption == Owner \in Sinks

VARIABLES made, queue, closed, drops, panics, timeouts, worker, current,
          delivered, dispatcher, closeErr, before

dispatcherVars == <<made, queue, closed, drops, panics, timeouts, worker, current,
                    delivered, dispatcher, closeErr, before>>

Dispatch == INSTANCE Diagnostics WITH closer <- dispatcher

allVars == <<vars, dispatcherVars>>

TelemetryInit == Init /\ Dispatch!Init

\* A sink meets an error and reports it, at any time.
Report == \E e \in Reports : Dispatch!report(e) /\ UNCHANGED vars

RunDispatcher == Dispatch!run /\ UNCHANGED vars

\* The owner has drained its events, which its own deadline bounds, and closes
\* the dispatcher by the shared deadline.
closeDispatcher ==
  /\ sink[Owner] = "closing" /\ Dispatch!closeBy
  /\ timeouts' # timeouts => late
  /\ UNCHANGED vars

\* Mutant: the error of the dispatcher is not joined.
OwnerClosesAnyway ==
  /\ dispatcher = "returned" /\ SinkCloses(Owner)
  /\ UNCHANGED dispatcherVars

\* The owner's closeBy joins the error of the dispatcher into its own.
OwnerCloses ==
  /\ dispatcher = "returned" /\ SinkCloses(Owner)
  /\ closeErr = "error" => sink'[Owner] = "error"
  /\ UNCHANGED dispatcherVars

OtherCloses == \E s \in Sinks \ {Owner} : SinkCloses(s) /\ UNCHANGED dispatcherVars

TelemetryNext ==
  \/ Report \/ RunDispatcher \/ closeDispatcher \/ OwnerCloses \/ OtherCloses
  \/ (Close \/ DeadlinePasses) /\ UNCHANGED dispatcherVars

\* Close is scheduled once it was called, and the deadline it set passes.  The
\* callback and every sink may hang.
TelemetrySpec ==
  /\ TelemetryInit /\ [][TelemetryNext]_allVars
  /\ WF_allVars(closer # "idle" /\ Close /\ UNCHANGED dispatcherVars)
  /\ WF_allVars(DeadlinePasses /\ UNCHANGED dispatcherVars)

-----------------------------------------------------------------------------

\* A composite Close that returns nil in time is the whole truth: every sink
\* closed without an error, and every diagnostic reported before the dispatcher
\* was closed has been through its callback.
TimelyNilIsWhole ==
  closeResult = "nil" /\ ~late =>
    /\ TimelyCloseIsComplete
    /\ \A e \in before : \E i \in 1..Len(delivered) : delivered[i] = e

\* The composite Close returns although a sink, or the callback the owner's
\* dispatcher waits for, never does.
CompositeCloseReturns == closer # "idle" ~> closer = "returned"

=============================================================================
