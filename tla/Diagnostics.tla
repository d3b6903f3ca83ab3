----------------------------- MODULE Diagnostics -----------------------------
(***************************************************************************)
(* The diagnostic dispatcher of package telemetry (diagnostic.go): sinks   *)
(* report errors to a bounded queue without ever waiting, one worker hands *)
(* them to a callback that may panic or hang, and closeBy waits for the    *)
(* worker until a deadline.  report and the closing of the queue are one   *)
(* critical section of mu each.                                            *)
(***************************************************************************)
EXTENDS Naturals, Sequences, FiniteSets

CONSTANTS Reports,    \* the errors that are reported
          Capacity    \* the size of the queue

VARIABLES
  made,       \* the reports that were made, in order
  queue,      \* the queue channel
  closed,     \* diagnosticDispatcher.closed, and the queue is closed
  drops, panics, timeouts,  \* the counters
  worker,     \* where run is: "receive", "call", "done"
  current,    \* what the worker holds, as a sequence of at most one report
  delivered,  \* the reports whose callback returned, in order
  closer,     \* where closeBy is: "idle", "wait", "stats", "returned"
  closeErr,   \* diagnosticDispatcher.closeErr: "none", "nil" or "error"
  before      \* history: the reports made before closeBy

vars == <<made, queue, closed, drops, panics, timeouts, worker, current,
          delivered, closer, closeErr, before>>

Init ==
  /\ made = <<>> /\ queue = <<>> /\ closed = FALSE
  /\ drops = 0 /\ panics = 0 /\ timeouts = 0
  /\ worker = "receive" /\ current = <<>> /\ delivered = <<>>
  /\ closer = "idle" /\ closeErr = "none" /\ before = {}

inSeq(s) == {s[i] : i \in 1..Len(s)}

\* report: a closed dispatcher and a full queue drop the error and count it.
report(e) ==
  /\ e \notin inSeq(made)
  /\ made' = Append(made, e)
  /\ IF closed \/ Len(queue) = Capacity
       THEN drops' = drops + 1 /\ UNCHANGED queue
       ELSE queue' = Append(queue, e) /\ UNCHANGED drops
  /\ UNCHANGED <<closed, panics, timeouts, worker, current, delivered, closer,
                 closeErr, before>>

\* The range over the queue.
Receive ==
  /\ worker = "receive"
  /\ \/ /\ queue # <<>>
        /\ worker' = "call"
        /\ current' = <<Head(queue)>> /\ queue' = Tail(queue)
     \/ /\ queue = <<>> /\ closed
        /\ worker' = "done"
        /\ UNCHANGED <<current, queue>>
  /\ UNCHANGED <<panics, delivered>>

\* callDiagnostic: the callback returns, or its panic is recovered and counted.
callDiagnostic ==
  /\ worker = "call"
  /\ worker' = "receive" /\ current' = <<>>
  /\ \/ delivered' = delivered \o current /\ UNCHANGED panics
     \/ panics' = panics + 1 /\ UNCHANGED delivered
  /\ UNCHANGED queue

run ==
  /\ Receive \/ callDiagnostic
  /\ UNCHANGED <<made, closed, drops, timeouts, closer, closeErr, before>>

closerStep(from, to) == closer = from /\ closer' = to

CloseQueue ==
  /\ closerStep("idle", "wait")
  /\ closed' = TRUE
  /\ before' = inSeq(made)
  /\ UNCHANGED <<timeouts, closeErr>>

\* receiveByDeadline(done).
AwaitWorker ==
  /\ closerStep("wait", "stats")
  /\ (worker = "done" /\ UNCHANGED timeouts) \/ timeouts' = timeouts + 1
  /\ UNCHANGED <<closed, closeErr, before>>

BuildCloseError ==
  /\ closerStep("stats", "returned")
  /\ closeErr' = IF drops + panics + timeouts > 0 THEN "error" ELSE "nil"
  /\ UNCHANGED <<closed, timeouts, before>>

closeBy ==
  /\ CloseQueue \/ AwaitWorker \/ BuildCloseError
  /\ UNCHANGED <<made, queue, drops, panics, worker, current, delivered>>

Next == run \/ closeBy \/ \E e \in Reports : report(e)

Spec == Init /\ [][Next]_vars

=============================================================================
