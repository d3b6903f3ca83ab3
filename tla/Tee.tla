--------------------------------- MODULE Tee ---------------------------------
(***************************************************************************)
(* The composite logger of package telemetry (tee.go): Close closes every  *)
(* sink in a goroutine of its own and collects their results from one      *)
(* buffered channel until a shared deadline.  A sink that takes no         *)
(* deadline may never return.  The clock is one bit, which a               *)
(* nondeterministic step sets.                                             *)
(***************************************************************************)
CONSTANT Sinks    \* the loggers Tee wraps

VARIABLES
  sink,        \* where the goroutine of each sink is: "idle", "closing", or the
               \* result it sent, "nil" or "error"
  received,    \* the sinks whose result Close took from the channel
  late,        \* the deadline has passed
  closer,      \* where Close is: "idle", "check", "receive", "took", "join",
               \* "returned"
  errs,        \* Close collected an error
  closeResult  \* teeLogger.closeResult

vars == <<sink, received, late, closer, errs, closeResult>>

Init ==
  /\ sink = [s \in Sinks |-> "idle"] /\ received = {}
  /\ late = FALSE /\ errs = FALSE
  /\ closer = "idle" /\ closeResult = "none"

\* The results in the channel.
Ready == {s \in Sinks : sink[s] \in {"nil", "error"}} \ received

closerStep(from, to) == closer = from /\ closer' = to

\* closeOnce, the deadline, and a goroutine for each sink.
StartCloses ==
  /\ closerStep("idle", "check")
  /\ sink' = [s \in Sinks |-> "closing"]
  /\ UNCHANGED <<received, errs, closeResult>>

\* A sink's closeBy or Close returns, and its result fits in the channel.
SinkCloses(s) ==
  /\ sink[s] = "closing"
  /\ \E res \in {"nil", "error"} : sink' = [sink EXCEPT ![s] = res]
  /\ UNCHANGED <<received, late, closer, errs, closeResult>>

\* The head of the loop: every sink was received, the deadline has passed, or
\* receiveByDeadline is called.
CheckDeadline ==
  /\ \/ closerStep("check", "join") /\ received = Sinks /\ UNCHANGED errs
     \/ closerStep("check", "join") /\ received # Sinks /\ late /\ errs' = TRUE
     \/ closerStep("check", "receive") /\ received # Sinks /\ ~late /\ UNCHANGED errs
  /\ UNCHANGED <<sink, received, closeResult>>

\* Mutant: a result is waited for without a deadline.
ReceiveForever ==
  /\ closerStep("receive", "took")
  /\ \E s \in Ready :
       received' = received \cup {s} /\ errs' = (errs \/ sink[s] = "error")
  /\ UNCHANGED <<sink, closeResult>>

\* receiveByDeadline: a result and the append of its error, or the deadline.
Receive ==
  /\ \/ /\ closerStep("receive", "took")
        /\ \E s \in Ready :
             received' = received \cup {s} /\ errs' = (errs \/ sink[s] = "error")
     \/ /\ closerStep("receive", "join") /\ late
        /\ errs' = TRUE
        /\ UNCHANGED received
  /\ UNCHANGED <<sink, closeResult>>

\* After a result: a deadline that has passed meanwhile ends the loop.
CheckAfter ==
  /\ closer = "took"
  /\ closer' = IF late THEN "join" ELSE "check"
  /\ UNCHANGED <<sink, received, errs, closeResult>>

JoinErrors ==
  /\ closerStep("join", "returned")
  /\ closeResult' = IF errs THEN "error" ELSE "nil"
  /\ UNCHANGED <<sink, received, errs>>

Close ==
  /\ StartCloses \/ CheckDeadline \/ Receive \/ CheckAfter \/ JoinErrors
  /\ UNCHANGED late

DeadlinePasses ==
  /\ closer # "idle" /\ ~late
  /\ late' = TRUE
  /\ UNCHANGED <<sink, received, closer, errs, closeResult>>

Next == Close \/ DeadlinePasses \/ \E s \in Sinks : SinkCloses(s)

Spec == Init /\ [][Next]_vars

-----------------------------------------------------------------------------

\* A Close that reports no error while there is still time has closed every
\* sink without an error, whatever the order in which they finished.
TimelyCloseIsComplete ==
  closeResult = "nil" /\ ~late => \A s \in Sinks : sink[s] = "nil"

\* Loss and sink failures are joined into the shutdown error: a Close without
\* an error has closed every sink without an error.
LossIsJoined == closeResult = "nil" => \A s \in Sinks : sink[s] = "nil"

=============================================================================
