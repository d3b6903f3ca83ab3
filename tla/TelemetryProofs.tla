--------------------------- MODULE TelemetryProofs ---------------------------
(***************************************************************************)
(* Proofs about Telemetry, for any set of sinks, any reports and a queue   *)
(* of any size: a composite Close that returns nil in time has closed      *)
(* every sink without an error, and every diagnostic reported before its   *)
(* dispatcher was closed has been through the callback.                    *)
(***************************************************************************)
EXTENDS Telemetry, TLAPS

\* The types of the composite's and of the dispatcher's variables.
TeeShape ==
  /\ sink \in [Sinks -> {"idle", "closing", "nil", "error"}]
  /\ received \subseteq Sinks
  /\ late \in BOOLEAN /\ errs \in BOOLEAN
  /\ closer \in {"idle", "check", "receive", "took", "join", "returned"}
  /\ closeResult \in {"none", "nil", "error"}

DispatcherShape ==
  /\ made \in Seq(Reports) /\ queue \in Seq(Reports)
  /\ current \in Seq(Reports) /\ delivered \in Seq(Reports)
  /\ closed \in BOOLEAN
  /\ drops \in Nat /\ panics \in Nat /\ timeouts \in Nat
  /\ worker \in {"receive", "call", "done"}
  /\ dispatcher \in {"idle", "wait", "stats", "returned"}
  /\ closeErr \in {"none", "nil", "error"}
  /\ before \subseteq Reports

\* What Close has received so far is in errs, and it stops early only with an
\* error or behind the deadline.
TeeInv ==
  /\ closer = "idle" => received = {}
  /\ \A s \in received : sink[s] = "nil" \/ (sink[s] = "error" /\ errs)
  /\ closer \in {"join", "returned"} /\ ~errs /\ ~late => received = Sinks
  /\ closeResult = "nil" => closer = "returned" /\ ~errs

\* As long as nothing was dropped and no callback panicked, a report is on its
\* way or delivered; the worker ends behind the last one.
RunInv ==
  /\ drops = 0 /\ panics = 0 =>
       Dispatch!inSeq(made) \subseteq
         Dispatch!inSeq(queue) \cup Dispatch!inSeq(current) \cup Dispatch!inSeq(delivered)
  /\ worker \in {"receive", "done"} => current = <<>>
  /\ worker = "done" => closed /\ queue = <<>>

\* closeBy counts a worker it did not see end, and answers nil only when all of
\* before was delivered.
CloseByInv ==
  /\ closed <=> dispatcher # "idle"
  /\ before \subseteq Dispatch!inSeq(made)
  /\ dispatcher \in {"stats", "returned"} /\ timeouts = 0 => worker = "done"
  /\ dispatcher = "returned" <=> closeErr # "none"
  /\ closeErr = "nil" => before \subseteq Dispatch!inSeq(delivered)

\* The owner is closed without an error only when its dispatcher was.
OwnerInv == sink[Owner] = "nil" => closeErr = "nil"

DispatcherInv == DispatcherShape /\ RunInv /\ CloseByInv
IndInv == TeeShape /\ TeeInv /\ DispatcherInv /\ OwnerInv

-----------------------------------------------------------------------------
(* What a sequence holds.                                                  *)

LEMMA InSeqEmpty == Dispatch!inSeq(<<>>) = {}
BY DEF Dispatch!inSeq

LEMMA InSeqAppend ==
  ASSUME NEW s \in Seq(Reports), NEW e \in Reports
  PROVE  Dispatch!inSeq(Append(s, e)) = Dispatch!inSeq(s) \cup {e}
<1> DEFINE t == Append(s, e)
<1>1. Len(t) = Len(s) + 1 /\ t[Len(s) + 1] = e /\ \A i \in 1..Len(s) : t[i] = s[i]
  OBVIOUS
<1>2. Len(s) \in Nat
  OBVIOUS
<1> HIDE DEF t
<1>3. Dispatch!inSeq(t) = Dispatch!inSeq(s) \cup {e}
  BY <1>1, <1>2 DEF Dispatch!inSeq
<1> QED BY <1>3 DEF t

LEMMA InSeqConcat ==
  ASSUME NEW s \in Seq(Reports), NEW t \in Seq(Reports)
  PROVE  Dispatch!inSeq(s \o t) = Dispatch!inSeq(s) \cup Dispatch!inSeq(t)
<1> DEFINE u == s \o t
<1>1. /\ Len(u) = Len(s) + Len(t)
      /\ \A i \in 1..Len(s) : u[i] = s[i]
      /\ \A i \in 1..Len(t) : u[Len(s) + i] = t[i]
  OBVIOUS
<1>2. Len(s) \in Nat /\ Len(t) \in Nat
  OBVIOUS
<1> HIDE DEF u
<1>3. Dispatch!inSeq(u) \subseteq Dispatch!inSeq(s) \cup Dispatch!inSeq(t)
  <2> SUFFICES ASSUME NEW i \in 1..Len(u)
               PROVE  u[i] \in Dispatch!inSeq(s) \cup Dispatch!inSeq(t)
    BY DEF Dispatch!inSeq
  <2>1. CASE i \in 1..Len(s)
    BY <2>1, <1>1 DEF Dispatch!inSeq
  <2>2. CASE i \notin 1..Len(s)
    <3>1. i - Len(s) \in 1..Len(t) /\ u[Len(s) + (i - Len(s))] = t[i - Len(s)]
      BY <2>2, <1>1, <1>2
    <3>2. Len(s) + (i - Len(s)) = i
      BY <1>2, <1>1
    <3> QED BY <3>1, <3>2 DEF Dispatch!inSeq
  <2> QED BY <2>1, <2>2
<1>4. Dispatch!inSeq(s) \subseteq Dispatch!inSeq(u)
  BY <1>1, <1>2 DEF Dispatch!inSeq
<1>5. Dispatch!inSeq(t) \subseteq Dispatch!inSeq(u)
  <2> SUFFICES ASSUME NEW i \in 1..Len(t) PROVE t[i] \in Dispatch!inSeq(u)
    BY DEF Dispatch!inSeq
  <2>1. Len(s) + i \in 1..Len(u) /\ u[Len(s) + i] = t[i]
    BY <1>1, <1>2
  <2> QED BY <2>1 DEF Dispatch!inSeq
<1>6. Dispatch!inSeq(u) = Dispatch!inSeq(s) \cup Dispatch!inSeq(t)
  BY <1>3, <1>4, <1>5
<1> QED BY <1>6 DEF u

LEMMA InSeqHead ==
  ASSUME NEW s \in Seq(Reports), s # <<>>
  PROVE  /\ Tail(s) \in Seq(Reports) /\ <<Head(s)>> \in Seq(Reports)
         /\ Dispatch!inSeq(s) = Dispatch!inSeq(<<Head(s)>>) \cup Dispatch!inSeq(Tail(s))
<1>1. Tail(s) \in Seq(Reports) /\ <<Head(s)>> \in Seq(Reports) /\ <<Head(s)>> \o Tail(s) = s
  OBVIOUS
<1> QED BY <1>1, InSeqConcat

-----------------------------------------------------------------------------
(* The dispatcher.                                                         *)

LEMMA ReportInv ==
  ASSUME DispatcherInv, NEW e \in Reports, Dispatch!report(e)
  PROVE  DispatcherInv' /\ closeErr' = closeErr
<1> USE DEF DispatcherInv, DispatcherShape, RunInv, CloseByInv
<1>1. closeErr' = closeErr /\ Dispatch!inSeq(made)' = Dispatch!inSeq(made) \cup {e}
  BY InSeqAppend DEF Dispatch!report
<1>2. CASE closed \/ Len(queue) = Capacity
  <2>1. drops' = drops + 1 /\ queue' = queue
    BY <1>2 DEF Dispatch!report
  <2> QED BY <1>1, <2>1 DEF Dispatch!report
<1>3. CASE ~(closed \/ Len(queue) = Capacity)
  <2>1. queue' = Append(queue, e) /\ drops' = drops
    BY <1>3 DEF Dispatch!report
  <2>2. Dispatch!inSeq(queue)' = Dispatch!inSeq(queue) \cup {e}
    BY <2>1, InSeqAppend
  <2>3. /\ Dispatch!inSeq(current)' = Dispatch!inSeq(current)
        /\ Dispatch!inSeq(delivered)' = Dispatch!inSeq(delivered)
    BY DEF Dispatch!report
  <2>4. worker # "done"
    BY <1>3
  <2>5. DispatcherShape'
    BY <2>1 DEF Dispatch!report
  <2>6. RunInv'
    BY <1>1, <2>1, <2>2, <2>3, <2>4 DEF Dispatch!report
  <2>7. CloseByInv'
    BY <1>1, <2>1, <2>3, <2>4 DEF Dispatch!report
  <2> QED BY <1>1, <2>5, <2>6, <2>7
<1> QED BY <1>2, <1>3

LEMMA WorkerInv ==
  ASSUME DispatcherInv, Dispatch!run
  PROVE  DispatcherInv' /\ closeErr' = closeErr
<1> USE DEF DispatcherInv, DispatcherShape, RunInv, CloseByInv
<1>0. /\ closeErr' = closeErr
      /\ UNCHANGED <<made, closed, drops, timeouts, dispatcher, closeErr, before>>
      /\ Dispatch!inSeq(made)' = Dispatch!inSeq(made)
  BY DEF Dispatch!run
<1>1. CASE worker = "receive" /\ queue # <<>>
  <2>1. /\ worker' = "call" /\ current' = <<Head(queue)>> /\ queue' = Tail(queue)
        /\ UNCHANGED <<panics, delivered>>
    BY <1>1 DEF Dispatch!run, Dispatch!Receive, Dispatch!callDiagnostic
  <2>2. /\ queue' \in Seq(Reports) /\ current' \in Seq(Reports)
        /\ Dispatch!inSeq(queue) = Dispatch!inSeq(current)' \cup Dispatch!inSeq(queue)'
    BY <1>1, <2>1, InSeqHead
  <2>3. current = <<>> /\ Dispatch!inSeq(current) = {}
    BY <1>1, InSeqEmpty
  <2>4. Dispatch!inSeq(delivered)' = Dispatch!inSeq(delivered)
    BY <2>1
  <2> QED BY <1>0, <1>1, <2>1, <2>2, <2>3, <2>4
<1>2. CASE worker = "receive" /\ queue = <<>>
  <2>1. worker' = "done" /\ closed /\ UNCHANGED <<panics, delivered, current, queue>>
    BY <1>2 DEF Dispatch!run, Dispatch!Receive, Dispatch!callDiagnostic
  <2> QED BY <1>0, <1>2, <2>1
<1>3. CASE worker = "call"
  <2>1. /\ worker' = "receive" /\ current' = <<>> /\ queue' = queue
        /\ \/ delivered' = delivered \o current /\ panics' = panics
           \/ panics' = panics + 1 /\ delivered' = delivered
    BY <1>3 DEF Dispatch!run, Dispatch!Receive, Dispatch!callDiagnostic
  <2>2. CASE delivered' = delivered \o current /\ panics' = panics
    <3>1. /\ delivered' \in Seq(Reports)
          /\ Dispatch!inSeq(delivered)' = Dispatch!inSeq(delivered) \cup Dispatch!inSeq(current)
      BY <2>2, InSeqConcat
    <3>2. Dispatch!inSeq(queue)' = Dispatch!inSeq(queue)
      BY <2>1
    <3> QED BY <1>0, <1>3, <2>1, <2>2, <3>1, <3>2
  <2>3. CASE panics' = panics + 1 /\ delivered' = delivered
    BY <1>0, <1>3, <2>1, <2>3
  <2> QED BY <2>1, <2>2, <2>3
<1> QED BY <1>1, <1>2, <1>3 DEF Dispatch!run, Dispatch!Receive, Dispatch!callDiagnostic

LEMMA CloserInv ==
  ASSUME DispatcherInv, Dispatch!closeBy
  PROVE  DispatcherInv'
<1> USE DEF DispatcherInv, DispatcherShape, RunInv, CloseByInv
<1>0. /\ UNCHANGED <<made, queue, drops, panics, worker, current, delivered>>
      /\ Dispatch!inSeq(made)' = Dispatch!inSeq(made)
      /\ Dispatch!inSeq(delivered)' = Dispatch!inSeq(delivered)
  BY DEF Dispatch!closeBy
<1>1. CASE Dispatch!CloseQueue
  <2>1. Dispatch!inSeq(made) \subseteq Reports
    BY DEF Dispatch!inSeq
  <2> QED BY <1>0, <1>1, <2>1 DEF Dispatch!CloseQueue, Dispatch!closerStep
<1>2. CASE Dispatch!AwaitWorker
  BY <1>0, <1>2 DEF Dispatch!AwaitWorker, Dispatch!closerStep
<1>3. CASE Dispatch!BuildCloseError
  BY <1>0, <1>3, InSeqEmpty DEF Dispatch!BuildCloseError, Dispatch!closerStep
<1> QED BY <1>1, <1>2, <1>3 DEF Dispatch!closeBy

-----------------------------------------------------------------------------
(* The composite.                                                          *)

LEMMA CompositeInv ==
  ASSUME TeeShape, TeeInv, Close \/ DeadlinePasses
  PROVE  TeeShape' /\ TeeInv' /\ (sink'[Owner] = "nil" => sink[Owner] = "nil")
<1> USE OwnerAssumption DEF TeeShape, TeeInv
<1>1. CASE DeadlinePasses
  BY <1>1 DEF DeadlinePasses
<1>2. CASE Close
  <2>1. CASE StartCloses
    BY <1>2, <2>1 DEF Close, StartCloses, closerStep
  <2>2. CASE CheckDeadline
    BY <1>2, <2>2 DEF Close, CheckDeadline, closerStep
  <2>3. CASE Receive
    BY <1>2, <2>3 DEF Close, Receive, Ready, closerStep
  <2>4. CASE CheckAfter
    BY <1>2, <2>4 DEF Close, CheckAfter
  <2>5. CASE JoinErrors
    BY <1>2, <2>5 DEF Close, JoinErrors, closerStep
  <2> QED BY <1>2, <2>1, <2>2, <2>3, <2>4, <2>5 DEF Close
<1> QED BY <1>1, <1>2

\* A sink whose result was received has closed.
LEMMA SinkInv ==
  ASSUME TeeShape, TeeInv, NEW s \in Sinks, SinkCloses(s)
  PROVE  TeeShape' /\ TeeInv' /\ (s # Owner => sink'[Owner] = sink[Owner])
BY OwnerAssumption DEF TeeShape, TeeInv, SinkCloses

-----------------------------------------------------------------------------

LEMMA InitInv == TelemetryInit => IndInv
<1> SUFFICES ASSUME TelemetryInit PROVE IndInv
  OBVIOUS
<1>1. TeeShape /\ TeeInv /\ OwnerInv
  BY OwnerAssumption DEF TelemetryInit, Init, TeeShape, TeeInv, OwnerInv
<1>2. DispatcherShape
  <2>1. <<>> \in Seq(Reports)
    OBVIOUS
  <2> QED BY <2>1 DEF TelemetryInit, Dispatch!Init, DispatcherShape
<1>3. made = <<>> /\ before = {} /\ Dispatch!inSeq(made) = {}
  BY InSeqEmpty DEF TelemetryInit, Dispatch!Init
<1>4. RunInv /\ CloseByInv
  BY <1>3 DEF TelemetryInit, Dispatch!Init, RunInv, CloseByInv
<1> QED BY <1>1, <1>2, <1>4 DEF IndInv, DispatcherInv

LEMMA Inductive == TelemetrySpec => []IndInv
<1>1. IndInv /\ [TelemetryNext]_allVars => IndInv'
  <2> SUFFICES ASSUME IndInv, [TelemetryNext]_allVars PROVE IndInv'
    OBVIOUS
  <2>0. TeeShape /\ TeeInv /\ DispatcherInv /\ OwnerInv
    BY DEF IndInv
  <2>1. ASSUME UNCHANGED vars PROVE TeeShape' /\ TeeInv' /\ sink' = sink
    BY <2>0, <2>1 DEF vars, TeeShape, TeeInv
  <2>2. ASSUME UNCHANGED dispatcherVars PROVE DispatcherInv' /\ closeErr' = closeErr
    <3>1. /\ UNCHANGED <<made, queue, closed, drops, panics, timeouts, worker, current,
                         delivered, dispatcher, closeErr, before>>
          /\ Dispatch!inSeq(made)' = Dispatch!inSeq(made)
          /\ Dispatch!inSeq(queue)' = Dispatch!inSeq(queue)
          /\ Dispatch!inSeq(current)' = Dispatch!inSeq(current)
          /\ Dispatch!inSeq(delivered)' = Dispatch!inSeq(delivered)
      BY <2>2 DEF dispatcherVars
    <3> QED BY <2>0, <3>1 DEF DispatcherInv, DispatcherShape, RunInv, CloseByInv
  <2>3. CASE UNCHANGED allVars
    BY <2>0, <2>1, <2>2, <2>3 DEF allVars, IndInv, OwnerInv
  <2>4. CASE Report
    BY <2>0, <2>1, <2>4, ReportInv DEF Report, IndInv, OwnerInv
  <2>5. CASE RunDispatcher
    BY <2>0, <2>1, <2>5, WorkerInv DEF RunDispatcher, IndInv, OwnerInv
  <2>6. CASE closeDispatcher
    BY <2>0, <2>1, <2>6, CloserInv DEF closeDispatcher, IndInv, OwnerInv
  <2>7. CASE OwnerCloses
    <3>1. /\ dispatcher = "returned" /\ SinkCloses(Owner) /\ UNCHANGED dispatcherVars
          /\ closeErr = "error" => sink'[Owner] = "error"
      BY <2>7 DEF OwnerCloses
    <3>2. TeeShape' /\ TeeInv' /\ DispatcherInv' /\ closeErr' = closeErr
      BY <2>0, <2>2, <3>1, SinkInv, OwnerAssumption
    <3>3. closeErr \in {"nil", "error"}
      BY <2>0, <3>1 DEF DispatcherInv, DispatcherShape, CloseByInv
    <3> QED BY <3>1, <3>2, <3>3 DEF IndInv, OwnerInv
  <2>8. CASE OtherCloses
    BY <2>0, <2>2, <2>8, SinkInv DEF OtherCloses, IndInv, OwnerInv
  <2>9. CASE (Close \/ DeadlinePasses) /\ UNCHANGED dispatcherVars
    BY <2>0, <2>2, <2>9, CompositeInv DEF IndInv, OwnerInv
  <2> QED BY <2>3, <2>4, <2>5, <2>6, <2>7, <2>8, <2>9 DEF TelemetryNext
<1> QED BY InitInv, <1>1, PTL DEF TelemetrySpec

\* A nil from the composite Close, in time, is the whole truth: the sinks closed
\* without an error and the diagnostics were delivered (teeLogger.Close of
\* tee.go, closeBy of diagnostic.go).
THEOREM TimelyNilIsTrue == TelemetrySpec => []TimelyNilIsWhole
<1>1. IndInv => TimelyNilIsWhole
  <2> SUFFICES ASSUME IndInv, closeResult = "nil", ~late
               PROVE  /\ \A s \in Sinks : sink[s] = "nil"
                      /\ \A e \in before : \E i \in 1..Len(delivered) : delivered[i] = e
    BY DEF TimelyNilIsWhole, TimelyCloseIsComplete
  <2>1. \A s \in Sinks : sink[s] = "nil"
    BY DEF IndInv, TeeInv, TeeShape
  <2>2. before \subseteq Dispatch!inSeq(delivered)
    BY <2>1, OwnerAssumption DEF IndInv, OwnerInv, DispatcherInv, CloseByInv
  <2> QED BY <2>1, <2>2 DEF Dispatch!inSeq
<1> QED BY Inductive, <1>1, PTL

=============================================================================
