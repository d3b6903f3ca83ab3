-------------------------- MODULE SignaturesProofs --------------------------
(***************************************************************************)
(* Proofs about Signatures, for any number of symbols and any finite set   *)
(* of workers: a result has no holes, and a cancellation that is reported  *)
(* is the caller's own.                                                    *)
(***************************************************************************)
EXTENDS Signatures, FiniteSetTheorems, TLAPS

\* A worker that has an index and has not given it up.
Busy == {"check", "request", "decode", "failed"}

\* The work that ends was ended by the caller's context or by an error; a worker
\* is cancelled only when it has ended, and the first cancellation is the
\* caller's.
EndInv ==
  /\ workDone => canceled \/ firstErr # "none"
  /\ canceled \/ firstErr # "none" => workDone
  /\ \A w \in Workers : wpc[w] = "canceled" => workDone
  /\ firstErr = "canceled" => canceled

\* The workers start with the plan.
PlanInv == main = "plan" => (\A w \in Workers : wpc[w] = "none") /\ firstErr = "none"

\* The dispatch loop leaves indexes behind only when the work has ended.
DispatchInv ==
  /\ main = "offer" => indexes # <<>>
  /\ main \in {"close", "wait"} => workDone \/ indexes = <<>>

\* A worker that has an index has one of the symbols.
JobInv == \A w \in Workers : wpc[w] \in Busy => job[w] \in Symbols

\* A symbol without a signature is still to be handed out, or a worker has it.
Covered(i) ==
  \/ i \in signatures
  \/ \E k \in 1..Len(indexes) : indexes[k] = i
  \/ \E w \in Workers : job[w] = i /\ wpc[w] \in Busy

CoverInv ==
  main \in {"offer", "check", "close", "wait"} /\ ~workDone =>
    \A i \in Symbols : Covered(i)

IndInv ==
  TypeOK /\ EndInv /\ PlanInv /\ DispatchInv /\ JobInv /\ CoverInv /\ OutcomeIsTrue

-----------------------------------------------------------------------------

\* The indexes of a plan are a sequence of symbols.
LEMMA InOrderType ==
  ASSUME NEW S \in SUBSET Symbols, NEW s \in inOrder(S)
  PROVE  /\ s \in Seq(Symbols)
         /\ \A x \in S : \E k \in 1..Len(s) : s[k] = x
<1>1. Cardinality(S) \in Nat
  <2>1. IsFiniteSet(1..N)
    BY SignaturesAssumption, FS_Interval
  <2>2. IsFiniteSet(S)
    BY <2>1, FS_Subset DEF Symbols
  <2> QED BY <2>2, FS_CardinalityType
<1>2. s \in [1..Cardinality(S) -> S] /\ DOMAIN s = 1..Cardinality(S)
  BY DEF inOrder
<1>3. s \in Seq(Symbols) /\ Len(s) = Cardinality(S)
  BY <1>1, <1>2
<1> QED BY <1>2, <1>3 DEF inOrder

LEMMA InitInv == Init => IndInv
<1> SUFFICES ASSUME Init PROVE IndInv
  OBVIOUS
<1>1. indexes \in Seq(Symbols)
  BY DEF Init
<1>2. TypeOK
  BY <1>1 DEF Init, TypeOK
<1> QED BY <1>2
  DEF Init, IndInv, EndInv, PlanInv, DispatchInv, JobInv, CoverInv, OutcomeIsTrue, Busy

-----------------------------------------------------------------------------
(* The caller.                                                             *)

LEMMA PlanStep ==
  ASSUME IndInv, Plan
  PROVE  IndInv'
<1> USE DEF IndInv
<1>1. PICK direct \in SUBSET Symbols, S \in SUBSET Workers :
        /\ signatures' = direct
        /\ indexes' \in inOrder(Symbols \ direct)
        /\ main' = IF direct = Symbols THEN "ok" ELSE "offer"
        /\ wpc' = [w \in Workers |-> IF w \in S THEN "receive" ELSE "none"]
  BY DEF Plan
<1>2. /\ main = "plan" /\ workDone' = canceled
      /\ UNCHANGED <<canceled, closed, job, firstErr>>
  BY DEF Plan
<1>3. /\ indexes' \in Seq(Symbols)
      /\ \A x \in Symbols \ direct : \E k \in 1..Len(indexes') : indexes'[k] = x
  <2>1. Symbols \ direct \in SUBSET Symbols
    OBVIOUS
  <2> QED BY <1>1, <2>1, InOrderType
<1>4. TypeOK'
  BY <1>1, <1>2, <1>3 DEF TypeOK
<1>5. EndInv'
  BY <1>1, <1>2 DEF EndInv, PlanInv
<1>6. PlanInv' /\ JobInv' /\ OutcomeIsTrue'
  BY <1>1, <1>2 DEF PlanInv, JobInv, Busy, OutcomeIsTrue
<1>7. DispatchInv'
  <2>1. ASSUME direct # Symbols PROVE indexes' # <<>>
    <3>1. PICK x \in Symbols \ direct : TRUE
      BY <2>1
    <3>2. PICK k \in 1..Len(indexes') : indexes'[k] = x
      BY <1>3, <3>1
    <3> QED BY <1>3, <3>2
  <2> QED BY <1>1, <2>1 DEF DispatchInv
<1>8. CoverInv'
  BY <1>1, <1>3 DEF CoverInv, Covered
<1> QED BY <1>4, <1>5, <1>6, <1>7, <1>8

\* An index that is offered goes to a worker, unless the work has ended.
LEMMA OfferStep ==
  ASSUME IndInv, Offer
  PROVE  IndInv'
<1> USE DEF IndInv
<1>1. /\ main = "offer" /\ main' = "check" /\ indexes # <<>> /\ indexes' = Tail(indexes)
      /\ indexes \in Seq(Symbols)
      /\ UNCHANGED <<canceled, workDone, signatures, closed, firstErr>>
  BY DEF Offer, DispatchInv, TypeOK
<1>2. indexes' \in Seq(Symbols) /\ Head(indexes) \in Symbols
  BY <1>1
<1>3. \A k \in 1..Len(indexes) : k = 1 \/ k - 1 \in 1..Len(indexes')
  BY <1>1
<1>4. \A k \in 1..Len(indexes) :
        indexes[k] = Head(indexes)
          \/ \E j \in 1..Len(indexes') : indexes'[j] = indexes[k]
  BY <1>1, <1>3
<1>5. CASE workDone /\ UNCHANGED <<wpc, job>>
  BY <1>1, <1>2, <1>5
  DEF TypeOK, EndInv, PlanInv, DispatchInv, JobInv, CoverInv, OutcomeIsTrue
<1>6. ASSUME NEW w \in Workers, wpc[w] = "receive",
             wpc' = [wpc EXCEPT ![w] = "check"], job' = [job EXCEPT ![w] = Head(indexes)]
      PROVE  IndInv'
  <2>1. TypeOK'
    BY <1>1, <1>2, <1>6 DEF TypeOK
  <2>2. EndInv' /\ PlanInv' /\ DispatchInv' /\ OutcomeIsTrue'
    BY <1>1, <1>6 DEF TypeOK, EndInv, PlanInv, DispatchInv, OutcomeIsTrue
  <2>4. JobInv'
    BY <1>1, <1>2, <1>6 DEF TypeOK, JobInv
  <2>3. CoverInv'
    <3> SUFFICES ASSUME ~workDone, NEW i \in Symbols PROVE Covered(i)'
      BY <1>1 DEF CoverInv
    <3>1. Covered(i)
      BY <1>1 DEF CoverInv
    <3>2. CASE i \in signatures
      BY <1>1, <3>2 DEF Covered
    <3>3. CASE \E k \in 1..Len(indexes) : indexes[k] = i
      <4>1. i = Head(indexes) \/ \E j \in 1..Len(indexes') : indexes'[j] = i
        BY <1>4, <3>3
      <4>2. job'[w] = Head(indexes) /\ wpc'[w] \in Busy
        BY <1>6 DEF TypeOK, Busy
      <4> QED BY <4>1, <4>2 DEF Covered
    <3>4. CASE \E v \in Workers : job[v] = i /\ wpc[v] \in Busy
      <4>1. PICK v \in Workers : job[v] = i /\ wpc[v] \in Busy
        BY <3>4
      <4>2. v # w
        BY <1>6, <4>1 DEF Busy
      <4> QED BY <1>6, <4>1, <4>2 DEF Covered, TypeOK
    <3> QED BY <3>1, <3>2, <3>3, <3>4 DEF Covered
  <2> QED BY <2>1, <2>2, <2>3, <2>4
<1> QED BY <1>5, <1>6 DEF Offer

\* When the loop is over and every worker has left, there is nobody but the
\* signatures to cover a symbol.
LEMMA CallerStep ==
  ASSUME IndInv, PlanFails \/ CheckWork \/ CloseJobs \/ WaitWorkers \/ Cancel
  PROVE  IndInv'
<1> USE DEF IndInv
<1>1. CASE PlanFails
  BY <1>1 DEF PlanFails, TypeOK, EndInv, PlanInv, DispatchInv, JobInv, CoverInv, OutcomeIsTrue
<1>2. CASE CheckWork \/ CloseJobs
  <2>1. /\ main \in {"check", "close"} /\ main' \in {"offer", "close", "wait"}
        /\ closed' \in BOOLEAN
        /\ UNCHANGED <<canceled, workDone, signatures, indexes, wpc, job, firstErr>>
    BY <1>2 DEF CheckWork, CloseJobs, TypeOK
  <2>2. TypeOK' /\ EndInv' /\ PlanInv' /\ JobInv' /\ OutcomeIsTrue'
    BY <2>1 DEF TypeOK, EndInv, PlanInv, JobInv, OutcomeIsTrue
  <2>3. DispatchInv'
    BY <1>2 DEF CheckWork, CloseJobs, DispatchInv
  <2>4. CoverInv'
    BY <2>1 DEF CoverInv, Covered
  <2> QED BY <2>2, <2>3, <2>4
<1>3. CASE WaitWorkers
  <2>1. ASSUME ~workDone PROVE signatures = Symbols
    <3>1. indexes = <<>> /\ \A i \in Symbols : Covered(i)
      BY <1>3, <2>1 DEF WaitWorkers, DispatchInv, CoverInv
    <3>2. \A w \in Workers : wpc[w] \notin Busy
      BY <1>3 DEF WaitWorkers, workersDone, Busy
    <3>3. \A i \in Symbols : i \in signatures
      BY <3>1, <3>2 DEF Covered
    <3> QED BY <3>3 DEF TypeOK
  <2> QED BY <1>3, <2>1
    DEF WaitWorkers, TypeOK, EndInv, PlanInv, DispatchInv, JobInv, CoverInv, OutcomeIsTrue
<1>4. CASE Cancel
  BY <1>4
  DEF Cancel, Returned, TypeOK, EndInv, PlanInv, DispatchInv, JobInv, CoverInv, OutcomeIsTrue
<1> QED BY <1>1, <1>2, <1>3, <1>4

-----------------------------------------------------------------------------
(* A worker.                                                               *)

\* A worker that moves keeps its index, or the work has ended, or it had none.
LEMMA MoveStep ==
  ASSUME IndInv, NEW w \in Workers, JobsEnd(w) \/ CheckJob(w) \/ WorkCanceled(w) \/ Respond(w)
  PROVE  IndInv'
<1> USE DEF IndInv
<1>1. PICK l \in {"request", "decode", "failed", "canceled", "done"} :
        /\ wpc' = [wpc EXCEPT ![w] = l] /\ wpc[w] # "none"
        /\ l = "canceled" => workDone
        /\ ~workDone /\ wpc[w] \in Busy => l \in Busy
        /\ l \in Busy => wpc[w] \in Busy
  BY DEF JobsEnd, CheckJob, WorkCanceled, Respond, move, Busy
<1>2. UNCHANGED <<canceled, workDone, signatures, indexes, closed, main, job, firstErr>>
  BY DEF JobsEnd, CheckJob, WorkCanceled, Respond
<1>3. TypeOK'
  BY <1>1, <1>2 DEF TypeOK
<1>4. EndInv' /\ PlanInv' /\ DispatchInv' /\ JobInv' /\ OutcomeIsTrue'
  BY <1>1, <1>2 DEF TypeOK, EndInv, PlanInv, DispatchInv, JobInv, OutcomeIsTrue
<1>5. CoverInv'
  BY <1>1, <1>2 DEF TypeOK, CoverInv, Covered
<1> QED BY <1>3, <1>4, <1>5

LEMMA DecodeStep ==
  ASSUME IndInv, NEW w \in Workers, Decode(w)
  PROVE  IndInv'
<1> USE DEF IndInv
<1>1. ~workDone /\ wpc[w] = "decode"
      /\ UNCHANGED <<canceled, workDone, indexes, closed, main, firstErr>>
  BY DEF Decode, move
<1>2. CASE wpc' = [wpc EXCEPT ![w] = "receive"] /\ signatures' = signatures \cup {job[w]}
           /\ job' = [job EXCEPT ![w] = 0]
  <2>1. TypeOK' /\ EndInv' /\ PlanInv' /\ DispatchInv' /\ OutcomeIsTrue'
    BY <1>1, <1>2 DEF TypeOK, EndInv, PlanInv, DispatchInv, JobInv, OutcomeIsTrue, Busy
  <2>3. JobInv'
    BY <1>1, <1>2 DEF TypeOK, JobInv, Busy
  <2>2. CoverInv'
    BY <1>1, <1>2 DEF TypeOK, CoverInv, Covered
  <2> QED BY <2>1, <2>2, <2>3
<1>3. CASE wpc' = [wpc EXCEPT ![w] = "failed"] /\ UNCHANGED <<signatures, job>>
  <2>1. TypeOK' /\ EndInv' /\ PlanInv' /\ DispatchInv' /\ OutcomeIsTrue'
    BY <1>1, <1>3 DEF TypeOK, EndInv, PlanInv, DispatchInv, OutcomeIsTrue
  <2>3. JobInv'
    BY <1>1, <1>3 DEF TypeOK, JobInv, Busy
  <2>2. CoverInv'
    BY <1>1, <1>3 DEF TypeOK, CoverInv, Covered, Busy
  <2> QED BY <2>1, <2>2, <2>3
<1> QED BY <1>2, <1>3 DEF Decode, move

\* The first error is kept, and is a cancellation only if the caller's context
\* ended the work.
LEMMA KeepStep ==
  ASSUME IndInv, NEW w \in Workers, KeepFirstError(w)
  PROVE  IndInv'
<1> USE DEF IndInv
<1>1. TypeOK'
  BY DEF KeepFirstError, TypeOK
<1>2. workDone'
  BY DEF KeepFirstError, EndInv
<1>3. EndInv'
  BY <1>2 DEF KeepFirstError, TypeOK, EndInv
<1>4. PlanInv' /\ DispatchInv' /\ JobInv' /\ CoverInv' /\ OutcomeIsTrue'
  BY <1>2 DEF KeepFirstError, TypeOK, PlanInv, DispatchInv, JobInv, CoverInv,
              OutcomeIsTrue, Busy
<1> QED BY <1>1, <1>3, <1>4

-----------------------------------------------------------------------------

LEMMA Inductive == Spec => []IndInv
<1>1. IndInv /\ [Next]_vars => IndInv'
  <2> SUFFICES ASSUME IndInv, [Next]_vars PROVE IndInv'
    OBVIOUS
  <2>1. CASE UNCHANGED vars
    BY <2>1 DEF vars, IndInv, TypeOK, EndInv, PlanInv, DispatchInv, JobInv, CoverInv,
                Covered, OutcomeIsTrue
  <2>2. CASE Caller \/ Cancel
    BY <2>2, PlanStep, OfferStep, CallerStep DEF Caller
  <2>3. ASSUME NEW w \in Workers, Worker(w) \/ Respond(w) PROVE IndInv'
    BY <2>3, MoveStep, DecodeStep, KeepStep DEF Worker
  <2> QED BY <2>1, <2>2, <2>3 DEF Next
<1> QED BY InitInv, <1>1, PTL DEF Spec

\* The variables of requestSignatures keep their types.
THEOREM TypeCorrect == Spec => []TypeOK
<1>1. IndInv => TypeOK
  BY DEF IndInv
<1> QED BY Inductive, <1>1, PTL

\* What SymbolSignatures returns is the truth: a signature for every symbol, or
\* the error that ended the work.
THEOREM OutcomesAreTrue == Spec => []OutcomeIsTrue
<1>1. IndInv => OutcomeIsTrue
  BY DEF IndInv
<1> QED BY Inductive, <1>1, PTL

=============================================================================
