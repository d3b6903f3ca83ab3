------------------------- MODULE JsonlLoggerProofs -------------------------
(***************************************************************************)
(* Proofs about JsonlLogger, for any finite set of records and any         *)
(* capacity: the send on the queue is safe, the counters account for every *)
(* accepted record, and the account is settled when Close returns.         *)
(*                                                                         *)
(* What ties the slots, the queue and the counters together is a count of  *)
(* the callers at certain points of Log; CountStep says how a step of one  *)
(* caller changes it, and everything else is arithmetic.                   *)
(*                                                                         *)
(* The last section follows the records themselves, from the queue through *)
(* the worker's hand to the file: a clean Close has kept all of them.      *)
(***************************************************************************)
EXTENDS JsonlLogger, FiniteSetTheorems, TLAPS

\* The points of Log.
Points == {"idle", "rlock", "queued", "dropped"} \cup Reading

\* The number of callers at one of the points P of Log.
Count(f, P) == Cardinality({r \in Records : f[r] \in P})

\* The worker holds a record, and with it a slot.
busy == IF worker \in {"got", "skip", "write", "wrote", "tore"} THEN 1 ELSE 0

\* Slots are held by the queue, by callers and by the worker.
SlotInv == slots = Len(queue) + Count(lpc, Holding) + busy

\* What is pending is in the queue, about to be sent or with the worker, until
\* Close gives it up.
PendInv ==
  IF abandoned THEN pending = 0
               ELSE pending = Len(queue) + Count(lpc, {"send"}) + busy

\* Close closes the queue when no caller is under the read lock; the worker
\* ends behind the last record, and Close passes it only by abandoning it.
CloseInv ==
  /\ closed <=> closer \in {"waiting", "late", "abandon", "diagnose", "returned"}
  /\ closed => \A r \in Records : lpc[r] \notin Reading
  /\ worker \in {"sync", "close", "done"} => closed /\ queue = <<>>
  /\ abandoned => closer \in {"diagnose", "returned"}
  /\ closer \in {"diagnose", "returned"} => abandoned \/ worker = "done"
  /\ worker \in {"got", "skip", "write", "wrote", "tore"} => current \in Records

AccountInv == accepted = written + undelivered + pending + Count(lpc, {"accepted"})

IndInv == TypeOK /\ SlotInv /\ PendInv /\ CloseInv /\ AccountInv

-----------------------------------------------------------------------------

\* A count is a natural number; a caller that moves from one point of Log to
\* another leaves the sets of points it was in and enters those it is in.
LEMMA CountStep ==
  ASSUME NEW f \in [Records -> Points], NEW P, NEW r \in Records, NEW l \in Points
  PROVE  /\ Count(f, P) \in Nat
         /\ f[r] \in P => Count(f, P) > 0
         /\ (l \in P <=> f[r] \in P) => Count([f EXCEPT ![r] = l], P) = Count(f, P)
         /\ l \in P /\ f[r] \notin P => Count([f EXCEPT ![r] = l], P) = Count(f, P) + 1
         /\ l \notin P /\ f[r] \in P => Count([f EXCEPT ![r] = l], P) = Count(f, P) - 1
<1> DEFINE A == {x \in Records : f[x] \in P}
           B == {x \in Records : [f EXCEPT ![r] = l][x] \in P}
<1>1. IsFiniteSet(A) /\ IsFiniteSet(B)
  BY RecordsAssumption, FS_Subset
<1>2. Cardinality(A) \in Nat /\ Cardinality(B) \in Nat
  BY <1>1, FS_CardinalityType
<1>3. f[r] \in P => Cardinality(A) > 0
  <2>1. f[r] \in P => A # {}
    OBVIOUS
  <2>2. A # {} => Cardinality(A) # 0
    BY <1>1, FS_EmptySet
  <2> QED BY <2>1, <2>2, <1>2
<1>4. (l \in P <=> f[r] \in P) => B = A
  OBVIOUS
<1>5. ASSUME l \in P, f[r] \notin P
      PROVE  Cardinality(B) = Cardinality(A) + 1
  <2>1. B = A \cup {r} /\ r \notin A
    BY <1>5
  <2> QED BY <2>1, <1>1, FS_AddElement
<1>6. ASSUME l \notin P, f[r] \in P
      PROVE  Cardinality(B) = Cardinality(A) - 1
  <2>1. B = A \ {r} /\ r \in A
    BY <1>6
  <2> QED BY <2>1, <1>1, FS_RemoveElement
<1> QED BY <1>2, <1>3, <1>4, <1>5, <1>6 DEF Count

\* The counts of an initial state.
LEMMA CountNone ==
  ASSUME NEW f, NEW P, \A r \in Records : f[r] \notin P
  PROVE  Count(f, P) = 0
<1>1. {r \in Records : f[r] \in P} = {}
  OBVIOUS
<1> QED BY <1>1, FS_EmptySet DEF Count

LEMMA InitInv == Init => IndInv
<1> SUFFICES ASSUME Init PROVE IndInv
  OBVIOUS
<1>1. TypeOK
  <2>1. lpc \in [Records -> {"idle", "rlock", "queued", "dropped"} \cup Reading]
    BY DEF Init
  <2>2. slots \in 0..Capacity
    BY CapacityAssumption DEF Init
  <2>3. queue \in Seq(Records) /\ disk \in Seq(Records \X {"whole", "part"})
        /\ sent \in Seq(Records)
    BY DEF Init
  <2> QED BY <2>1, <2>2, <2>3 DEF Init, TypeOK
<1>2. Count(lpc, Holding) = 0 /\ Count(lpc, {"send"}) = 0 /\ Count(lpc, {"accepted"}) = 0
  BY CountNone DEF Init, Holding
<1>3. SlotInv /\ PendInv /\ AccountInv
  BY <1>2 DEF Init, SlotInv, PendInv, AccountInv, busy
<1>4. CloseInv
  BY DEF Init, CloseInv, Reading
<1> QED BY <1>1, <1>3, <1>4 DEF IndInv

-----------------------------------------------------------------------------
(* Log.                                                                    *)

\* What a caller's move from its point to l does to the three counts.
LEMMA Moves ==
  ASSUME TypeOK, NEW r \in Records, NEW l \in Points, goto(r, l)
  PROVE  /\ lpc' \in [Records -> Points] /\ lpc'[r] = l
         /\ \A x \in Records \ {r} : lpc'[x] = lpc[x]
         /\ \A P \in {Holding, {"send"}, {"accepted"}} :
              /\ Count(lpc, P) \in Nat
              /\ lpc[r] \in P => Count(lpc, P) > 0
              /\ (l \in P <=> lpc[r] \in P) => Count(lpc', P) = Count(lpc, P)
              /\ l \in P /\ lpc[r] \notin P => Count(lpc', P) = Count(lpc, P) + 1
              /\ l \notin P /\ lpc[r] \in P => Count(lpc', P) = Count(lpc, P) - 1
<1>1. lpc \in [Records -> Points]
  BY DEF TypeOK, Points
<1>2. lpc' = [lpc EXCEPT ![r] = l]
  BY DEF goto
<1>3. lpc' \in [Records -> Points] /\ lpc'[r] = l
      /\ \A x \in Records \ {r} : lpc'[x] = lpc[x]
  BY <1>1, <1>2
<1>4. ASSUME NEW P \in {Holding, {"send"}, {"accepted"}}
      PROVE  /\ Count(lpc, P) \in Nat
             /\ lpc[r] \in P => Count(lpc, P) > 0
             /\ (l \in P <=> lpc[r] \in P) => Count(lpc', P) = Count(lpc, P)
             /\ l \in P /\ lpc[r] \notin P => Count(lpc', P) = Count(lpc, P) + 1
             /\ l \notin P /\ lpc[r] \in P => Count(lpc', P) = Count(lpc, P) - 1
  <2> DEFINE g == [lpc EXCEPT ![r] = l]
  <2>1. /\ Count(lpc, P) \in Nat
        /\ lpc[r] \in P => Count(lpc, P) > 0
        /\ (l \in P <=> lpc[r] \in P) => Count(g, P) = Count(lpc, P)
        /\ l \in P /\ lpc[r] \notin P => Count(g, P) = Count(lpc, P) + 1
        /\ l \notin P /\ lpc[r] \in P => Count(g, P) = Count(lpc, P) - 1
    BY <1>1, CountStep
  <2>2. lpc' = g
    BY <1>2
  <2> QED BY <2>1, <2>2
<1> QED BY <1>3, <1>4

\* The counts and lengths are natural numbers.
LEMMA Numbers ==
  ASSUME TypeOK
  PROVE  /\ Len(queue) \in Nat /\ busy \in {0, 1}
         /\ \A P \in {Holding, {"send"}, {"accepted"}} : Count(lpc, P) \in Nat
<1>1. ASSUME NEW P PROVE Count(lpc, P) \in Nat
  <2>1. IsFiniteSet({r \in Records : lpc[r] \in P})
    BY RecordsAssumption, FS_Subset
  <2> QED BY <2>1, FS_CardinalityType DEF Count
<1>2. Len(queue) \in Nat
  BY DEF TypeOK
<1> QED BY <1>1, <1>2 DEF busy

LEMMA LogInv ==
  ASSUME IndInv, NEW r \in Records, Log(r)
  PROVE  IndInv'
<1> USE DEF IndInv
<1>0. /\ UNCHANGED <<stopVars, workerVars, written, undelivered, closeVars, sinkVars>>
      /\ busy' = busy
  BY DEF Log, workerVars, busy
<1>1. CASE LogStart(r) \/ AdmitLock(r)
  <2>1. PICK l \in {"rlock", "dropped", "try"} :
          goto(r, l) /\ (l = "try" => ~closed) /\ drops' \in Nat
    BY <1>1 DEF LogStart, AdmitLock, drop, TypeOK
  <2>2. lpc[r] \in {"idle", "rlock"} /\ UNCHANGED <<slots, queue, sent, accepted, pending>>
    BY <1>1 DEF LogStart, AdmitLock
  <2>3. lpc' \in [Records -> Points] /\ lpc'[r] = l
        /\ \A x \in Records \ {r} : lpc'[x] = lpc[x]
    BY <2>1 DEF goto, TypeOK, Points, Reading
  <2>4. \A P \in {Holding, {"send"}, {"accepted"}} : Count(lpc', P) = Count(lpc, P)
    <3>1. l \in Points
      BY DEF Points, Reading
    <3>2. \A P \in {Holding, {"send"}, {"accepted"}} : l \notin P /\ lpc[r] \notin P
      BY <2>2 DEF Holding
    <3> QED BY <2>1, <3>1, <3>2, Moves
  <2>5. TypeOK'
    BY <1>0, <2>1, <2>2, <2>3 DEF TypeOK, Points, stopVars, workerVars, closeVars, sinkVars
  <2>6. SlotInv' /\ PendInv' /\ AccountInv'
    BY <1>0, <2>2, <2>4 DEF SlotInv, PendInv, AccountInv, stopVars
  <2>7. CloseInv'
    BY <1>0, <2>1, <2>2, <2>3
    DEF CloseInv, Reading, stopVars, closeVars, workerVars
  <2> QED BY <2>5, <2>6, <2>7
<1>2. CASE TrySlot(r) \/ WaitSlot(r)
  <2>1. lpc[r] \in {"try", "wait"} /\ UNCHANGED <<queue, sent, accepted, pending>>
    BY <1>2 DEF TrySlot, WaitSlot
  <2>2. ~closed
    BY <2>1 DEF CloseInv, Reading
  <2>3. CASE takeSlot(r)
    <3>1. goto(r, "recheck") /\ slots' = slots + 1 /\ slots < Capacity /\ drops' = drops
      BY <2>3 DEF takeSlot
    <3>2. lpc' \in [Records -> Points]
      BY <3>1, Moves DEF Points, Reading
    <3>3. /\ Count(lpc', Holding) = Count(lpc, Holding) + 1
          /\ Count(lpc', {"send"}) = Count(lpc, {"send"})
          /\ Count(lpc', {"accepted"}) = Count(lpc, {"accepted"})
      BY <2>1, <3>1, Moves DEF Points, Reading, Holding
    <3>4. slots' \in 0..Capacity
      BY <3>1, CapacityAssumption DEF TypeOK
    <3>5. TypeOK'
      BY <1>0, <2>1, <3>1, <3>2, <3>4 DEF TypeOK, Points, stopVars, workerVars, closeVars, sinkVars
    <3>6. SlotInv' /\ PendInv' /\ AccountInv'
      BY <1>0, <2>1, <3>1, <3>3, Numbers DEF SlotInv, PendInv, AccountInv, stopVars
    <3>7. CloseInv'
      BY <1>0, <2>1, <2>2 DEF CloseInv, stopVars, closeVars, workerVars
    <3> QED BY <3>5, <3>6, <3>7
  <2>4. CASE ~takeSlot(r)
    <3>1. PICK l \in {"wait", "dropped"} : goto(r, l) /\ drops' \in Nat /\ slots' = slots
      BY <1>2, <2>4 DEF TrySlot, WaitSlot, drop, TypeOK
    <3>2. lpc' \in [Records -> Points]
      BY <3>1, Moves DEF Points, Reading
    <3>3. \A P \in {Holding, {"send"}, {"accepted"}} : Count(lpc', P) = Count(lpc, P)
      BY <2>1, <3>1, Moves DEF Points, Reading, Holding
    <3>4. TypeOK'
      BY <1>0, <2>1, <3>1, <3>2 DEF TypeOK, Points, stopVars, workerVars, closeVars, sinkVars
    <3>5. SlotInv' /\ PendInv' /\ AccountInv'
      BY <1>0, <2>1, <3>1, <3>3 DEF SlotInv, PendInv, AccountInv, stopVars
    <3>6. CloseInv'
      BY <1>0, <2>1, <2>2 DEF CloseInv, stopVars, closeVars, workerVars
    <3> QED BY <3>4, <3>5, <3>6
  <2> QED BY <2>3, <2>4
<1>3. CASE Recheck(r)
  <2>1. lpc[r] = "recheck" /\ UNCHANGED <<queue, sent, pending>>
    BY <1>3 DEF Recheck
  <2>2. ~closed
    BY <2>1 DEF CloseInv, Reading
  <2>3. CASE drop(r) /\ slots' = slots - 1 /\ accepted' = accepted
    <3>1. goto(r, "dropped") /\ drops' \in Nat
      BY <2>3 DEF drop, TypeOK
    <3>2. lpc' \in [Records -> Points]
      BY <3>1, Moves DEF Points, Reading
    <3>3. /\ Count(lpc', Holding) = Count(lpc, Holding) - 1
          /\ Count(lpc, Holding) > 0
          /\ Count(lpc', {"send"}) = Count(lpc, {"send"})
          /\ Count(lpc', {"accepted"}) = Count(lpc, {"accepted"})
      BY <2>1, <3>1, Moves DEF Points, Reading, Holding
    <3>4. slots' \in 0..Capacity
      BY <2>3, <3>3, Numbers, CapacityAssumption DEF TypeOK, SlotInv
    <3>5. TypeOK'
      BY <1>0, <2>1, <2>3, <3>1, <3>2, <3>4
      DEF TypeOK, Points, stopVars, workerVars, closeVars, sinkVars
    <3>6. SlotInv' /\ PendInv' /\ AccountInv'
      BY <1>0, <2>1, <2>3, <3>3, Numbers DEF SlotInv, PendInv, AccountInv, stopVars
    <3>7. CloseInv'
      BY <1>0, <2>1, <2>2 DEF CloseInv, stopVars, closeVars, workerVars
    <3> QED BY <3>5, <3>6, <3>7
  <2>4. CASE goto(r, "accepted") /\ accepted' = accepted + 1 /\ UNCHANGED <<slots, drops>>
    <3>1. lpc' \in [Records -> Points]
      BY <2>4, Moves DEF Points, Reading
    <3>2. /\ Count(lpc', Holding) = Count(lpc, Holding)
          /\ Count(lpc', {"send"}) = Count(lpc, {"send"})
          /\ Count(lpc', {"accepted"}) = Count(lpc, {"accepted"}) + 1
      BY <2>1, <2>4, Moves DEF Points, Reading, Holding
    <3>3. TypeOK'
      BY <1>0, <2>1, <2>4, <3>1 DEF TypeOK, Points, stopVars, workerVars, closeVars, sinkVars
    <3>4. SlotInv' /\ PendInv' /\ AccountInv'
      BY <1>0, <2>1, <2>4, <3>2, Numbers DEF SlotInv, PendInv, AccountInv, TypeOK, stopVars
    <3>5. CloseInv'
      BY <1>0, <2>1, <2>2 DEF CloseInv, stopVars, closeVars, workerVars
    <3> QED BY <3>3, <3>4, <3>5
  <2> QED BY <1>3, <2>3, <2>4 DEF Recheck
<1>4. CASE CountPending(r)
  <2>1. /\ lpc[r] = "accepted" /\ goto(r, "send") /\ pending' = pending + 1
        /\ UNCHANGED <<slots, queue, sent, accepted, drops>>
    BY <1>4 DEF CountPending
  <2>2. ~closed /\ ~abandoned
    BY <2>1 DEF CloseInv, Reading
  <2>3. lpc' \in [Records -> Points]
    BY <2>1, Moves DEF Points, Reading
  <2>4. /\ Count(lpc', Holding) = Count(lpc, Holding)
        /\ Count(lpc', {"send"}) = Count(lpc, {"send"}) + 1
        /\ Count(lpc', {"accepted"}) = Count(lpc, {"accepted"}) - 1
    BY <2>1, Moves DEF Points, Reading, Holding
  <2>5. TypeOK'
    BY <1>0, <2>1, <2>3 DEF TypeOK, Points, stopVars, workerVars, closeVars, sinkVars
  <2>n. /\ Count(lpc, Holding) \in Nat /\ Count(lpc, {"send"}) \in Nat
        /\ Count(lpc, {"accepted"}) \in Nat /\ Len(queue) \in Nat /\ busy \in {0, 1}
    BY Numbers
  <2>s. SlotInv'
    BY <1>0, <2>1, <2>4 DEF SlotInv
  <2>p. PendInv'
    BY <1>0, <2>1, <2>2, <2>4, <2>n DEF PendInv, stopVars
  <2>a. AccountInv'
    BY <1>0, <2>1, <2>4, <2>n DEF AccountInv, TypeOK
  <2>6. SlotInv' /\ PendInv' /\ AccountInv'
    BY <2>s, <2>p, <2>a
  <2>7. CloseInv'
    BY <1>0, <2>1, <2>2 DEF CloseInv, stopVars, closeVars, workerVars
  <2> QED BY <2>5, <2>6, <2>7
<1>5. CASE Send(r)
  <2>1. /\ lpc[r] = "send" /\ goto(r, "queued")
        /\ queue' = Append(queue, r) /\ sent' = Append(sent, r)
        /\ UNCHANGED <<slots, accepted, pending, drops>>
    BY <1>5 DEF Send
  <2>2. ~closed /\ ~abandoned
    BY <2>1 DEF CloseInv, Reading
  <2>3. lpc' \in [Records -> Points]
    BY <2>1, Moves DEF Points, Reading
  <2>4. /\ Count(lpc', Holding) = Count(lpc, Holding) - 1
        /\ Count(lpc', {"send"}) = Count(lpc, {"send"}) - 1
        /\ Count(lpc', {"accepted"}) = Count(lpc, {"accepted"})
    BY <2>1, Moves DEF Points, Reading, Holding
  <2>5. queue' \in Seq(Records) /\ Len(queue') = Len(queue) + 1 /\ sent' \in Seq(Records)
    BY <2>1 DEF TypeOK
  <2>6. TypeOK'
    BY <1>0, <2>1, <2>3, <2>5 DEF TypeOK, Points, stopVars, workerVars, closeVars, sinkVars
  <2>n. /\ Count(lpc, Holding) \in Nat /\ Count(lpc, {"send"}) \in Nat
        /\ Count(lpc, {"accepted"}) \in Nat /\ Len(queue) \in Nat /\ busy \in {0, 1}
    BY Numbers
  <2>s. SlotInv'
    BY <1>0, <2>1, <2>4, <2>5, <2>n DEF SlotInv
  <2>p. PendInv'
    BY <1>0, <2>1, <2>2, <2>4, <2>5, <2>n DEF PendInv, stopVars
  <2>a. AccountInv'
    BY <1>0, <2>1, <2>4 DEF AccountInv
  <2>7. SlotInv' /\ PendInv' /\ AccountInv'
    BY <2>s, <2>p, <2>a
  <2>8. CloseInv'
    BY <1>0, <2>1, <2>2 DEF CloseInv, stopVars, closeVars, workerVars
  <2> QED BY <2>6, <2>7, <2>8
<1> QED BY <1>1, <1>2, <1>3, <1>4, <1>5 DEF Log

-----------------------------------------------------------------------------
(* runWriter.                                                              *)

LEMMA WriterInv ==
  ASSUME IndInv, runWriter
  PROVE  IndInv'
<1> USE DEF IndInv
<1>0. /\ lpc' = lpc /\ sent' = sent /\ drops' = drops
      /\ closedState' = closedState /\ closed' = closed /\ abandoned' = abandoned
      /\ closer' = closer /\ closeResult' = closeResult /\ before' = before
  BY DEF runWriter, logVars, closeVars
<1>n. /\ Count(lpc, Holding) \in Nat /\ Count(lpc, {"send"}) \in Nat
      /\ Count(lpc, {"accepted"}) \in Nat /\ Len(queue) \in Nat /\ busy \in {0, 1}
  BY Numbers
<1>p. IF abandoned THEN pending = 0
                   ELSE pending = Len(queue) + Count(lpc, {"send"}) + busy
  BY DEF PendInv
<1>1. CASE Receive /\ queue # <<>>
  <2>1. /\ worker = "receive" /\ worker' = "got"
        /\ current' = Head(queue) /\ queue' = Tail(queue)
        /\ UNCHANGED <<failed, slots, countVars, sinkVars>>
    BY <1>1 DEF Receive
  <2>2. /\ queue' \in Seq(Records) /\ current' \in Records
        /\ Len(queue') = Len(queue) - 1
    BY <1>1, <2>1 DEF TypeOK
  <2>3. busy = 0 /\ busy' = 1
    BY <2>1 DEF busy
  <2>4. TypeOK'
    BY <1>0, <2>1, <2>2 DEF TypeOK, countVars, sinkVars
  <2>5. SlotInv'
    BY <1>0, <1>n, <2>1, <2>2, <2>3 DEF SlotInv
  <2>6. PendInv'
    BY <1>0, <1>n, <1>p, <2>1, <2>2, <2>3 DEF PendInv, countVars
  <2>7. AccountInv'
    BY <1>0, <2>1 DEF AccountInv, countVars
  <2>8. CloseInv'
    BY <1>0, <2>1, <2>2 DEF CloseInv
  <2> QED BY <2>4, <2>5, <2>6, <2>7, <2>8
<1>2. CASE \/ Receive /\ queue = <<>>
           \/ Inspect \/ WriteAll \/ Sync \/ WorkerClose
  <2>1. /\ UNCHANGED <<failed, slots, queue, current, countVars>>
        /\ busy' = busy
    BY <1>2 DEF Receive, Inspect, WriteAll, Sync, WorkerClose, busy
  <2>2. worker' \in {"done", "sync", "skip", "write", "wrote", "tore", "close"}
    BY <1>2 DEF Receive, Inspect, WriteAll, Sync, WorkerClose
  <2>3. disk' \in Seq(Records \X {"whole", "part"})
    <3>1. CASE disk' = disk
      BY <3>1 DEF TypeOK
    <3>2. CASE disk' # disk
      <4>1. WriteAll
        BY <1>2, <3>2 DEF Receive, Inspect, Sync, WorkerClose, sinkVars
      <4>2. \E k \in {"whole", "part"} : disk' = Append(disk, <<current, k>>)
        BY <4>1, <3>2 DEF WriteAll
      <4>3. current \in Records
        BY <4>1 DEF WriteAll, CloseInv
      <4> QED BY <4>2, <4>3 DEF TypeOK
    <3> QED BY <3>1, <3>2
  <2>4. synced' \in Nat
    BY <1>2 DEF Receive, Inspect, WriteAll, Sync, WorkerClose, sinkVars, TypeOK
  <2>5. sinkErr' \in BOOLEAN /\ sinkClosed' \in BOOLEAN
    BY <1>2 DEF Receive, Inspect, WriteAll, Sync, WorkerClose, closeSink, sinkVars, TypeOK
  <2>6. TypeOK'
    BY <1>0, <2>1, <2>2, <2>3, <2>4, <2>5 DEF TypeOK, countVars
  <2>7. SlotInv' /\ AccountInv'
    BY <1>0, <2>1 DEF SlotInv, AccountInv, countVars
  <2>8. PendInv'
    BY <1>0, <1>p, <2>1 DEF PendInv, countVars
  <2>9. CloseInv'
    BY <1>0, <1>2, <2>1 DEF CloseInv, Receive, Inspect, WriteAll, Sync, WorkerClose
  <2> QED BY <2>6, <2>7, <2>8, <2>9
<1>3. CASE FinishWrite \/ FinishSkipped
  <2>1. /\ worker \in {"wrote", "tore", "skip"} /\ worker' = "receive"
        /\ slots' = slots - 1 /\ current' = NoRecord
        /\ UNCHANGED <<queue, accepted, sinkClosed, disk, synced>>
    BY <1>3 DEF FinishWrite, FinishSkipped, releaseSlot, countVars, sinkVars
  <2>2. busy = 1 /\ busy' = 0
    BY <2>1 DEF busy
  <2>3. slots' \in 0..Capacity
    BY <1>n, <2>1, <2>2, CapacityAssumption DEF SlotInv, TypeOK
  <2>4. failed' \in BOOLEAN /\ sinkErr' \in BOOLEAN
    BY <1>3 DEF FinishWrite, FinishSkipped, sinkVars, TypeOK
  <2>5. CASE abandoned
    <3>1. UNCHANGED countVars
      BY <1>3, <2>5 DEF FinishWrite, FinishSkipped
    <3>2. TypeOK'
      BY <1>0, <2>1, <2>3, <2>4, <3>1 DEF TypeOK, countVars
    <3>3. SlotInv' /\ PendInv' /\ AccountInv'
      BY <1>0, <1>n, <1>p, <2>1, <2>2, <2>5, <3>1
      DEF SlotInv, PendInv, AccountInv, countVars
    <3>4. CloseInv'
      BY <1>0, <2>1 DEF CloseInv
    <3> QED BY <3>2, <3>3, <3>4
  <2>6. CASE ~abandoned
    <3>1. /\ pending' = pending - 1
          /\ \/ written' = written + 1 /\ undelivered' = undelivered
             \/ written' = written /\ undelivered' = undelivered + 1
      BY <1>3, <2>6 DEF FinishWrite, FinishSkipped
    <3>2. pending' \in Nat /\ written' \in Nat /\ undelivered' \in Nat
      <4>1. pending = Len(queue) + Count(lpc, {"send"}) + busy
        BY <1>p, <2>6
      <4>2. pending' \in Nat
        BY <1>n, <2>2, <3>1, <4>1
      <4>3. written' \in Nat /\ undelivered' \in Nat
        BY <3>1 DEF TypeOK
      <4> QED BY <4>2, <4>3
    <3>3. TypeOK'
      BY <1>0, <2>1, <2>3, <2>4, <3>2 DEF TypeOK
    <3>4. SlotInv'
      BY <1>0, <1>n, <2>1, <2>2 DEF SlotInv
    <3>5. PendInv'
      BY <1>0, <1>n, <1>p, <2>1, <2>2, <2>6, <3>1 DEF PendInv
    <3>6. AccountInv'
      BY <1>0, <1>n, <2>1, <3>1 DEF AccountInv, TypeOK
    <3>7. CloseInv'
      BY <1>0, <2>1 DEF CloseInv
    <3> QED BY <3>3, <3>4, <3>5, <3>6, <3>7
  <2> QED BY <2>5, <2>6
<1> QED BY <1>1, <1>2, <1>3 DEF runWriter

-----------------------------------------------------------------------------
(* closeBy, and the goroutine that closes an abandoned sink.               *)

LEMMA CloserInv ==
  ASSUME IndInv, closeBy
  PROVE  IndInv'
<1> USE DEF IndInv
<1>0. /\ lpc' = lpc /\ sent' = sent /\ drops' = drops /\ failed' = failed
      /\ slots' = slots /\ queue' = queue /\ worker' = worker /\ current' = current
      /\ accepted' = accepted /\ written' = written /\ UNCHANGED sinkVars
      /\ busy' = busy
  BY DEF closeBy, logVars, workerVars, busy
<1>n. /\ Count(lpc, {"send"}) \in Nat /\ Count(lpc, {"accepted"}) \in Nat
      /\ Len(queue) \in Nat /\ busy \in {0, 1}
  BY Numbers
<1>s. SlotInv'
  BY <1>0 DEF SlotInv
<1>1. CASE StopAdmission \/ CloseQueue \/ AwaitWorker \/ BuildCloseError
  <2>1. UNCHANGED <<abandoned, undelivered, pending>>
    BY <1>1 DEF StopAdmission, CloseQueue, AwaitWorker, BuildCloseError
  <2>2. closedState' \in BOOLEAN /\ closed' \in BOOLEAN
    BY <1>1 DEF StopAdmission, CloseQueue, AwaitWorker, BuildCloseError, TypeOK
  <2>3. /\ closer' \in {"stopping", "locking", "waiting", "late", "abandon", "diagnose",
                        "returned"}
        /\ closeResult' \in {"none", "nil", "error"}
        /\ before' \subseteq Records
    BY <1>1 DEF StopAdmission, CloseQueue, AwaitWorker, BuildCloseError, closerStep, TypeOK
  <2>4. TypeOK'
    BY <1>0, <2>1, <2>2, <2>3 DEF TypeOK, sinkVars
  <2>5. PendInv' /\ AccountInv'
    BY <1>0, <2>1 DEF PendInv, AccountInv
  <2>6. CloseInv'
    <3>1. CASE StopAdmission
      BY <1>0, <2>1, <3>1 DEF StopAdmission, closerStep, CloseInv
    <3>2. CASE CloseQueue
      BY <1>0, <2>1, <3>2 DEF CloseQueue, closerStep, CloseInv
    <3>3. CASE AwaitWorker \/ BuildCloseError
      BY <1>0, <2>1, <3>3 DEF AwaitWorker, BuildCloseError, closerStep, CloseInv
    <3> QED BY <1>1, <3>1, <3>2, <3>3
  <2> QED BY <1>s, <2>4, <2>5, <2>6
<1>2. CASE Abandon
  <2>1. /\ closer = "abandon" /\ closer' = "diagnose" /\ abandoned' = TRUE
        /\ undelivered' = undelivered + pending /\ pending' = 0
        /\ UNCHANGED <<closedState, closed, closeResult, before>>
    BY <1>2 DEF Abandon, closerStep
  <2>2. undelivered' \in Nat
    BY <2>1 DEF TypeOK
  <2>3. TypeOK'
    BY <1>0, <2>1, <2>2 DEF TypeOK, sinkVars
  <2>4. PendInv'
    BY <2>1 DEF PendInv
  <2>5. AccountInv'
    BY <1>0, <1>n, <2>1 DEF AccountInv, TypeOK
  <2>6. CloseInv'
    BY <1>0, <2>1 DEF CloseInv
  <2> QED BY <1>s, <2>3, <2>4, <2>5, <2>6
<1> QED BY <1>1, <1>2 DEF closeBy

LEMMA SinkInv ==
  ASSUME IndInv, CloseAbandonedSink
  PROVE  IndInv'
<1> USE DEF IndInv
<1>1. /\ UNCHANGED <<logVars, stopVars, slots, queue, workerVars, countVars, closeVars,
                     disk, synced>>
      /\ busy' = busy
  BY DEF CloseAbandonedSink, busy, workerVars
<1>2. sinkErr' \in BOOLEAN /\ sinkClosed' \in BOOLEAN
  BY DEF CloseAbandonedSink, closeSink, TypeOK
<1>3. TypeOK'
  BY <1>1, <1>2 DEF TypeOK, logVars, stopVars, workerVars, countVars, closeVars
<1>4. SlotInv' /\ PendInv' /\ AccountInv'
  BY <1>1 DEF SlotInv, PendInv, AccountInv, logVars, stopVars, countVars
<1>5. CloseInv'
  BY <1>1 DEF CloseInv, logVars, stopVars, workerVars, closeVars
<1> QED BY <1>3, <1>4, <1>5

LEMMA StutterInv ==
  ASSUME IndInv, UNCHANGED vars
  PROVE  IndInv'
<1>1. /\ UNCHANGED <<lpc, sent, drops, closedState, closed, failed, abandoned, slots, queue,
                     worker, current, accepted, written, undelivered, pending, closer,
                     closeResult, before, sinkErr, sinkClosed, disk, synced>>
      /\ busy' = busy
  BY DEF vars, logVars, stopVars, workerVars, countVars, closeVars, sinkVars, busy
<1>2. TypeOK'
  BY <1>1 DEF IndInv, TypeOK
<1>3. SlotInv' /\ PendInv' /\ AccountInv'
  BY <1>1 DEF IndInv, SlotInv, PendInv, AccountInv
<1>4. CloseInv'
  BY <1>1 DEF IndInv, CloseInv
<1> QED BY <1>2, <1>3, <1>4 DEF IndInv

LEMMA NextInv == IndInv /\ [Next]_vars => IndInv'
<1> SUFFICES ASSUME IndInv, [Next]_vars PROVE IndInv'
  OBVIOUS
<1>1. CASE \E r \in Records : Log(r)
  BY <1>1, LogInv
<1>2. CASE runWriter
  BY <1>2, WriterInv
<1>3. CASE closeBy
  BY <1>3, CloserInv
<1>4. CASE CloseAbandonedSink
  BY <1>4, SinkInv
<1>5. CASE UNCHANGED vars
  BY <1>5, StutterInv
<1> QED BY <1>1, <1>2, <1>3, <1>4, <1>5 DEF Next

LEMMA Invariance == Spec => []IndInv
  BY InitInv, NextInv, PTL DEF Spec

-----------------------------------------------------------------------------

\* The logger's state is well typed; in particular no more than the capacity of
\* slots is ever taken, and pending and undelivered never wrap below zero.
THEOREM TypeCorrect == Spec => []TypeOK
  BY Invariance, PTL DEF IndInv

\* A caller that reaches the send of logSnapshot finds the queue open and with
\* room: the send neither panics nor blocks under the read lock.
THEOREM SendsAreSafe == Spec => []SendIsSafe
<1>1. IndInv => SendIsSafe
  <2> SUFFICES ASSUME IndInv, NEW r \in Records, lpc[r] = "send"
               PROVE  ~closed /\ Len(queue) < Capacity
    BY DEF SendIsSafe
  <2>1. ~closed
    BY DEF IndInv, CloseInv, Reading
  <2>2. Count(lpc, Holding) > 0 /\ Count(lpc, Holding) \in Nat
    BY CountStep DEF IndInv, TypeOK, Points, Holding
  <2>3. Len(queue) \in Nat /\ busy \in {0, 1}
    BY Numbers DEF IndInv
  <2>4. Len(queue) < Capacity
    BY <2>2, <2>3, CapacityAssumption DEF IndInv, SlotInv, TypeOK
  <2> QED BY <2>1, <2>4
<1> QED BY <1>1, Invariance, PTL

\* Every accepted record is in exactly one of the counters, whatever the races
\* between callers, worker and an abandoning Close.
THEOREM AccountsBalance == Spec => []Accounting
<1>1. IndInv => Accounting
  <2>1. {r \in Records : lpc[r] \in {"accepted"}} = {r \in Records : lpc[r] = "accepted"}
    OBVIOUS
  <2> QED BY <2>1 DEF IndInv, AccountInv, Count, Accounting
<1> QED BY <1>1, Invariance, PTL

\* When Close has returned nothing is pending, and no step of a late worker or
\* caller changes the account of the accepted records.
THEOREM CloseSettlesTheAccount == Spec => SettledAfterClose
<1>1. IndInv /\ [Next]_vars =>
        [closer = "returned" => UNCHANGED countVars /\ pending = 0]_vars
  <2> SUFFICES ASSUME IndInv, [Next]_vars, closer = "returned"
               PROVE  UNCHANGED countVars /\ pending = 0
    OBVIOUS
  <2>1. /\ closed /\ \A r \in Records : lpc[r] \notin Reading
        /\ ~abandoned => worker = "done" /\ queue = <<>>
    BY DEF IndInv, CloseInv
  <2>2. pending = 0
    <3>1. CASE abandoned
      BY <3>1 DEF IndInv, PendInv
    <3>2. CASE ~abandoned
      <4>1. Count(lpc, {"send"}) = 0
        BY <2>1, CountNone DEF Reading
      <4>2. busy = 0 /\ Len(queue) = 0
        BY <2>1, <3>2 DEF busy
      <4> QED BY <3>2, <4>1, <4>2 DEF IndInv, PendInv
    <3> QED BY <3>1, <3>2
  <2>3. CASE \E r \in Records : Log(r)
    <3>1. PICK r \in Records : Log(r)
      BY <2>3
    <3>2. UNCHANGED <<written, undelivered>>
      BY <3>1 DEF Log
    <3>3. UNCHANGED <<accepted, pending>>
      BY <2>1, <3>1
      DEF Log, LogStart, AdmitLock, TrySlot, WaitSlot, Recheck, CountPending, Send, Reading
    <3> QED BY <2>2, <3>2, <3>3 DEF countVars
  <2>4. CASE runWriter
    <3>1. CASE abandoned
      BY <2>2, <2>4, <3>1
      DEF runWriter, Receive, Inspect, WriteAll, FinishWrite, FinishSkipped, Sync, WorkerClose
    <3>2. CASE ~abandoned
      BY <2>1, <2>4, <3>2
      DEF runWriter, Receive, Inspect, WriteAll, FinishWrite, FinishSkipped, Sync, WorkerClose
    <3> QED BY <3>1, <3>2
  <2>5. CASE closeBy
    BY <2>5
    DEF closeBy, StopAdmission, CloseQueue, AwaitWorker, Abandon, BuildCloseError, closerStep
  <2>6. CASE CloseAbandonedSink \/ UNCHANGED vars
    BY <2>2, <2>6 DEF CloseAbandonedSink, vars
  <2> QED BY <2>3, <2>4, <2>5, <2>6 DEF Next
<1> QED BY <1>1, Invariance, PTL DEF Spec, SettledAfterClose

-----------------------------------------------------------------------------
(* The logger implements BoundedSink.                                      *)

\* The mapped accepted is what is delivered, lost or pending.
MappedSum ==
  /\ accepted - Cardinality({r \in Records : lpc[r] = "accepted"})
       = written + undelivered + pending
  /\ written \in Nat /\ undelivered \in Nat /\ pending \in Nat

\* It follows from the account of the accepted records.
LEMMA MappedAccepted == IndInv => MappedSum
<1> SUFFICES ASSUME IndInv PROVE MappedSum
  OBVIOUS
<1>1. {r \in Records : lpc[r] \in {"accepted"}} = {r \in Records : lpc[r] = "accepted"}
  OBVIOUS
<1>2. Count(lpc, {"accepted"}) = Cardinality({r \in Records : lpc[r] = "accepted"})
  BY <1>1 DEF Count
<1>3. IsFiniteSet({r \in Records : lpc[r] = "accepted"})
  BY RecordsAssumption, FS_Subset
<1>4. Cardinality({r \in Records : lpc[r] = "accepted"}) \in Nat
  BY <1>3, FS_CardinalityType
<1> QED BY <1>2, <1>4 DEF IndInv, AccountInv, TypeOK, MappedSum

\* What is pending has a slot.
Fits == pending <= Capacity

\* It follows from the account of the slots.
LEMMA PendingFits == IndInv => Fits
<1> SUFFICES ASSUME IndInv PROVE pending <= Capacity
  BY DEF Fits
<1>1. CASE abandoned
  BY <1>1, CapacityAssumption DEF IndInv, PendInv
<1>2. CASE ~abandoned
  <2> DEFINE A == {r \in Records : lpc[r] \in {"send"}}
             B == {r \in Records : lpc[r] \in Holding}
  <2>1. A \subseteq B /\ IsFiniteSet(B)
    BY RecordsAssumption, FS_Subset DEF Holding
  <2>2. Cardinality(A) <= Cardinality(B) /\ IsFiniteSet(A)
    BY <2>1, FS_Subset
  <2>3. Cardinality(A) \in Nat /\ Cardinality(B) \in Nat
    BY <2>1, <2>2, FS_CardinalityType
  <2>4. Count(lpc, {"send"}) = Cardinality(A) /\ Count(lpc, Holding) = Cardinality(B)
    BY DEF Count
  <2>5. Len(queue) \in Nat /\ busy \in {0, 1}
    BY Numbers DEF IndInv
  <2> HIDE DEF A, B
  <2> QED BY <1>2, <2>2, <2>3, <2>4, <2>5, CapacityAssumption
          DEF IndInv, PendInv, SlotInv, TypeOK
<1> QED BY <1>1, <1>2

\* The line is drawn when Close has passed the worker.
settledNow == closer \in {"diagnose", "returned"}

\* A step that moves the account in one of four ways is a step of the sink.
LEMMA SinkStep ==
  ASSUME IndInv, IndInv',
         \/ UNCHANGED <<written, undelivered, pending>> /\ settledNow' = settledNow
         \/ /\ ~settledNow /\ ~settledNow'
            /\ UNCHANGED <<written, undelivered>> /\ pending' = pending + 1
         \/ /\ ~settledNow /\ ~settledNow' /\ pending > 0 /\ pending' = pending - 1
            /\ \/ written' = written + 1 /\ UNCHANGED undelivered
               \/ undelivered' = undelivered + 1 /\ UNCHANGED written
         \/ /\ ~settledNow /\ settledNow' /\ UNCHANGED written
            /\ pending' = 0 /\ undelivered' = undelivered + pending
  PROVE  [Sink!Next]_(Sink!vars)
<1> DEFINE a == accepted - Cardinality({r \in Records : lpc[r] = "accepted"})
<1>a. MappedSum /\ MappedSum' /\ Fits'
  BY MappedAccepted, PendingFits, PTL
<1>1. a = written + undelivered + pending /\ a' = written' + undelivered' + pending'
  BY <1>a DEF MappedSum
<1>2. /\ written \in Nat /\ undelivered \in Nat /\ pending \in Nat
      /\ written' \in Nat /\ undelivered' \in Nat /\ pending' \in Nat
  BY <1>a DEF MappedSum
<1>3. pending' <= Capacity
  BY <1>a DEF Fits
<1>4. CASE UNCHANGED <<written, undelivered, pending>> /\ settledNow' = settledNow
  <2>1. a' = a
    BY <1>1, <1>4
  <2> QED BY <1>4, <2>1 DEF Sink!vars, settledNow
<1>5. CASE /\ ~settledNow /\ ~settledNow'
           /\ UNCHANGED <<written, undelivered>> /\ pending' = pending + 1
  <2>1. a' = a + 1 /\ pending < Capacity
    BY <1>1, <1>2, <1>3, <1>5, CapacityAssumption
  <2>2. Sink!Accept
    BY <1>5, <2>1 DEF Sink!Accept, settledNow
  <2> QED BY <2>2 DEF Sink!Next
<1>6. CASE /\ ~settledNow /\ ~settledNow' /\ pending > 0 /\ pending' = pending - 1
           /\ \/ written' = written + 1 /\ UNCHANGED undelivered
              \/ undelivered' = undelivered + 1 /\ UNCHANGED written
  <2>1. a' = a /\ 1 \in 1..pending
    BY <1>1, <1>2, <1>6
  <2>2. Sink!Deliver(1) \/ Sink!Lose(1)
    BY <1>6, <2>1 DEF Sink!Deliver, Sink!Lose, settledNow
  <2> QED BY <2>1, <2>2 DEF Sink!Next
<1>7. CASE /\ ~settledNow /\ settledNow' /\ UNCHANGED written
           /\ pending' = 0 /\ undelivered' = undelivered + pending
  <2>1. a' = a
    BY <1>1, <1>2, <1>7
  <2>2. Sink!Settle
    BY <1>7, <2>1 DEF Sink!Settle, settledNow
  <2> QED BY <2>2 DEF Sink!Next
<1> QED BY <1>4, <1>5, <1>6, <1>7

\* The JSONL logger implements the abstract bounded sink, for any number of
\* callers and any capacity: no race between callers, the worker and Close
\* accepts beyond the capacity, counts a record twice or moves a settled account.
THEOREM LoggerIsBoundedSink == Spec => ImplementsBoundedSink
<1>1. Init => Sink!Init
  <2> SUFFICES ASSUME Init PROVE Sink!Init
    OBVIOUS
  <2>1. {r \in Records : lpc[r] = "accepted"} = {}
    BY DEF Init
  <2>2. Cardinality({r \in Records : lpc[r] = "accepted"}) = 0
    BY <2>1, FS_EmptySet
  <2> QED BY <2>2 DEF Init, Sink!Init
<1>2. IndInv /\ IndInv' /\ [Next]_vars => [Sink!Next]_(Sink!vars)
  <2> SUFFICES ASSUME IndInv, IndInv', [Next]_vars PROVE [Sink!Next]_(Sink!vars)
    OBVIOUS
  <2>1. CASE \E r \in Records : Log(r)
    <3>1. PICK r \in Records : Log(r)
      BY <2>1
    <3>2. UNCHANGED <<written, undelivered, closer>>
      BY <3>1 DEF Log, closeVars
    <3>3. CASE CountPending(r)
      <4>1. ~settledNow /\ pending' = pending + 1
        BY <3>3 DEF CountPending, IndInv, CloseInv, Reading, settledNow
      <4>2. ~settledNow'
        BY <3>2, <4>1 DEF settledNow
      <4> QED BY <3>2, <4>1, <4>2, SinkStep
    <3>4. CASE ~CountPending(r)
      <4>1. UNCHANGED pending
        BY <3>1, <3>4 DEF Log, LogStart, AdmitLock, TrySlot, WaitSlot, Recheck, Send
      <4>2. settledNow' = settledNow
        BY <3>2 DEF settledNow
      <4> QED BY <3>2, <4>1, <4>2, SinkStep
    <3> QED BY <3>3, <3>4
  <2>2. CASE runWriter
    <3>1. settledNow' = settledNow
      BY <2>2 DEF runWriter, closeVars, settledNow
    <3>2. CASE (FinishWrite \/ FinishSkipped) /\ ~abandoned
      <4>1. /\ \/ written' = written + 1 /\ UNCHANGED undelivered
               \/ undelivered' = undelivered + 1 /\ UNCHANGED written
            /\ pending' = pending - 1
            /\ worker \in {"wrote", "tore", "skip"}
        BY <3>2 DEF FinishWrite, FinishSkipped
      <4>2. ~settledNow
        BY <3>2, <4>1 DEF IndInv, CloseInv, settledNow
      <4>3. busy = 1
        BY <4>1 DEF busy
      <4>4. pending = Len(queue) + Count(lpc, {"send"}) + 1
        BY <3>2, <4>3 DEF IndInv, PendInv
      <4>5. Len(queue) \in Nat /\ Count(lpc, {"send"}) \in Nat
        BY Numbers DEF IndInv
      <4>6. pending > 0
        BY <4>4, <4>5
      <4> QED BY <3>1, <4>1, <4>2, <4>6, SinkStep
    <3>3. CASE ~((FinishWrite \/ FinishSkipped) /\ ~abandoned)
      <4>1. UNCHANGED <<written, undelivered, pending>>
        BY <2>2, <3>3
        DEF runWriter, Receive, Inspect, WriteAll, FinishWrite, FinishSkipped, Sync,
            WorkerClose, countVars
      <4> QED BY <3>1, <4>1, SinkStep
    <3> QED BY <3>2, <3>3
  <2>3. CASE closeBy
    <3>1. UNCHANGED written
      BY <2>3 DEF closeBy
    <3>2. CASE Abandon
      <4>1. ~settledNow /\ settledNow' /\ pending' = 0 /\ undelivered' = undelivered + pending
        BY <3>2 DEF Abandon, closerStep, settledNow
      <4> QED BY <3>1, <4>1, SinkStep
    <3>3. CASE AwaitWorker /\ closer' = "diagnose"
      <4>1. ~settledNow /\ settledNow' /\ UNCHANGED <<undelivered, pending>> /\ worker = "done"
        BY <3>3 DEF AwaitWorker, closerStep, settledNow
      <4>2. ~abandoned /\ closed /\ queue = <<>> /\ \A r \in Records : lpc[r] \notin Reading
        BY <4>1 DEF IndInv, CloseInv, settledNow
      <4>3. Count(lpc, {"send"}) = 0
        BY <4>2, CountNone DEF Reading
      <4>4. busy = 0 /\ Len(queue) = 0
        BY <4>1, <4>2 DEF busy
      <4>5. pending = 0
        BY <4>2, <4>3, <4>4 DEF IndInv, PendInv
      <4>6. undelivered' = undelivered + pending /\ pending' = 0
        BY <4>1, <4>5 DEF IndInv, TypeOK
      <4> QED BY <3>1, <4>1, <4>6, SinkStep
    <3>4. CASE ~Abandon /\ ~(AwaitWorker /\ closer' = "diagnose")
      <4>1. UNCHANGED <<undelivered, pending>> /\ settledNow' = settledNow
        BY <2>3, <3>4
        DEF closeBy, StopAdmission, CloseQueue, AwaitWorker, BuildCloseError, closerStep,
            settledNow
      <4> QED BY <3>1, <4>1, SinkStep
    <3> QED BY <3>2, <3>3, <3>4
  <2>4. CASE CloseAbandonedSink \/ UNCHANGED vars
    <3>1. UNCHANGED <<written, undelivered, pending, closer>>
      BY <2>4 DEF CloseAbandonedSink, vars, countVars, closeVars
    <3>2. settledNow' = settledNow
      BY <3>1 DEF settledNow
    <3> QED BY <3>1, <3>2, SinkStep
  <2> QED BY <2>1, <2>2, <2>3, <2>4 DEF Next
<1> QED BY <1>1, <1>2, Invariance, PTL DEF Spec, ImplementsBoundedSink, Sink!Spec

-----------------------------------------------------------------------------
(* The file holds what was accepted, and a clean Close loses nothing.      *)

\* The number of records the worker has received; what is left is the queue.
received == Len(sent) - Len(queue)

\* No write failed and Close did not give up.
Sound == ~failed /\ ~abandoned

AllWhole == \A i \in 1..Len(disk) : disk[i][2] = "whole"

\* The queue is the end of what was sent, and the worker holds the record in
\* front of it.
QueueInv ==
  /\ Len(queue) <= Len(sent)
  /\ \A i \in 1..Len(queue) : queue[i] = sent[received + i]
  /\ busy = 1 => received > 0 /\ current = sent[received]
  /\ \A r \in Records : lpc[r] = "queued" => \E i \in 1..Len(sent) : sent[i] = r

\* The file is behind the worker by the record it is about to write; a worker that
\* lost a record never writes again, although an abandoned one may end its write.
DiskInv ==
  /\ DiskIsPrefix
  /\ Len(disk) <= received
  /\ worker = "write" \/ (worker = "got" /\ Sound) =>
       Len(disk) = received - 1 /\ AllWhole
  /\ worker = "wrote" \/ (worker \in {"receive", "sync", "close", "done"} /\ Sound) =>
       Len(disk) = received /\ AllWhole
  /\ worker = "skip" => ~Sound

\* A failed write is an error of the sink; without one the worker ends behind a
\* sync of the whole file and the close of the sink.
EndInv ==
  /\ failed => sinkErr
  /\ worker \in {"close", "done"} /\ ~abandoned /\ ~sinkErr => synced = Len(disk)
  /\ worker = "done" /\ ~abandoned => sinkClosed

\* Close reports nil only when nothing was dropped: what was logged before it was
\* queued.
NilInv ==
  /\ \A r \in Records : lpc[r] = "dropped" => drops > 0
  /\ closer = "idle" => before = {}
  /\ \A r \in before : lpc[r] \in {"queued", "dropped"}
  /\ closeResult = "nil" =>
       /\ closer = "returned" /\ ~abandoned /\ ~sinkErr
       /\ \A r \in before : lpc[r] = "queued"

KeepInv == QueueInv /\ DiskInv /\ EndInv /\ NilInv

\* What a step of Log does to the records that were queued or dropped.
LEMMA LogMoves ==
  ASSUME IndInv, NEW r \in Records, Log(r)
  PROVE  /\ lpc[r] \notin {"queued", "dropped"}
         /\ \A x \in Records \ {r} : lpc'[x] = lpc[x]
         /\ drops' \in Nat /\ drops' >= drops
         /\ lpc'[r] = "dropped" => drops' > 0
         /\ lpc'[r] = "queued" => Send(r)
<1>1. PICK l \in Points : goto(r, l) /\ (l = "queued" => Send(r))
  BY DEF Log, LogStart, AdmitLock, TrySlot, WaitSlot, takeSlot, Recheck, CountPending, Send,
         drop, Points, Reading
<1>2. lpc'[r] = l /\ \A x \in Records \ {r} : lpc'[x] = lpc[x]
  BY <1>1 DEF goto, IndInv, TypeOK
<1>3. lpc[r] \notin {"queued", "dropped"}
  BY DEF Log, LogStart, AdmitLock, TrySlot, WaitSlot, Recheck, CountPending, Send
<1>4. drops \in Nat
  BY DEF IndInv, TypeOK
<1>5. drops' = drops + 1 \/ (drops' = drops /\ ~drop(r))
  BY DEF Log, LogStart, AdmitLock, TrySlot, WaitSlot, takeSlot, Recheck, CountPending, Send,
         drop
<1>6. lpc'[r] = "dropped" => drops' = drops + 1
  <2> SUFFICES ASSUME lpc'[r] = "dropped" PROVE drops' = drops + 1
    OBVIOUS
  <2>1. ASSUME NEW k \in {"rlock", "try", "recheck", "wait", "accepted", "send", "queued"},
               goto(r, k)
        PROVE  FALSE
    BY <2>1 DEF goto, IndInv, TypeOK
  <2> QED BY <2>1 DEF Log, LogStart, AdmitLock, TrySlot, WaitSlot, takeSlot, Recheck,
                      CountPending, Send, drop
<1> QED BY <1>1, <1>2, <1>3, <1>4, <1>5, <1>6

\* The three sequences, as a caller leaves them.
LEMMA LogKeep ==
  ASSUME IndInv, KeepInv, NEW r \in Records, Log(r)
  PROVE  KeepInv'
<1> USE DEF KeepInv
<1>0. /\ UNCHANGED <<closedState, closed, failed, abandoned, worker, current, closer,
                     closeResult, before, sinkErr, sinkClosed, disk, synced>>
      /\ busy' = busy /\ Sound' = Sound /\ AllWhole' = AllWhole
  BY DEF Log, stopVars, workerVars, closeVars, sinkVars, busy, Sound, AllWhole
<1>t. /\ Len(queue) \in Nat /\ Len(sent) \in Nat /\ Len(disk) \in Nat
      /\ queue \in Seq(Records) /\ sent \in Seq(Records) /\ received \in Int
      /\ before \subseteq Records /\ drops \in Nat
  BY DEF IndInv, TypeOK, received
<1>m. /\ lpc[r] \notin {"queued", "dropped"}
      /\ \A x \in Records \ {r} : lpc'[x] = lpc[x]
      /\ drops' \in Nat /\ drops' >= drops
      /\ lpc'[r] = "dropped" => drops' > 0
      /\ lpc'[r] = "queued" => Send(r)
  BY LogMoves
<1>1. EndInv'
  BY <1>0 DEF EndInv
<1>2. NilInv'
  <2>1. \A x \in Records : lpc'[x] = "dropped" => drops' > 0
    BY <1>m, <1>t DEF NilInv
  <2>2. \A x \in before : x # r /\ lpc'[x] = lpc[x]
    BY <1>m, <1>t DEF NilInv
  <2> QED BY <1>0, <2>1, <2>2 DEF NilInv
<1>3. CASE Send(r)
  <2>1. queue' = Append(queue, r) /\ sent' = Append(sent, r)
    BY <1>3 DEF Send
  <2>2. /\ Len(queue') = Len(queue) + 1 /\ Len(sent') = Len(sent) + 1
        /\ received' = received
    BY <1>t, <2>1 DEF received
  <2>3. /\ \A i \in 1..Len(sent) : sent'[i] = sent[i]
        /\ \A i \in 1..Len(queue) : queue'[i] = queue[i]
        /\ sent'[Len(sent) + 1] = r /\ queue'[Len(queue) + 1] = r
    BY <1>t, <2>1
  <2>4. received + Len(queue) = Len(sent) /\ received >= 0
    BY <1>t DEF received, QueueInv
  <2>5. QueueInv'
    <3>1. Len(queue') <= Len(sent')
      BY <1>t, <2>2 DEF QueueInv
    <3>2. ASSUME NEW i \in 1..Len(queue') PROVE queue'[i] = sent'[received' + i]
      <4>1. CASE i = Len(queue) + 1
        BY <1>t, <2>2, <2>3, <2>4, <4>1
      <4>2. CASE i \in 1..Len(queue)
        <5>1. queue[i] = sent[received + i]
          BY <4>2 DEF QueueInv
        <5>2. received + i \in 1..Len(sent)
          BY <1>t, <2>4, <4>2
        <5> QED BY <2>2, <2>3, <4>2, <5>1, <5>2
      <4>3. i \in 1..(Len(queue) + 1)
        BY <2>2
      <4> QED BY <1>t, <4>1, <4>2, <4>3
    <3>3. busy' = 1 => received' > 0 /\ current' = sent'[received']
      BY <1>0, <1>t, <2>2, <2>3, <2>4 DEF QueueInv
    <3>4. ASSUME NEW x \in Records, lpc'[x] = "queued"
          PROVE  \E i \in 1..Len(sent') : sent'[i] = x
      <4>1. CASE x = r
        BY <1>t, <2>2, <2>3, <4>1
      <4>2. CASE x # r
        <5>1. PICK i \in 1..Len(sent) : sent[i] = x
          BY <1>m, <3>4, <4>2 DEF QueueInv
        <5>2. i \in 1..Len(sent') /\ sent'[i] = x
          BY <1>t, <2>2, <2>3, <5>1
        <5> QED BY <5>2
      <4> QED BY <4>1, <4>2
    <3> QED BY <3>1, <3>2, <3>3, <3>4 DEF QueueInv
  <2>6. DiskIsPrefix'
    BY <1>0, <1>t, <2>2, <2>3 DEF DiskInv, DiskIsPrefix
  <2>7. DiskInv'
    BY <1>0, <2>2, <2>6 DEF DiskInv
  <2> QED BY <1>1, <1>2, <2>5, <2>7
<1>4. CASE ~Send(r)
  <2>1. UNCHANGED <<queue, sent>> /\ received' = received
    BY <1>4 DEF Log, LogStart, AdmitLock, TrySlot, WaitSlot, Recheck, CountPending, received
  <2>2. QueueInv'
    BY <1>0, <1>m, <1>4, <2>1 DEF QueueInv
  <2>3. DiskInv'
    BY <1>0, <2>1 DEF DiskInv, DiskIsPrefix
  <2> QED BY <1>1, <1>2, <2>2, <2>3
<1> QED BY <1>3, <1>4

\* The worker writes the record it holds behind a file of whole records.
LEMMA WriteKeep ==
  ASSUME IndInv, KeepInv, runWriter, WriteAll
  PROVE  KeepInv'
<1> USE DEF KeepInv
<1>0. /\ UNCHANGED <<lpc, sent, drops, queue, failed, abandoned, current, closer, closeResult,
                     before, sinkErr, sinkClosed, synced>>
      /\ worker = "write" /\ worker' \in {"wrote", "tore"}
      /\ received' = received /\ busy = 1 /\ busy' = 1
  BY DEF runWriter, WriteAll, logVars, closeVars, received, busy
<1>t. /\ Len(queue) \in Nat /\ Len(sent) \in Nat /\ Len(disk) \in Nat /\ received \in Int
      /\ disk \in Seq(Records \X {"whole", "part"}) /\ current \in Records
  BY <1>0 DEF IndInv, TypeOK, received, CloseInv
<1>1. QueueInv'
  BY <1>0 DEF QueueInv
<1>2. EndInv' /\ NilInv'
  BY <1>0 DEF EndInv, NilInv
<1>3. Len(disk) = received - 1 /\ AllWhole /\ DiskIsPrefix /\ received <= Len(sent)
      /\ current = sent[received]
  BY <1>0, <1>t DEF DiskInv, QueueInv, received
<1>4. CASE disk' = disk /\ worker' = "tore"
  <2>1. DiskIsPrefix' /\ Len(disk') <= received'
    BY <1>0, <1>3, <1>t, <1>4 DEF DiskIsPrefix
  <2> QED BY <1>1, <1>2, <1>4, <2>1 DEF DiskInv
<1>5. CASE ~(disk' = disk /\ worker' = "tore")
  <2>1. PICK k \in {"whole", "part"} :
          disk' = Append(disk, <<current, k>>) /\ (worker' = "wrote" => k = "whole")
    BY <1>5 DEF WriteAll
  <2>2. /\ Len(disk') = received
        /\ \A i \in 1..Len(disk) : disk'[i] = disk[i]
        /\ disk'[received] = <<current, k>>
    BY <1>t, <1>3, <2>1
  <2>3. DiskIsPrefix'
    <3>1. Len(disk') <= Len(sent')
      BY <1>0, <1>3, <2>2
    <3>2. ASSUME NEW i \in 1..Len(disk')
          PROVE  disk'[i][1] = sent'[i] /\ (i < Len(disk') => disk'[i][2] = "whole")
      <4>1. CASE i = received
        BY <1>0, <1>3, <1>t, <2>2, <4>1
      <4>2. CASE i # received
        <5>1. i \in 1..Len(disk) /\ disk'[i] = disk[i]
          BY <1>3, <1>t, <2>2, <4>2
        <5> QED BY <1>0, <1>3, <5>1 DEF DiskIsPrefix, AllWhole
      <4> QED BY <4>1, <4>2
    <3> QED BY <3>1, <3>2 DEF DiskIsPrefix
  <2>4. worker' = "wrote" => AllWhole'
    <3> SUFFICES ASSUME worker' = "wrote", NEW i \in 1..Len(disk')
                 PROVE  disk'[i][2] = "whole"
      BY DEF AllWhole
    <3>1. CASE i = received
      BY <2>1, <2>2, <3>1
    <3>2. CASE i # received
      BY <1>3, <1>t, <2>2, <3>2 DEF AllWhole
    <3> QED BY <3>1, <3>2
  <2>5. DiskInv'
    BY <1>0, <1>t, <2>2, <2>3, <2>4 DEF DiskInv
  <2> QED BY <1>1, <1>2, <2>5
<1> QED BY <1>1, <1>2, <1>4, <1>5

\* The other steps of the worker.
LEMMA WorkerKeep ==
  ASSUME IndInv, KeepInv, runWriter
  PROVE  KeepInv'
<1> USE DEF KeepInv
<1>0. UNCHANGED <<lpc, sent, drops, closedState, closed, abandoned, closer, closeResult, before>>
  BY DEF runWriter, logVars, closeVars
<1>t. /\ Len(queue) \in Nat /\ Len(sent) \in Nat /\ Len(disk) \in Nat /\ received \in Int
      /\ queue \in Seq(Records) /\ sinkErr \in BOOLEAN /\ failed \in BOOLEAN
  BY DEF IndInv, TypeOK, received
\* A worker that has ended, and a Close that has returned nil, change no more.
<1>n. worker # "done"
  BY DEF runWriter, Receive, Inspect, WriteAll, FinishWrite, FinishSkipped, Sync, WorkerClose
<1>r. closeResult # "nil"
  BY <1>n DEF NilInv, IndInv, CloseInv
<1>l. NilInv'
  BY <1>0, <1>r DEF NilInv
<1>1. CASE WriteAll
  BY <1>1, WriteKeep
<1>2. CASE Receive /\ queue # <<>>
  <2>1. /\ worker = "receive" /\ worker' = "got"
        /\ current' = Head(queue) /\ queue' = Tail(queue)
        /\ UNCHANGED <<failed, sinkErr, sinkClosed, disk, synced>>
    BY <1>2 DEF Receive, sinkVars
  <2>2. /\ Len(queue) > 0 /\ Len(queue') = Len(queue) - 1 /\ current' = queue[1]
        /\ \A i \in 1..Len(queue') : queue'[i] = queue[i + 1]
    BY <1>2, <1>t, <2>1
  <2>3. received' = received + 1 /\ received >= 0
    BY <1>0, <1>t, <2>2 DEF received, QueueInv
  <2>4. QueueInv'
    <3>1. Len(queue') <= Len(sent')
      BY <1>0, <1>t, <2>2 DEF QueueInv
    <3>2. ASSUME NEW i \in 1..Len(queue') PROVE queue'[i] = sent'[received' + i]
      <4>1. i + 1 \in 1..Len(queue) /\ received + (i + 1) = received' + i
        BY <1>t, <2>2, <2>3
      <4>2. queue[i + 1] = sent[received + (i + 1)]
        BY <4>1 DEF QueueInv
      <4> QED BY <1>0, <2>2, <4>1, <4>2
    <3>3. received' > 0 /\ current' = sent'[received']
      <4>1. queue[1] = sent[received + 1]
        BY <1>t, <2>2 DEF QueueInv
      <4> QED BY <1>0, <1>t, <2>2, <2>3, <4>1
    <3>4. \A x \in Records : lpc'[x] = "queued" => \E i \in 1..Len(sent') : sent'[i] = x
      BY <1>0 DEF QueueInv
    <3> QED BY <3>1, <3>2, <3>3, <3>4 DEF QueueInv
  <2>5. DiskInv'
    BY <1>0, <1>t, <2>1, <2>3 DEF DiskInv, DiskIsPrefix, AllWhole, Sound
  <2>6. EndInv'
    BY <1>0, <2>1 DEF EndInv
  <2> QED BY <1>l, <2>4, <2>5, <2>6
<1>3. CASE (Receive /\ queue = <<>>) \/ Inspect
  <2>1. /\ UNCHANGED <<queue, current, failed, sinkErr, sinkClosed, disk, synced>>
        /\ received' = received /\ busy' = busy /\ Sound' = Sound /\ AllWhole' = AllWhole
    BY <1>0, <1>3 DEF Receive, Inspect, sinkVars, received, busy, Sound, AllWhole
  <2>2. \/ worker = "receive" /\ worker' = IF abandoned THEN "done" ELSE "sync"
        \/ worker = "got" /\ worker' = IF abandoned \/ failed THEN "skip" ELSE "write"
    BY <1>3 DEF Receive, Inspect
  <2>3. QueueInv'
    BY <1>0, <2>1 DEF QueueInv
  <2>4. DiskInv'
    <3>1. CASE worker = "receive"
      BY <1>0, <2>1, <2>2, <3>1 DEF DiskInv, DiskIsPrefix, Sound
    <3>2. CASE worker = "got"
      BY <1>0, <2>1, <2>2, <3>2 DEF DiskInv, DiskIsPrefix, Sound
    <3> QED BY <2>2, <3>1, <3>2
  <2>5. EndInv'
    BY <1>0, <2>1, <2>2 DEF EndInv
  <2> QED BY <1>l, <2>3, <2>4, <2>5
<1>4. CASE FinishWrite \/ FinishSkipped
  <2>1. /\ worker' = "receive" /\ worker \in {"wrote", "tore", "skip"}
        /\ UNCHANGED <<queue, sinkClosed, disk, synced>>
        /\ received' = received /\ busy' = 0 /\ AllWhole' = AllWhole
    BY <1>0, <1>4 DEF FinishWrite, FinishSkipped, releaseSlot, sinkVars, received, busy, AllWhole
  <2>2. /\ failed' => sinkErr'
        /\ Sound' => Sound /\ worker # "tore"
    <3>1. CASE FinishSkipped
      BY <1>0, <3>1 DEF FinishSkipped, sinkVars, EndInv, Sound
    <3>2. CASE FinishWrite /\ abandoned
      BY <1>0, <3>2 DEF FinishWrite, EndInv, Sound
    <3>3. CASE FinishWrite /\ ~abandoned
      <4>1. failed' = (failed \/ worker = "tore") /\ sinkErr' = (sinkErr \/ worker = "tore")
        BY <3>3 DEF FinishWrite
      <4>2. (failed' <=> failed \/ worker = "tore") /\ (sinkErr' <=> sinkErr \/ worker = "tore")
        BY <4>1, Zenon
      <4> QED BY <1>0, <3>3, <4>2 DEF EndInv, Sound
    <3> QED BY <1>4, <3>1, <3>2, <3>3
  <2>3. QueueInv'
    BY <1>0, <2>1 DEF QueueInv
  <2>4. DiskInv'
    BY <1>0, <2>1, <2>2 DEF DiskInv, DiskIsPrefix
  <2>5. EndInv'
    BY <2>1, <2>2 DEF EndInv
  <2> QED BY <1>l, <2>3, <2>4, <2>5
<1>5. CASE Sync \/ WorkerClose
  <2>1. /\ UNCHANGED <<queue, current, failed, disk>>
        /\ received' = received /\ busy' = busy /\ Sound' = Sound /\ AllWhole' = AllWhole
    BY <1>0, <1>5 DEF Sync, WorkerClose, received, busy, Sound, AllWhole
  <2>2. QueueInv'
    BY <1>0, <2>1 DEF QueueInv
  <2>3. /\ worker \in {"sync", "close"} /\ worker' \in {"close", "done"}
        /\ worker = "sync" => worker' = IF abandoned THEN "done" ELSE "close"
    BY <1>5 DEF Sync, WorkerClose
  <2>4. DiskInv'
    BY <1>0, <2>1, <2>3 DEF DiskInv, DiskIsPrefix
  <2>5. EndInv'
    <3>1. CASE Sync
      BY <1>0, <2>1, <2>3, <3>1 DEF Sync, EndInv
    <3>2. CASE WorkerClose
      <4>1. sinkClosed => (~sinkErr' => ~sinkErr) /\ sinkClosed'
        BY <3>2 DEF WorkerClose, closeSink
      <4>2. ASSUME ~sinkClosed PROVE (~sinkErr' => ~sinkErr) /\ sinkClosed'
        <5>1. sinkClosed' = TRUE /\ (sinkErr' = sinkErr \/ sinkErr' = TRUE)
          BY <3>2, <4>2 DEF WorkerClose, closeSink
        <5>2. sinkErr => sinkErr'
          BY <5>1
        <5> QED BY <5>1, <5>2
      <4>3. worker = "close" /\ UNCHANGED synced
        BY <3>2 DEF WorkerClose
      <4>4. (~sinkErr' => ~sinkErr) /\ sinkClosed'
        BY <4>1, <4>2
      <4> QED BY <1>0, <2>1, <4>3, <4>4 DEF EndInv
    <3> QED BY <1>5, <3>1, <3>2
  <2> QED BY <1>l, <2>2, <2>4, <2>5
<1> QED BY <1>1, <1>2, <1>3, <1>4, <1>5 DEF runWriter

\* Close, and the goroutine that closes an abandoned sink.
LEMMA CloserKeep ==
  ASSUME IndInv, KeepInv, closeBy \/ CloseAbandonedSink \/ UNCHANGED vars
  PROVE  KeepInv'
<1> USE DEF KeepInv
<1>0. /\ UNCHANGED <<lpc, sent, drops, failed, queue, worker, current, disk, synced>>
      /\ received' = received /\ busy' = busy /\ AllWhole' = AllWhole
  BY DEF closeBy, CloseAbandonedSink, vars, logVars, stopVars, workerVars, sinkVars, received,
         busy, AllWhole
<1>t. sinkErr \in BOOLEAN /\ abandoned \in BOOLEAN /\ drops \in Nat /\ undelivered \in Nat
      /\ before \subseteq Records
  BY DEF IndInv, TypeOK
<1>1. QueueInv'
  BY <1>0 DEF QueueInv
<1>2. abandoned => abandoned'
  BY DEF closeBy, StopAdmission, CloseQueue, AwaitWorker, Abandon, BuildCloseError,
         CloseAbandonedSink, vars, stopVars
<1>3. DiskInv'
  BY <1>0, <1>2 DEF DiskInv, DiskIsPrefix, Sound
<1>4. sinkErr' = sinkErr \/ (abandoned /\ sinkErr' = TRUE)
  <2>1. CASE CloseAbandonedSink
    BY <2>1 DEF CloseAbandonedSink, closeSink
  <2>2. CASE closeBy \/ UNCHANGED vars
    BY <2>2 DEF closeBy, vars, sinkVars
  <2> QED BY <2>1, <2>2
<1>5. sinkClosed => sinkClosed'
  <2>1. CASE CloseAbandonedSink
    BY <2>1 DEF CloseAbandonedSink, closeSink
  <2>2. CASE closeBy \/ UNCHANGED vars
    BY <2>2 DEF closeBy, vars, sinkVars
  <2> QED BY <2>1, <2>2
<1>6. EndInv'
  BY <1>0, <1>2, <1>4, <1>5, <1>t DEF EndInv
<1>7. NilInv'
  <2>1. CASE CloseAbandonedSink \/ UNCHANGED vars
    <3>1. UNCHANGED <<closer, closeResult, before, abandoned>>
      BY <2>1 DEF CloseAbandonedSink, vars, closeVars, stopVars
    <3>2. CASE UNCHANGED sinkErr
      BY <1>0, <3>1, <3>2 DEF NilInv
    <3>3. CASE ~UNCHANGED sinkErr
      BY <1>0, <1>4, <3>1, <3>3 DEF NilInv
    <3> QED BY <3>2, <3>3
  <2>2. CASE closeBy /\ ~BuildCloseError
    <3>1. closer # "returned" /\ closer' # "idle" /\ UNCHANGED closeResult
      BY <2>2 DEF closeBy, StopAdmission, CloseQueue, AwaitWorker, Abandon, closerStep
    <3>2. closeResult # "nil"
      BY <3>1 DEF NilInv
    <3>3. \/ UNCHANGED before
          \/ before' = {r \in Records : lpc[r] \in {"queued", "dropped"}}
      BY <2>2 DEF closeBy, StopAdmission, CloseQueue, AwaitWorker, Abandon
    <3> QED BY <1>0, <3>1, <3>2, <3>3 DEF NilInv
  <2>3. CASE closeBy /\ BuildCloseError
    <3>1. /\ closer' = "returned" /\ UNCHANGED <<abandoned, before, sinkErr>>
          /\ closeResult' = "nil" => ~sinkErr /\ ~lost /\ ~abandoned
      BY <2>3 DEF closeBy, BuildCloseError, closerStep, sinkVars
    <3>2. closeResult' = "nil" => drops = 0
      BY <1>t, <3>1 DEF lost
    <3>3. closeResult' = "nil" => \A r \in before : lpc[r] = "queued"
      BY <1>t, <3>2 DEF NilInv
    <3> QED BY <1>0, <3>1, <3>3 DEF NilInv
  <2> QED BY <2>1, <2>2, <2>3
<1> QED BY <1>1, <1>3, <1>6, <1>7

LEMMA KeepInit == Init => KeepInv
<1> SUFFICES ASSUME Init PROVE KeepInv
  OBVIOUS
<1>1. /\ Len(queue) = 0 /\ Len(sent) = 0 /\ Len(disk) = 0 /\ received = 0 /\ busy = 0
      /\ AllWhole
  BY DEF Init, received, busy, AllWhole
<1>2. QueueInv /\ DiskInv
  BY <1>1 DEF Init, QueueInv, DiskInv, DiskIsPrefix
<1> QED BY <1>2 DEF Init, KeepInv, EndInv, NilInv

\* The file holds the accepted records in order and without a gap, nothing behind a
\* torn one, and a Close that returns nil leaves every event that was logged before
\* it in a synced and closed file, for any number of callers and any capacity.
THEOREM CleanClosesKeepAll == Spec => []CleanCloseKeepsAll
<1>1. IndInv /\ KeepInv /\ [Next]_vars => KeepInv'
  BY LogKeep, WorkerKeep, CloserKeep DEF Next
<1>2. IndInv /\ KeepInv => CleanCloseKeepsAll
  <2> SUFFICES ASSUME IndInv, KeepInv, closeResult = "nil" PROVE DiskIsAll
    BY DEF CleanCloseKeepsAll, KeepInv, DiskInv
  <2>1. closer = "returned" /\ ~abandoned /\ ~sinkErr /\ \A r \in before : lpc[r] = "queued"
    BY DEF KeepInv, NilInv
  <2>2. worker = "done" /\ queue = <<>> /\ ~failed
    BY <2>1 DEF IndInv, CloseInv, KeepInv, EndInv
  <2>3. sinkClosed /\ synced = Len(disk)
    BY <2>1, <2>2 DEF KeepInv, EndInv
  <2>4. Len(sent) \in Nat /\ Len(queue) = 0 /\ before \subseteq Records
        /\ disk \in Seq(Records \X {"whole", "part"})
    BY <2>2 DEF IndInv, TypeOK
  <2>5. Len(disk) = Len(sent) /\ AllWhole
    BY <2>1, <2>2, <2>4 DEF KeepInv, DiskInv, Sound, received
  <2>6. ASSUME NEW r \in before PROVE \E i \in 1..Len(disk) : disk[i] = <<r, "whole">>
    <3>1. PICK i \in 1..Len(sent) : sent[i] = r
      BY <2>1, <2>4 DEF KeepInv, QueueInv
    <3>2. disk[i][1] = r /\ disk[i][2] = "whole" /\ disk[i] \in Records \X {"whole", "part"}
      BY <2>4, <2>5, <3>1 DEF KeepInv, DiskInv, DiskIsPrefix, AllWhole
    <3> QED BY <2>5, <3>2
  <2> QED BY <2>3, <2>5, <2>6 DEF DiskIsAll
<1> QED BY <1>1, <1>2, KeepInit, Invariance, PTL DEF Spec

=============================================================================
