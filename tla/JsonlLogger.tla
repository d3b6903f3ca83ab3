----------------------------- MODULE JsonlLogger -----------------------------
(***************************************************************************)
(* The JSONL sink of package telemetry (jsonl.go, jsonl_lifecycle.go,      *)
(* deadline.go): callers of Log admit records to a bounded FIFO, one       *)
(* worker writes them to the file, and Close stops admission, drains,      *)
(* syncs and closes within a deadline, or abandons the worker.             *)
(*                                                                         *)
(* One Log call is made for each element of Records, and a step is one     *)
(* critical section, one channel operation, one atomic access or one call  *)
(* of the sink.  The four counters of events lost at admission are one     *)
(* number, because every reader of them adds them up; what is left out is  *)
(* the text of the records and of the diagnostics.  Contexts, the          *)
(* admission timer and the close deadline end by a nondeterministic step,  *)
(* and the sink may fail, write a part of a record, or never return.       *)
(***************************************************************************)
EXTENDS Integers, Sequences, FiniteSets

CONSTANTS Records,    \* the events callers log
          Capacity,   \* jsonlOptions.capacity, the size of queue and of slots
          NoRecord    \* what runWriter holds between two records

ASSUME NoRecordAssumption == NoRecord \notin Records
ASSUME RecordsAssumption == IsFiniteSet(Records)
ASSUME CapacityAssumption == Capacity \in Nat \ {0}

VARIABLES
  lpc,          \* where the Log call of each record is
  closedState,  \* JSONLLogger.closedState
  closed,       \* JSONLLogger.closed, and the queue channel is closed
  failed,       \* JSONLLogger.failed; failureStop is closed iff set
  abandoned,    \* JSONLLogger.abandoned
  slots,        \* occupied elements of the slots channel
  queue,        \* the queue channel
  worker,       \* where runWriter is
  current,      \* the record runWriter holds
  accepted, written, undelivered, pending,  \* counters of the accepted records
  drops,        \* queueTimeout + canceled + postClose + sinkFailure drops
  closer,       \* where closeBy is
  closeResult,  \* JSONLLogger.closeResult
  sinkErr,      \* one of writeErr, syncErr and closeErr is set
  sinkClosed,   \* sink.Close was called
  disk,         \* what the sink holds: <<record, "whole" | "part">>
  synced,       \* how much of it was synced
  sent,         \* history: the order in which records entered the queue
  before        \* history: the records whose Log had returned when Close began

logVars    == <<lpc, sent, drops>>
stopVars   == <<closedState, closed, failed, abandoned>>
countVars  == <<accepted, written, undelivered, pending>>
workerVars == <<worker, current>>
closeVars  == <<closer, closeResult, before>>
sinkVars   == <<sinkErr, sinkClosed, disk, synced>>
vars == <<logVars, stopVars, slots, queue, workerVars, countVars, closeVars, sinkVars>>

\* Program points of Log: those under admitMu.RLock, and those with a slot.
Reading == {"try", "wait", "recheck", "accepted", "send"}
Holding == {"recheck", "accepted", "send"}

\* Type correctness of the logger, its worker and its counters.  pending is a
\* uint64 that is decremented by adding ^0: that it never goes below zero, and
\* slots never above the capacity, is for the algorithm to ensure.
TypeOK ==
  /\ lpc \in [Records -> {"idle", "rlock", "queued", "dropped"} \cup Reading]
  /\ closedState \in BOOLEAN /\ closed \in BOOLEAN
  /\ failed \in BOOLEAN /\ abandoned \in BOOLEAN
  /\ slots \in 0..Capacity
  /\ queue \in Seq(Records)
  /\ worker \in {"receive", "got", "skip", "write", "wrote", "tore", "sync",
                 "close", "done"}
  /\ current \in Records \cup {NoRecord}
  /\ accepted \in Nat /\ written \in Nat /\ undelivered \in Nat /\ pending \in Nat
  /\ drops \in Nat
  /\ closer \in {"idle", "stopping", "locking", "waiting", "late", "abandon",
                 "diagnose", "returned"}
  /\ closeResult \in {"none", "nil", "error"}
  /\ sinkErr \in BOOLEAN /\ sinkClosed \in BOOLEAN
  /\ disk \in Seq(Records \X {"whole", "part"})
  /\ synced \in Nat
  /\ sent \in Seq(Records)
  /\ before \subseteq Records

Init ==
  /\ lpc = [r \in Records |-> "idle"] /\ sent = <<>> /\ drops = 0
  /\ closedState = FALSE /\ closed = FALSE /\ failed = FALSE /\ abandoned = FALSE
  /\ slots = 0 /\ queue = <<>>
  /\ worker = "receive" /\ current = NoRecord
  /\ accepted = 0 /\ written = 0 /\ undelivered = 0 /\ pending = 0
  /\ closer = "idle" /\ closeResult = "none" /\ before = {}
  /\ sinkErr = FALSE /\ sinkClosed = FALSE /\ disk = <<>> /\ synced = 0

-----------------------------------------------------------------------------
(* Log.                                                                    *)

goto(r, pc) == lpc' = [lpc EXCEPT ![r] = pc]
drop(r) == goto(r, "dropped") /\ drops' = drops + 1

\* The unlocked checks of logSnapshot; the record is then encoded.
LogStart(r) ==
  /\ lpc[r] = "idle"
  /\ \/ closedState /\ drop(r)
     \/ failed /\ drop(r)
     \/ ~closedState /\ ~failed /\ goto(r, "rlock") /\ UNCHANGED drops
  /\ UNCHANGED <<slots, queue, sent, accepted, pending>>

\* admitMu.RLock, which a waiting admitMu.Lock holds back, and the checks
\* under it.
AdmitLock(r) ==
  /\ lpc[r] = "rlock"
  /\ closer # "locking"
  /\ IF closed \/ failed THEN drop(r) ELSE goto(r, "try") /\ UNCHANGED drops
  /\ UNCHANGED <<slots, queue, sent, accepted, pending>>

takeSlot(r) ==
  /\ slots < Capacity
  /\ slots' = slots + 1
  /\ goto(r, "recheck")
  /\ UNCHANGED drops

\* trySlot without waiting; with the slots full, a context that has ended
\* drops the record at once.
TrySlot(r) ==
  /\ lpc[r] = "try"
  /\ \/ takeSlot(r)
     \/ /\ slots = Capacity
        /\ drop(r) \/ (goto(r, "wait") /\ UNCHANGED drops)
        /\ UNCHANGED slots
  /\ UNCHANGED <<queue, sent, accepted, pending>>

\* Mutant: the wait for a slot ends only with a slot.
WaitSlotOnly(r) ==
  /\ lpc[r] = "wait"
  /\ takeSlot(r)
  /\ UNCHANGED <<queue, sent, accepted, pending>>

\* The select of trySlot: a slot, or admissionStop, failureStop, the end of
\* the context or the timer, each of which loses the record.
WaitSlot(r) ==
  /\ lpc[r] = "wait"
  /\ takeSlot(r) \/ (drop(r) /\ UNCHANGED slots)
  /\ UNCHANGED <<queue, sent, accepted, pending>>

\* The checks after the wait; a refused record gives its slot back.
Recheck(r) ==
  /\ lpc[r] = "recheck"
  /\ \/ /\ closedState \/ failed
        /\ drop(r)
        /\ slots' = slots - 1
        /\ UNCHANGED accepted
     \/ /\ ~closedState /\ ~failed
        /\ goto(r, "accepted")
        /\ accepted' = accepted + 1
        /\ UNCHANGED <<slots, drops>>
  /\ UNCHANGED <<queue, sent, pending>>

CountPending(r) ==
  /\ lpc[r] = "accepted"
  /\ goto(r, "send")
  /\ pending' = pending + 1
  /\ UNCHANGED <<slots, queue, sent, accepted, drops>>

\* The send on queue, and admitMu.RUnlock.
Send(r) ==
  /\ lpc[r] = "send"
  /\ Len(queue) < Capacity
  /\ queue' = Append(queue, r)
  /\ sent' = Append(sent, r)
  /\ goto(r, "queued")
  /\ UNCHANGED <<slots, accepted, pending, drops>>

Log(r) ==
  /\ \/ LogStart(r) \/ AdmitLock(r) \/ TrySlot(r) \/ WaitSlot(r) \/ Recheck(r)
     \/ CountPending(r) \/ Send(r)
  /\ UNCHANGED <<stopVars, workerVars, written, undelivered, closeVars, sinkVars>>
-----------------------------------------------------------------------------
(* runWriter.                                                              *)

\* The range over queue: a record, or the end of a closed and empty channel.
\* The end of the loop looks at abandoned before it syncs.
Receive ==
  /\ worker = "receive"
  /\ \/ /\ queue # <<>>
        /\ current' = Head(queue)
        /\ queue' = Tail(queue)
        /\ worker' = "got"
     \/ /\ queue = <<>> /\ closed
        /\ worker' = IF abandoned THEN "done" ELSE "sync"
        /\ UNCHANGED <<current, queue>>
  /\ UNCHANGED <<failed, slots, countVars, sinkVars>>

\* An abandoned or failed logger writes no more.
Inspect ==
  /\ worker = "got"
  /\ worker' = IF abandoned \/ failed THEN "skip" ELSE "write"
  /\ UNCHANGED <<failed, slots, queue, current, countVars, sinkVars>>

\* writeAll: the record is written, or a part of it and an error; a closed sink
\* takes nothing.
WriteAll ==
  /\ worker = "write"
  /\ \/ /\ ~sinkClosed
        /\ disk' = Append(disk, <<current, "whole">>)
        /\ worker' = "wrote"
     \/ /\ disk' = disk \/ (~sinkClosed /\ disk' = Append(disk, <<current, "part">>))
        /\ worker' = "tore"
  /\ UNCHANGED <<failed, slots, queue, current, countVars, sinkErr, sinkClosed, synced>>

releaseSlot == slots' = slots - 1 /\ worker' = "receive" /\ current' = NoRecord

\* Mutant: a record that a late write finishes is counted although Close
\* already counted it as undelivered.
FinishWriteLate ==
  /\ worker \in {"wrote", "tore"}
  /\ failed' = (failed \/ worker = "tore")
  /\ sinkErr' = (sinkErr \/ worker = "tore")
  /\ written' = IF worker = "wrote" THEN written + 1 ELSE written
  /\ undelivered' = IF worker = "tore" THEN undelivered + 1 ELSE undelivered
  /\ pending' = pending - 1
  /\ releaseSlot
  /\ UNCHANGED <<queue, accepted, sinkClosed, disk, synced>>

\* Mutant: a failed write does not stop the writes behind it.
FinishWriteGoesOn ==
  /\ worker \in {"wrote", "tore"}
  /\ IF abandoned
       THEN UNCHANGED <<sinkErr, countVars>>
       ELSE /\ sinkErr' = (sinkErr \/ worker = "tore")
            /\ written' = IF worker = "wrote" THEN written + 1 ELSE written
            /\ undelivered' = IF worker = "tore" THEN undelivered + 1 ELSE undelivered
            /\ pending' = pending - 1
            /\ UNCHANGED accepted
  /\ releaseSlot
  /\ UNCHANGED <<failed, queue, sinkClosed, disk, synced>>

\* finishWrite, one critical section of accountMu.
FinishWrite ==
  /\ worker \in {"wrote", "tore"}
  /\ IF abandoned
       THEN UNCHANGED <<failed, sinkErr, countVars>>
       ELSE /\ failed' = (failed \/ worker = "tore")
            /\ sinkErr' = (sinkErr \/ worker = "tore")
            /\ written' = IF worker = "wrote" THEN written + 1 ELSE written
            /\ undelivered' = IF worker = "tore" THEN undelivered + 1 ELSE undelivered
            /\ pending' = pending - 1
            /\ UNCHANGED accepted
  /\ releaseSlot
  /\ UNCHANGED <<queue, sinkClosed, disk, synced>>

\* finishRecord(false), for releaseAbandoned too.
FinishSkipped ==
  /\ worker = "skip"
  /\ IF abandoned
       THEN UNCHANGED countVars
       ELSE /\ undelivered' = undelivered + 1
            /\ pending' = pending - 1
            /\ UNCHANGED <<accepted, written>>
  /\ releaseSlot
  /\ UNCHANGED <<failed, queue, sinkVars>>

\* sink.Sync, and the second look at abandoned.
Sync ==
  /\ worker = "sync"
  /\ \/ ~sinkClosed /\ synced' = Len(disk) /\ UNCHANGED sinkErr
     \/ sinkErr' = TRUE /\ UNCHANGED synced
  /\ worker' = IF abandoned THEN "done" ELSE "close"
  /\ UNCHANGED <<failed, slots, queue, current, countVars, sinkClosed, disk>>

\* closeSink, whoever comes first.
closeSink ==
  IF sinkClosed
    THEN UNCHANGED <<sinkClosed, sinkErr>>
    ELSE sinkClosed' = TRUE /\ sinkErr' \in {sinkErr, TRUE}

WorkerClose ==
  /\ worker = "close"
  /\ closeSink
  /\ worker' = "done"
  /\ UNCHANGED <<failed, slots, queue, current, countVars, disk, synced>>

runWriter ==
  /\ \/ Receive \/ Inspect \/ WriteAll \/ FinishWrite \/ FinishSkipped \/ Sync
     \/ WorkerClose
  /\ UNCHANGED <<logVars, closedState, closed, abandoned, closeVars>>

-----------------------------------------------------------------------------
(* closeBy, run once by closeOnce.                                         *)

closerStep(from, to) == closer = from /\ closer' = to

\* closedState.Store; then close(admissionStop), and admitMu.Lock waits.
StopAdmission ==
  /\ \/ /\ closerStep("idle", "stopping")
        /\ closedState' = TRUE
        /\ before' = {r \in Records : lpc[r] \in {"queued", "dropped"}}
     \/ closerStep("stopping", "locking") /\ UNCHANGED <<closedState, before>>
  /\ UNCHANGED <<closed, abandoned, undelivered, pending, closeResult>>

\* Mutant: the queue is closed without waiting for the callers in Log.
CloseQueueAtOnce ==
  /\ closerStep("locking", "waiting")
  /\ closed' = TRUE
  /\ UNCHANGED <<closedState, before, abandoned, undelivered, pending, closeResult>>

\* admitMu.Lock, close(queue) and Unlock: no caller is under RLock.
CloseQueue ==
  /\ closerStep("locking", "waiting")
  /\ \A r \in Records : lpc[r] \notin Reading
  /\ closed' = TRUE
  /\ UNCHANGED <<closedState, before, abandoned, undelivered, pending, closeResult>>

\* Mutant: Close waits for the worker without a deadline.
AwaitForever ==
  /\ closerStep("waiting", "diagnose") /\ worker = "done"
  /\ UNCHANGED <<closedState, closed, abandoned, undelivered, pending, closeResult,
                 before>>

\* receiveByDeadline(workerDone), and the last chance after a timeout.
AwaitWorker ==
  /\ \/ closerStep("waiting", "diagnose") /\ worker = "done"
     \/ closerStep("waiting", "late")
     \/ closerStep("late", "diagnose") /\ worker = "done"
     \/ closerStep("late", "abandon") /\ worker # "done"
  /\ UNCHANGED <<closedState, closed, abandoned, undelivered, pending, closeResult,
                 before>>

\* The critical section of accountMu in closeBy: what is pending is lost.
Abandon ==
  /\ closerStep("abandon", "diagnose")
  /\ abandoned' = TRUE
  /\ undelivered' = undelivered + pending
  /\ pending' = 0
  /\ UNCHANGED <<closedState, closed, closeResult, before>>

\* Mutant: only what was accepted and not delivered counts as lost.
lostAccepted == undelivered > 0

\* The events buildCloseError reports as lost.
lost == drops + undelivered > 0

\* diag.closeBy, which may report an error of its own, and buildCloseError.
BuildCloseError ==
  /\ closerStep("diagnose", "returned")
  /\ \/ closeResult' = "error"
     \/ ~sinkErr /\ ~lost /\ ~abandoned /\ closeResult' = "nil"
  /\ UNCHANGED <<closedState, closed, abandoned, undelivered, pending, before>>

closeBy ==
  /\ \/ StopAdmission \/ CloseQueue \/ AwaitWorker \/ Abandon \/ BuildCloseError
  /\ UNCHANGED <<logVars, failed, slots, queue, workerVars, accepted, written,
                 sinkVars>>

\* The goroutine an abandoned Close leaves behind.
CloseAbandonedSink ==
  /\ abandoned /\ ~sinkClosed
  /\ closeSink
  /\ UNCHANGED <<logVars, stopVars, slots, queue, workerVars, countVars, closeVars,
                 disk, synced>>

-----------------------------------------------------------------------------

Next ==
  \/ \E r \in Records : Log(r)
  \/ runWriter
  \/ closeBy
  \/ CloseAbandonedSink

\* Callers and Close are scheduled and their timers end; the sink may never
\* return, so nothing is assumed of the worker.
Fairness ==
  /\ \A r \in Records : WF_vars(Log(r))
  /\ WF_vars(closeBy /\ closer # "idle")

Spec == Init /\ [][Next]_vars
FairSpec == Spec /\ Fairness

-----------------------------------------------------------------------------
(* Safety.                                                                 *)

\* A caller that reaches the send on queue finds the channel open and a place
\* in it: the slots it and the records in front of it hold leave room, and
\* Close waits for it.  The send would otherwise panic, or block with
\* admitMu.RLock held.
SendIsSafe ==
  \A r \in Records : lpc[r] = "send" => ~closed /\ Len(queue) < Capacity

\* Every accepted record is counted once: as written, as undelivered or as
\* pending, the instant between accepted.Add and pending.Add aside, although
\* Close moves what is pending while the worker may be finishing a record.
Accounting ==
  accepted = written + undelivered + pending
               + Cardinality({r \in Records : lpc[r] = "accepted"})

Sink == INSTANCE BoundedSink WITH
  accepted <- accepted - Cardinality({r \in Records : lpc[r] = "accepted"}),
  delivered <- written,
  settled <- closer \in {"diagnose", "returned"}

\* The logger is a bounded sink: it accepts no more than fits, a record leaves
\* pending once, delivered or lost, and a Close that gave up on the worker, or
\* saw its end, has settled the account for good.
ImplementsBoundedSink == Sink!Spec

DiskIsPrefix ==
  /\ Len(disk) <= Len(sent)
  /\ \A i \in 1..Len(disk) :
       disk[i][1] = sent[i] /\ (i < Len(disk) => disk[i][2] = "whole")

\* Every event whose Log returned before Close, and every record ever accepted,
\* is in the file, which is synced to its end and closed.
DiskIsAll ==
  /\ \A r \in before : \E i \in 1..Len(disk) : disk[i] = <<r, "whole">>
  /\ Len(disk) = Len(sent)
  /\ synced = Len(disk)
  /\ sinkClosed

\* The file holds the accepted records in the order in which they entered the
\* queue, without a gap, nothing follows a record that was torn by a write error,
\* and a Close that reports no error lost nothing.
CleanCloseKeepsAll == DiskIsPrefix /\ (closeResult = "nil" => DiskIsAll)

\* Once Close returned nothing is pending, and the accounting of the accepted
\* records is final although an abandoned worker may still be writing.
SettledAfterClose ==
  [][closer = "returned" => UNCHANGED countVars /\ pending = 0]_vars

(* Liveness.                                                               *)

\* Log returns whatever the sink does: the callers of tools wait at most the
\* admission timeout.
LogReturns ==
  \A r \in Records : lpc[r] # "idle" ~> lpc[r] \in {"queued", "dropped"}

\* Close returns whatever the sink does, callers waiting for a slot included.
CloseReturns == closer # "idle" ~> closer = "returned"
=============================================================================
