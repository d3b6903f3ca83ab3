----------------------------- MODULE Signatures -----------------------------
(* SymbolSignatures of the provider (internal/lsp/signatures.go): the      *)
(* symbols that have no signature in the source are asked of the language  *)
(* server by a pool of workers; the first failure cancels the others.      *)

EXTENDS Naturals, Sequences, FiniteSets

CONSTANTS N,         \* number of symbols
          Workers    \* the goroutines: maxConcurrentSignatureRequests of them

ASSUME SignaturesAssumption == N \in Nat /\ IsFiniteSet(Workers) /\ Workers # {}

Symbols == 1..N

VARIABLES
  canceled,    \* the caller's context has ended
  workDone,    \* workCtx has ended
  signatures,  \* the symbols whose signature is filled in
  indexes,     \* the indexes that were not handed out
  closed,      \* jobs is closed
  main,        \* where requestSignatures is
  wpc,         \* where each worker is
  job,         \* the index each worker has, or 0
  firstErr     \* none, failed, canceled

vars == <<canceled, workDone, signatures, indexes, closed, main, wpc, job, firstErr>>

TypeOK ==
  /\ canceled \in BOOLEAN /\ workDone \in BOOLEAN /\ closed \in BOOLEAN
  /\ signatures \subseteq Symbols
  /\ indexes \in Seq(Symbols)
  /\ main \in {"plan", "offer", "check", "close", "wait", "ok", "failed", "canceled"}
  /\ wpc \in [Workers -> {"none", "receive", "check", "request", "decode", "failed",
                          "canceled", "done"}]
  /\ job \in [Workers -> Symbols \cup {0}]
  /\ firstErr \in {"none", "failed", "canceled"}

Init ==
  /\ canceled = FALSE /\ workDone = FALSE
  /\ signatures = {} /\ indexes = <<>> /\ closed = FALSE
  /\ main = "plan"
  /\ wpc = [w \in Workers |-> "none"] /\ job = [w \in Workers |-> 0]
  /\ firstErr = "none"

Returned == {"ok", "failed", "canceled"}

\* The symbols of a set in their order: the one sequence that rises and holds
\* each of them.
inOrder(S) ==
  {s \in [1..Cardinality(S) -> S] :
     /\ \A i, j \in DOMAIN s : i < j => s[i] < s[j]
     /\ \A x \in S : \E i \in DOMAIN s : s[i] = x}

---------------------------------------------------------------------------
(* The caller                                                              *)

\* The file cannot be opened, a signature cannot be planned or a position is out
\* of range: return at once.  The file that a tool asks signatures for is open
\* already, so that no other opener's cancellation comes in here.
PlanFails ==
  /\ main = "plan" /\ N > 0
  /\ main' \in {"failed"} \cup (IF canceled THEN {"canceled"} ELSE {})
  /\ UNCHANGED <<canceled, workDone, signatures, indexes, closed, wpc, job, firstErr>>

\* The plans: signatures taken from the source, and the workers for the rest.
Plan ==
  /\ main = "plan"
  /\ \E direct \in SUBSET Symbols, S \in SUBSET Workers :
       /\ signatures' = direct
       /\ indexes' \in inOrder(Symbols \ direct)
       /\ main' = IF direct = Symbols THEN "ok" ELSE "offer"
       /\ \/ Cardinality(S) = N - Cardinality(direct)
          \/ S = Workers /\ Cardinality(S) < N - Cardinality(direct)
       /\ wpc' = [w \in Workers |-> IF w \in S THEN "receive" ELSE "none"]
  /\ workDone' = canceled
  /\ UNCHANGED <<canceled, closed, job, firstErr>>

\* Mutant: the caller offers an index to workers that may all have left.
OfferOnly ==
  /\ main = "offer"
  /\ \E w \in Workers :
       /\ wpc[w] = "receive"
       /\ wpc' = [wpc EXCEPT ![w] = "check"]
       /\ job' = [job EXCEPT ![w] = Head(indexes)]
  /\ main' = "check"
  /\ indexes' = Tail(indexes)
  /\ UNCHANGED <<canceled, workDone, signatures, closed, firstErr>>

\* The select of the dispatch loop: a worker takes the index, or workCtx ended.
Offer ==
  /\ main = "offer"
  /\ \/ \E w \in Workers :
          /\ wpc[w] = "receive"
          /\ wpc' = [wpc EXCEPT ![w] = "check"]
          /\ job' = [job EXCEPT ![w] = Head(indexes)]
     \/ workDone /\ UNCHANGED <<wpc, job>>
  /\ main' = "check"
  /\ indexes' = Tail(indexes)
  /\ UNCHANGED <<canceled, workDone, signatures, closed, firstErr>>

CheckWork ==
  /\ main = "check"
  /\ main' = IF workDone \/ indexes = <<>> THEN "close" ELSE "offer"
  /\ UNCHANGED <<canceled, workDone, signatures, indexes, closed, wpc, job, firstErr>>

CloseJobs ==
  /\ main = "close"
  /\ closed' = TRUE
  /\ main' = "wait"
  /\ UNCHANGED <<canceled, workDone, signatures, indexes, wpc, job, firstErr>>

workersDone == \A w \in Workers : wpc[w] \in {"none", "done"}

\* Mutant: only the error of a worker is looked at.
WaitIgnoresContext ==
  /\ main = "wait" /\ workersDone
  /\ main' = IF firstErr # "none" THEN firstErr ELSE "ok"
  /\ UNCHANGED <<canceled, workDone, signatures, indexes, closed, wpc, job, firstErr>>

\* wg.Wait, the first error, and the caller's own context.
WaitWorkers ==
  /\ main = "wait" /\ workersDone
  /\ main' = IF firstErr # "none" THEN firstErr
             ELSE IF canceled THEN "canceled" ELSE "ok"
  /\ UNCHANGED <<canceled, workDone, signatures, indexes, closed, wpc, job, firstErr>>

\* The caller's context ends, and workCtx with it.
Cancel ==
  /\ ~canceled /\ main \notin Returned
  /\ canceled' = TRUE
  /\ workDone' = TRUE
  /\ UNCHANGED <<signatures, indexes, closed, main, wpc, job, firstErr>>

---------------------------------------------------------------------------
(* A worker                                                                *)

move(w, from, to) == wpc[w] = from /\ wpc' = [wpc EXCEPT ![w] = to]

\* The range over jobs ends with the channel.
JobsEnd(w) ==
  /\ closed
  /\ move(w, "receive", "done")
  /\ UNCHANGED <<canceled, workDone, signatures, indexes, closed, main, job, firstErr>>

CheckJob(w) ==
  /\ move(w, "check", IF workDone THEN "done" ELSE "request")
  /\ UNCHANGED <<canceled, workDone, signatures, indexes, closed, main, job, firstErr>>

\* transport.call: an answer or an error, in the server's time.
Respond(w) ==
  /\ \/ move(w, "request", "decode")
     \/ move(w, "request", "failed")
  /\ UNCHANGED <<canceled, workDone, signatures, indexes, closed, main, job, firstErr>>

\* transport.call and runFiniteWork return when workCtx has ended.
WorkCanceled(w) ==
  /\ workDone
  /\ move(w, "request", "canceled") \/ move(w, "decode", "canceled")
  /\ UNCHANGED <<canceled, workDone, signatures, indexes, closed, main, job, firstErr>>

\* runFiniteWork(decode): a signature, or an error of the decoder; the end of
\* workCtx takes precedence.
Decode(w) ==
  /\ ~workDone
  /\ \/ /\ move(w, "decode", "receive")
        /\ signatures' = signatures \cup {job[w]}
        /\ job' = [job EXCEPT ![w] = 0]
     \/ move(w, "decode", "failed") /\ UNCHANGED <<signatures, job>>
  /\ UNCHANGED <<canceled, workDone, indexes, closed, main, firstErr>>

\* Mutant: the last error is kept.
KeepLastError(w) ==
  /\ wpc[w] \in {"failed", "canceled"}
  /\ wpc' = [wpc EXCEPT ![w] = "done"]
  /\ firstErr' = wpc[w] /\ workDone' = TRUE
  /\ UNCHANGED <<canceled, signatures, indexes, closed, main, job>>

\* errOnce: the first error is kept and cancels the work; the worker leaves.
KeepFirstError(w) ==
  /\ wpc[w] \in {"failed", "canceled"}
  /\ wpc' = [wpc EXCEPT ![w] = "done"]
  /\ IF firstErr = "none"
       THEN firstErr' = wpc[w] /\ workDone' = TRUE
       ELSE UNCHANGED <<firstErr, workDone>>
  /\ UNCHANGED <<canceled, signatures, indexes, closed, main, job>>

---------------------------------------------------------------------------

Caller == PlanFails \/ Plan \/ Offer \/ CheckWork \/ CloseJobs \/ WaitWorkers

\* What a worker does without waiting for the server.
Worker(w) == JobsEnd(w) \/ CheckJob(w) \/ WorkCanceled(w) \/ Decode(w) \/ KeepFirstError(w)

Next == Caller \/ Cancel \/ \E w \in Workers : Worker(w) \/ Respond(w)

\* Goroutines are scheduled; the server may never answer.
Spec ==
  /\ Init /\ [][Next]_vars
  /\ WF_vars(Caller) /\ \A w \in Workers : WF_vars(Worker(w))

---------------------------------------------------------------------------
(* Properties                                                              *)

\* A result without an error has a signature for every symbol, although workers
\* leave silently when the work was cancelled and the dispatch loop drops
\* indexes; and a caller whose context has not ended is told of the failure that
\* ended the work, never of the cancellation it caused in other workers.
OutcomeIsTrue ==
  /\ main = "ok" => signatures = Symbols
  /\ main = "canceled" => canceled

\* The work ends when the caller's context ends or a worker has failed, although
\* the server may never answer the others.
StopsEarly == (canceled \/ firstErr # "none") ~> (main \in Returned)

=============================================================================
