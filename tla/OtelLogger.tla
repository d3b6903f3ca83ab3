----------------------------- MODULE OtelLogger -----------------------------
(* The OTLP mirror of package telemetry (otel.go): callers of Log take a   *)
(* token and end a span, the batch processor of the OpenTelemetry SDK      *)
(* exports spans in batches through observedExporter, and closeBy flushes, *)
(* shuts the processor down and gives up at its deadline.                  *)
(*                                                                         *)
(* The processor is external.  It is modelled by what otel.go relies on: a *)
(* bounded queue that drops a span it has no room for, one export at a     *)
(* time, ForceFlush and Shutdown that return when everything was exported  *)
(* or when their context ends, and an export that goes on behind them.     *)

EXTENDS Integers, FiniteSets

CONSTANTS Spans,      \* the events callers log, a span each
          Capacity,   \* otelOptions.queueCapacity
          BatchSize   \* otelOptions.batchSize

ASSUME OtelAssumption ==
  /\ IsFiniteSet(Spans)
  /\ Capacity \in Nat \ {0} /\ BatchSize \in 1..Capacity

VARIABLES
  lpc,          \* where the Log call of each span is
  tokens,       \* occupied elements of the tokens channel
  closedState,  \* OTELLogger.closedState
  closed,       \* OTELLogger.closed
  abandoned,    \* OTELLogger.abandoned
  accepted, exported, undelivered, pending,   \* otelCounters
  drops,        \* saturationDrops + postCloseDrops
  latched,      \* exportErr or shutdownErr is set
  queue,        \* external: the spans queued in the processor
  batch,        \* external: the spans the exporter was given
  stopped,      \* external: the processor is shut down: no, draining, exporter, done
  closer,       \* where closeBy is
  timedOut,     \* flushErr, shutdownErr or the clock told of the deadline
  closeResult,  \* OTELLogger.closeResult
  delivered,    \* history: the spans an export without error carried
  before        \* history: the spans whose Log had returned when Close began

logVars    == <<lpc, drops>>
stopVars   == <<closedState, closed, abandoned>>
countVars  == <<accepted, exported, undelivered, pending>>
sdkVars    == <<queue, batch, stopped>>
closeVars  == <<closer, timedOut, closeResult, before>>
vars == <<logVars, tokens, stopVars, countVars, latched, sdkVars, closeVars, delivered>>

Reading == {"token", "taken", "accepted", "pending"}

TypeOK ==
  /\ lpc \in [Spans -> {"idle", "rlock", "ended", "dropped"} \cup Reading]
  /\ tokens \in 0..Capacity
  /\ closedState \in BOOLEAN /\ closed \in BOOLEAN /\ abandoned \in BOOLEAN
  /\ accepted \in Nat /\ exported \in Nat /\ undelivered \in Nat /\ pending \in Nat
  /\ drops \in Nat /\ latched \in BOOLEAN
  /\ queue \subseteq Spans /\ batch \subseteq Spans
  /\ stopped \in {"no", "draining", "exporter", "done"}
  /\ closer \in {"idle", "stopping", "locking", "flush", "shutdown", "account",
                 "diagnose", "returned"}
  /\ timedOut \in BOOLEAN
  /\ closeResult \in {"none", "nil", "error"}
  /\ delivered \subseteq Spans /\ before \subseteq Spans

Init ==
  /\ lpc = [s \in Spans |-> "idle"] /\ drops = 0
  /\ tokens = 0
  /\ closedState = FALSE /\ closed = FALSE /\ abandoned = FALSE
  /\ accepted = 0 /\ exported = 0 /\ undelivered = 0 /\ pending = 0
  /\ latched = FALSE
  /\ queue = {} /\ batch = {} /\ stopped = "no"
  /\ closer = "idle" /\ timedOut = FALSE /\ closeResult = "none"
  /\ delivered = {} /\ before = {}

---------------------------------------------------------------------------
(* Log                                                                     *)

goto(s, pc) == lpc' = [lpc EXCEPT ![s] = pc]
drop(s) == goto(s, "dropped") /\ drops' = drops + 1

LogStart(s) ==
  /\ lpc[s] = "idle"
  /\ IF closedState THEN drop(s) ELSE goto(s, "rlock") /\ UNCHANGED drops
  /\ UNCHANGED <<tokens, accepted, pending, queue>>

\* admitMu.RLock, which a waiting Lock holds back, and the check under it.
AdmitLock(s) ==
  /\ lpc[s] = "rlock" /\ closer # "locking"
  /\ IF closed THEN drop(s) ELSE goto(s, "token") /\ UNCHANGED drops
  /\ UNCHANGED <<tokens, accepted, pending, queue>>

\* The select on tokens; a full channel loses the event.
TakeToken(s) ==
  /\ lpc[s] = "token"
  /\ IF tokens < Capacity
       THEN goto(s, "taken") /\ tokens' = tokens + 1 /\ UNCHANGED drops
       ELSE drop(s) /\ UNCHANGED tokens
  /\ UNCHANGED <<accepted, pending, queue>>

CountAccepted(s) ==
  /\ lpc[s] = "taken"
  /\ goto(s, "accepted")
  /\ accepted' = accepted + 1
  /\ UNCHANGED <<tokens, pending, drops, queue>>

CountPending(s) ==
  /\ lpc[s] = "accepted"
  /\ goto(s, "pending")
  /\ pending' = pending + 1
  /\ UNCHANGED <<tokens, accepted, drops, queue>>

\* span.End hands the span to the processor, which drops it when its queue is
\* full; and admitMu.RUnlock.
EndSpan(s) ==
  /\ lpc[s] = "pending"
  /\ goto(s, "ended")
  /\ queue' = IF Cardinality(queue) < Capacity /\ stopped = "no"
                THEN queue \cup {s} ELSE queue
  /\ UNCHANGED <<tokens, accepted, pending, drops>>

Log(s) ==
  /\ \/ LogStart(s) \/ AdmitLock(s) \/ TakeToken(s)
     \/ CountAccepted(s) \/ CountPending(s) \/ EndSpan(s)
  /\ UNCHANGED <<stopVars, exported, undelivered, latched, batch, stopped, closeVars,
                 delivered>>

---------------------------------------------------------------------------
(* The batch processor and its exporter                                    *)

\* A batch is full, its timer ended, or a flush or the drain wants it.
StartExport ==
  /\ batch = {}
  /\ \E b \in SUBSET queue :
       /\ b # {} /\ Cardinality(b) <= BatchSize
       /\ batch' = b
       /\ queue' = queue \ b
  /\ UNCHANGED <<logVars, tokens, stopVars, countVars, latched, stopped, closeVars, delivered>>

releaseTokens(n) == tokens' = tokens - n

\* Mutant: the account is settled without a look at abandoned.
finishExportLate(n, ok) ==
  /\ exported' = IF ok THEN exported + n ELSE exported
  /\ undelivered' = IF ok THEN undelivered ELSE undelivered + n
  /\ pending' = pending - n
  /\ latched' = (latched \/ ~ok)
  /\ releaseTokens(n)
  /\ UNCHANGED accepted

\* Mutant: an abandoned batch keeps its tokens.
finishExportKeepsTokens(n, ok) ==
  /\ IF abandoned
       THEN UNCHANGED <<tokens, exported, undelivered, pending, latched>>
       ELSE finishExportLate(n, ok)
  /\ UNCHANGED accepted

\* finishExport, one critical section of accountMu.
finishExport(n, ok) ==
  /\ IF abandoned
       THEN UNCHANGED <<exported, undelivered, pending, latched>>
       ELSE /\ exported' = IF ok THEN exported + n ELSE exported
            /\ undelivered' = IF ok THEN undelivered ELSE undelivered + n
            /\ pending' = pending - n
            /\ latched' = (latched \/ ~ok)
  /\ releaseTokens(n)
  /\ UNCHANGED accepted

\* observedExporter.ExportSpans: the exporter under it returned, in its own
\* time, with or without an error.
ExportSpans ==
  /\ batch # {}
  /\ \E ok \in BOOLEAN :
       /\ finishExport(Cardinality(batch), ok)
       /\ delivered' = IF ok THEN delivered \cup batch ELSE delivered
  /\ batch' = {}
  /\ UNCHANGED <<logVars, stopVars, queue, stopped, closeVars>>

\* The drained processor shuts the exporter down; a failure is latched.
StopExporter ==
  /\ stopped = "draining" /\ queue = {} /\ batch = {}
  /\ stopped' = "exporter"
  /\ UNCHANGED <<logVars, tokens, stopVars, countVars, latched, queue, batch, closeVars,
                 delivered>>

ShutdownExporter ==
  /\ stopped = "exporter"
  /\ stopped' = "done"
  /\ latched' \in {latched, TRUE}
  /\ UNCHANGED <<logVars, tokens, stopVars, countVars, queue, batch, closeVars, delivered>>

Processor == StartExport \/ ExportSpans \/ StopExporter \/ ShutdownExporter

---------------------------------------------------------------------------
(* closeBy, run once by closeOnce                                          *)

closerStep(from, to) == closer = from /\ closer' = to

StopAdmission ==
  /\ closerStep("idle", "stopping")
  /\ closedState' = TRUE
  /\ before' = {s \in Spans : lpc[s] \in {"ended", "dropped"}}
  /\ UNCHANGED <<closed, abandoned, undelivered, pending, stopped, timedOut, closeResult>>

\* admitMu.Lock is asked for, and granted when no caller is under RLock.
LockAdmission ==
  /\ \/ closerStep("stopping", "locking") /\ UNCHANGED closed
     \/ /\ closerStep("locking", "flush")
        /\ \A s \in Spans : lpc[s] \notin Reading
        /\ closed' = TRUE
  /\ UNCHANGED <<closedState, abandoned, undelivered, pending, stopped, timedOut,
                 closeResult, before>>

\* processor.ForceFlush: everything was exported, or the deadline passed.
ForceFlush ==
  /\ closerStep("flush", "shutdown")
  /\ \/ queue = {} /\ batch = {} /\ UNCHANGED timedOut
     \/ timedOut' = TRUE
  /\ stopped' = "draining"
  /\ UNCHANGED <<closedState, closed, abandoned, undelivered, pending, closeResult, before>>

\* Mutant: Shutdown waits for the exporter without a deadline.
ShutdownForever ==
  /\ closerStep("shutdown", "account")
  /\ stopped = "done"
  /\ UNCHANGED <<closedState, closed, abandoned, undelivered, pending, stopped,
                 timedOut, closeResult, before>>

\* processor.Shutdown: the exporter was shut down, or the deadline passed.
ShutdownProcessor ==
  /\ closerStep("shutdown", "account")
  /\ \/ stopped = "done" /\ UNCHANGED timedOut
     \/ timedOut' = TRUE
  /\ UNCHANGED <<closedState, closed, abandoned, undelivered, pending, stopped,
                 closeResult, before>>

\* The critical section of accountMu in closeBy, and the last look at the clock.
SettleAccount ==
  /\ closerStep("account", "diagnose")
  /\ abandoned' = (pending > 0)
  /\ undelivered' = undelivered + pending
  /\ pending' = 0
  /\ timedOut' \in {timedOut, TRUE}
  /\ UNCHANGED <<closedState, closed, stopped, closeResult, before>>

\* Mutant: spans lost to saturation are not part of the result.
lostSpans == undelivered > 0

\* The spans closeBy reports as lost.
lost == drops + undelivered > 0

\* diag.closeBy, which may add an error, and the joined result.
JoinErrors ==
  /\ closerStep("diagnose", "returned")
  /\ \/ closeResult' = "error"
     \/ ~latched /\ ~lost /\ ~timedOut /\ closeResult' = "nil"
  /\ UNCHANGED <<closedState, closed, abandoned, undelivered, pending, stopped, timedOut,
                 before>>

closeBy ==
  /\ \/ StopAdmission \/ LockAdmission \/ ForceFlush \/ ShutdownProcessor
     \/ SettleAccount \/ JoinErrors
  /\ UNCHANGED <<logVars, tokens, accepted, exported, latched, queue, batch, delivered>>

---------------------------------------------------------------------------

Next == (\E s \in Spans : Log(s)) \/ Processor \/ closeBy

\* Callers and Close are scheduled and contexts end at the deadline.  Nothing
\* is assumed of the exporter.
Fairness ==
  /\ \A s \in Spans : WF_vars(Log(s))
  /\ WF_vars(closeBy /\ closer # "idle")

Spec == Init /\ [][Next]_vars
FairSpec == Spec /\ Fairness

---------------------------------------------------------------------------
(* Properties                                                              *)

\* The tokens are the spans that a caller, the processor's queue or the exporter
\* holds, so that the processor always has room and drops nothing in silence.
TokensCoverSpans ==
  /\ tokens = Cardinality(queue) + Cardinality(batch)
                + Cardinality({s \in Spans : lpc[s] \in {"taken", "accepted", "pending"}})
  /\ \A s \in Spans : lpc[s] = "pending" => Cardinality(queue) < Capacity /\ stopped = "no"

\* A Close that reports no error exported every event whose Log had returned
\* before it, and every span ever accepted.
CleanCloseExportsAll ==
  closeResult = "nil" =>
    before \cup {s \in Spans : lpc[s] = "ended"} \subseteq delivered

inAdmission == Cardinality({s \in Spans : lpc[s] = "accepted"})

Sink == INSTANCE BoundedSink WITH
  accepted <- accepted - inAdmission, delivered <- exported,
  settled <- closer \in {"diagnose", "returned"}

\* The mirror is a bounded sink: every accepted span is pending, exported or
\* lost, each is counted once although batches finish behind an abandoning
\* Close, and the account is final when closeBy has settled it.
ImplementsBoundedSink == Sink!Spec

\* Close returns, although the exporter may never do.
CloseReturns == (closer # "idle") ~> (closer = "returned")

=============================================================================
