-------------------------- MODULE OtelLoggerProofs --------------------------
(***************************************************************************)
(* Proofs about OtelLogger, for any finite set of spans, any capacity and  *)
(* any batch size: the tokens cover the spans, so that the processor has   *)
(* room for each span it is given; a clean Close has exported everything;  *)
(* and the mirror implements BoundedSink.                                  *)
(*                                                                         *)
(* A batch may finish behind a Close that has abandoned it.  It gives its  *)
(* tokens back but is not counted again, so that the tokens and the        *)
(* pending spans are accounted for apart.                                  *)
(***************************************************************************)
EXTENDS OtelLogger, FiniteSetTheorems, TLAPS

\* The points of Log, and those at which the caller has a token.
Points  == {"idle", "rlock", "ended", "dropped"} \cup Reading
Holding == {"taken", "accepted", "pending"}

\* The number of callers at one of the points P of Log.
Count(f, P) == Cardinality({s \in Spans : f[s] \in P})

-----------------------------------------------------------------------------
(* The invariant.                                                          *)

\* A token is with a caller, or with a span that is queued or being exported.
TokenInv == tokens = Cardinality(queue) + Cardinality(batch) + Count(lpc, Holding)

\* So is what is pending, until Close gives it up.
PendInv ==
  IF abandoned
    THEN pending = 0
    ELSE pending = Cardinality(queue) + Cardinality(batch) + Count(lpc, {"pending"})

AccountInv == accepted = exported + undelivered + pending + Count(lpc, {"accepted"})

\* No caller is under the read lock once closed is set; Close passes spans that
\* were not exported only by missing its deadline, and those that were still
\* pending then are lost.
CloseInv ==
  /\ closed <=> closer \in {"flush", "shutdown", "account", "diagnose", "returned"}
  /\ closed => \A s \in Spans : lpc[s] \notin Reading
  /\ stopped # "no" => closed
  /\ abandoned => closer \in {"diagnose", "returned"} /\ undelivered > 0
  /\ closer \in {"diagnose", "returned"} => pending = 0
  /\ closer \in {"shutdown", "account", "diagnose", "returned"} /\ ~timedOut =>
       queue = {} /\ batch = {}
  /\ closeResult # "none" => closer = "returned"

\* Where the spans are: one that ended and is nowhere has failed, and what is
\* dropped is counted.
SpanInv ==
  /\ \A s \in queue \cup batch : lpc[s] = "ended"
  /\ ~latched /\ ~abandoned =>
       \A s \in Spans : lpc[s] = "ended" => s \in queue \cup batch \cup delivered
  /\ \A s \in Spans : lpc[s] = "dropped" => drops > 0
  /\ \A s \in before : lpc[s] \in {"ended", "dropped"}
  /\ CleanCloseExportsAll

Inv == TypeOK /\ TokenInv /\ PendInv /\ AccountInv /\ CloseInv /\ SpanInv

-----------------------------------------------------------------------------
(* Counting.                                                               *)

\* A count is a natural number; a caller that moves from one point of Log to
\* another leaves the sets of points it was in and enters those it is in.
LEMMA CountStep ==
  ASSUME NEW f \in [Spans -> Points], NEW P, NEW s \in Spans, NEW l \in Points
  PROVE  /\ Count(f, P) \in Nat
         /\ f[s] \in P => Count(f, P) > 0
         /\ (l \in P <=> f[s] \in P) => Count([f EXCEPT ![s] = l], P) = Count(f, P)
         /\ l \in P /\ f[s] \notin P => Count([f EXCEPT ![s] = l], P) = Count(f, P) + 1
         /\ l \notin P /\ f[s] \in P => Count([f EXCEPT ![s] = l], P) = Count(f, P) - 1
<1> DEFINE A == {x \in Spans : f[x] \in P}
           B == {x \in Spans : [f EXCEPT ![s] = l][x] \in P}
<1>1. IsFiniteSet(A)
  BY OtelAssumption, FS_Subset
<1>2. Cardinality(A) \in Nat
  BY <1>1, FS_CardinalityType
<1>3. f[s] \in P => Cardinality(A) > 0
  <2>1. f[s] \in P => A # {}
    OBVIOUS
  <2>2. A # {} => Cardinality(A) # 0
    BY <1>1, FS_EmptySet
  <2> QED BY <2>1, <2>2, <1>2
<1>4. (l \in P <=> f[s] \in P) => B = A
  OBVIOUS
<1>5. ASSUME l \in P, f[s] \notin P
      PROVE  Cardinality(B) = Cardinality(A) + 1
  <2>1. B = A \cup {s} /\ s \notin A
    BY <1>5
  <2> QED BY <2>1, <1>1, FS_AddElement
<1>6. ASSUME l \notin P, f[s] \in P
      PROVE  Cardinality(B) = Cardinality(A) - 1
  <2>1. B = A \ {s} /\ s \in A
    BY <1>6
  <2> QED BY <2>1, <1>1, FS_RemoveElement
<1> QED BY <1>2, <1>3, <1>4, <1>5, <1>6 DEF Count

\* With no caller at the points of P the count is zero.
LEMMA CountNone ==
  ASSUME NEW f, NEW P, \A s \in Spans : f[s] \notin P
  PROVE  Count(f, P) = 0
<1>1. {s \in Spans : f[s] \in P} = {}
  OBVIOUS
<1> QED BY <1>1, FS_EmptySet DEF Count

\* What a caller's move does to the three counts of the invariant.
LEMMA Moves ==
  ASSUME TypeOK, NEW s \in Spans, NEW l \in Points, goto(s, l)
  PROVE  /\ lpc' \in [Spans -> Points] /\ lpc'[s] = l
         /\ \A x \in Spans \ {s} : lpc'[x] = lpc[x]
         /\ \A P \in {Holding, {"pending"}, {"accepted"}} :
              /\ lpc[s] \in P => Count(lpc, P) > 0
              /\ (l \in P <=> lpc[s] \in P) => Count(lpc', P) = Count(lpc, P)
              /\ l \in P /\ lpc[s] \notin P => Count(lpc', P) = Count(lpc, P) + 1
              /\ l \notin P /\ lpc[s] \in P => Count(lpc', P) = Count(lpc, P) - 1
<1>1. lpc \in [Spans -> Points]
  BY DEF TypeOK, Points
<1>2. lpc' = [lpc EXCEPT ![s] = l]
  BY DEF goto
<1>3. lpc' \in [Spans -> Points] /\ lpc'[s] = l /\ \A x \in Spans \ {s} : lpc'[x] = lpc[x]
  BY <1>1, <1>2
<1>4. ASSUME NEW P
      PROVE  /\ lpc[s] \in P => Count(lpc, P) > 0
             /\ (l \in P <=> lpc[s] \in P) => Count(lpc', P) = Count(lpc, P)
             /\ l \in P /\ lpc[s] \notin P => Count(lpc', P) = Count(lpc, P) + 1
             /\ l \notin P /\ lpc[s] \in P => Count(lpc', P) = Count(lpc, P) - 1
  <2> DEFINE g == [lpc EXCEPT ![s] = l]
  <2>1. /\ lpc[s] \in P => Count(lpc, P) > 0
        /\ (l \in P <=> lpc[s] \in P) => Count(g, P) = Count(lpc, P)
        /\ l \in P /\ lpc[s] \notin P => Count(g, P) = Count(lpc, P) + 1
        /\ l \notin P /\ lpc[s] \in P => Count(g, P) = Count(lpc, P) - 1
    BY <1>1, CountStep
  <2> QED BY <1>2, <2>1
<1> QED BY <1>3, <1>4

\* The counts and cardinalities are natural numbers.
LEMMA Numbers ==
  ASSUME TypeOK
  PROVE  /\ IsFiniteSet(queue) /\ IsFiniteSet(batch)
         /\ Cardinality(queue) \in Nat /\ Cardinality(batch) \in Nat
         /\ Count(lpc, Holding) \in Nat /\ Count(lpc, {"pending"}) \in Nat
         /\ Count(lpc, {"accepted"}) \in Nat
<1>1. ASSUME NEW P PROVE Count(lpc, P) \in Nat
  <2>1. IsFiniteSet({s \in Spans : lpc[s] \in P})
    BY OtelAssumption, FS_Subset
  <2> QED BY <2>1, FS_CardinalityType DEF Count
<1>2. IsFiniteSet(queue) /\ IsFiniteSet(batch)
  BY OtelAssumption, FS_Subset DEF TypeOK
<1> QED BY <1>1, <1>2, FS_CardinalityType

LEMMA InitInv == Init => Inv
<1> SUFFICES ASSUME Init PROVE Inv
  OBVIOUS
<1>1. TypeOK
  <2>1. tokens \in 0..Capacity
    BY OtelAssumption DEF Init
  <2> QED BY <2>1 DEF Init, TypeOK
<1>2. Count(lpc, Holding) = 0 /\ Count(lpc, {"pending"}) = 0 /\ Count(lpc, {"accepted"}) = 0
  BY CountNone DEF Init, Holding
<1>3. TokenInv /\ PendInv /\ AccountInv
  BY <1>2, FS_EmptySet DEF Init, TokenInv, PendInv, AccountInv
<1>4. CloseInv /\ SpanInv
  BY DEF Init, CloseInv, SpanInv, CleanCloseExportsAll, Reading
<1> QED BY <1>1, <1>3, <1>4 DEF Inv

-----------------------------------------------------------------------------
(* Log.                                                                    *)

\* A step of Log that leaves the processor's queue alone keeps what is known of
\* Close and of the spans.
LEMMA LogFrame ==
  ASSUME Inv, NEW s \in Spans, NEW l \in Points, goto(s, l), lpc[s] # "ended",
         l # "ended", lpc[s] # "dropped", l = "dropped" => drops' > 0,
         drops' >= drops, drops' \in Nat,
         l \in Reading => ~closed,
         UNCHANGED <<closed, closer, stopped, abandoned, undelivered, timedOut, closeResult,
                     queue, batch, latched, delivered, before>>,
         pending' = pending \/ ~closed
  PROVE  CloseInv' /\ SpanInv'
<1>1. lpc' \in [Spans -> Points] /\ lpc'[s] = l /\ \A x \in Spans \ {s} : lpc'[x] = lpc[x]
  BY Moves DEF Inv
<1>2. TypeOK /\ CloseInv /\ SpanInv
  BY DEF Inv
<1>3. CloseInv'
  BY <1>1, <1>2 DEF CloseInv
<1>4. \A x \in Spans : (lpc'[x] = "ended" <=> lpc[x] = "ended")
                       /\ (lpc[x] = "dropped" => lpc'[x] = "dropped")
  BY <1>1
<1>5. {x \in Spans : lpc'[x] = "ended"} = {x \in Spans : lpc[x] = "ended"}
  BY <1>4
<1>6. CleanCloseExportsAll'
  BY <1>2, <1>5 DEF SpanInv, CleanCloseExportsAll
<1>7. \A x \in Spans : lpc'[x] = "dropped" => drops' > 0
  BY <1>1, <1>2 DEF SpanInv, TypeOK
<1>8. SpanInv'
  BY <1>1, <1>2, <1>4, <1>6, <1>7 DEF SpanInv, TypeOK
<1> QED BY <1>3, <1>8

LEMMA LogStep ==
  ASSUME Inv, NEW s \in Spans, Log(s)
  PROVE  Inv'
<1>0. /\ UNCHANGED <<closedState, closed, abandoned, exported, undelivered, latched, batch,
                     stopped, closer, timedOut, closeResult, before, delivered>>
      /\ TypeOK /\ TokenInv /\ PendInv /\ AccountInv /\ CloseInv /\ SpanInv
  BY DEF Log, stopVars, closeVars, Inv
<1>n. /\ Cardinality(queue) \in Nat /\ Cardinality(batch) \in Nat
      /\ Count(lpc, Holding) \in Nat /\ Count(lpc, {"pending"}) \in Nat
      /\ Count(lpc, {"accepted"}) \in Nat
  BY <1>0, Numbers
<1>1. CASE LogStart(s) \/ AdmitLock(s) \/ (TakeToken(s) /\ tokens' = tokens)
  <2>1. PICK l \in {"rlock", "dropped", "token"} :
          /\ goto(s, l) /\ (l = "token" => ~closed)
          /\ drops' = IF l = "dropped" THEN drops + 1 ELSE drops
    BY <1>0, <1>1 DEF LogStart, AdmitLock, TakeToken, drop, TypeOK
  <2>2. /\ lpc[s] \in {"idle", "rlock", "token"}
        /\ UNCHANGED <<tokens, accepted, pending, queue>>
    BY <1>1 DEF LogStart, AdmitLock, TakeToken
  <2>3. /\ l \in Points /\ l \notin Holding /\ lpc[s] \notin Holding
        /\ lpc[s] \notin {"pending", "accepted", "ended", "dropped"} /\ drops \in Nat
        /\ (l \in Reading => ~closed)
    BY <1>0, <2>1, <2>2 DEF Points, Reading, Holding, TypeOK
  <2>4. /\ lpc' \in [Spans -> Points] /\ Count(lpc', Holding) = Count(lpc, Holding)
        /\ Count(lpc', {"pending"}) = Count(lpc, {"pending"})
        /\ Count(lpc', {"accepted"}) = Count(lpc, {"accepted"})
    BY <1>0, <2>1, <2>3, Moves
  <2>5. TypeOK'
    BY <1>0, <2>1, <2>2, <2>4 DEF TypeOK, Points
  <2>6. TokenInv' /\ PendInv' /\ AccountInv'
    BY <1>0, <2>2, <2>4 DEF TokenInv, PendInv, AccountInv
  <2>7. CloseInv' /\ SpanInv'
    BY <1>0, <2>1, <2>2, <2>3, LogFrame
  <2> QED BY <2>5, <2>6, <2>7 DEF Inv
<1>2. CASE \/ TakeToken(s) /\ tokens' # tokens
           \/ CountAccepted(s) \/ CountPending(s)
  <2>1. /\ lpc[s] \in {"token", "taken", "accepted"} /\ UNCHANGED <<queue, drops>>
        /\ goto(s, IF lpc[s] = "token" THEN "taken"
                   ELSE IF lpc[s] = "taken" THEN "accepted" ELSE "pending")
        /\ tokens' = IF lpc[s] = "token" THEN tokens + 1 ELSE tokens
        /\ accepted' = IF lpc[s] = "taken" THEN accepted + 1 ELSE accepted
        /\ pending' = IF lpc[s] = "accepted" THEN pending + 1 ELSE pending
        /\ lpc[s] = "token" => tokens < Capacity
    BY <1>2 DEF TakeToken, CountAccepted, CountPending
  <2> DEFINE l == IF lpc[s] = "token" THEN "taken"
                  ELSE IF lpc[s] = "taken" THEN "accepted" ELSE "pending"
  <2>2. ~closed /\ ~abandoned
    BY <1>0, <2>1 DEF CloseInv, Reading
  <2>3. l \in Points /\ l \in Holding /\ l \notin {"ended", "dropped"} /\ goto(s, l)
    BY <2>1 DEF Points, Reading, Holding
  <2>4. /\ lpc' \in [Spans -> Points]
        /\ Count(lpc', Holding) = Count(lpc, Holding) + (IF lpc[s] = "token" THEN 1 ELSE 0)
        /\ Count(lpc', {"accepted"}) = Count(lpc, {"accepted"})
             + (IF lpc[s] = "taken" THEN 1 ELSE IF lpc[s] = "accepted" THEN 0 - 1 ELSE 0)
        /\ Count(lpc', {"pending"}) = Count(lpc, {"pending"})
             + (IF lpc[s] = "accepted" THEN 1 ELSE 0)
    <3>1. CASE lpc[s] = "token"
      BY <1>0, <1>n, <2>3, <3>1, Moves DEF Holding
    <3>2. CASE lpc[s] = "taken"
      BY <1>0, <1>n, <2>3, <3>2, Moves DEF Holding
    <3>3. CASE lpc[s] = "accepted"
      BY <1>0, <1>n, <2>3, <3>3, Moves DEF Holding
    <3> QED BY <2>1, <3>1, <3>2, <3>3
  <2>5. TypeOK'
    BY <1>0, <2>1, <2>4, OtelAssumption DEF TypeOK, Points
  <2>6. TokenInv' /\ PendInv' /\ AccountInv'
    BY <1>0, <1>n, <2>1, <2>2, <2>4 DEF TokenInv, PendInv, AccountInv, TypeOK
  <2>7. CloseInv' /\ SpanInv'
    <3>1. lpc[s] \notin {"ended", "dropped"} /\ drops' >= drops /\ drops' \in Nat
      BY <1>0, <2>1 DEF TypeOK
    <3> QED BY <1>0, <2>1, <2>2, <2>3, <3>1, LogFrame
  <2> QED BY <2>5, <2>6, <2>7 DEF Inv
<1>3. CASE EndSpan(s)
  <2>1. /\ lpc[s] = "pending" /\ goto(s, "ended")
        /\ UNCHANGED <<tokens, accepted, pending, drops>>
    BY <1>3 DEF EndSpan
  <2>2. ~closed /\ ~abandoned /\ stopped = "no"
    BY <1>0, <2>1 DEF CloseInv, Reading
  <2>3. /\ lpc' \in [Spans -> Points] /\ lpc'[s] = "ended"
        /\ \A x \in Spans \ {s} : lpc'[x] = lpc[x]
        /\ Count(lpc, Holding) > 0
        /\ Count(lpc', Holding) = Count(lpc, Holding) - 1
        /\ Count(lpc', {"pending"}) = Count(lpc, {"pending"}) - 1
        /\ Count(lpc', {"accepted"}) = Count(lpc, {"accepted"})
    BY <1>0, <2>1, Moves DEF Points, Holding
  <2>4. Cardinality(queue) < Capacity
    BY <1>0, <1>n, <2>3, OtelAssumption DEF TokenInv, TypeOK
  <2>5. queue' = queue \cup {s}
    BY <1>3, <2>2, <2>4 DEF EndSpan
  <2>6. s \notin queue
    BY <1>0, <2>1 DEF SpanInv
  <2>7. Cardinality(queue') = Cardinality(queue) + 1
    BY <1>0, <2>5, <2>6, Numbers, FS_AddElement
  <2>8. TypeOK'
    BY <1>0, <2>1, <2>3, <2>5 DEF TypeOK, Points
  <2>9. TokenInv' /\ PendInv' /\ AccountInv'
    BY <1>0, <1>n, <2>1, <2>2, <2>3, <2>7 DEF TokenInv, PendInv, AccountInv
  <2>10. CloseInv'
    BY <1>0, <2>1, <2>2 DEF CloseInv
  <2>11. SpanInv'
    <3>1. closeResult = "none"
      BY <1>0, <2>2 DEF CloseInv
    <3>2. CleanCloseExportsAll'
      BY <1>0, <3>1 DEF CleanCloseExportsAll
    <3>3. \A x \in Spans : lpc'[x] = "dropped" => drops' > 0
      BY <1>0, <2>1, <2>3 DEF SpanInv
    <3> QED BY <1>0, <2>1, <2>3, <2>5, <3>2, <3>3 DEF SpanInv, TypeOK
  <2> QED BY <2>8, <2>9, <2>10, <2>11 DEF Inv
<1> QED BY <1>1, <1>2, <1>3 DEF Log

-----------------------------------------------------------------------------
(* The processor.                                                          *)

\* A batch is taken from the queue: no count changes.
LEMMA StartExportStep ==
  ASSUME Inv, StartExport
  PROVE  Inv'
<1>1. PICK b \in SUBSET queue : b # {} /\ batch' = b /\ queue' = queue \ b
  BY DEF StartExport
<1>2. /\ batch = {} /\ TypeOK /\ TokenInv /\ PendInv /\ AccountInv /\ CloseInv /\ SpanInv
      /\ UNCHANGED <<lpc, drops, tokens, closedState, closed, abandoned, accepted, exported,
                     undelivered, pending, latched, stopped, closer, timedOut, closeResult,
                     before, delivered>>
  BY DEF StartExport, Inv, logVars, stopVars, countVars, closeVars
<1>3. Cardinality(queue') + Cardinality(batch') = Cardinality(queue) + Cardinality(batch)
  <2>1. IsFiniteSet(queue) /\ IsFiniteSet(b)
    BY <1>2, Numbers, FS_Subset
  <2>2. queue \cap b = b
    OBVIOUS
  <2>3. Cardinality(queue \ b) = Cardinality(queue) - Cardinality(b)
    BY <2>1, <2>2, FS_Difference
  <2>4. Cardinality(queue) \in Nat /\ Cardinality(b) \in Nat /\ Cardinality(batch) = 0
    BY <1>2, <2>1, FS_CardinalityType, FS_EmptySet
  <2> QED BY <1>1, <2>3, <2>4
<1>4. TypeOK'
  BY <1>1, <1>2 DEF TypeOK
<1>5. TokenInv' /\ PendInv' /\ AccountInv'
  <2>1. Count(lpc, Holding)' = Count(lpc, Holding)
        /\ Count(lpc, {"pending"})' = Count(lpc, {"pending"})
        /\ Count(lpc, {"accepted"})' = Count(lpc, {"accepted"})
    BY <1>2
  <2> QED BY <1>2, <1>3, <2>1 DEF TokenInv, PendInv, AccountInv
<1>6. CloseInv'
  BY <1>1, <1>2 DEF CloseInv
<1>7. SpanInv'
  BY <1>1, <1>2 DEF SpanInv, CleanCloseExportsAll
<1> QED BY <1>4, <1>5, <1>6, <1>7 DEF Inv

\* The batch is done: its tokens are free, and its spans are counted unless Close
\* has done so.
LEMMA ExportStep ==
  ASSUME Inv, ExportSpans
  PROVE  Inv'
<1> DEFINE n == Cardinality(batch)
<1>1. PICK ok \in BOOLEAN :
        /\ finishExport(n, ok) /\ delivered' = IF ok THEN delivered \cup batch ELSE delivered
  BY DEF ExportSpans
<1>2. /\ batch # {} /\ batch' = {}
      /\ TypeOK /\ TokenInv /\ PendInv /\ AccountInv /\ CloseInv /\ SpanInv
      /\ UNCHANGED <<lpc, drops, closedState, closed, abandoned, accepted, queue, stopped,
                     closer, timedOut, closeResult, before>>
      /\ tokens' = tokens - n
  BY <1>1 DEF ExportSpans, finishExport, releaseTokens, Inv, logVars, stopVars, closeVars
<1>3. /\ Cardinality(queue) \in Nat /\ n \in Nat /\ n > 0 /\ Cardinality(batch') = 0
      /\ Count(lpc, Holding) \in Nat /\ Count(lpc, {"pending"}) \in Nat
      /\ Count(lpc, {"accepted"}) \in Nat
  BY <1>2, Numbers, FS_EmptySet
<1>4. tokens' \in 0..Capacity /\ TokenInv'
  BY <1>2, <1>3, OtelAssumption DEF TokenInv, TypeOK
<1>5. CASE abandoned
  <2>1. UNCHANGED <<exported, undelivered, pending, latched>>
    BY <1>1, <1>5 DEF finishExport
  <2>2. TypeOK'
    BY <1>1, <1>2, <1>4, <2>1 DEF TypeOK
  <2>3. PendInv' /\ AccountInv'
    BY <1>2, <1>5, <2>1 DEF PendInv, AccountInv
  <2>4. CloseInv'
    BY <1>2, <2>1 DEF CloseInv
  <2>5. SpanInv'
    BY <1>1, <1>2, <1>5 DEF SpanInv, CleanCloseExportsAll
  <2> QED BY <1>4, <2>2, <2>3, <2>4, <2>5 DEF Inv
<1>6. CASE ~abandoned
  <2>1. /\ exported' = IF ok THEN exported + n ELSE exported
        /\ undelivered' = IF ok THEN undelivered ELSE undelivered + n
        /\ pending' = pending - n
        /\ latched' = (latched \/ ~ok)
    BY <1>1, <1>6 DEF finishExport
  <2>2. pending' \in Nat /\ PendInv' /\ AccountInv'
    BY <1>2, <1>3, <1>6, <2>1 DEF PendInv, AccountInv, TypeOK
  <2>3. TypeOK'
    <3>1. exported' \in Nat /\ undelivered' \in Nat /\ latched' \in BOOLEAN
      BY <1>2, <1>3, <2>1 DEF TypeOK
    <3>2. delivered' \subseteq Spans
      BY <1>1, <1>2 DEF TypeOK
    <3> QED BY <1>2, <1>4, <2>2, <3>1, <3>2 DEF TypeOK
  <2>4. pending > 0
    BY <1>2, <1>3, <1>6 DEF PendInv
  <2>5. CloseInv'
    BY <1>2, <1>6, <2>4 DEF CloseInv
  <2>6. SpanInv'
    <3>1. ~latched' => ok /\ ~latched
      BY <2>1
    <3>2. ~latched' /\ ~abandoned' =>
            \A s \in Spans : lpc'[s] = "ended" => s \in queue' \cup batch' \cup delivered'
      BY <1>1, <1>2, <1>6, <3>1 DEF SpanInv
    <3>3. CleanCloseExportsAll'
      BY <1>1, <1>2 DEF SpanInv, CleanCloseExportsAll
    <3> QED BY <1>2, <3>2, <3>3 DEF SpanInv
  <2> QED BY <1>4, <2>2, <2>3, <2>5, <2>6 DEF Inv
<1> QED BY <1>5, <1>6

LEMMA StopExporterStep ==
  ASSUME Inv, StopExporter \/ ShutdownExporter
  PROVE  Inv'
<1>1. /\ UNCHANGED <<lpc, drops, tokens, closedState, closed, abandoned, accepted, exported,
                     undelivered, pending, queue, batch, closer, timedOut, closeResult,
                     before, delivered>>
      /\ stopped # "no" /\ stopped' \in {"exporter", "done"} /\ latched' \in {latched, TRUE}
      /\ TypeOK /\ TokenInv /\ PendInv /\ AccountInv /\ CloseInv /\ SpanInv
  BY DEF StopExporter, ShutdownExporter, Inv, logVars, stopVars, countVars, closeVars
<1>2. TypeOK'
  BY <1>1 DEF TypeOK
<1>3. TokenInv' /\ PendInv' /\ AccountInv'
  BY <1>1 DEF TokenInv, PendInv, AccountInv
<1>4. CloseInv'
  BY <1>1 DEF CloseInv
<1>5. SpanInv'
  <2>1. latched => latched'
    BY <1>1
  <2> QED BY <1>1, <2>1 DEF SpanInv, CleanCloseExportsAll
<1> QED BY <1>2, <1>3, <1>4, <1>5 DEF Inv

-----------------------------------------------------------------------------
(* Close.                                                                  *)

LEMMA CloseStep ==
  ASSUME Inv, closeBy
  PROVE  Inv'
<1>1. /\ UNCHANGED <<lpc, drops, tokens, accepted, exported, latched, queue, batch, delivered>>
      /\ TypeOK /\ TokenInv /\ PendInv /\ AccountInv /\ CloseInv /\ SpanInv
  BY DEF closeBy, logVars, Inv
<1>2. TokenInv'
  BY <1>1 DEF TokenInv
<1>3. CASE StopAdmission \/ LockAdmission
  <2>1. UNCHANGED <<abandoned, undelivered, pending, stopped, timedOut, closeResult>>
    BY <1>3 DEF StopAdmission, LockAdmission
  <2>2. TypeOK'
    BY <1>1, <1>3, <2>1 DEF StopAdmission, LockAdmission, closerStep, TypeOK
  <2>3. PendInv' /\ AccountInv'
    BY <1>1, <2>1 DEF PendInv, AccountInv
  <2>4. CloseInv'
    BY <1>1, <1>3, <2>1 DEF StopAdmission, LockAdmission, closerStep, CloseInv, TypeOK
  <2>5. closeResult = "none"
    BY <1>1, <1>3 DEF StopAdmission, LockAdmission, closerStep, CloseInv
  <2>6. SpanInv'
    BY <1>1, <1>3, <2>1, <2>5
    DEF StopAdmission, LockAdmission, SpanInv, CleanCloseExportsAll
  <2> QED BY <1>2, <2>2, <2>3, <2>4, <2>6 DEF Inv
<1>4. CASE ForceFlush \/ ShutdownProcessor
  <2>1. /\ UNCHANGED <<closedState, closed, abandoned, undelivered, pending, closeResult, before>>
        /\ \/ timedOut' = TRUE
           \/ timedOut' = timedOut /\ (closer = "flush" => queue = {} /\ batch = {})
        /\ \/ closer = "flush" /\ closer' = "shutdown"
           \/ closer = "shutdown" /\ closer' = "account"
        /\ stopped' \in {stopped, "draining"}
    BY <1>4 DEF ForceFlush, ShutdownProcessor, closerStep
  <2>2. TypeOK'
    BY <1>1, <2>1 DEF TypeOK
  <2>3. PendInv' /\ AccountInv' /\ SpanInv'
    BY <1>1, <2>1 DEF PendInv, AccountInv, SpanInv, CleanCloseExportsAll
  <2>4. CloseInv'
    BY <1>1, <2>1 DEF CloseInv
  <2> QED BY <1>2, <2>2, <2>3, <2>4 DEF Inv
<1>5. CASE SettleAccount
  <2>1. /\ UNCHANGED <<closedState, closed, stopped, closeResult, before>>
        /\ closer = "account" /\ closer' = "diagnose"
        /\ abandoned' = (pending > 0) /\ undelivered' = undelivered + pending /\ pending' = 0
        /\ timedOut' \in {timedOut, TRUE}
    BY <1>5 DEF SettleAccount, closerStep
  <2>n. pending \in Nat /\ undelivered \in Nat /\ (pending > 0 \/ pending = 0)
    BY <1>1 DEF TypeOK
  <2>a. undelivered' \in Nat /\ abandoned' \in BOOLEAN
    BY <2>1, <2>n
  <2>b. abandoned' <=> pending > 0
    BY <2>1, Zenon
  <2>c. ~(pending = 0 /\ pending > 0)
    OBVIOUS
  <2>2. TypeOK' /\ ~abandoned
    BY <1>1, <2>1, <2>a DEF TypeOK, CloseInv
  <2>3. PendInv'
    <3>1. CASE pending > 0
      BY <2>1, <3>1 DEF PendInv
    <3>2. CASE pending = 0
      <4>1. ~abandoned' /\ pending' = pending
        BY <2>1, <2>b, <2>c, <3>2, Zenon
      <4> QED BY <1>1, <2>2, <4>1 DEF PendInv
    <3> QED BY <2>n, <3>1, <3>2
  <2>4. AccountInv'
    BY <1>1, <2>1, Numbers DEF AccountInv, TypeOK
  <2>5. CloseInv'
    <3>1. abandoned' => undelivered' > 0
      <4>1. pending > 0 => undelivered' > 0
        BY <2>1, <2>n
      <4> QED BY <2>b, <4>1, Zenon
    <3> QED BY <1>1, <2>1, <3>1 DEF CloseInv
  <2>6. SpanInv'
    BY <1>1, <2>1, <2>2 DEF SpanInv, CleanCloseExportsAll
  <2> QED BY <1>2, <2>2, <2>3, <2>4, <2>5, <2>6 DEF Inv
<1>6. CASE JoinErrors
  <2>1. /\ UNCHANGED <<closedState, closed, abandoned, undelivered, pending, stopped,
                       timedOut, before>>
        /\ closer = "diagnose" /\ closer' = "returned"
        /\ \/ closeResult' = "error"
           \/ ~latched /\ ~lost /\ ~timedOut /\ closeResult' = "nil"
    BY <1>6 DEF JoinErrors, closerStep
  <2>2. TypeOK'
    BY <1>1, <2>1 DEF TypeOK
  <2>3. PendInv' /\ AccountInv' /\ CloseInv'
    BY <1>1, <2>1 DEF PendInv, AccountInv, CloseInv
  <2>4. CleanCloseExportsAll'
    <3> SUFFICES ASSUME closeResult' = "nil"
                 PROVE  before \cup {s \in Spans : lpc[s] = "ended"} \subseteq delivered
      BY <1>1, <2>1 DEF CleanCloseExportsAll
    <3>1. ~latched /\ ~lost /\ ~timedOut
      BY <2>1
    <3>2. ~(drops > 0) /\ ~(undelivered > 0)
      BY <1>1, <3>1 DEF lost, TypeOK
    <3>3. ~abandoned /\ queue = {} /\ batch = {}
      BY <1>1, <2>1, <3>1, <3>2 DEF CloseInv
    <3>4. \A s \in Spans : lpc[s] = "ended" => s \in delivered
      BY <1>1, <3>1, <3>3 DEF SpanInv
    <3>5. \A s \in before : s \in Spans /\ lpc[s] = "ended"
      BY <1>1, <3>2 DEF SpanInv, TypeOK
    <3> QED BY <3>4, <3>5
  <2>5. SpanInv'
    BY <1>1, <2>1, <2>4 DEF SpanInv
  <2> QED BY <1>2, <2>2, <2>3, <2>5 DEF Inv
<1> QED BY <1>3, <1>4, <1>5, <1>6 DEF closeBy

LEMMA Frame == Inv /\ UNCHANGED vars => Inv'
<1> SUFFICES ASSUME Inv, UNCHANGED vars PROVE Inv'
  OBVIOUS
<1> USE DEF vars, logVars, stopVars, countVars, sdkVars, closeVars
<1>1. TypeOK'
  BY DEF Inv, TypeOK
<1>2. TokenInv' /\ PendInv' /\ AccountInv'
  BY DEF Inv, TokenInv, PendInv, AccountInv
<1>3. CloseInv' /\ SpanInv'
  BY DEF Inv, CloseInv, SpanInv, CleanCloseExportsAll
<1> QED BY <1>1, <1>2, <1>3 DEF Inv

LEMMA Invariance == Spec => []Inv
<1>1. Init => Inv
  BY InitInv
<1>2. Inv /\ [Next]_vars => Inv'
  BY LogStep, StartExportStep, ExportStep, StopExporterStep, CloseStep, Frame
  DEF Next, Processor
<1> QED BY <1>1, <1>2, PTL DEF Spec

-----------------------------------------------------------------------------
(* The theorems.                                                           *)

\* The variables of the mirror keep their types: no counter of otelCounters
\* goes below zero and the tokens stay within the channel.
THEOREM TypeCorrect == Spec => []TypeOK
<1>1. Inv => TypeOK
  BY DEF Inv
<1> QED BY <1>1, Invariance, PTL

\* Log, ExportSpans and finishExport: the tokens are the spans in flight, so that
\* the processor has room for a span whenever a caller hands it one.
THEOREM TokensCover == Spec => []TokensCoverSpans
<1>1. Inv => TokensCoverSpans
  <2> SUFFICES ASSUME Inv PROVE TokensCoverSpans
    OBVIOUS
  <2>1. tokens = Cardinality(queue) + Cardinality(batch)
                   + Cardinality({s \in Spans : lpc[s] \in Holding})
    BY DEF Inv, TokenInv, Count
  <2>2. ASSUME NEW s \in Spans, lpc[s] = "pending"
        PROVE  Cardinality(queue) < Capacity /\ stopped = "no"
    <3>1. stopped = "no"
      BY <2>2 DEF Inv, CloseInv, Reading
    <3>2. Count(lpc, Holding) > 0
      <4>1. lpc \in [Spans -> Points] /\ lpc[s] \in Holding /\ lpc[s] \in Points
        BY <2>2 DEF Inv, TypeOK, Points, Holding
      <4> QED BY <4>1, CountStep
    <3>3. /\ Cardinality(queue) \in Nat /\ Cardinality(batch) \in Nat
          /\ Count(lpc, Holding) \in Nat
      BY Numbers DEF Inv
    <3>4. Cardinality(queue) < Capacity
      BY <3>2, <3>3, OtelAssumption DEF Inv, TokenInv, TypeOK
    <3> QED BY <3>1, <3>4
  <2> QED BY <2>1, <2>2 DEF TokensCoverSpans, Holding
<1> QED BY <1>1, Invariance, PTL

\* closeBy: nil means that every span that was accepted was exported, those whose
\* Log had returned before the Close first of all.
THEOREM CleanCloseMeansExported == Spec => []CleanCloseExportsAll
<1>1. Inv => CleanCloseExportsAll
  BY DEF Inv, SpanInv
<1> QED BY <1>1, Invariance, PTL

-----------------------------------------------------------------------------
(* The mirror implements BoundedSink.                                      *)

\* The line is drawn when Close has settled the account.
settledNow == closer \in {"diagnose", "returned"}

\* What is counted as accepted but not yet as pending is left out of the mapped
\* accepted, which is therefore what is exported, lost or pending.
MappedSum ==
  /\ accepted - inAdmission = exported + undelivered + pending
  /\ exported \in Nat /\ undelivered \in Nat /\ pending \in Nat
  /\ pending <= Capacity

LEMMA Mapped == Inv => MappedSum
<1> SUFFICES ASSUME Inv PROVE MappedSum
  OBVIOUS
<1>1. /\ Cardinality(queue) \in Nat /\ Cardinality(batch) \in Nat
      /\ Count(lpc, Holding) \in Nat /\ Count(lpc, {"pending"}) \in Nat
      /\ Count(lpc, {"accepted"}) \in Nat
  BY Numbers DEF Inv
<1>2. inAdmission = Count(lpc, {"accepted"})
  <2>1. {s \in Spans : lpc[s] = "accepted"} = {s \in Spans : lpc[s] \in {"accepted"}}
    OBVIOUS
  <2> QED BY <2>1 DEF inAdmission, Count
<1>3. Count(lpc, {"pending"}) <= Count(lpc, Holding)
  <2> DEFINE A == {s \in Spans : lpc[s] \in {"pending"}}
             B == {s \in Spans : lpc[s] \in Holding}
  <2>1. A \subseteq B /\ IsFiniteSet(B)
    BY OtelAssumption, FS_Subset DEF Holding
  <2>2. Cardinality(A) <= Cardinality(B)
    BY <2>1, FS_Subset
  <2> QED BY <2>2 DEF Count
<1>4. pending <= Capacity
  <2>1. CASE abandoned
    BY <2>1, OtelAssumption DEF Inv, PendInv
  <2>2. CASE ~abandoned
    BY <1>1, <1>3, <2>2, OtelAssumption DEF Inv, PendInv, TokenInv, TypeOK
  <2> QED BY <2>1, <2>2
<1> QED BY <1>1, <1>2, <1>4 DEF Inv, AccountInv, TypeOK, MappedSum

\* A step that moves the account in one of four ways is a step of the sink.
LEMMA SinkStep ==
  ASSUME MappedSum, MappedSum',
         \/ UNCHANGED <<exported, undelivered, pending>> /\ settledNow' = settledNow
         \/ /\ ~settledNow /\ ~settledNow'
            /\ UNCHANGED <<exported, undelivered>> /\ pending' = pending + 1
         \/ /\ ~settledNow /\ ~settledNow'
            /\ \E n \in 1..pending :
                 /\ pending' = pending - n
                 /\ \/ exported' = exported + n /\ UNCHANGED undelivered
                    \/ undelivered' = undelivered + n /\ UNCHANGED exported
         \/ /\ ~settledNow /\ settledNow' /\ UNCHANGED exported
            /\ pending' = 0 /\ undelivered' = undelivered + pending
  PROVE  [Sink!Next]_(Sink!vars)
<1> DEFINE a == accepted - inAdmission
<1>1. /\ a = exported + undelivered + pending /\ a' = exported' + undelivered' + pending'
      /\ exported \in Nat /\ undelivered \in Nat /\ pending \in Nat
      /\ exported' \in Nat /\ undelivered' \in Nat /\ pending' \in Nat
      /\ pending' <= Capacity
  BY DEF MappedSum
<1>2. CASE UNCHANGED <<exported, undelivered, pending>> /\ settledNow' = settledNow
  <2>1. a' = a
    BY <1>1, <1>2
  <2> QED BY <1>2, <2>1 DEF Sink!vars, settledNow
<1>3. CASE /\ ~settledNow /\ ~settledNow'
           /\ UNCHANGED <<exported, undelivered>> /\ pending' = pending + 1
  <2>1. a' = a + 1 /\ pending < Capacity
    BY <1>1, <1>3, OtelAssumption
  <2>2. Sink!Accept
    BY <1>3, <2>1 DEF Sink!Accept, settledNow
  <2> QED BY <2>2 DEF Sink!Next
<1>4. CASE /\ ~settledNow /\ ~settledNow'
           /\ \E n \in 1..pending :
                /\ pending' = pending - n
                /\ \/ exported' = exported + n /\ UNCHANGED undelivered
                   \/ undelivered' = undelivered + n /\ UNCHANGED exported
  <2>1. PICK n \in 1..pending :
               /\ pending' = pending - n
               /\ \/ exported' = exported + n /\ UNCHANGED undelivered
                  \/ undelivered' = undelivered + n /\ UNCHANGED exported
    BY <1>4
  <2>2. a' = a
    BY <1>1, <2>1
  <2>3. Sink!Deliver(n) \/ Sink!Lose(n)
    BY <1>4, <2>1, <2>2 DEF Sink!Deliver, Sink!Lose, settledNow
  <2> QED BY <2>3 DEF Sink!Next
<1>5. CASE /\ ~settledNow /\ settledNow' /\ UNCHANGED exported
           /\ pending' = 0 /\ undelivered' = undelivered + pending
  <2>1. a' = a
    BY <1>1, <1>5
  <2>2. Sink!Settle
    BY <1>5, <2>1 DEF Sink!Settle, settledNow
  <2> QED BY <2>2 DEF Sink!Next
<1> QED BY <1>2, <1>3, <1>4, <1>5

\* The OTLP mirror implements the abstract bounded sink, for any number of spans,
\* any capacity and any batch size: a batch that finishes behind an abandoning
\* Close moves nothing of an account that is settled.
THEOREM MirrorIsBoundedSink == Spec => ImplementsBoundedSink
<1>1. Init => Sink!Init
  <2> SUFFICES ASSUME Init PROVE Sink!Init
    OBVIOUS
  <2>1. {s \in Spans : lpc[s] = "accepted"} = {}
    BY DEF Init
  <2>2. inAdmission = 0
    BY <2>1, FS_EmptySet DEF inAdmission
  <2> QED BY <2>2 DEF Init, Sink!Init
<1>2. Inv /\ MappedSum /\ MappedSum' /\ [Next]_vars => [Sink!Next]_(Sink!vars)
  <2> SUFFICES ASSUME Inv, MappedSum, MappedSum', [Next]_vars
               PROVE  [Sink!Next]_(Sink!vars)
    OBVIOUS
  <2>1. CASE \E s \in Spans : Log(s)
    <3>1. PICK s \in Spans : Log(s)
      BY <2>1
    <3>2. UNCHANGED <<exported, undelivered, closer>>
      BY <3>1 DEF Log, closeVars
    <3>3. settledNow' = settledNow
      BY <3>2 DEF settledNow
    <3>4. CASE CountPending(s)
      <4>1. ~settledNow /\ pending' = pending + 1
        BY <3>4 DEF CountPending, Inv, CloseInv, Reading, settledNow
      <4> QED BY <3>2, <3>3, <4>1, SinkStep
    <3>5. CASE ~CountPending(s)
      <4>1. UNCHANGED pending
        BY <3>1, <3>5 DEF Log, LogStart, AdmitLock, TakeToken, CountAccepted, EndSpan
      <4> QED BY <3>2, <3>3, <4>1, SinkStep
    <3> QED BY <3>4, <3>5
  <2>2. CASE ExportSpans /\ ~abandoned
    <3> DEFINE n == Cardinality(batch)
    <3>1. /\ closer' = closer /\ batch # {} /\ pending' = pending - n
          /\ \/ exported' = exported + n /\ UNCHANGED undelivered
             \/ undelivered' = undelivered + n /\ UNCHANGED exported
      BY <2>2 DEF ExportSpans, finishExport, closeVars
    <3>2. /\ Cardinality(queue) \in Nat /\ n \in Nat /\ n > 0
          /\ Count(lpc, {"pending"}) \in Nat
      BY <3>1, Numbers, FS_EmptySet DEF Inv
    <3>3. pending = Cardinality(queue) + n + Count(lpc, {"pending"})
      BY <2>2 DEF Inv, PendInv
    <3>4. n \in 1..pending /\ pending # 0
      BY <3>2, <3>3
    <3>5. ~settledNow /\ ~settledNow'
      BY <3>1, <3>4 DEF Inv, CloseInv, settledNow
    <3> HIDE DEF n
    <3> QED BY <3>1, <3>4, <3>5, SinkStep
  <2>3. CASE Processor /\ ~(ExportSpans /\ ~abandoned)
    <3>1. UNCHANGED <<exported, undelivered, pending, closer>>
      BY <2>3 DEF Processor, StartExport, ExportSpans, finishExport, StopExporter,
                  ShutdownExporter, countVars, closeVars
    <3>2. settledNow' = settledNow
      BY <3>1 DEF settledNow
    <3> QED BY <3>1, <3>2, SinkStep
  <2>4. CASE closeBy
    <3>1. UNCHANGED exported
      BY <2>4 DEF closeBy
    <3>2. CASE SettleAccount
      <4>1. ~settledNow /\ settledNow' /\ pending' = 0 /\ undelivered' = undelivered + pending
        BY <3>2 DEF SettleAccount, closerStep, settledNow
      <4> QED BY <3>1, <4>1, SinkStep
    <3>3. CASE ~SettleAccount
      <4>1. UNCHANGED <<undelivered, pending>> /\ settledNow' = settledNow
        BY <2>4, <3>3 DEF closeBy, StopAdmission, LockAdmission, ForceFlush,
                          ShutdownProcessor, JoinErrors, closerStep, settledNow
      <4> QED BY <3>1, <4>1, SinkStep
    <3> QED BY <3>2, <3>3
  <2>5. CASE UNCHANGED vars
    <3>1. UNCHANGED <<exported, undelivered, pending, closer>>
      BY <2>5 DEF vars, countVars, closeVars
    <3>2. settledNow' = settledNow
      BY <3>1 DEF settledNow
    <3> QED BY <3>1, <3>2, SinkStep
  <2> QED BY <2>1, <2>2, <2>3, <2>4, <2>5 DEF Next, Processor
<1>3. Inv => MappedSum
  BY Mapped
<1> QED BY <1>1, <1>2, <1>3, Invariance, PTL DEF Spec, ImplementsBoundedSink, Sink!Spec

=============================================================================
