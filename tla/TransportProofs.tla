--------------------------- MODULE TransportProofs ---------------------------
(***************************************************************************)
(* Proofs, for every set of calls, notifications and server requests, of   *)
(* the safety of Transport: first its types, then who completes a request, *)
(* then the frames on the wire, what senders are told and in which order   *)
(* messages go out, and last the connection its callers can rely on.       *)
(***************************************************************************)
EXTENDS Transport, TLAPS

-----------------------------------------------------------------------------
(* Type correctness.                                                       *)

\* What abort and a drain leave well typed, whoever runs them.
LEMMA AbortType ==
  ASSUME TypeOK, NEW a \in Actors, NEW c \in Causes, abort(a, c)
  PROVE  /\ state' \in {"open", "closing", "closed", "aborted"}
         /\ connErr' \in Causes \cup {"none"}
         /\ unavailableCause' \in Causes \cup {"none"}
         /\ pending' \subseteq Requests
         /\ taken' \in [Actors -> SUBSET (Requests \X (Results \ {"none"}))]
         /\ aborting' \subseteq Actors
  BY DEF TypeOK, abort, transitionFromOpenLocked, drainPendingLocked, connVars,
         actorVars, Causes, Results

LEMMA TypeWriter ==
  ASSUME TypeOK, NEW m \in Messages, Writer(m)
  PROVE  TypeOK'
<1> USE DEF Writer, procVars, unlockWrite
<1>1. CASE LockWrite(m)
  <2>1. wpc' \in [Messages -> {"idle", "lock", "admit", "frame", "abort", "ok", "fail"}]
    BY <1>1 DEF LockWrite, TypeOK
  <2>2. writeGate' \in Messages \cup {Free, Closer}
    BY <1>1 DEF LockWrite, TypeOK
  <2> QED BY <1>1, <2>1, <2>2 DEF LockWrite, TypeOK, connVars, actorVars
<1>2. CASE Admit(m)
  <2>1. wpc' \in [Messages -> {"idle", "lock", "admit", "frame", "abort", "ok", "fail"}]
    BY <1>2 DEF Admit, TypeOK
  <2>2. io' \in [Messages -> {"none", "started", "head", "tail", "ok", "failed"}]
    BY <1>2 DEF Admit, TypeOK
  <2> QED BY <1>2, <2>1, <2>2 DEF Admit, TypeOK, connVars, actorVars
<1>3. CASE FrameDispatched(m)
  BY <1>3 DEF FrameDispatched, TypeOK, connVars, actorVars, Written
<1>4. CASE FrameAborted(m)
  <2>1. \E c \in Causes : abort("writer", c)
    BY <1>4 DEF FrameAborted, Causes
  <2>2. PICK c \in Causes : abort("writer", c)
    BY <2>1
  <2>3. "writer" \in Actors
    BY DEF Actors
  <2> HIDE DEF unlockWrite
  <2> QED BY <1>4, <2>2, <2>3, AbortType DEF FrameAborted, TypeOK, Written
<1>5. CASE WriterAborted(m)
  BY <1>5 DEF WriterAborted, TypeOK, connVars, actorVars, Written
<1> QED BY <1>1, <1>2, <1>3, <1>4, <1>5

LEMMA TypeFrameIo ==
  ASSUME TypeOK, NEW m \in Messages, FrameIo(m)
  PROVE  TypeOK'
<1> USE DEF FrameIo, connVars, tableVars, writeVars, actorVars, procVars
<1>1. CASE WriteBytes(m)
  <2>1. io'[m] \in {"head", "tail"} /\ io' \in [Messages -> {"none", "started", "head", "tail", "ok", "failed"}]
    BY <1>1 DEF WriteBytes, TypeOK
  <2>2. wire' \in Seq(Messages \X {"head", "tail"})
    BY <1>1, <2>1 DEF WriteBytes, TypeOK
  <2> QED BY <1>1, <2>1, <2>2 DEF WriteBytes, TypeOK
<1>2. CASE DispatchFrame(m)
  BY <1>2 DEF DispatchFrame, TypeOK
<1>3. CASE WriteFails(m)
  BY <1>3 DEF WriteFails, TypeOK
<1> QED BY <1>1, <1>2, <1>3

LEMMA TypeWaiter ==
  ASSUME TypeOK, NEW r \in Requests, Waiter(r)
  PROVE  TypeOK'
<1> USE DEF Waiter, connVars, frameVars, actorVars, procVars
<1>1. r \in Messages
  BY DEF Requests, Messages, Timed
<1>2. ASSUME NEW res \in Results, complete(r, res)
      PROVE  pending' \subseteq Requests /\ result' \in [Requests -> Results]
  BY <1>2 DEF complete, completeOnce, TypeOK, tableVars
<1>3. CASE RequestWritten(r)
  <2>1. pending' \subseteq Requests /\ result' \in [Requests -> Results]
    BY <1>2, <1>3 DEF RequestWritten, TypeOK, tableVars, Results, Causes
  <2>2. rpc' \in [Requests -> {"idle", "write", "wait", "settle", "done"}]
    BY <1>3 DEF RequestWritten, TypeOK
  <2>3. UNCHANGED wpc
    BY <1>3 DEF RequestWritten
  <2> QED BY <2>1, <2>2, <2>3 DEF TypeOK
<1>4. CASE WaitDone(r)
  BY <1>4 DEF WaitDone, TypeOK, tableVars
<1>5. CASE WaitCanceled(r)
  <2>1. pending' \subseteq Requests /\ result' \in [Requests -> Results]
    BY <1>2, <1>5 DEF WaitCanceled, Results
  <2>2. rpc' \in [Requests -> {"idle", "write", "wait", "settle", "done"}]
    BY <1>5 DEF WaitCanceled, TypeOK
  <2>3. wpc' \in [Messages -> {"idle", "lock", "admit", "frame", "abort", "ok", "fail"}]
    BY <1>5 DEF WaitCanceled, TypeOK
  <2> QED BY <2>1, <2>2, <2>3 DEF TypeOK
<1> QED BY <1>3, <1>4, <1>5

LEMMA TypeAborter ==
  ASSUME TypeOK, NEW a \in Actors, Aborter(a)
  PROVE  TypeOK'
<1> USE DEF Aborter, connVars, writeVars, frameVars
<1>1. CASE CompleteTaken(a)
  <2>1. PICK t \in taken[a] : completeOnce(t[1], t[2]) /\ taken' = [taken EXCEPT ![a] = @ \ {t}]
    BY <1>1 DEF CompleteTaken
  <2>2. t[1] \in Requests /\ t[2] \in Results
    BY DEF TypeOK
  <2> QED BY <1>1, <2>1, <2>2 DEF CompleteTaken, completeOnce, TypeOK, procVars
<1>2. CASE AbortFinish(a)
  BY <1>2 DEF AbortFinish, TypeOK
<1> QED BY <1>1, <1>2

LEMMA TypeCaller ==
  ASSUME TypeOK, Caller
  PROVE  TypeOK'
<1> USE DEF Caller, connVars, frameVars, actorVars, procVars, enterWrite
<1>1. CASE \E r \in CallMsgs : StartCall(r)
  <2>1. PICK r \in CallMsgs : StartCall(r)
    BY <1>1
  <2>2. r \in Requests /\ r \in Messages
    BY DEF Requests, Messages, Timed
  <2>3. pending' \subseteq Requests /\ result' \in [Requests -> Results]
    BY <2>1, <2>2 DEF StartCall, TypeOK, Results
  <2>4. rpc' \in [Requests -> {"idle", "write", "wait", "settle", "done"}]
    BY <2>1, <2>2 DEF StartCall, TypeOK
  <2>5. wpc' \in [Messages -> {"idle", "lock", "admit", "frame", "abort", "ok", "fail"}]
    BY <2>1, <2>2 DEF StartCall, TypeOK
  <2> QED BY <2>3, <2>4, <2>5 DEF TypeOK
<1>2. CASE \E m \in NoteMsgs : Notify(m)
  <2>1. PICK m \in NoteMsgs : Notify(m)
    BY <1>2
  <2>2. m \in Messages
    BY DEF Messages, Timed
  <2> QED BY <2>1, <2>2 DEF Notify, TypeOK, tableVars
<1> QED BY <1>1, <1>2

LEMMA TypeReader ==
  ASSUME TypeOK, ReadFrame \/ ReaderAbort
  PROVE  TypeOK'
<1>r. "reader" \in Actors /\ "eof" \in Causes
  BY DEF Actors, Causes
<1>1. CASE ReadFrame
  <2> USE <1>1 DEF ReadFrame, connVars, frameVars, procVars
  <2>1. CASE \E r \in Requests : DeliverResponse(r)
    <3>1. PICK r \in Requests : DeliverResponse(r)
      BY <2>1
    <3>2. {<<r, "message">>} \in SUBSET (Requests \X (Results \ {"none"}))
      BY DEF Results
    <3> QED BY <1>r, <3>1, <3>2 DEF DeliverResponse, TypeOK
  <2>2. CASE \E m \in ReplyMsgs : RespondMethodNotFound(m)
    BY <2>2 DEF RespondMethodNotFound, TypeOK, Messages, Timed
  <2>3. CASE ReaderFailed
    BY <1>r, <2>3 DEF ReaderFailed, drainPendingLocked, TypeOK, Results, Causes
  <2> QED BY <2>1, <2>2, <2>3
<1>2. CASE ReaderAbort
  <2>1. abort("reader", "eof")
    BY <1>2 DEF ReaderAbort
  <2> QED BY <1>r, <1>2, <2>1, AbortType DEF ReaderAbort, TypeOK, writeVars, frameVars, procVars
<1> QED BY <1>1, <1>2

LEMMA TypeCloser ==
  ASSUME TypeOK, CloseCalled \/ CloseStep
  PROVE  TypeOK'
<1>c. "closer" \in Actors /\ {"closed", "ctx"} \subseteq Causes /\ Shutdown \in Requests
      /\ Shutdown \in Messages /\ Exit \in Messages
  BY DEF Actors, Causes, Requests, Messages
<1>f. UNCHANGED <<result, frameVars, expired, reader>>
  BY DEF CloseCalled, CloseStep
<1> USE <1>f DEF frameVars, closerStep
<1>1. CASE CloseLock
  <2>1. CASE closer' = "begin"
    BY <1>1, <2>1 DEF CloseLock, TypeOK, connVars, actorVars, procVars
  <2>2. CASE closer' # "begin"
    <3>1. abort("closer", "ctx")
      BY <1>1, <2>2 DEF CloseLock
    <3> QED BY <1>c, <1>1, <2>2, <3>1, AbortType DEF CloseLock, TypeOK, writeVars, procVars
  <2> QED BY <2>1, <2>2
<1>2. CASE BeginClose
  <2>1. CASE state = "open"
    <3>1. taken' \in [Actors -> SUBSET (Requests \X (Results \ {"none"}))]
      BY <1>c, <1>2, <2>1 DEF BeginClose, drainPendingLocked, TypeOK, Results, Causes
    <3>2. rpc' \in [Requests -> {"idle", "write", "wait", "settle", "done"}]
      BY <1>c, <1>2, <2>1 DEF BeginClose, TypeOK
    <3> QED BY <1>c, <1>2, <2>1, <3>1, <3>2
            DEF BeginClose, drainPendingLocked, transitionFromOpenLocked, TypeOK, procVars
  <2>2. CASE state # "open"
    BY <1>2, <2>2 DEF BeginClose, TypeOK, connVars, procVars
  <2> QED BY <2>1, <2>2
<1>3. CASE WriteShutdown
  BY <1>c, <1>3 DEF WriteShutdown, TypeOK, connVars, actorVars, procVars
<1>4. CASE WriteExit
  BY <1>c, <1>4 DEF WriteExit, enterWrite, TypeOK, connVars, actorVars, procVars
<1>5. CASE HandshakeOver
  BY <1>5 DEF HandshakeOver, TypeOK, connVars, writeVars, actorVars, procVars
<1>6. CASE CloseInputAfterWrites
  <2>1. inputClosed' \in BOOLEAN /\ waitStarted' \in BOOLEAN
    BY <1>6 DEF CloseInputAfterWrites, waitForProcess, TypeOK, procVars
  <2>2. closer' \in {"inputLock", "grace"} /\ UNCHANGED <<processDone, killed>>
    BY <1>6 DEF CloseInputAfterWrites, waitForProcess, procVars
  <2> QED BY <1>6, <2>1, <2>2 DEF CloseInputAfterWrites, TypeOK, connVars, writeVars, actorVars
<1>7. CASE CloseInputLocked
  <2>1. CASE closer' = "abortInput"
    <3>1. abort("closer", "ctx")
      BY <1>7, <2>1 DEF CloseInputLocked, waitForProcess
    <3> QED BY <1>c, <1>7, <2>1, <3>1, AbortType
            DEF CloseInputLocked, waitForProcess, TypeOK, writeVars, procVars
  <2>2. CASE closer' # "abortInput"
    BY <1>7, <2>2 DEF CloseInputLocked, waitForProcess, TypeOK, connVars, writeVars, actorVars
  <2> QED BY <2>1, <2>2
<1>8. CASE GraceOver
  <2>1. killed' \in BOOLEAN
    BY <1>8 DEF GraceOver, TypeOK
  <2> QED BY <1>8, <2>1 DEF GraceOver, TypeOK, connVars, writeVars, actorVars
<1>9. CASE FinishClose
  BY <1>c, <1>9 DEF FinishClose, drainPendingLocked, TypeOK, writeVars, procVars, Results, Causes
<1>10. CASE CloseReturn \/ CloseStart
  BY <1>10 DEF CloseReturn, CloseStart, TypeOK, connVars, writeVars, actorVars, procVars
<1>11. CASE InitReturn
  BY <1>11 DEF InitReturn, TypeOK, connVars, writeVars, actorVars
<1>12. CASE InitFailed
  <2>1. abort("closer", "closed")
    BY <1>12 DEF InitFailed
  <2> QED BY <1>c, <1>12, <2>1, AbortType DEF InitFailed, TypeOK, writeVars, procVars
<1> QED BY <1>1, <1>2, <1>3, <1>4, <1>5, <1>6, <1>7, <1>8, <1>9, <1>10, <1>11, <1>12 DEF CloseCalled, CloseStep

\* The type invariant is inductive.
LEMMA TypeNext ==
  ASSUME TypeOK, [Next]_vars
  PROVE  TypeOK'
<1>1. CASE Next
  <2>1. CASE \E x \in Contexts : Expire(x)
    BY <2>1 DEF Expire, TypeOK, connVars, tableVars, writeVars, frameVars, actorVars, procVars
  <2>2. CASE ProcessReaped
    BY <2>2 DEF ProcessReaped, TypeOK, connVars, tableVars, writeVars, frameVars, actorVars
  <2>3. CASE \E m \in Messages : Writer(m) \/ FrameIo(m)
    BY <2>3, TypeWriter, TypeFrameIo
  <2>4. CASE \E r \in Requests : Waiter(r)
    BY <2>4, TypeWaiter
  <2>5. CASE \E a \in Actors : Aborter(a)
    BY <2>5, TypeAborter
  <2>6. CASE Caller
    BY <2>6, TypeCaller
  <2>7. CASE ReadFrame \/ ReaderAbort
    BY <2>7, TypeReader
  <2>8. CASE CloseCalled \/ CloseStep
    BY <2>8, TypeCloser
  <2> QED BY <1>1, <2>1, <2>2, <2>3, <2>4, <2>5, <2>6, <2>7, <2>8 DEF Next
<1>2. CASE UNCHANGED vars
  BY <1>2 DEF TypeOK, vars, connVars, tableVars, writeVars, frameVars, actorVars, procVars
<1> QED BY <1>1, <1>2

LEMMA TypeInit == Init => TypeOK
<1> SUFFICES ASSUME Init PROVE TypeOK
  OBVIOUS
<1>1. wire \in Seq(Messages \X {"head", "tail"})
  BY DEF Init
<1>2. result \in [Requests -> Results] /\ taken \in [Actors -> SUBSET (Requests \X (Results \ {"none"}))]
  BY DEF Init, Results
<1> QED BY <1>1, <1>2 DEF Init, TypeOK

\* The state of the connection and of every goroutine stays in its type, for any
\* number of calls, notifications and server requests.
THEOREM TypeCorrect == Spec => []TypeOK
  BY TypeInit, TypeNext, PTL DEF Spec

-----------------------------------------------------------------------------
(* Every request has one owner.                                            *)

\* A writer past lockWrite, and close() around beginClose, hold the gate.
GateInv ==
  /\ \A m \in Messages : wpc[m] \in {"admit", "frame", "abort"} => writeGate = m
  /\ closer \in {"begin", "release"} => writeGate = Closer

\* What an actor has taken it completes before it can take anything else: a
\* writer keeps the gate until its abort is over, the reader does not read on
\* and close() does not move on.
TakenInv ==
  /\ taken["writer"] # {} => "writer" \in aborting
  /\ "writer" \in aborting => \E m \in Messages : wpc[m] = "abort"
  /\ reader = "failed" => taken["reader"] = {}
  /\ taken["closer"] # {} => closer \in {"release", "finishing"} \/ "closer" \in aborting
  /\ "closer" \in aborting => closer \in {"abortLock", "abortInput", "initAbort"}

\* OneOwner with what makes it inductive: a taken request has one result to get,
\* a request that was not registered is nowhere.
OwnerInv ==
  /\ OneOwner
  /\ \A a \in Actors : \A t, u \in taken[a] : t[1] = u[1] => t = u
  /\ \A r \in Requests : rpc[r] = "idle" =>
       r \notin pending /\ result[r] = "none" /\ \A a \in Actors : r \notin Held(a)
  /\ closer \in {"idle", "lock", "begin"} => rpc[Shutdown] = "idle"

\* A writer is started once: call before its request is registered, the
\* cancellation while its call is out, and the two frames of close().
FreshInv ==
  /\ \A r \in CallMsgs : rpc[r] = "idle" => wpc[r] = "idle"
  /\ \A c \in Calls : rpc[<<"call", c>>] # "done" => wpc[<<"cancel", c>>] = "idle"
  /\ closer \in {"idle", "lock", "begin", "release"} => wpc[Shutdown] = "idle"
  /\ closer \in {"idle", "lock", "begin", "release", "shutdown"} => wpc[Exit] = "idle"

\* An unavailable connection has an error to report.
ErrorInv == state # "open" => connErr # "none"

SafeInv ==
  TypeOK /\ GateInv /\ TakenInv /\ FreshInv /\ OwnerInv /\ TerminalIsDrained /\ ErrorInv

\* What a drain makes of the taken sets.
LEMMA DrainHeld ==
  ASSUME TypeOK, NEW a \in Actors, NEW c \in Causes, NEW left,
         drainPendingLocked(a, c, left)
  PROVE  /\ Held(a)' = pending
         /\ \A b \in Actors : b # a => Held(b)' = Held(b) /\ taken'[b] = taken[b]
         /\ taken'[a] = pending \X {c}
<1>1. taken' = [taken EXCEPT ![a] = pending \X {c}] /\ taken \in [Actors -> SUBSET (Requests \X (Results \ {"none"}))]
  BY DEF TypeOK, drainPendingLocked
<1>2. taken'[a] = pending \X {c} /\ \A b \in Actors : b # a => taken'[b] = taken[b]
  BY <1>1
<1>3. {t[1] : t \in pending \X {c}} = pending
  <2>1. \A t \in pending \X {c} : t[1] \in pending
    OBVIOUS
  <2>2. \A r \in pending : <<r, c>> \in pending \X {c} /\ <<r, c>>[1] = r
    OBVIOUS
  <2> QED BY <2>1, <2>2
<1> QED BY <1>2, <1>3 DEF Held

\* A drain by an actor that holds nothing hands the whole table over to it.
LEMMA DrainOwner ==
  ASSUME TypeOK, OwnerInv, NEW a \in Actors, NEW c \in Causes, taken[a] = {},
         drainPendingLocked(a, c, {}), UNCHANGED <<result, rpc>>,
         closer' \in {"idle", "lock", "begin"} => closer \in {"idle", "lock", "begin"}
  PROVE  OwnerInv'
<1>1. pending' = {} /\ Held(a) = {}
  BY DEF drainPendingLocked, Held
<1>2. OneOwner'
  BY <1>1, DrainHeld DEF OneOwner, OwnerInv
<1>3. \A b \in Actors : \A t, u \in taken'[b] : t[1] = u[1] => t = u
  BY DrainHeld DEF OwnerInv
<1> QED BY <1>1, <1>2, <1>3, DrainHeld DEF OwnerInv

LEMMA AbortOwner ==
  ASSUME TypeOK, OwnerInv, TerminalIsDrained, NEW a \in Actors, NEW c \in Causes,
         taken[a] = {}, abort(a, c), UNCHANGED <<result, rpc>>,
         closer' \in {"idle", "lock", "begin"} => closer \in {"idle", "lock", "begin"}
  PROVE  OwnerInv' /\ TerminalIsDrained' /\ (ErrorInv => ErrorInv')
<1>1. CASE state \in {"closed", "aborted"}
  <2>1. UNCHANGED <<state, connErr, pending, taken>>
    BY <1>1 DEF abort, connVars, actorVars
  <2> QED BY <2>1 DEF OwnerInv, OneOwner, Held, TerminalIsDrained, ErrorInv
<1>2. CASE state \notin {"closed", "aborted"}
  <2>1. drainPendingLocked(a, c, {})
    BY <1>2 DEF abort
  <2>2. OwnerInv'
    BY <2>1, DrainOwner
  <2>3. connErr' = c /\ c # "none"
    BY <1>2 DEF abort, transitionFromOpenLocked, Causes
  <2> QED BY <2>1, <2>2, <2>3 DEF TerminalIsDrained, drainPendingLocked, ErrorInv
<1> QED BY <1>1, <1>2

\* What is true of the kinds of messages and of the gate.
LEMMA Kinds ==
  /\ Free \notin Messages /\ Closer \notin Messages /\ Free # Closer
  /\ Shutdown \in Messages /\ Exit \in Messages /\ Shutdown # Exit
  /\ Shutdown \in Requests /\ Requests \subseteq Messages
  /\ Shutdown \notin Timed /\ Exit \notin Timed
  /\ CallMsgs \subseteq Requests /\ NoteMsgs \subseteq Messages /\ ReplyMsgs \subseteq Messages
  /\ \A r \in CallMsgs : r[2] \in Calls /\ r = <<"call", r[2]>> /\ <<"cancel", r[2]>> \in Messages
  /\ CallMsgs \cap CancelMsgs = {} /\ CallMsgs \cap NoteMsgs = {} /\ CallMsgs \cap ReplyMsgs = {}
  /\ CancelMsgs \cap NoteMsgs = {} /\ CancelMsgs \cap ReplyMsgs = {} /\ NoteMsgs \cap ReplyMsgs = {}
  BY DEF Free, Closer, Messages, Timed, Shutdown, Exit, Requests, CallMsgs, CancelMsgs,
         NoteMsgs, ReplyMsgs

\* The steps of a writer.
LEMMA SafeWriter ==
  ASSUME SafeInv, NEW m \in Messages, Writer(m)
  PROVE  SafeInv'
<1> USE Kinds DEF SafeInv
<1>t. TypeOK'
  BY TypeWriter
<1>u. UNCHANGED <<result, rpc, closer, reader>>
  BY DEF Writer
<1>w. wpc[m] # "idle" /\ \A n \in Messages : n # m => wpc'[n] = wpc[n]
  BY DEF Writer, LockWrite, Admit, FrameDispatched, FrameAborted, WriterAborted, unlockWrite, TypeOK
<1>f. FreshInv'
  BY <1>u, <1>w DEF FreshInv, CallMsgs, CancelMsgs, Messages, Timed
<1>1. CASE FrameAborted(m)
  <2>1. PICK c \in Causes : abort("writer", c)
    BY <1>1 DEF FrameAborted, Causes
  <2>2. writeGate = m /\ UNCHANGED writeGate /\ wpc'[m] = "abort" /\ wpc[m] = "frame"
    BY <1>1 DEF FrameAborted, GateInv, TypeOK
  <2>3. \A n \in Messages : wpc[n] # "abort"
    BY <2>2 DEF GateInv
  <2>4. taken["writer"] = {} /\ "writer" \notin aborting
    BY <2>3 DEF TakenInv
  <2>5. OwnerInv' /\ TerminalIsDrained' /\ ErrorInv'
    BY <1>u, <2>1, <2>4, AbortOwner DEF Actors
  <2>6. GateInv'
    BY <1>u, <1>w, <2>2 DEF GateInv
  <2>7. /\ \A b \in Actors : b # "writer" => taken'[b] = taken[b]
        /\ aborting' \in {aborting, aborting \cup {"writer"}}
        /\ taken'["writer"] # {} => "writer" \in aborting'
    BY <2>1, <2>4 DEF abort, drainPendingLocked, actorVars, TypeOK, Actors
  <2>8. TakenInv'
    BY <1>u, <2>2, <2>7 DEF TakenInv, Actors
  <2> QED BY <1>t, <1>f, <2>5, <2>6, <2>8
<1>2. CASE ~FrameAborted(m)
  <2>1. UNCHANGED <<state, connErr, pending, taken, aborting>>
    BY <1>2 DEF Writer, LockWrite, Admit, FrameDispatched, WriterAborted, connVars, actorVars
  <2>2. OwnerInv' /\ TerminalIsDrained' /\ ErrorInv'
    BY <1>u, <2>1 DEF OwnerInv, OneOwner, Held, TerminalIsDrained, ErrorInv
  <2>3. wpc[m] = "abort" => "writer" \notin aborting
    BY <1>2 DEF Writer, LockWrite, Admit, FrameDispatched, WriterAborted
  <2>4. TakenInv'
    BY <1>u, <1>w, <2>1, <2>3 DEF TakenInv
  <2>7. GateInv'
    <3>1. CASE LockWrite(m)
      BY <1>u, <3>1 DEF LockWrite, GateInv, TypeOK
    <3>2. CASE ~LockWrite(m)
      <4>1. writeGate = m
        BY <1>2, <3>2 DEF Writer, Admit, FrameDispatched, WriterAborted, GateInv
      <4>2. wpc'[m] \in {"admit", "frame", "abort"} => UNCHANGED writeGate
        BY <1>2, <3>2 DEF Writer, Admit, FrameDispatched, WriterAborted, unlockWrite, TypeOK
      <4> QED BY <1>u, <1>w, <4>1, <4>2 DEF GateInv
    <3> QED BY <3>1, <3>2
  <2> QED BY <1>t, <1>f, <2>2, <2>4, <2>7
<1> QED BY <1>1, <1>2

\* The steps of call and notify.
LEMMA SafeWaiter ==
  ASSUME SafeInv, NEW r \in Requests, Waiter(r)
  PROVE  SafeInv'
<1> USE Kinds DEF SafeInv
<1>t. TypeOK'
  BY TypeWaiter
<1>u. UNCHANGED <<state, connErr, taken, aborting, closer, reader, writeGate>>
  BY DEF Waiter, connVars, actorVars
<1>r. rpc[r] \in {"write", "wait", "settle"} /\ rpc'[r] # "idle"
      /\ \A q \in Requests : q # r => rpc'[q] = rpc[q]
  BY DEF Waiter, RequestWritten, WaitDone, WaitCanceled, TypeOK
<1>p. \/ UNCHANGED <<pending, result>>
      \/ /\ r \in pending /\ pending' = pending \ {r}
         /\ \E res \in Results \ {"none"} : result' = [result EXCEPT ![r] = IF @ = "none" THEN res ELSE @]
  BY DEF Waiter, RequestWritten, WaitDone, WaitCanceled, complete, completeOnce, tableVars, Results, Causes
<1>w. \/ UNCHANGED wpc
      \/ /\ r \in CallMsgs /\ rpc[r] # "done" /\ rpc'[r] = "done"
         /\ wpc' = [n \in Messages |-> IF n = <<"cancel", r[2]>> THEN "lock" ELSE wpc[n]]
  <2>1. CASE WaitCanceled(r) /\ r \in CallMsgs \cap pending /\ wpc[r] = "ok"
    BY <2>1 DEF WaitCanceled, TypeOK
  <2>2. CASE WaitCanceled(r) /\ ~(r \in CallMsgs \cap pending /\ wpc[r] = "ok")
    <3>1. wpc' = [n \in Messages |-> wpc[n]]
      BY <2>2 DEF WaitCanceled
    <3> QED BY <3>1 DEF TypeOK
  <2>3. CASE RequestWritten(r) \/ WaitDone(r)
    BY <2>3 DEF RequestWritten, WaitDone
  <2> QED BY <2>1, <2>2, <2>3 DEF Waiter
<1>i. UNCHANGED wpc \/ wpc[<<"cancel", r[2]>>] = "idle"
  BY <1>w DEF FreshInv
<1>1. GateInv'
  BY <1>u, <1>w DEF GateInv
<1>2. TakenInv'
  BY <1>u, <1>w, <1>i DEF TakenInv
<1>3. FreshInv'
  BY <1>u, <1>r, <1>w DEF FreshInv, CallMsgs, CancelMsgs, Messages, Timed, Shutdown, Exit
<1>4. TerminalIsDrained' /\ ErrorInv'
  BY <1>u, <1>p DEF TerminalIsDrained, ErrorInv
<1>5. OwnerInv'
  <2>1. \A a \in Actors : Held(a)' = Held(a)
    BY <1>u DEF Held
  <2>2. CASE UNCHANGED <<pending, result>>
    BY <1>u, <1>r, <2>1, <2>2 DEF OwnerInv, OneOwner
  <2>3. CASE ~UNCHANGED <<pending, result>>
    <3>1. /\ r \in pending /\ pending' = pending \ {r} /\ result'[r] # "none"
          /\ \A q \in Requests : q # r => result'[q] = result[q]
      BY <1>p, <2>3 DEF TypeOK
    <3>2. \A a \in Actors : r \notin Held(a) /\ Held(a) \subseteq Requests
      BY <3>1 DEF OwnerInv, OneOwner, Held, TypeOK
    <3>3. pending \subseteq Requests
      BY DEF TypeOK
    <3>4. OneOwner'
      BY <1>r, <2>1, <3>1, <3>2, <3>3 DEF OwnerInv, OneOwner
    <3> QED BY <1>u, <1>r, <2>1, <3>1, <3>4 DEF OwnerInv
  <2> QED BY <2>2, <2>3
<1> QED BY <1>t, <1>1, <1>2, <1>3, <1>4, <1>5

LEMMA SafeCaller ==
  ASSUME SafeInv, Caller
  PROVE  SafeInv'
<1> USE Kinds DEF SafeInv
<1>t. TypeOK'
  BY TypeCaller
<1>u. UNCHANGED <<state, connErr, taken, aborting, closer, reader, writeGate>>
  BY DEF Caller, connVars, actorVars
<1>h. \A a \in Actors : Held(a)' = Held(a)
  BY <1>u DEF Held
<1>1. CASE \E r \in CallMsgs : StartCall(r)
  <2>1. PICK r \in CallMsgs : StartCall(r)
    BY <1>1
  <2>2. /\ rpc[r] = "idle" /\ rpc'[r] # "idle"
        /\ \A q \in Requests : q # r => rpc'[q] = rpc[q] /\ result'[q] = result[q]
    BY <2>1 DEF StartCall, TypeOK
  <2>3. /\ wpc[r] = "idle" /\ wpc'[r] \in {"idle", "lock", "fail"}
        /\ \A n \in Messages : n # r => wpc'[n] = wpc[n]
    BY <2>1, <2>2 DEF StartCall, FreshInv, enterWrite, TypeOK
  <2>4. /\ pending' \in {pending, pending \cup {r}}
        /\ state # "open" => pending' = pending
        /\ IF r \in pending' THEN result'[r] = "none" ELSE result'[r] # "none"
    <3>1. CASE state = "open"
      BY <2>1, <2>2, <3>1 DEF StartCall, OwnerInv
    <3>2. CASE state # "open"
      <4>1. connErr # "none"
        BY <3>2 DEF ErrorInv
      <4> QED BY <2>1, <2>2, <3>2, <4>1 DEF StartCall, OwnerInv, TypeOK
    <3> QED BY <3>1, <3>2
  <2>5. GateInv' /\ TakenInv' /\ TerminalIsDrained' /\ ErrorInv'
    BY <1>u, <2>3, <2>4 DEF GateInv, TakenInv, TerminalIsDrained, ErrorInv
  <2>6. FreshInv'
    BY <1>u, <2>2, <2>3 DEF FreshInv, CallMsgs, CancelMsgs, Messages, Timed, Shutdown, Exit
  <2>7. OwnerInv'
    <3>1. r \notin pending /\ pending \subseteq Requests
          /\ \A a \in Actors : r \notin Held(a) /\ Held(a) \subseteq Requests
      BY <2>2 DEF OwnerInv, Held, TypeOK
    <3>2. OneOwner'
      BY <1>h, <2>2, <2>4, <3>1 DEF OwnerInv, OneOwner
    <3>3. Shutdown # r
      BY DEF Shutdown, CallMsgs
    <3> QED BY <1>u, <1>h, <2>2, <2>4, <3>1, <3>2, <3>3 DEF OwnerInv
  <2> QED BY <1>t, <2>5, <2>6, <2>7
<1>2. CASE \E m \in NoteMsgs : Notify(m)
  <2>1. PICK m \in NoteMsgs : Notify(m)
    BY <1>2
  <2>2. /\ wpc[m] = "idle" /\ wpc'[m] \in {"lock", "fail"} /\ UNCHANGED <<pending, result, rpc>>
        /\ \A n \in Messages : n # m => wpc'[n] = wpc[n]
    BY <2>1 DEF Notify, enterWrite, TypeOK, tableVars
  <2>3. GateInv' /\ TakenInv' /\ TerminalIsDrained' /\ ErrorInv'
    BY <1>u, <2>2 DEF GateInv, TakenInv, TerminalIsDrained, ErrorInv
  <2>4. FreshInv'
    BY <1>u, <2>2 DEF FreshInv, CallMsgs, CancelMsgs, Messages, Timed, Shutdown, Exit, NoteMsgs
  <2>5. OwnerInv'
    BY <1>u, <1>h, <2>2 DEF OwnerInv, OneOwner
  <2> QED BY <1>t, <2>3, <2>4, <2>5
<1> QED BY <1>1, <1>2 DEF Caller

\* The goroutines that complete what they took.
LEMMA SafeAborter ==
  ASSUME SafeInv, NEW a \in Actors, Aborter(a)
  PROVE  SafeInv'
<1> USE Kinds DEF SafeInv
<1>t. TypeOK'
  BY TypeAborter
<1>u. UNCHANGED <<state, connErr, pending, rpc, wpc, writeGate, closer, reader>>
  BY DEF Aborter, connVars, writeVars
<1>1. GateInv' /\ FreshInv' /\ TerminalIsDrained' /\ ErrorInv'
  BY <1>u DEF GateInv, FreshInv, TerminalIsDrained, ErrorInv
<1>2. CASE CompleteTaken(a)
  <2>1. PICK t \in taken[a] : /\ completeOnce(t[1], t[2])
                              /\ taken' = [taken EXCEPT ![a] = @ \ {t}]
    BY <1>2 DEF CompleteTaken
  <2>2. t[1] \in Requests /\ t[1] \in Held(a) /\ t[2] # "none"
    BY DEF TypeOK, Held
  <2>3. result'[t[1]] # "none" /\ \A q \in Requests : q # t[1] => result'[q] = result[q]
    BY <2>1, <2>2 DEF completeOnce, TypeOK
  <2>4. \A b \in Actors : b # a => Held(b)' = Held(b) /\ taken'[b] = taken[b]
    BY <2>1 DEF Held, TypeOK
  <2>5. taken'[a] = taken[a] \ {t}
    BY <2>1 DEF TypeOK
  <2>6. \A u \in taken[a] \ {t} : u[1] # t[1]
    BY DEF OwnerInv
  <2>7. Held(a)' = Held(a) \ {t[1]}
    BY <2>5, <2>6 DEF Held
  <2>8. \A b \in Actors : Held(b) \subseteq Requests
    BY DEF Held, TypeOK
  <2>9. OneOwner'
    <3>0. t[1] \notin pending /\ \A b \in Actors : b # a => t[1] \notin Held(b)
      BY <2>2 DEF OwnerInv, OneOwner
    <3>1. \A r \in Requests : rpc'[r] # "idle" /\ result'[r] = "none" =>
            r \in pending' \/ \E b \in Actors : r \in Held(b)'
      BY <1>u, <2>3, <2>4, <2>7 DEF OwnerInv, OneOwner
    <3>2. \A r \in pending' : result'[r] = "none" /\ \A b \in Actors : r \notin Held(b)'
      BY <1>u, <2>3, <2>4, <2>7, <3>0 DEF OwnerInv, OneOwner, TypeOK
    <3>3. \A b, d \in Actors : \A r \in Held(b)' :
            result'[r] = "none" /\ (b # d => r \notin Held(d)')
      BY <2>3, <2>4, <2>7, <2>8, <3>0 DEF OwnerInv, OneOwner
    <3> QED BY <3>1, <3>2, <3>3 DEF OneOwner
  <2>10. \A b \in Actors : \A v, w \in taken'[b] : v[1] = w[1] => v = w
    BY <2>4, <2>5 DEF OwnerInv
  <2>11. \A r \in Requests : rpc'[r] = "idle" =>
           r \notin pending' /\ result'[r] = "none" /\ \A b \in Actors : r \notin Held(b)'
    BY <1>u, <2>2, <2>3, <2>4, <2>7 DEF OwnerInv
  <2>12. OwnerInv'
    BY <1>u, <2>9, <2>10, <2>11 DEF OwnerInv
  <2>13. TakenInv'
    BY <1>u, <1>2, <2>4, <2>5 DEF TakenInv, CompleteTaken, Actors
  <2> QED BY <1>t, <1>1, <2>12, <2>13
<1>3. CASE AbortFinish(a)
  <2>1. UNCHANGED <<result, taken>> /\ taken[a] = {} /\ aborting' = aborting \ {a}
    BY <1>3 DEF AbortFinish
  <2>2. OwnerInv'
    BY <1>u, <2>1 DEF OwnerInv, OneOwner, Held
  <2>3. TakenInv'
    BY <1>u, <2>1 DEF TakenInv
  <2> QED BY <1>t, <1>1, <2>2, <2>3
<1> QED BY <1>2, <1>3 DEF Aborter

LEMMA SafeReader ==
  ASSUME SafeInv, ReadFrame \/ ReaderAbort
  PROVE  SafeInv'
<1> USE Kinds DEF SafeInv
<1>t. TypeOK'
  BY TypeReader
<1>a. "reader" \in Actors /\ "eof" \in Causes
  BY DEF Actors, Causes
<1>u. UNCHANGED <<result, rpc, writeGate, closer>>
  BY DEF ReadFrame, ReaderAbort, writeVars
<1>1. CASE ReadFrame
  <2>0. taken["reader"] = {} /\ UNCHANGED <<state, connErr, aborting>>
    BY <1>1 DEF ReadFrame, connVars
  <2>1. CASE \E r \in Requests : DeliverResponse(r)
    <3>1. PICK r \in Requests : DeliverResponse(r)
      BY <2>1
    <3>2. UNCHANGED <<reader, wpc>> /\ r \in pending /\ pending' = pending \ {r}
      BY <3>1 DEF DeliverResponse
    <3>3. /\ taken'["reader"] = {<<r, "message">>}
          /\ \A b \in Actors : b # "reader" => taken'[b] = taken[b]
      BY <1>a, <3>1 DEF DeliverResponse, TypeOK
    <3>4. Held("reader") = {} /\ Held("reader")' = {r} /\ \A b \in Actors : b # "reader" => Held(b)' = Held(b)
      BY <2>0, <3>3 DEF Held
    <3>5. reader # "failed"
      BY <1>1 DEF ReadFrame
    <3>6. GateInv' /\ FreshInv' /\ TerminalIsDrained' /\ ErrorInv' /\ TakenInv'
      BY <1>u, <2>0, <3>2, <3>3, <3>5
      DEF GateInv, FreshInv, TerminalIsDrained, ErrorInv, TakenInv, Actors
    <3>7. OneOwner'
      <4>0. result[r] = "none" /\ \A b \in Actors : r \notin Held(b)
        BY <3>2 DEF OwnerInv, OneOwner
      <4>1. \A q \in Requests : rpc'[q] # "idle" /\ result'[q] = "none" =>
              q \in pending' \/ \E b \in Actors : q \in Held(b)'
        BY <1>a, <1>u, <3>2, <3>4 DEF OwnerInv, OneOwner
      <4>2. \A q \in pending' : result'[q] = "none" /\ \A b \in Actors : q \notin Held(b)'
        BY <1>u, <3>2, <3>4 DEF OwnerInv, OneOwner
      <4>3. \A b, d \in Actors : \A q \in Held(b)' :
              result'[q] = "none" /\ (b # d => q \notin Held(d)')
        BY <1>u, <3>4, <4>0 DEF OwnerInv, OneOwner
      <4> QED BY <4>1, <4>2, <4>3 DEF OneOwner
    <3>8. OwnerInv'
      BY <1>u, <3>2, <3>3, <3>4, <3>7 DEF OwnerInv
    <3> QED BY <1>t, <3>6, <3>8
  <2>2. CASE \E m \in ReplyMsgs : RespondMethodNotFound(m)
    <3>1. PICK m \in ReplyMsgs : RespondMethodNotFound(m)
      BY <2>2
    <3>2. /\ wpc[m] = "idle" /\ wpc'[m] = "lock" /\ UNCHANGED <<pending, taken, reader>>
          /\ \A n \in Messages : n # m => wpc'[n] = wpc[n]
      BY <3>1 DEF RespondMethodNotFound, TypeOK
    <3>3. GateInv' /\ TakenInv' /\ TerminalIsDrained' /\ ErrorInv'
      BY <1>u, <2>0, <3>2 DEF GateInv, TakenInv, TerminalIsDrained, ErrorInv
    <3>4. FreshInv'
      BY <1>u, <3>2 DEF FreshInv, CallMsgs, CancelMsgs, Messages, Timed, Shutdown, Exit, ReplyMsgs
    <3>5. OwnerInv'
      BY <1>u, <3>2 DEF OwnerInv, OneOwner, Held
    <3> QED BY <1>t, <3>3, <3>4, <3>5
  <2>3. CASE ReaderFailed
    <3>1. GateInv' /\ FreshInv'
      BY <1>u, <2>3 DEF ReaderFailed, GateInv, FreshInv
    <3>2. CASE state = "closing"
      <4>1. drainPendingLocked("reader", "eof", {}) /\ reader' = "done"
        BY <2>3, <3>2 DEF ReaderFailed
      <4>2. OwnerInv'
        BY <1>a, <1>u, <2>0, <4>1, DrainOwner
      <4>3. TakenInv' /\ TerminalIsDrained' /\ ErrorInv'
        BY <1>u, <2>0, <2>3, <4>1 DEF TakenInv, TerminalIsDrained, ErrorInv, drainPendingLocked, TypeOK, Actors, ReaderFailed
      <4> QED BY <1>t, <3>1, <4>2, <4>3
    <3>3. CASE state # "closing"
      <4>1. UNCHANGED <<pending, taken, wpc>> /\ reader' = "failed"
        BY <2>3, <3>3 DEF ReaderFailed
      <4>2. OwnerInv' /\ TakenInv' /\ TerminalIsDrained' /\ ErrorInv'
        BY <1>u, <2>0, <4>1 DEF OwnerInv, OneOwner, Held, TakenInv, TerminalIsDrained, ErrorInv
      <4> QED BY <1>t, <3>1, <4>2
    <3> QED BY <3>2, <3>3
  <2> QED BY <1>1, <2>1, <2>2, <2>3 DEF ReadFrame
<1>2. CASE ReaderAbort
  <2>1. abort("reader", "eof") /\ reader' = "done" /\ taken["reader"] = {} /\ UNCHANGED wpc
    BY <1>2 DEF ReaderAbort, TakenInv, writeVars
  <2>2. OwnerInv' /\ TerminalIsDrained' /\ ErrorInv'
    BY <1>a, <1>u, <2>1, AbortOwner
  <2>3. GateInv' /\ FreshInv'
    BY <1>u, <2>1 DEF GateInv, FreshInv
  <2>4. /\ \A b \in Actors : b # "reader" => taken'[b] = taken[b]
        /\ aborting' \in {aborting, aborting \cup {"reader"}}
    BY <2>1 DEF abort, drainPendingLocked, actorVars, TypeOK
  <2>5. TakenInv'
    BY <1>u, <2>1, <2>4 DEF TakenInv, Actors
  <2> QED BY <1>t, <2>2, <2>3, <2>5
<1> QED BY <1>1, <1>2

\* close() and abortAndWait.
LEMMA SafeCloser ==
  ASSUME SafeInv, CloseCalled \/ CloseStep
  PROVE  SafeInv'
<1> USE Kinds DEF SafeInv, closerStep
<1>t. TypeOK'
  BY TypeCloser
<1>a. "closer" \in Actors /\ "closed" \in Causes /\ "ctx" \in Causes
  BY DEF Actors, Causes
<1>u. UNCHANGED <<result, reader>>
  BY DEF CloseCalled, CloseStep
\* A step that moves close() on, leaves the table alone and holds the gate as it did.
<1>q. ASSUME UNCHANGED <<state, connErr, pending, taken, aborting, rpc, wpc, writeGate>>,
             closer' \notin {"begin", "release"},
             closer' \in {"idle", "lock", "shutdown"} => closer = "idle" /\ closer' = "lock",
             taken["closer"] # {} => closer' \in {"release", "finishing"} \/ "closer" \in aborting,
             "closer" \in aborting => closer' \in {"abortLock", "abortInput", "initAbort"}
      PROVE  SafeInv'
  <2>1. GateInv' /\ TakenInv' /\ FreshInv' /\ TerminalIsDrained' /\ ErrorInv'
    BY <1>u, <1>q DEF GateInv, TakenInv, FreshInv, TerminalIsDrained, ErrorInv
  <2>2. OwnerInv'
    BY <1>u, <1>q DEF OwnerInv, OneOwner, Held
  <2> QED BY <1>t, <2>1, <2>2
\* A step in which close() aborts.
<1>b. ASSUME NEW c \in Causes, abort("closer", c), UNCHANGED <<rpc, wpc, writeGate>>,
             taken["closer"] = {}, closer' \in {"abortLock", "abortInput", "initAbort"}
      PROVE  SafeInv'
  <2>1. OwnerInv' /\ TerminalIsDrained' /\ ErrorInv'
    BY <1>a, <1>b, <1>u, AbortOwner
  <2>2. GateInv' /\ FreshInv'
    BY <1>b DEF GateInv, FreshInv
  <2>3. /\ \A b \in Actors : b # "closer" => taken'[b] = taken[b]
        /\ aborting' \in {aborting, aborting \cup {"closer"}}
        /\ taken'["closer"] # {} => "closer" \in aborting'
    BY <1>b DEF abort, drainPendingLocked, actorVars, TypeOK, Actors
  <2>4. TakenInv'
    BY <1>u, <1>b, <2>3 DEF TakenInv, Actors
  <2> QED BY <1>t, <2>1, <2>2, <2>4
<1>1. CASE CloseLock
  <2>0. closer = "lock" /\ taken["closer"] = {}
    BY <1>1 DEF CloseLock, TakenInv
  <2>1. CASE abort("closer", "ctx") /\ closer' = "abortLock"
    BY <1>1, <1>a, <1>b, <2>0, <2>1 DEF CloseLock, writeVars
  <2>2. CASE closer' = "begin"
    <3>1. /\ writeGate = Free /\ writeGate' = Closer
          /\ UNCHANGED <<state, connErr, pending, taken, aborting, rpc, wpc>>
      BY <1>1, <2>2 DEF CloseLock, connVars, actorVars
    <3>2. GateInv' /\ TakenInv' /\ FreshInv' /\ TerminalIsDrained' /\ ErrorInv'
      BY <1>u, <2>0, <2>2, <3>1 DEF GateInv, TakenInv, FreshInv, TerminalIsDrained, ErrorInv
    <3>3. OwnerInv'
      BY <1>u, <2>0, <2>2, <3>1 DEF OwnerInv, OneOwner, Held
    <3> QED BY <1>t, <3>2, <3>3
  <2> QED BY <1>1, <2>1, <2>2 DEF CloseLock
<1>2. CASE BeginClose
  <2>0. closer = "begin" /\ taken["closer"] = {} /\ writeGate = Closer /\ rpc[Shutdown] = "idle"
        /\ UNCHANGED <<wpc, aborting>> /\ "closer" \notin aborting
    BY <1>2 DEF BeginClose, TakenInv, GateInv, OwnerInv
  <2>1. CASE state # "open"
    <3>1. /\ closer' = "input" /\ writeGate' = Free
          /\ UNCHANGED <<state, connErr, pending, taken, rpc>>
      BY <1>2, <2>1 DEF BeginClose, connVars
    <3>2. GateInv' /\ TakenInv' /\ FreshInv' /\ TerminalIsDrained' /\ ErrorInv'
      BY <1>u, <2>0, <3>1 DEF GateInv, TakenInv, FreshInv, TerminalIsDrained, ErrorInv
    <3>3. OwnerInv'
      BY <1>u, <3>1 DEF OwnerInv, OneOwner, Held
    <3> QED BY <1>t, <3>2, <3>3
  <2>2. CASE state = "open"
    <3>1. /\ closer' = "release" /\ UNCHANGED writeGate
          /\ state' = "closing" /\ connErr' = "closed"
          /\ drainPendingLocked("closer", "closed", {Shutdown})
          /\ rpc' = [rpc EXCEPT ![Shutdown] = "write"]
      BY <1>2, <2>2 DEF BeginClose, transitionFromOpenLocked
    <3>2. /\ pending' = {Shutdown} /\ Held("closer")' = pending
          /\ \A b \in Actors : b # "closer" => Held(b)' = Held(b) /\ taken'[b] = taken[b]
          /\ taken'["closer"] = pending \X {"closed"}
      BY <1>a, <3>1, DrainHeld DEF drainPendingLocked
    <3>3. GateInv' /\ TerminalIsDrained' /\ ErrorInv'
      BY <2>0, <3>1 DEF GateInv, TerminalIsDrained, ErrorInv
    <3>4. TakenInv'
      BY <1>u, <2>0, <3>1, <3>2 DEF TakenInv, Actors
    <3>5. FreshInv'
      BY <2>0, <3>1 DEF FreshInv, CallMsgs, Shutdown, TypeOK
    <3>6. /\ Shutdown \notin pending /\ result[Shutdown] = "none" /\ Held("closer") = {}
          /\ \A b \in Actors : Shutdown \notin Held(b)
      BY <2>0 DEF OwnerInv, Held
    <3>7. rpc'[Shutdown] = "write" /\ \A q \in Requests : q # Shutdown => rpc'[q] = rpc[q]
      BY <3>1 DEF TypeOK
    <3>8. OneOwner'
      <4>1. \A q \in Requests : rpc'[q] # "idle" /\ result'[q] = "none" =>
              q \in pending' \/ \E b \in Actors : q \in Held(b)'
        BY <1>a, <1>u, <3>2, <3>6, <3>7 DEF OwnerInv, OneOwner
      <4>2. \A q \in pending' : result'[q] = "none" /\ \A b \in Actors : q \notin Held(b)'
        BY <1>u, <3>2, <3>6
      <4>3. \A b, d \in Actors : \A q \in Held(b)' :
              result'[q] = "none" /\ (b # d => q \notin Held(d)')
        BY <1>u, <3>2, <3>6 DEF OwnerInv, OneOwner
      <4> QED BY <4>1, <4>2, <4>3 DEF OneOwner
    <3>9. \A b \in Actors : \A v, w \in taken'[b] : v[1] = w[1] => v = w
      BY <3>2 DEF OwnerInv
    <3>10. \A q \in Requests : rpc'[q] = "idle" =>
             q \notin pending' /\ result'[q] = "none" /\ \A b \in Actors : q \notin Held(b)'
      BY <1>u, <3>2, <3>7 DEF OwnerInv
    <3>11. OwnerInv'
      BY <3>1, <3>8, <3>9, <3>10 DEF OwnerInv
    <3> QED BY <1>t, <3>3, <3>4, <3>5, <3>11
  <2> QED BY <2>1, <2>2
<1>3. CASE WriteShutdown
  <2>1. /\ closer = "release" /\ closer' = "shutdown" /\ taken["closer"] = {}
        /\ writeGate = Closer /\ writeGate' = Shutdown /\ wpc'[Shutdown] = "admit"
        /\ \A n \in Messages : n # Shutdown => wpc'[n] = wpc[n]
        /\ UNCHANGED <<state, connErr, pending, taken, aborting, rpc>>
    BY <1>3 DEF WriteShutdown, GateInv, TypeOK, connVars, actorVars
  <2>2. \A n \in Messages : wpc[n] \notin {"admit", "frame", "abort"}
    BY <2>1 DEF GateInv
  <2>3. GateInv' /\ TakenInv' /\ TerminalIsDrained' /\ ErrorInv'
    BY <1>u, <2>1, <2>2 DEF GateInv, TakenInv, TerminalIsDrained, ErrorInv
  <2>4. FreshInv'
    BY <2>1 DEF FreshInv, CallMsgs, CancelMsgs, Messages, Timed, Shutdown, Exit
  <2>5. OwnerInv'
    BY <1>u, <2>1 DEF OwnerInv, OneOwner, Held
  <2> QED BY <1>t, <2>3, <2>4, <2>5
<1>4. CASE WriteExit
  <2>1. /\ closer = "shutdown" /\ closer' = "exit" /\ wpc[Exit] = "idle" /\ wpc'[Exit] \in {"lock", "fail"}
        /\ \A n \in Messages : n # Exit => wpc'[n] = wpc[n]
        /\ UNCHANGED <<state, connErr, pending, taken, aborting, rpc, writeGate>>
    BY <1>4 DEF WriteExit, enterWrite, FreshInv, TypeOK, connVars, actorVars
  <2>2. GateInv' /\ TakenInv' /\ TerminalIsDrained' /\ ErrorInv'
    BY <1>u, <2>1 DEF GateInv, TakenInv, TerminalIsDrained, ErrorInv
  <2>3. FreshInv'
    BY <2>1 DEF FreshInv, CallMsgs, CancelMsgs, Messages, Timed, Shutdown, Exit
  <2>4. OwnerInv'
    BY <1>u, <2>1 DEF OwnerInv, OneOwner, Held
  <2> QED BY <1>t, <2>2, <2>3, <2>4
<1>5. CASE HandshakeOver \/ GraceOver \/ CloseReturn \/ CloseStart \/ InitReturn
  BY <1>q, <1>5 DEF HandshakeOver, GraceOver, CloseReturn, CloseStart, InitReturn, TakenInv,
                    connVars, actorVars, writeVars
<1>6. CASE CloseInputAfterWrites
  BY <1>q, <1>6 DEF CloseInputAfterWrites, waitForProcess, TakenInv, connVars, actorVars, writeVars
<1>7. CASE CloseInputLocked
  <2>1. CASE closer' = "abortInput"
    BY <1>7, <1>a, <1>b, <2>1 DEF CloseInputLocked, waitForProcess, TakenInv, writeVars
  <2>2. CASE closer' # "abortInput"
    BY <1>q, <1>7, <2>2 DEF CloseInputLocked, waitForProcess, TakenInv, connVars, actorVars, writeVars
  <2> QED BY <2>1, <2>2
<1>8. CASE FinishClose
  <2>1. /\ closer = "finish" /\ closer' = "finishing" /\ taken["closer"] = {} /\ "closer" \notin aborting
        /\ UNCHANGED <<connErr, wpc, writeGate, rpc, aborting>>
    BY <1>8 DEF FinishClose, TakenInv, writeVars
  <2>2. GateInv' /\ FreshInv'
    BY <2>1 DEF GateInv, FreshInv
  <2>3. CASE state = "closing"
    <3>1. drainPendingLocked("closer", "closed", {}) /\ state' = "closed"
      BY <1>8, <2>3 DEF FinishClose
    <3>2. OwnerInv'
      BY <1>a, <1>u, <2>1, <3>1, DrainOwner
    <3>3. TerminalIsDrained' /\ ErrorInv'
      BY <2>1, <2>3, <3>1 DEF TerminalIsDrained, ErrorInv, drainPendingLocked
    <3>4. \A b \in Actors : b # "closer" => taken'[b] = taken[b]
      BY <3>1 DEF drainPendingLocked, TypeOK
    <3>5. TakenInv'
      BY <1>u, <2>1, <3>4 DEF TakenInv, Actors
    <3> QED BY <1>t, <2>2, <3>2, <3>3, <3>5
  <2>4. CASE state # "closing"
    BY <1>q, <1>8, <2>1, <2>4 DEF FinishClose
  <2> QED BY <2>3, <2>4
<1>9. CASE InitFailed
  BY <1>9, <1>a, <1>b DEF InitFailed, TakenInv, writeVars
<1> QED BY <1>1, <1>2, <1>3, <1>4, <1>5, <1>6, <1>7, <1>8, <1>9 DEF CloseCalled, CloseStep

LEMMA SafeNext ==
  ASSUME SafeInv, [Next]_vars
  PROVE  SafeInv'
<1>0. CASE UNCHANGED <<state, connErr, pending, result, taken, aborting, rpc, wpc, writeGate, closer, reader>>
  <2>1. GateInv' /\ TakenInv' /\ FreshInv' /\ TerminalIsDrained' /\ ErrorInv'
    BY <1>0 DEF SafeInv, GateInv, TakenInv, FreshInv, TerminalIsDrained, ErrorInv
  <2>2. OwnerInv'
    BY <1>0 DEF SafeInv, OwnerInv, OneOwner, Held
  <2> QED BY <2>1, <2>2, TypeNext DEF SafeInv
<1>1. CASE \E m \in Messages : Writer(m)
  BY <1>1, SafeWriter
<1>2. CASE \E m \in Messages : FrameIo(m)
  BY <1>0, <1>2 DEF FrameIo, connVars, tableVars, writeVars, actorVars
<1>3. CASE \E r \in Requests : Waiter(r)
  BY <1>3, SafeWaiter
<1>4. CASE \E a \in Actors : Aborter(a)
  BY <1>4, SafeAborter
<1>5. CASE Caller
  BY <1>5, SafeCaller
<1>6. CASE ReadFrame \/ ReaderAbort
  BY <1>6, SafeReader
<1>7. CASE CloseCalled \/ CloseStep
  BY <1>7, SafeCloser
<1>8. CASE ProcessReaped
  BY <1>0, <1>8 DEF ProcessReaped, connVars, tableVars, writeVars, actorVars
<1>9. CASE \E x \in Contexts : Expire(x)
  BY <1>0, <1>9 DEF Expire, connVars, tableVars, writeVars, actorVars
<1>10. CASE UNCHANGED vars
  BY <1>0, <1>10 DEF vars, connVars, tableVars, writeVars, actorVars
<1> QED BY <1>1, <1>2, <1>3, <1>4, <1>5, <1>6, <1>7, <1>8, <1>9, <1>10 DEF Next

LEMMA SafeInit == Init => SafeInv
<1> SUFFICES ASSUME Init PROVE SafeInv
  OBVIOUS
<1>1. \A a \in Actors : taken[a] = {} /\ Held(a) = {}
  BY DEF Init, Held
<1>2. OwnerInv
  BY <1>1, Kinds DEF Init, OwnerInv, OneOwner
<1>3. GateInv /\ TakenInv /\ TerminalIsDrained /\ ErrorInv
  BY <1>1 DEF Init, GateInv, TakenInv, TerminalIsDrained, ErrorInv, Actors
<1>4. FreshInv
  BY Kinds DEF Init, FreshInv, CallMsgs, CancelMsgs, Messages, Timed
<1> QED BY <1>2, <1>3, <1>4, TypeInit DEF SafeInv

LEMMA Safe == Spec => []SafeInv
  BY SafeInit, SafeNext, PTL DEF Spec

\* No waiter of waitPending is lost and no request is completed twice: a request
\* that is registered and unanswered is in the table or in the hands of exactly
\* one goroutine, however many calls, aborts and shutdowns race, and a closed or
\* aborted connection keeps none in its table.
THEOREM RequestsHaveOneOwner == Spec => []NoRequestLost
<1>1. SafeInv => NoRequestLost
  BY DEF SafeInv, OwnerInv, NoRequestLost
<1> QED BY <1>1, Safe, PTL

-----------------------------------------------------------------------------
(* The server sees whole frames.                                           *)

Terminal == state \in {"closed", "aborted"}

\* Why frames do not interleave: a goroutine of writeFull that may still write
\* belongs to the writer at the gate, or the connection is terminal and admits
\* no other; the same holds of a frame that was torn.
WireInv ==
  /\ \A m \in Messages : wpc[m] \in {"idle", "lock", "admit"} => io[m] = "none"
  /\ \A m \in Messages : io[m] \in {"started", "head"} => wpc[m] = "frame" \/ Terminal
  /\ \A m, n \in Messages :
       io[m] \in {"started", "head"} /\ io[n] \in {"started", "head"} => m = n
  /\ \A m \in Messages : Len(wire) > 0 /\ wire[Len(wire)] = <<m, "head">> =>
       \/ io[m] = "head"
       \/ io[m] = "failed" /\ (wpc[m] = "frame" \/ Terminal)
  /\ \A m \in Messages : io[m] = "head" => Len(wire) > 0 /\ wire[Len(wire)] = <<m, "head">>
  /\ \A m \in Messages : io[m] = "started" => Len(wire) = 0 \/ wire[Len(wire)][2] = "tail"
  /\ FramesContiguous

\* What every step but the start of a frame and the frame's own goroutine does
\* to the writers.
LEMMA Bystander ==
  ASSUME SafeInv, WireInv, [Next]_vars,
         ~\E m \in Messages : FrameIo(m) \/ (Writer(m) /\ Admit(m))
  PROVE  /\ UNCHANGED <<io, wire>>
         /\ Terminal => Terminal'
         /\ \A m \in Messages :
              /\ wpc'[m] \in {"idle", "lock", "admit"} => wpc[m] \in {"idle", "lock", "admit"}
              /\ wpc[m] = "frame" => wpc'[m] = "frame" \/ Terminal' \/ io[m] = "ok"
<1> USE Kinds DEF SafeInv, Terminal
<1>0. ASSUME NEW a \in Actors, NEW c \in Causes, abort(a, c)
      PROVE  Terminal'
  BY <1>0 DEF abort, transitionFromOpenLocked, connVars
<1>1. CASE \E m \in Messages : Writer(m)
  <2>1. PICK m \in Messages : Writer(m) /\ ~Admit(m)
    BY <1>1
  <2>2. \A n \in Messages : n # m => wpc'[n] = wpc[n]
    BY <2>1 DEF Writer, LockWrite, FrameDispatched, FrameAborted, WriterAborted, unlockWrite, TypeOK
  <2>3. CASE FrameAborted(m)
    <3>1. Terminal'
      BY <1>0, <2>3 DEF FrameAborted, Actors, Causes
    <3>2. wpc'[m] = "abort"
      BY <2>3 DEF FrameAborted, TypeOK
    <3> QED BY <2>1, <2>2, <2>3, <3>1, <3>2 DEF FrameAborted, Writer
  <2>4. CASE LockWrite(m) \/ FrameDispatched(m) \/ WriterAborted(m)
    <3>1. UNCHANGED <<io, wire, state>>
      BY <2>1, <2>4 DEF LockWrite, FrameDispatched, WriterAborted, Writer, connVars
    <3>2. \/ wpc[m] = "lock"
          \/ wpc[m] = "frame" /\ io[m] = "ok" /\ wpc'[m] = "ok"
          \/ wpc[m] = "abort" /\ wpc'[m] = "fail"
      BY <2>4 DEF LockWrite, FrameDispatched, WriterAborted, unlockWrite, TypeOK
    <3> QED BY <2>2, <3>1, <3>2
  <2> QED BY <2>1, <2>3, <2>4 DEF Writer
<1>2. CASE \E r \in Requests : Waiter(r)
  <2>1. PICK r \in Requests : Waiter(r)
    BY <1>2
  <2>2. UNCHANGED <<io, wire, state>>
    BY <2>1 DEF Waiter, frameVars, connVars
  <2>3. \A n \in Messages : wpc'[n] # wpc[n] => wpc[n] = "idle"
    <3>1. CASE WaitCanceled(r)
      <4>1. \A n \in Messages : wpc'[n] # wpc[n] => n = <<"cancel", r[2]>> /\ r \in CallMsgs
        BY <3>1 DEF WaitCanceled
      <4>2. rpc[r] # "done"
        BY <3>1 DEF WaitCanceled
      <4> QED BY <4>1, <4>2 DEF FreshInv
    <3>2. CASE ~WaitCanceled(r)
      BY <2>1, <3>2 DEF Waiter, RequestWritten, WaitDone
    <3> QED BY <3>1, <3>2
  <2> QED BY <2>2, <2>3
<1>3. CASE Caller
  <2>1. UNCHANGED <<io, wire, state>>
    BY <1>3 DEF Caller, frameVars, connVars
  <2>2. \A n \in Messages : wpc'[n] # wpc[n] => wpc[n] = "idle"
    <3>1. CASE \E r \in CallMsgs : StartCall(r)
      BY <3>1 DEF StartCall, FreshInv, TypeOK
    <3>2. CASE \E m \in NoteMsgs : Notify(m)
      BY <3>2 DEF Notify, TypeOK
    <3> QED BY <1>3, <3>1, <3>2 DEF Caller
  <2> QED BY <2>1, <2>2
<1>4. CASE \E a \in Actors : Aborter(a)
  BY <1>4 DEF Aborter, frameVars, connVars, writeVars
<1>5. CASE ReadFrame
  <2>1. UNCHANGED <<io, wire, state>>
    BY <1>5 DEF ReadFrame, frameVars, connVars
  <2>2. \A n \in Messages : wpc'[n] # wpc[n] => wpc[n] = "idle"
    BY <1>5 DEF ReadFrame, DeliverResponse, RespondMethodNotFound, ReaderFailed, TypeOK
  <2> QED BY <2>1, <2>2
<1>6. CASE ReaderAbort
  BY <1>0, <1>6 DEF ReaderAbort, frameVars, writeVars, Actors, Causes
<1>7. CASE CloseCalled \/ CloseStep
  <2>1. UNCHANGED <<io, wire>>
    BY <1>7 DEF CloseCalled, CloseStep, frameVars
  <2>2. \A n \in Messages : wpc'[n] # wpc[n] => wpc[n] = "idle"
    <3>1. CASE WriteShutdown
      BY <3>1 DEF WriteShutdown, closerStep, FreshInv, TypeOK
    <3>2. CASE WriteExit
      BY <3>2 DEF WriteExit, closerStep, FreshInv, TypeOK
    <3>3. CASE ~WriteShutdown /\ ~WriteExit
      BY <1>7, <3>3 DEF CloseCalled, CloseStep, CloseLock, BeginClose, HandshakeOver,
         CloseInputAfterWrites, CloseInputLocked, GraceOver, FinishClose, CloseReturn, CloseStart,
         InitFailed, InitReturn, writeVars
    <3> QED BY <3>1, <3>2, <3>3
  <2>3. Terminal => Terminal'
    <3>1. CASE UNCHANGED state
      BY <3>1
    <3>2. CASE \E c \in {"ctx", "closed"} : abort("closer", c)
      BY <1>0, <3>2 DEF Actors, Causes
    <3>3. CASE BeginClose \/ FinishClose
      BY <3>3 DEF BeginClose, FinishClose, connVars
    <3>4. CASE ~BeginClose /\ ~FinishClose
      BY <1>7, <3>1, <3>2, <3>4 DEF CloseCalled, CloseStep, CloseLock, WriteShutdown, WriteExit,
         HandshakeOver, CloseInputAfterWrites, CloseInputLocked, GraceOver, CloseReturn, CloseStart,
         InitFailed, InitReturn, connVars
    <3> QED BY <3>3, <3>4
  <2> QED BY <2>1, <2>2, <2>3
<1>8. CASE ProcessReaped \/ (\E x \in Contexts : Expire(x)) \/ UNCHANGED vars
  BY <1>8 DEF ProcessReaped, Expire, vars, connVars, writeVars, frameVars
<1> QED BY <1>1, <1>2, <1>3, <1>4, <1>5, <1>6, <1>7, <1>8 DEF Next

\* A frame is started only when no other is being written and none was torn.
LEMMA WireAdmit ==
  ASSUME SafeInv, WireInv, NEW m \in Messages, Writer(m), Admit(m)
  PROVE  WireInv'
<1> USE Kinds DEF SafeInv
<1>1. wpc[m] = "admit" /\ writeGate = m /\ io[m] = "none"
  BY DEF Admit, GateInv, WireInv
<1>2. UNCHANGED <<wire, state>>
  BY DEF Writer, Admit, connVars
<1>3. \A n \in Messages : n # m => wpc'[n] = wpc[n] /\ wpc[n] # "frame" /\ io'[n] = io[n]
  BY <1>1 DEF Admit, GateInv, TypeOK, unlockWrite
<1>4. CASE CtxOf(m) \notin expired /\ admitWrite(m)
  <2>1. wpc'[m] = "frame" /\ io'[m] = "started" /\ ~Terminal
    BY <1>4 DEF Admit, TypeOK, admitWrite, Terminal
  <2>2. \A n \in Messages : io[n] \notin {"started", "head"}
    BY <1>1, <1>3, <2>1 DEF WireInv
  <2>3. Len(wire) > 0 => wire[Len(wire)][2] = "tail"
    <3>1. SUFFICES ASSUME Len(wire) > 0, wire[Len(wire)][2] # "tail" PROVE FALSE
      OBVIOUS
    <3>2. wire[Len(wire)] \in Messages \X {"head", "tail"}
      BY <3>1 DEF TypeOK
    <3>3. PICK n \in Messages : wire[Len(wire)] = <<n, "head">>
      BY <3>1, <3>2
    <3> QED BY <1>1, <1>3, <2>1, <2>2, <3>1, <3>3 DEF WireInv
  <2>4. FramesContiguous'
    BY <1>2 DEF WireInv, FramesContiguous
  <2>5. \A n \in Messages : Len(wire) > 0 => wire[Len(wire)] # <<n, "head">>
    BY <2>3
  <2>6. Len(wire) \in Nat
    BY DEF TypeOK
  <2> QED BY <1>2, <1>3, <2>1, <2>2, <2>3, <2>4, <2>5, <2>6 DEF WireInv, Terminal
<1>5. CASE ~(CtxOf(m) \notin expired /\ admitWrite(m))
  <2>1. wpc'[m] = "fail" /\ UNCHANGED io
    BY <1>5 DEF Admit, unlockWrite, TypeOK
  <2> QED BY <1>1, <1>2, <1>3, <2>1 DEF WireInv, FramesContiguous, Terminal
<1> QED BY <1>4, <1>5

\* The goroutine of a frame writes behind its own head only.
LEMMA WireIo ==
  ASSUME SafeInv, WireInv, NEW m \in Messages, FrameIo(m)
  PROVE  WireInv'
<1> USE DEF SafeInv
<1>1. UNCHANGED <<wpc, state>> /\ \A n \in Messages : n # m => io'[n] = io[n]
  BY DEF FrameIo, writeVars, connVars, WriteBytes, DispatchFrame, WriteFails, TypeOK
<1>2. Len(wire) \in Nat /\ wire \in Seq(Messages \X {"head", "tail"})
  BY DEF TypeOK
<1>3. CASE WriteBytes(m)
  <2>1. /\ \/ io[m] = "started" /\ io'[m] = "head"
           \/ io[m] = "head" /\ io'[m] = "tail"
        /\ wire' = Append(wire, <<m, io'[m]>>)
    BY <1>3 DEF WriteBytes, TypeOK
  <2>2. /\ Len(wire') = Len(wire) + 1 /\ wire'[Len(wire')] = <<m, io'[m]>>
        /\ \A i \in 1..Len(wire) : wire'[i] = wire[i]
    BY <1>2, <2>1
  <2>3. CASE io[m] = "started"
    <3>1. io'[m] = "head" /\ (Len(wire) > 0 => wire[Len(wire)][2] = "tail")
      BY <1>2, <2>1, <2>3 DEF WireInv
    <3>2. FramesContiguous'
      <4> SUFFICES ASSUME NEW i \in 1..Len(wire')
                   PROVE  IF wire'[i][2] = "head"
                            THEN i = Len(wire') \/ wire'[i + 1] = <<wire'[i][1], "tail">>
                            ELSE i > 1 /\ wire'[i - 1] = <<wire'[i][1], "head">>
        BY DEF FramesContiguous
      <4>1. CASE i = Len(wire')
        BY <1>2, <2>2, <3>1, <4>1
      <4>2. CASE i \in 1..Len(wire)
        <5>1. wire'[i] = wire[i] /\ (i > 1 => wire'[i - 1] = wire[i - 1])
          BY <1>2, <2>2, <4>2
        <5>2. IF wire[i][2] = "head"
                THEN i = Len(wire) \/ wire[i + 1] = <<wire[i][1], "tail">>
                ELSE i > 1 /\ wire[i - 1] = <<wire[i][1], "head">>
          BY <4>2 DEF WireInv, FramesContiguous
        <5>3. i < Len(wire) => wire'[i + 1] = wire[i + 1]
          BY <1>2, <2>2, <4>2
        <5>4. i = Len(wire) => wire'[i + 1] = <<m, io'[m]>>
          BY <1>2, <2>2
        <5> QED BY <1>2, <3>1, <4>2, <5>1, <5>2, <5>3, <5>4
      <4> QED BY <1>2, <2>2, <4>1, <4>2
    <3>3. \A n \in Messages : n # m => io[n] \notin {"started", "head"}
      BY <2>3 DEF WireInv
    <3> QED BY <1>1, <1>2, <2>2, <2>3, <3>1, <3>2, <3>3 DEF WireInv, Terminal
  <2>4. CASE io[m] = "head"
    <3>1. io'[m] = "tail" /\ Len(wire) > 0 /\ wire[Len(wire)] = <<m, "head">>
      BY <2>1, <2>4 DEF WireInv
    <3>2. FramesContiguous'
      <4> SUFFICES ASSUME NEW i \in 1..Len(wire')
                   PROVE  IF wire'[i][2] = "head"
                            THEN i = Len(wire') \/ wire'[i + 1] = <<wire'[i][1], "tail">>
                            ELSE i > 1 /\ wire'[i - 1] = <<wire'[i][1], "head">>
        BY DEF FramesContiguous
      <4>1. CASE i = Len(wire')
        BY <1>2, <2>2, <3>1, <4>1
      <4>2. CASE i \in 1..Len(wire)
        <5>1. wire'[i] = wire[i] /\ (i > 1 => wire'[i - 1] = wire[i - 1])
          BY <1>2, <2>2, <4>2
        <5>2. IF wire[i][2] = "head"
                THEN i = Len(wire) \/ wire[i + 1] = <<wire[i][1], "tail">>
                ELSE i > 1 /\ wire[i - 1] = <<wire[i][1], "head">>
          BY <4>2 DEF WireInv, FramesContiguous
        <5>3. i < Len(wire) => wire'[i + 1] = wire[i + 1]
          BY <1>2, <2>2, <4>2
        <5>4. i = Len(wire) => wire'[i + 1] = <<m, io'[m]>>
          BY <1>2, <2>2
        <5> QED BY <1>2, <3>1, <4>2, <5>1, <5>2, <5>3, <5>4
      <4> QED BY <1>2, <2>2, <4>1, <4>2
    <3>3. \A n \in Messages : n # m => io[n] \notin {"started", "head"}
      BY <2>4 DEF WireInv
    <3> QED BY <1>1, <1>2, <2>2, <2>4, <3>1, <3>2, <3>3 DEF WireInv, Terminal
  <2> QED BY <2>1, <2>3, <2>4
<1>4. CASE DispatchFrame(m) \/ WriteFails(m)
  <2>1. /\ wire' = wire
        /\ \/ io[m] = "tail" /\ io'[m] = "ok"
           \/ io[m] \in {"started", "head"} /\ io'[m] = "failed"
    BY <1>4 DEF DispatchFrame, WriteFails, TypeOK
  <2> QED BY <1>1, <1>2, <2>1 DEF WireInv, FramesContiguous, Terminal
<1> QED BY <1>3, <1>4 DEF FrameIo

LEMMA WireNext ==
  ASSUME SafeInv, WireInv, [Next]_vars
  PROVE  WireInv'
<1>1. CASE \E m \in Messages : FrameIo(m)
  BY <1>1, WireIo
<1>2. CASE \E m \in Messages : Writer(m) /\ Admit(m)
  BY <1>2, WireAdmit
<1>3. CASE ~\E m \in Messages : FrameIo(m) \/ (Writer(m) /\ Admit(m))
  <2>1. /\ UNCHANGED <<io, wire>>
        /\ Terminal => Terminal'
        /\ \A m \in Messages :
             /\ wpc'[m] \in {"idle", "lock", "admit"} => wpc[m] \in {"idle", "lock", "admit"}
             /\ wpc[m] = "frame" => wpc'[m] = "frame" \/ Terminal' \/ io[m] = "ok"
    BY <1>3, Bystander
  <2>2. FramesContiguous'
    BY <2>1 DEF WireInv, FramesContiguous
  <2> QED BY <2>1, <2>2 DEF WireInv
<1> QED BY <1>1, <1>2, <1>3

LEMMA WireInit == Init => WireInv
  BY DEF Init, WireInv, FramesContiguous

\* The pipe carries whole frames, one after the other, and nothing after a torn
\* one: a canceled or failed write never lets another frame in behind it.
THEOREM FramesAreContiguous == Spec => []FramesContiguous
<1>1. SafeInv /\ WireInv /\ [Next]_vars => WireInv'
  BY WireNext
<1> QED BY <1>1, WireInit, Safe, PTL DEF Spec, WireInv

-----------------------------------------------------------------------------
(* What a sender is told, and the order of what the server sees.           *)

OnWire(m) == \E i \in 1..Len(wire) : wire[i] = <<m, "tail">>

\* Who closes the pipe: an abort, or close() when no frame is being written; and
\* a writer that gave up in the middle of a frame left an aborted connection.
StopInv ==
  /\ closer \notin {"idle", "lock", "begin"} => state # "open"
  /\ aborting # {} => state = "aborted"
  /\ closer = "abortInput" => state = "aborted"
  /\ closer \in {"grace", "finish"} => inputClosed \/ state = "aborted"
  /\ state = "closed" => inputClosed /\ closer \in {"finishing", "returned"}
  /\ inputClosed /\ state # "aborted" =>
       /\ closer \in {"grace", "finish", "finishing", "returned"}
       /\ \A m \in Messages : wpc[m] \notin {"frame", "abort"}
  /\ \A m \in Messages : wpc[m] = "abort" => state = "aborted"
  /\ \A m \in Messages : wpc[m] = "fail" /\ io[m] # "none" => state = "aborted"

\* A frame is on the wire as far as its goroutine got, and an answer, whether
\* delivered or in the hands of the reader, is one to a whole request.
ToldInv ==
  /\ \A m \in Messages : io[m] \in {"tail", "ok"} => OnWire(m)
  /\ \A i \in 1..Len(wire) : io[wire[i][1]] # "none"
  /\ \A m \in Messages : wpc[m] = "ok" => io[m] = "ok"
  /\ \A r \in Requests : result[r] = "message" => io[r] \in {"tail", "ok"}
  /\ \A a \in Actors : \A t \in taken[a] : t[2] = "message" => io[t[1]] \in {"tail", "ok"}

\* What may be written once shutdown is.
Late == ReplyMsgs \cup {Shutdown, Exit}

\* close() writes exit when shutdown is written, or when it can write no more.
ShutInv ==
  /\ wpc[Shutdown] \in {"lock", "admit", "frame", "abort"} => closer = "shutdown"
  /\ rpc[Shutdown] \notin {"idle", "write"} => wpc[Shutdown] \in Written
  /\ wpc[Exit] # "idle" => wpc[Shutdown] \in Written
  /\ wpc[Shutdown] = "fail" => state = "aborted" \/ Handshake \in expired
  /\ io[Exit] # "none" => OnWire(Shutdown)
  /\ io[Shutdown] # "none" =>
       /\ state # "open"
       /\ \A m \in Messages : io[m] \in {"started", "head"} => m \in Late
  /\ ShutdownOrder

\* A cancellation is started for a call that was written and that its own caller
\* took out of the table.
CancelInv ==
  /\ \A c \in Calls : wpc[<<"cancel", c>>] # "idle" =>
       result[<<"call", c>>] = "canceled" /\ wpc[<<"call", c>>] = "ok"
  /\ CancelFollowsCall

OrderInv == StopInv /\ ToldInv /\ ShutInv /\ CancelInv

\* What abort does to the state and to the taken sets.
LEMMA AbortMoves ==
  ASSUME TypeOK, NEW a \in Actors, NEW c \in Causes, abort(a, c)
  PROVE  /\ state = "closed" => UNCHANGED <<state, aborting>>
         /\ state # "closed" => state' = "aborted"
         /\ \A b \in Actors : \A t \in taken'[b] : t \in taken[b] \/ t[2] # "message"
<1>1. CASE state \in {"closed", "aborted"}
  BY <1>1 DEF abort, connVars, actorVars
<1>2. CASE state \notin {"closed", "aborted"}
  <2>1. state' = "aborted" /\ taken' = [taken EXCEPT ![a] = pending \X {c}]
    BY <1>2 DEF abort, transitionFromOpenLocked, drainPendingLocked
  <2>2. c # "message"
    BY DEF Causes
  <2> QED BY <1>2, <2>1, <2>2 DEF TypeOK
<1> QED BY <1>1, <1>2

\* A writer is started once, from idle, by the operation that owns its message.
LEMMA Starts ==
  ASSUME SafeInv, WireInv, [Next]_vars, NEW m \in Messages, wpc'[m] # wpc[m], ~Writer(m)
  PROVE  /\ wpc[m] = "idle" /\ io[m] = "none" /\ UNCHANGED io
         /\ wpc'[m] \in {"lock", "fail"} \/ (m = Shutdown /\ wpc'[m] = "admit")
         /\ m = Shutdown => WriteShutdown /\ wpc'[m] = "admit"
         /\ m = Exit => WriteExit
         /\ \A q \in Calls : m = <<"cancel", q>> =>
              /\ <<"call", q>> \in pending /\ wpc[<<"call", q>>] = "ok"
              /\ result' = [result EXCEPT ![<<"call", q>>] = "canceled"]
<1> USE Kinds DEF SafeInv
<1>0. wpc[m] = "idle" => io[m] = "none"
  BY DEF WireInv
<1>1. CASE \E n \in Messages : Writer(n)
  <2>1. PICK n \in Messages : Writer(n)
    BY <1>1
  <2>2. n # m
    BY <2>1
  <2> QED BY <2>1, <2>2 DEF Writer, LockWrite, Admit, FrameDispatched, FrameAborted,
                            WriterAborted, unlockWrite, TypeOK
<1>2. CASE \E r \in Requests : Waiter(r)
  <2>1. PICK r \in Requests : Waiter(r)
    BY <1>2
  <2>2. WaitCanceled(r)
    BY <2>1 DEF Waiter, RequestWritten, WaitDone
  <2>3. /\ m = <<"cancel", r[2]>> /\ r \in CallMsgs \cap pending /\ wpc[r] = "ok"
        /\ wpc'[m] = "lock"
    BY <2>2 DEF WaitCanceled
  <2>4. wpc[m] = "idle"
    BY <2>2, <2>3 DEF WaitCanceled, FreshInv
  <2>5. m \in CancelMsgs /\ m \notin {Shutdown, Exit}
    BY <2>3 DEF CancelMsgs, Shutdown, Exit
  <2>6. result[r] = "none"
    BY <2>3 DEF OwnerInv, OneOwner
  <2>7. result' = [result EXCEPT ![r] = "canceled"]
    BY <2>2, <2>3, <2>6 DEF WaitCanceled, complete, completeOnce, TypeOK
  <2>8. UNCHANGED io
    BY <2>1 DEF Waiter, frameVars
  <2>9. \A q \in Calls : m = <<"cancel", q>> => <<"call", q>> = r
    BY <2>3
  <2> QED BY <1>0, <2>3, <2>4, <2>5, <2>7, <2>8, <2>9
<1>3. CASE Caller
  <2>1. UNCHANGED io
    BY <1>3 DEF Caller, frameVars
  <2>2. CASE \E r \in CallMsgs : StartCall(r)
    <3>1. m \in CallMsgs /\ wpc[m] = "idle" /\ wpc'[m] \in {"lock", "fail"}
      BY <2>2 DEF StartCall, FreshInv, TypeOK, enterWrite
    <3> QED BY <1>0, <2>1, <3>1 DEF CallMsgs, Shutdown, Exit
  <2>3. CASE \E n \in NoteMsgs : Notify(n)
    <3>1. m \in NoteMsgs /\ wpc[m] = "idle" /\ wpc'[m] \in {"lock", "fail"}
      BY <2>3 DEF Notify, TypeOK, enterWrite
    <3> QED BY <1>0, <2>1, <3>1 DEF NoteMsgs, Shutdown, Exit
  <2> QED BY <1>3, <2>2, <2>3 DEF Caller
<1>4. CASE ReadFrame
  <2>1. m \in ReplyMsgs /\ wpc[m] = "idle" /\ wpc'[m] = "lock" /\ UNCHANGED io
    BY <1>4 DEF ReadFrame, DeliverResponse, RespondMethodNotFound, ReaderFailed, TypeOK, frameVars
  <2> QED BY <1>0, <2>1 DEF ReplyMsgs, Shutdown, Exit
<1>5. CASE CloseCalled \/ CloseStep
  <2>1. UNCHANGED io
    BY <1>5 DEF CloseCalled, CloseStep, frameVars
  <2>2. CASE WriteShutdown
    <3>1. m = Shutdown /\ wpc'[m] = "admit" /\ wpc[m] = "idle"
      BY <2>2 DEF WriteShutdown, closerStep, FreshInv, TypeOK
    <3> QED BY <1>0, <2>1, <2>2, <3>1 DEF Shutdown
  <2>3. CASE WriteExit
    <3>1. m = Exit /\ wpc'[m] \in {"lock", "fail"} /\ wpc[m] = "idle"
      BY <2>3 DEF WriteExit, closerStep, FreshInv, TypeOK, enterWrite
    <3> QED BY <1>0, <2>1, <2>3, <3>1 DEF Exit
  <2>4. CASE ~WriteShutdown /\ ~WriteExit
    BY <1>5, <2>4 DEF CloseCalled, CloseStep, CloseLock, BeginClose, HandshakeOver,
       CloseInputAfterWrites, CloseInputLocked, GraceOver, FinishClose, CloseReturn, CloseStart,
       InitFailed, InitReturn, writeVars
  <2> QED BY <2>2, <2>3, <2>4
<1>6. CASE \/ \E n \in Messages : FrameIo(n)
           \/ \E a \in Actors : Aborter(a)
           \/ ReaderAbort \/ ProcessReaped
           \/ \E x \in Contexts : Expire(x)
           \/ UNCHANGED vars
  BY <1>6 DEF FrameIo, Aborter, ReaderAbort, ProcessReaped, Expire, vars, writeVars
<1> QED BY <1>1, <1>2, <1>3, <1>4, <1>5, <1>6 DEF Next

\* The steps of a writer, by the point it is at.
LEMMA WriterMoves ==
  ASSUME SafeInv, WireInv, NEW m \in Messages, Writer(m)
  PROVE  /\ UNCHANGED <<result, inputClosed, wire, expired, rpc, closer>>
         /\ \A n \in Messages \ {m} : wpc'[n] = wpc[n] /\ io'[n] = io[n]
         /\ \/ /\ wpc[m] = "lock" /\ wpc'[m] \in {"admit", "fail"}
               /\ wpc'[m] = "fail" => CtxOf(m) \in expired
               /\ UNCHANGED <<io, state, taken, aborting>> /\ io[m] = "none"
            \/ /\ wpc[m] = "admit" /\ wpc'[m] = "frame"
               /\ CtxOf(m) \notin expired /\ admitWrite(m)
               /\ UNCHANGED <<state, taken, aborting>> /\ io[m] = "none" /\ io'[m] = "started"
            \/ /\ wpc[m] = "admit" /\ wpc'[m] = "fail"
               /\ CtxOf(m) \in expired \/ ~admitWrite(m)
               /\ UNCHANGED <<io, state, taken, aborting>> /\ io[m] = "none"
            \/ /\ wpc[m] = "frame" /\ wpc'[m] = "ok" /\ io[m] = "ok"
               /\ UNCHANGED <<io, state, taken, aborting>>
            \/ /\ wpc[m] = "frame" /\ wpc'[m] = "abort" /\ UNCHANGED io
               /\ \E c \in Causes : abort("writer", c)
            \/ /\ wpc[m] = "abort" /\ wpc'[m] = "fail"
               /\ UNCHANGED <<io, state, taken, aborting>>
<1> USE DEF SafeInv
<1>0. UNCHANGED <<result, inputClosed, wire, expired, rpc, closer>>
  BY DEF Writer
<1>1. \A n \in Messages \ {m} : wpc'[n] = wpc[n] /\ io'[n] = io[n]
  BY DEF Writer, LockWrite, Admit, FrameDispatched, FrameAborted, WriterAborted, unlockWrite, TypeOK
<1>2. wpc[m] \in {"lock", "admit"} => io[m] = "none"
  BY DEF WireInv
<1>3. CASE LockWrite(m)
  BY <1>0, <1>1, <1>2, <1>3 DEF LockWrite, TypeOK, connVars, actorVars
<1>4. CASE Admit(m)
  BY <1>0, <1>1, <1>2, <1>4 DEF Admit, unlockWrite, TypeOK, connVars, actorVars
<1>5. CASE FrameDispatched(m)
  BY <1>0, <1>1, <1>5 DEF FrameDispatched, unlockWrite, TypeOK, connVars, actorVars
<1>6. CASE FrameAborted(m)
  BY <1>0, <1>1, <1>6 DEF FrameAborted, TypeOK, Causes
<1>7. CASE WriterAborted(m)
  BY <1>0, <1>1, <1>7 DEF WriterAborted, unlockWrite, TypeOK, connVars, actorVars
<1> QED BY <1>3, <1>4, <1>5, <1>6, <1>7 DEF Writer

\* A write has one outcome, and a request one result.
LEMMA Settled ==
  ASSUME SafeInv, WireInv, [Next]_vars
  PROVE  /\ \A m \in Messages : wpc[m] \in Written => wpc'[m] = wpc[m]
         /\ \A m \in Messages : wpc[m] # "idle" => wpc'[m] # "idle"
         /\ \A r \in Requests : result[r] # "none" => result'[r] = result[r]
         /\ expired \subseteq expired'
<1> USE Kinds
<1>1. ASSUME NEW m \in Messages, wpc'[m] # wpc[m]
      PROVE  wpc[m] \notin Written /\ (wpc[m] # "idle" => wpc'[m] # "idle")
  BY <1>1, Starts, WriterMoves DEF Written
<1>2. ASSUME NEW r \in Requests, result[r] # "none" PROVE result'[r] = result[r]
  <2>1. result \in [Requests -> Results] /\ rpc[r] # "idle"
    BY <1>2 DEF SafeInv, TypeOK, OwnerInv
  <2>2. ASSUME NEW q \in Requests, NEW res, completeOnce(q, res) PROVE result'[r] = result[r]
    BY <1>2, <2>1, <2>2 DEF completeOnce
  <2>3. CASE \E q \in Requests : Waiter(q)
    BY <2>2, <2>3 DEF Waiter, RequestWritten, WaitDone, WaitCanceled, complete, tableVars
  <2>4. CASE \E a \in Actors : Aborter(a)
    <3>1. \A a \in Actors : \A t \in taken[a] : t[1] \in Requests
      BY DEF SafeInv, TypeOK
    <3> QED BY <2>2, <2>4, <3>1 DEF Aborter, CompleteTaken, AbortFinish
  <2>5. CASE Caller
    BY <2>1, <2>5 DEF Caller, StartCall, Notify, tableVars
  <2>6. CASE UNCHANGED result
    BY <2>6
  <2> QED BY <2>3, <2>4, <2>5, <2>6
          DEF Next, Writer, FrameIo, ReadFrame, ReaderAbort, CloseCalled, CloseStep,
              ProcessReaped, Expire, tableVars, vars
<1>3. expired \subseteq expired'
  BY DEF Next, Writer, FrameIo, Waiter, Aborter, Caller, ReadFrame, ReaderAbort, CloseCalled,
         CloseStep, ProcessReaped, Expire, vars
<1> QED BY <1>1, <1>2, <1>3

\* The connection stays aborted and does not open again.
LEMMA StateMoves ==
  ASSUME SafeInv, [Next]_vars
  PROVE  /\ state = "aborted" => state' = "aborted"
         /\ state # "open" => state' # "open"
<1> USE DEF SafeInv
<1>0. ASSUME NEW a \in Actors, NEW c \in Causes, abort(a, c)
      PROVE  (state = "aborted" => state' = "aborted") /\ (state # "open" => state' # "open")
  BY <1>0, AbortMoves DEF TypeOK
<1>1. CASE UNCHANGED state
  BY <1>1
<1>2. CASE \E m \in Messages : Writer(m)
  BY <1>0, <1>1, <1>2 DEF Writer, LockWrite, Admit, FrameDispatched, FrameAborted,
                          WriterAborted, connVars, Actors, Causes
<1>3. CASE ReaderAbort
  BY <1>0, <1>3 DEF ReaderAbort, Actors, Causes
<1>4. CASE CloseCalled \/ CloseStep
  <2>1. CASE \E c \in {"ctx", "closed"} : abort("closer", c)
    BY <1>0, <2>1 DEF Actors, Causes
  <2>2. CASE BeginClose \/ FinishClose
    BY <2>2 DEF BeginClose, FinishClose, transitionFromOpenLocked, connVars
  <2>3. CASE ~BeginClose /\ ~FinishClose
    BY <1>1, <1>4, <2>1, <2>3 DEF CloseCalled, CloseStep, CloseLock, WriteShutdown, WriteExit,
       HandshakeOver, CloseInputAfterWrites, CloseInputLocked, GraceOver, CloseReturn, CloseStart,
       InitFailed, InitReturn, connVars
  <2> QED BY <2>2, <2>3
<1>5. CASE ~(\/ \E m \in Messages : Writer(m)
             \/ ReaderAbort \/ CloseCalled \/ CloseStep)
  <2>1. UNCHANGED state
    BY <1>5 DEF Next, FrameIo, Waiter, Aborter, Caller, ReadFrame, ProcessReaped, Expire, vars,
                connVars
  <2> QED BY <1>1, <2>1
<1> QED BY <1>2, <1>3, <1>4, <1>5

\* The pipe is closed and the connection aborted in the right order.
LEMMA StopNext ==
  ASSUME SafeInv, WireInv, StopInv, [Next]_vars
  PROVE  StopInv'
<1> USE Kinds DEF SafeInv
<1>a. ASSUME state' = "aborted" PROVE StopInv'
  BY <1>a DEF StopInv
<1>b. state \in {"open", "closing", "closed", "aborted"}
  BY DEF TypeOK
\* A step of no writer leaves the writers that hold a frame alone.
<1>w. ASSUME NEW m \in Messages, ~Writer(m), io' = io
      PROVE  \/ wpc'[m] = wpc[m]
             \/ wpc'[m] \in {"lock", "fail", "admit"} /\ io'[m] = "none"
  BY <1>w, Starts
<1>1. CASE \E m \in Messages : Writer(m)
  <2>1. PICK m \in Messages : Writer(m)
    BY <1>1
  <2>2. /\ UNCHANGED <<inputClosed, closer>>
        /\ \A n \in Messages \ {m} : wpc'[n] = wpc[n] /\ io'[n] = io[n]
    BY <2>1, WriterMoves
  <2>3. CASE wpc'[m] = "abort"
    <3>1. wpc[m] = "frame" /\ \E c \in Causes : abort("writer", c)
      BY <2>1, <2>3, WriterMoves
    <3>2. state # "closed"
      BY <3>1 DEF StopInv
    <3>3. state' = "aborted"
      BY <3>1, <3>2, AbortMoves DEF Actors
    <3> QED BY <1>a, <3>3
  <2>4. CASE wpc'[m] # "abort"
    <3>1. /\ UNCHANGED <<state, aborting>>
          /\ wpc'[m] = "frame" => ~inputClosed
          /\ wpc'[m] = "fail" => io'[m] = "none" \/ wpc[m] = "abort"
      BY <2>1, <2>4, WriterMoves DEF admitWrite
    <3> QED BY <2>2, <2>4, <3>1 DEF StopInv
  <2> QED BY <2>3, <2>4
<1>2. CASE \E m \in Messages : FrameIo(m)
  <2>1. PICK m \in Messages : FrameIo(m)
    BY <1>2
  <2>2. UNCHANGED <<inputClosed, closer, state, aborting, wpc>>
    BY <2>1 DEF FrameIo, connVars, writeVars, actorVars
  <2>3. io[m] # "none" /\ \A n \in Messages \ {m} : io'[n] = io[n]
    BY <2>1 DEF FrameIo, WriteBytes, DispatchFrame, WriteFails, TypeOK
  <2> QED BY <2>2, <2>3 DEF StopInv
<1>3. CASE \E a \in Actors : Aborter(a)
  <2>1. PICK a \in Actors : Aborter(a)
    BY <1>3
  <2>2. UNCHANGED <<closer, state, wpc, io>>
    BY <2>1 DEF Aborter, connVars, writeVars, frameVars
  <2>3. CASE AbortFinish(a)
    <3>1. state = "aborted"
      BY <2>3 DEF AbortFinish, StopInv
    <3> QED BY <1>a, <2>2, <3>1
  <2>4. CASE CompleteTaken(a)
    BY <2>2, <2>4 DEF CompleteTaken, StopInv
  <2> QED BY <2>1, <2>3, <2>4 DEF Aborter
<1>4. CASE ReaderAbort
  <2>1. UNCHANGED <<closer, inputClosed, wpc, io>> /\ abort("reader", "eof")
    BY <1>4 DEF ReaderAbort, writeVars, frameVars
  <2>2. CASE state = "closed"
    <3>1. UNCHANGED <<state, aborting>>
      BY <2>1, <2>2, AbortMoves DEF Actors, Causes
    <3> QED BY <2>1, <3>1 DEF StopInv
  <2>3. CASE state # "closed"
    BY <1>a, <2>1, <2>3, AbortMoves DEF Actors, Causes
  <2> QED BY <2>2, <2>3
<1>5. CASE CloseCalled \/ CloseStep
  <2>0. UNCHANGED io /\ \A m \in Messages : ~Writer(m) \/ closer' = closer
    BY <1>5 DEF CloseCalled, CloseStep, frameVars, Writer
  <2>1. closer' # closer
    BY <1>5 DEF CloseCalled, CloseStep, CloseStart, InitFailed, CloseLock, BeginClose,
       WriteShutdown, WriteExit, HandshakeOver, CloseInputAfterWrites, CloseInputLocked,
       waitForProcess, GraceOver, FinishClose, CloseReturn, InitReturn, closerStep
  <2>2. \A m \in Messages : \/ wpc'[m] = wpc[m]
                            \/ wpc'[m] \in {"lock", "fail", "admit"} /\ io'[m] = "none"
    BY <1>w, <2>0, <2>1
  <2>3. CASE \E c \in {"ctx", "closed"} : abort("closer", c) /\ closer \notin {"finishing", "returned"}
    <3>1. state # "closed"
      BY <2>3 DEF StopInv
    <3>2. state' = "aborted"
      BY <2>3, <3>1, AbortMoves DEF Actors, Causes
    <3> QED BY <1>a, <3>2
  <2>4. CASE BeginClose
    <3>1. /\ closer = "begin" /\ UNCHANGED <<inputClosed, aborting>>
          /\ \/ state = "open" /\ state' = "closing" /\ closer' = "release"
             \/ state # "open" /\ state' = state /\ closer' = "input"
      BY <2>4 DEF BeginClose, closerStep, transitionFromOpenLocked, connVars
    <3> QED BY <2>0, <2>2, <3>1 DEF StopInv
  <2>5. CASE FinishClose
    <3>1. /\ closer = "finish" /\ closer' = "finishing" /\ UNCHANGED <<inputClosed, aborting>>
          /\ IF state = "closing" THEN state' = "closed" ELSE state' = state
      BY <2>5 DEF FinishClose, closerStep
    <3> QED BY <2>0, <2>2, <3>1 DEF StopInv
  <2>6. CASE CloseInputAfterWrites
    <3>1. /\ closer = "input" /\ UNCHANGED <<state, aborting>>
          /\ \/ closer' = "inputLock" /\ UNCHANGED inputClosed
             \/ closer' = "grace" /\ inputClosed' = TRUE /\ (state # "closing" \/ inputClosed)
      BY <2>6 DEF CloseInputAfterWrites, closerStep, waitForProcess, connVars, actorVars
    <3>2. state \in {"closing", "aborted"}
      BY <1>b, <3>1 DEF StopInv
    <3> QED BY <2>0, <2>2, <3>1, <3>2 DEF StopInv
  <2>7. CASE CloseInputLocked /\ closer' # "abortInput"
    <3>1. /\ UNCHANGED <<state, aborting>> /\ closer' = "grace"
          /\ \/ closer = "inputLock" /\ inputClosed' = TRUE /\ writeGate = Free
             \/ closer = "abortInput" /\ UNCHANGED inputClosed /\ "closer" \notin aborting
      BY <2>7 DEF CloseInputLocked, closerStep, waitForProcess, connVars, actorVars
    <3>2. CASE closer = "inputLock"
      <4>1. \A m \in Messages : wpc[m] \notin {"admit", "frame", "abort"}
        BY <3>1, <3>2 DEF GateInv
      <4>2. state \in {"closing", "aborted"}
        BY <1>b, <3>2 DEF StopInv
      <4> QED BY <2>0, <2>2, <3>1, <3>2, <4>1, <4>2 DEF StopInv
    <3>3. CASE closer = "abortInput"
      BY <1>a, <3>1, <3>3 DEF StopInv
    <3> QED BY <3>1, <3>2, <3>3
  <2>8. CASE \/ CloseStart \/ WriteShutdown \/ WriteExit \/ HandshakeOver \/ GraceOver
             \/ CloseReturn \/ InitReturn
             \/ (CloseLock /\ closer' = "begin")
    <3>1. /\ UNCHANGED <<state, aborting, inputClosed>>
          /\ \/ closer = "idle" /\ closer' = "lock"
             \/ closer = "lock" /\ closer' = "begin"
             \/ closer = "release" /\ closer' = "shutdown"
             \/ closer = "shutdown" /\ closer' = "exit"
             \/ closer \in {"exit", "abortLock"} /\ closer' = "input"
             \/ closer = "grace" /\ closer' = "finish"
             \/ closer = "finishing" /\ closer' = "returned"
             \/ closer = "initAbort" /\ closer' = "initFailed"
      BY <2>8 DEF CloseStart, WriteShutdown, WriteExit, HandshakeOver, GraceOver, CloseReturn,
                  InitReturn, CloseLock, closerStep, connVars, actorVars
    <3> QED BY <2>0, <2>2, <3>1 DEF StopInv
  <2>9. CASE InitFailed \/ (CloseLock /\ closer' # "begin") \/ (CloseInputLocked /\ closer' = "abortInput")
    BY <2>3, <2>9 DEF InitFailed, CloseLock, CloseInputLocked, closerStep, waitForProcess
  <2> QED BY <1>5, <2>4, <2>5, <2>6, <2>7, <2>8, <2>9 DEF CloseCalled, CloseStep
<1>6. CASE \/ \E r \in Requests : Waiter(r)
           \/ Caller \/ ReadFrame \/ ProcessReaped
           \/ \E x \in Contexts : Expire(x)
           \/ UNCHANGED vars
  <2>1. UNCHANGED <<closer, state, aborting, inputClosed, io>>
    BY <1>6 DEF Waiter, Caller, ReadFrame, ProcessReaped, Expire, vars, connVars, frameVars,
                actorVars
  <2>2. CASE \E m \in Messages : Writer(m)
    BY <1>1, <2>2
  <2>3. CASE \A m \in Messages : ~Writer(m)
    <3>1. \A m \in Messages : \/ wpc'[m] = wpc[m]
                              \/ wpc'[m] \in {"lock", "fail", "admit"} /\ io'[m] = "none"
      BY <1>w, <2>1, <2>3
    <3> QED BY <2>1, <3>1 DEF StopInv
  <2> QED BY <2>2, <2>3
<1> QED BY <1>1, <1>2, <1>3, <1>4, <1>5, <1>6 DEF Next

\* An answer comes from the reader, which takes it for a request that is whole.
LEMMA Answers ==
  ASSUME SafeInv, ToldInv, [Next]_vars
  PROVE  /\ \A r \in Requests : result'[r] = "message" => io[r] \in {"tail", "ok"}
         /\ \A a \in Actors : \A t \in taken'[a] : t[2] = "message" => io[t[1]] \in {"tail", "ok"}
<1> USE Kinds DEF SafeInv
<1>r. CASE UNCHANGED <<result, taken>>
  BY <1>r DEF ToldInv
<1>a. ASSUME NEW a \in Actors, NEW c \in Causes, abort(a, c), UNCHANGED result
      PROVE  /\ \A r \in Requests : result'[r] = "message" => io[r] \in {"tail", "ok"}
             /\ \A b \in Actors : \A t \in taken'[b] :
                  t[2] = "message" => io[t[1]] \in {"tail", "ok"}
  BY <1>a, AbortMoves DEF ToldInv
<1>d. ASSUME NEW a \in Actors, NEW c \in Causes, NEW left, drainPendingLocked(a, c, left),
             UNCHANGED result
      PROVE  /\ \A r \in Requests : result'[r] = "message" => io[r] \in {"tail", "ok"}
             /\ \A b \in Actors : \A t \in taken'[b] :
                  t[2] = "message" => io[t[1]] \in {"tail", "ok"}
  <2>1. c # "message"
    BY DEF Causes
  <2>2. \A b \in Actors : \A t \in taken'[b] : t \in taken[b] \/ t[2] = c
    BY <1>d, DrainHeld
  <2> QED BY <1>d, <2>1, <2>2 DEF ToldInv
<1>1. CASE \E m \in Messages : Writer(m)
  <2>1. UNCHANGED result /\ (UNCHANGED taken \/ \E c \in Causes : abort("writer", c))
    BY <1>1 DEF Writer, LockWrite, Admit, FrameDispatched, FrameAborted, WriterAborted,
                actorVars, Causes
  <2> QED BY <1>r, <1>a, <2>1 DEF Actors
<1>2. CASE \E q \in Requests : Waiter(q)
  <2>1. PICK q \in Requests : Waiter(q)
    BY <1>2
  <2>2. UNCHANGED taken
    BY <2>1 DEF Waiter, actorVars
  <2>3. \/ UNCHANGED result
        \/ \E res \in {"write", "canceled"} : completeOnce(q, res)
    BY <2>1 DEF Waiter, RequestWritten, WaitDone, WaitCanceled, complete, tableVars
  <2>4. \A r \in Requests : result'[r] = "message" => result[r] = "message"
    BY <2>3 DEF completeOnce, TypeOK
  <2> QED BY <2>2, <2>4 DEF ToldInv
<1>3. CASE \E a \in Actors : Aborter(a)
  <2>1. PICK a \in Actors : Aborter(a)
    BY <1>3
  <2>2. CASE AbortFinish(a)
    BY <1>r, <2>2 DEF AbortFinish
  <2>3. CASE CompleteTaken(a)
    <3>1. PICK t \in taken[a] : /\ completeOnce(t[1], t[2])
                                /\ taken' = [taken EXCEPT ![a] = @ \ {t}]
      BY <2>3 DEF CompleteTaken
    <3>2. t[1] \in Requests
      BY DEF TypeOK
    <3>3. \A r \in Requests : result'[r] = "message" =>
            result[r] = "message" \/ (r = t[1] /\ t[2] = "message")
      BY <3>1, <3>2 DEF completeOnce, TypeOK
    <3>4. \A b \in Actors : taken'[b] \subseteq taken[b]
      BY <3>1 DEF TypeOK
    <3> QED BY <3>3, <3>4 DEF ToldInv
  <2> QED BY <2>1, <2>2, <2>3 DEF Aborter
<1>4. CASE Caller
  <2>1. UNCHANGED taken
    BY <1>4 DEF Caller, actorVars
  <2>2. connErr # "message"
    BY DEF TypeOK, Causes
  <2>3. \A r \in Requests : result'[r] = "message" => result[r] = "message"
    BY <1>4, <2>2 DEF Caller, StartCall, Notify, TypeOK, tableVars
  <2> QED BY <2>1, <2>3 DEF ToldInv
<1>5. CASE ReadFrame
  <2>0. UNCHANGED result /\ "reader" \in Actors /\ "eof" \in Causes
    BY <1>5 DEF ReadFrame, Actors, Causes
  <2>1. CASE \E r \in Requests : DeliverResponse(r)
    <3>1. PICK r \in Requests : DeliverResponse(r)
      BY <2>1
    <3>2. \A b \in Actors : \A t \in taken'[b] : t \in taken[b] \/ t = <<r, "message">>
      BY <2>0, <3>1 DEF DeliverResponse, TypeOK
    <3>3. io[r] \in {"tail", "ok"}
      BY <3>1 DEF DeliverResponse
    <3> QED BY <2>0, <3>2, <3>3 DEF ToldInv
  <2>2. CASE \E m \in ReplyMsgs : RespondMethodNotFound(m)
    BY <1>r, <2>0, <2>2 DEF RespondMethodNotFound
  <2>3. CASE ReaderFailed
    BY <1>r, <1>d, <2>0, <2>3 DEF ReaderFailed
  <2> QED BY <1>5, <2>1, <2>2, <2>3 DEF ReadFrame
<1>6. CASE ReaderAbort
  BY <1>a, <1>6 DEF ReaderAbort, Actors, Causes
<1>7. CASE CloseCalled \/ CloseStep
  <2>0. UNCHANGED result /\ "closer" \in Actors /\ {"ctx", "closed"} \subseteq Causes
    BY <1>7 DEF CloseCalled, CloseStep, Actors, Causes
  <2>1. \/ UNCHANGED taken
        \/ \E c \in {"ctx", "closed"} : abort("closer", c)
        \/ \E left : drainPendingLocked("closer", "closed", left)
    BY <1>7 DEF CloseCalled, CloseStep, CloseLock, BeginClose, WriteShutdown, WriteExit,
       HandshakeOver, CloseInputAfterWrites, CloseInputLocked, GraceOver, FinishClose, CloseReturn,
       CloseStart, InitFailed, InitReturn, actorVars
  <2> QED BY <1>r, <1>a, <1>d, <2>0, <2>1
<1>8. CASE \/ \E m \in Messages : FrameIo(m)
           \/ ProcessReaped
           \/ \E x \in Contexts : Expire(x)
           \/ UNCHANGED vars
  BY <1>r, <1>8 DEF FrameIo, ProcessReaped, Expire, vars, tableVars, actorVars
<1> QED BY <1>1, <1>2, <1>3, <1>4, <1>5, <1>6, <1>7, <1>8 DEF Next

\* What the goroutine of a frame and the others do to the wire: it only grows, by a
\* frame that is being written.
LEMMA WireMoves ==
  ASSUME SafeInv, WireInv, [Next]_vars
  PROVE  /\ Len(wire) \in Nat /\ Len(wire') \in Nat /\ Len(wire') >= Len(wire)
         /\ \A i \in 1..Len(wire) : wire'[i] = wire[i]
         /\ \/ UNCHANGED wire
            \/ \E m \in Messages :
                 /\ FrameIo(m) /\ io[m] \in {"started", "head"} /\ io'[m] \in {"head", "tail"}
                 /\ Len(wire') = Len(wire) + 1 /\ wire'[Len(wire')] = <<m, io'[m]>>
         /\ \A m \in Messages :
              \/ io'[m] = io[m]
              \/ Writer(m) /\ io'[m] = "started" /\ io[m] = "none"
              \/ FrameIo(m) /\ io[m] = "started" /\ io'[m] = "head"
              \/ FrameIo(m) /\ io[m] = "head" /\ io'[m] = "tail" /\ Len(wire') = Len(wire) + 1
                 /\ wire'[Len(wire')] = <<m, "tail">>
              \/ FrameIo(m) /\ io[m] = "tail" /\ io'[m] = "ok"
              \/ FrameIo(m) /\ io[m] \in {"started", "head"} /\ io'[m] = "failed"
<1> USE DEF SafeInv
<1>0. Len(wire) \in Nat /\ wire \in Seq(Messages \X {"head", "tail"})
  BY DEF TypeOK
<1>1. CASE \E m \in Messages : FrameIo(m)
  <2>1. PICK m \in Messages : FrameIo(m)
    BY <1>1
  <2>2. \A n \in Messages : n # m => io'[n] = io[n]
    BY <2>1 DEF FrameIo, WriteBytes, DispatchFrame, WriteFails, TypeOK
  <2>3. CASE WriteBytes(m)
    <3>1. /\ \/ io[m] = "started" /\ io'[m] = "head"
             \/ io[m] = "head" /\ io'[m] = "tail"
          /\ wire' = Append(wire, <<m, io'[m]>>)
      BY <2>3 DEF WriteBytes, TypeOK
    <3>2. /\ Len(wire') = Len(wire) + 1 /\ wire'[Len(wire')] = <<m, io'[m]>>
          /\ \A i \in 1..Len(wire) : wire'[i] = wire[i]
      BY <1>0, <3>1
    <3> QED BY <1>0, <2>1, <2>2, <3>1, <3>2
  <2>4. CASE DispatchFrame(m) \/ WriteFails(m)
    <3>1. /\ wire' = wire
          /\ \/ io[m] = "tail" /\ io'[m] = "ok"
             \/ io[m] \in {"started", "head"} /\ io'[m] = "failed"
      BY <2>4 DEF DispatchFrame, WriteFails, TypeOK
    <3> QED BY <1>0, <2>1, <2>2, <3>1
  <2> QED BY <2>1, <2>3, <2>4 DEF FrameIo
<1>2. CASE \E m \in Messages : Writer(m)
  <2>1. PICK m \in Messages : Writer(m)
    BY <1>2
  <2>2. UNCHANGED wire /\ \A n \in Messages \ {m} : io'[n] = io[n]
    BY <2>1, WriterMoves
  <2>3. io'[m] = io[m] \/ (io[m] = "none" /\ io'[m] = "started")
    BY <2>1, WriterMoves
  <2> QED BY <1>0, <2>1, <2>2, <2>3
<1>3. CASE ~\E m \in Messages : FrameIo(m) \/ Writer(m)
  BY <1>0, <1>3, Bystander
<1> QED BY <1>1, <1>2, <1>3

\* A frame that is on the wire stays there.
LEMMA OnWireStays ==
  ASSUME SafeInv, WireInv, [Next]_vars
  PROVE  \A m : OnWire(m) => OnWire(m)'
<1>1. /\ Len(wire) \in Nat /\ Len(wire') \in Nat /\ Len(wire') >= Len(wire)
      /\ \A i \in 1..Len(wire) : wire'[i] = wire[i]
  BY WireMoves
<1> QED BY <1>1 DEF OnWire

LEMMA ToldNext ==
  ASSUME SafeInv, WireInv, ToldInv, [Next]_vars
  PROVE  ToldInv'
<1> USE Kinds
<1>1. ASSUME NEW m \in Messages
      PROVE  /\ io[m] \in {"tail", "ok"} => io'[m] \in {"tail", "ok"}
             /\ io[m] = "ok" => io'[m] = "ok"
             /\ io[m] # "none" => io'[m] # "none"
  BY WireMoves
<1>2. ASSUME NEW m \in Messages, io'[m] \in {"tail", "ok"} PROVE OnWire(m)'
  <2>1. CASE io[m] \in {"tail", "ok"}
    BY <2>1, OnWireStays DEF ToldInv
  <2>2. CASE io[m] \notin {"tail", "ok"}
    <3>1. Len(wire) \in Nat /\ Len(wire') = Len(wire) + 1 /\ wire'[Len(wire')] = <<m, "tail">>
      BY <1>2, <2>2, WireMoves
    <3> QED BY <3>1 DEF OnWire
  <2> QED BY <2>1, <2>2
<1>3. ASSUME NEW i \in 1..Len(wire') PROVE io'[wire'[i][1]] # "none"
  <2>1. CASE i \in 1..Len(wire)
    <3>1. wire'[i] = wire[i] /\ wire[i] \in Messages \X {"head", "tail"}
      BY <2>1, WireMoves DEF SafeInv, TypeOK
    <3> QED BY <1>1, <2>1, <3>1 DEF ToldInv
  <2>2. CASE i \notin 1..Len(wire)
    <3>1. PICK m \in Messages : /\ io'[m] \in {"head", "tail"} /\ Len(wire') = Len(wire) + 1
                                /\ wire'[Len(wire')] = <<m, io'[m]>>
      BY <2>2, WireMoves
    <3>2. i = Len(wire') /\ Len(wire) \in Nat
      BY <2>2, <3>1, WireMoves
    <3> QED BY <3>1, <3>2
  <2> QED BY <2>1, <2>2
<1>4. ASSUME NEW m \in Messages, wpc'[m] = "ok" PROVE io'[m] = "ok"
  <2>1. CASE wpc[m] = "ok"
    BY <1>1, <2>1 DEF ToldInv
  <2>2. CASE wpc[m] # "ok"
    <3>1. Writer(m)
      BY <1>4, <2>2, Starts
    <3>2. io[m] = "ok"
      BY <1>4, <2>2, <3>1, WriterMoves
    <3> QED BY <1>1, <3>2
  <2> QED BY <2>1, <2>2
<1>5. \A r \in Requests : result'[r] = "message" => io'[r] \in {"tail", "ok"}
  BY <1>1, Answers
<1>6. \A a \in Actors : \A t \in taken'[a] : t[2] = "message" => io'[t[1]] \in {"tail", "ok"}
  <2>1. \A a \in Actors : \A t \in taken'[a] : t[1] \in Messages
    BY TypeNext DEF SafeInv, TypeOK
  <2> QED BY <1>1, <2>1, Answers
<1> QED BY <1>2, <1>3, <1>4, <1>5, <1>6 DEF ToldInv

\* Shutdown is written by close() alone, and exit behind it or not at all.
LEMMA ShutNext ==
  ASSUME SafeInv, WireInv, StopInv, ToldInv, ShutInv, WireInv', StopInv', [Next]_vars
  PROVE  ShutInv'
<1> USE Kinds
<1>t. state \in {"open", "closing", "closed", "aborted"} /\ Len(wire) \in Nat
  BY DEF SafeInv, TypeOK
<1>h. CtxOf(Shutdown) = Handshake /\ CtxOf(Exit) = Handshake
  BY DEF CtxOf
<1>r. rpc'[Shutdown] # rpc[Shutdown] =>
        rpc'[Shutdown] = "write" \/ wpc[Shutdown] \in Written
  <2>1. CASE \E r \in Requests : Waiter(r)
    <3>1. PICK r \in Requests : Waiter(r)
      BY <2>1
    <3>2. rpc'[Shutdown] # rpc[Shutdown] => r = Shutdown
      BY <3>1 DEF Waiter, RequestWritten, WaitDone, WaitCanceled, SafeInv, TypeOK
    <3>3. wpc[r] \in Written \/ rpc[r] \in {"wait", "settle"}
      BY <3>1 DEF Waiter, RequestWritten, WaitDone, WaitCanceled
    <3> QED BY <3>2, <3>3 DEF ShutInv
  <2>2. CASE Caller
    <3>1. Shutdown \notin CallMsgs
      BY DEF Shutdown, CallMsgs
    <3> QED BY <2>2, <3>1 DEF Caller, StartCall, Notify, SafeInv, TypeOK
  <2>3. CASE CloseCalled \/ CloseStep
    <3>1. CASE BeginClose
      BY <3>1 DEF BeginClose, SafeInv, TypeOK
    <3>2. CASE ~BeginClose
      BY <2>3, <3>2 DEF CloseCalled, CloseStep, CloseLock, WriteShutdown, WriteExit,
         HandshakeOver, CloseInputAfterWrites, CloseInputLocked, GraceOver, FinishClose,
         CloseReturn, CloseStart, InitFailed, InitReturn
    <3> QED BY <3>1, <3>2
  <2>4. CASE UNCHANGED rpc
    BY <2>4
  <2> QED BY <2>1, <2>2, <2>3, <2>4
          DEF Next, Writer, FrameIo, Aborter, ReadFrame, ReaderAbort, ProcessReaped, Expire, vars
<1>c. closer = "shutdown" => closer' = "shutdown" \/ rpc[Shutdown] = "done"
  <2>1. CASE CloseCalled \/ CloseStep
    BY <2>1 DEF CloseCalled, CloseStep, CloseLock, BeginClose, WriteShutdown, WriteExit,
       HandshakeOver, CloseInputAfterWrites, CloseInputLocked, waitForProcess, GraceOver,
       FinishClose, CloseReturn, CloseStart, InitFailed, InitReturn, closerStep
  <2>2. CASE UNCHANGED closer
    BY <2>2
  <2> QED BY <2>1, <2>2
          DEF Next, Writer, FrameIo, Waiter, Aborter, Caller, ReadFrame, ReaderAbort,
              ProcessReaped, Expire, vars
<1>1. wpc'[Shutdown] \in {"lock", "admit", "frame", "abort"} => closer' = "shutdown"
  <2> SUFFICES ASSUME wpc'[Shutdown] \in {"lock", "admit", "frame", "abort"}
               PROVE  closer' = "shutdown"
    OBVIOUS
  <2>1. CASE WriteShutdown
    BY <2>1 DEF WriteShutdown, closerStep
  <2>2. CASE ~WriteShutdown
    <3>1. wpc[Shutdown] \in {"lock", "admit", "frame", "abort"}
      BY <2>2, Starts, WriterMoves
    <3>2. closer = "shutdown" /\ rpc[Shutdown] # "done"
      BY <3>1 DEF ShutInv, Written
    <3> QED BY <1>c, <3>2
  <2> QED BY <2>1, <2>2
<1>2. rpc'[Shutdown] \notin {"idle", "write"} => wpc'[Shutdown] \in Written
  BY <1>r, Settled DEF ShutInv
<1>3. wpc'[Exit] # "idle" => wpc'[Shutdown] \in Written
  <2>1. CASE wpc[Exit] # "idle"
    BY <2>1, Settled DEF ShutInv
  <2>2. CASE wpc[Exit] = "idle" /\ wpc'[Exit] # "idle"
    <3>1. WriteExit
      BY <2>2, Starts, WriterMoves
    <3>2. rpc[Shutdown] = "done"
      BY <3>1 DEF WriteExit
    <3> QED BY <3>2, Settled DEF ShutInv
  <2> QED BY <2>1, <2>2
<1>4. wpc'[Shutdown] = "fail" => state' = "aborted" \/ Handshake \in expired'
  <2> SUFFICES ASSUME wpc'[Shutdown] = "fail"
               PROVE  state' = "aborted" \/ Handshake \in expired'
    OBVIOUS
  <2>0. expired \subseteq expired' /\ (state = "aborted" => state' = "aborted")
    BY Settled, StateMoves
  <2>1. CASE wpc[Shutdown] = "fail"
    BY <2>0, <2>1 DEF ShutInv
  <2>2. CASE wpc[Shutdown] # "fail"
    <3>1. Writer(Shutdown)
      BY <2>2, Starts
    <3>2. \/ Handshake \in expired
          \/ wpc[Shutdown] = "admit" /\ ~admitWrite(Shutdown)
          \/ wpc[Shutdown] = "abort"
      BY <1>h, <3>1, WriterMoves
    <3>3. CASE wpc[Shutdown] = "admit" /\ ~admitWrite(Shutdown)
      <4>1. closer = "shutdown"
        BY <3>3 DEF ShutInv
      <4>2. state \in {"closing", "aborted"} /\ (inputClosed => state = "aborted")
        BY <1>t, <4>1 DEF StopInv
      <4> QED BY <2>0, <3>3, <4>2 DEF admitWrite
    <3>4. CASE wpc[Shutdown] = "abort"
      BY <2>0, <3>4 DEF StopInv
    <3> QED BY <2>0, <3>2, <3>3, <3>4
  <2> QED BY <2>1, <2>2
<1>5. io'[Exit] # "none" => OnWire(Shutdown)'
  <2>1. CASE io[Exit] # "none"
    BY <2>1, OnWireStays DEF ShutInv
  <2>2. CASE io[Exit] = "none" /\ io'[Exit] # "none"
    <3>1. Writer(Exit) /\ io'[Exit] = "started"
      BY <2>2, WireMoves
    <3>2. wpc[Exit] = "admit" /\ CtxOf(Exit) \notin expired /\ admitWrite(Exit)
      BY <2>2, <3>1, WriterMoves
    <3>3. state = "closing" /\ Handshake \notin expired
      BY <1>h, <3>2 DEF admitWrite
    <3>4. wpc[Shutdown] = "ok"
      BY <3>2, <3>3 DEF ShutInv, Written
    <3>5. OnWire(Shutdown)
      BY <3>4 DEF ToldInv
    <3> QED BY <3>5, OnWireStays
  <2> QED BY <2>1, <2>2
<1>6. ASSUME io'[Shutdown] # "none"
      PROVE  /\ state' # "open"
             /\ \A m \in Messages : io'[m] \in {"started", "head"} => m \in Late
  <2>1. CASE io[Shutdown] # "none"
    <3>1. state # "open" /\ state' # "open"
      BY <2>1, StateMoves DEF ShutInv
    <3>2. ASSUME NEW m \in Messages, io'[m] \in {"started", "head"} PROVE m \in Late
      <4>1. CASE io[m] \in {"started", "head"}
        BY <2>1, <4>1 DEF ShutInv
      <4>2. CASE io[m] \notin {"started", "head"}
        <5>1. Writer(m) /\ io[m] = "none"
          BY <3>2, <4>2, WireMoves
        <5>2. admitWrite(m)
          BY <3>2, <5>1, WriterMoves
        <5> QED BY <3>1, <5>2 DEF admitWrite, Late
      <4> QED BY <4>1, <4>2
    <3> QED BY <3>1, <3>2
  <2>2. CASE io[Shutdown] = "none"
    <3>1. Writer(Shutdown) /\ io'[Shutdown] = "started"
      BY <1>6, <2>2, WireMoves
    <3>2. admitWrite(Shutdown) /\ UNCHANGED state
      BY <2>2, <3>1, WriterMoves
    <3>3. state = "closing"
      BY <3>2 DEF admitWrite
    <3>4. \A m \in Messages : io'[m] \in {"started", "head"} => m = Shutdown
      BY <3>1 DEF WireInv
    <3> QED BY <3>2, <3>3, <3>4 DEF Late
  <2> QED BY <2>1, <2>2
<1>7. ShutdownOrder'
  <2>1. CASE UNCHANGED wire
    BY <2>1 DEF ShutInv, ShutdownOrder
  <2>2. CASE ~UNCHANGED wire
    <3>1. PICK m \in Messages :
            /\ io[m] \in {"started", "head"}
            /\ Len(wire') = Len(wire) + 1 /\ wire'[Len(wire')] = <<m, io'[m]>>
      BY <2>2, WireMoves
    <3>2. \A i \in 1..Len(wire) : wire'[i] = wire[i]
      BY WireMoves
    <3>3. ASSUME NEW i \in 1..Len(wire'), wire'[i][1] = Shutdown,
                 NEW j \in i..Len(wire')
          PROVE  wire'[j][1] \in ReplyMsgs \cup {Shutdown, Exit}
      <4>1. CASE i = Len(wire')
        <5>1. j = i
          BY <1>t, <3>1, <4>1
        <5> QED BY <3>3, <5>1
      <4>2. CASE i \in 1..Len(wire) /\ j \in i..Len(wire)
        BY <1>t, <3>2, <3>3, <4>2 DEF ShutInv, ShutdownOrder
      <4>3. CASE i \in 1..Len(wire) /\ j = Len(wire')
        <5>1. io[Shutdown] # "none"
          BY <3>2, <3>3, <4>3 DEF ToldInv
        <5>2. m \in Late
          BY <3>1, <5>1 DEF ShutInv
        <5> QED BY <3>1, <4>3, <5>2 DEF Late
      <4> QED BY <1>t, <3>1, <4>1, <4>2, <4>3
    <3>4. ASSUME NEW i \in 1..Len(wire'), wire'[i][1] = Exit
          PROVE  \E j \in 1..i : wire'[j] = <<Shutdown, "tail">>
      <4>1. CASE i \in 1..Len(wire)
        <5>1. PICK j \in 1..i : wire[j] = <<Shutdown, "tail">>
          BY <3>2, <3>4, <4>1 DEF ShutInv, ShutdownOrder
        <5>2. j \in 1..Len(wire)
          BY <1>t, <4>1
        <5> QED BY <3>2, <5>1, <5>2
      <4>2. CASE i = Len(wire')
        <5>1. io[Exit] # "none"
          BY <3>1, <3>4, <4>2
        <5>2. PICK j \in 1..Len(wire) : wire[j] = <<Shutdown, "tail">>
          BY <5>1 DEF ShutInv, OnWire
        <5>3. j \in 1..i
          BY <1>t, <3>1, <4>2
        <5> QED BY <3>2, <5>2, <5>3
      <4> QED BY <1>t, <3>1, <4>1, <4>2
    <3> QED BY <3>3, <3>4 DEF ShutdownOrder
  <2> QED BY <2>1, <2>2
<1> QED BY <1>1, <1>2, <1>3, <1>4, <1>5, <1>6, <1>7 DEF ShutInv

\* A cancellation follows its call on the wire.
LEMMA CancelNext ==
  ASSUME SafeInv, WireInv, ToldInv, CancelInv, [Next]_vars
  PROVE  CancelInv'
<1> USE Kinds
<1>0. \A q \in Calls : <<"call", q>> \in CallMsgs /\ <<"cancel", q>> \in CancelMsgs
                       /\ <<"cancel", q>> \in Messages
  BY DEF CallMsgs, CancelMsgs, Messages, Timed
<1>t. Len(wire) \in Nat
  BY DEF SafeInv, TypeOK
<1>1. ASSUME NEW q \in Calls, wpc'[<<"cancel", q>>] # "idle"
      PROVE  result'[<<"call", q>>] = "canceled" /\ wpc'[<<"call", q>>] = "ok"
  <2>1. CASE wpc[<<"cancel", q>>] # "idle"
    <3>1. result[<<"call", q>>] = "canceled" /\ wpc[<<"call", q>>] = "ok"
      BY <2>1 DEF CancelInv
    <3> QED BY <1>0, <3>1, Settled DEF Written
  <2>2. CASE wpc[<<"cancel", q>>] = "idle"
    <3>1. ~Writer(<<"cancel", q>>)
      BY <2>2 DEF Writer, LockWrite, Admit, FrameDispatched, FrameAborted, WriterAborted
    <3>2. /\ wpc[<<"call", q>>] = "ok"
          /\ result' = [result EXCEPT ![<<"call", q>>] = "canceled"]
      BY <1>0, <1>1, <2>2, <3>1, Starts
    <3>3. result'[<<"call", q>>] = "canceled"
      BY <1>0, <3>2 DEF SafeInv, TypeOK
    <3> QED BY <1>0, <3>2, <3>3, Settled DEF Written
  <2> QED BY <2>1, <2>2
<1>2. CancelFollowsCall'
  <2> SUFFICES ASSUME NEW i \in 1..Len(wire'), wire'[i][1] \in CancelMsgs
               PROVE  /\ result'[<<"call", wire'[i][1][2]>>] = "canceled"
                      /\ \E j \in 1..i : wire'[j] = <<<<"call", wire'[i][1][2]>>, "tail">>
    BY DEF CancelFollowsCall
  <2>0. PICK q \in Calls : wire'[i][1] = <<"cancel", q>> /\ wire'[i][1][2] = q
    BY DEF CancelMsgs
  <2>s. \A k \in 1..Len(wire) : wire'[k] = wire[k]
    BY WireMoves
  <2>1. CASE i \in 1..Len(wire)
    <3>1. /\ result[<<"call", q>>] = "canceled"
          /\ \E j \in 1..i : wire[j] = <<<<"call", q>>, "tail">>
      <4>1. wire[i][1] = <<"cancel", q>> /\ wire[i][1] \in CancelMsgs /\ wire[i][1][2] = q
        BY <1>0, <2>0, <2>1, <2>s
      <4>2. /\ result[<<"call", wire[i][1][2]>>] = "canceled"
            /\ \E j \in 1..i : wire[j] = <<<<"call", wire[i][1][2]>>, "tail">>
        BY <2>1, <4>1 DEF CancelInv, CancelFollowsCall
      <4> QED BY <4>1, <4>2
    <3>2. result'[<<"call", q>>] = "canceled"
      BY <1>0, <3>1, Settled
    <3>3. PICK j \in 1..i : wire[j] = <<<<"call", q>>, "tail">>
      BY <3>1
    <3>4. j \in 1..Len(wire)
      BY <1>t, <2>1
    <3> QED BY <2>0, <2>s, <3>2, <3>3, <3>4
  <2>2. CASE i \notin 1..Len(wire)
    <3>1. PICK m \in Messages :
            /\ io[m] \in {"started", "head"}
            /\ Len(wire') = Len(wire) + 1 /\ wire'[Len(wire')] = <<m, io'[m]>>
      BY <2>2, WireMoves
    <3>2. i = Len(wire')
      BY <1>t, <2>2, <3>1
    <3>3. m = <<"cancel", q>>
      BY <2>0, <3>1, <3>2
    <3>4. wpc[m] # "idle"
      BY <3>1 DEF WireInv
    <3>5. result[<<"call", q>>] = "canceled" /\ wpc[<<"call", q>>] = "ok"
      BY <3>3, <3>4 DEF CancelInv
    <3>6. result'[<<"call", q>>] = "canceled"
      BY <1>0, <3>5, Settled
    <3>7. OnWire(<<"call", q>>)
      BY <1>0, <3>5 DEF ToldInv
    <3>8. PICK j \in 1..Len(wire) : wire[j] = <<<<"call", q>>, "tail">>
      BY <3>7 DEF OnWire
    <3>9. j \in 1..i
      BY <1>t, <3>1, <3>2
    <3> QED BY <2>0, <2>s, <3>6, <3>8, <3>9
  <2> QED BY <2>1, <2>2
<1> QED BY <1>1, <1>2 DEF CancelInv

LEMMA OrderInit == Init => OrderInv
<1> SUFFICES ASSUME Init PROVE OrderInv
  OBVIOUS
<1> USE Kinds
<1>1. StopInv
  BY DEF Init, StopInv
<1>2. ToldInv
  BY DEF Init, ToldInv, Actors
<1>3. ShutInv
  BY DEF Init, ShutInv, ShutdownOrder, Written
<1>4. \A q \in Calls : <<"cancel", q>> \in Messages
  BY DEF Messages, Timed, CancelMsgs
<1>5. CancelInv
  BY <1>4 DEF Init, CancelInv, CancelFollowsCall
<1> QED BY <1>1, <1>2, <1>3, <1>5 DEF OrderInv

LEMMA Ordered == Spec => [](SafeInv /\ OrderInv)
<1>1. SafeInv /\ WireInv /\ [Next]_vars => WireInv'
  BY WireNext
<1>2. SafeInv /\ WireInv /\ StopInv /\ [Next]_vars => StopInv'
  BY StopNext
<1>3. SafeInv /\ WireInv /\ WireInv' /\ StopInv' /\ OrderInv /\ [Next]_vars => OrderInv'
  BY StopNext, ToldNext, ShutNext, CancelNext DEF OrderInv
<1>4. OrderInv => StopInv
  BY DEF OrderInv
<1> QED BY <1>1, <1>2, <1>3, <1>4, WireInit, OrderInit, Safe, PTL DEF Spec

\* A message reported as dispatched is whole on the wire, an answer reaches only a
\* request that is, and a write that failed behind its first byte leaves an aborted
\* connection, however contexts, writers, aborts and Close race.
THEOREM OutcomesAreTrue == Spec => []OutcomeIsTrue
<1>1. SafeInv /\ OrderInv => OutcomeIsTrue
  BY Kinds DEF OrderInv, StopInv, ToldInv, OnWire, OutcomeIsTrue
<1> QED BY <1>1, Ordered, PTL

\* The server sees nothing but refusals and exit behind shutdown, and exit only
\* behind a whole shutdown.
THEOREM ShutdownIsOrdered == Spec => []ShutdownOrder
<1>1. OrderInv => ShutdownOrder
  BY DEF OrderInv, ShutInv
<1> QED BY <1>1, Ordered, PTL

\* $/cancelRequest is behind the whole frame of its call, whose caller got its
\* cancellation.
THEOREM CancelsFollowCalls == Spec => []CancelFollowsCall
<1>1. OrderInv => CancelFollowsCall
  BY DEF OrderInv, CancelInv
<1> QED BY <1>1, Ordered, PTL

-----------------------------------------------------------------------------
(* The transport implements Connection.                                    *)

\* What the contract needs of the hidden state: a message is whole on the wire no
\* sooner than its goroutine says so, and who holds a request with an error to
\* report has seen the connection leave its open state.
PromiseInv ==
  /\ \A m \in Messages : OnWire(m) => io[m] \in {"tail", "ok"}
  /\ \A a \in Actors : \A t \in taken[a] :
       t[2] \in Causes \cup {"message"} /\ (t[2] \in Causes => state # "open")

PromisedInv == SafeInv /\ WireInv /\ OrderInv /\ PromiseInv

\* A drain, by abort or by close(), leaves the open state, or found it left.
LEMMA DrainLeavesOpen ==
  ASSUME SafeInv, PromiseInv, [Next]_vars, NEW a \in Actors, NEW t \in taken'[a]
  PROVE  \/ t \in taken[a] \/ t[2] = "message"
         \/ t[2] \in Causes /\ state' # "open"
<1> USE DEF SafeInv
<1>a. ASSUME NEW b \in Actors, NEW c \in Causes, abort(b, c)
      PROVE  t \in taken[a] \/ (t[2] \in Causes /\ state' # "open")
  <2>1. CASE state \in {"closed", "aborted"}
    BY <1>a, <2>1 DEF abort, actorVars
  <2>2. CASE state \notin {"closed", "aborted"}
    <3>1. state' = "aborted" /\ drainPendingLocked(b, c, {})
      BY <1>a, <2>2 DEF abort, transitionFromOpenLocked
    <3> QED BY <3>1, DrainHeld
  <2> QED BY <2>1, <2>2
<1>d. ASSUME NEW b \in Actors, NEW c \in Causes, NEW left, drainPendingLocked(b, c, left)
      PROVE  t \in taken[a] \/ t[2] \in Causes
  BY <1>d, DrainHeld
<1>1. CASE \E m \in Messages : Writer(m)
  <2>1. UNCHANGED taken \/ \E c \in Causes : abort("writer", c)
    BY <1>1 DEF Writer, LockWrite, Admit, FrameDispatched, FrameAborted, WriterAborted,
                actorVars, Causes
  <2> QED BY <1>a, <2>1 DEF Actors
<1>2. CASE \E b \in Actors : Aborter(b)
  <2>1. PICK b \in Actors : Aborter(b)
    BY <1>2
  <2>2. taken'[a] \subseteq taken[a]
    BY <2>1 DEF Aborter, CompleteTaken, AbortFinish, TypeOK
  <2> QED BY <2>2
<1>3. CASE ReadFrame
  <2>0. UNCHANGED state /\ "reader" \in Actors /\ "eof" \in Causes
    BY <1>3 DEF ReadFrame, connVars, Actors, Causes
  <2>1. CASE \E r \in Requests : DeliverResponse(r)
    BY <2>0, <2>1 DEF DeliverResponse, TypeOK
  <2>2. CASE \E m \in ReplyMsgs : RespondMethodNotFound(m)
    BY <2>2 DEF RespondMethodNotFound
  <2>3. CASE ReaderFailed
    BY <1>d, <2>0, <2>3 DEF ReaderFailed
  <2> QED BY <1>3, <2>1, <2>2, <2>3 DEF ReadFrame
<1>4. CASE ReaderAbort
  BY <1>a, <1>4 DEF ReaderAbort, Actors, Causes
<1>5. CASE CloseCalled \/ CloseStep
  <2>0. "closer" \in Actors /\ {"ctx", "closed"} \subseteq Causes
    BY DEF Actors, Causes
  <2>1. \/ UNCHANGED taken
        \/ \E c \in {"ctx", "closed"} : abort("closer", c)
        \/ \E left : drainPendingLocked("closer", "closed", left) /\ state' # "open"
    BY <1>5 DEF CloseCalled, CloseStep, CloseLock, BeginClose, WriteShutdown, WriteExit,
       HandshakeOver, CloseInputAfterWrites, CloseInputLocked, GraceOver, FinishClose, CloseReturn,
       CloseStart, InitFailed, InitReturn, actorVars, transitionFromOpenLocked
  <2> QED BY <1>a, <1>d, <2>0, <2>1
<1>6. CASE UNCHANGED taken
  BY <1>6
<1> QED BY <1>1, <1>2, <1>3, <1>4, <1>5, <1>6
        DEF Next, FrameIo, Waiter, Caller, ProcessReaped, Expire, actorVars, vars

LEMMA PromiseNext ==
  ASSUME SafeInv, WireInv, PromiseInv, [Next]_vars
  PROVE  PromiseInv'
<1>1. ASSUME NEW m \in Messages, OnWire(m)' PROVE io'[m] \in {"tail", "ok"}
  <2>1. PICK i \in 1..Len(wire') : wire'[i] = <<m, "tail">>
    BY <1>1 DEF OnWire
  <2>2. CASE i \in 1..Len(wire)
    <3>1. OnWire(m)
      BY <2>1, <2>2, WireMoves DEF OnWire
    <3>2. io[m] \in {"tail", "ok"}
      BY <3>1 DEF PromiseInv
    <3> QED BY <3>2, WireMoves
  <2>3. CASE i \notin 1..Len(wire)
    <3>1. PICK n \in Messages : /\ Len(wire') = Len(wire) + 1
                                /\ wire'[Len(wire')] = <<n, io'[n]>>
      BY <2>1, <2>3, WireMoves
    <3>2. i = Len(wire') /\ Len(wire) \in Nat
      BY <2>1, <2>3, <3>1, WireMoves
    <3> QED BY <2>1, <3>1, <3>2
  <2> QED BY <2>2, <2>3
<1>2. ASSUME NEW a \in Actors, NEW t \in taken'[a]
      PROVE  t[2] \in Causes \cup {"message"} /\ (t[2] \in Causes => state' # "open")
  <2>1. "message" \notin Causes
    BY DEF Causes
  <2>2. state # "open" => state' # "open"
    BY StateMoves
  <2> QED BY <1>2, <2>1, <2>2, DrainLeavesOpen DEF PromiseInv
<1> QED BY <1>1, <1>2 DEF PromiseInv

LEMMA Promises == Spec => []PromisedInv
<1>1. SafeInv /\ WireInv /\ [Next]_vars => WireInv'
  BY WireNext
<1>2. SafeInv /\ WireInv /\ PromiseInv /\ [Next]_vars => PromiseInv'
  BY PromiseNext
<1>3. Init => PromiseInv
  BY DEF Init, PromiseInv, OnWire, Actors
<1> QED BY <1>1, <1>2, <1>3, WireInit, Ordered, PTL DEF Spec, PromisedInv

\* The variables of the contract, as Conn maps them.
Ended == {m \in Messages : CtxOf(m) \in expired}
Whole == {m \in Messages : \E i \in 1..Len(wire) : wire[i] = <<m, "tail">>}
ToldAll == [m \in Messages |-> Told(m)]
RepliedAll == [m \in Messages |-> Replied(m)]

\* A step that the contract does not see.
LEMMA Unseen ==
  ASSUME UNCHANGED <<state, expired, wire, result>>,
         \A m \in Messages : Told(m)' = Told(m)
  PROVE  UNCHANGED Conn!vars
<1>1. UNCHANGED ToldAll
  BY DEF ToldAll
<1>2. UNCHANGED <<state = "open", Ended, Whole, RepliedAll>>
  BY DEF Ended, Whole, RepliedAll, Replied
<1> QED BY <1>1, <1>2 DEF Conn!vars, Ended, Whole, ToldAll, RepliedAll

\* A writer that returns what it may return.
LEMMA Returns ==
  ASSUME UNCHANGED <<state, expired, wire, result>>, NEW m \in Messages,
         Told(m) = "none", Told(m)' \in Conn!Truth(m),
         \A n \in Messages \ {m} : Told(n)' = Told(n)
  PROVE  Conn!Next
<1>1. ToldAll' = [ToldAll EXCEPT ![m] = Told(m)']
  BY DEF ToldAll
<1>2. UNCHANGED <<state = "open", Ended, Whole, RepliedAll>>
  BY DEF Ended, Whole, RepliedAll, Replied
<1>3. Conn!Return(m, Told(m)')
  BY <1>1, <1>2 DEF Conn!Return, Ended, Whole, ToldAll, RepliedAll
<1> QED BY <1>3 DEF Conn!Next

\* A request that gets what it may get.
LEMMA Replies ==
  ASSUME UNCHANGED <<state, expired, wire>>, NEW r \in Requests,
         r \in Messages, \A m \in Messages : Told(m)' = Told(m),
         Replied(r) = "none", Replied(r)' \in Conn!Answers(r),
         \A q \in Requests \ {r} : result'[q] = result[q]
  PROVE  Conn!Next
<1>1. \A q \in Messages \ {r} : Replied(q)' = Replied(q)
  BY DEF Replied
<1>2. RepliedAll' = [RepliedAll EXCEPT ![r] = Replied(r)']
  BY <1>1 DEF RepliedAll
<1>3. UNCHANGED <<state = "open", Ended, Whole, ToldAll>>
  BY DEF Ended, Whole, ToldAll
<1>4. Conn!Reply(r, Replied(r)')
  BY <1>2, <1>3 DEF Conn!Reply, Ended, Whole, ToldAll, RepliedAll
<1> QED BY <1>4 DEF Conn!Next

\* The connection leaves its open state, or nothing happens.
LEMMA Leaves ==
  ASSUME UNCHANGED <<expired, wire, result>>, state # "open" => state' # "open",
         \A m \in Messages : Told(m)' = Told(m)
  PROVE  Conn!Next \/ UNCHANGED Conn!vars
<1>1. UNCHANGED <<Ended, Whole, RepliedAll, ToldAll>>
  BY DEF Ended, Whole, RepliedAll, ToldAll, Replied
<1>2. CASE state = "open" /\ state' # "open"
  <2>1. Conn!Lose
    BY <1>1, <1>2 DEF Conn!Lose, Ended, Whole, ToldAll, RepliedAll
  <2> QED BY <2>1 DEF Conn!Next
<1>3. CASE (state = "open") = (state' = "open")
  BY <1>1, <1>3 DEF Conn!vars, Ended, Whole, ToldAll, RepliedAll
<1> QED BY <1>2, <1>3

\* What was not written is refused for a reason, and the open state has an open pipe.
LEMMA Refusals ==
  ASSUME PromisedInv, NEW m \in Messages
  PROVE  /\ io[m] = "none" => ~OnWire(m)
         /\ CtxOf(m) \in expired \/ ~admitWrite(m) =>
              CtxOf(m) \in expired \/ state # "open" \/ m \in {Shutdown, Exit}
<1>1. inputClosed => state # "open"
  BY DEF PromisedInv, OrderInv, StopInv
<1> QED BY <1>1 DEF PromisedInv, PromiseInv, admitWrite, Messages

\* close() starts its two frames when the connection is no longer open.
LEMMA LateFrames ==
  ASSUME PromisedInv
  PROVE  wpc[Shutdown] # "idle" \/ wpc[Exit] # "idle" => state # "open"
BY DEF PromisedInv, SafeInv, FreshInv, OrderInv, StopInv

\* A writer that starts has been told nothing, or refused for its context.
LEMMA ConnStart ==
  ASSUME PromisedInv, [Next]_vars, UNCHANGED <<state, expired, wire, result>>,
         NEW m \in Messages, ~Writer(m),
         wpc'[m] = "fail" => CtxOf(m) \in expired,
         \A n \in Messages \ {m} : wpc'[n] = wpc[n] /\ io'[n] = io[n],
         UNCHANGED io
  PROVE  Conn!Next \/ UNCHANGED Conn!vars
<1>0. SafeInv /\ WireInv
  BY DEF PromisedInv
<1>1. \A n \in Messages \ {m} : Told(n)' = Told(n)
  BY DEF Told
<1>2. CASE wpc'[m] = wpc[m]
  <2>1. \A n \in Messages : Told(n)' = Told(n)
    BY <1>1, <1>2 DEF Told
  <2> QED BY <2>1, Unseen
<1>3. CASE wpc'[m] # wpc[m]
  <2>1. wpc[m] = "idle" /\ io[m] = "none" /\ wpc'[m] \in {"lock", "fail", "admit"}
    BY <1>0, <1>3, Starts
  <2>2. Told(m) = "none" /\ (wpc'[m] # "fail" => Told(m)' = "none")
    BY <2>1 DEF Told
  <2>3. CASE wpc'[m] # "fail"
    <3>1. \A n \in Messages : Told(n)' = Told(n)
      BY <1>1, <2>2, <2>3
    <3> QED BY <3>1, Unseen
  <2>4. CASE wpc'[m] = "fail"
    <3>1. Told(m)' = "refused"
      BY <2>1, <2>4 DEF Told
    <3>2. m \in Ended /\ m \notin Whole
      BY <2>1, <2>4, Refusals DEF Ended, Whole, OnWire
    <3>3. Told(m)' \in Conn!Truth(m)
      BY <3>1, <3>2 DEF Conn!Truth, Ended, Whole
    <3> QED BY <1>1, <2>2, <3>3, Returns
  <2> QED BY <2>3, <2>4
<1> QED BY <1>2, <1>3

\* The steps of a writer.
LEMMA ConnWriter ==
  ASSUME PromisedInv, [Next]_vars, NEW m \in Messages, Writer(m)
  PROVE  Conn!Next \/ UNCHANGED Conn!vars
<1>0. SafeInv /\ WireInv /\ StopInv /\ ToldInv /\ PromiseInv
  BY DEF PromisedInv, OrderInv
<1>1. UNCHANGED <<result, wire, expired>>
  BY <1>0, WriterMoves
<1>2. \A n \in Messages \ {m} : Told(n)' = Told(n)
  BY <1>0, WriterMoves DEF Told
<1>n. ASSUME Told(m) = "none", Told(m)' = "none", UNCHANGED state
      PROVE  UNCHANGED Conn!vars
  <2>1. \A n \in Messages : Told(n)' = Told(n)
    BY <1>2, <1>n
  <2> QED BY <1>1, <1>n, <2>1, Unseen
<1>r. ASSUME Told(m) = "none", Told(m)' \in Conn!Truth(m), UNCHANGED state
      PROVE  Conn!Next
  BY <1>1, <1>2, <1>r, Returns
<1>f. ASSUME io[m] = "none", CtxOf(m) \in expired \/ state # "open"
      PROVE  "refused" \in Conn!Truth(m)
  <2>1. m \notin Whole /\ (m \in Ended \/ state # "open")
    BY <1>f, Refusals DEF Ended, Whole, OnWire
  <2> QED BY <2>1 DEF Conn!Truth, Ended, Whole
<1>3. CASE /\ wpc[m] = "lock" /\ wpc'[m] \in {"admit", "fail"}
           /\ wpc'[m] = "fail" => CtxOf(m) \in expired
           /\ UNCHANGED <<io, state>> /\ io[m] = "none"
  <2>1. Told(m) = "none" /\ Told(m)' = IF wpc'[m] = "fail" THEN "refused" ELSE "none"
    BY <1>3 DEF Told
  <2> QED BY <1>3, <1>n, <1>r, <1>f, <2>1
<1>4. CASE wpc[m] = "admit" /\ wpc'[m] = "frame" /\ UNCHANGED state
  <2>1. Told(m) = "none" /\ Told(m)' = "none"
    BY <1>4 DEF Told
  <2> QED BY <1>4, <1>n, <2>1
<1>5. CASE /\ wpc[m] = "admit" /\ wpc'[m] = "fail"
           /\ CtxOf(m) \in expired \/ ~admitWrite(m)
           /\ UNCHANGED <<io, state>> /\ io[m] = "none"
  <2>1. Told(m) = "none" /\ Told(m)' = "refused"
    BY <1>5 DEF Told
  <2>2. CtxOf(m) \in expired \/ state # "open"
    BY <1>5, Refusals, LateFrames
  <2> QED BY <1>5, <1>r, <1>f, <2>1, <2>2
<1>6. CASE /\ wpc[m] = "frame" /\ wpc'[m] = "ok" /\ io[m] = "ok" /\ UNCHANGED <<io, state>>
  <2>1. Told(m) = "none" /\ Told(m)' = "sent"
    BY <1>6 DEF Told
  <2>2. m \in Whole
    BY <1>0, <1>6 DEF ToldInv, Whole, OnWire
  <2>3. "sent" \in Conn!Truth(m)
    BY <2>2 DEF Conn!Truth, Whole
  <2> QED BY <1>6, <1>r, <2>1, <2>3
<1>7. CASE wpc[m] = "frame" /\ wpc'[m] = "abort" /\ UNCHANGED io
  <2>1. Told(m) = "none" /\ Told(m)' = "none"
    BY <1>7 DEF Told
  <2>2. \A n \in Messages : Told(n)' = Told(n)
    BY <1>2, <2>1
  <2>3. state # "open" => state' # "open"
    BY <1>0, StateMoves
  <2> QED BY <1>1, <2>2, <2>3, Leaves
<1>8. CASE wpc[m] = "abort" /\ wpc'[m] = "fail" /\ UNCHANGED <<io, state>>
  <2>1. Told(m) = "none" /\ Told(m)' = IF io[m] = "none" THEN "refused" ELSE "torn"
    BY <1>8 DEF Told
  <2>2. state # "open"
    BY <1>0, <1>8 DEF StopInv
  <2>3. "torn" \in Conn!Truth(m)
    BY <2>2 DEF Conn!Truth
  <2> QED BY <1>8, <1>r, <1>f, <2>1, <2>2, <2>3
<1> QED BY <1>0, <1>3, <1>4, <1>5, <1>6, <1>7, <1>8, WriterMoves

\* The goroutine of a frame: the last byte goes out, once.
LEMMA ConnFrameIo ==
  ASSUME PromisedInv, [Next]_vars, NEW m \in Messages, FrameIo(m)
  PROVE  Conn!Next \/ UNCHANGED Conn!vars
<1>0. SafeInv /\ WireInv /\ ToldInv /\ PromiseInv
  BY DEF PromisedInv, OrderInv
<1>1. UNCHANGED <<state, expired, result, wpc>>
  BY DEF FrameIo, connVars, tableVars, writeVars
<1>2. /\ \A n \in Messages \ {m} : io'[n] = io[n]
      /\ io[m] # "none" /\ io'[m] # "none" /\ io[m] # "ok"
  BY <1>0 DEF FrameIo, WriteBytes, DispatchFrame, WriteFails, SafeInv, TypeOK
<1>3. \A n \in Messages : Told(n)' = Told(n)
  BY <1>1, <1>2 DEF Told
<1>4. UNCHANGED <<state = "open", Ended, ToldAll, RepliedAll>>
  BY <1>1, <1>3 DEF Ended, ToldAll, RepliedAll, Replied
<1>5. CASE io[m] = "head" /\ io'[m] = "tail"
  <2>1. /\ Len(wire) \in Nat /\ Len(wire') = Len(wire) + 1 /\ wire'[Len(wire')] = <<m, "tail">>
        /\ \A i \in 1..Len(wire) : wire'[i] = wire[i]
    BY <1>0, <1>5, WireMoves
  <2>2. Whole' = Whole \cup {m}
    BY <2>1 DEF Whole
  <2>3. m \notin Whole
    BY <1>0, <1>5 DEF PromiseInv, OnWire, Whole
  <2>4. Told(m) \in {"none", "torn"}
    BY <1>0, <1>5 DEF Told, ToldInv
  <2>5. Conn!Write(m)
    BY <1>4, <2>2, <2>3, <2>4 DEF Conn!Write, Ended, Whole, ToldAll, RepliedAll
  <2> QED BY <2>5 DEF Conn!Next
<1>6. CASE ~(io[m] = "head" /\ io'[m] = "tail")
  <2>1. \A i \in 1..Len(wire') : wire'[i][2] = "tail" => i \in 1..Len(wire) /\ wire'[i] = wire[i]
    <3>1. CASE wire' = wire
      BY <3>1
    <3>2. CASE WriteBytes(m)
      <4>1. io[m] = "started" /\ io'[m] = "head" /\ wire' = Append(wire, <<m, "head">>)
        BY <1>0, <1>6, <3>2 DEF WriteBytes, SafeInv, TypeOK
      <4>2. wire \in Seq(Messages \X {"head", "tail"})
        BY <1>0 DEF SafeInv, TypeOK
      <4> QED BY <4>1, <4>2
    <3> QED BY <3>1, <3>2 DEF FrameIo, DispatchFrame, WriteFails
  <2>2. /\ Len(wire) \in Nat /\ Len(wire') \in Nat /\ Len(wire') >= Len(wire)
        /\ \A i \in 1..Len(wire) : wire'[i] = wire[i]
    BY <1>0, WireMoves
  <2>3. UNCHANGED Whole
    BY <2>1, <2>2 DEF Whole
  <2> QED BY <1>4, <2>3 DEF Conn!vars, Ended, Whole, ToldAll, RepliedAll
<1> QED BY <1>5, <1>6

\* One request is completed, and nobody's write is.
LEMMA ConnComplete ==
  ASSUME PromisedInv, UNCHANGED <<state, expired, wire>>, NEW r \in Requests, NEW res \in Results,
         \A m \in Messages : Told(m)' = Told(m), completeOnce(r, res),
         \/ res = "message" /\ io[r] \in {"tail", "ok"}
         \/ res = "canceled" /\ CtxOf(r) \in expired
         \/ res \in Causes /\ (state # "open" \/ Told(r) \in {"refused", "torn"})
  PROVE  Conn!Next \/ UNCHANGED Conn!vars
<1> USE Kinds
<1>0. r \in Messages /\ result \in [Requests -> Results] /\ ToldInv
  BY DEF PromisedInv, SafeInv, TypeOK, OrderInv
<1>1. CASE result[r] # "none"
  <2>1. result' = result
    BY <1>0, <1>1 DEF completeOnce
  <2> QED BY <2>1, Unseen
<1>2. CASE result[r] = "none"
  <2>1. /\ result' = [result EXCEPT ![r] = res]
        /\ \A q \in Requests \ {r} : result'[q] = result[q] /\ result'[r] = res
    BY <1>0, <1>2 DEF completeOnce
  <2>2. result'[r] = res
    BY <1>0, <2>1
  <2>3. "message" \notin Causes /\ "canceled" \notin Causes /\ "none" \notin Causes
    BY DEF Causes
  <2>4. Replied(r) = "none" /\ Replied(r)' = IF res \in Causes THEN "error" ELSE res
    BY <1>2, <2>2, <2>3 DEF Replied
  <2>5. res = "message" => r \in Whole
    BY <1>0, <2>3 DEF ToldInv, OnWire, Whole
  <2>6. res = "canceled" => r \in Ended
    BY <1>0, <2>3 DEF Ended
  <2>7. res \in Causes => state # "open" \/ ToldAll[r] \in {"refused", "torn"}
    BY <1>0, <2>3 DEF ToldAll
  <2>8. Replied(r)' \in Conn!Answers(r)
    BY <1>0, <2>3, <2>4, <2>5, <2>6, <2>7 DEF Conn!Answers, Whole, Ended, ToldAll
  <2> QED BY <1>0, <2>1, <2>4, <2>8, Replies
<1> QED BY <1>1, <1>2

\* The owner of a request: a failed write, an ended context, or a result.
LEMMA ConnWaiter ==
  ASSUME PromisedInv, [Next]_vars, NEW r \in Requests, Waiter(r)
  PROVE  Conn!Next \/ UNCHANGED Conn!vars
<1> USE Kinds
<1>0. SafeInv /\ WireInv /\ r \in Messages /\ r \notin CancelMsgs
  BY DEF PromisedInv, Requests, Shutdown, CallMsgs, CancelMsgs
<1>1. UNCHANGED <<state, expired, wire, io>>
  BY DEF Waiter, connVars, frameVars
<1>2. \A m \in Messages : Told(m)' = Told(m)
  <2>1. CASE WaitCanceled(r)
    <3>1. ASSUME NEW m \in Messages, wpc'[m] # wpc[m] PROVE Told(m)' = Told(m)
      <4>1. /\ m = <<"cancel", r[2]>> /\ r \in CallMsgs /\ rpc[r] = "wait"
            /\ wpc'[m] = "lock"
        BY <2>1, <3>1 DEF WaitCanceled
      <4>2. wpc[m] = "idle" /\ wpc'[m] = "lock"
        BY <1>0, <4>1 DEF SafeInv, FreshInv
      <4> QED BY <1>1, <4>2 DEF Told
    <3>2. \A m \in Messages : wpc'[m] = wpc[m] => Told(m)' = Told(m)
      BY <1>1 DEF Told
    <3> QED BY <3>1, <3>2
  <2>2. CASE ~WaitCanceled(r)
    <3>1. UNCHANGED wpc
      BY <2>2 DEF Waiter, RequestWritten, WaitDone
    <3> QED BY <1>1, <3>1 DEF Told
  <2> QED BY <2>1, <2>2
<1>3. CASE UNCHANGED result
  BY <1>1, <1>2, <1>3, Unseen
<1>4. CASE RequestWritten(r) /\ wpc[r] = "fail" /\ completeOnce(r, "write")
  <2>1. Told(r) \in {"refused", "torn"} /\ "write" \in Causes /\ "write" \in Results
    BY <1>4 DEF Told, Causes, Results
  <2> QED BY <1>1, <1>2, <1>4, <2>1, ConnComplete
<1>5. CASE WaitCanceled(r) /\ completeOnce(r, "canceled")
  <2>1. CtxOf(r) \in expired /\ "canceled" \in Results
    BY <1>5 DEF WaitCanceled, Results
  <2> QED BY <1>1, <1>2, <1>5, <2>1, ConnComplete
<1> QED BY <1>3, <1>4, <1>5 DEF Waiter, RequestWritten, WaitDone, WaitCanceled, complete, tableVars

\* Who took a request completes it.
LEMMA ConnAborter ==
  ASSUME PromisedInv, NEW a \in Actors, Aborter(a)
  PROVE  Conn!Next \/ UNCHANGED Conn!vars
<1>1. UNCHANGED <<state, expired, wire, io, wpc>>
  BY DEF Aborter, connVars, frameVars, writeVars
<1>2. \A m \in Messages : Told(m)' = Told(m)
  BY <1>1 DEF Told
<1>3. CASE AbortFinish(a)
  <2>1. UNCHANGED result
    BY <1>3 DEF AbortFinish
  <2> QED BY <1>1, <1>2, <2>1, Unseen
<1>4. CASE CompleteTaken(a)
  <2>1. PICK t \in taken[a] : completeOnce(t[1], t[2])
    BY <1>4 DEF CompleteTaken
  <2>2. t[1] \in Requests /\ t[2] \in Results
    BY DEF PromisedInv, SafeInv, TypeOK
  <2>3. t[2] \in Causes \cup {"message"} /\ (t[2] \in Causes => state # "open")
    BY DEF PromisedInv, PromiseInv
  <2>4. t[2] = "message" => io[t[1]] \in {"tail", "ok"}
    BY DEF PromisedInv, OrderInv, ToldInv
  <2> QED BY <1>1, <1>2, <2>1, <2>2, <2>3, <2>4, ConnComplete
<1> QED BY <1>3, <1>4 DEF Aborter

\* call and notify start.
LEMMA ConnCaller ==
  ASSUME PromisedInv, [Next]_vars, Caller
  PROVE  Conn!Next \/ UNCHANGED Conn!vars
<1> USE Kinds
<1>0. SafeInv /\ TypeOK
  BY DEF PromisedInv, SafeInv
<1>1. UNCHANGED <<state, expired, wire, io>>
  BY DEF Caller, connVars, frameVars
<1>2. CASE \E r \in CallMsgs : StartCall(r)
  <2>1. PICK r \in CallMsgs : StartCall(r)
    BY <1>2
  <2>2. r \in Messages /\ r \in Requests /\ rpc[r] = "idle" /\ wpc[r] = "idle" /\ result[r] = "none"
    BY <1>0, <2>1 DEF StartCall, SafeInv, FreshInv, OwnerInv
  <2>3. CASE state = "open"
    <3>1. UNCHANGED result /\ wpc' = [wpc EXCEPT ![r] = enterWrite(r)]
      BY <2>1, <2>3 DEF StartCall
    <3>2. wpc'[r] = "fail" => CtxOf(r) \in expired
      BY <1>0, <2>2, <3>1 DEF enterWrite, TypeOK
    <3>3. \A n \in Messages \ {r} : wpc'[n] = wpc[n]
      BY <1>0, <3>1 DEF TypeOK
    <3>4. ~Writer(r)
      BY <2>2 DEF Writer, LockWrite, Admit, FrameDispatched, FrameAborted, WriterAborted
    <3> QED BY <1>1, <2>2, <3>1, <3>2, <3>3, <3>4, ConnStart
  <2>4. CASE state # "open"
    <3>1. UNCHANGED wpc /\ result' = [result EXCEPT ![r] = connErr]
      BY <2>1, <2>4 DEF StartCall
    <3>2. connErr \in Causes /\ connErr \in Results
      BY <1>0, <2>4 DEF SafeInv, ErrorInv, TypeOK, Results
    <3>3. completeOnce(r, connErr)
      BY <1>0, <2>2, <3>1 DEF completeOnce, TypeOK
    <3>4. \A m \in Messages : Told(m)' = Told(m)
      BY <1>1, <3>1 DEF Told
    <3> QED BY <1>1, <2>2, <2>4, <3>2, <3>3, <3>4, ConnComplete
  <2> QED BY <2>3, <2>4
<1>3. CASE \E m \in NoteMsgs : Notify(m)
  <2>1. PICK m \in NoteMsgs : Notify(m)
    BY <1>3
  <2>2. m \in Messages /\ UNCHANGED result /\ wpc' = [wpc EXCEPT ![m] = enterWrite(m)]
    BY <2>1 DEF Notify, tableVars
  <2>3. wpc'[m] = "fail" => CtxOf(m) \in expired
    BY <1>0, <2>2 DEF enterWrite, TypeOK
  <2>4. \A n \in Messages \ {m} : wpc'[n] = wpc[n]
    BY <1>0, <2>2 DEF TypeOK
  <2>5. ~Writer(m)
    BY <2>1 DEF Notify, Writer, LockWrite, Admit, FrameDispatched, FrameAborted, WriterAborted
  <2> QED BY <1>1, <2>2, <2>3, <2>4, <2>5, ConnStart
<1> QED BY <1>2, <1>3 DEF Caller

\* The reader starts refusals of server requests; close() leaves the open state and
\* starts its two frames.
LEMMA ConnLifecycle ==
  ASSUME PromisedInv, [Next]_vars,
         ReadFrame \/ ReaderAbort \/ CloseCalled \/ CloseStep \/ ProcessReaped
  PROVE  Conn!Next \/ UNCHANGED Conn!vars
<1> USE Kinds
<1>0. SafeInv /\ TypeOK
  BY DEF PromisedInv, SafeInv
<1>1. UNCHANGED <<expired, wire, io, result>>
  BY DEF ReadFrame, ReaderAbort, CloseCalled, CloseStep, ProcessReaped, frameVars, tableVars
<1>2. state # "open" => state' # "open"
  BY <1>0, StateMoves
<1>3. CASE UNCHANGED wpc
  <2>1. \A m \in Messages : Told(m)' = Told(m)
    BY <1>1, <1>3 DEF Told
  <2> QED BY <1>1, <1>2, <2>1, Leaves
<1>4. ASSUME NEW m \in Messages, NEW l \in {"lock", "admit", "fail"},
             UNCHANGED state, wpc[m] = "idle",
             wpc' = [wpc EXCEPT ![m] = l], l = "fail" => CtxOf(m) \in expired
      PROVE  Conn!Next \/ UNCHANGED Conn!vars
  <2>1. \A n \in Messages \ {m} : wpc'[n] = wpc[n]
    BY <1>0, <1>4 DEF TypeOK
  <2>2. wpc'[m] = l
    BY <1>0, <1>4 DEF TypeOK
  <2>3. ~Writer(m)
    BY <1>4 DEF Writer, LockWrite, Admit, FrameDispatched, FrameAborted, WriterAborted
  <2> QED BY <1>1, <1>4, <2>1, <2>2, <2>3, ConnStart
<1>5. CASE WriteShutdown
  <2>1. UNCHANGED state /\ wpc' = [wpc EXCEPT ![Shutdown] = "admit"] /\ wpc[Shutdown] = "idle"
    BY <1>0, <1>5 DEF WriteShutdown, connVars, closerStep, SafeInv, FreshInv
  <2> QED BY <1>4, <2>1
<1>6. CASE WriteExit
  <2>1. UNCHANGED state /\ wpc' = [wpc EXCEPT ![Exit] = enterWrite(Exit)] /\ wpc[Exit] = "idle"
    BY <1>0, <1>6 DEF WriteExit, connVars, closerStep, SafeInv, FreshInv
  <2> QED BY <1>4, <2>1 DEF enterWrite
<1>7. CASE ReadFrame
  <2>1. UNCHANGED state
    BY <1>7 DEF ReadFrame, connVars
  <2>2. \/ UNCHANGED wpc
        \/ \E m \in ReplyMsgs : wpc[m] = "idle" /\ wpc' = [wpc EXCEPT ![m] = "lock"]
    BY <1>7 DEF ReadFrame, DeliverResponse, RespondMethodNotFound, ReaderFailed
  <2> QED BY <1>3, <1>4, <2>1, <2>2
<1>8. CASE ReaderAbort \/ ProcessReaped
  BY <1>3, <1>8 DEF ReaderAbort, ProcessReaped, writeVars
<1>9. CASE (CloseCalled \/ CloseStep) /\ ~WriteShutdown /\ ~WriteExit
  BY <1>3, <1>9 DEF CloseCalled, CloseStep, CloseLock, BeginClose, HandshakeOver,
     CloseInputAfterWrites, CloseInputLocked, GraceOver, FinishClose, CloseReturn, CloseStart,
     InitFailed, InitReturn, writeVars
<1> QED BY <1>5, <1>6, <1>7, <1>8, <1>9

\* A context ends, and with it every message it bounds.
LEMMA ConnExpire ==
  ASSUME NEW x \in Contexts, Expire(x)
  PROVE  Conn!Next
<1>1. UNCHANGED <<state, wire, io, wpc, result>> /\ expired' = expired \cup {x}
  BY DEF Expire, connVars, frameVars, writeVars, tableVars
<1>2. UNCHANGED <<state = "open", Whole, ToldAll, RepliedAll>>
  BY <1>1 DEF Whole, ToldAll, Told, RepliedAll, Replied
<1>3. Ended \subseteq Ended' /\ Ended' \subseteq Messages
  BY <1>1 DEF Ended
<1>4. \E M \in SUBSET (Messages \ Ended) : Ended' = Ended \cup M
  <2>1. Ended' \ Ended \in SUBSET (Messages \ Ended) /\ Ended' = Ended \cup (Ended' \ Ended)
    BY <1>3
  <2> QED BY <2>1
<1>5. Conn!End
  BY <1>2, <1>4 DEF Conn!End, Ended, Whole, ToldAll, RepliedAll
<1> QED BY <1>5 DEF Conn!Next

LEMMA ConnStep ==
  ASSUME PromisedInv, [Next]_vars
  PROVE  [Conn!Next]_(Conn!vars)
<1>1. CASE UNCHANGED vars
  <2>1. UNCHANGED <<state, expired, wire, result, wpc, io>>
    BY <1>1 DEF vars, connVars, frameVars, tableVars, writeVars
  <2>2. \A m \in Messages : Told(m)' = Told(m)
    BY <2>1 DEF Told
  <2> QED BY <2>1, <2>2, Unseen
<1> QED BY <1>1, ConnWriter, ConnFrameIo, ConnWaiter, ConnAborter, ConnCaller, ConnLifecycle,
           ConnExpire DEF Next

LEMMA ConnInit == Init => Conn!Init
<1> SUFFICES ASSUME Init PROVE Conn!Init
  OBVIOUS
<1>1. Whole = {} /\ Ended = {}
  BY DEF Init, Whole, Ended
<1>2. ToldAll = [m \in Messages |-> "none"] /\ RepliedAll = [m \in Messages |-> "none"]
  BY DEF Init, ToldAll, Told, RepliedAll, Replied, Causes
<1> QED BY <1>1, <1>2 DEF Init, Conn!Init, Whole, Ended, ToldAll, RepliedAll

\* call and notify keep the contract of Connection, whatever contexts, writers, the
\* reader, aborts, Close and the server do: a refused message is never written, a
\* sent one is whole, and a doubt costs the connection.
THEOREM TransportIsConnection == Spec => ImplementsConnection
<1>1. PromisedInv /\ [Next]_vars => [Conn!Next]_(Conn!vars)
  BY ConnStep
<1> QED BY <1>1, ConnInit, Promises, PTL DEF Spec, ImplementsConnection, Conn!Spec

=============================================================================
