------------------------------ MODULE Transport ------------------------------
(***************************************************************************)
(* The JSON-RPC connection of package lsp (transport.go, rpc.go,           *)
(* lifecycle.go and the writer half of framing.go): one write gate, one    *)
(* table of pending requests, one reader goroutine, one closer, and the    *)
(* language-server subprocess.                                             *)
(*                                                                         *)
(* A step of the model is one critical section of t.mu, one channel        *)
(* operation, one compare-and-swap or one system call.  A message is named *)
(* by a pair <<kind, id>>; its bytes are abstracted to a head (the first   *)
(* bytes reach the pipe) and a tail (the last ones do), which is what it   *)
(* takes to tell an interleaved or a torn frame from a whole one.          *)
(* Contexts and timers expire by a nondeterministic step.  The server is   *)
(* unconstrained: it may answer any request it received at any time or     *)
(* never, send requests of its own, stop reading, garble its output or     *)
(* die.                                                                    *)
(***************************************************************************)
EXTENDS Naturals, Sequences

CONSTANTS Calls,           \* the calls callers make (transport.call)
          Notes,           \* the notifications they send (transport.notify)
          ServerRequests   \* the requests the server sends, each refused once

Shutdown == <<"shutdown", "close">>
Exit     == <<"exit", "close">>

CallMsgs   == {"call"} \X Calls
CancelMsgs == {"cancel"} \X Calls
NoteMsgs   == {"note"} \X Notes
ReplyMsgs  == {"reply"} \X ServerRequests

\* Every frame the transport may write, and the ones that await an answer.
Timed    == CallMsgs \cup CancelMsgs \cup NoteMsgs \cup ReplyMsgs
Messages == Timed \cup {Shutdown, Exit}
Requests == CallMsgs \cup {Shutdown}

\* The contexts that bound an operation.  A call and a notification run under
\* their caller's context; the goroutines of sendCancellation and
\* respondMethodNotFound have a timeout each; Close has the handshake timeout
\* and, around it, the total one.
Handshake == <<"handshake", "close">>
Total     == <<"total", "close">>
Contexts  == Timed \cup {Handshake, Total}
CtxOf(m)  == IF m \in {Shutdown, Exit} THEN Handshake ELSE m

\* Holders of the write gate other than a message's own writer.
Free   == <<"free", "gate">>
Closer == <<"closer", "gate">>

\* The goroutines that take requests out of the pending table to complete them
\* outside the lock.  "writer" is whichever writer holds the gate.
Actors == {"writer", "reader", "closer"}

VARIABLES
  state,             \* transport.state
  connErr,           \* transport.connErr
  unavailableCause,  \* transport.unavailableCause; unavailable is closed iff set
  pending,           \* keys of transport.pending
  result,            \* pendingRequest.result, set when done is closed
  inputClosed,       \* transport.inputClosed, and the pipe itself
  writeGate,         \* who holds transport.writeGate
  wpc,               \* where the writer of each message is
  frame,             \* the atomic state of writeFrameLocked
  io,                \* the goroutine that runs writeFull
  wire,              \* what reached the pipe: <<message, "head" | "tail">>
  expired,           \* contexts whose Done channel is closed
  rpc,               \* where transport.call (or Close, for shutdown) is
  closer,            \* where transport.close is
  reader,            \* where readLoop is
  taken,             \* requests an actor removed from pending and has not yet
                     \* completed, each with the result it will get
  aborting,          \* actors inside transport.abort, past its critical section
  processDone,       \* transport.processDone is closed: the process was reaped
  killed,            \* killOnce was used
  waitStarted        \* waitOnce was used

connVars  == <<state, connErr, unavailableCause>>
tableVars == <<pending, result>>
writeVars == <<writeGate, wpc>>
frameVars == <<frame, io, wire>>
actorVars == <<taken, aborting>>
procVars  == <<processDone, killed, waitStarted>>
vars == <<connVars, tableVars, inputClosed, writeVars, frameVars, expired, rpc,
          closer, reader, actorVars, procVars>>

Causes  == {"closed", "eof", "ctx", "write"}
Results == Causes \cup {"none", "message", "canceled"}
Written == {"ok", "fail"}

\* Type correctness of the state of the connection and of its goroutines.
TypeOK ==
  /\ state \in {"open", "closing", "closed", "aborted"}
  /\ connErr \in Causes \cup {"none"}
  /\ unavailableCause \in Causes \cup {"none"}
  /\ pending \subseteq Requests
  /\ result \in [Requests -> Results]
  /\ inputClosed \in BOOLEAN
  /\ writeGate \in Messages \cup {Free, Closer}
  /\ wpc \in [Messages -> {"idle", "lock", "admit", "frame", "abort", "ok", "fail"}]
  /\ frame \in [Messages -> {"writing", "dispatched", "aborted"}]
  /\ io \in [Messages -> {"none", "started", "head", "tail", "ok", "failed"}]
  /\ wire \in Seq(Messages \X {"head", "tail"})
  /\ expired \subseteq Contexts
  /\ rpc \in [Requests -> {"idle", "write", "wait", "settle", "done"}]
  /\ closer \in {"idle", "lock", "begin", "release", "shutdown", "exit", "input",
                 "inputLock", "abortLock", "abortInput", "grace", "finish",
                 "finishing", "returned", "initAbort", "initFailed"}
  /\ reader \in {"read", "failed", "done"}
  /\ taken \in [Actors -> SUBSET (Requests \X (Results \ {"none"}))]
  /\ aborting \subseteq Actors
  /\ processDone \in BOOLEAN /\ killed \in BOOLEAN /\ waitStarted \in BOOLEAN

\* newTransport, with readLoop running.
Init ==
  /\ state = "open" /\ connErr = "none" /\ unavailableCause = "none"
  /\ pending = {} /\ result = [r \in Requests |-> "none"]
  /\ inputClosed = FALSE
  /\ writeGate = Free /\ wpc = [m \in Messages |-> "idle"]
  /\ frame = [m \in Messages |-> "writing"]
  /\ io = [m \in Messages |-> "none"] /\ wire = <<>>
  /\ expired = {}
  /\ rpc = [r \in Requests |-> "idle"]
  /\ closer = "idle"
  /\ reader = "read"
  /\ taken = [a \in Actors |-> {}] /\ aborting = {}
  /\ processDone = FALSE /\ killed = FALSE /\ waitStarted = FALSE

-----------------------------------------------------------------------------
(* The pending table and abort.                                            *)

\* Mutant: the table is emptied and nobody is completed.
drainForgets(a, c, left) ==
  pending' = left /\ UNCHANGED taken

\* drainPendingLocked: actor a empties the table but for what is left in it,
\* and will complete what it took with cause c once it has released t.mu.
drainPendingLocked(a, c, left) ==
  /\ taken' = [taken EXCEPT ![a] = pending \X {c}]
  /\ pending' = left

\* pendingRequest.complete, through its once.
completeOnce(r, res) ==
  result' = [result EXCEPT ![r] = IF @ = "none" THEN res ELSE @]

\* completePending and deliverResponse after the unlock: one request at a time.
CompleteTaken(a) ==
  /\ \E t \in taken[a] : /\ completeOnce(t[1], t[2])
                         /\ taken' = [taken EXCEPT ![a] = @ \ {t}]
  /\ UNCHANGED <<inputClosed, aborting, procVars>>

\* t.complete(key, err) by the owner of the request itself, which nobody else
\* can reach once it is out of the table.
complete(r, res) ==
  IF r \in pending
    THEN pending' = pending \ {r} /\ completeOnce(r, res)
    ELSE UNCHANGED tableVars

\* transitionFromOpenLocked, when the state is open.
transitionFromOpenLocked(s, c) ==
  state' = s /\ connErr' = c /\ unavailableCause' = c

\* The critical section of abort: a no-op in a terminal state.
abort(a, c) ==
  IF state \in {"closed", "aborted"}
    THEN UNCHANGED <<connVars, pending, actorVars>>
    ELSE /\ IF state = "open"
              THEN transitionFromOpenLocked("aborted", c)
              ELSE state' = "aborted" /\ connErr' = c /\ UNCHANGED unavailableCause
         /\ drainPendingLocked(a, c, {})
         /\ aborting' = aborting \cup {a}

\* abort after its critical section: when every taken request is completed,
\* closeInput, kill and startProcessWait, three Once operations that nobody
\* waits for and whose order no other step observes.
AbortFinish(a) ==
  /\ a \in aborting
  /\ taken[a] = {}
  /\ inputClosed' = TRUE /\ killed' = TRUE /\ waitStarted' = TRUE
  /\ aborting' = aborting \ {a}
  /\ UNCHANGED <<result, taken, processDone>>

Aborter(a) ==
  /\ CompleteTaken(a) \/ AbortFinish(a)
  /\ UNCHANGED <<connVars, pending, writeVars, frameVars, expired, rpc, closer,
                 reader>>

-----------------------------------------------------------------------------
(* Writing one message: writeMessage, lockWrite, admitWrite and            *)
(* writeFrameLocked with its writer goroutine.                             *)

\* writeMessage starts: an expired context refuses it before the gate.
enterWrite(m) == IF CtxOf(m) \in expired THEN "fail" ELSE "lock"

\* unlockWrite and the return of writeMessage.
unlockWrite(m, outcome) ==
  /\ writeGate' = Free
  /\ wpc' = [wpc EXCEPT ![m] = outcome]

LockWrite(m) ==
  /\ wpc[m] = "lock"
  /\ \/ /\ writeGate = Free
        /\ writeGate' = m
        /\ wpc' = [wpc EXCEPT ![m] = "admit"]
     \/ /\ CtxOf(m) \in expired
        /\ wpc' = [wpc EXCEPT ![m] = "fail"]
        /\ UNCHANGED writeGate
  /\ UNCHANGED <<connVars, pending, actorVars, frame, io>>

\* Mutant: one policy for every message.
admitAny(m) == ~inputClosed /\ state \in {"open", "closing"}

\* admitWrite: what each write policy may write in which state.
admitWrite(m) ==
  /\ ~inputClosed
  /\ \/ state = "open" /\ m \in Timed
     \/ state = "closing" /\ m \in ReplyMsgs \cup {Shutdown, Exit}

\* writeAdmittedFrameLocked: a refused frame releases the gate, an admitted one
\* starts its writer goroutine.  (A context that ends while the frame is built
\* refuses it as one that ended just before.)
Admit(m) ==
  /\ wpc[m] = "admit"
  /\ IF CtxOf(m) \notin expired /\ admitWrite(m)
       THEN /\ wpc' = [wpc EXCEPT ![m] = "frame"]
            /\ io' = [io EXCEPT ![m] = "started"]
            /\ UNCHANGED writeGate
       ELSE unlockWrite(m, "fail") /\ UNCHANGED io
  /\ UNCHANGED <<connVars, pending, actorVars, frame>>

\* Mutant: a context that expires counts as a dispatched frame.
FrameAssumedDispatched(m) ==
  /\ wpc[m] = "frame"
  /\ io[m] = "ok" \/ CtxOf(m) \in expired
  /\ unlockWrite(m, "ok")
  /\ UNCHANGED <<connVars, pending, actorVars, frame, io>>

\* writeFrameLocked returns true: its result arrived, or its context expired
\* but the compare-and-swap was lost to the dispatch.
FrameDispatched(m) ==
  /\ wpc[m] = "frame"
  /\ io[m] = "ok" /\ frame[m] = "dispatched"
  /\ unlockWrite(m, "ok")
  /\ UNCHANGED <<connVars, pending, actorVars, frame, io>>

\* Mutant: an expired context returns and leaves the frame to its goroutine.
FrameAbandoned(m) ==
  /\ wpc[m] = "frame"
  /\ CtxOf(m) \in expired /\ frame[m] = "writing"
  /\ frame' = [frame EXCEPT ![m] = "aborted"]
  /\ unlockWrite(m, "fail")
  /\ UNCHANGED <<connVars, pending, actorVars, io>>

\* The write failed, or the context expired and won the compare-and-swap: the
\* connection is aborted while the gate is still held.
FrameAborted(m) ==
  /\ wpc[m] = "frame"
  /\ \/ io[m] = "failed" /\ abort("writer", "write")
     \/ CtxOf(m) \in expired /\ frame[m] = "writing" /\ abort("writer", "ctx")
  /\ frame' = [frame EXCEPT ![m] = "aborted"]
  /\ wpc' = [wpc EXCEPT ![m] = "abort"]
  /\ UNCHANGED <<writeGate, io>>

WriterAborted(m) ==
  /\ wpc[m] = "abort"
  /\ "writer" \notin aborting
  /\ unlockWrite(m, "fail")
  /\ UNCHANGED <<connVars, pending, actorVars, frame, io>>

Writer(m) ==
  /\ \/ LockWrite(m) \/ Admit(m) \/ FrameDispatched(m)
     \/ FrameAborted(m) \/ WriterAborted(m)
  /\ UNCHANGED <<result, inputClosed, wire, expired, rpc, closer, reader, procVars>>

\* writeFull, the goroutine of a frame: the pipe takes the first bytes, then the
\* last ones; a Write that is already in the kernel may finish although the
\* pipe is being closed.
WriteBytes(m) ==
  /\ ~processDone
  /\ \/ io[m] = "started" /\ ~inputClosed /\ io' = [io EXCEPT ![m] = "head"]
     \/ io[m] = "head" /\ io' = [io EXCEPT ![m] = "tail"]
  /\ wire' = Append(wire, <<m, io'[m]>>)
  /\ UNCHANGED frame

\* complete(): the compare-and-swap to frameDispatched, and the send of the
\* result on its buffered channel.
DispatchFrame(m) ==
  /\ io[m] = "tail"
  /\ frame' = [frame EXCEPT ![m] = IF @ = "writing" THEN "dispatched" ELSE @]
  /\ io' = [io EXCEPT ![m] = "ok"]
  /\ UNCHANGED wire

\* A Write fails: closed pipe, dead server or any other error.
WriteFails(m) ==
  /\ io[m] \in {"started", "head"}
  /\ io' = [io EXCEPT ![m] = "failed"]
  /\ UNCHANGED <<frame, wire>>

FrameIo(m) ==
  /\ WriteBytes(m) \/ DispatchFrame(m) \/ WriteFails(m)
  /\ UNCHANGED <<connVars, tableVars, inputClosed, writeVars, expired, rpc,
                 closer, reader, actorVars, procVars>>

-----------------------------------------------------------------------------
(* call and notify.                                                        *)

\* No caller holds a provider whose New failed.
Published == closer \notin {"initAbort", "initFailed"}

\* Mutant: register does not look at the state.
StartCallAnyway(r) ==
  /\ Published
  /\ rpc[r] = "idle"
  /\ pending' = pending \cup {r}
  /\ rpc' = [rpc EXCEPT ![r] = "write"]
  /\ wpc' = [wpc EXCEPT ![r] = enterWrite(r)]
  /\ UNCHANGED result

\* call: register refuses it, or it enters writeMessage.
StartCall(r) ==
  /\ Published
  /\ rpc[r] = "idle"
  /\ IF state = "open"
       THEN /\ pending' = pending \cup {r}
            /\ rpc' = [rpc EXCEPT ![r] = "write"]
            /\ wpc' = [wpc EXCEPT ![r] = enterWrite(r)]
            /\ UNCHANGED result
       ELSE /\ result' = [result EXCEPT ![r] = connErr]
            /\ rpc' = [rpc EXCEPT ![r] = "done"]
            /\ UNCHANGED <<pending, wpc>>

\* writeMessage returned: a failed write completes the request itself.
RequestWritten(r) ==
  /\ rpc[r] = "write"
  /\ wpc[r] \in Written
  /\ IF wpc[r] = "fail" THEN complete(r, "write") ELSE UNCHANGED tableVars
  /\ rpc' = [rpc EXCEPT ![r] = "wait"]
  /\ UNCHANGED wpc

\* waitPending: done is closed ...
WaitDone(r) ==
  /\ rpc[r] \in {"wait", "settle"}
  /\ result[r] # "none"
  /\ rpc' = [rpc EXCEPT ![r] = "done"]
  /\ UNCHANGED <<tableVars, wpc>>

\* Mutant: $/cancelRequest whether or not somebody completed the call first.
WaitCanceledAlways(r) ==
  /\ rpc[r] = "wait"
  /\ CtxOf(r) \in expired
  /\ complete(r, "canceled")
  /\ rpc' = [rpc EXCEPT ![r] = IF r \in pending THEN "done" ELSE "settle"]
  /\ wpc' = [m \in Messages |->
               IF m = <<"cancel", r[2]>> /\ r \in CallMsgs /\ wpc[r] = "ok"
                 THEN "lock" ELSE wpc[m]]

\* ... or the context expires first: the waiter completes its own request, and
\* call sends $/cancelRequest if the request had been dispatched; if somebody
\* else took the request, the waiter waits for that completion.
WaitCanceled(r) ==
  /\ rpc[r] = "wait"
  /\ CtxOf(r) \in expired
  /\ complete(r, "canceled")
  /\ rpc' = [rpc EXCEPT ![r] = IF r \in pending THEN "done" ELSE "settle"]
  /\ wpc' = [m \in Messages |->
               IF m = <<"cancel", r[2]>> /\ r \in CallMsgs \cap pending /\ wpc[r] = "ok"
                 THEN "lock" ELSE wpc[m]]

Waiter(r) ==
  /\ RequestWritten(r) \/ WaitDone(r) \/ WaitCanceled(r)
  /\ UNCHANGED <<connVars, inputClosed, writeGate, frameVars, expired, closer,
                 reader, actorVars, procVars>>

Notify(m) ==
  /\ Published
  /\ wpc[m] = "idle"
  /\ wpc' = [wpc EXCEPT ![m] = enterWrite(m)]
  /\ UNCHANGED <<tableVars, rpc>>

Caller ==
  /\ (\E r \in CallMsgs : StartCall(r)) \/ (\E m \in NoteMsgs : Notify(m))
  /\ UNCHANGED <<connVars, inputClosed, writeGate, frameVars, expired, closer,
                 reader, actorVars, procVars>>

-----------------------------------------------------------------------------
(* readLoop, which is back at readFrame once it completed what it delivered. *)

\* Mutant: the response is looked up but stays in the table.
DeliverWithoutDelete(r) ==
  /\ io[r] \in {"tail", "ok"}
  /\ r \in pending
  /\ taken' = [taken EXCEPT !["reader"] = {<<r, "message">>}]
  /\ UNCHANGED <<pending, reader, wpc>>

\* A response to a request the server received whole; a response whose key is
\* not in the table is dropped, which changes nothing.
DeliverResponse(r) ==
  /\ io[r] \in {"tail", "ok"}
  /\ r \in pending
  /\ pending' = pending \ {r}
  /\ taken' = [taken EXCEPT !["reader"] = {<<r, "message">>}]
  /\ UNCHANGED <<reader, wpc>>

\* A server request: respondMethodNotFound starts a goroutine that writes the
\* refusal.
RespondMethodNotFound(m) ==
  /\ wpc[m] = "idle"
  /\ wpc' = [wpc EXCEPT ![m] = "lock"]
  /\ UNCHANGED <<pending, taken, reader>>

\* readFrame fails.  During a shutdown readerFailed only releases the waiters;
\* otherwise it leaves t.mu, and aborts in a second step.
ReaderFailed ==
  /\ IF state = "closing"
       THEN drainPendingLocked("reader", "eof", {}) /\ reader' = "done"
       ELSE reader' = "failed" /\ UNCHANGED <<pending, taken>>
  /\ UNCHANGED wpc

ReadFrame ==
  /\ reader = "read" /\ taken["reader"] = {}
  /\ \/ \E r \in Requests : DeliverResponse(r)
     \/ \E m \in ReplyMsgs : RespondMethodNotFound(m)
     \/ ReaderFailed
  /\ UNCHANGED <<connVars, result, inputClosed, writeGate, frameVars, expired, rpc,
                 closer, aborting, procVars>>

ReaderAbort ==
  /\ reader = "failed"
  /\ abort("reader", "eof")
  /\ reader' = "done"
  /\ UNCHANGED <<result, inputClosed, writeVars, frameVars, expired, rpc, closer,
                 procVars>>

-----------------------------------------------------------------------------
(* Close, and the abortAndWait of a New whose handshake failed.  closeOnce  *)
(* makes concurrent calls of Close one run of close().                     *)

closerStep(from, to) == closer = from /\ closer' = to

\* Mutant: Close waits for the gate without a timeout.
CloseLockBlocks ==
  /\ closerStep("lock", "begin")
  /\ writeGate = Free
  /\ writeGate' = Closer
  /\ UNCHANGED <<connVars, pending, inputClosed, wpc, rpc, actorVars, procVars>>

\* lockWrite of the handshake context, or an abort when it ends first.
CloseLock ==
  \/ /\ closerStep("lock", "begin")
     /\ writeGate = Free
     /\ writeGate' = Closer
     /\ UNCHANGED <<connVars, pending, inputClosed, wpc, rpc, actorVars, procVars>>
  \/ /\ closerStep("lock", "abortLock")
     /\ Handshake \in expired
     /\ abort("closer", "ctx")
     /\ UNCHANGED <<inputClosed, writeVars, rpc, procVars>>

\* beginClose with the gate held: the table is emptied and holds only the
\* shutdown request; on an aborted connection there is no handshake.
BeginClose ==
  /\ IF state = "open"
       THEN /\ closerStep("begin", "release")
            /\ transitionFromOpenLocked("closing", "closed")
            /\ drainPendingLocked("closer", "closed", {Shutdown})
            /\ rpc' = [rpc EXCEPT ![Shutdown] = "write"]
            /\ UNCHANGED writeGate
       ELSE /\ closerStep("begin", "input")
            /\ writeGate' = Free
            /\ UNCHANGED <<connVars, pending, rpc, taken>>
  /\ UNCHANGED <<inputClosed, wpc, aborting, procVars>>

\* The callers are released; the shutdown frame is written under the gate that
\* close() already holds.
WriteShutdown ==
  /\ closerStep("release", "shutdown")
  /\ taken["closer"] = {}
  /\ writeGate' = Shutdown
  /\ wpc' = [wpc EXCEPT ![Shutdown] = "admit"]
  /\ UNCHANGED <<connVars, pending, inputClosed, rpc, actorVars, procVars>>

\* waitPending for the shutdown answer has returned: write exit.
WriteExit ==
  /\ closerStep("shutdown", "exit")
  /\ rpc[Shutdown] = "done"
  /\ wpc' = [wpc EXCEPT ![Exit] = enterWrite(Exit)]
  /\ UNCHANGED <<connVars, pending, inputClosed, writeGate, rpc, actorVars, procVars>>

\* The two ways to closeInputAfterWrites: exit was written (or refused), or the
\* abort of a gate that could not be had is over.
HandshakeOver ==
  /\ \/ closerStep("exit", "input") /\ wpc[Exit] \in Written
     \/ closerStep("abortLock", "input") /\ "closer" \notin aborting
  /\ UNCHANGED <<connVars, pending, inputClosed, writeVars, rpc, actorVars, procVars>>

\* The pipe is closed; waitForProcessContext starts with startProcessWait.
waitForProcess(from) ==
  /\ closerStep(from, "grace")
  /\ waitStarted' = TRUE
  /\ UNCHANGED <<processDone, killed>>

\* closeInputAfterWrites: while closing it waits for the writers in front of
\* it, otherwise it closes the pipe at once.
CloseInputAfterWrites ==
  /\ IF state = "closing" /\ ~inputClosed
       THEN closerStep("input", "inputLock") /\ UNCHANGED <<inputClosed, procVars>>
       ELSE waitForProcess("input") /\ inputClosed' = TRUE
  /\ UNCHANGED <<connVars, pending, writeVars, rpc, actorVars>>

\* lockWrite, closeInput and unlockWrite; or the total timeout and an abort.
CloseInputLocked ==
  /\ \/ /\ waitForProcess("inputLock")
        /\ writeGate = Free
        /\ inputClosed' = TRUE
        /\ UNCHANGED <<connVars, pending, actorVars>>
     \/ /\ closerStep("inputLock", "abortInput")
        /\ Total \in expired
        /\ abort("closer", "ctx")
        /\ UNCHANGED <<inputClosed, procVars>>
     \/ /\ waitForProcess("abortInput")
        /\ "closer" \notin aborting
        /\ UNCHANGED <<connVars, pending, inputClosed, actorVars>>
  /\ UNCHANGED <<writeVars, rpc>>

\* The rest of waitForProcessContext: the process ends in time, or it is killed
\* and waited for once more, at most killWait.
GraceOver ==
  /\ closerStep("grace", "finish")
  /\ \/ processDone /\ UNCHANGED killed
     \/ killed' = TRUE
  /\ UNCHANGED <<connVars, pending, inputClosed, writeVars, rpc, actorVars,
                 processDone, waitStarted>>

FinishClose ==
  /\ closerStep("finish", "finishing")
  /\ IF state = "closing"
       THEN state' = "closed" /\ drainPendingLocked("closer", "closed", {})
       ELSE UNCHANGED <<state, pending, taken>>
  /\ UNCHANGED <<connErr, unavailableCause, inputClosed, writeVars, rpc, aborting,
                 procVars>>

CloseReturn ==
  /\ closerStep("finishing", "returned")
  /\ taken["closer"] = {}
  /\ UNCHANGED <<connVars, pending, inputClosed, writeVars, rpc, actorVars, procVars>>

CloseStart ==
  /\ closerStep("idle", "lock")
  /\ UNCHANGED <<connVars, pending, inputClosed, writeVars, rpc, actorVars, procVars>>

\* New: initialize or initialized failed, and nothing else was sent.  A response
\* that the server sent may be an error.
InitFailed ==
  /\ closerStep("idle", "initAbort")
  /\ \A r \in CallMsgs : rpc[r] \in {"idle", "done"}
  /\ \A m \in NoteMsgs : wpc[m] \in {"idle"} \cup Written
  /\ \/ \E r \in CallMsgs : result[r] # "none"
     \/ \E m \in NoteMsgs : wpc[m] = "fail"
  /\ abort("closer", "closed")
  /\ UNCHANGED <<inputClosed, writeVars, rpc, procVars>>

\* abortAndWait after abort: kill at once and wait at most killWait.
InitReturn ==
  /\ closerStep("initAbort", "initFailed")
  /\ "closer" \notin aborting
  /\ waitStarted' = TRUE /\ killed' = TRUE
  /\ UNCHANGED <<connVars, pending, inputClosed, writeVars, rpc, actorVars,
                 processDone>>

\* close() and abortAndWait are called, and run.
CloseCalled ==
  /\ CloseStart \/ InitFailed
  /\ UNCHANGED <<result, frameVars, expired, reader>>

CloseStep ==
  /\ \/ CloseLock \/ BeginClose \/ WriteShutdown \/ WriteExit \/ HandshakeOver
     \/ CloseInputAfterWrites \/ CloseInputLocked \/ GraceOver \/ FinishClose
     \/ CloseReturn \/ InitReturn
  /\ UNCHANGED <<result, frameVars, expired, reader>>

-----------------------------------------------------------------------------
(* The subprocess and the clock.                                           *)

\* The process ends, waitProcess returns and processDone is closed.  That the
\* process may be gone before is in WriteFails and ReaderFailed, which may
\* happen at any time.
ProcessReaped ==
  /\ waitStarted
  /\ ~processDone
  /\ processDone' = TRUE
  /\ UNCHANGED <<connVars, tableVars, inputClosed, writeVars, frameVars, expired,
                 rpc, closer, reader, actorVars, killed, waitStarted>>

\* A timeout exists only while its operation runs; the total one ends after the
\* handshake one.
Running(x) ==
  CASE x \in CallMsgs -> rpc[x] # "done"
    [] x \in CancelMsgs \cup ReplyMsgs -> wpc[x] \notin {"idle"} \cup Written
    [] x \in NoteMsgs -> wpc[x] \notin Written
    [] x = Handshake -> closer \in {"lock", "begin", "release", "shutdown", "exit"}
    [] x = Total -> closer = "inputLock"

Expire(x) ==
  /\ x \notin expired
  /\ Running(x)
  /\ expired' = expired \cup {x}
  /\ UNCHANGED <<connVars, tableVars, inputClosed, writeVars, frameVars, rpc,
                 closer, reader, actorVars, procVars>>

-----------------------------------------------------------------------------

Next ==
  \/ \E m \in Messages : Writer(m) \/ FrameIo(m)
  \/ \E r \in Requests : Waiter(r)
  \/ \E a \in Actors : Aborter(a)
  \/ Caller
  \/ ReadFrame \/ ReaderAbort
  \/ CloseCalled \/ CloseStep
  \/ ProcessReaped
  \/ \E x \in Contexts : Expire(x)

\* Goroutines are scheduled; the timeouts the transport sets itself expire; a
\* Write on a closed pipe returns.  Nothing is assumed of the server, of the
\* callers' contexts or of the subprocess.
Fairness ==
  /\ \A m \in Messages :
       /\ WF_vars(Writer(m))
       /\ WF_vars(FrameIo(m) /\ (inputClosed \/ io[m] = "tail"))
  /\ \A r \in Requests : WF_vars(Waiter(r))
  /\ \A a \in Actors : WF_vars(Aborter(a))
  /\ WF_vars(ReaderAbort)
  /\ WF_vars(CloseStep)
  /\ \A x \in CancelMsgs \cup ReplyMsgs \cup {Handshake, Total} : WF_vars(Expire(x))

Spec == Init /\ [][Next]_vars
FairSpec == Spec /\ Fairness

-----------------------------------------------------------------------------
(* Safety.                                                                 *)

\* The server sees whole frames: between the first and the last byte of a frame
\* the pipe takes no byte of another, and after a frame torn by a cancellation
\* or an error it takes nothing at all.  writeFrameLocked gives up on a frame
\* while its goroutine may still be writing, so this rests on abort running
\* before the gate is released.
FramesContiguous ==
  \A i \in 1..Len(wire) :
    IF wire[i][2] = "head"
      THEN i = Len(wire) \/ wire[i + 1] = <<wire[i][1], "tail">>
      ELSE i > 1 /\ wire[i - 1] = <<wire[i][1], "head">>

\* The requests an actor has taken and not yet completed.
Held(a) == {t[1] : t \in taken[a]}

\* Every request that is out of the table and unanswered is in the hands of
\* exactly one goroutine that will complete it, so that no waiter in
\* waitPending is lost and none is completed twice: what pending, the taken
\* sets and the results partition.
OneOwner ==
  /\ \A r \in Requests :
       rpc[r] # "idle" /\ result[r] = "none" =>
         r \in pending \/ \E a \in Actors : r \in Held(a)
  /\ \A r \in pending : result[r] = "none" /\ \A a \in Actors : r \notin Held(a)
  /\ \A a, b \in Actors : \A r \in Held(a) :
       result[r] = "none" /\ (a # b => r \notin Held(b))

\* A connection that is closed or aborted keeps no request: register and
\* beginClose cannot add one behind the drain.
TerminalIsDrained == state \in {"closed", "aborted"} => pending = {}

\* After the shutdown frame the server gets nothing but the refusals of its own
\* requests and exit, and exit never without shutdown.
ShutdownOrder ==
  \A i \in 1..Len(wire) :
    /\ wire[i][1] = Shutdown =>
         \A j \in i..Len(wire) : wire[j][1] \in ReplyMsgs \cup {Shutdown, Exit}
    /\ wire[i][1] = Exit => \E j \in 1..i : wire[j] = <<Shutdown, "tail">>

\* $/cancelRequest goes out only for a call that is whole on the wire before it
\* and whose caller got its own cancellation rather than an answer.
CancelFollowsCall ==
  \A i \in 1..Len(wire) : wire[i][1] \in CancelMsgs =>
    LET r == <<"call", wire[i][1][2]>> IN
      /\ result[r] = "canceled"
      /\ \E j \in 1..i : wire[j] = <<r, "tail">>

\* What a sender is told of its write is true of the wire: a message reported as
\* dispatched is whole, an answer reaches only a request that is, and a write
\* that failed after its first byte leaves no usable connection, so that a sender
\* may take a failed notification for one the server never acted on.
OutcomeIsTrue ==
  \A m \in Messages :
    /\ wpc[m] = "ok" \/ (m \in Requests /\ result[m] = "message") =>
         \E i \in 1..Len(wire) : wire[i] = <<m, "tail">>
    /\ wpc[m] = "fail" /\ (\E i \in 1..Len(wire) : wire[i][1] = m) => state = "aborted"

\* No waiter is lost: a request has one owner while the connection lives, and none
\* is left in the table of a connection that does not.
NoRequestLost == OneOwner /\ TerminalIsDrained

(* What the transport promises its callers.                                *)

\* What the caller of writeMessage was told, and the caller of call.
Told(m) ==
  CASE wpc[m] = "ok" -> "sent"
    [] wpc[m] = "fail" /\ io[m] = "none" -> "refused"
    [] wpc[m] = "fail" /\ io[m] # "none" -> "torn"
    [] OTHER -> "none"

Replied(m) ==
  IF m \notin Requests THEN "none"
    ELSE IF result[m] \in Causes THEN "error" ELSE result[m]

Conn == INSTANCE Connection WITH
          usable <- state = "open",
          ended  <- {m \in Messages : CtxOf(m) \in expired},
          whole  <- {m \in Messages : \E i \in 1..Len(wire) : wire[i] = <<m, "tail">>},
          told   <- [m \in Messages |-> Told(m)],
          reply  <- [m \in Messages |-> Replied(m)]

\* The gate, the abort before the unlock, the pending table and the reader give
\* every sender a connection that tells the truth: nothing that was refused is
\* written later, a message is written once, and a doubtful write or an
\* unexplained error means that the connection is gone.
ImplementsConnection == Conn!Spec

(* Liveness.                                                               *)

\* A caller whose context ends gets its call back, even when the server has
\* stopped reading and another goroutine is completing the request.
CanceledCallReturns ==
  \A r \in CallMsgs : rpc[r] # "idle" /\ r \in expired ~> rpc[r] = "done"

\* Close always returns, without any help from the server.
CloseReturns == closer = "lock" ~> closer = "returned"

=============================================================================
