------------------------------ MODULE OpenFiles ------------------------------
(***************************************************************************)
(* Opening a file at most once (provider.go, finite_work.go): concurrent   *)
(* calls of prepareOpen elect one opener per file through the openFiles    *)
(* table; it reads the file and sends textDocument/didOpen, and the others *)
(* wait for its transition, take its outcome, or try again when all that   *)
(* failed was the opener's own context.                                    *)
(*                                                                         *)
(* A step is one critical section of openMu, one channel operation, one    *)
(* check of a context or of the connection, or one I/O operation.  The     *)
(* connection is any that keeps the contract of module Connection, which   *)
(* Transport implements: a didOpen is one of its messages.  A caller that  *)
(* is elected returns when its transition is over, so a transition and its *)
(* didOpen are named by their opener.                                      *)
(***************************************************************************)
EXTENDS Naturals, Sequences

CONSTANTS Callers,      \* the calls of prepareOpen
          Files,        \* canonical paths
          FileOf,       \* the file each call is about
          Texts,        \* what a file may hold
          None          \* no transition

ASSUME FileOfAssumption == FileOf \in [Callers -> Files]
ASSUME NoneAssumption == None \notin Callers
ASSUME TextsAssumption == Texts \cap {"none", "running", "failed"} = {}

VARIABLES
  pc,         \* where ensureOpen is, for each call
  canceled,   \* the calls whose context has ended
  open,       \* the transport is open (its unavailable channel is not closed)
  openFiles,  \* Provider.openFiles: the opener of each file's transition
  waitsFor,   \* the transition a call found in the table
  done,       \* transitions whose done channel is closed
  outcome,    \* openTransition.err and retryable, by opener
  text,       \* what the opener read; with a nil error, openTransition.source
  err,        \* the error a call has in hand
  work,       \* runFiniteWork's goroutine and its result, while somebody waits
  told,       \* what notify returned to each opener
  wire        \* the didOpen notifications the server received: <<opener, text>>

callVars  == <<pc, err>>
connVars  == <<open, told, wire>>
tableVars == <<openFiles, waitsFor>>
transVars == <<done, outcome, text>>
vars == <<callVars, canceled, connVars, tableVars, transVars, work>>

\* The openers whose didOpen the server has.
Received == {wire[i][1] : i \in 1..Len(wire)}

Conn == INSTANCE Connection WITH
          Messages <- Callers, usable <- open, ended <- canceled, whole <- Received,
          reply <- [c \in Callers |-> "none"]

Errors   == {"canceled", "connection", "file"}

\* Type correctness of the table, its transitions and the calls.
TypeOK ==
  /\ pc \in [Callers -> {"idle", "elect", "wait", "read", "reading", "notify",
                         "writing", "judge", "publish", "returned"}]
  /\ canceled \subseteq Callers
  /\ open \in BOOLEAN
  /\ openFiles \in [Files -> Callers \cup {None}]
  /\ waitsFor \in [Callers -> Callers \cup {None}]
  /\ done \subseteq Callers
  /\ outcome \in [Callers -> {"none", "ok", "error", "retryable"}]
  /\ text \in [Callers -> Texts \cup {"none"}]
  /\ err \in [Callers -> Errors \cup {"none", "nil"}]
  /\ work \in [Callers -> Texts \cup {"none", "running", "failed"}]
  /\ told \in [Callers -> {"none", "sent", "refused", "torn"}]
  /\ wire \in Seq(Callers \X Texts)

Init ==
  /\ pc = [c \in Callers |-> "idle"]
  /\ canceled = {} /\ open = TRUE
  /\ openFiles = [f \in Files |-> None]
  /\ waitsFor = [c \in Callers |-> None]
  /\ done = {} /\ outcome = [c \in Callers |-> "none"]
  /\ text = [c \in Callers |-> "none"]
  /\ err = [c \in Callers |-> "none"]
  /\ work = [c \in Callers |-> "none"]
  /\ told = [c \in Callers |-> "none"] /\ wire = <<>>

-----------------------------------------------------------------------------

goto(c, l) == pc' = [pc EXCEPT ![c] = l]
return(c, e) == goto(c, "returned") /\ err' = [err EXCEPT ![c] = e]

\* prepareOpen, and the head of the loop of ensureOpen: a context that has
\* ended returns.
StartOpen(c) ==
  /\ pc[c] = "idle"
  /\ IF c \in canceled THEN return(c, "canceled") ELSE goto(c, "elect") /\ UNCHANGED err
  /\ UNCHANGED <<connVars, tableVars, transVars, work>>

\* Mutant: the lookup and the insertion are not one critical section.
ElectAlways(c) ==
  /\ pc[c] = "elect"
  /\ openFiles' = [openFiles EXCEPT ![FileOf[c]] = c]
  /\ goto(c, "read")
  /\ UNCHANGED <<err, waitsFor, connVars, transVars, work>>

\* The critical section of openMu that finds or inserts the transition.
Elect(c) ==
  /\ pc[c] = "elect"
  /\ IF openFiles[FileOf[c]] = None
       THEN /\ openFiles' = [openFiles EXCEPT ![FileOf[c]] = c]
            /\ goto(c, "read")
            /\ UNCHANGED waitsFor
       ELSE /\ waitsFor' = [waitsFor EXCEPT ![c] = openFiles[FileOf[c]]]
            /\ goto(c, "wait")
            /\ UNCHANGED openFiles
  /\ UNCHANGED <<err, connVars, transVars, work>>

\* Mutant: a file that is in the table counts as open.
AwaitNothing(c) ==
  /\ pc[c] = "wait"
  /\ IF waitsFor[c] \in done THEN return(c, err[waitsFor[c]]) ELSE return(c, "nil")
  /\ UNCHANGED <<connVars, tableVars, transVars, work>>

\* Mutant: a waiter takes the error of a transition that may be retried.
AwaitTransitionOnce(c) ==
  /\ pc[c] = "wait"
  /\ \/ waitsFor[c] \in done /\ return(c, err[waitsFor[c]])
     \/ c \in canceled /\ return(c, "canceled")
  /\ UNCHANGED <<connVars, tableVars, transVars, work>>

\* Mutant: a waiter does not look at its own context.
AwaitTransitionOnly(c) ==
  /\ pc[c] = "wait"
  /\ waitsFor[c] \in done
  /\ IF outcome[waitsFor[c]] = "retryable"
       THEN goto(c, "idle") /\ UNCHANGED err
       ELSE return(c, err[waitsFor[c]])
  /\ UNCHANGED <<connVars, tableVars, transVars, work>>

\* The select of a waiter: a retryable transition sends it back to the head of
\* the loop, any other gives it its error.
AwaitTransition(c) ==
  /\ pc[c] = "wait"
  /\ \/ /\ waitsFor[c] \in done
        /\ IF outcome[waitsFor[c]] = "retryable"
             THEN goto(c, "idle") /\ UNCHANGED err
             ELSE return(c, err[waitsFor[c]])
     \/ c \in canceled /\ return(c, "canceled")
  /\ UNCHANGED <<connVars, tableVars, transVars, work>>

\* openFile has failed with e, or not; retryableOpenError is next.
fail(c, e) == goto(c, "judge") /\ err' = [err EXCEPT ![c] = e]

\* finiteWorkCancellation: the caller's context first, then the connection.
interrupted(c) ==
  \/ c \in canceled /\ fail(c, "canceled")
  \/ c \notin canceled /\ ~open /\ fail(c, "connection")

\* readFileContext starts its goroutine unless it is interrupted already.
StartRead(c) ==
  /\ pc[c] = "read"
  /\ \/ interrupted(c) /\ UNCHANGED work
     \/ /\ c \notin canceled /\ open
        /\ goto(c, "reading") /\ work' = [work EXCEPT ![c] = "running"]
        /\ UNCHANGED err
  /\ UNCHANGED <<connVars, tableVars, transVars>>

\* The goroutine: os.ReadFile returns.  The file may change at any time, so that
\* two reads may give any two texts.
ReadFile(c) ==
  /\ work[c] = "running"
  /\ \E w \in Texts \cup {"failed"} : work' = [work EXCEPT ![c] = w]
  /\ UNCHANGED <<callVars, canceled, connVars, tableVars, transVars>>

\* runFiniteWork returns: an interruption wins over a result that is there, and
\* leaves the goroutine to a channel that nobody reads.
FinishRead(c) ==
  /\ pc[c] = "reading"
  /\ work' = [work EXCEPT ![c] = "none"]
  /\ \/ interrupted(c) /\ UNCHANGED text
     \/ /\ c \notin canceled /\ open /\ work[c] \notin {"none", "running"}
        /\ IF work[c] = "failed"
             THEN fail(c, "file") /\ UNCHANGED text
             ELSE /\ text' = [text EXCEPT ![c] = work[c]]
                  /\ goto(c, "notify") /\ UNCHANGED err
  /\ UNCHANGED <<connVars, tableVars, done, outcome>>

\* notify: writeMessage refuses a context that has ended.
StartNotify(c) ==
  /\ pc[c] = "notify"
  /\ UNCHANGED <<open, wire, tableVars, transVars, work>>
  /\ IF c \in canceled
       THEN Conn!Return(c, "refused") /\ fail(c, "canceled")
       ELSE goto(c, "writing") /\ UNCHANGED <<err, told>>

\* notify returns what the connection may say of the write: nil for a didOpen the
\* server has, else the error of the context or of the connection.
Notify(c) ==
  /\ pc[c] = "writing"
  /\ UNCHANGED <<open, wire, tableVars, transVars, work>>
  /\ \E r \in Conn!Truth(c) :
       /\ Conn!Return(c, r)
       /\ IF r = "sent"
            THEN goto(c, "publish") /\ err' = [err EXCEPT ![c] = "nil"]
            ELSE \/ c \in canceled /\ fail(c, "canceled")
                 \/ ~open /\ fail(c, "connection")

\* retryableOpenError: the opener's own context ended, and the connection is
\* open.
retryable(c) == c \in canceled /\ err[c] = "canceled" /\ open

Judge(c) ==
  /\ pc[c] = "judge"
  /\ goto(c, "publish")
  /\ outcome' = [outcome EXCEPT ![c] = IF retryable(c) THEN "retryable" ELSE "error"]
  /\ UNCHANGED <<err, connVars, tableVars, done, text, work>>

\* Mutant: the source that is kept is read from the file again.
PublishRereads(c) ==
  /\ pc[c] = "publish"
  /\ outcome' = [outcome EXCEPT ![c] = IF err[c] = "nil" THEN "ok" ELSE @]
  /\ \E t \in Texts : text' = [text EXCEPT ![c] = IF err[c] = "nil" THEN t ELSE @]
  /\ openFiles' = IF err[c] = "nil" THEN openFiles
                                    ELSE [openFiles EXCEPT ![FileOf[c]] = None]
  /\ done' = done \cup {c}
  /\ goto(c, "returned")
  /\ UNCHANGED <<err, connVars, waitsFor, work>>

\* The last critical section: the transition gets its fields, a failed one
\* leaves the table, and done is closed.
Publish(c) ==
  /\ pc[c] = "publish"
  /\ outcome' = [outcome EXCEPT ![c] = IF err[c] = "nil" THEN "ok" ELSE @]
  /\ openFiles' = IF err[c] = "nil" THEN openFiles
                                    ELSE [openFiles EXCEPT ![FileOf[c]] = None]
  /\ done' = done \cup {c}
  /\ goto(c, "returned")
  /\ UNCHANGED <<err, text, connVars, waitsFor, work>>

ensureOpen(c) ==
  /\ \/ StartOpen(c) \/ Elect(c) \/ AwaitTransition(c) \/ StartRead(c)
     \/ FinishRead(c) \/ StartNotify(c) \/ Notify(c) \/ Judge(c) \/ Publish(c)
  /\ UNCHANGED canceled

\* openedSource: the text of a file as the server has it, if it is open.
openedSource(f) ==
  IF openFiles[f] \in done /\ err[openFiles[f]] = "nil"
    THEN text[openFiles[f]] ELSE "none"

-----------------------------------------------------------------------------
(* The environment.                                                        *)

\* A caller gives up, or its operation budget ends.
Cancel(c) ==
  /\ c \notin canceled /\ pc[c] # "returned"
  /\ canceled' = canceled \cup {c}
  /\ UNCHANGED <<callVars, connVars, tableVars, transVars, work>>

\* The connection at work: it closes or aborts; or a didOpen is out, perhaps long
\* after its opener has given it up for torn.
ConnectionLost ==
  /\ UNCHANGED <<callVars, canceled, wire, tableVars, transVars, work>>
  /\ Conn!Lose

WriteDidOpen(c) ==
  /\ pc[c] = "writing" \/ told[c] = "torn"
  /\ wire' = Append(wire, <<c, text[c]>>)
  /\ Conn!Write(c)
  /\ UNCHANGED <<callVars, tableVars, transVars, work>>

Next ==
  \/ \E c \in Callers : ensureOpen(c) \/ ReadFile(c) \/ Cancel(c) \/ WriteDidOpen(c)
  \/ ConnectionLost

\* The calls are scheduled, and notify returns once it may.  A read of the file or
\* a write may never return, and a caller may wait for ever.
Fairness == \A c \in Callers : WF_vars(ensureOpen(c))

Spec == Init /\ [][Next]_vars
FairSpec == Spec /\ Fairness

-----------------------------------------------------------------------------
(* Safety.                                                                 *)

\* The server has one text of a file, however the openers' contexts, the retries
\* of the waiters, the connection and the file's writers race: one didOpen, and
\* what openedSource hands to the signature code is the text it carried.
OneText ==
  /\ \A i, j \in 1..Len(wire) : FileOf[wire[i][1]] = FileOf[wire[j][1]] => i = j
  /\ \A f \in Files : openedSource(f) # "none" =>
       \E i \in 1..Len(wire) : FileOf[wire[i][1]] = f /\ wire[i][2] = openedSource(f)

\* A call that may go on to its request knows that the server has its file, no
\* waiter overtakes the opener; and a live caller does not fail with the
\* cancellation of the opener it waited for while the connection is usable.
OutcomeIsTrue ==
  \A c \in Callers : pc[c] = "returned" =>
    /\ err[c] = "nil" => \E i \in 1..Len(wire) : FileOf[wire[i][1]] = FileOf[c]
    /\ err[c] = "canceled" => c \in canceled \/ ~open

(* Liveness.                                                               *)

\* A call whose context ends returns, although the opener it waits for hangs
\* in a read of the file and although it may be sent back to the loop.
CanceledOpenReturns ==
  \A c \in Callers : c \in canceled ~> pc[c] = "returned"
=============================================================================
