-------------------------- MODULE OpenFilesProofs ---------------------------
(***************************************************************************)
(* Proofs about OpenFiles, for any number of calls, files and texts and    *)
(* for any connection that keeps the contract of Connection: the server    *)
(* has one text of each file, and what a call returns is true.             *)
(*                                                                         *)
(* A didOpen that tore may reach the server after its file has left the    *)
(* table; what keeps a second one from being sent is that the connection   *)
(* is gone by then.  So the table and the wire agree only while the        *)
(* connection is open, and at most one opener of a file is ever in a       *)
(* position to have its didOpen received.                                  *)
(***************************************************************************)
EXTENDS OpenFiles, TLAPS

Opening == {"read", "reading", "notify", "writing", "judge", "publish"}

-----------------------------------------------------------------------------
(* The invariant.                                                          *)

\* The opener of a file is in the table, and a waiter waits for one of its file.
TableInv ==
  /\ \A c \in Callers : pc[c] \in Opening => openFiles[FileOf[c]] = c
  /\ \A f \in Files : openFiles[f] # None =>
       FileOf[openFiles[f]] = f /\ pc[openFiles[f]] \in Opening \cup {"returned"}
  /\ \A c \in Callers : waitsFor[c] # None => FileOf[waitsFor[c]] = FileOf[c]
  /\ \A c \in done : pc[c] = "returned"
  /\ \A c \in Callers : pc[c] = "wait" => waitsFor[c] # None

\* The error of an opener is its own: a cancellation that it publishes as final
\* has found the connection gone.
ErrInv ==
  \A c \in Callers :
    /\ pc[c] = "judge" => err[c] # "nil" /\ (err[c] = "canceled" => c \in canceled)
    /\ (pc[c] = "publish" \/ c \in done) /\ err[c] = "canceled" =>
         outcome[c] = "retryable" \/ ~open
    /\ err[c] = "canceled" => c \in canceled \/ ~open
    /\ err[c] = "nil" => pc[c] \in {"publish", "returned"}

\* What an opener was told of its didOpen, and where it is then.
ToldInv ==
  \A c \in Callers :
    /\ pc[c] \in {"idle", "elect", "wait", "read", "reading", "notify", "writing"} =>
         told[c] = "none"
    /\ told[c] = "sent" => err[c] = "nil"
    /\ told[c] = "torn" => ~open
    /\ pc[c] \in {"notify", "writing"} \/ told[c] = "torn" => text[c] \in Texts
    /\ c \in Received => told[c] \in {"sent", "torn"} \/ pc[c] = "writing"

\* A call that was told so has its file on the wire, by its own didOpen if it is
\* the opener in the table.
SentInv ==
  \A c \in Callers : err[c] = "nil" =>
    /\ \E d \in Received : FileOf[d] = FileOf[c]
    /\ openFiles[FileOf[c]] = c => c \in Received

\* The didOpen of c is on the wire or may still get there.
Engaged(c) ==
  c \in Received \/ told[c] = "torn" \/ pc[c] \in {"reading", "notify", "writing"}

\* One opener of a file is engaged; while the connection is open, an opener that
\* the server has heard of is in the table; and the wire has the opener's text.
WireInv ==
  /\ \A c, d \in Callers : FileOf[c] = FileOf[d] /\ Engaged(c) /\ Engaged(d) => c = d
  /\ open => \A c \in Received : openFiles[FileOf[c]] = c
  /\ \A i, j \in 1..Len(wire) : wire[i][1] = wire[j][1] => i = j
  /\ \A i \in 1..Len(wire) : wire[i][2] = text[wire[i][1]]

Inv == TypeOK /\ TableInv /\ ErrInv /\ ToldInv /\ SentInv /\ WireInv

LEMMA InitInv == Init => Inv
<1> SUFFICES ASSUME Init PROVE Inv
  OBVIOUS
<1>1. TypeOK
  BY DEF Init, TypeOK
<1>2. Received = {}
  BY DEF Init, Received
<1>3. TableInv /\ ErrInv /\ ToldInv /\ SentInv /\ WireInv
  BY <1>2 DEF Init, TableInv, ErrInv, ToldInv, SentInv, WireInv, Engaged, Opening
<1> QED BY <1>1, <1>3 DEF Inv

\* What the server has received comes from openers.
LEMMA Openers ==
  ASSUME TypeOK
  PROVE  /\ Received \subseteq Callers
         /\ \A i \in 1..Len(wire) : wire[i][1] \in Received /\ wire[i][2] \in Texts
         /\ \A c \in Received : \E i \in 1..Len(wire) : wire[i][1] = c
BY DEF TypeOK, Received

\* A step of a call that is not engaged, or that stays so, leaves the wire and what
\* was told of it in agreement.
LEMMA WireKept ==
  ASSUME Inv, NEW c \in Callers, UNCHANGED <<open, openFiles, wire>>,
         c \notin Received, told[c] # "torn", told'[c] \in {told[c], "refused"}, err'[c] # "nil",
         told[c] # "sent",
         Engaged(c)' => Engaged(c) \/ (open /\ openFiles[FileOf[c]] = c /\ told[c] = "none"),
         pc'[c] \in {"idle", "elect", "wait", "read", "reading", "notify", "writing"} =>
           told'[c] = "none",
         pc'[c] \in {"notify", "writing"} => text'[c] \in Texts,
         \A d \in Callers \ {c} : /\ pc'[d] = pc[d] /\ err'[d] = err[d]
                                  /\ text'[d] = text[d] /\ told'[d] = told[d]
  PROVE  ToldInv' /\ SentInv' /\ WireInv'
<1> USE FileOfAssumption
<1>1. Received' = Received /\ Received \subseteq Callers
  BY Openers DEF Received, Inv
<1>2. ToldInv'
  BY <1>1 DEF Inv, ToldInv
<1>3. SentInv'
  BY <1>1 DEF Inv, SentInv
<1>4. \A d \in Callers \ {c} : Engaged(d)' = Engaged(d)
  BY <1>1 DEF Engaged
<1>5. ASSUME NEW d \in Callers \ {c}, FileOf[c] = FileOf[d], Engaged(c)', Engaged(d)
      PROVE  FALSE
  <2>1. CASE Engaged(c)
    BY <1>5, <2>1 DEF Inv, WireInv
  <2>2. CASE open /\ openFiles[FileOf[c]] = c
    <3>1. d \notin Received
      BY <1>5, <2>2 DEF Inv, WireInv
    <3>2. told[d] # "torn"
      BY <2>2 DEF Inv, ToldInv
    <3>3. pc[d] \notin {"reading", "notify", "writing"}
      BY <1>5, <2>2 DEF Inv, TableInv, Opening
    <3> QED BY <1>5, <3>1, <3>2, <3>3 DEF Engaged
  <2> QED BY <1>5, <2>1, <2>2
<1>6. \A a, b \in Callers : FileOf[a] = FileOf[b] /\ Engaged(a)' /\ Engaged(b)' => a = b
  BY <1>4, <1>5 DEF Inv, WireInv
<1>7. \A i \in 1..Len(wire) : wire[i][2] = text'[wire[i][1]]
  BY <1>1, Openers DEF Inv, WireInv
<1> QED BY <1>1, <1>2, <1>3, <1>6, <1>7 DEF Inv, WireInv

-----------------------------------------------------------------------------
(* The steps of a call that leave the wire alone.                          *)

\* The context is looked at before the table.
LEMMA StartOpenStep ==
  ASSUME Inv, NEW c \in Callers, StartOpen(c), UNCHANGED canceled
  PROVE  Inv'
<1> USE FileOfAssumption, NoneAssumption
<1>1. TypeOK'
  BY DEF StartOpen, goto, return, Inv, TypeOK, Errors, tableVars, transVars, connVars
<1>2. TableInv'
  BY DEF StartOpen, goto, return, Inv, TypeOK, TableInv, Opening, tableVars, transVars
<1>3. ErrInv'
  BY DEF StartOpen, goto, return, Inv, TypeOK, TableInv, ErrInv, tableVars, transVars, connVars
<1>4. /\ UNCHANGED <<open, openFiles, wire>>
      /\ \A d \in Callers \ {c} : /\ pc'[d] = pc[d] /\ err'[d] = err[d]
                                  /\ text'[d] = text[d] /\ told'[d] = told[d]
  BY DEF StartOpen, goto, return, Inv, TypeOK, tableVars, transVars, connVars
<1>5. c \notin Received /\ told[c] = "none"
  BY DEF StartOpen, Inv, ToldInv
<1>6. Engaged(c)' => Engaged(c) \/ (open /\ openFiles[FileOf[c]] = c)
  BY <1>4, <1>5 DEF StartOpen, goto, return, Inv, TypeOK, TableInv, Opening, Engaged, Received, tableVars, transVars, connVars
<1>7. /\ told'[c] \in {told[c], "refused"} /\ err'[c] # "nil"
      /\ pc'[c] \in {"idle", "elect", "wait", "read", "reading", "notify", "writing"} =>
           told'[c] = "none"
      /\ pc'[c] \in {"notify", "writing"} => text'[c] \in Texts
  BY <1>5 DEF StartOpen, goto, return, Inv, TypeOK, ErrInv, ToldInv, tableVars, transVars, connVars
<1>8. ToldInv' /\ SentInv' /\ WireInv'
  BY <1>4, <1>5, <1>6, <1>7, WireKept
<1> QED BY <1>1, <1>2, <1>3, <1>8 DEF Inv

\* The opener starts to read: on a connection that is still open, it is the only one
\* engaged.
LEMMA StartReadStep ==
  ASSUME Inv, NEW c \in Callers, StartRead(c), UNCHANGED canceled
  PROVE  Inv'
<1> USE FileOfAssumption, NoneAssumption
<1>1. TypeOK'
  BY DEF StartRead, goto, interrupted, fail, Inv, TypeOK, Errors, tableVars, transVars, connVars
<1>2. TableInv'
  BY DEF StartRead, goto, interrupted, fail, Inv, TypeOK, TableInv, Opening, tableVars, transVars
<1>3. ErrInv'
  BY DEF StartRead, goto, interrupted, fail, Inv, TypeOK, TableInv, ErrInv, tableVars, transVars, connVars
<1>4. /\ UNCHANGED <<open, openFiles, wire>>
      /\ \A d \in Callers \ {c} : /\ pc'[d] = pc[d] /\ err'[d] = err[d]
                                  /\ text'[d] = text[d] /\ told'[d] = told[d]
  BY DEF StartRead, goto, interrupted, fail, Inv, TypeOK, tableVars, transVars, connVars
<1>5. c \notin Received /\ told[c] = "none"
  BY DEF StartRead, Inv, ToldInv
<1>6. Engaged(c)' => Engaged(c) \/ (open /\ openFiles[FileOf[c]] = c)
  BY <1>4, <1>5 DEF StartRead, goto, interrupted, fail, Inv, TypeOK, TableInv, Opening, Engaged, Received, tableVars, transVars, connVars
<1>7. /\ told'[c] \in {told[c], "refused"} /\ err'[c] # "nil"
      /\ pc'[c] \in {"idle", "elect", "wait", "read", "reading", "notify", "writing"} =>
           told'[c] = "none"
      /\ pc'[c] \in {"notify", "writing"} => text'[c] \in Texts
  BY <1>5 DEF StartRead, goto, interrupted, fail, Inv, TypeOK, ErrInv, ToldInv, tableVars, transVars, connVars
<1>8. ToldInv' /\ SentInv' /\ WireInv'
  BY <1>4, <1>5, <1>6, <1>7, WireKept
<1> QED BY <1>1, <1>2, <1>3, <1>8 DEF Inv

\* What was read is kept by the opener.
LEMMA FinishReadStep ==
  ASSUME Inv, NEW c \in Callers, FinishRead(c), UNCHANGED canceled
  PROVE  Inv'
<1> USE FileOfAssumption, NoneAssumption
<1>0. /\ pc[c] = "reading" /\ TypeOK /\ TableInv /\ ErrInv
      /\ UNCHANGED <<open, told, openFiles, waitsFor, done, outcome, wire>>
      /\ work' = [work EXCEPT ![c] = "none"]
  BY DEF FinishRead, tableVars, connVars, Inv
<1>a. \/ interrupted(c) /\ text' = text
      \/ fail(c, "file") /\ text' = text
      \/ /\ open /\ goto(c, "notify") /\ err' = err
         /\ \E t \in Texts : text' = [text EXCEPT ![c] = t]
  <2>1. work[c] \in Texts \cup {"none", "running", "failed"}
    BY <1>0 DEF TypeOK
  <2> QED BY <2>1 DEF FinishRead
<1>b. PICK l \in {"judge", "notify"} : pc' = [pc EXCEPT ![c] = l]
  BY <1>a DEF interrupted, fail, goto
<1>c. /\ pc' \in [Callers -> {"idle", "elect", "wait", "read", "reading", "notify", "writing",
                              "judge", "publish", "returned"}]
      /\ pc'[c] = l /\ \A d \in Callers \ {c} : pc'[d] = pc[d]
  BY <1>0, <1>b DEF TypeOK
<1>d. /\ err' \in [Callers -> Errors \cup {"none", "nil"}]
      /\ \A d \in Callers \ {c} : err'[d] = err[d]
      /\ l = "judge" => err'[c] \in Errors /\ (err'[c] = "canceled" => c \in canceled)
      /\ l = "notify" => err'[c] = err[c]
  <2>1. CASE interrupted(c)
    BY <1>0, <1>c, <2>1 DEF interrupted, fail, goto, TypeOK, Errors
  <2>2. CASE fail(c, "file")
    BY <1>0, <1>c, <2>2 DEF fail, goto, TypeOK, Errors
  <2>3. CASE goto(c, "notify") /\ err' = err
    BY <1>0, <1>c, <2>3 DEF goto, TypeOK
  <2> QED BY <1>a, <2>1, <2>2, <2>3
<1>1. TypeOK'
  <2>1. text' \in [Callers -> Texts \cup {"none"}]
    BY <1>0, <1>a DEF TypeOK
  <2> QED BY <1>0, <1>c, <1>d, <2>1 DEF TypeOK
<1>2. TableInv'
  BY <1>0, <1>c DEF TypeOK, TableInv, Opening
<1>3. ErrInv'
  BY <1>0, <1>c, <1>d DEF TableInv, ErrInv, Errors
<1>4. \A d \in Callers \ {c} : /\ pc'[d] = pc[d] /\ err'[d] = err[d]
                               /\ text'[d] = text[d] /\ told'[d] = told[d]
  BY <1>0, <1>a DEF interrupted, fail, goto, TypeOK
<1>5. c \notin Received /\ told[c] = "none" /\ Engaged(c)
  BY <1>0 DEF Inv, ToldInv, Engaged
<1>6. /\ told'[c] = "none" /\ err'[c] # "nil"
      /\ pc'[c] \in {"notify", "writing"} => text'[c] \in Texts
  BY <1>0, <1>5, <1>a DEF interrupted, fail, goto, TypeOK, ErrInv
<1>7. ToldInv' /\ SentInv' /\ WireInv'
  BY <1>0, <1>4, <1>5, <1>6, WireKept
<1> QED BY <1>1, <1>2, <1>3, <1>7 DEF Inv

\* The last look at the context before the write.
LEMMA StartNotifyStep ==
  ASSUME Inv, NEW c \in Callers, StartNotify(c), UNCHANGED canceled
  PROVE  Inv'
<1> USE FileOfAssumption, NoneAssumption
<1>0. /\ pc[c] = "notify" /\ TypeOK /\ TableInv /\ ErrInv
      /\ UNCHANGED <<open, text, openFiles, waitsFor, done, outcome, wire, work>>
  BY DEF StartNotify, tableVars, transVars, Inv
<1>a. \/ /\ c \in canceled /\ pc' = [pc EXCEPT ![c] = "judge"]
         /\ err' = [err EXCEPT ![c] = "canceled"] /\ told' = [told EXCEPT ![c] = "refused"]
      \/ pc' = [pc EXCEPT ![c] = "writing"] /\ UNCHANGED <<err, told>>
  BY DEF StartNotify, fail, goto, Conn!Return
<1>1. TypeOK'
  BY <1>0, <1>a DEF TypeOK, Errors
<1>2. TableInv'
  <2>1. pc'[c] \in {"judge", "writing"} /\ \A d \in Callers \ {c} : pc'[d] = pc[d]
    BY <1>0, <1>a DEF TypeOK
  <2> QED BY <1>0, <2>1 DEF TypeOK, TableInv, Opening
<1>3. ErrInv'
  BY <1>0, <1>a DEF TypeOK, TableInv, ErrInv
<1>4. \A d \in Callers \ {c} : /\ pc'[d] = pc[d] /\ err'[d] = err[d]
                               /\ text'[d] = text[d] /\ told'[d] = told[d]
  BY <1>0, <1>a DEF TypeOK
<1>5. c \notin Received /\ told[c] = "none" /\ Engaged(c) /\ text[c] \in Texts
  BY <1>0 DEF Inv, ToldInv, Engaged
<1>6. /\ told'[c] \in {"none", "refused"} /\ err'[c] # "nil"
      /\ pc'[c] \in {"idle", "elect", "wait", "read", "reading", "notify", "writing"} =>
           told'[c] = "none"
  BY <1>0, <1>5, <1>a DEF TypeOK, ErrInv
<1>7. ToldInv' /\ SentInv' /\ WireInv'
  BY <1>0, <1>4, <1>5, <1>6, WireKept
<1> QED BY <1>1, <1>2, <1>3, <1>7 DEF Inv

\* A cancellation is final only without a connection.
LEMMA JudgeStep ==
  ASSUME Inv, NEW c \in Callers, Judge(c), UNCHANGED canceled
  PROVE  Inv'
<1> USE FileOfAssumption, NoneAssumption
<1>0. /\ pc[c] = "judge" /\ pc' = [pc EXCEPT ![c] = "publish"]
      /\ UNCHANGED <<err, open, told, wire, openFiles, waitsFor, done, text, work>>
      /\ TypeOK /\ TableInv /\ ErrInv /\ ToldInv /\ SentInv /\ WireInv
  BY DEF Judge, goto, connVars, tableVars, Inv
<1>1. TypeOK'
  BY <1>0 DEF Judge, TypeOK
<1>2. TableInv'
  BY <1>0 DEF TypeOK, TableInv, Opening
<1>3. ErrInv'
  BY <1>0 DEF Judge, retryable, TypeOK, TableInv, ErrInv
<1>4. UNCHANGED Received
  BY <1>0 DEF Received
<1>5. ToldInv'
  BY <1>0, <1>4 DEF TypeOK, ToldInv
<1>6. SentInv'
  BY <1>0, <1>4 DEF SentInv
<1>7. \A d \in Callers : Engaged(d)' = Engaged(d)
  BY <1>0, <1>4 DEF TypeOK, Engaged
<1>8. WireInv'
  BY <1>0, <1>4, <1>7 DEF WireInv
<1> QED BY <1>1, <1>2, <1>3, <1>5, <1>6, <1>8 DEF Inv

\* The lookup and the insertion are one step, so that no two calls are elected
\* for a file, and none is for a file that the server has.
LEMMA ElectStep ==
  ASSUME Inv, NEW c \in Callers, Elect(c), UNCHANGED canceled
  PROVE  Inv'
<1> USE FileOfAssumption, NoneAssumption
<1> DEFINE f == FileOf[c]
<1>1. /\ pc[c] = "elect" /\ err[c] # "nil" /\ f \in Files
      /\ UNCHANGED <<err, open, told, done, outcome, text, work, wire>>
  BY DEF Elect, transVars, connVars, Inv, ErrInv
<1>2. TypeOK /\ TableInv /\ ErrInv /\ ToldInv /\ SentInv /\ WireInv
  BY DEF Inv
<1>3. CASE openFiles[f] = None
  <2>1. /\ openFiles' = [openFiles EXCEPT ![f] = c] /\ pc' = [pc EXCEPT ![c] = "read"]
        /\ waitsFor' = waitsFor
    BY <1>3 DEF Elect, goto
  <2>2. TypeOK'
    BY <1>1, <1>2, <2>1 DEF TypeOK
  <2>3. TableInv'
    <3>1. ASSUME NEW d \in Callers, pc'[d] \in Opening PROVE openFiles'[FileOf[d]] = d
      BY <1>1, <1>2, <1>3, <2>1, <3>1 DEF TypeOK, TableInv, Opening
    <3>2. ASSUME NEW g \in Files, openFiles'[g] # None
          PROVE  FileOf[openFiles'[g]] = g /\ pc'[openFiles'[g]] \in Opening \cup {"returned"}
      BY <1>1, <1>2, <1>3, <2>1, <3>2 DEF TypeOK, TableInv, Opening
    <3> QED BY <1>1, <1>2, <2>1, <3>1, <3>2 DEF TableInv, TypeOK
  <2>4. ErrInv'
    BY <1>1, <1>2, <2>1 DEF ErrInv, TableInv, TypeOK
  <2>5. UNCHANGED Received /\ Received \subseteq Callers
    BY <1>1, <1>2, Openers DEF Received
  <2>6. ToldInv'
    BY <1>1, <1>2, <2>1, <2>5 DEF ToldInv, TypeOK
  <2>7. SentInv'
    BY <1>1, <1>2, <2>1, <2>5 DEF SentInv, TypeOK
  <2>8. \A d \in Callers : Engaged(d)' = Engaged(d)
    BY <1>1, <1>2, <2>1, <2>5 DEF Engaged, TypeOK
  <2>9. open => \A d \in Received : openFiles'[FileOf[d]] = d
    BY <1>2, <1>3, <2>1, <2>5 DEF WireInv, TypeOK
  <2>10. WireInv'
    BY <1>1, <1>2, <2>5, <2>8, <2>9 DEF WireInv
  <2> QED BY <2>2, <2>3, <2>4, <2>6, <2>7, <2>10 DEF Inv
<1>4. CASE openFiles[f] # None
  <2>1. /\ waitsFor' = [waitsFor EXCEPT ![c] = openFiles[f]] /\ pc' = [pc EXCEPT ![c] = "wait"]
        /\ openFiles' = openFiles
    BY <1>4 DEF Elect, goto
  <2>2. TypeOK'
    BY <1>1, <1>2, <2>1 DEF TypeOK
  <2>3. TableInv'
    BY <1>1, <1>2, <1>4, <2>1 DEF TypeOK, TableInv, Opening
  <2>4. ErrInv'
    BY <1>1, <1>2, <2>1 DEF ErrInv, TableInv, TypeOK
  <2>5. (\A d \in Callers \ {c} : pc'[d] = pc[d]) /\ pc'[c] = "wait"
    BY <1>2, <2>1 DEF TypeOK
  <2>6. c \notin Received /\ told[c] = "none"
    BY <1>1, <1>2 DEF ToldInv
  <2>7. Engaged(c)' => Engaged(c)
    BY <1>1, <2>5 DEF Engaged, Received
  <2>8. ToldInv' /\ SentInv' /\ WireInv'
    BY <1>1, <2>1, <2>5, <2>6, <2>7, WireKept
  <2> QED BY <2>2, <2>3, <2>4, <2>8 DEF Inv
<1> QED BY <1>3, <1>4

\* A waiter takes the outcome of an opener of its own file.
LEMMA AwaitStep ==
  ASSUME Inv, NEW c \in Callers, AwaitTransition(c), UNCHANGED canceled
  PROVE  Inv'
<1> USE FileOfAssumption, NoneAssumption
<1>1. /\ pc[c] = "wait"
      /\ UNCHANGED <<openFiles, waitsFor, open, told, done, outcome, text, work, wire>>
      /\ pc' \in {[pc EXCEPT ![c] = "idle"], [pc EXCEPT ![c] = "returned"]}
  BY DEF AwaitTransition, goto, return, tableVars, transVars, connVars
<1>2. TypeOK /\ TableInv /\ ErrInv /\ ToldInv /\ SentInv /\ WireInv
  BY DEF Inv
<1>3. /\ waitsFor[c] \in Callers /\ FileOf[waitsFor[c]] = FileOf[c]
      /\ openFiles[FileOf[c]] # c
  BY <1>1, <1>2 DEF TypeOK, TableInv, Opening
<1>4. \/ err' = err
      \/ /\ pc' = [pc EXCEPT ![c] = "returned"] /\ waitsFor[c] \in done
         /\ outcome[waitsFor[c]] # "retryable" /\ err' = [err EXCEPT ![c] = err[waitsFor[c]]]
      \/ /\ pc' = [pc EXCEPT ![c] = "returned"] /\ c \in canceled
         /\ err' = [err EXCEPT ![c] = "canceled"]
  BY DEF AwaitTransition, goto, return
<1>5. TypeOK'
  BY <1>1, <1>2, <1>3, <1>4 DEF TypeOK, Errors
<1>6. TableInv'
  <2>1. pc'[c] \in {"idle", "returned"} /\ \A d \in Callers \ {c} : pc'[d] = pc[d]
    BY <1>1, <1>2 DEF TypeOK
  <2> QED BY <1>1, <1>2, <1>3, <2>1 DEF TypeOK, TableInv, Opening
<1>7. ErrInv'
  BY <1>1, <1>2, <1>3, <1>4 DEF TypeOK, TableInv, ErrInv
<1>8. UNCHANGED Received /\ told[c] = "none" /\ c \notin Received
  BY <1>1, <1>2 DEF Received, ToldInv
<1>9. ToldInv'
  <2>1. \A d \in Callers \ {c} : err'[d] = err[d] /\ pc'[d] = pc[d]
    BY <1>1, <1>2, <1>4 DEF TypeOK
  <2>2. pc'[c] \in {"idle", "returned"}
    BY <1>1, <1>2 DEF TypeOK
  <2> QED BY <1>1, <1>2, <1>8, <2>1, <2>2 DEF ToldInv
<1>10. SentInv'
  <2>1. \A d \in Callers \ {c} : err'[d] = err[d]
    BY <1>2, <1>4 DEF TypeOK
  <2>2. err'[c] = "nil" => err[c] = "nil" \/ err[waitsFor[c]] = "nil"
    BY <1>2, <1>4 DEF TypeOK
  <2>3. err'[c] = "nil" => \E d \in Received : FileOf[d] = FileOf[c]
    BY <1>2, <1>3, <2>2 DEF SentInv
  <2> QED BY <1>1, <1>2, <1>3, <1>8, <2>1, <2>3 DEF SentInv
<1>11. WireInv'
  <2>1. \A d \in Callers : Engaged(d)' = Engaged(d)
    BY <1>1, <1>2, <1>8 DEF Engaged, TypeOK
  <2> QED BY <1>1, <1>2, <1>8, <2>1 DEF WireInv
<1> QED BY <1>5, <1>6, <1>7, <1>9, <1>10, <1>11 DEF Inv

\* A failed opener leaves the table; while the connection is open, its didOpen
\* has not reached the server and will not.
LEMMA PublishStep ==
  ASSUME Inv, NEW c \in Callers, Publish(c), UNCHANGED canceled
  PROVE  Inv'
<1> USE FileOfAssumption, NoneAssumption
<1> DEFINE f == FileOf[c]
<1>1. /\ pc[c] = "publish" /\ pc' = [pc EXCEPT ![c] = "returned"] /\ done' = done \cup {c}
      /\ UNCHANGED <<err, text, open, told, waitsFor, work, wire>>
      /\ outcome' = [outcome EXCEPT ![c] = IF err[c] = "nil" THEN "ok" ELSE @]
      /\ openFiles' = IF err[c] = "nil" THEN openFiles ELSE [openFiles EXCEPT ![f] = None]
  BY DEF Publish, goto, connVars
<1>2. TypeOK /\ TableInv /\ ErrInv /\ ToldInv /\ SentInv /\ WireInv
  BY DEF Inv
<1>3. openFiles[f] = c /\ f \in Files
  BY <1>1, <1>2 DEF TableInv, Opening
<1>4. TypeOK'
  BY <1>1, <1>2 DEF TypeOK
<1>5. TableInv'
  <2>1. ASSUME NEW d \in Callers, pc'[d] \in Opening PROVE openFiles'[FileOf[d]] = d
    BY <1>1, <1>2, <1>3, <2>1 DEF TypeOK, TableInv, Opening
  <2>2. ASSUME NEW g \in Files, openFiles'[g] # None
        PROVE  FileOf[openFiles'[g]] = g /\ pc'[openFiles'[g]] \in Opening \cup {"returned"}
    BY <1>1, <1>2, <2>2 DEF TypeOK, TableInv
  <2> QED BY <1>1, <1>2, <2>1, <2>2 DEF TableInv, TypeOK
<1>6. ErrInv'
  BY <1>1, <1>2 DEF TypeOK, TableInv, ErrInv
<1>7. UNCHANGED Received /\ Received \subseteq Callers
  BY <1>1, <1>2, Openers DEF Received
<1>8. ToldInv'
  BY <1>1, <1>2, <1>7 DEF TypeOK, ToldInv
<1>9. SentInv'
  BY <1>1, <1>2, <1>3, <1>7 DEF TypeOK, SentInv
<1>10. WireInv'
  <2>1. \A d \in Callers : Engaged(d)' = Engaged(d)
    BY <1>1, <1>2, <1>7 DEF Engaged, TypeOK
  <2>2. open /\ err[c] # "nil" => c \notin Received
    BY <1>1, <1>2 DEF ToldInv
  <2>3. open => \A d \in Received : openFiles'[FileOf[d]] = d
    BY <1>1, <1>2, <1>3, <1>7, <2>2 DEF WireInv, TypeOK
  <2> QED BY <1>1, <1>2, <1>7, <2>1, <2>3 DEF WireInv
<1> QED BY <1>4, <1>5, <1>6, <1>8, <1>9, <1>10 DEF Inv

-----------------------------------------------------------------------------
(* The write.                                                              *)

\* notify returns: what it says is true of the wire.
LEMMA NotifyStep ==
  ASSUME Inv, NEW c \in Callers, Notify(c), UNCHANGED canceled
  PROVE  Inv'
<1> USE FileOfAssumption, NoneAssumption
<1>0. /\ pc[c] = "writing"
      /\ UNCHANGED <<open, openFiles, waitsFor, done, outcome, text, work, wire>>
      /\ TypeOK /\ TableInv /\ ErrInv /\ ToldInv /\ SentInv /\ WireInv
  BY DEF Notify, tableVars, transVars, Inv
<1>1. PICK r \in Conn!Truth(c) :
        /\ Conn!Return(c, r)
        /\ IF r = "sent"
             THEN goto(c, "publish") /\ err' = [err EXCEPT ![c] = "nil"]
             ELSE \/ c \in canceled /\ fail(c, "canceled")
                  \/ ~open /\ fail(c, "connection")
  BY DEF Notify
<1>2. /\ told' = [told EXCEPT ![c] = r] /\ r \in {"sent", "refused", "torn"}
      /\ r = "sent" => c \in Received
      /\ r = "refused" => c \notin Received
      /\ r = "torn" => ~open
  BY <1>1 DEF Conn!Return, Conn!Truth
<1>3. UNCHANGED Received /\ Received \subseteq Callers /\ text[c] \in Texts /\ Engaged(c)
  BY <1>0, Openers DEF Received, ToldInv, Engaged
<1>4. \A d \in Callers \ {c} : pc'[d] = pc[d] /\ err'[d] = err[d] /\ told'[d] = told[d]
  BY <1>0, <1>1, <1>2 DEF fail, goto, TypeOK
<1>5. /\ told'[c] = r
      /\ r = "sent" => pc'[c] = "publish" /\ err'[c] = "nil"
      /\ r # "sent" => /\ pc'[c] = "judge" /\ err'[c] \in {"canceled", "connection"}
                       /\ err'[c] = "canceled" => c \in canceled
  BY <1>0, <1>1, <1>2 DEF fail, goto, TypeOK
<1>6. TypeOK'
  BY <1>0, <1>1, <1>2 DEF fail, goto, TypeOK, Errors
<1>7. TableInv'
  BY <1>0, <1>2, <1>4, <1>5 DEF TypeOK, TableInv, Opening
<1>8. ErrInv'
  BY <1>0, <1>2, <1>4, <1>5 DEF TableInv, ErrInv
<1>9. ToldInv'
  BY <1>0, <1>2, <1>3, <1>4, <1>5 DEF ToldInv
<1>10. SentInv'
  BY <1>0, <1>2, <1>3, <1>4, <1>5 DEF SentInv
<1>11. \A d \in Callers : Engaged(d)' => Engaged(d)
  BY <1>3, <1>4 DEF Engaged
<1>12. WireInv'
  BY <1>0, <1>3, <1>11 DEF WireInv
<1> QED BY <1>6, <1>7, <1>8, <1>9, <1>10, <1>12 DEF Inv

\* The last byte of a didOpen: its opener is engaged, so that no other of its file
\* is on the wire.
LEMMA WriteStep ==
  ASSUME Inv, NEW c \in Callers, WriteDidOpen(c)
  PROVE  Inv'
<1> USE FileOfAssumption, NoneAssumption
<1>0. /\ pc[c] = "writing" \/ told[c] = "torn"
      /\ wire' = Append(wire, <<c, text[c]>>)
      /\ UNCHANGED <<pc, err, openFiles, waitsFor, done, outcome, text, work>>
      /\ TypeOK /\ TableInv /\ ErrInv /\ ToldInv /\ SentInv /\ WireInv
  BY DEF WriteDidOpen, callVars, tableVars, transVars, Inv
<1>1. c \notin Received /\ UNCHANGED <<open, canceled, told>>
  BY DEF WriteDidOpen, Conn!Write
<1>2. <<c, text[c]>> \in Callers \X Texts /\ wire \in Seq(Callers \X Texts)
  BY <1>0 DEF ToldInv, TypeOK
<1>3. /\ wire' \in Seq(Callers \X Texts) /\ Len(wire) \in Nat /\ Len(wire') = Len(wire) + 1
      /\ wire'[Len(wire) + 1] = <<c, text[c]>>
      /\ \A i \in 1..Len(wire) : wire'[i] = wire[i]
  BY <1>0, <1>2
<1>4. Received' = Received \cup {c} /\ Received \subseteq Callers
  <2>1. Received \subseteq Callers
    BY <1>0, Openers
  <2>2. \A d : d \in Received' <=> d \in Received \/ d = c
    BY <1>3 DEF Received
  <2> QED BY <2>1, <2>2
<1>5. TypeOK'
  BY <1>0, <1>1, <1>3 DEF TypeOK
<1>6. TableInv' /\ ErrInv'
  BY <1>0, <1>1 DEF TableInv, ErrInv
<1>7. ToldInv'
  BY <1>0, <1>1, <1>4 DEF ToldInv
<1>8. SentInv'
  BY <1>0, <1>4 DEF SentInv
<1>9. WireInv'
  <2>1. Engaged(c)
    BY <1>0 DEF Engaged
  <2>2. \A d \in Callers : Engaged(d)' = Engaged(d)
    BY <1>0, <1>1, <1>4, <2>1 DEF Engaged
  <2>3. open => openFiles[FileOf[c]] = c
    BY <1>0 DEF ToldInv, TableInv, Opening
  <2>4. open => \A d \in Received' : openFiles[FileOf[d]] = d
    BY <1>0, <1>4, <2>3 DEF WireInv
  <2>5. \A i \in 1..Len(wire) : wire[i][1] # c
    BY <1>1 DEF Received
  <2>6. \A i, j \in 1..Len(wire') : wire'[i][1] = wire'[j][1] => i = j
    BY <1>0, <1>3, <2>5 DEF WireInv
  <2>7. \A i \in 1..Len(wire') : wire'[i][2] = text[wire'[i][1]]
    BY <1>0, <1>3 DEF WireInv
  <2> QED BY <1>0, <1>1, <2>2, <2>4, <2>6, <2>7 DEF WireInv
<1> QED BY <1>5, <1>6, <1>7, <1>8, <1>9 DEF Inv

-----------------------------------------------------------------------------
(* The environment, and the theorems.                                      *)

\* The goroutine of a read, a context that ends and a connection that is lost.
LEMMA EnvironmentStep ==
  ASSUME Inv, \/ \E c \in Callers : ReadFile(c) \/ Cancel(c)
              \/ ConnectionLost
              \/ UNCHANGED vars
  PROVE  Inv'
<1> USE FileOfAssumption DEF callVars, connVars, tableVars, transVars
<1>1. /\ UNCHANGED <<pc, err, told, openFiles, waitsFor, done, outcome, text, wire>>
      /\ canceled \subseteq canceled' /\ (open' => open)
  BY DEF ReadFile, Cancel, ConnectionLost, Conn!Lose, vars
<1>2. TypeOK'
  <2>1. ASSUME NEW c \in Callers, ReadFile(c) PROVE TypeOK'
    BY <2>1 DEF ReadFile, Inv, TypeOK
  <2>2. ASSUME NEW c \in Callers, Cancel(c) PROVE TypeOK'
    BY <2>2 DEF Cancel, Inv, TypeOK
  <2>3. ASSUME ConnectionLost PROVE TypeOK'
    BY <1>1, <2>3 DEF ConnectionLost, Conn!Lose, Inv, TypeOK
  <2>4. ASSUME UNCHANGED vars PROVE TypeOK'
    BY <2>4 DEF vars, Inv, TypeOK
  <2> QED BY <2>1, <2>2, <2>3, <2>4
<1>3. UNCHANGED Received /\ \A c : Engaged(c)' = Engaged(c)
  BY <1>1 DEF Received, Engaged
<1>4. TableInv' /\ ErrInv' /\ ToldInv'
  BY <1>1, <1>3 DEF Inv, TableInv, ErrInv, ToldInv
<1>5. SentInv' /\ WireInv'
  BY <1>1, <1>3 DEF Inv, SentInv, WireInv
<1> QED BY <1>2, <1>4, <1>5 DEF Inv

LEMMA NextKeeps ==
  ASSUME Inv, [Next]_vars
  PROVE  Inv'
<1>1. ASSUME NEW c \in Callers, ensureOpen(c) PROVE Inv'
  BY <1>1, StartOpenStep, ElectStep, AwaitStep, StartReadStep, FinishReadStep,
     StartNotifyStep, NotifyStep, JudgeStep, PublishStep DEF ensureOpen
<1> QED BY <1>1, WriteStep, EnvironmentStep DEF Next

LEMMA Invariance == Spec => []Inv
<1>1. Init => Inv
  BY InitInv
<1>2. Inv /\ [Next]_vars => Inv'
  BY NextKeeps
<1> QED BY <1>1, <1>2, PTL DEF Spec

\* The table of Provider.openFiles, its transitions and the calls keep their
\* types.
THEOREM TypeCorrect == Spec => []TypeOK
<1>1. Inv => TypeOK
  BY DEF Inv
<1> QED BY <1>1, Invariance, PTL

\* ensureOpen: a file is opened once, and what openedSource hands out is the text
\* the server got, for any number of openers, waiters, retries and edits, and for
\* any connection that keeps its contract.
THEOREM ServerHasOneText == Spec => []OneText
<1>1. Inv => OneText
  <2> SUFFICES ASSUME Inv PROVE OneText
    OBVIOUS
  <2>0. /\ Received \subseteq Callers
        /\ \A i \in 1..Len(wire) : wire[i][1] \in Received
        /\ \A c \in Received : \E i \in 1..Len(wire) : wire[i][1] = c
    BY Openers DEF Inv
  <2>1. ASSUME NEW i \in 1..Len(wire), NEW j \in 1..Len(wire),
               FileOf[wire[i][1]] = FileOf[wire[j][1]]
        PROVE  i = j
    <3>1. /\ wire[i][1] \in Callers /\ Engaged(wire[i][1])
          /\ wire[j][1] \in Callers /\ Engaged(wire[j][1])
      BY <2>0 DEF Engaged
    <3>2. wire[i][1] = wire[j][1]
      BY <2>1, <3>1 DEF Inv, WireInv
    <3> QED BY <3>2 DEF Inv, WireInv
  <2>2. ASSUME NEW f \in Files, openedSource(f) # "none"
        PROVE  \E i \in 1..Len(wire) : FileOf[wire[i][1]] = f /\ wire[i][2] = openedSource(f)
    <3>1. /\ openFiles[f] \in done /\ err[openFiles[f]] = "nil"
          /\ openedSource(f) = text[openFiles[f]]
      BY <2>2 DEF openedSource
    <3>2. openFiles[f] \in Callers /\ FileOf[openFiles[f]] = f
      BY <3>1, NoneAssumption DEF Inv, TypeOK, TableInv
    <3>3. openFiles[f] \in Received
      BY <3>1, <3>2 DEF Inv, SentInv
    <3> QED BY <2>0, <3>1, <3>2, <3>3 DEF Inv, WireInv
  <2> QED BY <2>1, <2>2 DEF OneText
<1> QED BY <1>1, Invariance, PTL

\* ensureOpen: nil means that the server has the file, and a live caller does not
\* fail with another's cancellation on a usable connection.
THEOREM OutcomesAreTrue == Spec => []OutcomeIsTrue
<1>1. Inv => OutcomeIsTrue
  <2> SUFFICES ASSUME Inv PROVE OutcomeIsTrue
    OBVIOUS
  <2>1. \A d \in Received : \E i \in 1..Len(wire) : wire[i][1] = d
    BY Openers DEF Inv
  <2> QED BY <2>1 DEF Inv, SentInv, ErrInv, OutcomeIsTrue
<1> QED BY <1>1, Invariance, PTL

\* The provider sees no connection but the one the contract describes: each of its
\* steps is a step of Connection or leaves it alone.  With the theorem that
\* Transport implements Connection, what is proved here holds of the provider on
\* that transport.
THEOREM RelianceOnConnection == Spec => Conn!Spec
<1>1. Init => Conn!Init
  <2>1. Init => Received = {}
    BY DEF Init, Received
  <2> QED BY <2>1 DEF Init, Conn!Init
<1>2. ASSUME [Next]_vars PROVE [Conn!Next]_(Conn!vars)
  <2>n. ASSUME UNCHANGED <<open, canceled, told, wire>> PROVE UNCHANGED Conn!vars
    BY <2>n DEF Conn!vars, Received
  <2>1. ASSUME NEW c \in Callers, ensureOpen(c), StartNotify(c) \/ Notify(c)
        PROVE  Conn!Next \/ UNCHANGED Conn!vars
    <3>1. CASE \E r \in {"sent", "refused", "torn"} : Conn!Return(c, r)
      BY <3>1 DEF Conn!Next, Conn!Return
    <3>2. CASE UNCHANGED <<open, canceled, told, wire>>
      BY <2>n, <3>2
    <3>3. \A r \in Conn!Truth(c) : r \in {"sent", "refused", "torn"}
      BY DEF Conn!Truth
    <3> QED BY <2>1, <3>1, <3>2, <3>3 DEF StartNotify, Notify, ensureOpen
  <2>2. ASSUME NEW c \in Callers, ensureOpen(c), ~StartNotify(c), ~Notify(c)
        PROVE  UNCHANGED Conn!vars
    <3>1. UNCHANGED <<open, canceled, told, wire>>
      BY <2>2 DEF ensureOpen, StartOpen, Elect, AwaitTransition, StartRead, FinishRead, Judge,
                  Publish, connVars
    <3> QED BY <2>n, <3>1
  <2>3. ASSUME NEW c \in Callers, ReadFile(c) PROVE UNCHANGED Conn!vars
    BY <2>n, <2>3 DEF ReadFile, connVars
  <2>4. ASSUME NEW c \in Callers, Cancel(c) PROVE Conn!Next
    <3>1. /\ canceled' = canceled \cup {c} /\ {c} \in SUBSET (Callers \ canceled)
          /\ UNCHANGED <<open, told, Received>>
      BY <2>4 DEF Cancel, connVars, Received
    <3>2. Conn!End
      BY <3>1 DEF Conn!End
    <3> QED BY <3>2 DEF Conn!Next
  <2>5. ASSUME NEW c \in Callers, WriteDidOpen(c) PROVE Conn!Next
    BY <2>5 DEF WriteDidOpen, Conn!Next
  <2>6. ASSUME ConnectionLost PROVE Conn!Next
    BY <2>6 DEF ConnectionLost, Conn!Next
  <2>7. ASSUME UNCHANGED vars PROVE UNCHANGED Conn!vars
    BY <2>n, <2>7 DEF vars, connVars
  <2> QED BY <1>2, <2>1, <2>2, <2>3, <2>4, <2>5, <2>6, <2>7 DEF Next
<1>3. [Next]_vars => [Conn!Next]_(Conn!vars)
  BY <1>2
<1> QED BY <1>1, <1>3, PTL DEF Spec, Conn!Spec

-----------------------------------------------------------------------------
(* The name under which a file is opened: didOpen sends the URI of the     *)
(* path, and results come back as URIs.                                    *)

PathNames == INSTANCE Paths

\* Only the escapes of a URI differ from the path.
LEMMA URIKeepsCharacters ==
  ASSUME NEW p \in Seq(STRING)
  PROVE  /\ PathNames!fileURI(p).path \in Seq(STRING \X BOOLEAN)
         /\ Len(PathNames!fileURI(p).path) = Len(p)
         /\ \A i \in 1..Len(p) : PathNames!fileURI(p).path[i][1] = p[i]
<1> DEFINE e == PathNames!escaped(p)
<1>0. \A i \in 1..Len(p) : p[i] \in STRING
  OBVIOUS
<1>a. \A c \in STRING : PathNames!defaultEscape(c) \in BOOLEAN
  BY DEF PathNames!defaultEscape
<1>1. e \in [1..Len(p) -> STRING \X BOOLEAN] /\ \A i \in 1..Len(p) : e[i][1] = p[i]
  BY <1>0, <1>a DEF PathNames!escaped
<1>2. e \in Seq(STRING \X BOOLEAN) /\ Len(e) = Len(p)
  BY <1>1
<1> HIDE DEF e
<1>3. CASE PathNames!hasDriveURIPath(p)
  <2>1. p[3] = ":" /\ Len(p) >= 3
    BY <1>3 DEF PathNames!hasDriveURIPath
  <2>2. PathNames!fileURI(p).path = [e EXCEPT ![3] = <<":", TRUE>>]
    BY <1>3 DEF PathNames!fileURI, e
  <2>3. <<":", TRUE>> \in STRING \X BOOLEAN
    <3>1. \A A, B : \A a \in A, b \in B : <<a, b>> \in A \X B
      OBVIOUS
    <3>2. ":" \in STRING
      <4>1. 3 \in 1..Len(p)
        BY <2>1
      <4> QED BY <1>0, <2>1, <4>1, Zenon
    <3>3. TRUE \in BOOLEAN
      BY Zenon
    <3> QED BY <3>1, <3>2, <3>3, Zenon
  <2>4. /\ [e EXCEPT ![3] = <<":", TRUE>>] \in Seq(STRING \X BOOLEAN)
        /\ Len([e EXCEPT ![3] = <<":", TRUE>>]) = Len(p)
    BY <1>1, <1>2, <2>1, <2>3
  <2>5. \A i \in 1..Len(p) : [e EXCEPT ![3] = <<":", TRUE>>][i][1] = p[i]
    BY <1>1, <1>2, <2>1
  <2> QED BY <2>2, <2>4, <2>5
<1>4. CASE ~PathNames!hasDriveURIPath(p)
  <2>1. PathNames!fileURI(p).path = e
    BY <1>4 DEF PathNames!fileURI, e
  <2> QED BY <1>1, <1>2, <2>1
<1> QED BY <1>3, <1>4

\* URIToPath after PathToURI: the URI under which a file was opened leads back to
\* its path, as prepareOpen has made it canonical, also when the path reads as a
\* drive and in whatever distribution.
THEOREM URILeadsBack ==
  ASSUME NEW env, NEW p \in Seq(STRING), p # <<>>, p[1] = "/",
         PathNames!Canonicalize(p, env) = p
  PROVE  PathNames!URIToPath(PathNames!PathToURI(p, env), env) = p
<1> DEFINE u == PathNames!fileURI(p)
           path == [i \in 1..Len(u.path) |-> u.path[i][1]]
<1>1. path = p
  BY URIKeepsCharacters
<1>2. u.host = <<>>
  BY DEF PathNames!fileURI
<1>3. PathNames!hasDriveURIPath(p) => PathNames!hasEscapedDriveColon(u.path)
  <2> SUFFICES ASSUME PathNames!hasDriveURIPath(p) PROVE PathNames!hasEscapedDriveColon(u.path)
    OBVIOUS
  <2>1. /\ Len(p) >= 3 /\ p[1] = "/" /\ p[2] \in PathNames!Letters
    BY DEF PathNames!hasDriveURIPath, PathNames!Slash
  <2>2. u.path = [PathNames!escaped(p) EXCEPT ![3] = <<":", TRUE>>]
    BY DEF PathNames!fileURI
  <2>3. PathNames!defaultEscape("/") = FALSE
    BY DEF PathNames!defaultEscape, PathNames!Back
  <2>4. /\ DOMAIN PathNames!escaped(p) = 1..Len(p)
        /\ PathNames!escaped(p)[1] = <<p[1], PathNames!defaultEscape(p[1])>>
    BY <2>1 DEF PathNames!escaped
  <2>7. PathNames!escaped(p)[1] = <<"/", FALSE>>
    BY <2>1, <2>3, <2>4, Zenon
  <2>5. u.path[1] = <<"/", FALSE>> /\ u.path[3] = <<":", TRUE>>
    <3> DEFINE f == <<"/", FALSE>>
               g == <<":", TRUE>>
               h == PathNames!escaped(p)
    <3>1. DOMAIN h = 1..Len(p) /\ h[1] = f /\ u.path = [h EXCEPT ![3] = g]
      BY <2>2, <2>4, <2>7
    <3>2. 1 \in 1..Len(p) /\ 3 \in 1..Len(p)
      BY <2>1
    <3> HIDE DEF f, g, h, u
    <3>3. u.path[1] = f /\ u.path[3] = g
      BY <3>1, <3>2
    <3> QED BY <3>3 DEF f, g
  <2>6. u.path[2][1] = p[2]
    BY <2>1, URIKeepsCharacters
  <2> QED BY <2>1, <2>5, <2>6, URIKeepsCharacters DEF PathNames!hasEscapedDriveColon, PathNames!Slash
<1>4. ~PathNames!isServer(<<>>)
  BY DEF PathNames!isServer, PathNames!EqualFold
<1>5. PathNames!PathToURI(p, env) = u
  BY DEF PathNames!PathToURI, PathNames!Bad
<1>6. PathNames!URIToPath(u, env) = PathNames!Canonicalize(p, env)
  <2> HIDE DEF u
  <2> QED BY <1>1, <1>2, <1>3, <1>4 DEF PathNames!URIToPath
<1> HIDE DEF u
<1> QED BY <1>5, <1>6

=============================================================================
