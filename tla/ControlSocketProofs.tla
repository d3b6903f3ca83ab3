------------------------- MODULE ControlSocketProofs -------------------------
(***************************************************************************)
(* Proofs about ControlSocket, for any number of daemons and of inodes of  *)
(* other programs, crashes and I/O errors at any step: with one lock file  *)
(* there is one server, a daemon nobody disturbed is found at its path and *)
(* starts whatever its predecessors left, and no daemon takes the last     *)
(* name of what is not its own.                                            *)
(*                                                                         *)
(* The lock makes one daemon the only one to touch the path, so that the   *)
(* invariant is about one daemon at a time: what it knows of the path, its *)
(* quarantine and the inode it inspected.  What it knows while nobody      *)
(* interferes is a part of its own.                                        *)
(*                                                                         *)
(* The last section is about ControlConns, the connections of one of these *)
(* daemons between its publication and its cleanup.                        *)
(***************************************************************************)
EXTENDS ControlSocket, ControlConns, TLAPS

\* The daemons have one lock file: they run with one runtime directory.
SharedLock == \A d, e \in Daemons : LockOf[d] = LockOf[e]

\* The points at which a daemon has the lock, at which its socket accepts, up to
\* which its inode has no public name, and at which its quarantine is empty.
Active == {"lstat", "dial", "listen", "giveup", "release"}
            \cup Publishing \cup Serving \cup Cleaning
Listens == {"move", "verify", "discard", "restore", "dropq", "link", "unlink", "rollback",
            "undo", "serving"}
Unpublished == {"off", "lock", "busy", "lstat", "dial", "listen", "move", "verify",
                "discard", "restore", "dropq", "link"}
Bare == {"off", "lock", "lstat", "dial", "listen", "move", "link", "unlink", "serving",
         "wait", "cleanmove"}

\* The points that only an error or another program can bring a daemon to.
Upset == {"restore", "dropq", "undo", "unstage", "giveup", "rollback", "failed",
          "cleanrestore", "cleandropq"}

-----------------------------------------------------------------------------
(* The invariant.                                                          *)

LockInv == \A d \in Daemons : pc[d] \in Active <=> lock[LockOf[d]] = d

\* Some daemon has seen the inode of d, or the path names it.
Known(d) == path = d \/ \E x \in Daemons : quarantine[x] = d \/ stale[x] = d

\* What a daemon knows while nobody interferes.
Calm(d) ==
  /\ pc[d] \notin Upset
  /\ pc[d] \in {"dial", "listen", "move"} => path = stale[d]
  /\ pc[d] = "verify" => quarantine[d] = stale[d]
  /\ pc[d] \in {"verify", "discard", "link"} => path = Nothing
  /\ pc[d] \in {"unlink", "serving", "wait", "cleanmove"} => path = d
  /\ pc[d] = "cleanverify" => quarantine[d] = d

\* What it knows in any case.
Knows(d) ==
  /\ Known(d) => pc[d] \notin Unpublished
  /\ d \in listening <=> pc[d] \in Listens
  /\ pc[d] \in Bare => quarantine[d] = Nothing
  /\ pc[d] = "discard" => quarantine[d] = stale[d]
  /\ pc[d] = "cleandiscard" => quarantine[d] = d
  /\ pc[d] \in {"dropq", "cleandropq"} => quarantine[d] \in {path, Nothing} \cup dropped
  /\ pc[d] \in {"listen", "move", "verify", "discard"} /\ stale[d] \in {path, quarantine[d]} =>
       stale[d] \notin listening

\* While nobody interferes, the path names no file and only daemons listen.
CalmPath == ~disturbed => path \notin Regular /\ listening \subseteq Daemons

Inv ==
  /\ TypeOK /\ LockInv /\ CalmPath
  /\ \A d \in Daemons : Knows(d) /\ (~disturbed => Calm(d))

LEMMA InitInv == Init => Inv
<1> SUFFICES ASSUME Init PROVE Inv
  OBVIOUS
<1> USE ControlAssumption
<1>1. TypeOK
  BY DEF Init, TypeOK, Inodes, Points
<1>2. LockInv
  BY DEF Init, LockInv, Active, Publishing, Serving, Cleaning, Locks
<1>3. CalmPath
  BY DEF Init, CalmPath
<1>4. ASSUME NEW d \in Daemons PROVE Knows(d) /\ Calm(d)
  BY DEF Init, Knows, Known, Calm, Upset, Listens, Unpublished
<1> QED BY <1>1, <1>2, <1>3, <1>4 DEF Inv

-----------------------------------------------------------------------------
(* What a step does to the others.                                         *)

\* One daemon has the lock.
LEMMA OneActive ==
  ASSUME SharedLock, Inv, NEW d \in Daemons, NEW e \in Daemons,
         pc[d] \in Active, pc[e] \in Active
  PROVE  d = e
BY DEF SharedLock, Inv, LockInv

\* A step of d that leaves the files alone.
LEMMA OthersByQuiet ==
  ASSUME Inv, NEW d \in Daemons, NEW to, pc' = [pc EXCEPT ![d] = to],
         UNCHANGED <<path, quarantine, stale, dropped>>,
         listening' \in {listening, listening \ {d}}, disturbed' \in {disturbed, TRUE}
  PROVE  \A e \in Daemons \ {d} : Knows(e)' /\ (~disturbed' => Calm(e)')
<1> SUFFICES ASSUME NEW e \in Daemons \ {d}
             PROVE  Knows(e)' /\ (~disturbed' => Calm(e)')
  OBVIOUS
<1>1. pc'[e] = pc[e] /\ (e \in listening' <=> e \in listening) /\ listening' \subseteq listening
      /\ (~disturbed' => ~disturbed)
  BY DEF Inv, TypeOK
<1>2. Knows(e) /\ (~disturbed => Calm(e)) /\ (Known(e)' <=> Known(e))
  BY DEF Inv, Known
<1> QED BY <1>1, <1>2 DEF Knows, Calm

\* A step of the daemon that has the lock: the others are not at a point at which
\* they know anything of the path.
LEMMA OthersByHolder ==
  ASSUME SharedLock, Inv, NEW d \in Daemons, pc[d] \in Active, NEW to,
         pc' = [pc EXCEPT ![d] = to], disturbed' \in {disturbed, TRUE},
         \A e \in Daemons \ {d} :
           /\ quarantine'[e] = quarantine[e] /\ (e \in listening' <=> e \in listening)
           /\ Known(e)' => Known(e)
  PROVE  \A e \in Daemons \ {d} : Knows(e)' /\ (~disturbed' => Calm(e)')
<1> SUFFICES ASSUME NEW e \in Daemons \ {d}
             PROVE  Knows(e)' /\ (~disturbed' => Calm(e)')
  OBVIOUS
<1>1. /\ pc'[e] = pc[e] /\ (e \in listening' <=> e \in listening)
      /\ quarantine'[e] = quarantine[e] /\ (~disturbed' => ~disturbed) /\ (Known(e)' => Known(e))
  BY DEF Inv, TypeOK
<1>2. pc[e] \notin Active
  BY OneActive
<1>3. Knows(e) /\ (~disturbed => Calm(e))
  BY DEF Inv
<1>4. Knows(e)'
  BY <1>1, <1>2, <1>3 DEF Knows, Active, Publishing, Serving, Cleaning
<1>5. ~disturbed' => Calm(e)'
  BY <1>1, <1>2, <1>3 DEF Calm, Upset, Active, Publishing, Serving, Cleaning
<1> QED BY <1>4, <1>5

\* A step of d that changes nothing but its own point, and perhaps disturbed.
LEMMA QuietStep ==
  ASSUME Inv, NEW d \in Daemons, NEW to \in Points, pc' = [pc EXCEPT ![d] = to],
         UNCHANGED <<lock, path, quarantine, listening, stale, dropped>>,
         staged' \subseteq Daemons, disturbed' \in {disturbed, TRUE},
         pc[d] \in Active <=> to \in Active,
         Knows(d)', ~disturbed' => Calm(d)'
  PROVE  Inv'
<1>1. TypeOK'
  BY DEF Inv, TypeOK
<1>2. LockInv'
  BY DEF Inv, LockInv, TypeOK
<1>3. CalmPath'
  BY DEF Inv, CalmPath, TypeOK
<1>4. \A e \in Daemons \ {d} : Knows(e)' /\ (~disturbed' => Calm(e)')
  BY OthersByQuiet
<1> QED BY <1>1, <1>2, <1>3, <1>4 DEF Inv

\* A system call fails; the daemon goes on to undo what it did.
LEMMA IoErrorStep ==
  ASSUME Inv, NEW d \in Daemons, NEW from \in Points, NEW to \in Points, ioError(d, from, to),
         from \in Active <=> to \in Active, from \in Listens <=> to \in Listens,
         to \in {"failed", "giveup", "undo", "rollback", "release", "cleanrestore"}
           \/ (from = "verify" /\ to = "restore")
  PROVE  Inv'
<1>1. /\ pc[d] = from /\ pc' = [pc EXCEPT ![d] = to] /\ disturbed' = TRUE
      /\ UNCHANGED <<lock, path, staged, quarantine, listening, stale, dropped>>
  BY DEF ioError, goto, fileVars
<1>2. pc'[d] = to /\ Knows(d) /\ (Known(d)' <=> Known(d)) /\ staged' \subseteq Daemons
  BY <1>1 DEF Inv, TypeOK, Known
<1>3. Knows(d)'
  BY <1>1, <1>2 DEF Knows, Bare, Unpublished
<1> QED BY <1>1, <1>2, <1>3, QuietStep

\* A step of the daemon that has the lock and keeps it.
LEMMA HolderStep ==
  ASSUME SharedLock, Inv, NEW d \in Daemons, NEW to \in Active, pc[d] \in Active,
         pc' = [pc EXCEPT ![d] = to], lock' = lock, disturbed' \in {disturbed, TRUE},
         TypeOK', CalmPath', Knows(d)', ~disturbed' => Calm(d)',
         \A e \in Daemons \ {d} :
           /\ quarantine'[e] = quarantine[e] /\ (e \in listening' <=> e \in listening)
           /\ Known(e)' => Known(e)
  PROVE  Inv'
<1>1. LockInv'
  BY DEF Inv, LockInv, TypeOK
<1>2. \A e \in Daemons \ {d} : Knows(e)' /\ (~disturbed' => Calm(e)')
  BY OthersByHolder
<1> QED BY <1>1, <1>2 DEF Inv

\* The points of Start and Shutdown as sets of strings.
LEMMA Sets ==
  /\ Active = {"lstat", "dial", "listen", "giveup", "release", "move", "verify", "discard",
               "restore", "dropq", "link", "unlink", "rollback", "undo", "unstage",
               "serving", "wait", "cleanmove", "cleanverify", "cleandiscard",
               "cleanrestore", "cleandropq"}
  /\ Points = Active \cup {"off", "lock", "busy", "failed", "stopped", "dead"}
BY DEF Active, Points, Publishing, Serving, Cleaning, Ended

-----------------------------------------------------------------------------
(* Start.                                                                  *)

LEMMA EnsureRuntimeDirStep ==
  ASSUME Inv, NEW d \in Daemons, EnsureRuntimeDir(d)
  PROVE  Inv'
<1>1. CASE ioError(d, "off", "failed")
  BY <1>1, IoErrorStep, Sets DEF Listens
<1>2. CASE ~ioError(d, "off", "failed")
  <2>1. /\ pc[d] = "off" /\ pc' = [pc EXCEPT ![d] = "lock"]
        /\ UNCHANGED <<lock, path, staged, quarantine, listening, stale, disturbed, dropped>>
    BY <1>2 DEF EnsureRuntimeDir, goto, fileVars, history
  <2>2. Knows(d) /\ pc'[d] = "lock" /\ (Known(d)' <=> Known(d)) /\ staged' \subseteq Daemons
    BY <2>1 DEF Inv, TypeOK, Known
  <2>3. Knows(d)' /\ Calm(d)'
    BY <2>1, <2>2 DEF Knows, Calm, Bare, Unpublished, Listens, Upset
  <2> QED BY <2>1, <2>2, <2>3, QuietStep, Sets
<1> QED BY <1>1, <1>2

\* The lock is free and is taken, or Start ends.
LEMMA TryLockStep ==
  ASSUME Inv, NEW d \in Daemons, TryLock(d)
  PROVE  Inv'
<1>1. CASE ioError(d, "lock", "failed")
  BY <1>1, IoErrorStep, Sets DEF Listens
<1>2. CASE ~ioError(d, "lock", "failed")
  <2>1. /\ pc[d] = "lock"
        /\ UNCHANGED <<path, staged, quarantine, listening, stale, disturbed, dropped>>
    BY <1>2 DEF TryLock, goto, fileVars, history
  <2>2. Knows(d) /\ (Known(d)' <=> Known(d)) /\ staged' \subseteq Daemons
    BY <2>1 DEF Inv, TypeOK, Known
  <2>3. CASE lock[LockOf[d]] # Nothing
    <3>1. pc' = [pc EXCEPT ![d] = "busy"] /\ lock' = lock
      BY <1>2, <2>3 DEF TryLock, goto
    <3>2. pc'[d] = "busy"
      BY <3>1 DEF Inv, TypeOK
    <3>3. Knows(d)' /\ Calm(d)'
      BY <2>1, <2>2, <3>2 DEF Knows, Calm, Bare, Unpublished, Listens, Upset
    <3> QED BY <2>1, <2>2, <3>1, <3>3, QuietStep, Sets
  <2>4. CASE lock[LockOf[d]] = Nothing
    <3>1. pc' = [pc EXCEPT ![d] = "lstat"] /\ lock' = [lock EXCEPT ![LockOf[d]] = d]
      BY <1>2, <2>4 DEF TryLock, goto
    <3>2. pc'[d] = "lstat" /\ LockOf[d] \in Locks
      BY <3>1 DEF Inv, TypeOK, Locks
    <3>3. Knows(d)' /\ Calm(d)'
      BY <2>1, <2>2, <3>2 DEF Knows, Calm, Bare, Unpublished, Listens, Upset
    <3>4. TypeOK'
      BY <2>1, <3>1, Sets DEF Inv, TypeOK
    <3>5. LockInv'
      <4> SUFFICES ASSUME NEW e \in Daemons
                   PROVE  pc'[e] \in Active <=> lock'[LockOf[e]] = e
        BY DEF LockInv
      <4>1. CASE e = d
        BY <3>1, <3>2, <4>1, Sets DEF Inv, TypeOK
      <4>2. CASE e # d
        <5>1. pc'[e] = pc[e] /\ (pc[e] \in Active <=> lock[LockOf[e]] = e)
          BY <3>1, <4>2 DEF Inv, TypeOK, LockInv
        <5>2. lock'[LockOf[e]] = IF LockOf[e] = LockOf[d] THEN d ELSE lock[LockOf[e]]
          BY <3>1 DEF Inv, TypeOK, Locks
        <5>3. LockOf[e] = LockOf[d] => lock[LockOf[e]] # e
          BY <2>4, ControlAssumption
        <5> QED BY <4>2, <5>1, <5>2, <5>3
      <4> QED BY <4>1, <4>2
    <3>6. \A e \in Daemons \ {d} : Knows(e)' /\ (~disturbed' => Calm(e)')
      BY <2>1, <3>1, OthersByQuiet
    <3>7. CalmPath'
      BY <2>1 DEF Inv, CalmPath
    <3> QED BY <3>3, <3>4, <3>5, <3>6, <3>7 DEF Inv
  <2> QED BY <2>3, <2>4
<1> QED BY <1>1, <1>2

\* What is at the path is remembered; while nobody interferes it is no file.
LEMMA LstatStep ==
  ASSUME SharedLock, Inv, NEW d \in Daemons, Lstat(d)
  PROVE  Inv'
<1> USE ControlAssumption
<1>1. CASE ioError(d, "lstat", "giveup")
  BY <1>1, IoErrorStep, Sets DEF Listens
<1>2. CASE ~ioError(d, "lstat", "giveup")
  <2> DEFINE to == IF path = Nothing THEN "listen"
                   ELSE IF path \in Regular THEN "giveup" ELSE "dial"
  <2>1. /\ pc[d] = "lstat" /\ pc' = [pc EXCEPT ![d] = to]
        /\ stale' = [stale EXCEPT ![d] = IF path \in Regular THEN Nothing ELSE path]
        /\ UNCHANGED <<lock, path, staged, quarantine, listening, disturbed, dropped>>
    BY <1>2 DEF Lstat, goto, fileVars, history, Inodes
  <2>2. TypeOK /\ Knows(d) /\ (~disturbed => Calm(d)) /\ CalmPath
    BY DEF Inv
  <2>3. pc'[d] = to /\ stale'[d] = IF path \in Regular THEN Nothing ELSE path
    BY <2>1, <2>2 DEF TypeOK
  <2>4. TypeOK'
    BY <2>1, <2>2, Sets DEF TypeOK, Inodes
  <2>5. ASSUME NEW e \in Daemons, Known(e)' PROVE Known(e)
    <3>1. \A x \in Daemons \ {d} : stale'[x] = stale[x]
      BY <2>1, <2>2 DEF TypeOK
    <3> QED BY <2>1, <2>3, <2>5, <3>1 DEF Known
  <2>6. Knows(d)'
    <3>1. Nothing \notin listening
      BY <2>2 DEF TypeOK, Inodes
    <3>2. quarantine[d] = Nothing /\ ~Known(d)' /\ d \notin listening
      BY <2>1, <2>2, <2>5 DEF Knows, Bare, Unpublished, Listens
    <3> QED BY <2>1, <2>3, <3>1, <3>2 DEF Knows, Bare, Unpublished, Listens
  <2>7. ~disturbed' => Calm(d)'
    BY <2>1, <2>2, <2>3 DEF CalmPath, Calm, Upset
  <2>8. CalmPath'
    BY <2>1, <2>2 DEF CalmPath
  <2> QED BY <2>1, <2>4, <2>5, <2>6, <2>7, <2>8, HolderStep, Sets
<1> QED BY <1>1, <1>2

\* Nobody listens on what a daemon that died left: the one that has the lock is
\* the only daemon that could.
LEMMA DialStep ==
  ASSUME SharedLock, Inv, NEW d \in Daemons, Dial(d)
  PROVE  Inv'
<1>1. CASE ioError(d, "dial", "giveup")
  BY <1>1, IoErrorStep, Sets DEF Listens
<1>2. CASE ~ioError(d, "dial", "giveup")
  <2> DEFINE to == IF path \in listening THEN "giveup" ELSE "listen"
  <2>1. /\ pc[d] = "dial" /\ pc' = [pc EXCEPT ![d] = to]
        /\ UNCHANGED <<lock, path, staged, quarantine, listening, stale, disturbed, dropped>>
    BY <1>2 DEF Dial, goto, fileVars, history
  <2>2. /\ TypeOK /\ Knows(d) /\ (~disturbed => Calm(d)) /\ CalmPath
        /\ (Known(d)' <=> Known(d)) /\ staged' \subseteq Daemons
    BY <2>1 DEF Inv, TypeOK, Known
  <2>3. pc'[d] = to
    BY <2>1, <2>2 DEF TypeOK
  <2>4. Knows(d)'
    <3>1. Nothing \notin listening
      BY <2>2, ControlAssumption DEF TypeOK, Inodes
    <3>2. quarantine[d] = Nothing /\ ~Known(d) /\ d \notin listening
      BY <2>1, <2>2 DEF Knows, Bare, Unpublished, Listens
    <3> QED BY <2>1, <2>2, <2>3, <3>1, <3>2 DEF Knows, Bare, Unpublished, Listens
  <2>5. ~disturbed => path \notin listening
    <3> SUFFICES ASSUME ~disturbed, path \in listening PROVE FALSE
      OBVIOUS
    <3>1. path \in Daemons
      BY <2>2 DEF CalmPath
    <3>2. pc[path] \in Active
      BY <3>1, Sets DEF Inv, Knows, Listens
    <3>3. path = d
      BY <2>1, <3>1, <3>2, OneActive, Sets
    <3> QED BY <2>1, <2>2, <3>3 DEF Knows, Listens
  <2>6. ~disturbed' => Calm(d)'
    BY <2>1, <2>2, <2>3, <2>5 DEF Calm, Upset
  <2> QED BY <2>1, <2>2, <2>4, <2>6, QuietStep, Sets
<1> QED BY <1>1, <1>2

\* The staged socket is not the one at the path.
LEMMA ListenStagedStep ==
  ASSUME SharedLock, Inv, NEW d \in Daemons, ListenStaged(d)
  PROVE  Inv'
<1> USE ControlAssumption
<1>1. CASE ioError(d, "listen", "giveup")
  BY <1>1, IoErrorStep, Sets DEF Listens
<1>2. CASE ~ioError(d, "listen", "giveup")
  <2>1. /\ pc[d] = "listen" /\ staged' = staged \cup {d} /\ listening' = listening \cup {d}
        /\ UNCHANGED <<lock, path, quarantine, stale, dropped>>
    BY <1>2 DEF ListenStaged, goto
  <2>2. PICK to \in {"link", "move", "undo"} :
          /\ pc' = [pc EXCEPT ![d] = to]
          /\ to = "undo" => disturbed' = TRUE
          /\ to # "undo" => disturbed' = disturbed
          /\ to = "link" => stale[d] = Nothing
    BY <1>2 DEF ListenStaged, goto
  <2>3. TypeOK /\ Knows(d) /\ (~disturbed => Calm(d)) /\ CalmPath
    BY DEF Inv
  <2>4. disturbed' \in {disturbed, TRUE} /\ pc'[d] = to
    BY <2>2, <2>3 DEF TypeOK
  <2>5. TypeOK'
    <3>1. disturbed' \in BOOLEAN
      BY <2>3, <2>4 DEF TypeOK
    <3>2. pc' \in [Daemons -> Points]
      BY <2>2, <2>3, Sets DEF TypeOK
    <3>3. listening' \subseteq Inodes \ Regular /\ staged' \subseteq Daemons
      BY <2>1, <2>3 DEF TypeOK, Inodes
    <3> QED BY <2>1, <2>3, <3>1, <3>2, <3>3 DEF TypeOK
  <2>6. \A e \in Daemons : Known(e)' <=> Known(e)
    BY <2>1 DEF Known
  <2>7. ~Known(d) /\ stale[d] # d
    BY <2>1, <2>3 DEF Knows, Known, Unpublished
  <2>8. Knows(d)'
    BY <2>1, <2>3, <2>4, <2>6, <2>7 DEF Knows, Bare, Unpublished, Listens
  <2>9. ~disturbed' => Calm(d)'
    BY <2>1, <2>2, <2>3, <2>4 DEF Calm, Upset
  <2>10. CalmPath'
    BY <2>1, <2>3, <2>4 DEF CalmPath
  <2> QED BY <2>1, <2>2, <2>4, <2>5, <2>6, <2>8, <2>9, <2>10, HolderStep, Sets
<1> QED BY <1>1, <1>2

\* The public path goes to the quarantine of the daemon, which had nothing in it.
LEMMA MovedAway ==
  ASSUME SharedLock, Inv, NEW d \in Daemons, NEW from \in {"move", "cleanmove"},
         NEW to \in {"verify", "cleanverify"}, from = "move" <=> to = "verify",
         pc[d] = from, pc' = [pc EXCEPT ![d] = to],
         quarantine' = [quarantine EXCEPT ![d] = path], path' = Nothing,
         UNCHANGED <<lock, staged, listening, stale, disturbed, dropped>>
  PROVE  Inv'
<1> USE ControlAssumption
<1>1. TypeOK /\ Knows(d) /\ (~disturbed => Calm(d)) /\ CalmPath
  BY DEF Inv
<1>2. pc'[d] = to /\ quarantine'[d] = path
      /\ \A e \in Daemons \ {d} : quarantine'[e] = quarantine[e]
  BY <1>1 DEF TypeOK
<1>3. TypeOK'
  BY <1>1, Sets DEF TypeOK
<1>4. ASSUME NEW e \in Daemons, Known(e)' PROVE Known(e)
  BY <1>2, <1>4 DEF Known
<1>5. Knows(d)'
  <2>1. Nothing \notin listening
    BY <1>1 DEF TypeOK, Inodes
  <2> QED BY <1>1, <1>2, <1>4, <2>1 DEF Knows, Bare, Unpublished, Listens
<1>6. ~disturbed' => Calm(d)'
  BY <1>1, <1>2 DEF Calm, Upset
<1>7. CalmPath'
  BY <1>1 DEF CalmPath, Inodes
<1> QED BY <1>2, <1>3, <1>4, <1>5, <1>6, <1>7, HolderStep, Sets

LEMMA MoveStaleStep ==
  ASSUME SharedLock, Inv, NEW d \in Daemons, MoveStale(d)
  PROVE  Inv'
<1>1. CASE ioError(d, "move", "undo")
  BY <1>1, IoErrorStep, Sets DEF Listens
<1>2. CASE moveAway(d, "move", "verify", "link") /\ path # Nothing
  BY <1>2, MovedAway DEF moveAway, goto, history
<1>3. CASE moveAway(d, "move", "verify", "link") /\ path = Nothing
  <2>1. /\ pc[d] = "move" /\ pc' = [pc EXCEPT ![d] = "link"]
        /\ UNCHANGED <<lock, path, staged, quarantine, listening, stale, disturbed, dropped>>
    BY <1>3 DEF moveAway, goto, fileVars, history
  <2>2. /\ TypeOK /\ Knows(d) /\ (~disturbed => Calm(d))
        /\ (Known(d)' <=> Known(d)) /\ staged' \subseteq Daemons /\ pc'[d] = "link"
    BY <2>1 DEF Inv, TypeOK, Known
  <2>3. Knows(d)'
    BY <2>1, <2>2 DEF Knows, Bare, Unpublished, Listens
  <2>4. ~disturbed' => Calm(d)'
    BY <1>3, <2>1, <2>2 DEF Calm, Upset
  <2> QED BY <2>1, <2>2, <2>3, <2>4, QuietStep, Sets
<1> QED BY <1>1, <1>2, <1>3 DEF MoveStale

\* Only what preparePath inspected is discarded, and while nobody interferes
\* there is nothing else.
LEMMA VerifyStaleStep ==
  ASSUME Inv, NEW d \in Daemons, VerifyStale(d)
  PROVE  Inv'
<1>1. CASE ioError(d, "verify", "restore")
  BY <1>1, IoErrorStep, Sets DEF Listens
<1>2. CASE ~ioError(d, "verify", "restore")
  <2> DEFINE to == IF quarantine[d] = stale[d] THEN "discard" ELSE "restore"
  <2>1. /\ pc[d] = "verify" /\ pc' = [pc EXCEPT ![d] = to]
        /\ UNCHANGED <<lock, path, staged, quarantine, listening, stale, disturbed, dropped>>
    BY <1>2 DEF VerifyStale, verify, goto, fileVars, history
  <2>2. /\ TypeOK /\ Knows(d) /\ (~disturbed => Calm(d))
        /\ (Known(d)' <=> Known(d)) /\ staged' \subseteq Daemons
    BY <2>1 DEF Inv, TypeOK, Known
  <2>3. pc'[d] = to
    BY <2>1, <2>2 DEF TypeOK
  <2>4. Knows(d)'
    BY <2>1, <2>2, <2>3 DEF Knows, Bare, Unpublished, Listens
  <2>5. ~disturbed' => Calm(d)'
    BY <2>1, <2>2, <2>3 DEF Calm, Upset
  <2> QED BY <2>1, <2>2, <2>4, <2>5, QuietStep, Sets
<1> QED BY <1>1, <1>2

\* The quarantine is emptied.
LEMMA RemovedQuarantined ==
  ASSUME SharedLock, Inv, NEW d \in Daemons, NEW from, NEW to,
         \/ from = "discard" /\ to = "link"
         \/ from = "dropq" /\ to = "undo"
         \/ from \in {"cleandiscard", "cleandropq"} /\ to = "release",
         removeQuarantined(d, from, to)
  PROVE  Inv'
<1>1. /\ pc[d] = from /\ pc' = [pc EXCEPT ![d] = to]
      /\ quarantine' = [quarantine EXCEPT ![d] = Nothing]
      /\ UNCHANGED <<lock, path, staged, listening, stale, disturbed, dropped>>
  BY DEF removeQuarantined, goto, history
<1>2. TypeOK /\ Knows(d) /\ (~disturbed => Calm(d)) /\ CalmPath
  BY DEF Inv
<1>3. pc'[d] = to /\ quarantine'[d] = Nothing
      /\ \A e \in Daemons \ {d} : quarantine'[e] = quarantine[e]
  BY <1>1, <1>2 DEF TypeOK
<1>4. to \in Active /\ from \in Active
  BY Sets
<1>5. TypeOK'
  BY <1>1, <1>2, <1>4, Sets DEF TypeOK
<1>6. ASSUME NEW e \in Daemons, Known(e)' PROVE Known(e)
  <2>1. e # Nothing
    BY ControlAssumption
  <2> QED BY <1>1, <1>3, <1>6, <2>1 DEF Known
<1>7. Knows(d)'
  BY <1>1, <1>2, <1>3, <1>6 DEF Knows, Bare, Unpublished, Listens
<1>8. ~disturbed' => Calm(d)'
  BY <1>1, <1>2, <1>3 DEF Calm, Upset
<1>9. CalmPath'
  BY <1>1, <1>2 DEF CalmPath
<1> QED BY <1>1, <1>3, <1>4, <1>5, <1>6, <1>7, <1>8, <1>9, HolderStep

\* What was moved by mistake gets its name back, unless the path is taken again.
LEMMA Restored ==
  ASSUME SharedLock, Inv, NEW d \in Daemons, NEW from, NEW linked, NEW to,
         \/ from = "restore" /\ linked = "dropq" /\ to = "undo"
         \/ from = "cleanrestore" /\ linked = "cleandropq" /\ to = "release",
         restorePathNoReplace(d, from, linked, to)
  PROVE  Inv'
<1>0. from \in Points /\ from \in Active /\ linked \in Active /\ to \in Active
      /\ (from \in Listens <=> to \in Listens) /\ to \in Points
  BY Sets DEF Listens
<1>1. CASE ioError(d, from, to)
  BY <1>0, <1>1, IoErrorStep
<1>2. CASE ~ioError(d, from, to) /\ path # Nothing
  <2>1. /\ pc[d] = from /\ pc' = [pc EXCEPT ![d] = to]
        /\ UNCHANGED <<lock, path, staged, quarantine, listening, stale, disturbed, dropped>>
    BY <1>2 DEF restorePathNoReplace, goto, history
  <2>2. /\ TypeOK /\ Knows(d) /\ (~disturbed => Calm(d))
        /\ (Known(d)' <=> Known(d)) /\ staged' \subseteq Daemons /\ pc'[d] = to
    BY <2>1 DEF Inv, TypeOK, Known
  <2>3. Knows(d)'
    BY <2>1, <2>2 DEF Knows, Bare, Unpublished, Listens
  <2>4. ~disturbed' => Calm(d)'
    BY <2>1, <2>2 DEF Calm, Upset
  <2> QED BY <1>0, <2>1, <2>2, <2>3, <2>4, QuietStep
<1>3. CASE ~ioError(d, from, to) /\ path = Nothing
  <2>1. /\ pc[d] = from /\ pc' = [pc EXCEPT ![d] = linked] /\ path' = quarantine[d]
        /\ UNCHANGED <<lock, staged, quarantine, listening, stale, disturbed, dropped>>
    BY <1>3 DEF restorePathNoReplace, goto, history
  <2>2. TypeOK /\ Knows(d) /\ (~disturbed => Calm(d)) /\ CalmPath
    BY DEF Inv
  <2>3. pc'[d] = linked /\ disturbed
    BY <2>1, <2>2 DEF TypeOK, Calm, Upset
  <2>4. TypeOK'
    BY <1>0, <2>1, <2>2, Sets DEF TypeOK
  <2>5. ASSUME NEW e \in Daemons, Known(e)' PROVE Known(e)
    BY <2>1, <2>5 DEF Known
  <2>6. Knows(d)'
    BY <2>1, <2>2, <2>3, <2>5 DEF Knows, Bare, Unpublished, Listens
  <2>7. CalmPath' /\ (~disturbed' => Calm(d)')
    BY <2>1, <2>3 DEF CalmPath
  <2> QED BY <1>0, <2>1, <2>4, <2>5, <2>6, <2>7, HolderStep
<1> QED BY <1>1, <1>2, <1>3

LEMMA QuarantineStep ==
  ASSUME SharedLock, Inv, NEW d \in Daemons,
         DiscardStale(d) \/ RestoreReplacement(d) \/ RemoveOwned(d) \/ RestoreOther(d)
  PROVE  Inv'
<1>1. CASE \/ ioError(d, "discard", "undo") \/ ioError(d, "dropq", "undo")
           \/ ioError(d, "cleandiscard", "release") \/ ioError(d, "cleandropq", "release")
  BY <1>1, IoErrorStep, Sets DEF Listens
<1>2. CASE \/ removeQuarantined(d, "discard", "link") \/ removeQuarantined(d, "dropq", "undo")
           \/ removeQuarantined(d, "cleandiscard", "release")
           \/ removeQuarantined(d, "cleandropq", "release")
  BY <1>2, RemovedQuarantined
<1>3. CASE \/ restorePathNoReplace(d, "restore", "dropq", "undo")
           \/ restorePathNoReplace(d, "cleanrestore", "cleandropq", "release")
  BY <1>3, Restored
<1> QED BY <1>1, <1>2, <1>3 DEF DiscardStale, RestoreReplacement, RemoveOwned, RestoreOther

\* The path is free, or Start gives up; while nobody interferes it is free.
LEMMA PublishStep ==
  ASSUME SharedLock, Inv, NEW d \in Daemons, Publish(d)
  PROVE  Inv'
<1> USE ControlAssumption
<1>1. CASE ioError(d, "link", "undo")
  BY <1>1, IoErrorStep, Sets DEF Listens
<1>2. CASE ~ioError(d, "link", "undo") /\ path # Nothing
  <2>1. /\ pc[d] = "link" /\ pc' = [pc EXCEPT ![d] = "undo"]
        /\ UNCHANGED <<lock, path, staged, quarantine, listening, stale, disturbed, dropped>>
    BY <1>2 DEF Publish, goto, history
  <2>2. /\ TypeOK /\ Knows(d) /\ (~disturbed => Calm(d))
        /\ (Known(d)' <=> Known(d)) /\ staged' \subseteq Daemons /\ pc'[d] = "undo"
    BY <2>1 DEF Inv, TypeOK, Known
  <2>3. Knows(d)'
    BY <2>1, <2>2 DEF Knows, Bare, Unpublished, Listens
  <2>4. ~disturbed' => Calm(d)'
    BY <1>2, <2>1, <2>2 DEF Calm
  <2> QED BY <2>1, <2>2, <2>3, <2>4, QuietStep, Sets
<1>3. CASE ~ioError(d, "link", "undo") /\ path = Nothing
  <2>1. /\ pc[d] = "link" /\ pc' = [pc EXCEPT ![d] = "unlink"] /\ path' = d
        /\ UNCHANGED <<lock, staged, quarantine, listening, stale, disturbed, dropped>>
    BY <1>3 DEF Publish, goto, history
  <2>2. TypeOK /\ Knows(d) /\ (~disturbed => Calm(d)) /\ CalmPath
    BY DEF Inv
  <2>3. pc'[d] = "unlink"
    BY <2>1, <2>2 DEF TypeOK
  <2>4. TypeOK'
    BY <2>1, <2>2, Sets DEF TypeOK, Inodes
  <2>5. ASSUME NEW e \in Daemons \ {d}, Known(e)' PROVE Known(e)
    BY <2>1, <2>5 DEF Known
  <2>6. Knows(d)'
    BY <2>1, <2>2, <2>3 DEF Knows, Bare, Unpublished, Listens
  <2>7. ~disturbed' => Calm(d)'
    BY <2>1, <2>3 DEF Calm, Upset
  <2>8. CalmPath'
    BY <2>1, <2>2 DEF CalmPath
  <2> QED BY <2>1, <2>4, <2>5, <2>6, <2>7, <2>8, HolderStep, Sets
<1> QED BY <1>1, <1>2, <1>3

LEMMA UnlinkStep ==
  ASSUME Inv, NEW d \in Daemons, Unlink(d)
  PROVE  Inv'
<1>1. CASE ioError(d, "unlink", "rollback")
  BY <1>1, IoErrorStep, Sets DEF Listens
<1>2. CASE ~ioError(d, "unlink", "rollback")
  <2>1. /\ pc[d] = "unlink" /\ pc' = [pc EXCEPT ![d] = "serving"] /\ staged' = staged \ {d}
        /\ UNCHANGED <<lock, path, quarantine, listening, stale, disturbed, dropped>>
    BY <1>2 DEF Unlink, goto, history
  <2>2. /\ TypeOK /\ Knows(d) /\ (~disturbed => Calm(d))
        /\ (Known(d)' <=> Known(d)) /\ staged' \subseteq Daemons /\ pc'[d] = "serving"
    BY <2>1 DEF Inv, TypeOK, Known
  <2>3. Knows(d)'
    BY <2>1, <2>2 DEF Knows, Bare, Unpublished, Listens
  <2>4. ~disturbed' => Calm(d)'
    BY <2>1, <2>2 DEF Calm, Upset
  <2> QED BY <2>1, <2>2, <2>3, <2>4, QuietStep, Sets
<1> QED BY <1>1, <1>2

LEMMA RollbackStep ==
  ASSUME SharedLock, Inv, NEW d \in Daemons, Rollback(d)
  PROVE  Inv'
<1> USE ControlAssumption
<1>1. CASE ioError(d, "rollback", "undo")
  BY <1>1, IoErrorStep, Sets DEF Listens
<1>2. CASE ~ioError(d, "rollback", "undo")
  <2>1. /\ pc[d] = "rollback" /\ pc' = [pc EXCEPT ![d] = "undo"] /\ path' = Nothing
        /\ UNCHANGED <<lock, staged, quarantine, listening, stale, disturbed, dropped>>
    BY <1>2 DEF Rollback, goto, history
  <2>2. TypeOK /\ Knows(d) /\ (~disturbed => Calm(d))
    BY DEF Inv
  <2>3. pc'[d] = "undo" /\ disturbed
    BY <2>1, <2>2 DEF TypeOK, Calm, Upset
  <2>4. TypeOK'
    BY <2>1, <2>2, Sets DEF TypeOK
  <2>5. ASSUME NEW e \in Daemons, Known(e)' PROVE Known(e)
    BY <2>1, <2>5 DEF Known
  <2>6. Knows(d)'
    BY <2>1, <2>2, <2>3 DEF Knows, Bare, Unpublished, Listens
  <2>7. CalmPath' /\ (~disturbed' => Calm(d)')
    BY <2>1, <2>3 DEF CalmPath
  <2> QED BY <2>1, <2>4, <2>5, <2>6, <2>7, HolderStep, Sets
<1> QED BY <1>1, <1>2

\* The listener is closed, by the undo of Start or by the shutdown.
LEMMA CloseStep ==
  ASSUME SharedLock, Inv, NEW d \in Daemons, CloseStaged(d) \/ CloseListener(d)
  PROVE  Inv'
<1>1. PICK to \in {"unstage", "wait"} :
        /\ pc[d] = IF to = "wait" THEN "serving" ELSE "undo"
        /\ pc' = [pc EXCEPT ![d] = to] /\ listening' = listening \ {d}
        /\ UNCHANGED <<lock, path, staged, quarantine, stale, disturbed, dropped>>
  BY DEF CloseStaged, CloseListener, goto, fileVars, history
<1>2. TypeOK /\ Knows(d) /\ (~disturbed => Calm(d)) /\ CalmPath
  BY DEF Inv
<1>3. pc'[d] = to
  BY <1>1, <1>2 DEF TypeOK
<1>4. TypeOK'
  BY <1>1, <1>2, Sets DEF TypeOK
<1>5. \A e \in Daemons : Known(e)' <=> Known(e)
  BY <1>1 DEF Known
<1>6. Knows(d)'
  BY <1>1, <1>2, <1>3, <1>5 DEF Knows, Bare, Unpublished, Listens
<1>7. ~disturbed' => Calm(d)'
  BY <1>1, <1>2, <1>3 DEF Calm, Upset
<1>8. CalmPath'
  BY <1>1, <1>2 DEF CalmPath
<1>9. pc[d] \in Active /\ to \in Active
  BY <1>1, Sets
<1> QED BY <1>1, <1>4, <1>5, <1>6, <1>7, <1>8, <1>9, HolderStep

LEMMA RemoveStagedStep ==
  ASSUME Inv, NEW d \in Daemons, RemoveStaged(d)
  PROVE  Inv'
<1>1. CASE ioError(d, "unstage", "giveup")
  BY <1>1, IoErrorStep, Sets DEF Listens
<1>2. CASE ~ioError(d, "unstage", "giveup")
  <2>1. /\ pc[d] = "unstage" /\ pc' = [pc EXCEPT ![d] = "giveup"] /\ staged' = staged \ {d}
        /\ UNCHANGED <<lock, path, quarantine, listening, stale, disturbed, dropped>>
    BY <1>2 DEF RemoveStaged, goto, history
  <2>2. /\ TypeOK /\ Knows(d) /\ (~disturbed => Calm(d))
        /\ (Known(d)' <=> Known(d)) /\ staged' \subseteq Daemons /\ pc'[d] = "giveup"
    BY <2>1 DEF Inv, TypeOK, Known
  <2>3. Knows(d)'
    BY <2>1, <2>2 DEF Knows, Bare, Unpublished, Listens
  <2>4. ~disturbed' => Calm(d)'
    BY <2>1, <2>2 DEF Calm, Upset
  <2> QED BY <2>1, <2>2, <2>3, <2>4, QuietStep, Sets
<1> QED BY <1>1, <1>2

-----------------------------------------------------------------------------
(* The end of a daemon.                                                    *)

\* A daemon that has ended knows nothing any more.
LEMMA Over ==
  ASSUME Inv, NEW d \in Daemons, NEW to \in {"failed", "stopped", "dead"},
         pc' = [pc EXCEPT ![d] = to], listening' = listening \ {d},
         UNCHANGED <<path, staged, quarantine, stale, disturbed, dropped>>,
         lock' = [l \in Locks |-> IF lock[l] = d THEN Nothing ELSE lock[l]],
         to = "failed" => disturbed
  PROVE  Inv'
<1> USE ControlAssumption
<1>1. TypeOK /\ LockInv /\ Knows(d) /\ CalmPath /\ pc'[d] = to
  BY DEF Inv, TypeOK
<1>2. TypeOK'
  BY <1>1, Sets DEF TypeOK
<1>3. LockInv'
  <2> SUFFICES ASSUME NEW e \in Daemons
               PROVE  pc'[e] \in Active <=> lock'[LockOf[e]] = e
    BY DEF LockInv
  <2>1. LockOf[e] \in Locks /\ (pc[e] \in Active <=> lock[LockOf[e]] = e)
    BY <1>1 DEF Locks, LockInv
  <2>2. CASE e = d
    BY <1>1, <2>1, <2>2, Sets
  <2>3. CASE e # d
    BY <1>1, <2>1, <2>3 DEF TypeOK
  <2> QED BY <2>2, <2>3
<1>4. CalmPath'
  BY <1>1 DEF CalmPath
<1>5. \A e \in Daemons \ {d} : Knows(e)' /\ (~disturbed' => Calm(e)')
  <2>1. disturbed' \in {disturbed, TRUE}
    OBVIOUS
  <2> QED BY <2>1, OthersByQuiet
<1>6. Knows(d)' /\ (~disturbed' => Calm(d)')
  BY <1>1 DEF Knows, Calm, Bare, Unpublished, Listens, Upset
<1> QED BY <1>2, <1>3, <1>4, <1>5, <1>6 DEF Inv

\* The lock that is released is the only one the daemon has.
LEMMA ReleaseStep ==
  ASSUME SharedLock, Inv, NEW d \in Daemons, StartFails(d) \/ Stop(d)
  PROVE  Inv'
<1> USE ControlAssumption
<1>1. PICK to \in {"failed", "stopped"} :
        /\ pc[d] = IF to = "failed" THEN "giveup" ELSE "release"
        /\ pc' = [pc EXCEPT ![d] = to] /\ lock' = [lock EXCEPT ![LockOf[d]] = Nothing]
        /\ UNCHANGED <<path, staged, quarantine, listening, stale, disturbed, dropped>>
  BY DEF StartFails, Stop, releaseLock, goto, fileVars, history
<1>2. TypeOK /\ LockInv /\ Knows(d) /\ (~disturbed => Calm(d))
  BY DEF Inv
<1>3. listening' = listening \ {d}
  BY <1>1, <1>2 DEF Knows, Listens
<1>4. to = "failed" => disturbed
  BY <1>1, <1>2 DEF Calm, Upset
<1>5. \A l \in Locks : l = LockOf[d]
  BY DEF SharedLock, Locks
<1>6. lock[LockOf[d]] = d
  BY <1>1, <1>2, Sets DEF LockInv
<1>7. lock' = [l \in Locks |-> IF lock[l] = d THEN Nothing ELSE lock[l]]
  BY <1>1, <1>2, <1>5, <1>6 DEF TypeOK
<1> QED BY <1>1, <1>3, <1>4, <1>7, Over

LEMMA CrashStep ==
  ASSUME Inv, NEW d \in Daemons, Crash(d)
  PROVE  Inv'
BY Over DEF Crash, fileVars, history

-----------------------------------------------------------------------------
(* Shutdown.                                                               *)

LEMMA ShutdownStep ==
  ASSUME SharedLock, Inv, NEW d \in Daemons, Wait(d) \/ MoveOwned(d) \/ VerifyOwned(d)
  PROVE  Inv'
<1>1. CASE \/ ioError(d, "cleanmove", "release") \/ ioError(d, "cleanverify", "cleanrestore")
  BY <1>1, IoErrorStep, Sets DEF Listens
<1>2. CASE moveAway(d, "cleanmove", "cleanverify", "release") /\ path # Nothing
  BY <1>2, MovedAway DEF moveAway, goto, history
<1>3. ASSUME NEW to \in {"cleanmove", "release", "cleandiscard", "cleanrestore"},
             pc' = [pc EXCEPT ![d] = to],
             \/ to = "cleanmove" /\ pc[d] = "wait"
             \/ to = "release" /\ pc[d] = "cleanmove"
             \/ to = "cleandiscard" /\ pc[d] = "cleanverify" /\ quarantine[d] = d
             \/ to = "cleanrestore" /\ pc[d] = "cleanverify" /\ quarantine[d] # d,
             UNCHANGED <<lock, path, staged, quarantine, listening, stale, disturbed, dropped>>
      PROVE  Inv'
  <2>1. /\ TypeOK /\ Knows(d) /\ (~disturbed => Calm(d))
        /\ (Known(d)' <=> Known(d)) /\ staged' \subseteq Daemons /\ pc'[d] = to
    BY <1>3 DEF Inv, TypeOK, Known
  <2>2. Knows(d)'
    BY <1>3, <2>1 DEF Knows, Bare, Unpublished, Listens
  <2>3. ~disturbed' => Calm(d)'
    BY <1>3, <2>1 DEF Calm, Upset
  <2> QED BY <1>3, <2>1, <2>2, <2>3, QuietStep, Sets
<1>4. CASE Wait(d)
  BY <1>3, <1>4 DEF Wait, goto, fileVars, history
<1>5. CASE moveAway(d, "cleanmove", "cleanverify", "release") /\ path = Nothing
  BY <1>3, <1>5 DEF moveAway, goto, fileVars, history
<1>6. CASE VerifyOwned(d) /\ ~ioError(d, "cleanverify", "cleanrestore")
  BY <1>3, <1>6 DEF VerifyOwned, verify, goto, fileVars, history
<1> QED BY <1>1, <1>2, <1>4, <1>5, <1>6 DEF MoveOwned

-----------------------------------------------------------------------------
(* Other programs.                                                         *)

\* They disturb, and they do not bring back an inode that a daemon remembers.
LEMMA OutsiderStep ==
  ASSUME Inv, Outsider
  PROVE  Inv'
<1> USE ControlAssumption
<1>1. TypeOK /\ LockInv /\ CalmPath /\ Nothing \notin listening
      /\ \A d \in Daemons : Knows(d) /\ (~disturbed => Calm(d))
  BY DEF Inv, TypeOK, Inodes
<1>2. UNCHANGED <<lock, staged, quarantine, pc, stale>>
  BY DEF Outsider, OutsiderRemoves, OutsiderPlaces, OutsiderCloses, fileVars
<1>3. LockInv'
  BY <1>1, <1>2 DEF LockInv
<1>4. CASE OutsiderRemoves
  <2>1. /\ path' = Nothing /\ disturbed' = TRUE /\ dropped' = dropped \cup {path}
        /\ path # Nothing /\ listening' = listening
    BY <1>4 DEF OutsiderRemoves
  <2>2. TypeOK' /\ CalmPath'
    BY <1>1, <1>2, <2>1 DEF TypeOK, CalmPath
  <2>3. ASSUME NEW d \in Daemons PROVE Knows(d)'
    <3>1. Known(d)' => Known(d)
      BY <1>2, <2>1 DEF Known
    <3> QED BY <1>1, <1>2, <2>1, <3>1 DEF Knows
  <2> QED BY <1>3, <2>1, <2>2, <2>3 DEF Inv
<1>5. ASSUME NEW i \in Foreign, OutsiderPlaces(i) PROVE Inv'
  <2>1. /\ path = Nothing /\ path' = i /\ disturbed' = TRUE /\ dropped' = dropped \ {i}
        /\ \A d \in Daemons : quarantine[d] # i /\ (stale[d] = i => pc[d] \in Ended)
        /\ listening' = listening \/ (i \notin Regular /\ listening' = listening \cup {i})
    BY <1>5 DEF OutsiderPlaces
  <2>2. TypeOK' /\ CalmPath'
    BY <1>1, <1>2, <2>1 DEF TypeOK, CalmPath, Inodes
  <2>3. ASSUME NEW d \in Daemons PROVE Knows(d)'
    <3>1. Known(d)' => Known(d)
      BY <1>2, <2>1 DEF Known
    <3>2. d \in listening' <=> d \in listening
      BY <2>1
    <3>3. pc[d] \in {"listen", "move", "verify", "discard"} => stale[d] # i
      BY <2>1 DEF Ended
    <3>4. pc[d] \in {"listen", "move", "verify", "discard"} /\ stale[d] \in {i, quarantine[d]} =>
            stale[d] \notin listening'
      BY <1>1, <2>1, <3>3 DEF Knows
    <3>5. quarantine[d] \in {Nothing} \cup dropped => quarantine[d] \in {i, Nothing} \cup dropped'
      BY <2>1
    <3> QED BY <1>1, <1>2, <2>1, <3>1, <3>2, <3>4, <3>5 DEF Knows
  <2> QED BY <1>3, <2>1, <2>2, <2>3 DEF Inv
<1>6. ASSUME NEW i \in Foreign, OutsiderCloses(i) PROVE Inv'
  <2>1. listening' = listening \ {i} /\ UNCHANGED <<path, disturbed, dropped>>
    BY <1>6 DEF OutsiderCloses, fileVars, history
  <2>2. TypeOK' /\ CalmPath'
    BY <1>1, <1>2, <2>1 DEF TypeOK, CalmPath
  <2>3. ASSUME NEW d \in Daemons PROVE Knows(d)' /\ (~disturbed' => Calm(d)')
    <3>1. (Known(d)' <=> Known(d)) /\ (d \in listening' <=> d \in listening)
      BY <1>2, <2>1 DEF Known
    <3> QED BY <1>1, <1>2, <2>1, <3>1 DEF Knows, Calm
  <2> QED BY <1>3, <2>2, <2>3 DEF Inv
<1> QED BY <1>4, <1>5, <1>6 DEF Outsider

LEMMA NextKeeps ==
  ASSUME SharedLock, Inv, [Next]_vars
  PROVE  Inv'
<1>1. ASSUME NEW d \in Daemons, Start(d) PROVE Inv'
  BY <1>1, EnsureRuntimeDirStep, TryLockStep, LstatStep, DialStep, ListenStagedStep,
     MoveStaleStep, VerifyStaleStep, QuarantineStep, PublishStep, UnlinkStep, RollbackStep,
     CloseStep, RemoveStagedStep, ReleaseStep DEF Start
<1>2. ASSUME NEW d \in Daemons, Shutdown(d) PROVE Inv'
  BY <1>2, CloseStep, ShutdownStep, QuarantineStep, ReleaseStep DEF Shutdown
<1>3. CASE UNCHANGED vars
  <2>1. TypeOK' /\ LockInv' /\ CalmPath'
    BY <1>3 DEF vars, Inv, TypeOK, LockInv, CalmPath
  <2>2. ASSUME NEW d \in Daemons PROVE Knows(d)' /\ (~disturbed' => Calm(d)')
    BY <1>3 DEF vars, Inv, Knows, Known, Calm
  <2> QED BY <2>1, <2>2 DEF Inv
<1> QED BY <1>1, <1>2, <1>3, CrashStep, OutsiderStep DEF Next

LEMMA Invariance ==
  ASSUME SharedLock
  PROVE  Spec => []Inv
<1>1. Init => Inv
  BY InitInv
<1>2. Inv /\ [Next]_vars => Inv'
  BY NextKeeps
<1> QED BY <1>1, <1>2, PTL DEF Spec

-----------------------------------------------------------------------------
(* The theorems.                                                           *)

\* The lock, the names and the daemons keep their types; in particular the path
\* names one inode or nothing after any mix of crashes and errors.
THEOREM TypeCorrect ==
  ASSUME SharedLock
  PROVE  Spec => []TypeOK
<1>1. Inv => TypeOK
  BY DEF Inv
<1> QED BY <1>1, Invariance, PTL

\* The ownership lock of control.go: any number of daemons with one lock file have
\* one server, and none serves while another cleans up.
THEOREM ThereIsOneServer ==
  ASSUME SharedLock
  PROVE  Spec => []OneServer
<1>1. Inv => OneServer
  <2> SUFFICES ASSUME Inv, NEW d \in Daemons, NEW e \in Daemons,
                      pc[d] \in Serving \cup Cleaning, pc[e] \in Serving
               PROVE  d = e
    BY DEF OneServer
  <2>1. pc[d] \in Active /\ pc[e] \in Active
    BY DEF Active
  <2> QED BY <2>1, OneActive
<1> QED BY <1>1, Invariance, PTL

\* Start and installStagedSocket: an undisturbed daemon that serves is found at
\* its path, whatever the daemons before it left there.
THEOREM ServersAreFound ==
  ASSUME SharedLock
  PROVE  Spec => []ServesItsPath
<1>1. Inv => ServesItsPath
  BY DEF Inv, Knows, Calm, Listens, ServesItsPath
<1> QED BY <1>1, Invariance, PTL

\* preparePath: what a daemon that died at any step left does not make Start fail.
THEOREM StartRecovers ==
  ASSUME SharedLock
  PROVE  Spec => []RecoversFromCrash
<1>1. Inv => RecoversFromCrash
  BY DEF Inv, Calm, Upset, RecoversFromCrash
<1> QED BY <1>1, Invariance, PTL

\* A step that takes the last name of i: the daemon that moved took it from its
\* quarantine, from the staged names or, in a rollback, from the path.
LEMMA LastName ==
  ASSUME SharedLock, Inv, NEW i \in Inodes, HasName(i), ~HasName(i)', Next
  PROVE  \/ UNCHANGED pc \/ i \in dropped
         \/ \E d \in Daemons : /\ pc'[d] # pc[d]
                              /\ \/ i = d
                                 \/ i = stale[d] /\ i \notin listening
                                 \/ pc[d] = "rollback"
<1> USE ControlAssumption
<1>0. TypeOK /\ i # Nothing /\ \A d \in Daemons : Knows(d)
  BY DEF Inv, Inodes
<1>1. CASE Outsider
  BY <1>1 DEF Outsider, OutsiderRemoves, OutsiderPlaces, OutsiderCloses
<1>2. ASSUME NEW d \in Daemons, UNCHANGED <<path, staged, quarantine>> PROVE FALSE
  BY <1>2 DEF HasName
<1>3. ASSUME NEW d \in Daemons, UNCHANGED <<staged, quarantine>>,
             path = Nothing \/ path' = path
      PROVE  FALSE
  BY <1>0, <1>3 DEF HasName
<1>4. ASSUME NEW d \in Daemons, UNCHANGED <<path, quarantine>>,
             staged' \in {staged \cup {d}, staged \ {d}}
      PROVE  i = d
  BY <1>4 DEF HasName
<1>5. ASSUME NEW d \in Daemons, NEW from, NEW moved, NEW absent,
             moveAway(d, from, moved, absent), from \in {"move", "cleanmove"}
      PROVE  FALSE
  <2>1. CASE path = Nothing
    BY <1>2, <1>5, <2>1 DEF moveAway, fileVars
  <2>2. CASE path # Nothing
    <3>1. /\ quarantine' = [quarantine EXCEPT ![d] = path] /\ path' = Nothing
          /\ staged' = staged /\ pc[d] = from
      BY <1>5, <2>2 DEF moveAway, goto
    <3>2. quarantine[d] = Nothing
      BY <1>0, <1>5, <3>1 DEF Knows, Bare
    <3>3. quarantine'[d] = path /\ \A e \in Daemons \ {d} : quarantine'[e] = quarantine[e]
      BY <1>0, <3>1 DEF TypeOK
    <3> QED BY <1>0, <3>1, <3>2, <3>3 DEF HasName
  <2> QED BY <2>1, <2>2
<1>6. ASSUME NEW d \in Daemons, NEW from, NEW to, removeQuarantined(d, from, to),
             from \in {"discard", "dropq", "cleandiscard", "cleandropq"}
      PROVE  /\ pc[d] = from /\ quarantine[d] = i
             /\ i = d \/ i \in dropped \/ (i = stale[d] /\ i \notin listening)
  <2>1. /\ quarantine' = [quarantine EXCEPT ![d] = Nothing] /\ UNCHANGED <<path, staged>>
        /\ pc[d] = from
    BY <1>6 DEF removeQuarantined, goto
  <2>2. quarantine[d] = i /\ path # i
    <3>1. \A e \in Daemons \ {d} : quarantine'[e] = quarantine[e]
      BY <1>0, <2>1 DEF TypeOK
    <3> QED BY <2>1, <3>1 DEF HasName
  <2> QED BY <1>0, <1>6, <2>1, <2>2 DEF Knows
<1>7. ASSUME NEW d \in Daemons, pc' # pc, pc' = [pc EXCEPT ![d] = pc'[d]] PROVE pc'[d] # pc[d]
  BY <1>0, <1>7 DEF TypeOK
<1>8. ASSUME NEW d \in Daemons, NEW from, NEW to, goto(d, from, to), from # to
      PROVE  pc'[d] # pc[d]
  BY <1>0, <1>8 DEF goto, TypeOK
<1>9. ASSUME NEW d \in Daemons, NEW from, NEW to, ioError(d, from, to) PROVE FALSE
  BY <1>2, <1>9 DEF ioError, fileVars
<1>10. ASSUME NEW d \in Daemons, Start(d)
       PROVE  /\ pc'[d] # pc[d]
              /\ \/ i = d \/ i \in dropped
                 \/ i = stale[d] /\ i \notin listening
                 \/ pc[d] = "rollback"
  <2>1. CASE \/ EnsureRuntimeDir(d) \/ TryLock(d) \/ Lstat(d) \/ Dial(d) \/ VerifyStale(d)
             \/ CloseStaged(d) \/ StartFails(d)
    BY <1>2, <1>9, <2>1 DEF EnsureRuntimeDir, TryLock, Lstat, Dial, VerifyStale, verify,
                            CloseStaged, StartFails, releaseLock, fileVars
  <2>2. CASE ListenStaged(d) \/ Unlink(d) \/ RemoveStaged(d)
    <3>1. UNCHANGED <<path, quarantine>> /\ staged' \in {staged \cup {d}, staged \ {d}}
      BY <1>9, <2>2 DEF ListenStaged, Unlink, RemoveStaged
    <3>2. pc'[d] # pc[d]
      BY <1>8, <1>9, <2>2 DEF ListenStaged, Unlink, RemoveStaged
    <3> QED BY <1>4, <3>1, <3>2
  <2>3. CASE MoveStale(d)
    BY <1>5, <1>9, <2>3 DEF MoveStale
  <2>4. CASE DiscardStale(d) \/ RestoreReplacement(d)
    <3>1. CASE restorePathNoReplace(d, "restore", "dropq", "undo")
      BY <1>3, <1>9, <3>1 DEF restorePathNoReplace
    <3>2. CASE removeQuarantined(d, "discard", "link") \/ removeQuarantined(d, "dropq", "undo")
      <4>1. pc'[d] # pc[d]
        BY <1>8, <3>2 DEF removeQuarantined
      <4> QED BY <1>6, <3>2, <4>1
    <3> QED BY <1>9, <2>4, <3>1, <3>2 DEF DiscardStale, RestoreReplacement
  <2>5. CASE Publish(d)
    BY <1>3, <1>9, <2>5 DEF Publish
  <2>6. CASE Rollback(d)
    BY <1>8, <1>9, <2>6 DEF Rollback, goto
  <2> QED BY <1>10, <2>1, <2>2, <2>3, <2>4, <2>5, <2>6 DEF Start
<1>11. ASSUME NEW d \in Daemons, Shutdown(d)
       PROVE  /\ pc'[d] # pc[d]
              /\ \/ i = d \/ i \in dropped
                 \/ i = stale[d] /\ i \notin listening
  <2>1. CASE CloseListener(d) \/ Wait(d) \/ VerifyOwned(d) \/ Stop(d)
    BY <1>2, <1>9, <2>1 DEF CloseListener, Wait, VerifyOwned, verify, Stop, releaseLock, fileVars
  <2>2. CASE MoveOwned(d)
    BY <1>5, <1>9, <2>2 DEF MoveOwned
  <2>3. CASE RemoveOwned(d) \/ RestoreOther(d)
    <3>1. CASE restorePathNoReplace(d, "cleanrestore", "cleandropq", "release")
      BY <1>3, <1>9, <3>1 DEF restorePathNoReplace
    <3>2. CASE \/ removeQuarantined(d, "cleandiscard", "release")
               \/ removeQuarantined(d, "cleandropq", "release")
      <4>1. pc'[d] # pc[d]
        BY <1>8, <3>2 DEF removeQuarantined
      <4> QED BY <1>6, <3>2, <4>1
    <3> QED BY <1>9, <2>3, <3>1, <3>2 DEF RemoveOwned, RestoreOther
  <2> QED BY <1>11, <2>1, <2>2, <2>3 DEF Shutdown
<1>12. ASSUME NEW d \in Daemons, Crash(d) PROVE FALSE
  BY <1>2, <1>12 DEF Crash, fileVars
<1> QED BY <1>1, <1>10, <1>11, <1>12 DEF Next

\* removeOwnedSocket, installStagedSocket and restorePathNoReplace: a daemon takes
\* the last name of an inode only if it is its own or a stale one it inspected,
\* whatever other programs put at the path meanwhile.
THEOREM NamesAreKept ==
  ASSUME SharedLock
  PROVE  Spec => OthersKeepTheirNames
<1> DEFINE Keeps ==
      \A i \in Inodes : HasName(i) /\ ~HasName(i)' =>
        \/ UNCHANGED pc \/ i \in dropped
        \/ \E d \in Daemons : /\ pc'[d] # pc[d]
                             /\ \/ i = d
                                \/ i = stale[d] /\ i \notin listening
                                \/ pc[d] = "rollback"
<1>1. Inv /\ [Next]_vars => [Keeps]_vars
  BY LastName
<1> QED BY <1>1, Invariance, PTL DEF Spec, OthersKeepTheirNames

-----------------------------------------------------------------------------
(* The connections of a daemon that serves (ControlConns), for any set of  *)
(* connections: shutdown finds every open one, and when Wait goes on to    *)
(* the cleanup of the path nothing of the socket is left.                  *)

\* The points of a handler that has been started and has not ended.
LiveHandler == {"scan", "write", "close", "delete"}

\* The types of the variables that decide who owns a connection.
ConnShape ==
  /\ conn \in [Conns -> {"none", "backlog", "open", "closed"}]
  /\ acceptor \in {"accept", "authorize", "register", "refuse", "reject", "done"}
  /\ cur \subseteq Conns
  /\ connections \subseteq Conns
  /\ handler \in [Conns -> {"none", "done"} \cup LiveHandler]
  /\ shuttingDown \in BOOLEAN
  /\ shutter \in {"idle", "close", "mark", "done"}
  /\ waiter \in {"idle", "accept", "handlers", "cleanup"}

\* The accept loop holds one open connection, without a handler, from Accept
\* until it is registered or closed.
CurInv ==
  /\ acceptor \in {"accept", "done"} => cur = {}
  /\ \A c, d \in cur : c = d
  /\ \A c \in cur : conn[c] = "open" /\ handler[c] = "none"

\* The table holds the connections with a live handler; a handler closes its
\* connection before it deletes the entry.
TableInv ==
  /\ \A c \in Conns : c \in connections <=> handler[c] \in LiveHandler
  /\ \A c \in Conns : handler[c] # "none" => conn[c] \in {"open", "closed"}
  /\ \A c \in Conns : handler[c] = "delete" => conn[c] = "closed"
  /\ \A c \in Conns : conn[c] = "open" => c \in cur \cup connections

\* shuttingDown is set in the critical section that closes the table's
\* connections, and nothing is registered behind it.
ShutdownInv ==
  /\ shuttingDown <=> shutter = "done"
  /\ shuttingDown => \A c \in connections : conn[c] = "closed"

\* Wait is past the accept loop, or past the handlers too.
WaitInv ==
  /\ waiter \in {"handlers", "cleanup"} => acceptor = "done"
  /\ waiter = "cleanup" => \A c \in Conns : handler[c] \notin LiveHandler

ConnInv == ConnShape /\ CurInv /\ TableInv /\ ShutdownInv /\ WaitInv

-----------------------------------------------------------------------------

LEMMA ConnInitInv == ConnInit => ConnInv
BY DEF ConnInit, ConnInv, ConnShape, CurInv, TableInv, ShutdownInv, WaitInv, LiveHandler

\* The clients change nothing but a connection that is not yet made.
LEMMA ClientInv ==
  ASSUME ConnInv, NEW c \in Conns, Client(c)
  PROVE  ConnInv'
<1> USE DEF ConnInv, ConnShape, CurInv, TableInv, ShutdownInv, WaitInv, LiveHandler
<1>1. CASE Connect(c)
  BY <1>1 DEF Connect
<1>2. CASE SendLine(c) \/ Hangup(c)
  BY <1>2 DEF SendLine, Hangup
<1> QED BY <1>1, <1>2 DEF Client

\* The accept loop: a connection moves from the backlog to cur, and from there
\* to the table or to its end.
LEMMA AcceptInv ==
  ASSUME ConnInv, AcceptLoop \/ AcceptFails
  PROVE  ConnInv'
<1> USE DEF ConnInv, ConnShape, CurInv, TableInv, ShutdownInv, WaitInv, LiveHandler,
            clientVars, handleVars
<1>1. CASE Accept \/ AcceptFails
  BY <1>1 DEF Accept, AcceptFails
<1>2. ASSUME NEW c \in Conns, Authorize(c) PROVE ConnInv'
  BY <1>2 DEF Authorize
<1>3. ASSUME NEW c \in Conns, Register(c) PROVE ConnInv'
  BY <1>3 DEF Register
<1>4. ASSUME NEW c \in Conns, CloseRefused(c) PROVE ConnInv'
  BY <1>4 DEF CloseRefused
<1> QED BY <1>1, <1>2, <1>3, <1>4 DEF AcceptLoop

\* A handler leaves the table only with its connection closed.
LEMMA HandlerInv ==
  ASSUME ConnInv, NEW c \in Conns, HandlerStep(c) \/ WriteAnswer(c)
  PROVE  ConnInv'
<1> USE DEF ConnInv, ConnShape, CurInv, TableInv, ShutdownInv, WaitInv, LiveHandler,
            clientVars, acceptVars
<1>1. CASE Read(c) \/ HandleCommand(c) \/ ScanEnds(c)
  BY <1>1 DEF Read, HandleCommand, ScanEnds
<1>2. CASE WriteAnswer(c) \/ WriteFails(c)
  BY <1>2 DEF WriteAnswer, WriteFails
<1>3. CASE CloseConn(c)
  BY <1>3 DEF CloseConn
<1>4. CASE DeleteConn(c)
  BY <1>4 DEF DeleteConn
<1> QED BY <1>1, <1>2, <1>3, <1>4 DEF HandlerStep

\* Shutdown closes the listener, then the connections of the table; Wait waits.
LEMMA ShutdownStepInv ==
  ASSUME ConnInv, Cancel \/ BeginShutdown \/ WaitForAll
  PROVE  ConnInv'
<1> USE DEF ConnInv, ConnShape, CurInv, TableInv, ShutdownInv, WaitInv, LiveHandler,
            clientVars, acceptVars, handleVars
<1>1. CASE Cancel
  BY <1>1 DEF Cancel
<1>2. CASE StopListening
  BY <1>2 DEF StopListening
<1>3. CASE MarkAndClose
  BY <1>3 DEF MarkAndClose
<1>4. CASE WaitForAll
  BY <1>4 DEF WaitForAll, CallWait, WaitAccept, WaitHandlers
<1> QED BY <1>1, <1>2, <1>3, <1>4 DEF BeginShutdown

LEMMA ConnInductive == ConnSpec => []ConnInv
<1>1. ConnInv /\ [ConnNext]_connVars => ConnInv'
  <2> SUFFICES ASSUME ConnInv, [ConnNext]_connVars PROVE ConnInv'
    OBVIOUS
  <2>1. CASE UNCHANGED connVars
    BY <2>1 DEF connVars, ConnInv, ConnShape, CurInv, TableInv, ShutdownInv, WaitInv
  <2> QED BY <2>1, ClientInv, AcceptInv, HandlerInv, ShutdownStepInv DEF ConnNext
<1> QED BY ConnInitInv, <1>1, PTL DEF ConnSpec

\* No connection escapes the shutdown, and cleanup runs alone (acceptLoop,
\* handleConn, beginShutdown and Wait of control_lifecycle.go).
THEOREM OpenConnectionsAreOwned == ConnSpec => []OpenIsOwned
<1>1. ConnInv => OpenIsOwned
  BY DEF ConnInv, ConnShape, CurInv, TableInv, ShutdownInv, WaitInv, LiveHandler,
         OpenIsOwned
<1> QED BY ConnInductive, <1>1, PTL

=============================================================================
