--------------------------- MODULE ControlSocket ---------------------------
(* Ownership of the public pathname of the control socket                  *)
(* (internal/mcp/control.go, control_publication.go): daemons that are     *)
(* started for one path, take the advisory lock, publish a staged socket,  *)
(* replace a stale one, remove their own at shutdown, or die at any step.  *)
(* A step is one system call.  An inode is named by the daemon that bound  *)
(* it or is foreign: put at the path by a program without the lock.        *)

CONSTANTS Daemons,      \* runs of portoland; a restart is another one
          Foreign,      \* inodes of other programs and of earlier daemons
          Regular,      \* the foreign inodes that are not sockets
          LockOf,       \* the lock file of each daemon: ownershipLockPath
          Nothing       \* no inode, or nobody holds the lock

ASSUME ControlAssumption ==
  /\ Regular \subseteq Foreign /\ Daemons \cap Foreign = {}
  /\ Nothing \notin Daemons \cup Foreign

Inodes == Daemons \cup Foreign
Locks == {LockOf[d] : d \in Daemons}

VARIABLES
  lock,         \* who holds each lock file
  path,         \* the inode the public pathname names
  staged,       \* the daemons whose staged pathname exists
  quarantine,   \* what each daemon has in its quarantine directory
  listening,    \* the sockets that accept connections
  pc,           \* where each daemon is
  stale,        \* staleInfo: the inode preparePath inspected
  disturbed,    \* history: another program or an I/O error interfered
  dropped       \* history: what another program removed from the path

vars == <<lock, path, staged, quarantine, listening, pc, stale,
          disturbed, dropped>>
fileVars == <<path, staged, quarantine>>
history == <<disturbed, dropped>>

\* Ended: no step left.  Publishing: in Start, with a staged socket.
Ended == {"busy", "failed", "stopped", "dead"}
Publishing == {"move", "verify", "discard", "restore", "dropq", "link", "unlink",
               "rollback", "undo", "unstage"}
Serving == {"serving"}
Cleaning == {"wait", "cleanmove", "cleanverify", "cleandiscard", "cleanrestore",
             "cleandropq"}
Points == {"off", "lock", "lstat", "dial", "listen", "giveup", "release"}
            \cup Publishing \cup Serving \cup Cleaning \cup Ended

TypeOK ==
  /\ lock \in [Locks -> Daemons \cup {Nothing}]
  /\ path \in Inodes \cup {Nothing}
  /\ staged \subseteq Daemons
  /\ quarantine \in [Daemons -> Inodes \cup {Nothing}]
  /\ listening \subseteq Inodes \ Regular
  /\ pc \in [Daemons -> Points]
  /\ stale \in [Daemons -> (Inodes \ Regular) \cup {Nothing}]
  /\ disturbed \in BOOLEAN
  /\ dropped \subseteq Inodes

\* The path may hold the socket of an earlier daemon that died.
Init ==
  /\ lock = [l \in Locks |-> Nothing]
  /\ path \in {Nothing} \cup (Foreign \ Regular)
  /\ staged = {}
  /\ quarantine = [d \in Daemons |-> Nothing]
  /\ listening = {}
  /\ pc = [d \in Daemons |-> "off"]
  /\ stale = [d \in Daemons |-> Nothing]
  /\ disturbed = FALSE
  /\ dropped = {}

goto(d, from, to) == pc[d] = from /\ pc' = [pc EXCEPT ![d] = to]

\* A system call of d fails for a reason outside the model.
ioError(d, from, to) ==
  /\ goto(d, from, to)
  /\ disturbed' = TRUE
  /\ UNCHANGED <<lock, fileVars, listening, stale, dropped>>

---------------------------------------------------------------------------
(* Start                                                                   *)

\* ensureControlRuntimeDir and validateUserOwnedDir: the directories exist, are
\* the user's and are private, or Start fails.
EnsureRuntimeDir(d) ==
  \/ ioError(d, "off", "failed")
  \/ /\ goto(d, "off", "lock")
     /\ UNCHANGED <<lock, fileVars, listening, stale, history>>

\* Mutant: a busy lock does not stop Start.
TryLockIgnored(d) ==
  /\ goto(d, "lock", "lstat")
  /\ lock' = [lock EXCEPT ![LockOf[d]] = d]
  /\ UNCHANGED <<fileVars, listening, stale, history>>

\* openOwnershipLock may fail; then flock, without waiting.
TryLock(d) ==
  \/ ioError(d, "lock", "failed")
  \/ /\ IF lock[LockOf[d]] = Nothing
          THEN goto(d, "lock", "lstat") /\ lock' = [lock EXCEPT ![LockOf[d]] = d]
          ELSE goto(d, "lock", "busy") /\ UNCHANGED lock
     /\ UNCHANGED <<fileVars, listening, stale, history>>

\* Mutant: whatever exists is refused, as by a plain net.Listen.
LstatRefuses(d) ==
  /\ goto(d, "lstat", IF path = Nothing THEN "listen" ELSE "giveup")
  /\ UNCHANGED <<lock, fileVars, listening, stale, history>>

\* preparePath: what is at the public path?
Lstat(d) ==
  \/ ioError(d, "lstat", "giveup")
  \/ /\ goto(d, "lstat", CASE path = Nothing -> "listen"
                           [] path \in Regular -> "giveup"
                           [] OTHER -> "dial")
     /\ stale' = [stale EXCEPT ![d] = IF path \in Regular THEN Nothing ELSE path]
     /\ UNCHANGED <<lock, fileVars, listening, history>>

\* preparePath: the probe connects to a listener, or is refused, or finds
\* that the pathname has gone.
Dial(d) ==
  \/ ioError(d, "dial", "giveup")
  \/ /\ goto(d, "dial", IF path \in listening THEN "giveup" ELSE "listen")
     /\ UNCHANGED <<lock, fileVars, listening, stale, history>>

\* listenStaged and the chmod of the staged socket.
ListenStaged(d) ==
  \/ ioError(d, "listen", "giveup")
  \/ /\ \/ goto(d, "listen", IF stale[d] = Nothing THEN "link" ELSE "move")
           /\ UNCHANGED disturbed
        \/ goto(d, "listen", "undo") /\ disturbed' = TRUE
     /\ staged' = staged \cup {d}
     /\ listening' = listening \cup {d}
     /\ UNCHANGED <<lock, path, quarantine, stale, dropped>>

\* os.Rename of the public path into a fresh quarantine directory.
moveAway(d, from, moved, gone) ==
  /\ IF path = Nothing
       THEN goto(d, from, gone) /\ UNCHANGED fileVars
       ELSE /\ goto(d, from, moved)
            /\ quarantine' = [quarantine EXCEPT ![d] = path]
            /\ path' = Nothing
            /\ UNCHANGED staged
  /\ UNCHANGED <<lock, listening, stale, history>>

\* os.Lstat and os.SameFile of what is in quarantine.
verify(d, from, want, same, other) ==
  \/ ioError(d, from, other)
  \/ /\ goto(d, from, IF quarantine[d] = want THEN same ELSE other)
     /\ UNCHANGED <<lock, fileVars, listening, stale, history>>

\* os.Remove of what is in quarantine.
removeQuarantined(d, from, to) ==
  /\ goto(d, from, to)
  /\ quarantine' = [quarantine EXCEPT ![d] = Nothing]
  /\ UNCHANGED <<lock, path, staged, listening, stale, history>>

\* restorePathNoReplace: os.Link fails if the public path exists again.
restorePathNoReplace(d, from, linked, to) ==
  \/ ioError(d, from, to)
  \/ /\ IF path = Nothing
          THEN path' = quarantine[d] /\ goto(d, from, linked)
          ELSE UNCHANGED path /\ goto(d, from, to)
     /\ UNCHANGED <<lock, staged, quarantine, listening, stale, history>>

\* installStagedSocket, when preparePath found a stale socket.
MoveStale(d) ==
  \/ ioError(d, "move", "undo")
  \/ moveAway(d, "move", "verify", "link")

VerifyStale(d) == verify(d, "verify", stale[d], "discard", "restore")

DiscardStale(d) ==
  \/ ioError(d, "discard", "undo")
  \/ removeQuarantined(d, "discard", "link")

RestoreReplacement(d) ==
  \/ restorePathNoReplace(d, "restore", "dropq", "undo")
  \/ ioError(d, "dropq", "undo")
  \/ removeQuarantined(d, "dropq", "undo")

\* installStagedSocket: publication, without replacing anything.
Publish(d) ==
  \/ ioError(d, "link", "undo")
  \/ /\ IF path = Nothing
          THEN path' = d /\ goto(d, "link", "unlink")
          ELSE UNCHANGED path /\ goto(d, "link", "undo")
     /\ UNCHANGED <<lock, staged, quarantine, listening, stale, history>>

\* The staged name goes; Start is done.  If it cannot be removed, the public
\* name is removed instead.
Unlink(d) ==
  \/ ioError(d, "unlink", "rollback")
  \/ /\ goto(d, "unlink", "serving")
     /\ staged' = staged \ {d}
     /\ UNCHANGED <<lock, path, quarantine, listening, stale, history>>

Rollback(d) ==
  \/ ioError(d, "rollback", "undo")
  \/ /\ goto(d, "rollback", "undo")
     /\ path' = Nothing
     /\ UNCHANGED <<lock, staged, quarantine, listening, stale, history>>

\* The error paths of Start: ln.Close, os.Remove(stagedPath), releaseLock.
CloseStaged(d) ==
  /\ goto(d, "undo", "unstage")
  /\ listening' = listening \ {d}
  /\ UNCHANGED <<lock, fileVars, stale, history>>

RemoveStaged(d) ==
  \/ ioError(d, "unstage", "giveup")
  \/ /\ goto(d, "unstage", "giveup")
     /\ staged' = staged \ {d}
     /\ UNCHANGED <<lock, path, quarantine, listening, stale, history>>

releaseLock(d, from, to) ==
  /\ goto(d, from, to)
  /\ lock' = [lock EXCEPT ![LockOf[d]] = Nothing]
  /\ UNCHANGED <<fileVars, listening, stale, history>>

StartFails(d) == releaseLock(d, "giveup", "failed")

---------------------------------------------------------------------------
(* Shutdown                                                                *)

\* Mutant: the lock is released when the listener closes.
CloseListenerUnlocks(d) ==
  /\ goto(d, "serving", "wait")
  /\ listening' = listening \ {d}
  /\ lock' = [lock EXCEPT ![LockOf[d]] = Nothing]
  /\ UNCHANGED <<fileVars, stale, history>>

\* beginShutdown closes the listener; Wait goes on to cleanup.
CloseListener(d) ==
  /\ goto(d, "serving", "wait")
  /\ listening' = listening \ {d}
  /\ UNCHANGED <<lock, fileVars, stale, history>>

Wait(d) ==
  /\ goto(d, "wait", "cleanmove")
  /\ UNCHANGED <<lock, fileVars, listening, stale, history>>

\* removeOwnedSocket.
MoveOwned(d) ==
  \/ ioError(d, "cleanmove", "release")
  \/ moveAway(d, "cleanmove", "cleanverify", "release")

\* Mutant: cleanup does not check what it moved to quarantine.
VerifyOwnedNothing(d) == verify(d, "cleanverify", quarantine[d], "cleandiscard", "cleanrestore")

VerifyOwned(d) == verify(d, "cleanverify", d, "cleandiscard", "cleanrestore")

RemoveOwned(d) ==
  \/ ioError(d, "cleandiscard", "release")
  \/ removeQuarantined(d, "cleandiscard", "release")

RestoreOther(d) ==
  \/ restorePathNoReplace(d, "cleanrestore", "cleandropq", "release")
  \/ ioError(d, "cleandropq", "release")
  \/ removeQuarantined(d, "cleandropq", "release")

Stop(d) == releaseLock(d, "release", "stopped")

---------------------------------------------------------------------------
(* The environment                                                         *)

\* The process dies: the kernel closes its files, the names stay.
Crash(d) ==
  /\ pc[d] \notin Ended \cup {"off"}
  /\ pc' = [pc EXCEPT ![d] = "dead"]
  /\ lock' = [l \in Locks |-> IF lock[l] = d THEN Nothing ELSE lock[l]]
  /\ listening' = listening \ {d}
  /\ UNCHANGED <<fileVars, stale, history>>

\* A program without the lock removes the public path, or puts an inode of
\* its own there: a file, a socket nobody listens on, or a live socket.  The
\* number of an inode is not used again while a daemon remembers it.
OutsiderRemoves ==
  /\ path # Nothing
  /\ path' = Nothing
  /\ disturbed' = TRUE
  /\ dropped' = dropped \cup {path}
  /\ UNCHANGED <<lock, staged, quarantine, listening, pc, stale>>

OutsiderPlaces(i) ==
  /\ path = Nothing
  /\ \A d \in Daemons : quarantine[d] # i /\ (stale[d] = i => pc[d] \in Ended)
  /\ path' = i
  /\ \/ i \notin Regular /\ listening' = listening \cup {i}
     \/ UNCHANGED listening
  /\ disturbed' = TRUE
  /\ dropped' = dropped \ {i}
  /\ UNCHANGED <<lock, staged, quarantine, pc, stale>>

OutsiderCloses(i) ==
  /\ i \in listening
  /\ listening' = listening \ {i}
  /\ UNCHANGED <<lock, fileVars, pc, stale, history>>

Outsider ==
  \/ OutsiderRemoves
  \/ \E i \in Foreign : OutsiderPlaces(i) \/ OutsiderCloses(i)

Start(d) ==
  \/ EnsureRuntimeDir(d) \/ TryLock(d) \/ Lstat(d) \/ Dial(d) \/ ListenStaged(d)
  \/ MoveStale(d) \/ VerifyStale(d) \/ DiscardStale(d) \/ RestoreReplacement(d)
  \/ Publish(d) \/ Unlink(d) \/ Rollback(d)
  \/ CloseStaged(d) \/ RemoveStaged(d) \/ StartFails(d)

Shutdown(d) ==
  \/ CloseListener(d) \/ Wait(d) \/ MoveOwned(d) \/ VerifyOwned(d)
  \/ RemoveOwned(d) \/ RestoreOther(d) \/ Stop(d)

Next ==
  \/ \E d \in Daemons : Start(d) \/ Shutdown(d) \/ Crash(d)
  \/ Outsider

Spec == Init /\ [][Next]_vars

---------------------------------------------------------------------------
(* Properties                                                              *)

\* Two daemons of one path never serve, nor one serve while another is still
\* cleaning up: the lock of Start is held until removeOwnedSocket is over.
OneServer ==
  \A d, e \in Daemons : pc[d] \in Serving \cup Cleaning /\ pc[e] \in Serving => d = e

\* If no other program and no I/O error interfered, then clients find a serving
\* daemon at its path, whatever daemons were started, stopped or killed at any
\* step of Start and cleanup.
ServesItsPath ==
  \A d \in Daemons : pc[d] = "serving" /\ ~disturbed => path = d /\ d \in listening

\* If no other program and no I/O error interfered, then Start fails only
\* because another daemon has the lock: whatever a daemon that died left at the
\* path is recognised as stale and replaced.
RecoversFromCrash == \A d \in Daemons : pc[d] = "failed" => disturbed

HasName(i) == path = i \/ i \in staged \/ \E d \in Daemons : quarantine[d] = i

\* A daemon takes the last name of an inode only if it bound the inode itself,
\* or preparePath saw the inode and nobody listens on it; a replacement that
\* another program put there keeps a name, if only in quarantine, until another
\* program removes it.  The removal
\* of the public path after a failed removal of the staged one (Rollback) does
\* not look at what it removes.
OthersKeepTheirNames ==
  [][\A i \in Inodes : HasName(i) /\ ~HasName(i)' =>
       \/ UNCHANGED pc \/ i \in dropped
       \/ \E d \in Daemons : /\ pc'[d] # pc[d]
                            /\ \/ i = d
                               \/ i = stale[d] /\ i \notin listening
                               \/ pc[d] = "rollback"]_vars

=============================================================================
