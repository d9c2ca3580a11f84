----------------------------- MODULE ReviewLock -----------------------------
(***************************************************************************)
(* The lock under which every process changes review.json.  It is a flock  *)
(* on a file inside the review folder, and clearing the review removes     *)
(* that folder with the lock file in it, under the lock.  So who gets the  *)
(* lock may hold it on a file that is no longer at the path, while another *)
(* locks the file that is there now: it checks, and starts again.          *)
(*                                                                         *)
(* A writer is one WithReviewWriteLock transaction, a clearer one call of  *)
(* ClearReviewFolder, each in a process or goroutine of its own.           *)
(***************************************************************************)
EXTENDS Naturals, FiniteSets

CONSTANTS
  Writer, Clearer,
  File,       \* the lock files there can be: inodes
  Platform,   \* "unix", "windows" or both
  Attempts,   \* lockReviewAttempts
  NoFile, Nobody

Proc == Writer \cup Clearer

ASSUME ProcAssumption == Writer \cap Clearer = {} /\ Nobody \notin Proc
ASSUME FileAssumption == NoFile \notin File
ASSUME PlatformAssumption == Platform \subseteq {"unix", "windows"}
ASSUME AttemptsAssumption == Attempts \in Nat \ {0}

VARIABLES
  platform,
  folder,     \* the review folder exists
  path,       \* the file at reviewLockPath
  review,     \* the changes review.json holds; {}: there is none
  holder,     \* who has the flock of each file
  handle,     \* the file each process has open
  pc,
  tries,      \* how often a process has started again
  seen,       \* the review.json a writer has read
  cleared,    \* history: clearers that have removed the lock file or the folder
  done        \* history: who has saved or cleared review.json

shared == <<folder, path, review, cleared, done>>
vars == <<platform, shared, holder, handle, pc, tries, seen>>

Init ==
  /\ platform \in Platform
  /\ folder = FALSE /\ path = NoFile /\ review = {}
  /\ holder = [f \in File |-> Nobody]
  /\ handle = [p \in Proc |-> NoFile]
  /\ pc = [p \in Proc |-> IF p \in Writer THEN "folder" ELSE "stat"]
  /\ tries = [p \in Proc |-> 0]
  /\ seen = [p \in Proc |-> {}]
  /\ cleared = {} /\ done = {}

Goto(p, label) == pc' = [pc EXCEPT ![p] = label]

(* Another attempt, while there are any left.                              *)
StartAgain(p) ==
  /\ tries' = [tries EXCEPT ![p] = @ + 1]
  /\ Goto(p, IF tries[p] + 1 < Attempts THEN "folder" ELSE "failed")

(* Unlocking and closing, by the process or by the kernel at its death.    *)
Close(p) ==
  /\ handle' = [handle EXCEPT ![p] = NoFile]
  /\ holder' = [f \in File |-> IF holder[f] = p THEN Nobody ELSE holder[f]]
-----------------------------------------------------------------------------
(* lockIdentityFile.                                                       *)

(* Mutant: only ensureReviewFolder, which has nothing to do for a folder   *)
(* that is not there.                                                      *)
EnsureFolderOnly(p) ==
  /\ pc[p] = "folder"
  /\ Goto(p, "open")
  /\ UNCHANGED <<platform, shared, holder, handle, tries, seen>>

MakeFolder(p) ==
  /\ pc[p] = "folder"
  /\ folder' = TRUE
  /\ Goto(p, "open")
  /\ UNCHANGED <<platform, path, review, cleared, done, holder, handle, tries, seen>>

(* The folder may be gone again, then; a file that is open keeps its inode. *)
OpenLockFile(p) ==
  /\ pc[p] = "open"
  /\ IF folder
     THEN /\ IF path # NoFile
             THEN path' = path
             ELSE path' \in {f \in File : \A q \in Proc : handle[q] # f}
          /\ handle' = [handle EXCEPT ![p] = path']
          /\ Goto(p, "lock")
          /\ tries' = tries
     ELSE StartAgain(p) /\ UNCHANGED <<path, handle>>
  /\ UNCHANGED <<platform, folder, review, cleared, done, holder, seen>>

Flock(p) ==
  /\ pc[p] = "lock" /\ holder[handle[p]] = Nobody
  /\ holder' = [holder EXCEPT ![handle[p]] = p]
  /\ Goto(p, "check")
  /\ UNCHANGED <<platform, shared, handle, tries, seen>>

(* Mutant: whatever file the lock is on will do.                           *)
AnyLockFile(p) == handle[p] = handle[p]
LockFileCurrent(p) == handle[p] = path

(* Mutant: the stale lock is not given back.                               *)
RecheckHolding(p) ==
  /\ pc[p] = "check"
  /\ IF LockFileCurrent(p)
     THEN Goto(p, IF p \in Writer THEN "read" ELSE "entries") /\ tries' = tries
     ELSE StartAgain(p)
  /\ UNCHANGED <<platform, shared, holder, handle, seen>>

CheckLockFile(p) ==
  /\ pc[p] = "check"
  /\ IF LockFileCurrent(p)
     THEN /\ Goto(p, IF p \in Writer THEN "read" ELSE "entries")
          /\ UNCHANGED <<handle, holder, tries>>
     ELSE Close(p) /\ StartAgain(p)
  /\ UNCHANGED <<platform, shared, seen>>

LockReview(p) == MakeFolder(p) \/ OpenLockFile(p) \/ Flock(p) \/ CheckLockFile(p)
-----------------------------------------------------------------------------
(* A writer's transaction: load, change, save.                             *)

LoadReview(w) ==
  /\ pc[w] = "read"
  /\ seen' = [seen EXCEPT ![w] = review]
  /\ Goto(w, "save")
  /\ UNCHANGED <<platform, shared, holder, handle, tries>>

SaveReview(w) ==
  /\ pc[w] = "save"
  /\ review' = seen[w] \cup {w} /\ done' = done \cup {w}
  /\ folder' = TRUE
  /\ Goto(w, "unlock")
  /\ UNCHANGED <<platform, path, cleared, holder, handle, tries, seen>>

(* The transaction reports an error and saves nothing, or a clearer cannot *)
(* remove the entries; what comes after the unlock is left out.            *)
Fails(p) ==
  /\ pc[p] \in {"read", "save", "entries"}
  /\ Goto(p, "abandon")
  /\ UNCHANGED <<platform, shared, holder, handle, tries, seen>>

(* Mutant: the error path returns without the deferred unlock.             *)
UnlockOnSuccess(p) ==
  /\ pc[p] \in {"unlock", "abandon"}
  /\ IF pc[p] = "unlock" THEN Close(p) ELSE UNCHANGED <<holder, handle>>
  /\ Goto(p, IF pc[p] = "unlock" /\ p \in Clearer THEN "lockfile again" ELSE "done")
  /\ UNCHANGED <<platform, shared, tries, seen>>

Unlock(p) ==
  /\ pc[p] \in {"unlock", "abandon"}
  /\ Close(p)
  /\ Goto(p, IF pc[p] = "unlock" /\ p \in Clearer THEN "lockfile again" ELSE "done")
  /\ UNCHANGED <<platform, shared, tries, seen>>
-----------------------------------------------------------------------------
(* ClearReviewFolder.                                                      *)

StatFolder(c) ==
  /\ pc[c] = "stat"
  /\ Goto(c, IF folder THEN "folder" ELSE "done")
  /\ UNCHANGED <<platform, shared, holder, handle, tries, seen>>

RemoveEntries(c) ==
  /\ pc[c] = "entries"
  /\ review' = {} /\ done' = done \cup {c}
  /\ Goto(c, "lockfile")
  /\ UNCHANGED <<platform, folder, path, cleared, holder, handle, tries, seen>>

(* Windows does not remove a file that is open.                            *)
Removable == platform = "unix" \/ \A q \in Proc : handle[q] # path

(* First under the lock, then, if that was refused, without it.            *)
RemoveLockFile(c) ==
  /\ \/ pc[c] = "lockfile" /\ Goto(c, "rmdir")
     \/ pc[c] = "lockfile again" /\ Goto(c, "rmdir again")
  /\ IF Removable /\ ~(pc[c] = "lockfile again" /\ platform = "unix")
     THEN path' = NoFile /\ cleared' = cleared \cup {c}
     ELSE UNCHANGED <<path, cleared>>
  /\ UNCHANGED <<platform, folder, review, done, holder, handle, tries, seen>>

(* os.Remove of a folder with something in it fails.                       *)
Empty == path = NoFile /\ review = {}

(* Mutant: os.RemoveAll instead.                                           *)
RemoveFolderAll(c) ==
  /\ \/ pc[c] = "rmdir" /\ Goto(c, "unlock")
     \/ pc[c] = "rmdir again" /\ Goto(c, "done")
  /\ folder' = FALSE /\ path' = NoFile /\ review' = {} /\ cleared' = cleared \cup {c}
  /\ UNCHANGED <<platform, done, holder, handle, tries, seen>>

RemoveFolder(c) ==
  /\ \/ pc[c] = "rmdir" /\ Goto(c, "unlock")
     \/ pc[c] = "rmdir again" /\ Goto(c, "done")
  /\ IF folder /\ Empty
     THEN folder' = FALSE /\ cleared' = cleared \cup {c}
     ELSE UNCHANGED <<folder, cleared>>
  /\ UNCHANGED <<platform, path, review, done, holder, handle, tries, seen>>
-----------------------------------------------------------------------------
Finished == {"done", "failed", "dead"}

Dies(p) ==
  /\ pc[p] \notin Finished
  /\ Close(p)
  /\ Goto(p, "dead")
  /\ UNCHANGED <<platform, shared, tries, seen>>

Step(p) ==
  \/ LockReview(p) \/ Unlock(p)
  \/ p \in Writer /\ (LoadReview(p) \/ SaveReview(p))
  \/ p \in Clearer /\ (StatFolder(p) \/ RemoveEntries(p) \/ RemoveLockFile(p) \/ RemoveFolder(p))

AllFinished == (\A p \in Proc : pc[p] \in Finished) /\ UNCHANGED vars

Next == (\E p \in Proc : Step(p) \/ Fails(p) \/ Dies(p)) \/ AllFinished

Spec == Init /\ [][Next]_vars

(* The kernel wakes a waiter and every process runs; nobody has to fail.   *)
FairSpec == Spec /\ \A p \in Proc : WF_vars(Step(p))
-----------------------------------------------------------------------------
Holding ==
  {"check", "read", "save", "entries", "lockfile", "rmdir", "unlock", "abandon"}
Inside == {"read", "save", "entries", "lockfile"}
Labels ==
  Holding \cup Finished \cup {"stat", "folder", "open", "lock", "lockfile again", "rmdir again"}

(* A flock is held through an open file, by a process that has taken it    *)
(* and not given it back.                                                  *)
HoldersOK ==
  \A f \in File :
    holder[f] # Nobody => handle[holder[f]] = f /\ pc[holder[f]] \in Holding

(* The types of the variables, and HoldersOK.                              *)
TypeOK ==
  /\ platform \in Platform /\ folder \in BOOLEAN
  /\ path \in File \cup {NoFile} /\ review \subseteq Writer
  /\ cleared \subseteq Clearer /\ done \subseteq Proc
  /\ holder \in [File -> Proc \cup {Nobody}]
  /\ handle \in [Proc -> File \cup {NoFile}]
  /\ pc \in [Proc -> Labels]
  /\ tries \in [Proc -> 0..Attempts]
  /\ seen \in [Proc -> SUBSET Writer]
  /\ HoldersOK

(* Two transactions are never under way at once, however often the lock    *)
(* file is removed under those who wait for it.                            *)
MutualExclusion ==
  \A p, q \in Proc : pc[p] \in Inside /\ pc[q] \in Inside => p = q

(* Every transaction takes effect as if at one moment: no writer writes    *)
(* back what another has changed or a clearer has removed in between.      *)
Atomic == INSTANCE AtomicReview
ImplementsAtomicReview == Atomic!Spec

(* A process starts again only because somebody cleared the review, and at *)
(* most twice for one ClearReviewFolder: once for the lock file or for the *)
(* first removal of the folder, once for the second.  So ten attempts are  *)
(* lost only to five clears of the same review while one process waits.    *)
RetriesNeedClears == \A p \in Proc : tries[p] <= 2 * Cardinality(cleared)

(* Nobody waits for ever: a process gets its turn, or gives up.            *)
EveryoneFinishes == \A p \in Proc : <>(pc[p] \in Finished)
=============================================================================
