-------------------------- MODULE ReviewLockProofs --------------------------
(***************************************************************************)
(* The review write lock excludes, and makes transactions atomic, for any  *)
(* number of processes, lock files and attempts, on Unix and on Windows.   *)
(*                                                                         *)
(* Holding a flock is not enough, since the file may be off the path; and  *)
(* having looked at the path is not enough, since it may change.  The      *)
(* invariant is both: whoever is inside holds the flock of the file at the *)
(* path, and only he can take that file away.                              *)
(***************************************************************************)
EXTENDS ReviewLock, FiniteSetTheorems, TLAPS

(* Whoever is past OpenLockFile has a file open, whoever is past Flock     *)
(* holds its flock, and whoever still acts has an attempt left.            *)
HandlesOK ==
  \A p \in Proc :
    /\ pc[p] \in Holding \cup {"lock"} => handle[p] \in File
    /\ pc[p] \in Holding => holder[handle[p]] = p
    /\ pc[p] \notin Finished => tries[p] < Attempts

(* Whoever is inside has the lock file that is at the path.                *)
InsideOK == \A p \in Proc : pc[p] \in Inside => handle[p] = path

(* A writer about to save has read what is in review.json now, and who has *)
(* not come to it yet has not changed it.                                  *)
Before == {"stat", "folder", "open", "lock", "check", "read", "save", "entries"}
SeenOK ==
  /\ \A w \in Writer : pc[w] = "save" => seen[w] = review
  /\ \A p \in Proc : pc[p] \in Before => p \notin done

LockInv == TypeOK /\ HandlesOK /\ InsideOK /\ SeenOK

(* Two processes inside hold the flock of one file.                        *)
LEMMA Exclusion == LockInv => MutualExclusion
<1> SUFFICES ASSUME LockInv, NEW p \in Proc, NEW q \in Proc,
                    pc[p] \in Inside, pc[q] \in Inside
             PROVE  p = q
  BY DEF MutualExclusion
<1>1. handle[p] = path /\ handle[q] = path
  BY DEF LockInv, InsideOK
<1>2. holder[handle[p]] = p /\ holder[handle[q]] = q
  BY DEF LockInv, HandlesOK, Inside, Holding
<1> QED BY <1>1, <1>2

(* The invariant holds at the start.                                       *)
LEMMA InitLock == Init => LockInv
<1> SUFFICES ASSUME Init PROVE LockInv
  OBVIOUS
<1>1. \A p \in Proc : pc[p] \in {"folder", "stat"} /\ tries[p] = 0
  BY DEF Init
<1>2. \A f \in File : holder[f] = Nobody
  BY DEF Init
<1>3. TypeOK
  <2>1. HoldersOK
    BY <1>2 DEF HoldersOK
  <2>2. pc \in [Proc -> Labels]
    BY DEF Init, Labels
  <2>3. tries \in [Proc -> 0..Attempts]
    BY AttemptsAssumption DEF Init
  <2> QED BY <2>1, <2>2, <2>3 DEF Init, TypeOK
<1>4. HandlesOK
  BY <1>1, AttemptsAssumption DEF HandlesOK, Holding
<1>5. InsideOK /\ SeenOK
  BY <1>1 DEF Init, InsideOK, SeenOK, Inside, Proc
<1> QED BY <1>3, <1>4, <1>5 DEF LockInv

(* Going to another label, on the same side of Flock, keeps the types and  *)
(* the flocks.                                                             *)
LEMMA MoveLemma ==
  ASSUME LockInv, NEW p \in Proc, NEW label \in Labels, Goto(p, label),
         UNCHANGED <<platform, holder, handle, tries>>,
         label \in Holding <=> pc[p] \in Holding, label # "lock", pc[p] \notin Finished,
         folder' \in BOOLEAN, path' \in File \cup {NoFile}, review' \subseteq Writer,
         cleared' \subseteq Clearer, done' \subseteq Proc, seen' \in [Proc -> SUBSET Writer]
  PROVE  /\ TypeOK' /\ HandlesOK'
         /\ pc'[p] = label /\ \A q \in Proc \ {p} : pc'[q] = pc[q]
<1>1. /\ pc' \in [Proc -> Labels] /\ pc'[p] = label
      /\ \A q \in Proc \ {p} : pc'[q] = pc[q]
  BY DEF LockInv, TypeOK, Goto
<1>2. \A q \in Proc : pc'[q] \in Holding <=> pc[q] \in Holding
  BY <1>1
<1>3. HoldersOK'
  BY <1>2 DEF LockInv, TypeOK, HoldersOK
<1>4. TypeOK'
  BY <1>1, <1>3 DEF LockInv, TypeOK
<1>5. HandlesOK'
  BY <1>1, <1>2 DEF LockInv, HandlesOK
<1> QED BY <1>1, <1>4, <1>5

(* Making the folder keeps the invariant.                                  *)
LEMMA MakeFolderInv ==
  ASSUME LockInv, NEW p \in Proc, MakeFolder(p) PROVE LockInv'
<1>1. /\ TypeOK' /\ HandlesOK'
      /\ pc'[p] = "open" /\ \A q \in Proc \ {p} : pc'[q] = pc[q]
  BY MoveLemma DEF LockInv, TypeOK, MakeFolder, Labels, Holding, Finished
<1>2. InsideOK' /\ SeenOK'
  BY <1>1 DEF LockInv, MakeFolder, InsideOK, SeenOK, Inside, Before, Proc
<1> QED BY <1>1, <1>2 DEF LockInv

(* The file that is opened is the one at the path, or a new one nobody has *)
(* open; either way whoever is inside keeps the file at the path.          *)
LEMMA OpenLockFileInv ==
  ASSUME LockInv, NEW p \in Proc, OpenLockFile(p) PROVE LockInv'
<1>1. /\ tries[p] < Attempts /\ tries[p] \in Nat /\ pc[p] = "open" /\ p \notin done
      /\ \A f \in File : holder[f] # p
  BY AttemptsAssumption, ProcAssumption
     DEF LockInv, TypeOK, HandlesOK, HoldersOK, SeenOK, Holding, Before, Finished, OpenLockFile
<1>2. /\ pc' \in [Proc -> Labels] /\ tries' \in [Proc -> 0..Attempts]
      /\ \A q \in Proc \ {p} : pc'[q] = pc[q] /\ tries'[q] = tries[q]
      /\ pc'[p] \in {"folder", "failed", "lock"}
      /\ pc'[p] # "failed" => tries'[p] < Attempts
      /\ pc'[p] = "lock" => folder
  <2>1. CASE folder
    BY <1>1, <2>1 DEF LockInv, TypeOK, OpenLockFile, Goto, Labels, Finished
  <2>2. CASE ~folder
    <3>1. tries' = [tries EXCEPT ![p] = tries[p] + 1]
      BY <2>2 DEF OpenLockFile, StartAgain
    <3>2. tries' \in [Proc -> 0..Attempts] /\ tries'[p] = tries[p] + 1
      BY <1>1, <3>1, AttemptsAssumption DEF LockInv, TypeOK
    <3> QED
      BY <1>1, <2>2, <3>1, <3>2
         DEF LockInv, TypeOK, OpenLockFile, StartAgain, Goto, Labels, Finished
  <2> QED BY <2>1, <2>2
<1>3. /\ handle' \in [Proc -> File \cup {NoFile}] /\ path' \in File \cup {NoFile}
      /\ \A q \in Proc \ {p} : handle'[q] = handle[q]
      /\ pc'[p] = "lock" => handle'[p] \in File
      /\ path # NoFile => path' = path
  BY <1>1, <1>2 DEF LockInv, TypeOK, OpenLockFile
<1>4. UNCHANGED <<platform, folder, review, cleared, done, holder, seen>>
  BY DEF OpenLockFile
<1>5. TypeOK'
  <2>1. HoldersOK'
    BY <1>1, <1>2, <1>3, <1>4 DEF LockInv, TypeOK, HoldersOK
  <2> QED BY <1>2, <1>3, <1>4, <2>1 DEF LockInv, TypeOK
<1>6. HandlesOK'
  BY <1>2, <1>3, <1>4 DEF LockInv, HandlesOK, Holding, Finished
<1>7. InsideOK'
  BY <1>2, <1>3, FileAssumption DEF LockInv, HandlesOK, InsideOK, Inside, Holding
<1>8. SeenOK'
  BY <1>1, <1>2, <1>4 DEF LockInv, SeenOK, Proc
<1> QED BY <1>5, <1>6, <1>7, <1>8 DEF LockInv

(* Taking the flock keeps the invariant.                                   *)
LEMMA FlockInv ==
  ASSUME LockInv, NEW p \in Proc, Flock(p) PROVE LockInv'
<1>1. handle[p] \in File /\ holder[handle[p]] = Nobody /\ pc[p] = "lock"
  BY DEF LockInv, HandlesOK, Flock
<1>2. /\ pc' \in [Proc -> Labels] /\ pc'[p] = "check"
      /\ \A q \in Proc \ {p} : pc'[q] = pc[q]
  BY DEF LockInv, TypeOK, Flock, Goto, Labels, Holding
<1>3. /\ holder' \in [File -> Proc \cup {Nobody}] /\ holder'[handle[p]] = p
      /\ \A f \in File \ {handle[p]} : holder'[f] = holder[f]
  BY <1>1 DEF LockInv, TypeOK, Flock
<1>4. UNCHANGED <<platform, folder, path, review, cleared, done, handle, tries, seen>>
  BY DEF Flock, shared
<1>5. TypeOK'
  <2>1. HoldersOK'
    BY <1>1, <1>2, <1>3, <1>4 DEF LockInv, TypeOK, HoldersOK, Holding
  <2> QED BY <1>2, <1>3, <1>4, <2>1 DEF LockInv, TypeOK
<1>6. HandlesOK'
  BY <1>1, <1>2, <1>3, <1>4, ProcAssumption DEF LockInv, HandlesOK, Holding, Finished
<1>7. InsideOK' /\ SeenOK'
  BY <1>1, <1>2, <1>4 DEF LockInv, InsideOK, SeenOK, Inside, Before, Proc
<1> QED BY <1>5, <1>6, <1>7 DEF LockInv

(* Giving the flock back disturbs nobody else's.                           *)
LEMMA CloseLemma ==
  ASSUME LockInv, NEW p \in Proc, Close(p)
  PROVE  /\ holder' \in [File -> Proc \cup {Nobody}]
         /\ handle' \in [Proc -> File \cup {NoFile}]
         /\ \A q \in Proc \ {p} : handle'[q] = handle[q]
         /\ \A f \in File : holder'[f] # Nobody => holder'[f] = holder[f] /\ holder[f] # p
         /\ \A f \in File : holder[f] # p => holder'[f] = holder[f]
BY ProcAssumption DEF LockInv, TypeOK, Close

(* A process that closes its file and goes on outside keeps the invariant. *)
LEMMA CloseInv ==
  ASSUME LockInv, NEW p \in Proc, Close(p), pc' \in [Proc -> Labels],
         \A q \in Proc \ {p} : pc'[q] = pc[q] /\ tries'[q] = tries[q],
         pc'[p] \notin Holding \cup {"lock"},
         pc'[p] \in Before => p \notin done,
         pc'[p] \notin Finished => tries'[p] < Attempts,
         tries' \in [Proc -> 0..Attempts],
         UNCHANGED <<platform, shared, seen>>
  PROVE  LockInv'
<1> USE CloseLemma DEF LockInv, shared
<1>1. TypeOK'
  <2>1. HoldersOK'
    BY DEF TypeOK, HoldersOK
  <2> QED BY <2>1 DEF TypeOK
<1>2. HandlesOK'
  BY DEF TypeOK, HandlesOK
<1>3. InsideOK'
  BY DEF InsideOK, Inside, Holding
<1>4. SeenOK'
  BY DEF SeenOK, Holding, Proc
<1> QED BY <1>1, <1>2, <1>3, <1>4

(* Whoever finds his file at the path goes inside, whoever does not closes *)
(* it: this is where InsideOK comes from.                                  *)
LEMMA CheckLockFileInv ==
  ASSUME LockInv, NEW p \in Proc, CheckLockFile(p) PROVE LockInv'
<1>1. CASE LockFileCurrent(p)
  <2>1. /\ TypeOK' /\ HandlesOK'
        /\ pc'[p] \in {"read", "entries"} /\ \A q \in Proc \ {p} : pc'[q] = pc[q]
    BY <1>1, MoveLemma
       DEF LockInv, TypeOK, CheckLockFile, Labels, Holding, Finished, shared
  <2>2. InsideOK' /\ SeenOK'
    BY <1>1, <2>1 DEF LockInv, CheckLockFile, LockFileCurrent, shared, InsideOK, SeenOK,
                      Before, Proc
  <2> QED BY <2>1, <2>2 DEF LockInv
<1>2. CASE ~LockFileCurrent(p)
  <2>1. tries[p] < Attempts /\ tries[p] \in Nat /\ p \notin done
    BY AttemptsAssumption
       DEF LockInv, CheckLockFile, HandlesOK, SeenOK, Finished, Before, TypeOK
  <2>2. Close(p) /\ StartAgain(p) /\ UNCHANGED <<platform, shared, seen>>
    BY <1>2 DEF CheckLockFile
  <2>3. tries' \in [Proc -> 0..Attempts] /\ tries'[p] = tries[p] + 1
    BY <2>1, <2>2, AttemptsAssumption DEF LockInv, TypeOK, StartAgain
  <2>4. /\ pc' \in [Proc -> Labels]
        /\ \A q \in Proc \ {p} : pc'[q] = pc[q] /\ tries'[q] = tries[q]
        /\ pc'[p] \in {"folder", "failed"}
        /\ pc'[p] = "folder" => tries'[p] < Attempts
    BY <2>1, <2>2, <2>3 DEF LockInv, TypeOK, StartAgain, Goto, Labels, Finished
  <2> QED
    BY <2>1, <2>2, <2>3, <2>4, CloseInv DEF Holding, Finished
<1> QED BY <1>1, <1>2

(* Unlocking keeps the invariant.                                          *)
LEMMA UnlockInv ==
  ASSUME LockInv, NEW p \in Proc, Unlock(p) PROVE LockInv'
<1>1. /\ pc' \in [Proc -> Labels]
      /\ \A q \in Proc \ {p} : pc'[q] = pc[q]
      /\ pc'[p] \in {"lockfile again", "done"}
      /\ tries[p] < Attempts
  BY DEF LockInv, TypeOK, HandlesOK, Unlock, Goto, Labels, Finished
<1> QED
  BY <1>1, CloseInv DEF LockInv, TypeOK, Unlock, Holding, Before, Finished

(* So does dying, anywhere.                                                *)
LEMMA DiesInv ==
  ASSUME LockInv, NEW p \in Proc, Dies(p) PROVE LockInv'
<1>1. /\ pc' \in [Proc -> Labels]
      /\ \A q \in Proc \ {p} : pc'[q] = pc[q]
      /\ pc'[p] = "dead"
  BY DEF LockInv, TypeOK, Dies, Goto, Labels, Finished
<1> QED
  BY <1>1, CloseInv DEF LockInv, TypeOK, Dies, Holding, Before, Finished

(* Reading review.json keeps the invariant.                                *)
LEMMA LoadReviewInv ==
  ASSUME LockInv, NEW p \in Writer, LoadReview(p) PROVE LockInv'
<1>1. /\ TypeOK' /\ HandlesOK'
      /\ pc'[p] \in {"save"} /\ \A q \in Proc \ {p} : pc'[q] = pc[q]
  BY MoveLemma DEF LockInv, TypeOK, LoadReview, Labels, Holding, Finished, Proc, shared
<1>2. InsideOK' /\ SeenOK'
  BY <1>1 DEF LockInv, TypeOK, LoadReview, shared, InsideOK, SeenOK, Inside, Before, Proc
<1> QED BY <1>1, <1>2 DEF LockInv

(* Failing under the lock keeps the invariant.                             *)
LEMMA FailsInv ==
  ASSUME LockInv, NEW p \in Proc, Fails(p) PROVE LockInv'
<1>1. /\ TypeOK' /\ HandlesOK'
      /\ pc'[p] \in {"abandon"} /\ \A q \in Proc \ {p} : pc'[q] = pc[q]
  BY MoveLemma DEF LockInv, TypeOK, Fails, Labels, Holding, Finished, Proc, shared
<1>2. InsideOK' /\ SeenOK'
  BY <1>1 DEF LockInv, Fails, shared, InsideOK, SeenOK, Inside, Before, Proc
<1> QED BY <1>1, <1>2 DEF LockInv

(* Looking whether there is a folder keeps the invariant.                  *)
LEMMA StatFolderInv ==
  ASSUME LockInv, NEW p \in Clearer, StatFolder(p) PROVE LockInv'
<1>1. /\ TypeOK' /\ HandlesOK'
      /\ pc'[p] \in {"folder", "done"} /\ \A q \in Proc \ {p} : pc'[q] = pc[q]
  BY MoveLemma DEF LockInv, TypeOK, StatFolder, Labels, Holding, Finished, Proc, shared
<1>2. InsideOK' /\ SeenOK'
  BY <1>1 DEF LockInv, StatFolder, shared, InsideOK, SeenOK, Inside, Before, Proc
<1> QED BY <1>1, <1>2 DEF LockInv

(* A save leaves what other writers have read as it was: there are none.   *)
LEMMA SaveReviewInv ==
  ASSUME LockInv, NEW p \in Writer, SaveReview(p) PROVE LockInv'
<1>1. /\ TypeOK' /\ HandlesOK'
      /\ pc'[p] \in {"unlock"} /\ \A q \in Proc \ {p} : pc'[q] = pc[q]
  BY MoveLemma DEF LockInv, TypeOK, SaveReview, Labels, Holding, Finished, Proc, shared
<1>2. \A q \in Proc : pc[q] = "save" => q = p
  BY Exclusion DEF MutualExclusion, SaveReview, Inside, Proc
<1>3. InsideOK' /\ SeenOK'
  BY <1>1, <1>2 DEF LockInv, SaveReview, InsideOK, SeenOK, Inside, Before, Proc
<1> QED BY <1>1, <1>3 DEF LockInv

(* So does removing what is in the folder.                                 *)
LEMMA RemoveEntriesInv ==
  ASSUME LockInv, NEW p \in Clearer, RemoveEntries(p) PROVE LockInv'
<1>1. /\ TypeOK' /\ HandlesOK'
      /\ pc'[p] \in {"lockfile"} /\ \A q \in Proc \ {p} : pc'[q] = pc[q]
  BY MoveLemma DEF LockInv, TypeOK, RemoveEntries, Labels, Holding, Finished, Proc, shared
<1>2. \A q \in Proc : pc[q] # "save"
  BY Exclusion DEF MutualExclusion, RemoveEntries, Inside, Proc
<1>3. InsideOK' /\ SeenOK'
  BY <1>1, <1>2 DEF LockInv, RemoveEntries, InsideOK, SeenOK, Inside, Before, Proc
<1> QED BY <1>1, <1>3 DEF LockInv

(* The lock file goes by the hand of whoever is inside, or, on Windows,    *)
(* while nobody has it open.                                               *)
LEMMA RemoveLockFileInv ==
  ASSUME LockInv, NEW p \in Clearer, RemoveLockFile(p) PROVE LockInv'
<1>1. /\ TypeOK' /\ HandlesOK'
      /\ pc'[p] \in {"rmdir", "rmdir again"} /\ \A q \in Proc \ {p} : pc'[q] = pc[q]
  BY MoveLemma DEF LockInv, TypeOK, RemoveLockFile, Labels, Holding, Finished, Proc, shared
<1>2. \A q \in Proc : pc'[q] \in Inside => pc[q] \in Inside /\ q # p
  BY <1>1 DEF Inside
<1>3. UNCHANGED <<platform, folder, review, done, holder, handle, tries, seen>>
  BY DEF RemoveLockFile
<1>4. InsideOK'
  <2>1. CASE path' = path
    BY <1>2, <1>3, <2>1 DEF LockInv, InsideOK
  <2>2. CASE path' # path /\ pc[p] = "lockfile"
    <3>1. \A q \in Proc : pc[q] \in Inside => q = p
      BY <2>2, Exclusion DEF MutualExclusion, Inside, Proc
    <3> QED BY <1>2, <3>1 DEF InsideOK
  <2>3. CASE path' # path /\ pc[p] = "lockfile again"
    <3>1. \A q \in Proc : handle[q] # path
      BY <2>3 DEF RemoveLockFile, Removable
    <3> QED BY <1>2, <3>1 DEF LockInv, InsideOK
  <2> QED BY <2>1, <2>2, <2>3 DEF RemoveLockFile
<1>5. SeenOK'
  BY <1>1, <1>3 DEF LockInv, SeenOK, Before, Proc
<1> QED BY <1>1, <1>4, <1>5 DEF LockInv

(* Removing the folder keeps the invariant.                                *)
LEMMA RemoveFolderInv ==
  ASSUME LockInv, NEW p \in Clearer, RemoveFolder(p) PROVE LockInv'
<1>1. /\ TypeOK' /\ HandlesOK'
      /\ pc'[p] \in {"unlock", "done"} /\ \A q \in Proc \ {p} : pc'[q] = pc[q]
  BY MoveLemma DEF LockInv, TypeOK, RemoveFolder, Labels, Holding, Finished, Proc, shared
<1>2. InsideOK' /\ SeenOK'
  BY <1>1 DEF LockInv, RemoveFolder, InsideOK, SeenOK, Inside, Before, Proc
<1> QED BY <1>1, <1>2 DEF LockInv

(* Every step keeps the invariant.                                         *)
LEMMA NextLock == LockInv /\ [Next]_vars => LockInv'
<1> SUFFICES ASSUME LockInv, [Next]_vars PROVE LockInv'
  OBVIOUS
<1>1. CASE UNCHANGED vars
  BY <1>1 DEF LockInv, TypeOK, HandlesOK, InsideOK, SeenOK, HoldersOK, vars, shared
<1>2. ASSUME NEW p \in Proc, Step(p) \/ Fails(p) \/ Dies(p) PROVE LockInv'
  <2>1. CASE LockReview(p)
    BY <2>1, MakeFolderInv, OpenLockFileInv, FlockInv, CheckLockFileInv DEF LockReview
  <2>2. CASE Unlock(p) \/ Fails(p) \/ Dies(p)
    BY <2>2, UnlockInv, FailsInv, DiesInv
  <2>3. CASE p \in Writer /\ (LoadReview(p) \/ SaveReview(p))
    BY <2>3, LoadReviewInv, SaveReviewInv
  <2>4. CASE p \in Clearer /\ (StatFolder(p) \/ RemoveEntries(p) \/ RemoveLockFile(p)
                               \/ RemoveFolder(p))
    BY <2>4, StatFolderInv, RemoveEntriesInv, RemoveLockFileInv, RemoveFolderInv
  <2> QED BY <1>2, <2>1, <2>2, <2>3, <2>4 DEF Step
<1> QED BY <1>1, <1>2 DEF Next, AllFinished

(* The types, and flocks are held by who has the file open, however many   *)
(* processes lock, die and clear.                                          *)
THEOREM LockTypes == Spec => []TypeOK
<1>1. LockInv => TypeOK
  BY DEF LockInv
<1> QED BY <1>1, InitLock, NextLock, PTL DEF Spec

(* Two transactions on review.json are never under way at once.            *)
THEOREM LockExcludes == Spec => []MutualExclusion
BY InitLock, NextLock, Exclusion, PTL DEF Spec

(* Every step is a step of AtomicReview or leaves review.json alone.       *)
LEMMA StepRefines == LockInv /\ [Next]_vars => [Atomic!Next]_(Atomic!vars)
<1> SUFFICES ASSUME LockInv, [Next]_vars,
                    ~UNCHANGED <<review, done>>
             PROVE  Atomic!Next
  BY DEF Atomic!vars
<1>1. \/ \E w \in Writer : SaveReview(w)
      \/ \E c \in Clearer : RemoveEntries(c)
  BY DEF vars, shared, Next, AllFinished, Step, Fails, Dies, LockReview, MakeFolder, OpenLockFile,
         Flock, CheckLockFile, Unlock, LoadReview, StatFolder, RemoveLockFile, RemoveFolder
<1>2. ASSUME NEW w \in Writer, SaveReview(w) PROVE Atomic!Change(w)
  BY <1>2 DEF SaveReview, LockInv, SeenOK, Before, Proc, Atomic!Change
<1>3. ASSUME NEW c \in Clearer, RemoveEntries(c) PROVE Atomic!Clear(c)
  BY <1>3 DEF RemoveEntries, LockInv, SeenOK, Before, Proc, Atomic!Clear
<1> QED BY <1>1, <1>2, <1>3 DEF Atomic!Next

(* Transactions and clears of review.json take effect one at a time, each  *)
(* at most once.                                                           *)
THEOREM LockImplementsAtomicReview == Spec => ImplementsAtomicReview
<1>1. Init => Atomic!Init
  BY DEF Init, Atomic!Init
<1> QED
  BY <1>1, InitLock, NextLock, StepRefines, PTL DEF Spec, ImplementsAtomicReview, Atomic!Spec
-----------------------------------------------------------------------------
(* Retries.  A process that has to start again owes the attempt: its file  *)
(* is off the path, or the folder it made is gone.                         *)
Doomed(p) ==
  \/ pc[p] = "open" /\ ~folder
  \/ pc[p] \in {"lock", "check"} /\ handle[p] # path
Debt(p) == tries[p] + (IF Doomed(p) THEN 1 ELSE 0)

(* Who pays for it.  A clearer pays for one attempt of each process when   *)
(* it removes the lock file or, under the lock, the folder: those who wait *)
(* for the file it locked pay at once, for they will not come to the       *)
(* folder before it is done.  It pays for another by its second removal.   *)
Removing == {"rmdir", "unlock", "lockfile again", "rmdir again"}
Waits(p, c) == pc[p] = "lock" /\ handle[p] = handle[c]
First(p) == {c \in cleared : pc[c] # "rmdir" \/ Waits(p, c)}
Second == {c \in cleared : pc[c] \notin Removing}
Paid(p) == Cardinality(First(p)) + Cardinality(Second)

RetriesInv ==
  /\ IsFiniteSet(cleared)
  /\ \A c \in cleared : pc[c] \in Removing \cup Finished
  /\ \A p \in Proc : pc[p] \notin Finished => Debt(p) <= Paid(p)
  /\ RetriesNeedClears

LEMMA SmallerSet ==
  ASSUME NEW T, IsFiniteSet(T), NEW S, S \subseteq T
  PROVE  /\ IsFiniteSet(S) /\ Cardinality(S) \in Nat /\ Cardinality(T) \in Nat
         /\ Cardinality(S) <= Cardinality(T)
         /\ S # T => Cardinality(S) + 1 <= Cardinality(T)
<1>1. /\ IsFiniteSet(S) /\ Cardinality(S) <= Cardinality(T)
      /\ Cardinality(S) = Cardinality(T) => S = T
  BY FS_Subset
<1>2. Cardinality(S) \in Nat /\ Cardinality(T) \in Nat
  BY <1>1, FS_CardinalityType
<1> QED BY <1>1, <1>2

LEMMA InitRetries == Init => RetriesInv
<1> SUFFICES ASSUME Init PROVE RetriesInv
  OBVIOUS
<1>1. IsFiniteSet(cleared) /\ Cardinality(cleared) = 0 /\ cleared = {}
  BY FS_EmptySet DEF Init
<1>2. ASSUME NEW p \in Proc PROVE tries[p] = 0 /\ Debt(p) = 0 /\ Paid(p) = 0
  <2>1. First(p) = {} /\ Second = {}
    BY <1>1 DEF First, Second
  <2> QED BY <2>1, FS_EmptySet DEF Init, Debt, Doomed, Paid
<1> QED BY <1>1, <1>2 DEF RetriesInv, RetriesNeedClears

(* A step in which every debt that grows is paid for.                      *)
LEMMA PaidStep ==
  ASSUME LockInv, LockInv', RetriesInv, IsFiniteSet(cleared'), cleared \subseteq cleared',
         \A c \in cleared' : pc'[c] \in Removing \cup Finished,
         \A p \in Proc : tries'[p] <= Debt(p),
         \A p \in Proc : pc'[p] \notin Finished =>
           /\ pc[p] \notin Finished
           /\ First(p) \subseteq First(p)' /\ Second \subseteq Second'
           /\ \/ Debt(p)' <= Debt(p)
              \/ Debt(p)' <= Debt(p) + 1 /\ (First(p) # First(p)' \/ Second # Second')
  PROVE  RetriesInv'
<1>1. ASSUME NEW p \in Proc
      PROVE  /\ tries[p] \in Nat /\ tries'[p] \in Nat /\ Debt(p) \in Nat /\ Debt(p)' \in Nat
             /\ tries[p] <= Debt(p) /\ tries'[p] <= Debt(p)'
             /\ pc[p] \in Finished => Debt(p) = tries[p]
  <2>1. tries[p] \in Nat /\ tries'[p] \in Nat
    BY AttemptsAssumption DEF LockInv, TypeOK
  <2> QED BY <2>1 DEF Debt, Doomed, Finished
<1>2. ASSUME NEW p \in Proc, pc'[p] \notin Finished
      PROVE  Debt(p)' <= Paid(p)' /\ tries'[p] <= 2 * Cardinality(cleared')
  <2>1. /\ First(p)' \subseteq cleared' /\ Second' \subseteq cleared'
    BY DEF First, Second
  <2>2. IsFiniteSet(First(p)') /\ IsFiniteSet(Second')
    BY <2>1, SmallerSet
  <2>3. /\ Cardinality(First(p)) \in Nat /\ Cardinality(First(p)') \in Nat
        /\ Cardinality(Second) \in Nat /\ Cardinality(Second') \in Nat
        /\ Cardinality(First(p)) <= Cardinality(First(p)')
        /\ Cardinality(Second) <= Cardinality(Second')
        /\ First(p) # First(p)' => Cardinality(First(p)) + 1 <= Cardinality(First(p)')
        /\ Second # Second' => Cardinality(Second) + 1 <= Cardinality(Second')
    BY <1>2, <2>2, SmallerSet
  <2>4. /\ Cardinality(First(p)') <= Cardinality(cleared') /\ Cardinality(cleared') \in Nat
        /\ Cardinality(Second') <= Cardinality(cleared')
    BY <2>1, SmallerSet
  <2>5. Debt(p) <= Paid(p) /\ Paid(p) = Cardinality(First(p)) + Cardinality(Second)
        /\ Paid(p)' = Cardinality(First(p)') + Cardinality(Second')
    BY <1>2 DEF RetriesInv, Paid
  <2>6. Debt(p)' <= Paid(p)'
    BY <1>1, <1>2, <2>3, <2>5
  <2> QED BY <1>1, <2>3, <2>4, <2>5, <2>6
<1>3. ASSUME NEW p \in Proc PROVE tries'[p] <= 2 * Cardinality(cleared')
  <2>1. /\ Cardinality(cleared) \in Nat /\ Cardinality(cleared') \in Nat
        /\ Cardinality(cleared) <= Cardinality(cleared')
    BY SmallerSet
  <2>2. Debt(p) <= 2 * Cardinality(cleared)
    <3>1. CASE pc[p] \in Finished
      BY <1>1, <3>1 DEF RetriesInv, RetriesNeedClears
    <3>2. CASE pc[p] \notin Finished
      <4>1. First(p) \subseteq cleared /\ Second \subseteq cleared
        BY DEF First, Second
      <4>2. /\ Cardinality(First(p)) <= Cardinality(cleared) /\ Cardinality(First(p)) \in Nat
            /\ Cardinality(Second) <= Cardinality(cleared) /\ Cardinality(Second) \in Nat
        BY <4>1, SmallerSet DEF RetriesInv
      <4> QED BY <1>1, <2>1, <3>2, <4>2 DEF RetriesInv, Paid
    <3> QED BY <3>1, <3>2
  <2> QED BY <1>1, <2>1, <2>2
<1> QED BY <1>2, <1>3 DEF RetriesInv, RetriesNeedClears

LEMMA DebtLemma ==
  ASSUME LockInv, LockInv'
  PROVE  \A p \in Proc :
           /\ tries[p] \in Nat /\ tries'[p] \in Nat
           /\ Debt(p) = tries[p] \/ (Doomed(p) /\ Debt(p) = tries[p] + 1)
           /\ Debt(p)' = tries'[p] \/ (Doomed(p)' /\ Debt(p)' = tries'[p] + 1)
           /\ Doomed(p) => Debt(p) = tries[p] + 1
<1>1. \A p \in Proc : tries[p] \in Nat /\ tries'[p] \in Nat
  BY AttemptsAssumption DEF LockInv, TypeOK
<1> QED BY <1>1 DEF Debt

(* Steps that open and lock nothing, and remove nothing.                   *)
LEMMA QuietStep ==
  ASSUME LockInv, LockInv', RetriesInv, NEW p \in Proc,
         UNCHANGED <<path, cleared, tries>>, folder' = folder \/ folder' = TRUE,
         pc[p] \notin Finished \cup {"lock", "rmdir"},
         pc'[p] \notin {"lock", "check", "rmdir"}, pc'[p] = "open" => folder',
         p \in cleared => pc'[p] \in Removing \cup Finished,
         \A q \in Proc \ {p} : pc'[q] = pc[q] /\ handle'[q] = handle[q]
  PROVE  RetriesInv'
<1>2. cleared \subseteq Proc
  BY DEF LockInv, TypeOK, Proc
<1>3. \A c \in cleared' : pc'[c] \in Removing \cup Finished
  BY <1>2 DEF RetriesInv
<1>4. ASSUME NEW q \in Proc PROVE tries'[q] <= Debt(q) /\ Debt(q)' <= Debt(q)
  <2>1. Doomed(q)' => Doomed(q)
    BY DEF Doomed
  <2> QED BY <2>1, DebtLemma
<1>5. Second \subseteq Second'
  BY <1>2 DEF Second, RetriesInv
<1>6. ASSUME NEW q \in Proc PROVE First(q) \subseteq First(q)'
  BY <1>2 DEF First, Waits
<1>7. \A q \in Proc : pc'[q] \notin Finished => pc[q] \notin Finished
  OBVIOUS
<1> QED BY <1>3, <1>4, <1>5, <1>6, <1>7, PaidStep DEF RetriesInv

LEMMA QuietRetries ==
  ASSUME LockInv, LockInv', RetriesInv, NEW p \in Proc,
         \/ MakeFolder(p) \/ Unlock(p) \/ Fails(p)
         \/ p \in Writer /\ (LoadReview(p) \/ SaveReview(p))
         \/ p \in Clearer /\ (StatFolder(p) \/ RemoveEntries(p))
  PROVE  RetriesInv'
<1> USE DEF Goto, shared, Finished, Removing, LockInv, TypeOK, RetriesInv
<1>1. CASE MakeFolder(p)
  BY <1>1, QuietStep DEF MakeFolder
<1>2. CASE Unlock(p)
  <2>1. \A q \in Proc \ {p} : handle'[q] = handle[q]
    BY <1>2, CloseLemma DEF Unlock
  <2>2. /\ pc[p] \in {"unlock", "abandon"} /\ pc'[p] \in {"lockfile again", "done"}
        /\ \A q \in Proc \ {p} : pc'[q] = pc[q]
        /\ UNCHANGED <<path, cleared, tries, folder>>
    BY <1>2 DEF Unlock
  <2> QED BY <2>1, <2>2, QuietStep
<1>3. CASE Fails(p)
  BY <1>3, QuietStep DEF Fails
<1>4. CASE p \in Writer /\ (LoadReview(p) \/ SaveReview(p))
  BY <1>4, QuietStep DEF LoadReview, SaveReview
<1>5. CASE p \in Clearer /\ (StatFolder(p) \/ RemoveEntries(p))
  BY <1>5, QuietStep DEF StatFolder, RemoveEntries
<1> QED BY <1>1, <1>2, <1>3, <1>4, <1>5

(* Steps of a process that removes nothing and starts again at most once.  *)
LEMMA AttemptStep ==
  ASSUME LockInv, LockInv', RetriesInv, NEW p \in Proc, UNCHANGED cleared,
         p \notin cleared, pc[p] \notin Finished, tries'[p] <= Debt(p),
         pc'[p] \notin Finished => Debt(p)' <= Debt(p) /\ First(p) \subseteq First(p)',
         \A q \in Proc \ {p} :
           /\ pc'[q] = pc[q] /\ tries'[q] = tries[q] /\ handle'[q] = handle[q]
           /\ pc[q] \notin Finished => Debt(q)' <= Debt(q)
  PROVE  RetriesInv'
<1>1. \A q \in Proc : tries[q] \in Nat /\ tries[q] <= Debt(q)
  BY DebtLemma
<1>2. cleared \subseteq Proc \ {p}
  BY DEF LockInv, TypeOK, Proc
<1>3. \A c \in cleared' : pc'[c] \in Removing \cup Finished
  BY <1>2 DEF RetriesInv
<1>4. Second \subseteq Second'
  BY <1>2 DEF Second
<1>5. ASSUME NEW q \in Proc \ {p} PROVE First(q) \subseteq First(q)'
  BY <1>2 DEF First, Waits
<1> QED BY <1>1, <1>3, <1>4, <1>5, PaidStep DEF RetriesInv

(* Opening: a new lock file at the path is one that nobody has open.       *)
LEMMA OpenRetries ==
  ASSUME LockInv, LockInv', RetriesInv, NEW p \in Proc, OpenLockFile(p) PROVE RetriesInv'
<1>1. /\ p \notin cleared /\ pc[p] \notin Finished /\ UNCHANGED cleared
      /\ tries[p] \in Nat /\ pc[p] = "open"
  BY DebtLemma DEF RetriesInv, Removing, Finished, OpenLockFile
<1>2. CASE folder
  <2>1. pc'[p] = "lock" /\ handle'[p] = path' /\ tries' = tries /\ folder' = folder
    BY <1>2 DEF OpenLockFile, Goto, LockInv, TypeOK
  <2>2. Debt(p)' = tries[p] /\ Debt(p) = tries[p]
    BY <1>1, <1>2, <2>1 DEF Debt, Doomed
  <2>3. ASSUME NEW q \in Proc \ {p}
        PROVE  /\ pc'[q] = pc[q] /\ tries'[q] = tries[q] /\ handle'[q] = handle[q]
               /\ Debt(q)' <= Debt(q)
    <3>1. /\ pc'[q] = pc[q] /\ tries'[q] = tries[q] /\ handle'[q] = handle[q]
          /\ tries[q] \in Nat
      BY <1>2, AttemptsAssumption DEF OpenLockFile, Goto, LockInv, TypeOK
    <3>2. pc[q] \in {"lock", "check"} /\ handle[q] = path => path' = path
      BY <1>2, FileAssumption DEF OpenLockFile, LockInv, HandlesOK, Holding
    <3> QED BY <2>1, <3>1, <3>2 DEF Debt, Doomed
  <2>4. First(p) \subseteq First(p)'
    <3>1. cleared \subseteq Proc \ {p}
      BY <1>1 DEF LockInv, TypeOK, Proc
    <3> QED BY <1>1, <2>3, <3>1 DEF First, Waits
  <2> QED BY <1>1, <2>1, <2>2, <2>3, <2>4, AttemptStep
<1>3. CASE ~folder
  <2>1. tries'[p] = tries[p] + 1 /\ pc'[p] \in {"folder", "failed"} /\ UNCHANGED <<path, handle, folder>>
    BY <1>3 DEF OpenLockFile, StartAgain, Goto, LockInv, TypeOK
  <2>2. Debt(p)' = tries[p] + 1 /\ Debt(p) = tries[p] + 1
    BY <1>1, <1>3, <2>1 DEF Debt, Doomed
  <2>3. ASSUME NEW q \in Proc \ {p}
        PROVE  /\ pc'[q] = pc[q] /\ tries'[q] = tries[q] /\ handle'[q] = handle[q]
               /\ Debt(q)' <= Debt(q)
    <3>1. pc'[q] = pc[q] /\ tries'[q] = tries[q] /\ tries[q] \in Nat
      BY <1>3, AttemptsAssumption DEF OpenLockFile, StartAgain, Goto, LockInv, TypeOK
    <3> QED BY <2>1, <3>1 DEF Debt, Doomed
  <2>4. First(p) \subseteq First(p)'
    <3>1. cleared \subseteq Proc \ {p}
      BY <1>1 DEF LockInv, TypeOK, Proc
    <3> QED BY <1>1, <2>1, <2>3, <3>1 DEF First, Waits
  <2> QED BY <1>1, <2>1, <2>2, <2>3, <2>4, AttemptStep
<1> QED BY <1>2, <1>3

(* Who gets the flock waits for no clearer that is still at work.          *)
LEMMA FlockRetries ==
  ASSUME LockInv, LockInv', RetriesInv, NEW p \in Proc, Flock(p) PROVE RetriesInv'
<1>1. /\ p \notin cleared /\ pc[p] = "lock" /\ pc'[p] = "check"
      /\ UNCHANGED <<cleared, handle, path, folder, tries>>
      /\ \A q \in Proc \ {p} : pc'[q] = pc[q]
  BY DEF RetriesInv, Removing, Finished, Flock, shared, Goto, LockInv, TypeOK
<1>2. \A q \in Proc : Debt(q)' <= Debt(q) /\ tries'[q] <= Debt(q)
  BY <1>1, AttemptsAssumption DEF LockInv, TypeOK, Debt, Doomed
<1>3. First(p) \subseteq First(p)'
  <2>1. cleared \subseteq Proc \ {p}
    BY <1>1 DEF LockInv, TypeOK, Proc
  <2>2. ASSUME NEW c \in cleared, pc[c] = "rmdir", Waits(p, c) PROVE FALSE
    <3>1. holder[handle[p]] = c
      BY <2>1, <2>2 DEF LockInv, HandlesOK, Waits, Holding
    <3> QED BY <2>1, <3>1, ProcAssumption DEF Flock
  <2> QED BY <1>1, <2>1, <2>2 DEF First
<1> QED BY <1>1, <1>2, <1>3, AttemptStep DEF Finished

LEMMA CheckRetries ==
  ASSUME LockInv, LockInv', RetriesInv, NEW p \in Proc, CheckLockFile(p) PROVE RetriesInv'
<1>1. /\ p \notin cleared /\ pc[p] = "check" /\ UNCHANGED <<cleared, path, folder>>
      /\ tries[p] \in Nat
  <2>1. pc[p] = "check" /\ UNCHANGED <<cleared, path, folder>>
    BY DEF CheckLockFile, shared
  <2> QED BY <2>1, DebtLemma DEF RetriesInv, Removing, Finished
<1>2. \A q \in Proc \ {p} : /\ pc'[q] = pc[q] /\ tries'[q] = tries[q] /\ handle'[q] = handle[q]
  BY CloseLemma DEF CheckLockFile, StartAgain, Goto, LockInv, TypeOK
<1>3. \A q \in Proc \ {p} : Debt(q)' <= Debt(q)
  BY <1>1, <1>2, AttemptsAssumption DEF LockInv, TypeOK, Debt, Doomed
<1>4. First(p) \subseteq First(p)'
  <2>1. cleared \subseteq Proc \ {p}
    BY <1>1 DEF LockInv, TypeOK, Proc
  <2> QED BY <1>1, <1>2, <2>1 DEF First, Waits
<1>5. tries'[p] <= Debt(p) /\ Debt(p)' <= Debt(p)
  <2>1. CASE LockFileCurrent(p)
    <3>1. tries' = tries /\ pc'[p] \in {"read", "entries"}
      BY <2>1 DEF CheckLockFile, Goto, LockInv, TypeOK
    <3> QED BY <1>1, <3>1 DEF Debt, Doomed
  <2>2. CASE ~LockFileCurrent(p)
    <3>1. tries'[p] = tries[p] + 1 /\ pc'[p] \in {"folder", "failed"}
      BY <2>2 DEF CheckLockFile, StartAgain, Goto, LockInv, TypeOK
    <3>2. Debt(p) = tries[p] + 1 /\ Debt(p)' = tries[p] + 1
      BY <1>1, <2>2, <3>1 DEF Debt, Doomed, LockFileCurrent
    <3> QED BY <1>1, <3>1, <3>2
  <2> QED BY <2>1, <2>2
<1> QED BY <1>1, <1>2, <1>3, <1>4, <1>5, AttemptStep DEF Finished

LEMMA DiesRetries ==
  ASSUME LockInv, LockInv', RetriesInv, NEW p \in Proc, Dies(p) PROVE RetriesInv'
<1>1. /\ UNCHANGED <<cleared, path, folder, tries>> /\ pc'[p] = "dead"
      /\ \A q \in Proc \ {p} : pc'[q] = pc[q] /\ handle'[q] = handle[q]
  BY CloseLemma DEF Dies, shared, Goto, LockInv, TypeOK
<1>2. \A q \in Proc : tries[q] \in Nat /\ tries[q] <= Debt(q)
  BY AttemptsAssumption DEF LockInv, TypeOK, Debt
<1>3. cleared \subseteq Proc
  BY DEF LockInv, TypeOK, Proc
<1>4. \A c \in cleared' : pc'[c] \in Removing \cup Finished
  BY <1>1, <1>3 DEF RetriesInv, Finished
<1>5. Second \subseteq Second'
  BY <1>1, <1>3 DEF Second, Removing
<1>6. ASSUME NEW q \in Proc \ {p} PROVE Debt(q)' <= Debt(q) /\ First(q) \subseteq First(q)'
  <2>1. Debt(q)' <= Debt(q)
    BY <1>1, <1>2 DEF Debt, Doomed
  <2>2. ASSUME NEW c \in First(q) PROVE c \in First(q)'
    <3>1. CASE c = p
      BY <1>1, <2>2, <3>1 DEF First
    <3>2. CASE c # p
      BY <1>1, <1>3, <2>2, <3>2 DEF First, Waits
    <3> QED BY <3>1, <3>2
  <2> QED BY <2>1, <2>2
<1> QED BY <1>1, <1>2, <1>4, <1>5, <1>6, PaidStep DEF RetriesInv, Finished

(* The first removal: those who wait for the file that goes had it at the  *)
(* path, and pay with it.                                                  *)
LEMMA RemoveLockFileRetries ==
  ASSUME LockInv, LockInv', RetriesInv, NEW p \in Clearer, RemoveLockFile(p) PROVE RetriesInv'
<1>1. /\ p \in Proc /\ pc[p] \in {"lockfile", "lockfile again"} /\ pc[p] \notin Finished
      /\ pc'[p] = IF pc[p] = "lockfile" THEN "rmdir" ELSE "rmdir again"
      /\ \A q \in Proc \ {p} : pc'[q] = pc[q]
      /\ UNCHANGED <<folder, handle, tries>>
      /\ cleared' \in {cleared, cleared \cup {p}}
      /\ path' # path => cleared' = cleared \cup {p}
  BY DEF RemoveLockFile, Goto, LockInv, TypeOK, Proc, Finished
<1>0. ASSUME NEW q \in Proc
      PROVE  /\ tries'[q] <= Debt(q) /\ Debt(q)' <= Debt(q) + 1
             /\ (Doomed(q)' => Doomed(q)) => Debt(q)' <= Debt(q)
  <2>1. tries'[q] = tries[q]
    BY <1>1
  <2> QED BY <2>1, DebtLemma
<1>2. cleared \subseteq Proc /\ IsFiniteSet(cleared') /\ cleared \subseteq cleared'
  <2>1. IsFiniteSet(cleared \cup {p})
    BY FS_AddElement DEF RetriesInv
  <2> QED BY <1>1, <2>1 DEF LockInv, TypeOK, Proc, RetriesInv
<1>3. \A c \in cleared' : pc'[c] \in Removing \cup Finished
  BY <1>1, <1>2 DEF RetriesInv, Removing
<1>4. pc[p] = "lockfile" => p \notin cleared
  BY DEF RetriesInv, Removing, Finished
<1>5. Second \subseteq Second'
  BY <1>1, <1>2 DEF Second, RetriesInv, Finished, Removing
<1>6. ASSUME NEW q \in Proc, pc'[q] \notin Finished
      PROVE  /\ pc[q] \notin Finished /\ First(q) \subseteq First(q)'
             /\ \/ Debt(q)' <= Debt(q)
                \/ Debt(q)' <= Debt(q) + 1 /\ First(q) # First(q)'
  <2>1. pc[q] \notin Finished
    BY <1>1, <1>6
  <2>2. First(q) \subseteq First(q)'
    <3>1. ASSUME NEW c \in First(q) PROVE c \in First(q)'
      <4>1. c \in cleared /\ c \in cleared'
        BY <1>2, <3>1 DEF First
      <4>2. CASE c = p
        BY <1>1, <1>4, <4>1, <4>2 DEF First
      <4>3. CASE c # p
        <5>1. pc'[c] = pc[c]
          BY <1>1, <1>2, <4>1, <4>3
        <5>2. CASE pc[c] # "rmdir"
          BY <4>1, <5>1, <5>2 DEF First
        <5>3. CASE pc[c] = "rmdir"
          <6>1. pc[q] = "lock" /\ handle[q] = handle[c]
            BY <3>1, <5>3 DEF First, Waits
          <6>2. q # p
            BY <1>1, <6>1
          <6> QED BY <1>1, <4>1, <6>1, <6>2 DEF First, Waits
        <5> QED BY <5>2, <5>3
      <4> QED BY <4>2, <4>3
    <3> QED BY <3>1
  <2>3. CASE q = p \/ path' = path \/ ~Doomed(q)'
    <3>1. Doomed(q)' => Doomed(q)
      BY <1>1, <2>3 DEF Doomed
    <3> QED BY <1>0, <2>1, <2>2, <3>1
  <2>4. CASE Doomed(q)
    BY <1>0, <2>1, <2>2, <2>4
  <2>5. CASE q # p /\ path' # path /\ Doomed(q)' /\ ~Doomed(q)
    <3>1. pc[q] \in {"lock", "check"} /\ handle[q] = path
      BY <1>1, <2>5 DEF Doomed
    <3>2. pc[p] = "lockfile" /\ handle[p] = path
      <4>1. Removable /\ ~(pc[p] = "lockfile again" /\ platform = "unix")
        BY <2>5 DEF RemoveLockFile
      <4>2. pc[p] = "lockfile"
        BY <1>1, <3>1, <4>1 DEF Removable
      <4> QED BY <1>1, <4>2 DEF LockInv, InsideOK, Inside
    <3>3. pc[q] = "lock"
      BY <1>1, <2>5, <3>1, <3>2 DEF LockInv, HandlesOK, Holding
    <3>4. p \in First(q)' /\ p \notin First(q)
      BY <1>1, <1>4, <2>5, <3>1, <3>2, <3>3 DEF First, Waits
    <3>5. Debt(q)' <= Debt(q) + 1
      BY <1>0
    <3> QED BY <2>1, <2>2, <3>4, <3>5
  <2> QED BY <2>1, <2>2, <2>3, <2>4, <2>5
<1>7. \A q \in Proc : tries'[q] <= Debt(q)
  BY <1>0
<1> QED BY <1>2, <1>3, <1>5, <1>6, <1>7, PaidStep

(* Removing the folder: who waits for the clearer's lock is not there, and *)
(* everybody else's attempt is paid for.                                   *)
LEMMA RemoveFolderRetries ==
  ASSUME LockInv, LockInv', RetriesInv, NEW p \in Clearer, RemoveFolder(p) PROVE RetriesInv'
<1>1. /\ p \in Proc /\ pc[p] \in {"rmdir", "rmdir again"} /\ pc[p] \notin Finished
      /\ pc'[p] = IF pc[p] = "rmdir" THEN "unlock" ELSE "done"
      /\ \A q \in Proc \ {p} : pc'[q] = pc[q]
      /\ UNCHANGED <<path, handle, tries>>
      /\ cleared' \in {cleared, cleared \cup {p}}
      /\ folder' = folder \/ (folder /\ ~folder' /\ cleared' = cleared \cup {p})
  BY DEF RemoveFolder, Goto, LockInv, TypeOK, Proc, Finished
<1>0. ASSUME NEW q \in Proc
      PROVE  /\ tries'[q] <= Debt(q) /\ Debt(q)' <= Debt(q) + 1
             /\ (Doomed(q)' => Doomed(q)) => Debt(q)' <= Debt(q)
  <2>1. tries'[q] = tries[q]
    BY <1>1
  <2> QED BY <2>1, DebtLemma
<1>2. cleared \subseteq Proc /\ IsFiniteSet(cleared') /\ cleared \subseteq cleared'
  <2>1. IsFiniteSet(cleared \cup {p})
    BY FS_AddElement DEF RetriesInv
  <2> QED BY <1>1, <2>1 DEF LockInv, TypeOK, Proc, RetriesInv
<1>3. \A c \in cleared' : pc'[c] \in Removing \cup Finished
  BY <1>1, <1>2 DEF RetriesInv, Removing, Finished
<1>4. Second \subseteq Second'
  BY <1>1, <1>2 DEF Second, RetriesInv, Finished, Removing
<1>5. ASSUME NEW q \in Proc, pc'[q] \notin Finished
      PROVE  /\ pc[q] \notin Finished /\ First(q) \subseteq First(q)'
             /\ \/ Debt(q)' <= Debt(q)
                \/ Debt(q)' <= Debt(q) + 1 /\ (First(q) # First(q)' \/ Second # Second')
  <2>1. pc[q] \notin Finished
    BY <1>1, <1>5
  <2>2. First(q) \subseteq First(q)'
    <3>1. ASSUME NEW c \in First(q) PROVE c \in First(q)'
      <4>1. c \in cleared /\ c \in cleared'
        BY <1>2, <3>1 DEF First
      <4>2. CASE c = p
        BY <1>1, <4>1, <4>2 DEF First
      <4>3. CASE c # p
        <5>1. pc'[c] = pc[c]
          BY <1>1, <1>2, <4>1, <4>3
        <5>2. CASE pc[c] # "rmdir"
          BY <4>1, <5>1, <5>2 DEF First
        <5>3. CASE pc[c] = "rmdir"
          <6>1. pc[q] = "lock" /\ handle[q] = handle[c]
            BY <3>1, <5>3 DEF First, Waits
          <6>2. q # p
            BY <1>1, <6>1
          <6> QED BY <1>1, <4>1, <6>1, <6>2 DEF First, Waits
        <5> QED BY <5>2, <5>3
      <4> QED BY <4>2, <4>3
    <3> QED BY <3>1
  <2>3. CASE q = p \/ folder' = folder \/ ~Doomed(q)' \/ Doomed(q)
    <3>1. Doomed(q)' => Doomed(q)
      BY <1>1, <2>3 DEF Doomed
    <3> QED BY <1>0, <2>1, <2>2, <3>1
  <2>4. CASE q # p /\ cleared' = cleared \cup {p} /\ Doomed(q)' /\ ~Doomed(q)
    <3>1. pc[q] = "open"
      BY <1>1, <2>4 DEF Doomed
    <3>2. Debt(q)' <= Debt(q) + 1
      BY <1>0
    <3>3. CASE pc[p] = "rmdir"
      BY <1>1, <2>1, <2>2, <2>4, <3>1, <3>2, <3>3 DEF First, Waits
    <3>4. CASE pc[p] = "rmdir again"
      <4>1. p \in Second' /\ p \notin Second
        BY <1>1, <2>4, <3>4 DEF Second, Removing
      <4> QED BY <2>1, <2>2, <3>2, <4>1
    <3> QED BY <1>1, <3>3, <3>4
  <2> QED BY <1>1, <2>3, <2>4
<1>6. \A q \in Proc : tries'[q] <= Debt(q)
  BY <1>0
<1> QED BY <1>2, <1>3, <1>4, <1>5, <1>6, PaidStep

LEMMA NextRetries == LockInv /\ LockInv' /\ RetriesInv /\ [Next]_vars => RetriesInv'
<1> SUFFICES ASSUME LockInv, LockInv', RetriesInv, [Next]_vars PROVE RetriesInv'
  OBVIOUS
<1>1. CASE UNCHANGED vars
  BY <1>1 DEF vars, shared, RetriesInv, RetriesNeedClears, Debt, Paid, Doomed, First, Second, Waits
<1>2. ASSUME NEW p \in Proc, Step(p) \/ Fails(p) \/ Dies(p) PROVE RetriesInv'
  BY <1>2, QuietRetries, OpenRetries, FlockRetries, CheckRetries, DiesRetries,
     RemoveLockFileRetries, RemoveFolderRetries DEF Step, LockReview
<1> QED BY <1>1, <1>2 DEF Next, AllFinished

(* A process starts again at most twice for every clearer that removed     *)
(* something, whatever dies and however many clear the review at once.     *)
THEOREM RetriesAreCleared == Spec => []RetriesNeedClears
<1>1. LockInv /\ RetriesInv /\ [Next]_vars => LockInv' /\ RetriesInv'
  BY NextLock, NextRetries
<1>2. RetriesInv => RetriesNeedClears
  BY DEF RetriesInv
<1> QED BY <1>1, <1>2, InitLock, InitRetries, PTL DEF Spec
=============================================================================
