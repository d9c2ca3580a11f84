---------------------------- MODULE ReviewFolders ---------------------------
(* Where one review is kept on disk, by name: its folder, the shapes it    *)
(* had in earlier releases, which are migrated on first use, and what is   *)
(* left of a migration (session/review_migrate.go); and the cleanup that   *)
(* runs beside every command and removes what is old                       *)
(* (session/stale_reviews.go, daemon_cli.go, review/cleanup_cli.go).       *)
(* Only writes are locked: a migration and a cleanup are not.              *)
EXTENDS Integers, FiniteSets

CONSTANTS
  Process,    \* commands and daemons that use the review
  None,       \* nothing under a name
  MaxActs     \* bound on what is begun

VARIABLES
  disk,       \* name -> None, a file or a folder
  sidecar,    \* the flat files that have a snapshots file beside them
  session,    \* the registry entry and its daemon
  pc,         \* what each process is doing
  cleanup,    \* what a cleanup found, which daemon it saw and what came since
  made,       \* the comments made, removed with the review
  overlap,    \* whether two that lock nothing were at it at once
  acts

vars == <<disk, sidecar, session, pc, cleanup, made, overlap, acts>>

(* id is the folder's name; legacy the same with .json; tmp a migration's. *)
Name == {"id", "legacy", "tmp"}
Exists(n)   == disk[n] # None
IsDir(n)    == Exists(n) /\ disk[n].kind = "dir"
IsFile(n)   == Exists(n) /\ disk[n].kind = "file"
Flat(r, old)       == [kind |-> "file", review |-> r, snaps |-> FALSE, old |-> old]
Folder(r, snaps, old) == [kind |-> "dir", review |-> r, snaps |-> snaps, old |-> old]
HasReview(n) == Exists(n) /\ disk[n].review # {}
Migrating(p) == pc[p].at \in {"wipe", "move", "side", "place"}

Init ==
  /\ \E old \in BOOLEAN, snaps \in BOOLEAN :
       /\ \/ disk = [n \in Name |-> CASE n = "id" -> Folder({"first"}, snaps, old) [] OTHER -> None]
          \/ disk = [n \in Name |-> CASE n = "legacy" -> Folder({"first"}, snaps, old) [] OTHER -> None]
          \/ \E at \in {"id", "legacy"} :
               disk = [n \in Name |-> IF n = at THEN Flat({"first"}, old) ELSE None]
       /\ sidecar = {n \in {"id", "legacy"} : IsFile(n) /\ snaps}
  /\ session \in [file : {TRUE}, alive : BOOLEAN] \cup {[file |-> FALSE, alive |-> FALSE]}
  /\ pc = [p \in Process |-> [at |-> "idle", flat |-> "id"]]
  /\ cleanup = [at |-> "idle", stale |-> {}, sidecars |-> {}, live |-> FALSE, raced |-> FALSE]
  /\ made = {"first"} /\ overlap = FALSE /\ acts = 0
-----------------------------------------------------------------------------
Raced == cleanup' = [cleanup EXCEPT !.raced = TRUE]
Goto(p, at) == pc' = [pc EXCEPT ![p].at = at]
Fail(p)     == Goto(p, "failed")

Begin(p) ==
  /\ pc[p].at = "idle" /\ acts < MaxActs /\ acts' = acts + 1
  /\ Goto(p, "look")
  /\ UNCHANGED <<disk, sidecar, session, cleanup, made, overlap>>

(* ensureReviewFolder.  Two that find a flat file both migrate it.         *)
EnsureReviewFolder(p) ==
  /\ pc[p].at = "look"
  /\ overlap' = (overlap \/ \E q \in Process \ {p} : Migrating(q))
  /\ CASE IsDir("id") -> Goto(p, "make")
       [] IsFile("id") -> pc' = [pc EXCEPT ![p] = [at |-> "wipe", flat |-> "id"]]
       [] ~Exists("id") /\ IsDir("legacy") -> Goto(p, "rename")
       [] ~Exists("id") /\ IsFile("legacy") -> pc' = [pc EXCEPT ![p] = [at |-> "wipe", flat |-> "legacy"]]
       [] OTHER -> Goto(p, "make")
  /\ UNCHANGED <<disk, sidecar, session, cleanup, made, acts>>

(* A folder replaces no folder that has something in it.                   *)
CanReplace(n) == ~Exists(n) \/ (IsDir(n) /\ disk[n] = Folder({}, FALSE, FALSE))

RenameLegacyJSONFolder(p) ==
  /\ pc[p].at = "rename"
  /\ IF Exists("legacy") /\ CanReplace("id")
     THEN /\ disk' = [disk EXCEPT !["id"] = disk["legacy"], !["legacy"] = None]
          /\ Goto(p, "make")
     ELSE UNCHANGED disk /\ Fail(p)
  /\ Raced /\ UNCHANGED <<sidecar, session, made, overlap, acts>>

(* migrateFlatToFolder, one system call after the other.                   *)
WipeAndMake(p) ==
  /\ pc[p].at = "wipe"
  /\ disk' = [disk EXCEPT !["tmp"] = Folder({}, FALSE, FALSE)]
  /\ Goto(p, "move")
  /\ Raced /\ UNCHANGED <<sidecar, session, made, overlap, acts>>

MoveReview(p) ==
  /\ pc[p].at = "move"
  /\ IF IsFile(pc[p].flat) /\ IsDir("tmp")
     THEN /\ disk' = [disk EXCEPT !["tmp"].review = disk[pc[p].flat].review,
                                  !["tmp"].old = disk[pc[p].flat].old, ![pc[p].flat] = None]
          /\ Goto(p, "side")
     ELSE disk' = [disk EXCEPT !["tmp"] = None] /\ Fail(p)
  /\ Raced /\ UNCHANGED <<sidecar, session, made, overlap, acts>>

MoveSidecar(p) ==
  /\ pc[p].at = "side"
  /\ IF pc[p].flat \in sidecar /\ IsDir("tmp")
     THEN disk' = [disk EXCEPT !["tmp"].snaps = TRUE] /\ sidecar' = sidecar \ {pc[p].flat}
     ELSE UNCHANGED <<disk, sidecar>>
  /\ Goto(p, "place")
  /\ UNCHANGED <<session, cleanup, made, overlap, acts>>

Place(p) ==
  /\ pc[p].at = "place"
  /\ IF IsDir("tmp") /\ CanReplace("id")
     THEN disk' = [disk EXCEPT !["id"] = disk["tmp"], !["tmp"] = None] /\ Goto(p, "make")
     ELSE UNCHANGED disk /\ Fail(p)
  /\ Raced /\ UNCHANGED <<sidecar, session, made, overlap, acts>>

(* The folder is made, locked and written to, with what was read from it.  *)
Save(p) ==
  /\ pc[p].at = "make"
  /\ disk' = [disk EXCEPT !["id"] = Folder((IF IsDir("id") THEN @.review ELSE {}) \cup {p},
                                           IsDir("id") /\ @.snaps, FALSE)]
  /\ made' = made \cup {p}
  /\ Raced
  /\ Goto(p, "done")
  /\ UNCHANGED <<sidecar, session, overlap, acts>>

Crash(p) ==
  /\ Migrating(p)
  /\ Fail(p)
  /\ UNCHANGED <<disk, sidecar, session, cleanup, made, overlap, acts>>
-----------------------------------------------------------------------------
StartDaemon ==
  /\ ~session.alive /\ acts < MaxActs /\ acts' = acts + 1
  /\ session' = [file |-> TRUE, alive |-> TRUE]
  /\ Raced
  /\ UNCHANGED <<disk, sidecar, pc, made, overlap>>

StopDaemon ==
  /\ session.alive
  /\ session' \in [file : BOOLEAN, alive : {FALSE}]
  /\ cleanup' = [cleanup EXCEPT !.live = FALSE]
  /\ UNCHANGED <<disk, sidecar, pc, made, overlap, acts>>

(* What a cleanup takes for stale: not what a live daemon serves; by the   *)
(* review's date, or by the folder's where only snapshots are left.  The   *)
(* snapshots beside a flat review pass for a review of their own.          *)
(* Mutant: only the folder is taken for served, not a flat review yet to   *)
(* be migrated.                                                            *)
ServesFolder(n) == session.file /\ session.alive /\ n = "id"
ServesName(n) == session.file /\ session.alive /\ n # "tmp"
CheckStaleReviewFolder(n) == IsDir(n) /\ disk[n].old /\ (HasReview(n) \/ disk[n].snaps)
CheckStaleReview(n) == n = "legacy" /\ IsFile(n) /\ disk[n].old
FindStaleReviews ==
  /\ cleanup.at = "idle" /\ acts < MaxActs /\ acts' = acts + 1
  /\ \E others \in SUBSET sidecar :
       cleanup' = [at |-> "delete", raced |-> FALSE, live |-> session.file /\ session.alive,
                   sidecars |-> others,
                   stale |-> {n \in Name : /\ Exists(n) /\ ~ServesName(n)
                                           /\ (CheckStaleReviewFolder(n) \/ CheckStaleReview(n))}]
  /\ UNCHANGED <<disk, sidecar, session, pc, made, overlap>>

(* With a review goes what the registry has for it.                        *)
DeleteStaleReview(n) ==
  /\ cleanup.at = "delete" /\ n \in cleanup.stale
  /\ cleanup' = [cleanup EXCEPT !.stale = @ \ {n}]
  /\ IF Exists(n)
     THEN /\ disk' = [disk EXCEPT ![n] = None]
          /\ sidecar' = sidecar \ (IF IsFile(n) THEN {n} ELSE {})
          /\ session' = [session EXCEPT !.file = @ /\ n = "tmp"]
          /\ made' = made \ disk[n].review
     ELSE UNCHANGED <<disk, sidecar, session, made>>
  /\ UNCHANGED <<pc, overlap, acts>>

DeleteStaleSidecar(n) ==
  /\ cleanup.at = "delete" /\ n \in cleanup.sidecars
  /\ cleanup' = [cleanup EXCEPT !.sidecars = @ \ {n}]
  /\ sidecar' = sidecar \ {n}
  /\ UNCHANGED <<disk, session, pc, made, overlap, acts>>

(* crit cleanup asks first.                                                *)
RunCleanup ==
  /\ cleanup.at = "delete"
  /\ cleanup' = [cleanup EXCEPT !.at = "idle", !.stale = {}, !.sidecars = {}]
  /\ UNCHANGED <<disk, sidecar, session, pc, made, overlap, acts>>

CleanOrphanedSessions ==
  /\ cleanup.at = "delete" /\ cleanup.stale = {} /\ cleanup.sidecars = {}
  /\ cleanup' = [cleanup EXCEPT !.at = "idle"]
  /\ session' = [session EXCEPT !.file = @ /\ session.alive]
  /\ UNCHANGED <<disk, sidecar, pc, made, overlap, acts>>

Next ==
  \/ \E p \in Process :
       \/ Begin(p) \/ EnsureReviewFolder(p) \/ RenameLegacyJSONFolder(p) \/ WipeAndMake(p)
       \/ MoveReview(p) \/ MoveSidecar(p) \/ Place(p) \/ Save(p) \/ Crash(p)
  \/ StartDaemon \/ StopDaemon \/ FindStaleReviews \/ RunCleanup \/ CleanOrphanedSessions
  \/ \E n \in Name : DeleteStaleReview(n) \/ DeleteStaleSidecar(n)
-----------------------------------------------------------------------------
(* What was written is on disk as long as no cleanup removed it, where the *)
(* next command finds it unless a migration is under way or broke off; and *)
(* with it its snapshots.  Not so where two migrate at once, of which one  *)
(* wipes the other's work; and what one killed half way held stays behind  *)
(* under a name that no command reads.                                     *)
ReviewSurvives ==
  ~overlap =>
    /\ made = UNION {disk[n].review : n \in {m \in Name : Exists(m)}}
    /\ (\A p \in Process : ~Migrating(p) /\ pc[p].at # "failed")
         => ~Exists("tmp") /\ \A n \in sidecar : IsFile(n)

(* A cleanup leaves the daemon it saw, as long as it lives, its review and *)
(* its entry, whatever was done meanwhile; and one that no save or         *)
(* migration crossed removes nothing that is not old.                      *)
CleanupSparesTheLive ==
  cleanup.at = "delete" /\ cleanup' # cleanup /\ pc' = pc =>
    /\ cleanup.live /\ session'.alive =>
         /\ disk'["id"] = disk["id"] /\ disk'["legacy"] = disk["legacy"]
         /\ session'.file = session.file
    /\ ~cleanup.raced => \A n \in Name : Exists(n) /\ disk'[n] = None => disk[n].old
=============================================================================
