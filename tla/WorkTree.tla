------------------------------ MODULE WorkTree ------------------------------
(* Which files have changed (vcs/git.go, session.go, session_focus.go): a  *)
(* git repository as the trees of the base, HEAD, the index and the disk.  *)
(* Files are numbered as they sort; content 0 is that of a missing file.   *)
EXTENDS Integers, Sequences, FiniteSets

CONSTANT Path

NoPath == 0
Change(path, old, status) == [path |-> path, old |-> old, status |-> status]
Names(c) == {c.path, c.old} \ {NoPath}
Touched(changes) == UNION {Names(c) : c \in changes}

(* git diff --name-status: of the files that went and those that came, two *)
(* of the same content are one that was renamed.                           *)
NameStatus(old, new) ==
  LET gone == {p \in Path : old[p] # 0 /\ new[p] = 0}
      come == {p \in Path : old[p] = 0 /\ new[p] # 0}
      Before(p, S, t) == Cardinality({q \in S : q < p /\ t[q] = t[p]})
      From(p) == {q \in gone : old[q] = new[p] /\ Before(q, gone, old) = Before(p, come, new)}
      moved == {p \in come : From(p) # {}}
  IN {Change(p, CHOOSE q \in From(p) : TRUE, "renamed") : p \in moved}
     \cup {Change(p, NoPath, "added") : p \in come \ moved}
     \cup {Change(p, NoPath, "deleted") : p \in gone \ UNION {From(p) : p \in moved}}
     \cup {Change(p, NoPath, "modified") :
             p \in {q \in Path : old[q] # 0 /\ new[q] \notin {0, old[q]}}}

(* What git compares on disk: the files that it tracks.                    *)
OnDisk(r) == [p \in Path |-> IF r.index[p] = 0 THEN 0 ELSE r.work[p]]
UntrackedFiles(r) ==
  {Change(p, NoPath, "untracked") : p \in {q \in Path : r.index[q] = 0 /\ r.work[q] # 0}}

Dedup(changes, more) == changes \cup {c \in more : \A d \in changes : d.path # c.path}

(* The base is a set of one tree, or empty where none is known.            *)
BaseTree(r, base) == IF base = {} THEN r.head ELSE CHOOSE t \in base : TRUE

ChangedFilesOnDefault(r) == Dedup(NameStatus(r.head, OnDisk(r)), UntrackedFiles(r))
ChangedFilesFromBase(r, base) ==
  Dedup(NameStatus(BaseTree(r, base), OnDisk(r)), UntrackedFiles(r))
ChangedFilesForSession(r, base) ==
  IF base # {} THEN ChangedFilesFromBase(r, base) ELSE ChangedFilesOnDefault(r)

ChangedFilesStaged(r)   == NameStatus(r.head, r.index)
ChangedFilesUnstaged(r) == Dedup(NameStatus(r.index, OnDisk(r)), UntrackedFiles(r))
ChangedFilesBranch(r, base) ==
  IF base = {} THEN {} ELSE NameStatus(BaseTree(r, base), r.head)
ChangedFilesScoped(r, scope, base) ==
  CASE scope = "branch"   -> ChangedFilesBranch(r, base)
    [] scope = "staged"   -> ChangedFilesStaged(r)
    [] scope = "unstaged" -> ChangedFilesUnstaged(r)
    [] scope = "all"      -> ChangedFilesForSession(r, base)

(* The layers put together; one that touches what another did calls for a  *)
(* comparison of the base with the disk.                                   *)
MergeGitChangeLayers(r, base, branch, staged, unstaged) ==
  LET Meet(a, b) == Touched(a) \cap Touched(b) # {} IN
  IF Meet(branch, staged) \/ Meet(branch, unstaged) \/ Meet(staged, unstaged)
  THEN NameStatus(BaseTree(r, base), OnDisk(r))
  ELSE branch \cup staged \cup unstaged

(* The start's listing, from one status and one comparison of commits.     *)
InitialGitChangesAndScopes(r, base) ==
  LET branch   == ChangedFilesBranch(r, base)
      staged   == NameStatus(r.head, r.index)
      unstaged == NameStatus(r.index, OnDisk(r))
  IN [changes |-> Dedup(MergeGitChangeLayers(r, base, branch, staged, unstaged),
                        UntrackedFiles(r)),
      scopes  |-> {"all"} \cup (IF branch # {} THEN {"branch"} ELSE {})
                  \cup (IF staged # {} THEN {"staged"} ELSE {})
                  \cup (IF unstaged \cup UntrackedFiles(r) # {} THEN {"unstaged"} ELSE {})]

AvailableScopes(r, base) ==
  {"all"} \cup {scope \in {"branch", "staged", "unstaged"} : ChangedFilesScoped(r, scope, base) # {}}

(* ignored holds the files that a pattern or a binary extension excludes.  *)
Filtered(changes, ignored) == {c \in changes : c.path \notin ignored}

(* A session on the default branch is pinned to the commit it starts from. *)
DetectBase(r) == IF r.feature THEN {r.base} ELSE {}
SessionStartBase(r) == IF DetectBase(r) # {} THEN DetectBase(r) ELSE {r.head}
NewGitSession(r, statusFails, ignored) ==
  [base  |-> SessionStartBase(r),
   files |-> Filtered(IF statusFails THEN ChangedFilesForSession(r, DetectBase(r))
                      ELSE InitialGitChangesAndScopes(r, DetectBase(r)).changes, ignored)]

FileStatusInRepo(r, p, base) ==
  LET one == {c \in NameStatus([q \in Path |-> IF q = p THEN BaseTree(r, base)[q] ELSE 0],
                               [q \in Path |-> IF q = p THEN OnDisk(r)[q] ELSE 0]) : c.path = p}
  IN IF base # {} /\ one # {} THEN (CHOOSE c \in one : TRUE).status
     ELSE IF r.index[p] = 0 THEN "untracked" ELSE "modified"

FileDiffScoped(r, p, scope, base) ==
  CASE scope = "branch"   -> <<BaseTree(r, base)[p], r.head[p]>>
    [] scope = "staged"   -> <<r.head[p], r.index[p]>>
    [] scope = "unstaged" -> <<r.index[p], OnDisk(r)[p]>>

(* The text shown of a change, from what to what; none for a deleted file  *)
(* in scope all.  An added one is shown whole, as it is on disk.           *)
RendersWhole(c, scope) ==
  c.status = "untracked" \/ (c.status = "added" /\ scope \notin {"staged", "unstaged"})
ScopedHunks(r, c, scope, base) ==
  IF RendersWhole(c, scope) THEN <<0, r.work[c.path]>>
  ELSE IF scope = "all" /\ c.status = "deleted" THEN <<0, 0>>
  ELSE IF scope = "all" \/ (c.status = "renamed" /\ scope = "branch")
       THEN <<BaseTree(r, base)[IF c.old # NoPath THEN c.old ELSE c.path], OnDisk(r)[c.path]>>
  ELSE FileDiffScoped(r, c.path, scope, base)

(* The rows of a scope; scope all keeps those that comments hang on.       *)
(* unresolved gives their number by file of the session.                   *)
OrphanRows(listed, unresolved) == {p \in DOMAIN unresolved \ listed : unresolved[p] > 0}
HiddenUnresolved(rows, unresolved) ==
  LET Sum(S) == Cardinality(UNION {{p} \X (1..unresolved[p]) : p \in S \cap DOMAIN unresolved})
  IN Sum(DOMAIN unresolved) - Sum(rows)
ScopedInfo(r, session, scope, unresolved, ignored) ==
  LET listed == {c.path : c \in Filtered(ChangedFilesScoped(r, scope, session.base), ignored)}
      rows == listed \cup (IF scope = "all" THEN OrphanRows(listed, unresolved) ELSE {})
  IN [rows |-> rows, hidden |-> HiddenUnresolved(rows, unresolved)]
-----------------------------------------------------------------------------
(* Files by their names from the top, and the patterns to ignore them: of  *)
(* a directory anywhere, of a whole path, or of a file's own name.         *)
Star == "*"
Fits(glob, name) == glob \in {Star, name}
MatchPattern(pattern, path) ==
  LET n == Len(pattern.names) IN
  CASE pattern.kind = "dir"  -> \E i \in 1..(Len(path) - n) : SubSeq(path, i, i + n - 1) = pattern.names
    [] pattern.kind = "path" -> n = Len(path) /\ \A i \in 1..n : Fits(pattern.names[i], path[i])
    [] pattern.kind = "name" -> Fits(pattern.names[1], path[Len(path)])

FileIgnored(patterns, path) == \E p \in patterns : MatchPattern(p, path)
DirIgnored(patterns, dir) ==
  \E p \in patterns : p.kind = "dir" /\ MatchPattern(p, Append(dir, ""))

(* The files under a directory that is reviewed; skip holds the names of   *)
(* directories that are passed over.                                       *)
WalkDirectory(files, patterns, skip) ==
  {f \in files : /\ ~FileIgnored(patterns, f)
                 /\ \A k \in 1..(Len(f) - 1) : /\ f[k] \notin skip
                                               /\ ~DirIgnored(patterns, SubSeq(f, 1, k))}
-----------------------------------------------------------------------------
(* The quick listing at the start and the regular one of every refresh     *)
(* agree, up to which files are taken for a rename, which may span layers; *)
(* and so do their scopes.  Every file whose text    *)
(* is not the base's is there, and nothing else but files that git no      *)
(* longer tracks.  Committing hides nothing from a session.                *)
ChangesAreListed(r) ==
  LET base  == DetectBase(r)
      first == InitialGitChangesAndScopes(r, base)
      full  == ChangedFilesForSession(r, base)
      session == NewGitSession(r, FALSE, {})
      committed == [r EXCEPT !.index = r.work, !.head = r.work]
      Later(repo) == ChangedFilesForSession(repo, session.base)
  IN /\ Touched(first.changes) = Touched(full)
     /\ \A c \in (full \ first.changes) \cup (first.changes \ full) :
          \E m \in full \cup first.changes : m.status = "renamed" /\ c.path \in Names(m)
     /\ first.scopes = AvailableScopes(r, base)
     /\ Touched(full) = {p \in Path : \/ r.work[p] # BaseTree(r, base)[p]
                                      \/ r.work[p] # 0 /\ r.index[p] = 0}
     /\ NewGitSession(r, TRUE, {}).files = full
     /\ \A c \in Later(r) : r.work[c.path] # BaseTree(r, session.base)[c.path] =>
          \E d \in Later(committed) : c.path \in Names(d)
     /\ \A c \in full : base # {} /\ c.status \notin {"renamed", "untracked"} =>
          FileStatusInRepo(r, c.path, base) = c.status

(* A change is shown as its scope says, between that scope's two trees:    *)
(* but a file added or renamed on the branch is shown as it is on disk,    *)
(* one renamed in the index as new, one that git no longer tracks as new,  *)
(* and a deleted one without its text.                                     *)
ScopesShowTheirChanges(r) ==
  LET base == SessionStartBase(r)
      Sides(scope) == CASE scope = "all" -> <<BaseTree(r, base), r.work>>
                        [] scope = "branch" -> <<BaseTree(r, base), r.head>>
                        [] scope = "staged" -> <<r.head, r.index>>
                        [] scope = "unstaged" -> <<r.index, r.work>>
  IN \A scope \in {"all", "branch", "staged", "unstaged"} :
       \A c \in ChangedFilesScoped(r, scope, base) :
         LET from == IF c.old # NoPath THEN c.old ELSE c.path
             want == <<Sides(scope)[1][from], Sides(scope)[2][c.path]>>
             shown == ScopedHunks(r, c, scope, base)
         IN \/ shown = want
            \/ scope = "branch" /\ c.status \in {"added", "renamed"} /\ shown[1] = want[1]
            \/ scope = "staged" /\ c.status = "renamed" /\ shown = <<0, want[2]>>
            \/ scope = "all" /\ c.status = "untracked" /\ shown = <<0, want[2]>>
            \/ scope = "all" /\ c.status = "deleted"

(* Every unresolved comment is on a row that is shown or in the count of   *)
(* those that are not; in scope all none is out of sight.                  *)
UnresolvedAreCounted(r, unresolved, ignored) ==
  LET session == NewGitSession(r, FALSE, ignored) IN
  \A scope \in {"all", "branch", "staged", "unstaged"} :
    LET info == ScopedInfo(r, session, scope, unresolved, ignored) IN
    /\ (info.hidden = 0) <=> \A p \in DOMAIN unresolved : unresolved[p] > 0 => p \in info.rows
    /\ scope = "all" => info.hidden = 0

(* Passing over a directory hides no file that the patterns would keep.    *)
WalkMissesNothing(files, patterns, skip) ==
  WalkDirectory(files, patterns, skip) =
    {f \in files : ~FileIgnored(patterns, f) /\ \A k \in 1..(Len(f) - 1) : f[k] \notin skip}
=============================================================================
