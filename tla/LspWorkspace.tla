---------------------------- MODULE LspWorkspace ----------------------------
(* Where the language servers of a review look: at the working tree, or,   *)
(* while commits are reviewed, at a sparse worktree of their head that the *)
(* daemon checks out into the review's folder when a request first needs   *)
(* it (server/lsp_handlers.go, vcs/worktree.go).  Requests, the idle timer *)
(* and the daemon's stop share one lock; switching focus, other processes  *)
(* and git do not know of it.                                              *)
EXTENDS Integers

CONSTANTS
  Request,    \* requests for a hover, a definition or references
  Commit,     \* commits that may be reviewed
  None,
  MaxActs     \* bound on what reviewers, other processes and failures do

VARIABLES
  focus,      \* the commit shown, None for the working tree, and the review's languages with a server
  lsp,        \* Server.lsp: its worktree, provider and timer, and who holds its lock
  disk,       \* the worktree's directory and whether git lists it
  req,        \* what each request is doing
  daemon,     \* up, ending once its context is cancelled, or gone
  hist,       \* what explains a workspace that is not as it should be
  acts

vars == <<focus, lsp, disk, req, daemon, hist, acts>>

NoRoot  == [dir |-> FALSE, sha |-> None, patterns |-> {}, prov |-> None, timer |-> FALSE,
            fired |-> FALSE, holder |-> None]
Waiting == [at |-> "idle", sha |-> None, patterns |-> {}, root |-> None, prov |-> None, steady |-> FALSE]
NoHist  == [torn |-> FALSE, cleared |-> FALSE, left |-> FALSE, dangling |-> FALSE]
Checkout(sha, patterns, whole) == [sha |-> sha, patterns |-> patterns, whole |-> whole]
Foreign  == Checkout(None, {}, FALSE)
Nothing  == [at |-> None, known |-> FALSE]
IsCheckout(d) == d.at # None /\ d.at # Foreign

(* A daemon may find a checkout of a dead one, whole or not, a directory   *)
(* git knows nothing of, or a worktree listed that is not there.           *)
Init ==
  /\ focus \in [head : Commit \cup {None}, patterns : {{"go"}}]
  /\ lsp = NoRoot
  /\ \/ disk \in {Nothing, [at |-> Foreign, known |-> FALSE], [at |-> None, known |-> TRUE]}
     \/ disk \in [at : [sha : Commit, patterns : {{"go"}}, whole : BOOLEAN], known : {TRUE}]
  /\ req = [r \in Request |-> Waiting] /\ daemon = "up"
  /\ hist = [NoHist EXCEPT !.left = IsCheckout(disk), !.dangling = disk.at = None /\ disk.known]
  /\ acts = 0
-----------------------------------------------------------------------------
Free    == lsp.holder = None
LspRoot(l) == IF l.dir THEN "worktree" ELSE "tree"
Act     == acts < MaxActs /\ acts' = acts + 1
Upset   == req' = [r \in Request |-> [req[r] EXCEPT !.steady = FALSE]]
Goto(r, at) == req' = [req EXCEPT ![r].at = at]

(* What removeWorktree may leave and whether it succeeds.  Git may refuse, *)
(* and cannot be run when works is FALSE.  Then a directory that git lists *)
(* or that is our own is deleted and git's record pruned, if that works.   *)
RemoveWorktree(own, works) ==
  IF disk.at = None THEN {[disk |-> disk, ok |-> TRUE]}
  ELSE {[disk |-> disk, ok |-> FALSE]}
       \cup (IF own \/ (disk.known /\ works)
             THEN {[disk |-> Nothing, ok |-> TRUE], [disk |-> [disk EXCEPT !.at = None], ok |-> FALSE]}
             ELSE {})
Runs == daemon = "up"
(* How a step leaves the directory, and what is to be said of it.          *)
Leaves(d, ok) ==
  /\ disk' = d
  /\ hist' = [torn |-> FALSE, cleared |-> FALSE,
              left |-> IsCheckout(d) /\ (hist.left \/ ~ok),
              dangling |-> d.at = None /\ d.known /\ (hist.dangling \/ ~ok)]

(* dropLSPRootLocked; holder is who keeps the lock.  A checkout that       *)
(* cannot be removed is only logged.                                       *)
DropRoot(holder, fired) ==
  /\ lsp' = [NoRoot EXCEPT !.holder = holder, !.fired = fired]
  /\ IF lsp.dir THEN \E o \in RemoveWorktree(FALSE, Runs) : Leaves(o.disk, o.ok)
     ELSE Leaves(disk, TRUE)
(* touchLSPIdleLocked: Stop does not reach a callback that has fired.      *)
Touched(l) == [l EXCEPT !.timer = TRUE]
-----------------------------------------------------------------------------
Asks(r) ==
  /\ req[r].at = "idle" /\ daemon # "gone"
  /\ req' = [req EXCEPT ![r] = [Waiting EXCEPT !.at = "sync"]]
  /\ UNCHANGED <<focus, lsp, disk, daemon, hist, acts>>

(* syncLSPRoot.  One that finds nothing to do,                             *)
Reuses(r) ==
  /\ req[r].at = "sync" /\ Free
  /\ IF focus.head = None THEN ~lsp.dir /\ lsp' = lsp
     ELSE lsp.dir /\ lsp.sha = focus.head /\ lsp.patterns = focus.patterns /\ lsp' = Touched(lsp)
  /\ req' = [req EXCEPT ![r].at = "root", ![r].patterns = focus.patterns, ![r].steady = TRUE]
  /\ UNCHANGED <<focus, disk, daemon, hist, acts>>
(* one that finds the working tree shown,                                  *)
Returns(r) ==
  /\ req[r].at = "sync" /\ Free /\ focus.head = None /\ lsp.dir
  /\ DropRoot(None, lsp.fired)
  /\ req' = [q \in Request |-> [req[q] EXCEPT !.steady = q = r, !.at = IF q = r THEN "root" ELSE req[q].at]]
  /\ UNCHANGED <<focus, daemon, acts>>
(* and one that has to check out, which keeps the lock.                    *)
Rebuilds(r) ==
  /\ req[r].at = "sync" /\ Free /\ focus.head # None
  /\ ~(lsp.dir /\ lsp.sha = focus.head /\ lsp.patterns = focus.patterns)
  /\ DropRoot(r, lsp.fired)
  /\ req' = [q \in Request |-> [req[q] EXCEPT !.steady = FALSE,
                                  !.at = IF q = r THEN "stale" ELSE req[q].at,
                                  !.patterns = IF q = r THEN focus.patterns ELSE req[q].patterns]]
  /\ UNCHANGED <<focus, daemon, acts>>

Fails(r) == lsp' = [lsp EXCEPT !.holder = None] /\ Goto(r, "idle")
(* What an earlier daemon left goes; the size is looked up, and may be     *)
(* too large or not be found.                                              *)
ClearsStale(r) ==
  /\ req[r].at = "stale"
  /\ \E o \in RemoveWorktree(FALSE, Runs) :
       /\ Leaves(o.disk, o.ok)
       /\ \/ o.ok /\ Runs /\ Goto(r, "add") /\ lsp' = lsp
          \/ Fails(r)
  /\ UNCHANGED <<focus, daemon, acts>>
(* AddSparseWorktree: git refuses a directory that is there or listed.     *)
Adds(r) ==
  /\ req[r].at = "add"
  /\ \/ /\ focus.head # None /\ disk = Nothing /\ Runs
        /\ Leaves([at |-> Checkout(focus.head, req[r].patterns, FALSE), known |-> TRUE], TRUE)
        /\ req' = [req EXCEPT ![r].at = "checkout", ![r].sha = focus.head]
        /\ lsp' = lsp
     \/ Fails(r) /\ UNCHANGED <<disk, hist>>
  /\ UNCHANGED <<focus, daemon, acts>>
ChecksOut(r) ==
  /\ req[r].at = "checkout"
  /\ \/ /\ disk.at # None /\ Runs
        /\ Leaves([disk EXCEPT !.at.whole = TRUE], TRUE)
        /\ Goto(r, "stamp") /\ lsp' = lsp
     \/ /\ \E o \in RemoveWorktree(TRUE, TRUE) : Leaves(o.disk, o.ok)
        /\ Fails(r)
  /\ UNCHANGED <<focus, daemon, acts>>
(* The head is read once more, without the session's lock.                 *)
Stamp(r, head) ==
  /\ req[r].at = "stamp"
  /\ lsp' = Touched([lsp EXCEPT !.dir = TRUE, !.sha = head, !.patterns = req[r].patterns, !.holder = None])
  /\ hist' = [hist EXCEPT !.torn = head # req[r].sha, !.cleared = disk.at = None, !.left = FALSE]
  /\ req' = [req EXCEPT ![r].at = "root", ![r].steady = head = req[r].sha /\ disk.at # None]
  /\ UNCHANGED <<focus, disk, daemon, acts>>
SyncLSPRoot(r) ==
  Reuses(r) \/ Returns(r) \/ Rebuilds(r) \/ ClearsStale(r) \/ Adds(r) \/ ChecksOut(r) \/ Stamp(r, focus.head)

(* resolveLSPRequestPath, then lspManager, each takes the lock anew.       *)
ResolvesPath(r) ==
  /\ req[r].at = "root" /\ Free
  /\ req' = [req EXCEPT ![r].at = "manager", ![r].root = LspRoot(lsp)]
  /\ UNCHANGED <<focus, lsp, disk, daemon, hist, acts>>
LspManager(r) ==
  /\ req[r].at = "manager" /\ Free
  /\ \E prov \in {IF lsp.prov = None THEN LspRoot(lsp) ELSE lsp.prov} :
       /\ lsp' = [lsp EXCEPT !.prov = prov]
       /\ req' = [req EXCEPT ![r].at = "answer", ![r].prov = prov]
  /\ UNCHANGED <<focus, disk, daemon, hist, acts>>
Responds(r) ==
  /\ req[r].at = "answer" /\ req' = [req EXCEPT ![r] = Waiting]
  /\ UNCHANGED <<focus, lsp, disk, daemon, hist, acts>>
-----------------------------------------------------------------------------
TimerFires ==
  /\ lsp.timer /\ lsp' = [lsp EXCEPT !.timer = FALSE, !.fired = TRUE]
  /\ UNCHANGED <<focus, disk, req, daemon, hist, acts>>
DropIdleLSPRoot ==
  /\ lsp.fired /\ Free
  /\ DropRoot(None, FALSE)
  /\ Upset /\ UNCHANGED <<focus, daemon, acts>>

(* SetFocus swaps the focus under the session's lock only.                 *)
SwitchesFocus ==
  /\ Act /\ \E h \in (Commit \cup {None}) \ {focus.head} : focus' = [focus EXCEPT !.head = h]
  /\ Upset /\ UNCHANGED <<lsp, disk, daemon, hist>>
InstallsServer ==
  /\ Act /\ focus.patterns = {"go"} /\ focus' = [focus EXCEPT !.patterns = {"go", "py"}]
  /\ Upset /\ UNCHANGED <<lsp, disk, daemon, hist>>
(* Another process clears the review's folder, the worktree in it.         *)
ClearsFolder ==
  /\ Act /\ disk.at # None
  /\ disk' = [disk EXCEPT !.at = None]
  /\ hist' = [hist EXCEPT !.cleared = TRUE, !.left = FALSE, !.dangling = disk.known]
  /\ Upset /\ UNCHANGED <<focus, lsp, daemon>>
(* Signals and shutdown requests cancel the context git is run with; the   *)
(* daemon's main function then calls ShutdownLSP.                          *)
Ends ==
  /\ Act /\ daemon = "up" /\ daemon' = "ending"
  /\ UNCHANGED <<focus, lsp, disk, req, hist>>
ShutdownLSP ==
  /\ daemon = "ending" /\ Free /\ daemon' = "gone"
  /\ DropRoot(None, lsp.fired)
  /\ Upset /\ UNCHANGED <<focus, acts>>
(* The process exits, or dies, and another daemon serves the review.       *)
Restarts ==
  /\ (daemon = "gone" /\ acts' = acts) \/ Act
  /\ daemon' = "up" /\ lsp' = NoRoot /\ req' = [r \in Request |-> Waiting]
  /\ hist' = [NoHist EXCEPT !.left = IsCheckout(disk), !.dangling = disk.at = None /\ disk.known]
  /\ UNCHANGED <<focus, disk>>

Next ==
  \/ \E r \in Request : Asks(r) \/ SyncLSPRoot(r) \/ ResolvesPath(r) \/ LspManager(r) \/ Responds(r)
  \/ TimerFires \/ DropIdleLSPRoot \/ ShutdownLSP \/ Restarts
  \/ SwitchesFocus \/ InstallsServer \/ ClearsFolder \/ Ends
Spec == Init /\ [][Next]_vars
-----------------------------------------------------------------------------
(* The servers are rooted where the daemon says, and a worktree it says it *)
(* has is the whole of the head it says, with the languages it says: it is *)
(* never taken for another's, half made or gone.  Except when the focus    *)
(* was switched between the checkout and the note of its head, and when    *)
(* another process has cleared the folder.                                 *)
WorkspaceIsHead ==
  /\ lsp.prov # None => lsp.prov = LspRoot(lsp)
  /\ lsp.dir /\ ~hist.torn /\ ~hist.cleared
       => disk = [at |-> Checkout(lsp.sha, lsp.patterns, TRUE), known |-> TRUE]

(* A request is answered, for the path it resolved, by servers that see    *)
(* what the reviewer sees, if nothing was switched or dropped since it     *)
(* looked; with the exceptions of WorkspaceIsHead.                         *)
AnswersFromHead ==
  ~hist.torn /\ ~hist.cleared =>
  \A r \in {q \in Request : req[q].at = "answer" /\ req[q].steady} :
    /\ req[r].root = req[r].prov
    /\ IF focus.head = None THEN req[r].root = "tree"
       ELSE req[r].root = "worktree" /\ disk.at = Checkout(focus.head, req[r].patterns, TRUE)

(* No checkout stays on disk but the one in use, whose timer runs or has   *)
(* fired, or one a daemon could not remove or died with; and git lists     *)
(* none that is not there unless the folder was cleared or pruning failed. *)
NothingAbandoned ==
  /\ Free /\ IsCheckout(disk) /\ ~hist.left => lsp.dir /\ (lsp.timer \/ lsp.fired)
  /\ disk.at = None /\ disk.known => hist.dangling

(* A directory that is no worktree of the repository is never deleted: the *)
(* worktree functions delete only what they made (worktree.go:23).         *)
ForeignStays == disk.at = Foreign /\ acts' = acts => disk' = disk
=============================================================================
