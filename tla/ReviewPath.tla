---------------------------- MODULE ReviewPath ------------------------------
(* Which review a command works on: crit comment, comments, push, pull,    *)
(* status and stop find it from where they are run, from the sessions that *)
(* are live and from what they are told (review/review_file.go,            *)
(* comment/run.go, list_cli.go, session/status_cli.go, stop_cli.go,        *)
(* daemon/daemon.go).                                                      *)
EXTENDS Integers, FiniteSets, FiniteSetsExt

CONSTANTS
  Inside,     \* pairs <<root, dir>>: dir is below root
  None        \* for what is not given: a flag, a setting, a repository

(* A command is run in a world w: in directory w.dir, of the repository    *)
(* w.root on w.branch, with the sessions w.live alive, given --output,     *)
(* --session and --plan, and with the setting config.                      *)
-----------------------------------------------------------------------------
(* Sessions and their reviews.  Keys are hashes, here what they hash.      *)

SessionKey(dir, branch, args) ==
  [dir |-> dir, branch |-> IF args = {} THEN branch ELSE None, args |-> args]
PlanSessionKey(slug) == [plan |-> slug]

Identity(root, key) == [root |-> root, key |-> key]
PlanReview(slug)    == [root |-> "plan", key |-> PlanSessionKey(slug)]

ResolveServeReviewPath(output, plan, key) ==
  IF output # None THEN Identity(output, key)
  ELSE IF plan # None THEN PlanReview(plan) ELSE Identity("home", key)

(* The entry a daemon registers.  A setting is no output of a plan's.      *)
Launch(dir, branch, args, plan, output) ==
  LET key == IF plan # None THEN PlanSessionKey(plan) ELSE SessionKey(dir, branch, args)
  IN [key |-> key, dir |-> dir, branch |-> branch,
      path |-> ResolveServeReviewPath(output, plan, key)]

(* The sessions a command finds around it.                                 *)
SessionsForCWD(w)      == {s \in w.live : s.dir = w.dir}
SessionsForRepoRoot(w) == {s \in w.live : s.dir = w.root \/ <<w.root, s.dir>> \in Inside}
SessionsForBranch(ss, branch) == {s \in ss : s.branch = branch}

NarrowMatching(ss, branch) ==
  IF Cardinality(ss) > 1 /\ SessionsForBranch(ss, branch) # {}
  THEN SessionsForBranch(ss, branch) ELSE ss

MatchingLiveSessions(w) ==
  IF SessionsForCWD(w) # {} THEN NarrowMatching(SessionsForCWD(w), w.branch)
  ELSE IF w.root \in {None, w.dir} THEN {}
  ELSE NarrowMatching(SessionsForRepoRoot(w), w.branch)
-----------------------------------------------------------------------------
(* Which review.  m are the matching sessions, as each command computes    *)
(* them afresh.                                                            *)
Ambiguous == [refused |-> "several sessions match"]
Refused   == [refused |-> "flags exclude each other"]
NotLive   == [refused |-> "no such session"]

Sole(m) == CHOOSE s \in m : TRUE
OwnKey(w) == SessionKey(w.dir, w.branch, {})

ResolveSessionReviewPath(w) ==
  IF \E s \in w.live : s.key = w.session
  THEN (CHOOSE s \in w.live : s.key = w.session).path ELSE NotLive

(* Under another root the session's key is kept: but not that of a plan.   *)
IdentityUnderDataRoot(root, w, m) ==
  IF Cardinality(m) > 1 THEN Ambiguous
  ELSE IF Cardinality(m) = 1 /\ Sole(m).path.root # "plan"
    THEN Identity(root, Sole(m).path.key)
  ELSE Identity(root, OwnKey(w))

ResolveCommandReviewPath(w, m) ==
  IF w.session # None
    THEN IF w.output # None THEN Refused ELSE ResolveSessionReviewPath(w)
  ELSE IF w.output # None THEN IdentityUnderDataRoot(w.output, w, m)
  ELSE IF Cardinality(m) > 1 THEN Ambiguous
  ELSE IF m # {} THEN Sole(m).path
  ELSE Identity(IF w.config # None THEN w.config ELSE "home", OwnKey(w))

ResolveCommentReviewPath(w, m) ==
  IF w.session # None
    THEN IF w.plan # None \/ w.output # None THEN Refused ELSE ResolveSessionReviewPath(w)
  ELSE IF w.plan # None
    THEN IF w.output # None THEN Refused ELSE PlanReview(w.plan)
  ELSE IF Cardinality(m) > 1 THEN Ambiguous
  ELSE IF w.output # None
    THEN Identity(w.output, IF m = {} THEN OwnKey(w) ELSE Sole(m).key)
  ELSE IF m # {} THEN Sole(m).path
  ELSE Identity(IF w.config # None THEN w.config ELSE "home", OwnKey(w))

(* crit comments, which lists them: --session excludes the others, too.    *)
ResolveCommentsCritPath(w, m) ==
  IF (w.session # None /\ (w.plan # None \/ w.output # None)) \/ (w.plan # None /\ w.output # None)
    THEN Refused
  ELSE IF w.plan # None THEN PlanReview(w.plan)
  ELSE ResolveCommandReviewPath(w, m)

(* crit status: sessions of another branch do not count, not even alone.   *)
LoadStatusSessions(w) ==
  LET here == SessionsForBranch(SessionsForCWD(w), w.branch)
  IN IF here # {} \/ w.root = None THEN here
     ELSE SessionsForBranch(SessionsForRepoRoot(w), w.branch)
ResolveStatusReviewPath(w, found) ==
  IF Cardinality(found) > 1 THEN Ambiguous
  ELSE IF found # {} THEN Sole(found).path
  ELSE Identity(IF w.config # None THEN w.config ELSE "home", OwnKey(w))

(* crit stop without files: the keys it may stop.                          *)
RunStop(w) ==
  LET own   == {s \in w.live : s.key = OwnKey(w)}
      found == SessionsForBranch(SessionsForCWD(w), w.branch)
  IN IF own # {} THEN own ELSE IF Cardinality(found) = 1 THEN found ELSE {}
-----------------------------------------------------------------------------
(* Which focus a comment is stamped with: that of the session found, or    *)
(* else of the only one here that has a range, or the only one at all.     *)
ProbeDaemonFocus(foci) ==
  LET ranges == {f \in foci : f.kind = "range"}
  IN IF Cardinality(ranges) = 1 THEN ranges
     ELSE IF ranges = {} /\ Cardinality(foci) = 1 THEN foci ELSE {}

Unstamped == [head |-> 0, scope |-> None]
ResolveCommentScope(override, focus, active) ==
  LET ranges == {f \in focus : f.kind = "range"}
      fits   == {f \in ranges : override = None \/ f.scope = override}
  IN IF override = "working-tree" THEN Unstamped
     ELSE IF fits # {}
       THEN [head |-> Sole(fits).head, scope |-> Sole(fits).scope]
     ELSE IF active # None /\ override \in {None, active} THEN [head |-> 0, scope |-> active]
     ELSE IF override = None THEN Unstamped ELSE Refused
-----------------------------------------------------------------------------
(* Everybody who says nothing else works on the one review that is live    *)
(* around him, or, with none live, on the one a daemon started here will   *)
(* open; with several that could be meant nobody guesses.  What is given   *)
(* with --output is the same for who writes and who reads comments, unless *)
(* the one live session is a plan's.                                       *)
CommandsAgree(w) ==
  \A m \in {MatchingLiveSessions(w)} :
  \A writes \in {ResolveCommentReviewPath(w, m)}, reads \in {ResolveCommentsCritPath(w, m)} :
    /\ writes = reads \/ (w.output # None /\ \E s \in m : s.path.root = "plan")
    /\ w.plan = None => ResolveCommandReviewPath(w, m) = reads \/ w.session # None
    /\ w.session # None /\ w.output = None /\ w.plan = None
         => writes = NotLive \/ \E s \in w.live : s.key = w.session /\ s.path = writes
    /\ w.session = None /\ w.plan = None =>
         /\ w.output = None /\ Cardinality(SessionsForCWD(w)) = 1
              => writes = Sole(SessionsForCWD(w)).path
         /\ Cardinality(SessionsForBranch(SessionsForCWD(w), w.branch)) > 1 => writes = Ambiguous
         /\ m = {} => writes = Launch(w.dir, w.branch, {}, None,
                                      IF w.output # None THEN w.output ELSE w.config).path
         /\ \A s \in m : s.dir = w.dir \/ (SessionsForCWD(w) = {} /\ <<w.root, s.dir>> \in Inside)
                         \/ s.dir = w.root

(* crit status names the review the commands use, and says when they will  *)
(* ask for one, as far as sessions of this branch are concerned: but in    *)
(* the root of a repository only status looks for sessions further down.   *)
(* crit stop stops a session of this directory and branch, and no other.   *)
StatusTellsTheReview(w) ==
  \A m \in {MatchingLiveSessions(w)}, found \in {LoadStatusSessions(w)}, stop \in {RunStop(w)} :
    /\ (\A s \in m : s.branch = w.branch) /\ (SessionsForCWD(w) # {} \/ w.dir # w.root)
         => ResolveStatusReviewPath(w, found) =
              ResolveCommentReviewPath([w EXCEPT !.output = None, !.session = None, !.plan = None], m)
    /\ \A s \in stop : s.dir = w.dir /\ s.branch = w.branch
    /\ Cardinality(SessionsForBranch(SessionsForCWD(w), w.branch)) = 1 => stop # {}

(* A comment's stamp is that of a focus that is being shown or that the    *)
(* review was last written in, and what was asked for or nothing at all.   *)
StampsAreShown(override, foci, active) ==
  \A focus \in {ProbeDaemonFocus(foci)} :
  \A stamp \in {ResolveCommentScope(override, focus, active)} :
    stamp # Refused =>
      /\ stamp.head # 0 => \E f \in foci : f.kind = "range" /\ f.head = stamp.head /\ f.scope = stamp.scope
      /\ stamp.scope # None => stamp.scope = active \/ stamp.head # 0
      /\ override = "working-tree" => stamp = Unstamped
      /\ override \notin {None, "working-tree"} => stamp.scope = override
=============================================================================
