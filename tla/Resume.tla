------------------------------- MODULE Resume -------------------------------
(* Reviews are reopened after their daemon has ended: crit --session and   *)
(* crit resume start a daemon from what the review and a left over entry   *)
(* of the registry tell (session/session_reconnect.go, resume_cli.go,      *)
(* review_cli.go).                                                         *)
EXTENDS ReviewPath, Sequences, SequencesExt

-----------------------------------------------------------------------------
(* What a daemon is started with: files and the flags that choose between  *)
(* the kinds of review.  Positional words are files, whatever they say.    *)
Plain(key, files) == [key |-> key, files |-> files, live |-> None, preview |-> None,
                      plan |-> None, range |-> None, output |-> None]

ServeOutput(args, config) ==
  IF args.output = None /\ args.plan = None THEN config ELSE args.output
ServeMode(args, config) ==
  IF args.live # None THEN <<"live", args.live>>
  ELSE IF args.preview # None THEN <<"preview", args.preview>>
  ELSE IF args.plan # None /\ ServeOutput(args, config) = None THEN <<"plan", args.plan>>
  ELSE IF args.range # None THEN <<"range", args.range>>
  ELSE <<"files">> \o args.files
Serve(args, config, dir) ==
  [path |-> ResolveServeReviewPath(ServeOutput(args, config), args.plan, args.key),
   mode |-> ServeMode(args, config), dir |-> dir]

(* What the review keeps of it.  A range is not kept.                      *)
CliArgs(args) ==
  IF args.live # None THEN <<"live", args.live>>
  ELSE IF args.preview # None THEN <<"preview", args.preview>>
  ELSE args.files
-----------------------------------------------------------------------------
(* Starting again.  w.disk has the reviews by path, w.stale is what is     *)
(* left of the entry, w.gone are the directories that are, w.config is the *)
(* setting an output would now have.                                       *)
NoReview == [refused |-> "no review found"]
DirGone  == [refused |-> "review directory is unavailable"]
IsRefusal(r) == "refused" \in DOMAIN r

(* A first word live or preview is passed on as it is.                     *)
DaemonArgsFromCliArgs(key, cli) == Plain(key, cli)

ResolveReconnectReviewDir(key, w) ==
  IF w.stale # None THEN w.stale.path ELSE Identity("home", key)

(* In earlier releases an output held one review, LegacyOutput: it moves.  *)
LegacyOutput(root) == [root |-> root, key |-> [legacy |-> TRUE]]
PlanReconnectFlags(path)  == path.root = "plan"
MigrateLegacyOutput(key, path, disk) ==
  LET dest == Identity(path.root, key)
  IN IF path # LegacyOutput(path.root) \/ dest \in DOMAIN disk THEN disk
     ELSE [p \in (DOMAIN disk \ {path}) \cup {dest} |-> IF p = dest THEN disk[path] ELSE disk[p]]
AppendReconnectPathFlags(key, args, path) ==
  IF path = Identity("home", key) THEN args
  ELSE IF PlanReconnectFlags(path) THEN [args EXCEPT !.plan = path.key.plan]
  ELSE [args EXCEPT !.output = path.root]

ReconnectDir(review, w) ==
  IF review.cwd # None THEN review.cwd ELSE IF w.stale # None THEN w.stale.dir ELSE w.here

ReconnectDeadSession(key, w) ==
  LET path == ResolveReconnectReviewDir(key, w)
      dir  == ReconnectDir(w.disk[path], w)
      args == AppendReconnectPathFlags(key, DaemonArgsFromCliArgs(key, w.disk[path].cli), path)
      disk == MigrateLegacyOutput(key, path, w.disk)
      new  == Serve(args, w.config, dir)
  IN IF path \notin DOMAIN w.disk THEN NoReview
     ELSE IF dir \in w.gone THEN DirGone
     ELSE [path |-> new.path, mode |-> new.mode, dir |-> dir,
           review |-> IF new.path \in DOMAIN disk THEN disk[new.path].id ELSE None]

(* crit --session: to the daemon that is alive, or to a new one.           *)
RunReview(key, w) ==
  IF w.running # None
  THEN [path |-> w.running.path, mode |-> w.running.mode, dir |-> w.running.dir,
        review |-> w.disk[w.running.path].id]
  ELSE ReconnectDeadSession(key, w)

(* What an agent is told to run for the next round.                        *)
NextRoundCommand(mode, key, hook) ==
  IF hook THEN [run |-> "nothing"]
  ELSE IF mode[1] = "plan" THEN [run |-> "plan", slug |-> mode[2]]
  ELSE [run |-> "session", key |-> key]
PathOf(command, w) ==
  IF command.run = "plan" THEN PlanReview(command.slug) ELSE RunReview(command.key, w).path
-----------------------------------------------------------------------------
(* crit resume lists the reviews of the usual place, also those in folders *)
(* of an earlier release.  folders: [key, json, at, readable].             *)
ReadResumableReview(f) == f.readable
Newer(f, g) == f.at > g.at
ListResumableReviews(folders) ==
  SetToSortSeq({f \in folders : ReadResumableReview(f)}, Newer)
Unavailable(review, running, gone) == ~running /\ review.cwd # None /\ review.cwd \in gone
-----------------------------------------------------------------------------
(* A review whose daemon ended is reopened where it is kept, as what it    *)
(* was, in the directory it is about, or not at all.  Not so: pages and    *)
(* previews, whose words are taken for files; a range, which is not kept;  *)
(* a review in the usual place once an output is set; and one kept         *)
(* elsewhere when its entry is lost, for which the one in the usual place  *)
(* is opened, if there is one, or one the output has got since.            *)
ResumeReopens(started, config, w) ==
  LET old == Serve(started, config, "d")
      kept == w.stale # None \/ old.path = Identity("home", started.key)
  IN \A new \in {ReconnectDeadSession(started.key, w)} :
       IF IsRefusal(new)
       THEN (new = DirGone => "d" \in w.gone) /\ (new = NoReview => ~kept)
       ELSE /\ new.dir \notin w.gone
            /\ kept /\ (w.config = None \/ old.path.root # "home")
                 => /\ new.review = "mine" \/ w.legacy
                    /\ started.live = None /\ started.preview = None /\ started.range = None
                         => new.mode = old.mode
                    /\ ~w.legacy => new.path = old.path
                    /\ w.disk[ResolveReconnectReviewDir(started.key, w)].cwd # None => new.dir = "d"

(* An agent that runs what it is told works on the review it was told of.  *)
NextRoundIsSame(started, config, w) ==
  \A mode \in {ServeMode(started, config)} :
    w.running # None => PathOf(NextRoundCommand(mode, started.key, FALSE), w) = Serve(started, config, "d").path

(* Every review that can be read is listed once, the newest first; and     *)
(* what is listed as available can be reopened: except from a folder of an *)
(* earlier release, and unless an entry of its key is left that tells of   *)
(* another place.                                                          *)
ListedCanResume(folders, w) ==
  \A list \in {ListResumableReviews(folders)} :
    /\ \A f \in folders : Cardinality({i \in DOMAIN list : list[i] = f}) = IF f.readable THEN 1 ELSE 0
    /\ \A i, j \in DOMAIN list : i < j => list[i].at >= list[j].at
    /\ \A i \in DOMAIN list :
         LET home == Identity("home", list[i].key)
         IN ~list[i].json /\ home \in DOMAIN w.disk /\ (w.stale = None \/ w.stale.path = home)
              /\ ~Unavailable(w.disk[home], w.running # None, w.gone)
              => ~IsRefusal(RunReview(list[i].key, w)) \/ w.disk[home].cwd = None
=============================================================================
