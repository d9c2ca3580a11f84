------------------------------- MODULE Plans --------------------------------
(* Plans and their versions: an agent's hook submits a plan for review and *)
(* waits for the decision; crit plan saves one by name (session/plans.go,  *)
(* plan_cli.go).  Versions are saved without a lock.                       *)
EXTENDS Integers, Sequences, FiniteSets, SequencesExt

CONSTANTS
  Job,        \* runs of crit plan and of the hook
  Agent,      \* sessions of agents
  Slug,       \* names of plans: what a plan's heading and the day give
  Wording,     \* what plans say
  None,       \* nothing
  MaxActs     \* bound on what is begun

VARIABLES
  dir,        \* slug -> its versions and current.md
  pins,       \* the slugs pinned for agents, and whether the file can be read
  job,        \* what each run is doing
  daemon,     \* slug -> whether one is alive, and which plan it shows
  torn,       \* slugs with two runs at once, or one that failed half way
  acts

vars == <<dir, pins, job, daemon, torn, acts>>

Content == [heading : Slug, text : Wording]
Saving(p)  == job[p].at \in {"write", "current"}
Busy(p)    == Saving(p) \/ job[p].at \in {"connect", "wait", "emit"}
NoJob == [at |-> "idle", kind |-> "save", agent |-> None, content |-> None, slug |-> None,
          ver |-> 0, own |-> FALSE, saw |-> None, approved |-> FALSE, decision |-> "none"]

LatestPlanVersion(s) == Max(DOMAIN dir[s].versions \cup {0})

(* A plan may be there, and a daemon show it; and an agent have a pin, of  *)
(* before or today.                                                        *)
Init ==
  /\ \E c \in Content, dated, shown \in BOOLEAN :
       /\ c.heading = CHOOSE s \in Slug : TRUE
       /\ dir = [s \in Slug |-> IF s = c.heading /\ dated THEN [versions |-> <<c>>, current |-> c]
                                ELSE [versions |-> <<>>, current |-> None]]
       /\ daemon = [s \in Slug |-> IF s = c.heading /\ dated /\ shown
                                   THEN [alive |-> TRUE, shown |-> c] ELSE [alive |-> FALSE, shown |-> None]]
  /\ LET first == CHOOSE a \in Agent : TRUE
         Pinned(pin) == [a \in Agent |-> IF a = first THEN pin ELSE None]
     IN pins \in [readable : BOOLEAN, of : {Pinned(None)}]
                 \cup [readable : {TRUE}, of : {Pinned(pin) : pin \in [slug : Slug, old : BOOLEAN]}]
  /\ job = [p \in Job |-> NoJob]
  /\ torn = {} /\ acts = 0
-----------------------------------------------------------------------------
Goto(p, at) == job' = [job EXCEPT ![p].at = at]
(* A hook that fails denies; a command fails.                              *)
End(p, decision) == job' = [job EXCEPT ![p] = [NoJob EXCEPT !.decision = decision]]
Fail(p) == End(p, "deny")

(* A hook that is switched off, or has no plan, decides nothing; one that  *)
(* cannot read what it is given denies.                                    *)
RunPlanHook(p) ==
  /\ job[p].at = "idle" /\ acts < MaxActs /\ acts' = acts + 1
  /\ \/ \E a \in Agent \cup {None}, c \in Content :
          job' = [job EXCEPT ![p] = [NoJob EXCEPT !.at = "lookup", !.kind = "review",
                                                  !.agent = a, !.content = c]]
     \/ End(p, "deny") \/ End(p, "none")
  /\ UNCHANGED <<dir, pins, daemon, torn>>

(* crit plan, and with --no-wait: the plan has a name or that it gives     *)
(* itself.                                                                 *)
RunPlan(p) ==
  /\ job[p].at = "idle" /\ acts < MaxActs /\ acts' = acts + 1
  /\ \E kind \in {"review", "save"}, s \in Slug, c \in Content :
       job' = [job EXCEPT ![p] = [NoJob EXCEPT !.kind = kind, !.content = c, !.slug = s,
                                    !.at = IF kind = "save" THEN "compare" ELSE "pick"]]
  /\ UNCHANGED <<dir, pins, daemon, torn>>

(* The slug pinned for the agent's session, read without the lock.         *)
LookupPlanSlug(p) ==
  /\ job[p].at = "lookup"
  /\ LET a == job[p].agent
         pinned == a # None /\ pins.readable /\ pins.of[a] # None
     IN job' = [job EXCEPT ![p].slug = IF pinned THEN pins.of[a].slug ELSE job[p].content.heading,
                           ![p].at = IF pinned \/ a = None THEN "pick" ELSE "pin"]
  /\ UNCHANGED <<dir, pins, daemon, torn, acts>>

(* Under the lock; what is seven days old goes, and a file that cannot be  *)
(* read stays.                                                             *)
SavePlanSlug(p) ==
  /\ job[p].at = "pin"
  /\ pins' = IF ~pins.readable THEN pins
             ELSE [pins EXCEPT !.of = [a \in Agent |->
                     IF a = job[p].agent THEN [slug |-> job[p].slug, old |-> FALSE]
                     ELSE IF @[a] # None /\ @[a].old THEN None ELSE @[a]]]
  /\ Goto(p, "pick")
  /\ UNCHANGED <<dir, daemon, torn, acts>>
-----------------------------------------------------------------------------
SavePlanWithoutReview(p) ==
  /\ job[p].at = "compare"
  /\ IF dir[job[p].slug].current = job[p].content THEN End(p, "none") ELSE Goto(p, "pick")
  /\ UNCHANGED <<dir, pins, daemon, torn, acts>>

(* savePlanVersion: the number, the version, current.md.                   *)
PickVersion(p) ==
  /\ job[p].at = "pick"
  /\ job' = [job EXCEPT ![p].ver = LatestPlanVersion(job[p].slug) + 1, ![p].at = "write"]
  /\ torn' = torn \cup {s \in {job[p].slug} : \E q \in Job \ {p} : Busy(q) /\ job[q].slug = s}
  /\ UNCHANGED <<dir, pins, daemon, acts>>

(* A file is emptied before it is written: a failure may leave a part of   *)
(* the plan, here any wording, or what was there.                          *)
SetVersion(p, c) ==
  dir' = [dir EXCEPT ![job[p].slug].versions =
            [v \in DOMAIN @ \cup {job[p].ver} |-> IF v = job[p].ver THEN c ELSE @[v]]]
SetCurrent(p, c) == dir' = [dir EXCEPT ![job[p].slug].current = c]
FailHalfWay(p) == Fail(p) /\ torn' = torn \cup {job[p].slug}

WriteVersion(p) ==
  /\ job[p].at = "write"
  /\ \/ SetVersion(p, job[p].content) /\ Goto(p, "current") /\ UNCHANGED torn
     \/ FailHalfWay(p) /\ \E c \in Content : SetVersion(p, c)
     \/ Fail(p) /\ UNCHANGED <<dir, torn>>
  /\ UNCHANGED <<pins, daemon, acts>>

WriteCurrent(p) ==
  /\ job[p].at = "current"
  /\ \/ /\ SetCurrent(p, job[p].content) /\ UNCHANGED torn
        /\ IF job[p].kind = "save" THEN End(p, "none") ELSE Goto(p, "connect")
     \/ FailHalfWay(p) /\ (UNCHANGED dir \/ \E c \in Content : SetCurrent(p, c))
  /\ UNCHANGED <<pins, daemon, acts>>
-----------------------------------------------------------------------------
ConnectOrStartDaemon(p) ==
  /\ job[p].at = "connect"
  /\ LET s == job[p].slug
     IN \/ /\ job' = [job EXCEPT ![p].at = "wait", ![p].own = ~daemon[s].alive]
           /\ daemon' = [daemon EXCEPT ![s] = IF @.alive THEN @
                                             ELSE [alive |-> TRUE, shown |-> dir[s].current]]
        \/ ~daemon[s].alive /\ Fail(p) /\ UNCHANGED daemon
  /\ UNCHANGED <<dir, pins, torn, acts>>

(* The daemon follows current.md; the reviewer sees what it shows.         *)
Watch(s) ==
  /\ daemon[s].alive /\ daemon[s].shown # dir[s].current
  /\ daemon' = [daemon EXCEPT ![s].shown = dir[s].current]
  /\ UNCHANGED <<dir, pins, job, torn, acts>>

Answer(s, approved, saw) ==
  job' = [p \in Job |-> IF job[p].at = "wait" /\ job[p].slug = s
                        THEN [job[p] EXCEPT !.at = "emit", !.approved = approved, !.saw = saw]
                        ELSE job[p]]
Finish(s) ==
  /\ daemon[s].alive
  /\ \E approved \in BOOLEAN : Answer(s, approved, daemon[s].shown)
  /\ UNCHANGED <<dir, pins, daemon, torn, acts>>

DaemonDies(s) ==
  /\ daemon[s].alive
  /\ daemon' = [daemon EXCEPT ![s].alive = FALSE]
  /\ Answer(s, FALSE, None)
  /\ UNCHANGED <<dir, pins, torn, acts>>

(* The decision; an approved plan's daemon is stopped before.              *)
EmitHookDecision(p) ==
  /\ job[p].at = "emit"
  /\ IF job[p].approved THEN job' = [job EXCEPT ![p].at = "idle", ![p].decision = "allow"]
     ELSE End(p, "deny")
  /\ daemon' = [daemon EXCEPT ![job[p].slug].alive = @ /\ ~job[p].approved]
  /\ UNCHANGED <<dir, pins, torn, acts>>

Next ==
  \/ \E p \in Job :
       \/ RunPlanHook(p) \/ RunPlan(p) \/ LookupPlanSlug(p) \/ SavePlanSlug(p)
       \/ SavePlanWithoutReview(p) \/ PickVersion(p) \/ WriteVersion(p) \/ WriteCurrent(p)
       \/ ConnectOrStartDaemon(p) \/ EmitHookDecision(p)
  \/ \E s \in Slug : Watch(s) \/ Finish(s) \/ DaemonDies(s)
-----------------------------------------------------------------------------
(* Codex says only that a turn ended: its plan is in what the agent said   *)
(* last, of which the event or else the transcript tells.  A message is a  *)
(* sequence of the plans it proposes, some of them blank, None; a line of  *)
(* the transcript names a turn, is a message, or neither.                  *)
ExtractProposedPlan(message) ==
  LET said == {i \in DOMAIN message : message[i] # None}
  IN IF said = {} THEN None ELSE message[Max(said)]

ReadLine(sofar, l, turn) ==
  IF l.type = "turn" THEN [sofar EXCEPT !.inside = l.turn = turn]
  ELSE IF l.type = "message" /\ sofar.inside THEN [sofar EXCEPT !.message = l.plans]
  ELSE sofar
ExtractFromTranscript(transcript, turn) ==
  LET Read(sofar, l) == ReadLine(sofar, l, turn)
  IN IF turn = None THEN None
     ELSE ExtractProposedPlan(FoldLeft(Read, [inside |-> FALSE, message |-> <<>>], transcript).message)

ProposedPlanFromCodexEvent(event) ==
  IF ExtractProposedPlan(event.last) # None THEN ExtractProposedPlan(event.last)
  ELSE IF event.transcript # <<>> THEN ExtractFromTranscript(event.transcript, event.turn)
  ELSE None

(* The plan put up for review is the agent's last word of this turn, and   *)
(* never one of another turn.                                              *)
PlanIsOfTurn(event) ==
  \A t \in {event.transcript} : \A plan \in {ProposedPlanFromCodexEvent(event)} :
    LET InTurn(i) == \E j \in 1..i : /\ t[j].type = "turn" /\ t[j].turn = event.turn
                                    /\ \A k \in (j + 1)..i : t[k].type # "turn"
        heard == {i \in DOMAIN t : t[i].type = "message" /\ InTurn(i)}
        OneOf(m, p) == \E i \in DOMAIN m : m[i] = p /\ \A k \in (i + 1)..Len(m) : m[k] = None
    IN IF plan # None
       THEN OneOf(event.last, plan)
            \/ /\ event.turn # None
               /\ \E i \in heard : (\A k \in heard : k <= i) /\ OneOf(t[i].plans, plan)
       ELSE /\ \A i \in DOMAIN event.last : event.last[i] = None
            /\ event.turn = None \/ heard = {}
               \/ \E i \in heard : (\A k \in heard : k <= i) /\ ExtractProposedPlan(t[i].plans) = None
-----------------------------------------------------------------------------
(* A plan is allowed only after a reviewer, and not a failure, approved    *)
(* what was shown: that very version, from a daemon that this run started, *)
(* if no other run of the same plan was under way; from one that was alive *)
(* already it may be an earlier version.                                   *)
AllowedWasApproved ==
  \A p \in Job : job[p].decision = "allow" =>
    /\ job[p].approved /\ job[p].saw # None
    /\ job[p].slug \notin torn =>
         \E v \in (IF job[p].own THEN {job[p].ver} ELSE 1..job[p].ver) \cap DOMAIN dir[job[p].slug].versions :
           dir[job[p].slug].versions[v] = job[p].saw

(* No version that was saved is written over, and current.md is the last   *)
(* one, unless two run at once or one failed half way.                     *)
VersionsKept ==
  \A s \in Slug \ torn :
    /\ DOMAIN dir[s].versions = 1..LatestPlanVersion(s)
    /\ \A p \in Job : job[p].slug = s /\ job[p].at \in {"connect", "wait", "emit"} =>
         dir[s].versions[job[p].ver] = job[p].content
    /\ (\A p \in Job : job[p].slug # s \/ ~Saving(p)) /\ dir[s].current # None =>
         dir[s].current = dir[s].versions[LatestPlanVersion(s)]

(* The slugs of other agents stay, up to their seven days; and an agent    *)
(* that has one gets its plans saved under it.                             *)
PinsStay ==
  /\ \A a \in Agent : pins.of[a] # None /\ pins'.of[a] # pins.of[a] =>
       pins.of[a].old \/ \E p \in Job : job[p].at = "pin" /\ job[p].agent = a
  /\ \A p \in Job : job[p].at = "lookup" /\ job'[p].at = "pick" /\ job[p].agent # None =>
       job'[p].slug = pins.of[job[p].agent].slug
  /\ \A s \in Slug : \A v \in DOMAIN dir[s].versions :
       dir'[s].versions[v] # dir[s].versions[v] => s \in torn
=============================================================================
