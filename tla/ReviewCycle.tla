----------------------------- MODULE ReviewCycle -----------------------------
(***************************************************************************)
(* The conversation around a review: agents that run `crit' and wait       *)
(* (/api/review-cycle), commands that wait for an event, browser tabs that *)
(* follow the event stream and finish the review, agents started from a    *)
(* comment, and the daemon that starts, passes events on and shuts down.   *)
(* How memory and the review file are merged in detail is ReviewSync's; a  *)
(* comment is here absent, open or resolved.                               *)
(***************************************************************************)
EXTENDS Naturals, Sequences, FiniteSets

CONSTANTS
  Client,     \* processes that run `crit' or a plan hook
  Waiter,     \* requests to /api/wait-for-event
  Tab,        \* browser tabs
  CommentId,
  Slots,      \* capacity of a subscriber's channel
  MaxActs     \* bound: calls, clicks and other acts nobody has to do

ASSUME CycleAssumption ==
  /\ Slots \in Nat \ {0} /\ MaxActs \in Nat
  /\ Client \cap Waiter = {} /\ Client \cap Tab = {} /\ Waiter \cap Tab = {}

VARIABLES
  phase,      \* of the daemon, see Phases
  awaitingFirst, \* has no review cycle been answered yet?
  roundChan,  \* is a round signalled and not yet handled?
  mem, disk,  \* comments in the session and in review.json
  armed,      \* is a debounced save scheduled?
  subscribers, queue, \* of the session's events, and their channels
  overran,    \* history: subscribers that lost a finish to a full channel
  call,       \* where each client is
  held,       \* the verdict a client has been given, if any
  given,      \* history: verdicts notified while a client was in its handler
  finish,     \* the finish request of each tab
  shown,      \* tabs whose finish was answered on the wire
  agent,      \* agent run started from each comment
  answered,   \* history: was any client answered?
  acts        \* counts what MaxActs bounds

conn == <<subscribers, queue, overran>>
clients == <<call, held, given, answered>>
tabs == <<finish, shown>>
review == <<mem, disk, armed, roundChan>>
vars == <<phase, awaitingFirst, review, conn, clients, tabs, agent, acts>>

Act == acts < MaxActs /\ acts' = acts + 1

Subscriber == Client \cup Waiter \cup Tab
None == "none"
Phases == {"loading", "failed", "ready", "stopping", "told", "draining", "waiting",
           "saving", "dead"}
States == {"absent", "open", "resolved"}
Event == [type : {"finish", "changed", "server-shutdown"}, by : Tab \cup {None},
          approved : BOOLEAN]
Finish(t, approved) == [type |-> "finish", by |-> t, approved |-> approved]
Changed == [type |-> "changed", by |-> None, approved |-> FALSE]
Shutdown == [type |-> "server-shutdown", by |-> None, approved |-> FALSE]

NoFinish == [at |-> "idle", approved |-> FALSE, left |-> {}]

(* Waiting for a daemon, in its handler, and returned.                     *)
InHandler == {"subscribed", "waiting", "replying"}
CallPlaces == {"idle", "poll", "post", "answered", "denied", "stopping", "done"} \cup InHandler

Comments == [state : States, replied : BOOLEAN]
Absent == [state |-> "absent", replied |-> FALSE]

Init ==
  /\ phase = "loading"
  /\ awaitingFirst = TRUE
  /\ mem = [c \in CommentId |-> Absent] /\ disk = mem
  /\ armed = FALSE /\ roundChan = FALSE
  /\ subscribers = {} /\ queue = [s \in Subscriber |-> <<>>] /\ overran = {}
  /\ call = [c \in Client |-> "idle"] /\ held = [c \in Client |-> {}]
  /\ given = [c \in Client |-> {}] /\ answered = FALSE
  /\ finish = [t \in Tab |-> NoFinish] /\ shown = {} /\ acts = 0
  /\ agent = [c \in CommentId |-> "idle"]

(* The listener is closed by httpServer.Shutdown; handlers run on until it *)
(* gives up and the process ends.                                          *)
Listening == phase \in {"loading", "failed", "ready", "stopping", "told"}
Serving == phase \in {"ready", "stopping", "told"}
Running == phase \notin {"loading", "failed", "dead"}

(* A save keeps what is only on disk; elsewhere memory wins.               *)
Merged == [c \in CommentId |->
             [state |-> IF mem[c].state = "absent" THEN disk[c].state ELSE mem[c].state,
              replied |-> mem[c].replied \/ disk[c].replied]]
Open(cs) == {c \in CommentId : cs[c].state = "open"}
Has(s, type) == \E i \in DOMAIN queue[s] : queue[s][i].type = type

(* notify: a subscriber whose channel is full misses the event.            *)
Notify(e) ==
  LET full == {s \in subscribers : Len(queue[s]) = Slots} IN
  /\ queue' = [s \in Subscriber |->
                 IF s \in subscribers \ full THEN Append(queue[s], e) ELSE queue[s]]
  /\ overran' = IF e.type = "finish" THEN overran \cup full ELSE overran
  /\ UNCHANGED subscribers
Subscribe(s) ==
  /\ subscribers' = subscribers \cup {s} /\ overran' = overran \ {s}
  /\ UNCHANGED queue
Unsubscribe(s) ==
  /\ subscribers' = subscribers \ {s} /\ overran' = overran \ {s}
  /\ queue' = [queue EXCEPT ![s] = <<>>]
-----------------------------------------------------------------------------
(* The session's comments.                                                 *)

AddComment(c) ==
  /\ Act /\ Serving /\ mem[c] = Absent /\ disk[c] = Absent
  /\ mem' = [mem EXCEPT ![c].state = "open"] /\ armed' = TRUE
  /\ UNCHANGED <<phase, awaitingFirst, disk, roundChan, conn, clients, tabs, agent>>

ResolveComment(c) ==
  /\ Act /\ Serving /\ mem[c].state = "open"
  /\ mem' = [mem EXCEPT ![c].state = "resolved"] /\ armed' = TRUE
  /\ Notify(Changed)
  /\ UNCHANGED <<phase, awaitingFirst, disk, roundChan, clients, tabs, agent>>

DebouncedSave ==
  /\ armed /\ Running
  /\ disk' = Merged /\ armed' = FALSE
  /\ UNCHANGED <<phase, awaitingFirst, mem, roundChan, conn, clients, tabs, agent, acts>>

(* SignalRoundComplete: the armed save is cancelled and memory is emptied; *)
(* the watcher will fill it again from the file.  A reply that was not     *)
(* saved is lost with it.                                                  *)
SignalRound ==
  /\ agent' = [c \in CommentId |-> IF agent[c] = "replied" /\ ~disk[c].replied
                                   THEN "lost" ELSE agent[c]]
  /\ mem' = [c \in CommentId |-> Absent] /\ armed' = FALSE
  /\ roundChan' = TRUE
  /\ UNCHANGED <<disk, awaitingFirst>>

(* The watcher loads and carries forward, persists and tells the browsers. *)
RoundHandled ==
  /\ phase = "ready" /\ roundChan
  /\ roundChan' = FALSE
  /\ mem' = Merged /\ disk' = Merged /\ armed' = FALSE
  /\ Notify(Changed)
  /\ UNCHANGED <<phase, awaitingFirst, clients, tabs, agent, acts>>
-----------------------------------------------------------------------------
(* Clients: RunReviewClient, RunReviewClientRaw and handleReviewCycle.     *)

Approved(c) == \E v \in held[c] : v.approved
GoTo(c, place) == call' = [call EXCEPT ![c] = place]

CallCrit(c) ==
  /\ Act
  /\ \/ call[c] \in {"idle", "denied"}
     \/ call[c] = "answered" /\ ~Approved(c)
  /\ GoTo(c, "poll")
  /\ held' = [held EXCEPT ![c] = {}] /\ given' = [given EXCEPT ![c] = {}]
  /\ UNCHANGED <<phase, awaitingFirst, review, conn, tabs, agent, answered>>

Deny(c) ==
  /\ GoTo(c, "denied")
  /\ UNCHANGED <<held, given, answered>>

(* waitForDaemonReady: 503 is polled again, 500 and no answer are errors.  *)
DaemonReady(c) ==
  /\ call[c] = "poll" /\ Serving
  /\ GoTo(c, "post")
  /\ UNCHANGED <<phase, awaitingFirst, review, conn, tabs, agent, held, given, answered, acts>>

(* No answer, an error, five minutes of 503, or a connection cut when the  *)
(* process ends.                                                           *)
DaemonFails(c) ==
  /\ \/ call[c] = "poll" /\ (phase \in {"loading", "failed"} \/ ~Listening)
     \/ call[c] = "post" /\ ~Listening
     \/ call[c] \in InHandler /\ phase = "dead"
  /\ Deny(c) /\ Unsubscribe(c)
  /\ UNCHANGED <<phase, awaitingFirst, review, tabs, agent, acts>>

(* handleReviewCycle subscribes before it signals the round.               *)
Post(c) ==
  /\ call[c] = "post" /\ Serving
  /\ Subscribe(c) /\ GoTo(c, "subscribed")
  /\ UNCHANGED <<phase, awaitingFirst, review, tabs, agent, held, given, answered, acts>>

StartRound ==
  IF awaitingFirst THEN UNCHANGED <<awaitingFirst, review, agent>> ELSE SignalRound

Begin(c) ==
  /\ call[c] = "subscribed" /\ Running
  /\ GoTo(c, "waiting") /\ StartRound
  /\ UNCHANGED <<phase, conn, tabs, held, given, answered, acts>>

(* Mutant: the round is signalled first.                                   *)
PostSignals(c) ==
  /\ call[c] = "post" /\ Serving
  /\ GoTo(c, "subscribed") /\ StartRound
  /\ UNCHANGED <<phase, conn, tabs, held, given, answered, acts>>
BeginSubscribes(c) ==
  /\ call[c] = "subscribed" /\ Running
  /\ GoTo(c, "waiting") /\ Subscribe(c)
  /\ UNCHANGED <<phase, awaitingFirst, review, tabs, agent, held, given, answered, acts>>
SignalThenSubscribe(c) == PostSignals(c) \/ BeginSubscribes(c)

EnterCycle(c) == Post(c) \/ Begin(c)

(* The wait loop takes one event: a finish ends it, the shutdown denies,   *)
(* others are passed over.                                                 *)
Take(s) == queue' = [queue EXCEPT ![s] = Tail(@)] /\ UNCHANGED <<subscribers, overran>>

(* Mutants: the shutdown answers as an approval would; only an approval    *)
(* ends the wait.                                                          *)
ReceiveApproves(c) ==
  /\ call[c] = "waiting" /\ Running /\ queue[c] # <<>>
  /\ held' = [held EXCEPT ![c] = {[by |-> CHOOSE t \in Tab : TRUE,
                                   approved |-> Head(queue[c]).type # "changed"]}]
  /\ GoTo(c, "replying") /\ Take(c)
  /\ UNCHANGED <<phase, awaitingFirst, review, tabs, agent, given, answered, acts>>

ReceiveApprovals(c) ==
  /\ call[c] = "waiting" /\ Running /\ queue[c] # <<>> /\ Take(c)
  /\ IF Head(queue[c]).approved
     THEN /\ held' = [held EXCEPT ![c] = {[by |-> Head(queue[c]).by, approved |-> TRUE]}]
          /\ GoTo(c, "replying")
     ELSE UNCHANGED <<held, call>>
  /\ UNCHANGED <<phase, awaitingFirst, review, tabs, agent, given, answered, acts>>

Receive(c) ==
  /\ call[c] = "waiting" /\ Running /\ queue[c] # <<>>
  /\ LET e == Head(queue[c]) IN
     \/ /\ e.type = "finish"
        /\ awaitingFirst' = FALSE
        /\ held' = [held EXCEPT ![c] = {[by |-> e.by, approved |-> e.approved]}]
        /\ GoTo(c, "replying") /\ Take(c)
        /\ UNCHANGED <<given, answered>>
     \/ /\ e.type = "server-shutdown"
        /\ Deny(c) /\ Unsubscribe(c) /\ UNCHANGED awaitingFirst
     \/ /\ e.type = "changed"
        /\ Take(c) /\ UNCHANGED <<awaitingFirst, clients>>
  /\ UNCHANGED <<phase, review, tabs, agent, acts>>

Reply(c) ==
  /\ call[c] = "replying" /\ Running
  /\ GoTo(c, "answered") /\ Unsubscribe(c)
  /\ answered' = TRUE
  /\ UNCHANGED <<phase, awaitingFirst, review, tabs, agent, held, given, acts>>

(* Interrupted, or 24 hours without an answer.                             *)
GiveUp(c) ==
  /\ Act /\ call[c] \in {"poll", "post"} \cup InHandler
  /\ Deny(c) /\ Unsubscribe(c)
  /\ UNCHANGED <<phase, awaitingFirst, review, tabs, agent>>

(* stopDaemonOnApproval: POST /api/shutdown, wait for the daemon to end,   *)
(* remove the review.                                                      *)
StopOnApproval(c) ==
  /\ call[c] = "answered" /\ Approved(c)
  /\ GoTo(c, "stopping")
  /\ phase' = IF phase = "ready" THEN "stopping" ELSE phase
  /\ UNCHANGED <<awaitingFirst, review, conn, tabs, agent, held, given, answered, acts>>

CleanupOnApproval(c) ==
  /\ call[c] = "stopping" /\ phase = "dead"
  /\ disk' = [x \in CommentId |-> Absent]
  /\ GoTo(c, "done")
  /\ UNCHANGED <<phase, awaitingFirst, mem, armed, roundChan, conn, tabs, agent, held, given,
                 answered, acts>>
-----------------------------------------------------------------------------
(* Other subscribers: handleWaitForEvent leaves only for a finish,         *)
(* handleEvents passes everything on and leaves at the shutdown.           *)

Connect(s) ==
  /\ Act /\ s \in (Waiter \cup Tab) \ subscribers /\ Serving
  /\ Subscribe(s)
  /\ UNCHANGED <<phase, awaitingFirst, review, clients, tabs, agent>>

Deliver(s) ==
  /\ s \in (Waiter \cup Tab) \cap subscribers /\ Running /\ queue[s] # <<>>
  /\ IF Head(queue[s]).type = (IF s \in Waiter THEN "finish" ELSE "server-shutdown")
     THEN Unsubscribe(s) ELSE Take(s)
  /\ UNCHANGED <<phase, awaitingFirst, review, clients, tabs, agent, acts>>

Disconnect(s) ==
  /\ Act /\ s \in (Waiter \cup Tab) \cap subscribers
  /\ Unsubscribe(s)
  /\ UNCHANGED <<phase, awaitingFirst, review, clients, tabs, agent>>
-----------------------------------------------------------------------------
(* A click on Finish: handleFinish, in the order of its steps.             *)

FinishTo(t, f) == finish' = [finish EXCEPT ![t] = f]
FinishAt(t, place) == finish[t].at = place /\ Running

FinishSaves(t) ==
  /\ FinishAt(t, "idle") /\ Serving
  /\ disk' = Merged /\ armed' = FALSE
  /\ FinishTo(t, [NoFinish EXCEPT !.at = "saved"])
  /\ Act /\ shown' = shown \ {t}
  /\ UNCHANGED <<phase, awaitingFirst, mem, roundChan, conn, clients, agent>>

(* Prompts of a project that nobody was asked about refuse it before; one  *)
(* whose save fails ends, with the timer stopped and nobody told.          *)
FinishFails(t) ==
  /\ FinishAt(t, "idle") /\ Serving
  /\ Act /\ armed' \in {armed, FALSE}
  /\ UNCHANGED <<phase, awaitingFirst, mem, disk, roundChan, conn, clients, tabs, agent>>

(* UnresolvedCommentCount looks at memory only.                            *)
FinishCounts(t) ==
  /\ FinishAt(t, "saved")
  /\ FinishTo(t, [at |-> "counted", approved |-> Open(mem) = {}, left |-> Open(Merged)])
  /\ UNCHANGED <<phase, awaitingFirst, review, conn, clients, shown, agent, acts>>

GiveTo(t) ==
  given' = [c \in Client |->
              IF call[c] \in {"subscribed", "waiting"}
              THEN given[c] \cup {[by |-> t, approved |-> finish[t].approved]}
              ELSE given[c]]

(* The answer is complete on the wire before anyone hears of the finish.   *)
FinishResponds(t) ==
  /\ FinishAt(t, "counted")
  /\ shown' = shown \cup {t}
  /\ FinishTo(t, [finish[t] EXCEPT !.at = "responded"])
  /\ UNCHANGED <<phase, awaitingFirst, review, conn, clients, agent, acts>>

FinishNotifies(t) ==
  /\ FinishAt(t, "responded")
  /\ Notify(Finish(t, finish[t].approved))
  /\ GiveTo(t)
  /\ FinishTo(t, NoFinish)
  /\ UNCHANGED <<phase, awaitingFirst, review, call, held, answered, shown, agent, acts>>

FinishAnswers(t) == FinishResponds(t) \/ FinishNotifies(t)
-----------------------------------------------------------------------------
(* handleRoundComplete, and agents started from a comment.                 *)

RoundComplete ==
  /\ Act /\ Serving /\ SignalRound
  /\ UNCHANGED <<phase, conn, clients, tabs>>

AgentRequest(c) ==
  /\ Act /\ Serving /\ mem[c].state # "absent" /\ agent[c] = "idle"
  /\ agent' = [agent EXCEPT ![c] = "running"]
  /\ UNCHANGED <<phase, awaitingFirst, review, conn, clients, tabs>>

(* The agent's output becomes a reply, unless its comment is not in memory *)
(* just then; then the browsers are told.                                  *)
AgentReplies(c) ==
  /\ agent[c] = "running" /\ Running
  /\ agent' = [agent EXCEPT ![c] = IF mem[c].state = "absent" THEN "lost" ELSE "replied"]
  /\ mem' = IF mem[c].state = "absent" THEN mem ELSE [mem EXCEPT ![c].replied = TRUE]
  /\ armed' = (armed \/ mem[c].state # "absent")
  /\ IF mem[c].state # "absent" /\ phase = "ready" THEN Notify(Changed) ELSE UNCHANGED conn
  /\ UNCHANGED <<phase, awaitingFirst, disk, roundChan, clients, tabs, acts>>

(* Failed, empty output, ten minutes, or killed by the shutdown.           *)
AgentEnds(c) ==
  /\ agent[c] = "running" /\ Running
  /\ agent' = [agent EXCEPT ![c] = "ended"]
  /\ UNCHANGED <<phase, awaitingFirst, review, conn, clients, tabs, acts>>
-----------------------------------------------------------------------------
(* The daemon: runServe.                                                   *)

PhaseTo(p) == phase' = p

InitEnds ==
  /\ phase = "loading"
  /\ \/ PhaseTo("ready")
     \/ PhaseTo("failed")
  /\ UNCHANGED <<awaitingFirst, review, conn, clients, tabs, agent, acts>>

FailedEnds ==
  /\ phase = "failed" /\ PhaseTo("dead")
  /\ UNCHANGED <<awaitingFirst, review, conn, clients, tabs, agent, acts>>

(* SIGTERM, `crit stop', or POST /api/shutdown of a CLI.                   *)
StopRequested ==
  /\ Act /\ phase = "ready" /\ PhaseTo("stopping")
  /\ UNCHANGED <<awaitingFirst, review, conn, clients, tabs, agent>>

ShutdownTold ==
  /\ phase = "stopping" /\ PhaseTo("told")
  /\ Notify(Shutdown)
  /\ UNCHANGED <<awaitingFirst, review, clients, tabs, agent, acts>>

ListenerCloses ==
  /\ phase = "told" /\ PhaseTo("draining")
  /\ UNCHANGED <<awaitingFirst, review, conn, clients, tabs, agent, acts>>

(* Mutant: httpServer.Shutdown without its two seconds.                    *)
Quiet == subscribers = {} /\ \A t \in Tab : finish[t].at = "idle"
DrainsPatiently ==
  /\ phase = "draining" /\ PhaseTo("waiting") /\ Quiet
  /\ UNCHANGED <<awaitingFirst, review, conn, clients, tabs, agent, acts>>

(* httpServer.Shutdown waits for the handlers, but two seconds only.       *)
Drained ==
  /\ phase = "draining" /\ PhaseTo("waiting")
  /\ UNCHANGED <<awaitingFirst, review, conn, clients, tabs, agent, acts>>

(* WaitBackground waits for the agents, but thirty seconds only.           *)
BackgroundWaited ==
  /\ phase = "waiting" /\ PhaseTo("saving")
  /\ UNCHANGED <<awaitingFirst, review, conn, clients, tabs, agent, acts>>

FinalSave ==
  /\ phase = "saving" /\ PhaseTo("dead")
  /\ disk' = Merged /\ armed' = FALSE
  /\ UNCHANGED <<awaitingFirst, mem, roundChan, conn, clients, tabs, agent, acts>>
-----------------------------------------------------------------------------
ClientStep(c) ==
  \/ CallCrit(c) \/ DaemonReady(c) \/ DaemonFails(c) \/ EnterCycle(c)
  \/ Receive(c) \/ Reply(c) \/ GiveUp(c) \/ StopOnApproval(c) \/ CleanupOnApproval(c)

FinishStep(t) ==
  \/ FinishSaves(t) \/ FinishFails(t) \/ FinishCounts(t) \/ FinishAnswers(t)

Daemon ==
  \/ InitEnds \/ FailedEnds \/ StopRequested \/ ShutdownTold \/ Drained
  \/ ListenerCloses \/ BackgroundWaited \/ FinalSave

Next ==
  \/ \E c \in Client : ClientStep(c)
  \/ \E t \in Tab : FinishStep(t)
  \/ \E s \in Waiter \cup Tab : Connect(s) \/ Deliver(s) \/ Disconnect(s)
  \/ \E c \in CommentId : AddComment(c) \/ ResolveComment(c) \/ AgentRequest(c)
                          \/ AgentReplies(c) \/ AgentEnds(c)
  \/ DebouncedSave \/ RoundHandled \/ RoundComplete \/ Daemon

Spec == Init /\ [][Next]_vars

(* The runtime runs handlers and the daemon's own steps; nobody has to     *)
(* click, call, give up or ask for a stop.                                 *)
FairSpec ==
  /\ Spec
  /\ WF_vars(InitEnds) /\ WF_vars(FailedEnds) /\ WF_vars(ShutdownTold)
  /\ WF_vars(ListenerCloses) /\ WF_vars(Drained) /\ WF_vars(BackgroundWaited)
  /\ WF_vars(FinalSave)
  /\ \A c \in Client :
       /\ WF_vars(DaemonReady(c)) /\ WF_vars(DaemonFails(c)) /\ WF_vars(EnterCycle(c))
       /\ WF_vars(Receive(c)) /\ WF_vars(Reply(c))
-----------------------------------------------------------------------------
(* Properties.                                                             *)

TypeOK ==
  /\ phase \in Phases
  /\ awaitingFirst \in BOOLEAN
  /\ roundChan \in BOOLEAN /\ armed \in BOOLEAN /\ answered \in BOOLEAN
  /\ mem \in [CommentId -> Comments] /\ disk \in [CommentId -> Comments]
  /\ \A s \in Subscriber : queue[s] \in Seq(Event) /\ Len(queue[s]) <= Slots
  /\ subscribers \subseteq Subscriber /\ overran \subseteq subscribers /\ shown \subseteq Tab
  /\ call \in [Client -> CallPlaces]
  /\ agent \in [CommentId -> {"idle", "running", "replied", "lost", "ended"}]
  /\ acts \in 0..MaxActs

(* A client in its handler hears of every finish notified since it came:   *)
(* handleReviewCycle subscribes before the round signal that lets the      *)
(* reviewer finish, and only a full channel loses the event.               *)
FinishReachesClient ==
  \A c \in Client :
    call[c] \in {"subscribed", "waiting"} /\ given[c] # {} => c \in overran \/ Has(c, "finish")

(* When the agent holds a verdict the tab that gave it has its answer, so  *)
(* stopDaemonOnApproval cannot end the daemon under it (writeJSONComplete  *)
(* before notify).                                                         *)
VerdictWasShown ==
  \A c \in Client :
    call[c] \in {"answered", "stopping"} =>
      \A v \in held[c] : v.by \in shown \/ finish[v.by].at \in {"saved", "counted"}

(* An agent's reply that is still in the session when the daemon ends, or  *)
(* was ever saved, is in the file then, or the review was approved away.   *)
ReplyIsPersisted ==
  \A c \in CommentId :
    phase = "dead" /\ agent[c] = "replied" =>
      disk[c].replied \/ \E d \in Client : call[d] = "done"

(* An approval says that no comment is open (docs/agent-hooks.md).         *)
ApprovalMeansResolved ==
  \A t \in Tab : finish[t].approved => finish[t].left = {}

(* A stop always ends the daemon, whatever its handlers and agents do:     *)
(* handleWaitForEvent does not leave for a shutdown.                       *)
StopEnds == (phase = "stopping") ~> (phase = "dead")

(* A finish notified to a waiting client ends its wait, unless its channel *)
(* was full.                                                               *)
FinishEndsWait ==
  \A c \in Client :
    (call[c] = "waiting" /\ given[c] # {}) ~> (call[c] # "waiting" \/ c \in overran)

Verdict == INSTANCE ReviewVerdict
  WITH asking <- {c \in Client : call[c] \in {"poll", "post"} \cup InHandler},
       offered <- given,
       outcome <- [c \in Client |-> IF call[c] \in {"replying", "denied"} THEN {} ELSE held[c]]

(* No agent takes a shutdown, an error or somebody else's round for an     *)
(* approval: the conversation implements ReviewVerdict.                    *)
ImplementsReviewVerdict == Verdict!Spec
(* All of the above in every state: whoever waits hears of the finish,     *)
(* nobody hears of it too early, and no accepted reply is lost on the way. *)
WaitersAreServed ==
  TypeOK /\ FinishReachesClient /\ VerdictWasShown /\ ReplyIsPersisted
=============================================================================
