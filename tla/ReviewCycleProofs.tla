-------------------------- MODULE ReviewCycleProofs --------------------------
(***************************************************************************)
(* Whoever waits for a verdict is served, for any numbers of agents, tabs, *)
(* waiters and comments and channels of any size.                          *)
(***************************************************************************)
EXTENDS ReviewCycle, TLAPS

(* What is in a channel, in whatever order.                                *)
Events(q) == {q[i] : i \in DOMAIN q}

(* The channels: an event waits only for who has subscribed.               *)
ChannelsOK ==
  /\ queue \in [Subscriber -> Seq(Event)]
  /\ \A s \in Subscriber : Len(queue[s]) <= Slots
  /\ subscribers \subseteq Subscriber /\ overran \subseteq subscribers
  /\ \A s \in Subscriber \ subscribers : queue[s] = <<>>
(* Everything else has its type.                                           *)
Verdicts == [by : Tab, approved : BOOLEAN]
PlainTypes ==
  /\ phase \in Phases
  /\ awaitingFirst \in BOOLEAN
  /\ roundChan \in BOOLEAN /\ armed \in BOOLEAN /\ answered \in BOOLEAN
  /\ mem \in [CommentId -> Comments] /\ disk \in [CommentId -> Comments]
  /\ call \in [Client -> CallPlaces]
  /\ held \in [Client -> SUBSET Verdicts] /\ given \in [Client -> SUBSET Verdicts]
  /\ finish \in [Tab -> [at : {"idle", "saved", "counted", "responded"},
                         approved : BOOLEAN, left : SUBSET CommentId]]
  /\ shown \subseteq Tab
  /\ agent \in [CommentId -> {"idle", "running", "replied", "lost", "ended"}]
  /\ acts \in 0..MaxActs

(* A tab's verdict is known to nobody before the tab has its answer, or it *)
(* is finishing anew.                                                      *)
Seen(t) == t \in shown \/ finish[t].at \in {"saved", "counted"}
ShownOK ==
  /\ \A t \in Tab : finish[t].at = "responded" => t \in shown
  /\ \A c \in Client : \A v \in held[c] : Seen(v.by)
  /\ \A s \in Subscriber : \A e \in Events(queue[s]) :
       e.type = "finish" => e.by \in Tab /\ Seen(e.by)

(* What a client has been offered and holds, by where it is in its call.   *)
VerdictOf(e) == [by |-> e.by, approved |-> e.approved]
Conversation(c) ==
  /\ c \in subscribers <=> call[c] \in InHandler
  /\ call[c] \in {"poll", "post"} => given[c] = {}
  /\ call[c] \in {"poll", "post", "subscribed", "waiting"} => held[c] = {}
  /\ call[c] = "replying" => \E v \in given[c] : held[c] = {v}
  /\ call[c] \in {"subscribed", "waiting"} =>
       /\ \A e \in Events(queue[c]) : e.type = "finish" => VerdictOf(e) \in given[c]
       /\ given[c] # {} => c \in overran \/ \E e \in Events(queue[c]) : e.type = "finish"
ConversationOK == \A c \in Client : Conversation(c)

(* A reply is in memory or in the file, unless the review was removed.     *)
RepliesOK ==
  /\ phase \in {"loading", "failed"} => \A c \in CommentId : agent[c] = "idle"
  /\ \A c \in CommentId : agent[c] = "replied" =>
       mem[c].replied \/ disk[c].replied \/ \E d \in Client : call[d] = "done"
  /\ ReplyIsPersisted

CycleInv ==
  PlainTypes /\ ChannelsOK /\ ConversationOK /\ ShownOK /\ RepliesOK
-----------------------------------------------------------------------------
(* Channels.                                                               *)

LEMMA EventsOfAppend ==
  ASSUME NEW q \in Seq(Event), NEW e \in Event
  PROVE  /\ Append(q, e) \in Seq(Event) /\ Len(Append(q, e)) = Len(q) + 1
         /\ Events(Append(q, e)) = Events(q) \cup {e}
<1>1. Append(q, e) \in Seq(Event) /\ Len(Append(q, e)) = Len(q) + 1
  OBVIOUS
<1>2. \A i \in 1..Len(q) : Append(q, e)[i] = q[i]
  OBVIOUS
<1>3. Append(q, e)[Len(q) + 1] = e
  OBVIOUS
<1>4. DOMAIN q = 1..Len(q) /\ DOMAIN Append(q, e) = 1..(Len(q) + 1)
  OBVIOUS
<1>5. 1..(Len(q) + 1) = (1..Len(q)) \cup {Len(q) + 1}
  OBVIOUS
<1> QED BY <1>1, <1>2, <1>3, <1>4, <1>5 DEF Events

LEMMA EventsOfTail ==
  ASSUME NEW q \in Seq(Event), q # <<>>
  PROVE  /\ Tail(q) \in Seq(Event) /\ Len(Tail(q)) = Len(q) - 1
         /\ Head(q) \in Event /\ Events(q) = Events(Tail(q)) \cup {Head(q)}
<1>1. Tail(q) \in Seq(Event) /\ Len(Tail(q)) = Len(q) - 1 /\ Head(q) = q[1] /\ Head(q) \in Event
  OBVIOUS
<1>2. DOMAIN q = 1..Len(q) /\ DOMAIN Tail(q) = 1..(Len(q) - 1) /\ Len(q) \in Nat \ {0}
  OBVIOUS
<1>3. \A i \in 1..(Len(q) - 1) : Tail(q)[i] = q[i + 1]
  OBVIOUS
<1>4. \A i \in 1..Len(q) : i = 1 \/ i - 1 \in 1..(Len(q) - 1)
  BY <1>2
<1>5. Events(q) \subseteq Events(Tail(q)) \cup {Head(q)}
  <2> SUFFICES ASSUME NEW i \in 1..Len(q) PROVE q[i] \in Events(Tail(q)) \cup {Head(q)}
    BY <1>2 DEF Events
  <2>1. CASE i = 1
    BY <2>1, <1>1
  <2>2. CASE i # 1
    <3>1. i - 1 \in 1..(Len(q) - 1) /\ (i - 1) + 1 = i
      BY <2>2, <1>2
    <3> QED BY <3>1, <1>2, <1>3 DEF Events
  <2> QED BY <2>1, <2>2
<1>6. Events(Tail(q)) \cup {Head(q)} \subseteq Events(q)
  <2>1. \A i \in 1..(Len(q) - 1) : i + 1 \in 1..Len(q)
    BY <1>2
  <2>2. 1 \in 1..Len(q)
    BY <1>2
  <2> QED BY <2>1, <2>2, <1>1, <1>2, <1>3 DEF Events
<1> QED BY <1>1, <1>5, <1>6

LEMMA EventsOfNone == <<>> \in Seq(Event) /\ Len(<<>>) = 0 /\ Events(<<>>) = {}
BY DEF Events

(* Has in terms of what is in the channel.                                 *)
LEMMA HasEvent ==
  ASSUME NEW s, NEW type
  PROVE  Has(s, type) <=> \E e \in Events(queue[s]) : e.type = type
BY DEF Has, Events

(* notify reaches every subscriber whose channel has room.                 *)
LEMMA Notified ==
  ASSUME ChannelsOK, Slots \in Nat, NEW e \in Event, Notify(e)
  PROVE  /\ ChannelsOK' /\ subscribers' = subscribers
         /\ overran \subseteq overran'
         /\ \A s \in Subscriber :
              /\ Events(queue[s]) \subseteq Events(queue'[s])
              /\ Events(queue'[s]) \subseteq Events(queue[s]) \cup {e}
         /\ e.type = "finish" =>
              \A s \in subscribers : s \in overran' \/ e \in Events(queue'[s])
<1> DEFINE full == {s \in subscribers : Len(queue[s]) = Slots}
<1>1. /\ queue' = [s \in Subscriber |->
                    IF s \in subscribers \ full THEN Append(queue[s], e) ELSE queue[s]]
      /\ overran' = IF e.type = "finish" THEN overran \cup full ELSE overran
      /\ subscribers' = subscribers
  BY DEF Notify
<1>2. ASSUME NEW s \in Subscriber
      PROVE  /\ queue'[s] \in Seq(Event) /\ Len(queue'[s]) <= Slots
             /\ s \notin subscribers => queue'[s] = <<>>
             /\ Events(queue[s]) \subseteq Events(queue'[s])
             /\ Events(queue'[s]) \subseteq Events(queue[s]) \cup {e}
             /\ s \in subscribers => s \in full \/ e \in Events(queue'[s])
  <2>1. queue[s] \in Seq(Event) /\ Len(queue[s]) <= Slots /\ Len(queue[s]) \in Nat
    BY DEF ChannelsOK
  <2>2. CASE s \in subscribers \ full
    <3>1. queue'[s] = Append(queue[s], e)
      BY <1>1, <2>2
    <3>2. Len(queue[s]) + 1 <= Slots
      BY <2>1, <2>2
    <3> QED BY <2>1, <2>2, <3>1, <3>2, EventsOfAppend
  <2>3. CASE s \notin subscribers \ full
    <3>1. queue'[s] = queue[s]
      BY <1>1, <2>3
    <3> QED BY <2>1, <2>3, <3>1 DEF ChannelsOK
  <2> QED BY <2>2, <2>3
<1>3. ChannelsOK'
  <2>1. queue' \in [Subscriber -> Seq(Event)]
    BY <1>1, <1>2
  <2>2. overran' \subseteq subscribers'
    BY <1>1 DEF ChannelsOK
  <2> QED BY <1>1, <1>2, <2>1, <2>2 DEF ChannelsOK
<1>4. overran \subseteq overran'
  BY <1>1
<1>5. e.type = "finish" => \A s \in subscribers : s \in overran' \/ e \in Events(queue'[s])
  <2> SUFFICES ASSUME e.type = "finish", NEW s \in subscribers
               PROVE  s \in overran' \/ e \in Events(queue'[s])
    OBVIOUS
  <2>1. s \in Subscriber
    BY DEF ChannelsOK
  <2>2. s \in full \/ e \in Events(queue'[s])
    BY <1>2, <2>1
  <2> QED BY <1>1, <2>2
<1> QED BY <1>1, <1>2, <1>3, <1>4, <1>5

(* Subscribing, leaving and taking an event touch one channel only.        *)
LEMMA Subscribed ==
  ASSUME ChannelsOK, NEW t \in Subscriber, Subscribe(t)
  PROVE  /\ ChannelsOK' /\ queue' = queue
         /\ subscribers' = subscribers \cup {t} /\ overran \ {t} \subseteq overran'
BY DEF ChannelsOK, Subscribe

LEMMA Unsubscribed ==
  ASSUME ChannelsOK, Slots \in Nat, NEW t \in Subscriber, Unsubscribe(t)
  PROVE  /\ ChannelsOK'
         /\ subscribers' = subscribers \ {t} /\ overran \ {t} \subseteq overran'
         /\ queue'[t] = <<>> /\ \A s \in Subscriber \ {t} : queue'[s] = queue[s]
<1>1. queue' \in [Subscriber -> Seq(Event)] /\ queue'[t] = <<>>
      /\ \A s \in Subscriber \ {t} : queue'[s] = queue[s]
  BY EventsOfNone DEF ChannelsOK, Unsubscribe
<1> QED BY <1>1, EventsOfNone DEF ChannelsOK, Unsubscribe

LEMMA Taken ==
  ASSUME ChannelsOK, Slots \in Nat, NEW t \in Subscriber, queue[t] # <<>>, Take(t)
  PROVE  /\ ChannelsOK' /\ subscribers' = subscribers /\ overran' = overran
         /\ Head(queue[t]) \in Event /\ Head(queue[t]) \in Events(queue[t])
         /\ Events(queue[t]) = Events(queue'[t]) \cup {Head(queue[t])}
         /\ \A s \in Subscriber \ {t} : queue'[s] = queue[s]
<1>1. queue[t] \in Seq(Event)
  BY DEF ChannelsOK
<1>2. /\ Tail(queue[t]) \in Seq(Event) /\ Len(Tail(queue[t])) = Len(queue[t]) - 1
      /\ Head(queue[t]) \in Event
      /\ Events(queue[t]) = Events(Tail(queue[t])) \cup {Head(queue[t])}
  BY <1>1, EventsOfTail
<1>3. /\ queue' \in [Subscriber -> Seq(Event)] /\ queue'[t] = Tail(queue[t])
      /\ \A s \in Subscriber \ {t} : queue'[s] = queue[s]
  BY <1>2 DEF ChannelsOK, Take
<1>4. \A s \in Subscriber : Len(queue'[s]) <= Slots
  <2>1. Len(queue[t]) \in Nat /\ Len(queue[t]) <= Slots
    BY <1>1 DEF ChannelsOK
  <2>2. Len(queue'[t]) <= Slots
    BY <1>2, <1>3, <2>1
  <2> QED BY <1>3, <2>2 DEF ChannelsOK
<1>5. subscribers' = subscribers /\ overran' = overran /\ t \in subscribers
  BY DEF Take, ChannelsOK
<1>6. ChannelsOK'
  BY <1>3, <1>4, <1>5 DEF ChannelsOK
<1> QED BY <1>2, <1>3, <1>5, <1>6
-----------------------------------------------------------------------------
(* Types.                                                                  *)

LEMMA TypesInParts == PlainTypes /\ ChannelsOK => TypeOK
BY DEF PlainTypes, ChannelsOK, TypeOK

LEMMA ActTypes == acts \in 0..MaxActs /\ Act => acts' \in 0..MaxActs
BY CycleAssumption DEF Act

LEMMA MergedTypes == PlainTypes => Merged \in [CommentId -> Comments]
<1> SUFFICES ASSUME PlainTypes, NEW c \in CommentId
             PROVE  /\ mem[c] \in Comments /\ disk[c] \in Comments
                    /\ [state |-> IF mem[c].state = "absent" THEN disk[c].state ELSE mem[c].state,
                        replied |-> mem[c].replied \/ disk[c].replied] \in Comments
  BY DEF Merged
<1>1. mem[c] \in Comments /\ disk[c] \in Comments
  BY DEF PlainTypes
<1> QED BY <1>1 DEF Comments

LEMMA AbsentTypes == Absent \in Comments
BY DEF Absent, Comments, States

LEMMA SignalTypes ==
  ASSUME PlainTypes, SignalRound
  PROVE  /\ agent' \in [CommentId -> {"idle", "running", "replied", "lost", "ended"}]
         /\ mem' \in [CommentId -> Comments] /\ armed' = FALSE /\ roundChan' = TRUE
         /\ UNCHANGED <<disk, awaitingFirst>>
BY AbsentTypes DEF PlainTypes, SignalRound

(* What clients do.                                                        *)
LEMMA ClientTypes ==
  ASSUME PlainTypes, ChannelsOK, ShownOK, NEW c \in Client, ClientStep(c) PROVE PlainTypes'
<1> USE DEF clients, tabs, review, conn, GoTo, CallPlaces, InHandler
<1>1. CASE CallCrit(c)
  BY <1>1, ActTypes DEF PlainTypes, CallCrit
<1>2. CASE DaemonReady(c)
  BY <1>2 DEF PlainTypes, DaemonReady
<1>3. CASE DaemonFails(c)
  BY <1>3 DEF PlainTypes, DaemonFails, Deny
<1>4. CASE Post(c)
  BY <1>4 DEF PlainTypes, Post
<1>5. CASE Begin(c)
  <2>1. /\ awaitingFirst' \in BOOLEAN /\ roundChan' \in BOOLEAN /\ armed' \in BOOLEAN
        /\ mem' \in [CommentId -> Comments] /\ disk' \in [CommentId -> Comments]
        /\ agent' \in [CommentId -> {"idle", "running", "replied", "lost", "ended"}]
    <3>1. CASE awaitingFirst
      BY <1>5, <3>1 DEF PlainTypes, Begin, StartRound
    <3>2. CASE ~awaitingFirst
      <4>1. SignalRound
        BY <1>5, <3>2 DEF Begin, StartRound
      <4> QED BY <4>1, SignalTypes DEF PlainTypes
    <3> QED BY <3>1, <3>2
  <2> QED BY <1>5, <2>1 DEF PlainTypes, Begin
<1>6. CASE Receive(c)
  <2>1. Head(queue[c]) \in Event /\ Head(queue[c]) \in Events(queue[c])
    BY <1>6, EventsOfTail DEF Receive, ChannelsOK, Subscriber
  <2>2. CASE Head(queue[c]).type = "finish"
    <3>1. [by |-> Head(queue[c]).by, approved |-> Head(queue[c]).approved] \in Verdicts
      BY <2>1, <2>2 DEF ShownOK, Event, Verdicts, Subscriber
    <3>2. /\ held' = [held EXCEPT ![c] = {[by |-> Head(queue[c]).by,
                                            approved |-> Head(queue[c]).approved]}]
          /\ call' = [call EXCEPT ![c] = "replying"] /\ awaitingFirst' = FALSE
          /\ UNCHANGED <<given, answered, phase, review, tabs, agent, acts>>
      BY <1>6, <2>2 DEF Receive
    <3> QED BY <3>1, <3>2 DEF PlainTypes
  <2>3. CASE Head(queue[c]).type = "server-shutdown"
    BY <1>6, <2>3 DEF PlainTypes, Receive, Deny
  <2>4. CASE Head(queue[c]).type = "changed"
    BY <1>6, <2>4 DEF PlainTypes, Receive
  <2> QED BY <1>6, <2>2, <2>3, <2>4 DEF Receive
<1>7. CASE Reply(c)
  BY <1>7 DEF PlainTypes, Reply
<1>8. CASE GiveUp(c)
  BY <1>8, ActTypes DEF PlainTypes, GiveUp, Deny
<1>9. CASE StopOnApproval(c)
  BY <1>9 DEF PlainTypes, StopOnApproval, Phases
<1>10. CASE CleanupOnApproval(c)
  BY <1>10, AbsentTypes DEF PlainTypes, CleanupOnApproval
<1> QED BY <1>1, <1>2, <1>3, <1>4, <1>5, <1>6, <1>7, <1>8, <1>9, <1>10 DEF ClientStep, EnterCycle

(* What tabs do.                                                           *)
LEMMA FinishTypes ==
  ASSUME PlainTypes, NEW t \in Tab, FinishStep(t) PROVE PlainTypes'
<1> USE DEF clients, tabs, review, conn, FinishTo, FinishAt
<1>1. CASE FinishSaves(t)
  BY <1>1, ActTypes, MergedTypes DEF PlainTypes, FinishSaves, NoFinish
<1>2. CASE FinishCounts(t)
  BY <1>2 DEF PlainTypes, FinishCounts, Open
<1>3. CASE FinishResponds(t)
  BY <1>3 DEF PlainTypes, FinishResponds
<1>4. CASE FinishNotifies(t)
  <2>1. [by |-> t, approved |-> finish[t].approved] \in Verdicts
    BY DEF PlainTypes, Verdicts
  <2>2. given' \in [Client -> SUBSET Verdicts]
    BY <1>4, <2>1 DEF PlainTypes, FinishNotifies, GiveTo
  <2> QED BY <1>4, <2>2 DEF PlainTypes, FinishNotifies, NoFinish
<1>5. CASE FinishFails(t)
  BY <1>5, ActTypes DEF PlainTypes, FinishFails
<1> QED BY <1>1, <1>2, <1>3, <1>4, <1>5 DEF FinishStep, FinishAnswers

(* The comments, other subscribers and the daemon.                         *)
SessionStep ==
  \/ \E c \in CommentId : AddComment(c) \/ ResolveComment(c) \/ AgentRequest(c)
                          \/ AgentReplies(c) \/ AgentEnds(c)
  \/ DebouncedSave \/ RoundHandled \/ RoundComplete
LEMMA SessionTypes ==
  ASSUME PlainTypes, SessionStep PROVE PlainTypes'
<1> USE DEF clients, tabs, review, conn
<1>1. ASSUME NEW c \in CommentId, AddComment(c) PROVE PlainTypes'
  BY <1>1, ActTypes DEF PlainTypes, AddComment, Comments, States
<1>2. ASSUME NEW c \in CommentId, ResolveComment(c) PROVE PlainTypes'
  BY <1>2, ActTypes DEF PlainTypes, ResolveComment, Comments, States
<1>3. ASSUME NEW c \in CommentId, AgentRequest(c) PROVE PlainTypes'
  BY <1>3, ActTypes DEF PlainTypes, AgentRequest
<1>4. ASSUME NEW c \in CommentId, AgentReplies(c) PROVE PlainTypes'
  BY <1>4 DEF PlainTypes, AgentReplies, Comments
<1>5. ASSUME NEW c \in CommentId, AgentEnds(c) PROVE PlainTypes'
  BY <1>5 DEF PlainTypes, AgentEnds
<1>6. CASE DebouncedSave
  BY <1>6, MergedTypes DEF PlainTypes, DebouncedSave
<1>7. CASE RoundHandled
  BY <1>7, MergedTypes DEF PlainTypes, RoundHandled
<1>8. CASE RoundComplete
  BY <1>8, ActTypes, SignalTypes DEF PlainTypes, RoundComplete
<1> QED BY <1>1, <1>2, <1>3, <1>4, <1>5, <1>6, <1>7, <1>8 DEF SessionStep

LEMMA OtherTypes ==
  ASSUME PlainTypes,
         Daemon \/ \E s \in Waiter \cup Tab : Connect(s) \/ Deliver(s) \/ Disconnect(s)
  PROVE  PlainTypes'
<1> USE DEF clients, tabs, review, conn
<1>1. ASSUME NEW s \in Waiter \cup Tab, Connect(s) \/ Deliver(s) \/ Disconnect(s)
      PROVE  PlainTypes'
  BY <1>1, ActTypes DEF PlainTypes, Connect, Deliver, Disconnect
<1>2. CASE StopRequested
  BY <1>2, ActTypes DEF PlainTypes, StopRequested, PhaseTo, Phases
<1>3. CASE FinalSave
  BY <1>3, MergedTypes DEF PlainTypes, FinalSave, PhaseTo, Phases
<1>4. CASE InitEnds \/ FailedEnds \/ ShutdownTold \/ Drained \/ ListenerCloses \/ BackgroundWaited
  BY <1>4 DEF PlainTypes, InitEnds, FailedEnds, ShutdownTold, Drained, ListenerCloses,
              BackgroundWaited, PhaseTo, Phases
<1> QED BY <1>1, <1>2, <1>3, <1>4 DEF Daemon
-----------------------------------------------------------------------------
(* Conversations.                                                          *)

(* Nothing happens to a client whose channel gains no finish.              *)
LEMMA ConversationStays ==
  ASSUME NEW c \in Client, Conversation(c),
         call'[c] = call[c], held'[c] = held[c], given'[c] = given[c],
         c \in subscribers' <=> c \in subscribers,
         c \in overran => c \in overran',
         Events(queue[c]) \subseteq Events(queue'[c]),
         \A e \in Events(queue'[c]) \ Events(queue[c]) : e.type # "finish"
  PROVE  Conversation(c)'
<1>1. Events(queue[c])' = Events(queue'[c])
  BY DEF Events
<1> QED BY <1>1 DEF Conversation

(* Steps of neither a client nor a notified finish.                        *)
Aside ==
  /\ UNCHANGED <<call, held, given>>
  /\ \/ UNCHANGED conn
     \/ Notify(Changed) \/ Notify(Shutdown)
     \/ \E s \in Waiter \cup Tab :
          Subscribe(s) \/ Unsubscribe(s) \/ (queue[s] # <<>> /\ Take(s))
LEMMA AsideKeeps ==
  ASSUME ChannelsOK, ConversationOK, Aside PROVE ChannelsOK' /\ ConversationOK'
<1>0. Slots \in Nat
  BY CycleAssumption
<1>1. CASE UNCHANGED conn
  BY <1>1 DEF Aside, conn, ChannelsOK, ConversationOK, Conversation, Events
<1>2. ASSUME NEW e \in {Changed, Shutdown}, Notify(e) PROVE ChannelsOK' /\ ConversationOK'
  <2>1. e \in Event /\ e.type # "finish"
    <3>1. CASE e = Changed
      BY <3>1 DEF Changed, Event
    <3>2. CASE e = Shutdown
      BY <3>2 DEF Shutdown, Event
    <3> QED BY <3>1, <3>2
  <2>2. /\ ChannelsOK' /\ subscribers' = subscribers /\ overran \subseteq overran'
        /\ \A s \in Subscriber :
             /\ Events(queue[s]) \subseteq Events(queue'[s])
             /\ Events(queue'[s]) \subseteq Events(queue[s]) \cup {e}
    BY <1>0, <1>2, <2>1, Notified
  <2>3. ASSUME NEW c \in Client PROVE Conversation(c)'
    <3>1. Conversation(c) /\ c \in Subscriber
      BY DEF ConversationOK, Subscriber
    <3> QED BY <2>1, <2>2, <3>1, ConversationStays DEF Aside
  <2> QED BY <2>2, <2>3 DEF ConversationOK
<1>3. ASSUME NEW t \in Waiter \cup Tab,
             Subscribe(t) \/ Unsubscribe(t) \/ (queue[t] # <<>> /\ Take(t))
      PROVE  ChannelsOK' /\ ConversationOK'
  <2>1. t \in Subscriber
    BY DEF Subscriber
  <2>2. /\ ChannelsOK' /\ subscribers' \ {t} = subscribers \ {t} /\ overran \ {t} \subseteq overran'
        /\ \A s \in Subscriber \ {t} : queue'[s] = queue[s]
    BY <1>0, <1>3, <2>1, Subscribed, Unsubscribed, Taken
  <2>3. ASSUME NEW c \in Client PROVE Conversation(c)'
    <3>1. Conversation(c) /\ c \in Subscriber /\ c # t
      BY CycleAssumption DEF ConversationOK, Subscriber
    <3>2. /\ queue'[c] = queue[c]
          /\ c \in subscribers' <=> c \in subscribers
      BY <2>2, <3>1
    <3>3. c \in overran => c \in overran'
      BY <2>2, <3>1
    <3> QED BY <3>1, <3>2, <3>3, ConversationStays DEF Aside
  <2> QED BY <2>2, <2>3 DEF ConversationOK
<1> QED BY <1>1, <1>2, <1>3 DEF Aside

(* A client's own step leaves the other clients' conversations alone.      *)
LEMMA OtherConversations ==
  ASSUME NEW c \in Client, NEW d \in Client \ {c}, Conversation(d),
         call'[d] = call[d], held'[d] = held[d], given'[d] = given[d],
         subscribers' \ {c} = subscribers \ {c}, overran \ {c} \subseteq overran',
         queue'[d] = queue[d]
  PROVE  Conversation(d)'
BY ConversationStays

(* A finish reaches who is in its handler, or overruns its channel.        *)
LEMMA NotifiesKeeps ==
  ASSUME PlainTypes, ChannelsOK, ConversationOK, NEW t \in Tab, FinishNotifies(t)
  PROVE  ChannelsOK' /\ ConversationOK'
<1> DEFINE e == Finish(t, finish[t].approved)
           v == [by |-> t, approved |-> finish[t].approved]
<1>0. Slots \in Nat
  BY CycleAssumption
<1>1. e \in Event /\ e.type = "finish" /\ VerdictOf(e) = v
  BY DEF Finish, Event, VerdictOf, PlainTypes
<1>2. /\ ChannelsOK' /\ subscribers' = subscribers /\ overran \subseteq overran'
      /\ \A s \in Subscriber :
           /\ Events(queue[s]) \subseteq Events(queue'[s])
           /\ Events(queue'[s]) \subseteq Events(queue[s]) \cup {e}
      /\ \A s \in subscribers : s \in overran' \/ e \in Events(queue'[s])
  <2>1. Notify(e)
    BY DEF FinishNotifies
  <2> QED BY <1>0, <1>1, <2>1, Notified
<1>3. ASSUME NEW c \in Client PROVE Conversation(c)'
  <2>1. Conversation(c) /\ c \in Subscriber /\ call'[c] = call[c] /\ held'[c] = held[c]
    BY DEF ConversationOK, Subscriber, FinishNotifies
  <2>2. Events(queue[c])' = Events(queue'[c])
    BY DEF Events
  <2>3. given'[c] = IF call[c] \in {"subscribed", "waiting"} THEN given[c] \cup {v} ELSE given[c]
    BY DEF FinishNotifies, GiveTo
  <2>4. CASE call[c] \in {"subscribed", "waiting"}
    <3>1. c \in subscribers
      BY <2>1, <2>4 DEF Conversation, InHandler
    <3> HIDE DEF e, v
    <3> QED BY <1>1, <1>2, <2>1, <2>2, <2>3, <2>4, <3>1 DEF Conversation
  <2>5. CASE call[c] \notin {"subscribed", "waiting"}
    BY <1>2, <2>1, <2>2, <2>3, <2>5 DEF Conversation
  <2> QED BY <2>4, <2>5
<1> QED BY <1>2, <1>3 DEF ConversationOK

(* A client's own steps.                                                   *)
LEMMA ClientKeeps ==
  ASSUME PlainTypes, ChannelsOK, ConversationOK, NEW c \in Client, ClientStep(c)
  PROVE  ChannelsOK' /\ ConversationOK'
<1> USE DEF GoTo
<1>0. Slots \in Nat /\ c \in Subscriber /\ Conversation(c) /\ Events(queue[c])' = Events(queue'[c])
  BY CycleAssumption DEF Subscriber, ConversationOK, Events
<1>a. ASSUME /\ call' \in [Client -> CallPlaces] /\ \A d \in Client \ {c} : call'[d] = call[d]
             /\ \A d \in Client \ {c} : held'[d] = held[d]
             /\ \A d \in Client \ {c} : given'[d] = given[d],
             ChannelsOK', Conversation(c)',
             subscribers' \ {c} = subscribers \ {c}, overran \ {c} \subseteq overran',
             \A s \in Subscriber \ {c} : queue'[s] = queue[s]
      PROVE  ChannelsOK' /\ ConversationOK'
  <2>1. ASSUME NEW d \in Client \ {c} PROVE Conversation(d)'
    <3>1. Conversation(d) /\ d \in Subscriber
      BY DEF ConversationOK, Subscriber
    <3> QED BY <1>a, <3>1, OtherConversations
  <2> QED BY <1>a, <2>1 DEF ConversationOK
<1>1. CASE CallCrit(c)
  <2>1. Conversation(c)'
    BY <1>0, <1>1 DEF CallCrit, conn, PlainTypes, Conversation, InHandler
  <2> QED BY <1>1, <2>1, <1>a DEF CallCrit, conn, PlainTypes, CallPlaces, ChannelsOK
<1>2. CASE DaemonReady(c)
  <2>1. Conversation(c)'
    BY <1>0, <1>2 DEF DaemonReady, conn, PlainTypes, Conversation, InHandler
  <2> QED BY <1>2, <2>1, <1>a DEF DaemonReady, conn, PlainTypes, CallPlaces, ChannelsOK
<1>3. CASE DaemonFails(c) \/ GiveUp(c)
  <2>1. Deny(c) /\ Unsubscribe(c)
    BY <1>3 DEF DaemonFails, GiveUp
  <2>2. /\ ChannelsOK'
        /\ subscribers' = subscribers \ {c} /\ overran \ {c} \subseteq overran'
        /\ \A s \in Subscriber \ {c} : queue'[s] = queue[s]
    BY <1>0, <2>1, Unsubscribed
  <2>3. Conversation(c)'
    BY <2>1, <2>2 DEF Deny, PlainTypes, Conversation, InHandler
  <2> QED BY <2>1, <2>2, <2>3, <1>a DEF Deny, PlainTypes, CallPlaces
<1>4. CASE Post(c)
  <2>1. /\ ChannelsOK' /\ queue' = queue
        /\ subscribers' = subscribers \cup {c} /\ overran \ {c} \subseteq overran'
    BY <1>0, <1>4, Subscribed DEF Post
  <2>2. Events(queue[c]) = {}
    BY <1>0, <1>4, EventsOfNone DEF Post, Conversation, ChannelsOK, InHandler
  <2>3. Conversation(c)'
    BY <1>0, <1>4, <2>1, <2>2 DEF Post, PlainTypes, Conversation, InHandler
  <2> QED BY <1>4, <2>1, <2>3, <1>a DEF Post, PlainTypes, CallPlaces, InHandler
<1>5. CASE Begin(c)
  <2>1. Conversation(c)'
    BY <1>0, <1>5 DEF Begin, conn, PlainTypes, Conversation, InHandler
  <2> QED BY <1>5, <2>1, <1>a DEF Begin, conn, PlainTypes, CallPlaces, ChannelsOK, InHandler
<1>6. CASE Receive(c)
  <2> DEFINE e == Head(queue[c])
  <2>0. queue[c] # <<>> /\ call[c] = "waiting"
    BY <1>6 DEF Receive
  <2>1. CASE Take(c) /\ e.type # "server-shutdown"
    <3>1. /\ ChannelsOK' /\ subscribers' = subscribers /\ overran' = overran
          /\ e \in Events(queue[c]) /\ Events(queue[c]) = Events(queue'[c]) \cup {e}
          /\ \A s \in Subscriber \ {c} : queue'[s] = queue[s]
      BY <1>0, <2>0, <2>1, Taken
    <3>2. CASE e.type = "finish" /\ call' = [call EXCEPT ![c] = "replying"]
      <4>1. /\ held' = [held EXCEPT ![c] = {VerdictOf(e)}] /\ given' = given
        BY <1>6, <3>2 DEF Receive, Deny, VerdictOf, clients
      <4>2. VerdictOf(e) \in given[c]
        BY <1>0, <2>0, <3>1, <3>2 DEF Conversation
      <4>3. Conversation(c)'
        BY <1>0, <2>0, <3>1, <3>2, <4>1, <4>2 DEF PlainTypes, Conversation, InHandler
      <4>4. /\ call' \in [Client -> CallPlaces] /\ \A d \in Client \ {c} : call'[d] = call[d]
            /\ \A d \in Client \ {c} : held'[d] = held[d]
            /\ \A d \in Client \ {c} : given'[d] = given[d]
        BY <3>2, <4>1 DEF PlainTypes, CallPlaces, InHandler
      <4>5. subscribers' \ {c} = subscribers \ {c} /\ overran \ {c} \subseteq overran'
        BY <3>1
      <4> HIDE DEF e
      <4> QED BY <3>1, <4>3, <4>4, <4>5, <1>a
    <3>3. CASE e.type = "changed" /\ UNCHANGED clients
      <4>1. Conversation(c)'
        BY <1>0, <2>0, <3>1, <3>3 DEF clients, Conversation
      <4> QED BY <3>1, <3>3, <4>1, <1>a DEF PlainTypes, clients
    <3> QED BY <1>6, <2>1, <3>2, <3>3 DEF Receive
  <2>2. CASE Deny(c) /\ Unsubscribe(c)
    <3>1. /\ ChannelsOK'
          /\ subscribers' = subscribers \ {c} /\ overran \ {c} \subseteq overran'
          /\ \A s \in Subscriber \ {c} : queue'[s] = queue[s]
      BY <1>0, <2>2, Unsubscribed
    <3>2. Conversation(c)'
      BY <2>2, <3>1 DEF Deny, PlainTypes, Conversation, InHandler
    <3> QED BY <2>2, <3>1, <3>2, <1>a DEF Deny, PlainTypes, CallPlaces
  <2> QED BY <1>6, <2>1, <2>2 DEF Receive
<1>7. CASE Reply(c)
  <2>1. /\ ChannelsOK'
        /\ subscribers' = subscribers \ {c} /\ overran \ {c} \subseteq overran'
        /\ \A s \in Subscriber \ {c} : queue'[s] = queue[s]
    BY <1>0, <1>7, Unsubscribed DEF Reply
  <2>2. Conversation(c)'
    BY <1>7, <2>1 DEF Reply, PlainTypes, Conversation, InHandler
  <2> QED BY <1>7, <2>1, <2>2, <1>a DEF Reply, PlainTypes, CallPlaces
<1>8. CASE StopOnApproval(c)
  <2>1. Conversation(c)'
    BY <1>0, <1>8 DEF StopOnApproval, conn, PlainTypes, Conversation, InHandler
  <2> QED BY <1>8, <2>1, <1>a DEF StopOnApproval, conn, PlainTypes, CallPlaces, ChannelsOK
<1>9. CASE CleanupOnApproval(c)
  <2>1. Conversation(c)'
    BY <1>0, <1>9 DEF CleanupOnApproval, conn, PlainTypes, Conversation, InHandler
  <2> QED BY <1>9, <2>1, <1>a DEF CleanupOnApproval, conn, PlainTypes, CallPlaces, ChannelsOK
<1> QED BY <1>1, <1>2, <1>3, <1>4, <1>5, <1>6, <1>7, <1>8, <1>9 DEF ClientStep, EnterCycle

(* Every other step is aside.                                              *)
Others ==
  \/ SessionStep \/ Daemon \/ UNCHANGED vars
  \/ \E s \in Waiter \cup Tab : Connect(s) \/ Deliver(s) \/ Disconnect(s)
  \/ \E t \in Tab : FinishSaves(t) \/ FinishFails(t) \/ FinishCounts(t) \/ FinishResponds(t)
LEMMA StepsInParts ==
  [Next]_vars => \/ \E c \in Client : ClientStep(c)
                 \/ \E t \in Tab : FinishNotifies(t)
                 \/ Others
BY DEF Next, Others, SessionStep, FinishStep, FinishAnswers
LEMMA OthersAside == Others => Aside
<1> SUFFICES ASSUME Others PROVE Aside
  OBVIOUS
<1> USE DEF Aside, clients, conn
<1>1. CASE SessionStep
  <2>1. ASSUME NEW c \in CommentId,
               AddComment(c) \/ ResolveComment(c) \/ AgentRequest(c) \/ AgentEnds(c)
        PROVE  Aside
    BY <2>1 DEF AddComment, ResolveComment, AgentRequest, AgentEnds
  <2>2. ASSUME NEW c \in CommentId, AgentReplies(c) PROVE Aside
    BY <2>2 DEF AgentReplies
  <2>3. CASE DebouncedSave \/ RoundHandled \/ RoundComplete
    BY <2>3 DEF DebouncedSave, RoundHandled, RoundComplete
  <2> QED BY <1>1, <2>1, <2>2, <2>3 DEF SessionStep
<1>2. CASE Daemon
  <2>1. CASE ShutdownTold
    BY <2>1 DEF ShutdownTold
  <2>2. CASE ~ShutdownTold
    <3>1. UNCHANGED <<call, held, given, subscribers, queue, overran>>
      BY <1>2, <2>2 DEF Daemon, InitEnds, FailedEnds, StopRequested, Drained, ListenerCloses,
                        BackgroundWaited, FinalSave
    <3> QED BY <3>1
  <2> QED BY <2>1, <2>2
<1>3. CASE UNCHANGED vars
  <2>1. UNCHANGED <<call, held, given, subscribers, queue, overran>>
    BY <1>3 DEF vars
  <2> QED BY <2>1
<1>4. ASSUME NEW s \in Waiter \cup Tab, Connect(s) \/ Deliver(s) \/ Disconnect(s) PROVE Aside
  BY <1>4 DEF Connect, Deliver, Disconnect
<1>5. ASSUME NEW t \in Tab, FinishSaves(t) \/ FinishFails(t) \/ FinishCounts(t) \/ FinishResponds(t)
      PROVE  Aside
  BY <1>5 DEF FinishSaves, FinishFails, FinishCounts, FinishResponds
<1> QED BY <1>1, <1>2, <1>3, <1>4, <1>5 DEF Others
-----------------------------------------------------------------------------
(* What tabs have shown.                                                   *)

NoNewFinish ==
  \A s \in Subscriber : \A e \in Events(queue'[s]) : e \in Events(queue[s]) \/ e.type # "finish"

LEMMA OthersSayNoFinish == ASSUME ChannelsOK, Aside PROVE NoNewFinish
<1>0. Slots \in Nat
  BY CycleAssumption
<1>1. CASE UNCHANGED conn
  BY <1>1 DEF conn, NoNewFinish
<1>2. ASSUME NEW e \in {Changed, Shutdown}, Notify(e) PROVE NoNewFinish
  <2>1. e \in Event /\ e.type # "finish"
    <3>1. CASE e = Changed
      BY <3>1 DEF Changed, Event
    <3>2. CASE e = Shutdown
      BY <3>2 DEF Shutdown, Event
    <3> QED BY <3>1, <3>2
  <2> QED BY <1>0, <1>2, <2>1, Notified DEF NoNewFinish
<1>3. ASSUME NEW t \in Subscriber,
             Subscribe(t) \/ Unsubscribe(t) \/ (queue[t] # <<>> /\ Take(t))
      PROVE  NoNewFinish
  BY <1>0, <1>3, Subscribed, Unsubscribed, Taken, EventsOfNone DEF NoNewFinish
<1> QED BY <1>1, <1>2, <1>3 DEF Aside, Subscriber

LEMMA ClientsSayNoFinish ==
  ASSUME ChannelsOK, NEW c \in Client, ClientStep(c) PROVE NoNewFinish
<1>0. Slots \in Nat /\ c \in Subscriber
  BY CycleAssumption DEF Subscriber
<1>1. \/ UNCHANGED queue \/ Unsubscribe(c) \/ (queue[c] # <<>> /\ Take(c))
  BY DEF ClientStep, CallCrit, DaemonReady, DaemonFails, EnterCycle, Post, Begin, Receive, Reply,
         GiveUp, StopOnApproval, CleanupOnApproval, conn, Subscribe
<1> QED BY <1>0, <1>1, Unsubscribed, Taken, EventsOfNone DEF NoNewFinish

(* A verdict that is held was in the channel.                              *)
LEMMA HeldWasHeard ==
  ASSUME PlainTypes, ChannelsOK, NEW c \in Client, ClientStep(c)
  PROVE  \A d \in Client : \A v \in held'[d] :
           v \in held[d] \/ \E e \in Events(queue[d]) : e.type = "finish" /\ v.by = e.by
<1>1. CASE CallCrit(c)
  BY <1>1 DEF CallCrit, PlainTypes
<1>2. CASE Receive(c)
  <2>1. Head(queue[c]) \in Events(queue[c])
    BY <1>2, EventsOfTail DEF Receive, ChannelsOK, Subscriber
  <2>2. CASE Head(queue[c]).type = "finish"
    <3>1. held' = [held EXCEPT ![c] = {[by |-> Head(queue[c]).by,
                                         approved |-> Head(queue[c]).approved]}]
      BY <1>2, <2>2 DEF Receive
    <3> QED BY <2>1, <2>2, <3>1 DEF PlainTypes
  <2>3. CASE Head(queue[c]).type # "finish"
    BY <1>2, <2>3 DEF Receive, Deny, clients
  <2> QED BY <2>2, <2>3
<1>3. CASE ~CallCrit(c) /\ ~Receive(c)
  BY <1>3 DEF ClientStep, DaemonReady, DaemonFails, EnterCycle, Post, Begin, Reply, GiveUp,
              StopOnApproval, CleanupOnApproval, Deny, clients
<1> QED BY <1>1, <1>2, <1>3

LEMMA ShownStays ==
  ASSUME ShownOK, UNCHANGED tabs, NoNewFinish,
         \A d \in Client : \A v \in held'[d] :
           v \in held[d] \/ \E e \in Events(queue[d]) : e.type = "finish" /\ v.by = e.by
  PROVE  ShownOK'
<1>1. \A s \in Subscriber : Events(queue[s])' = Events(queue'[s])
  BY DEF Events
<1>2. Client \subseteq Subscriber
  BY DEF Subscriber
<1> QED BY <1>1, <1>2 DEF ShownOK, Seen, tabs, NoNewFinish

(* Finishing: a tab that finishes anew is seen to.                         *)
LEMMA FinishShows ==
  ASSUME PlainTypes, ChannelsOK, ShownOK, NEW t \in Tab, FinishStep(t) PROVE ShownOK'
<1>0. \A s \in Subscriber : Events(queue[s])' = Events(queue'[s])
  BY DEF Events
<1> USE DEF FinishTo, FinishAt, NoFinish
<1>1. /\ \A x \in Tab : Seen(x) => Seen(x)'
      /\ \A x \in Tab : finish'[x].at = "responded" => x \in shown'
  <2>1. CASE FinishSaves(t)
    BY <2>1 DEF FinishSaves, PlainTypes, Seen, ShownOK
  <2>2. CASE FinishCounts(t)
    BY <2>2 DEF FinishCounts, PlainTypes, Seen, ShownOK
  <2>3. CASE FinishResponds(t)
    BY <2>3 DEF FinishResponds, PlainTypes, Seen, ShownOK
  <2>4. CASE FinishNotifies(t)
    BY <2>4 DEF FinishNotifies, PlainTypes, Seen, ShownOK
  <2>5. CASE FinishFails(t)
    BY <2>5 DEF FinishFails, tabs, PlainTypes, Seen, ShownOK
  <2> QED BY <2>1, <2>2, <2>3, <2>4, <2>5 DEF FinishStep, FinishAnswers
<1>2. UNCHANGED held /\ \A c \in Client : \A v \in held[c] : v.by \in Tab
  <2>1. UNCHANGED held
    BY DEF FinishStep, FinishAnswers, FinishSaves, FinishFails, FinishCounts, FinishResponds,
           FinishNotifies, clients
  <2>2. \A c \in Client : \A v \in held[c] : v.by \in Tab
    BY DEF PlainTypes, Verdicts
  <2> QED BY <2>1, <2>2
<1>3. CASE ~FinishNotifies(t)
  <2>1. UNCHANGED queue
    BY <1>3 DEF FinishStep, FinishAnswers, FinishSaves, FinishFails, FinishCounts, FinishResponds, conn
  <2> QED BY <1>0, <1>1, <1>2, <2>1 DEF ShownOK
<1>4. CASE FinishNotifies(t)
  <2> DEFINE e == Finish(t, finish[t].approved)
  <2>1. e \in Event /\ e.by = t /\ Notify(e) /\ Slots \in Nat
    BY <1>4, CycleAssumption DEF Finish, Event, PlainTypes, FinishNotifies
  <2>2. \A s \in Subscriber : Events(queue'[s]) \subseteq Events(queue[s]) \cup {e}
    BY <2>1, Notified
  <2>3. Seen(t)
    BY <1>4 DEF FinishNotifies, ShownOK, Seen
  <2> HIDE DEF e
  <2> QED BY <1>0, <1>1, <1>2, <2>1, <2>2, <2>3 DEF ShownOK
<1> QED BY <1>3, <1>4
-----------------------------------------------------------------------------
(* Replies of agents started from comments.                                *)

LEMMA DoneStays ==
  ASSUME PlainTypes, [Next]_vars
  PROVE  \A d \in Client : call[d] = "done" => call'[d] = "done"
<1>1. ASSUME NEW c \in Client, ClientStep(c)
      PROVE  \A d \in Client : call[d] = "done" => call'[d] = "done"
  <2>1. \/ UNCHANGED call
        \/ call[c] # "done" /\ \E place \in CallPlaces : call' = [call EXCEPT ![c] = place]
    BY <1>1 DEF ClientStep, CallCrit, DaemonReady, DaemonFails, EnterCycle, Post, Begin, Receive,
                Reply, GiveUp, StopOnApproval, CleanupOnApproval, Deny, GoTo, CallPlaces, InHandler,
                clients
  <2> QED BY <2>1 DEF PlainTypes
<1>2. ASSUME NEW t \in Tab, FinishNotifies(t) PROVE UNCHANGED call
  BY <1>2 DEF FinishNotifies
<1>3. Others => UNCHANGED call
  BY OthersAside DEF Aside
<1> QED BY <1>1, <1>2, <1>3, StepsInParts

(* A save keeps every reply, and so does a signalled round, which forgets  *)
(* those that were not saved.                                              *)
LEMMA MergedReplies ==
  ASSUME NEW c \in CommentId
  PROVE  Merged[c].replied <=> mem[c].replied \/ disk[c].replied
BY DEF Merged

LEMMA SignalReplies ==
  ASSUME PlainTypes, SignalRound, NEW c \in CommentId, agent'[c] = "replied"
  PROVE  disk'[c].replied
BY DEF PlainTypes, SignalRound

LEMMA UntouchedReplies ==
  ASSUME RepliesOK, UNCHANGED <<mem, disk, agent, phase>>,
         \A d \in Client : call[d] = "done" => call'[d] = "done"
  PROVE  RepliesOK'
BY DEF RepliesOK, ReplyIsPersisted

LEMMA RepliesKept ==
  ASSUME PlainTypes, RepliesOK, [Next]_vars PROVE RepliesOK'
<1>0. \A d \in Client : call[d] = "done" => call'[d] = "done"
  BY DoneStays
<1>1. ASSUME NEW c \in Client, ClientStep(c) PROVE RepliesOK'
  <2>1. CASE Begin(c)
    <3>1. CASE awaitingFirst
      BY <1>0, <2>1, <3>1, UntouchedReplies DEF Begin, StartRound, review
    <3>2. CASE ~awaitingFirst
      <4>1. SignalRound /\ phase' = phase /\ Running
        BY <2>1, <3>2 DEF Begin, StartRound
      <4> QED BY <4>1, SignalReplies DEF RepliesOK, ReplyIsPersisted, Running
    <3> QED BY <3>1, <3>2
  <2>2. CASE StopOnApproval(c)
    BY <1>0, <2>2 DEF StopOnApproval, review, RepliesOK, ReplyIsPersisted
  <2>3. CASE CleanupOnApproval(c)
    <3>1. call'[c] = "done" /\ phase = "dead" /\ phase' = "dead"
      BY <2>3 DEF CleanupOnApproval, GoTo, PlainTypes
    <3> QED BY <3>1 DEF RepliesOK, ReplyIsPersisted
  <2>4. CASE ~Begin(c) /\ ~StopOnApproval(c) /\ ~CleanupOnApproval(c)
    <3>1. UNCHANGED <<mem, disk, agent, phase>>
      BY <1>1, <2>4 DEF ClientStep, CallCrit, DaemonReady, DaemonFails, EnterCycle, Post, Receive,
                        Reply, GiveUp, review
    <3> QED BY <1>0, <3>1, UntouchedReplies
  <2> QED BY <2>1, <2>2, <2>3, <2>4
<1>2. ASSUME NEW t \in Tab, FinishStep(t) PROVE RepliesOK'
  <2>1. CASE FinishSaves(t)
    BY <1>0, <2>1, MergedReplies DEF FinishSaves, FinishAt, Running, clients, RepliesOK,
                                    ReplyIsPersisted
  <2>2. CASE ~FinishSaves(t)
    <3>1. UNCHANGED <<mem, disk, agent, phase>>
      BY <1>2, <2>2 DEF FinishStep, FinishAnswers, FinishFails, FinishCounts, FinishResponds,
                        FinishNotifies, review
    <3> QED BY <1>0, <3>1, UntouchedReplies
  <2> QED BY <2>1, <2>2
<1>3. ASSUME NEW c \in CommentId,
             AddComment(c) \/ ResolveComment(c) \/ AgentRequest(c) \/ AgentEnds(c)
      PROVE  RepliesOK'
  <2>1. disk' = disk /\ phase' = phase /\ phase \notin {"loading", "failed", "dead"}
    BY <1>3 DEF AddComment, ResolveComment, AgentRequest, AgentEnds, review, Serving, Running
  <2>2. ASSUME NEW x \in CommentId PROVE mem'[x].replied = mem[x].replied
    <3>1. mem' = mem \/ \E state \in States : mem' = [mem EXCEPT ![c].state = state]
      BY <1>3 DEF AddComment, ResolveComment, AgentRequest, AgentEnds, review, States
    <3> QED BY <3>1 DEF PlainTypes, Comments
  <2>3. ASSUME NEW x \in CommentId, agent'[x] = "replied" PROVE agent[x] = "replied"
    BY <1>3, <2>3 DEF AddComment, ResolveComment, AgentRequest, AgentEnds, PlainTypes
  <2> QED BY <1>0, <2>1, <2>2, <2>3 DEF RepliesOK, ReplyIsPersisted
<1>4. ASSUME NEW c \in CommentId, AgentReplies(c) PROVE RepliesOK'
  <2>1. phase' = phase /\ disk' = disk /\ phase \notin {"loading", "failed", "dead"}
    BY <1>4 DEF AgentReplies, Running
  <2>2. ASSUME NEW x \in CommentId, agent'[x] = "replied"
        PROVE  mem'[x].replied \/ (agent[x] = "replied" /\ mem'[x] = mem[x])
    <3>1. CASE x = c
      BY <1>4, <2>2, <3>1 DEF AgentReplies, PlainTypes, Comments
    <3>2. CASE x # c
      BY <1>4, <2>2, <3>2 DEF AgentReplies, PlainTypes
    <3> QED BY <3>1, <3>2
  <2> QED BY <1>0, <2>1, <2>2 DEF RepliesOK, ReplyIsPersisted
<1>5. CASE DebouncedSave \/ RoundHandled
  BY <1>0, <1>5, MergedReplies DEF DebouncedSave, RoundHandled, Running, RepliesOK, ReplyIsPersisted
<1>6. CASE RoundComplete
  BY <1>6, SignalReplies DEF RoundComplete, Serving, RepliesOK, ReplyIsPersisted
<1>7. CASE InitEnds
  BY <1>0, <1>7 DEF InitEnds, PhaseTo, review, RepliesOK, ReplyIsPersisted
<1>8. CASE FailedEnds
  BY <1>0, <1>8 DEF FailedEnds, PhaseTo, review, RepliesOK, ReplyIsPersisted
<1>9. CASE FinalSave
  BY <1>0, <1>9, MergedReplies DEF FinalSave, PhaseTo, RepliesOK, ReplyIsPersisted
<1>10. CASE StopRequested \/ ShutdownTold \/ Drained \/ ListenerCloses \/ BackgroundWaited
  BY <1>0, <1>10 DEF StopRequested, ShutdownTold, Drained, ListenerCloses, BackgroundWaited,
                    PhaseTo, review, RepliesOK, ReplyIsPersisted
<1>11. ASSUME NEW s \in Waiter \cup Tab, Connect(s) \/ Deliver(s) \/ Disconnect(s)
       PROVE  RepliesOK'
  <2>1. UNCHANGED <<mem, disk, agent, phase>>
    BY <1>11 DEF Connect, Deliver, Disconnect, review
  <2> QED BY <1>0, <2>1, UntouchedReplies
<1>12. CASE UNCHANGED vars
  <2>1. UNCHANGED <<mem, disk, agent, phase>>
    BY <1>12 DEF vars, review
  <2> QED BY <1>0, <2>1, UntouchedReplies
<1> QED BY <1>1, <1>2, <1>3, <1>4, <1>5, <1>6, <1>7, <1>8, <1>9, <1>10, <1>11, <1>12
        DEF Next, Daemon
-----------------------------------------------------------------------------
(* The invariant.                                                          *)

LEMMA InitCycle == Init => CycleInv
<1> SUFFICES ASSUME Init PROVE CycleInv
  OBVIOUS
<1>1. PlainTypes
  <2>1. NoFinish \in [at : {"idle", "saved", "counted", "responded"},
                      approved : BOOLEAN, left : SUBSET CommentId]
    BY DEF NoFinish
  <2>2. mem \in [CommentId -> Comments] /\ disk \in [CommentId -> Comments]
    BY AbsentTypes DEF Init
  <2>3. acts \in 0..MaxActs
    BY CycleAssumption DEF Init
  <2> QED BY <2>1, <2>2, <2>3 DEF Init, PlainTypes, Phases, CallPlaces
<1>2. ChannelsOK
  BY CycleAssumption, EventsOfNone DEF Init, ChannelsOK
<1>3. ConversationOK
  BY DEF Init, ConversationOK, Conversation, InHandler
<1>4. ShownOK
  BY EventsOfNone DEF Init, ShownOK, NoFinish
<1>5. RepliesOK
  BY DEF Init, RepliesOK, ReplyIsPersisted
<1> QED BY <1>1, <1>2, <1>3, <1>4, <1>5 DEF CycleInv

LEMMA NextCycle == CycleInv /\ [Next]_vars => CycleInv'
<1> SUFFICES ASSUME CycleInv, [Next]_vars PROVE CycleInv'
  OBVIOUS
<1> USE DEF CycleInv
<1>1. PlainTypes'
  <2>1. CASE UNCHANGED vars
    BY <2>1 DEF vars, review, conn, clients, tabs, PlainTypes
  <2>2. CASE Next
    BY <2>2, ClientTypes, FinishTypes, SessionTypes, OtherTypes DEF Next, SessionStep
  <2> QED BY <2>1, <2>2
<1>2. ChannelsOK' /\ ConversationOK'
  BY StepsInParts, ClientKeeps, NotifiesKeeps, OthersAside, AsideKeeps
<1>3. ShownOK'
  <2>1. ASSUME NEW c \in Client, ClientStep(c) PROVE ShownOK'
    <3>1. UNCHANGED tabs
      BY <2>1 DEF ClientStep, CallCrit, DaemonReady, DaemonFails, EnterCycle, Post, Begin, Receive,
                  Reply, GiveUp, StopOnApproval, CleanupOnApproval
    <3> QED BY <2>1, <3>1, ClientsSayNoFinish, HeldWasHeard, ShownStays
  <2>2. ASSUME NEW t \in Tab, FinishStep(t) PROVE ShownOK'
    BY <2>2, FinishShows
  <2>3. CASE Others /\ UNCHANGED tabs
    <3>1. NoNewFinish /\ UNCHANGED held
      BY <2>3, OthersAside, OthersSayNoFinish DEF Aside
    <3> QED BY <2>3, <3>1, ShownStays
  <2>4. CASE SessionStep \/ Daemon \/ UNCHANGED vars
             \/ \E s \in Waiter \cup Tab : Connect(s) \/ Deliver(s) \/ Disconnect(s)
    <3>1. UNCHANGED tabs
      BY <2>4 DEF SessionStep, AddComment, ResolveComment, AgentRequest, AgentReplies, AgentEnds,
                  DebouncedSave, RoundHandled, RoundComplete, Daemon, InitEnds, FailedEnds,
                  StopRequested, ShutdownTold, Drained, ListenerCloses, BackgroundWaited, FinalSave,
                  Connect, Deliver, Disconnect, vars
    <3> QED BY <2>3, <2>4, <3>1 DEF Others
  <2> QED BY <2>1, <2>2, <2>4 DEF Next, SessionStep
<1>4. RepliesOK'
  BY RepliesKept
<1> QED BY <1>1, <1>2, <1>3, <1>4

LEMMA InvServes == CycleInv => WaitersAreServed
<1> SUFFICES ASSUME CycleInv PROVE WaitersAreServed
  OBVIOUS
<1>1. TypeOK /\ ReplyIsPersisted
  BY TypesInParts DEF CycleInv, RepliesOK
<1>2. FinishReachesClient
  BY HasEvent DEF CycleInv, ConversationOK, Conversation, FinishReachesClient
<1>3. VerdictWasShown
  BY DEF CycleInv, ShownOK, Seen, VerdictWasShown
<1> QED BY <1>1, <1>2, <1>3 DEF WaitersAreServed

(* Whoever waits hears of a finish, unless its channel was full; no agent  *)
(* holds a verdict before the tab that gave it has its answer; no accepted *)
(* reply is lost when the daemon ends: for any numbers of agents, tabs and *)
(* comments.                                                               *)
THEOREM CycleServes == Spec => []WaitersAreServed
BY InitCycle, NextCycle, InvServes, PTL DEF Spec
-----------------------------------------------------------------------------
(* ReviewCycle implements ReviewVerdict.                                   *)

Asking == {c \in Client : call[c] \in {"poll", "post"} \cup InHandler}
Outcome == [c \in Client |-> IF call[c] \in {"replying", "denied"} THEN {} ELSE held[c]]

(* Clients' steps: asking, being answered and being denied.                *)
LEMMA ClientRefines ==
  ASSUME CycleInv, NEW c \in Client, ClientStep(c)
  PROVE  Verdict!Next \/ UNCHANGED Verdict!vars
<1> USE DEF GoTo
<1>0. /\ call \in [Client -> CallPlaces] /\ Conversation(c)
      /\ held \in [Client -> SUBSET Verdicts] /\ given \in [Client -> SUBSET Verdicts]
  BY DEF CycleInv, PlainTypes, ConversationOK
<1>a. ASSUME UNCHANGED <<Asking, given, Outcome>> PROVE UNCHANGED Verdict!vars
  BY <1>a DEF Verdict!vars, Asking, Outcome
<1>b. ASSUME c \in Asking, Asking' = Asking \ {c}, UNCHANGED <<given, Outcome>>
      PROVE  Verdict!Next
  BY <1>b DEF Verdict!Next, Verdict!Deny, Asking, Outcome
<1>1. CASE CallCrit(c)
  <2>1. c \notin Asking /\ Asking' = Asking \cup {c}
    BY <1>0, <1>1 DEF CallCrit, Asking, CallPlaces, InHandler
  <2>2. given' = [given EXCEPT ![c] = {}] /\ Outcome' = [Outcome EXCEPT ![c] = {}]
    BY <1>0, <1>1 DEF CallCrit, Outcome
  <2> QED BY <2>1, <2>2 DEF Verdict!Next, Verdict!Ask, Asking, Outcome
<1>2. CASE DaemonReady(c) \/ Post(c) \/ Begin(c) \/ StopOnApproval(c) \/ CleanupOnApproval(c)
  <2>1. UNCHANGED <<Asking, given, Outcome>>
    BY <1>0, <1>2 DEF DaemonReady, Post, Begin, StopOnApproval, CleanupOnApproval, Asking, Outcome,
                      InHandler, CallPlaces
  <2> QED BY <2>1, <1>a
<1>3. ASSUME Deny(c), call[c] \in {"poll", "post"} \cup InHandler PROVE Verdict!Next
  <2>1. c \in Asking /\ Asking' = Asking \ {c} /\ given' = given
    BY <1>0, <1>3 DEF Deny, Asking, InHandler, CallPlaces
  <2>2. Outcome' = Outcome
    BY <1>0, <1>3 DEF Deny, Outcome, Conversation, InHandler
  <2> QED BY <2>1, <2>2, <1>b
<1>4. CASE DaemonFails(c) \/ GiveUp(c)
  BY <1>3, <1>4 DEF DaemonFails, GiveUp
<1>5. CASE Receive(c)
  <2>1. CASE Deny(c)
    BY <1>3, <1>5, <2>1 DEF Receive, InHandler
  <2>2. CASE UNCHANGED clients
    BY <2>2, <1>a DEF clients, Asking, Outcome
  <2>3. CASE call' = [call EXCEPT ![c] = "replying"] /\ UNCHANGED given
             /\ \E hs : held' = [held EXCEPT ![c] = hs]
    <3>1. UNCHANGED <<Asking, given, Outcome>>
      BY <1>0, <1>5, <2>3 DEF Receive, Asking, Outcome, Conversation, InHandler, CallPlaces
    <3> QED BY <3>1, <1>a
  <2> QED BY <1>5, <2>1, <2>2, <2>3 DEF Receive
<1>6. CASE Reply(c)
  <2>1. c \in Asking /\ Asking' = Asking \ {c} /\ given' = given
    BY <1>0, <1>6 DEF Reply, Asking, InHandler, CallPlaces
  <2>2. PICK v \in given[c] : held[c] = {v}
    BY <1>0, <1>6 DEF Reply, Conversation
  <2>3. Outcome' = [Outcome EXCEPT ![c] = {v}]
    BY <1>0, <1>6, <2>2 DEF Reply, Outcome
  <2> QED BY <2>1, <2>2, <2>3 DEF Verdict!Next, Verdict!Answer, Asking, Outcome
<1> QED BY <1>1, <1>2, <1>4, <1>5, <1>6 DEF ClientStep, EnterCycle

LEMMA StepRefines == CycleInv /\ [Next]_vars => [Verdict!Next]_(Verdict!vars)
<1> SUFFICES ASSUME CycleInv, [Next]_vars PROVE Verdict!Next \/ UNCHANGED Verdict!vars
  OBVIOUS
<1>1. ASSUME NEW t \in Tab, FinishNotifies(t) PROVE Verdict!Next
  <2> DEFINE v == [by |-> t, approved |-> finish[t].approved]
             heard == {c \in Client : call[c] \in {"subscribed", "waiting"}}
  <2>1. v \in Verdict!Verdict
    BY DEF CycleInv, PlainTypes, Verdict!Verdict
  <2>2. heard \in SUBSET Asking
    BY DEF Asking, InHandler
  <2>3. given' = [c \in Client |-> given[c] \cup IF c \in heard THEN {v} ELSE {}]
    BY <1>1 DEF FinishNotifies, GiveTo
  <2>4. UNCHANGED <<Asking, Outcome>>
    BY <1>1 DEF FinishNotifies, Asking, Outcome
  <2> HIDE DEF v, heard
  <2>5. Verdict!Give(v, heard)
    BY <2>2, <2>3, <2>4 DEF Verdict!Give, Asking, Outcome
  <2> QED BY <2>1, <2>2, <2>5 DEF Verdict!Next, Asking
<1>2. CASE Others
  BY <1>2, OthersAside DEF Aside, Verdict!vars
<1> QED BY <1>1, <1>2, ClientRefines, StepsInParts

(* No agent takes a shutdown, an error or a verdict from before it asked   *)
(* for the reviewer's, whoever else asks, finishes, gives up or stops the  *)
(* daemon.                                                                 *)
THEOREM VerdictImplemented == Spec => ImplementsReviewVerdict
<1>1. Init => Verdict!Init
  BY DEF Init, Verdict!Init, InHandler
<1> QED
  BY <1>1, InitCycle, NextCycle, StepRefines, PTL DEF Spec, ImplementsReviewVerdict, Verdict!Spec
=============================================================================
