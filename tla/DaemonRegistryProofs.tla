------------------------ MODULE DaemonRegistryProofs ------------------------
(***************************************************************************)
(* For any number of clients and daemons of a key: a daemon that serves is *)
(* the registered one, a client is told of the daemon it has started, and  *)
(* an approved review is cleaned up when nobody has it loaded.             *)
(*                                                                         *)
(* Most steps leave the registry as it is or empty it, and bring no daemon *)
(* up; for those it is enough to look at the client that moves.  The two   *)
(* that bring one up, Spawn and Register, happen under the lock of one     *)
(* client, unless that client is dead.                                     *)
(***************************************************************************)
EXTENDS DaemonRegistry, TLAPS

(* An entry that a client has read, or that is on disk, is of a daemon that *)
(* was started, and whoever acts on an entry has one.                      *)
HasEntry ==
  {"probe", "probe again", "release", "joined", "connected", "request", "interrupt", "unanswered",
   "terminate", "terminate and exit", "wait", "owned", "lock to clean", "check", "clean up"}
EntryOK(c) ==
  /\ saw[c] # None => life[saw[c]] # "unborn"
  /\ pc[c] \in HasEntry => saw[c] # None
FileOK == file # None => life[file] # "unborn"
ReadyOK == \A d \in ready : life[d] \notin {"unborn", "starting"}

(* A client starts one daemon, with nobody else's registered, and nobody   *)
(* but a daemon whose starter is dead registers while it waits for it.     *)
BeforeSpawn ==
  {"find", "probe", "remove", "lock", "find again", "probe again", "remove again", "spawn"}
StartOK(c) ==
  /\ pc[c] \in BeforeSpawn => started[c] = None
  /\ pc[c] = "spawn" => \A d \in Daemon : Registered(d) => d \in orphaned
  /\ pc[c] = "await" =>
       /\ started[c] # None /\ life[started[c]] # "unborn"
       /\ file \in {None, started[c]} \cup orphaned
ToldOK(c) ==
  started[c] # None /\ pc[c] \in {"release", "connected"} =>
    saw[c] = started[c] \/ saw[c] \in orphaned

(* Who comes to clean up has seen the daemon exit, and is alone.           *)
CleanOK(c) ==
  /\ pc[c] \in {"lock to clean", "check", "clean up"} => life[saw[c]] = "dead"
  /\ pc[c] = "clean up" =>
       \A d \in Daemon : Registered(d) \/ life[d] = "starting" => d \in orphaned

(* A daemon that starts has somebody waiting for it under the lock.        *)
StarterWaits(d) ==
  life[d] = "starting" => d \in orphaned \/ \E c \in Client : started[c] = d /\ pc[c] = "await"
RegisteredOK(d) == Registered(d) => d \in orphaned \/ file = d

ClientOK(c) == EntryOK(c) /\ StartOK(c) /\ ToldOK(c) /\ CleanOK(c)
DaemonOK(d) == StarterWaits(d) /\ RegisteredOK(d)
RegistryInv ==
  /\ TypeOK /\ FileOK /\ ReadyOK
  /\ \A c \in Client : ClientOK(c)
  /\ \A d \in Daemon : DaemonOK(d)
-----------------------------------------------------------------------------
(* What all steps but Spawn and Register do to the daemons.                *)
Onward ==
  /\ orphaned \subseteq orphaned'
  /\ \A d \in Daemon :
       /\ life[d] # "unborn" => life'[d] # "unborn"
       /\ life[d] = "dead" => life'[d] = "dead"
NoneComesUp ==
  \A d \in Daemon :
    /\ life'[d] = "starting" => life[d] = "starting"
    /\ Registered(d)' => Registered(d)
FileLeft ==
  file' = file \/ (file' = None /\ \A d \in Daemon : d = file /\ Registered(d)' => d \in orphaned')
ReadyLeft == \A d \in ready' : d \in ready \/ life'[d] \notin {"unborn", "starting"}
Quiet == Onward /\ NoneComesUp /\ FileLeft /\ ReadyLeft

Still(q) == pc'[q] = pc[q] /\ saw'[q] = saw[q] /\ started'[q] = started[q]
OnlyMoves(c) == \A q \in Client \ {c} : Still(q)

LEMMA Others ==
  ASSUME RegistryInv, Quiet, NEW q \in Client, Still(q)
  PROVE  ClientOK(q)'
<1>1. ClientOK(q) /\ saw[q] \in Daemon \cup {None} /\ started[q] \in Daemon \cup {None}
  BY DEF RegistryInv, TypeOK
<1>2. EntryOK(q)'
  BY <1>1 DEF ClientOK, EntryOK, Quiet, Onward, Still
<1>3. StartOK(q)'
  BY <1>1 DEF ClientOK, StartOK, Quiet, Onward, NoneComesUp, FileLeft, Still
<1>4. ToldOK(q)'
  BY <1>1 DEF ClientOK, ToldOK, Quiet, Onward, Still
<1>5. CleanOK(q)'
  <2>1. pc[q] \in {"lock to clean", "check", "clean up"} => saw[q] \in Daemon
    BY <1>1 DEF ClientOK, EntryOK, HasEntry
  <2> QED BY <1>1, <2>1 DEF ClientOK, CleanOK, Quiet, Onward, NoneComesUp, Still
<1> QED BY <1>2, <1>3, <1>4, <1>5 DEF ClientOK

(* A client stops waiting for a daemon when that is up, dead, or orphaned. *)
LetsGo(q) ==
  pc[q] = "await" =>
    \/ pc'[q] = "await" /\ started'[q] = started[q]
    \/ life'[started[q]] # "starting"
    \/ started[q] \in orphaned'

LEMMA Daemons ==
  ASSUME RegistryInv, TypeOK', Quiet, \A q \in Client : LetsGo(q)
  PROVE  FileOK' /\ ReadyOK' /\ \A d \in Daemon : DaemonOK(d)'
<1>1. FileOK'
  BY DEF RegistryInv, TypeOK, FileOK, Quiet, Onward, FileLeft
<1>2. ASSUME NEW d \in Daemon PROVE StarterWaits(d)'
  <2>1. StarterWaits(d)
    BY DEF RegistryInv, DaemonOK
  <2> QED BY <2>1 DEF StarterWaits, LetsGo, Quiet, Onward, NoneComesUp
<1>3. ASSUME NEW d \in Daemon PROVE RegisteredOK(d)'
  <2>1. RegisteredOK(d)
    BY DEF RegistryInv, DaemonOK
  <2> QED BY <2>1 DEF RegisteredOK, Quiet, Onward, NoneComesUp, FileLeft
<1>4. ReadyOK'
  BY DEF RegistryInv, TypeOK, ReadyOK, Quiet, Onward, NoneComesUp, ReadyLeft
<1> QED BY <1>1, <1>2, <1>3, <1>4 DEF DaemonOK

LEMMA ClientMoves ==
  ASSUME RegistryInv, NEW c \in Client, TypeOK', Quiet, OnlyMoves(c), LetsGo(c), ClientOK(c)'
  PROVE  RegistryInv'
<1>1. \A q \in Client : ClientOK(q)'
  BY Others DEF OnlyMoves
<1>2. \A q \in Client : LetsGo(q)
  BY DEF OnlyMoves, Still, LetsGo
<1> QED BY <1>1, <1>2, Daemons DEF RegistryInv

LEMMA DaemonMoves ==
  ASSUME RegistryInv, TypeOK', Quiet, UNCHANGED <<pc, saw, started>>
  PROVE  RegistryInv'
<1>1. \A q \in Client : Still(q) /\ LetsGo(q)
  BY DEF Still, LetsGo
<1> QED BY <1>1, Others, Daemons DEF RegistryInv

(* A step of one client from one label to another.                         *)
LEMMA Going ==
  ASSUME TypeOK, NEW c \in Client, NEW l \in Labels, Goto(c, l)
  PROVE  /\ pc' \in [Client -> Labels] /\ pc'[c] = l
         /\ \A q \in Client \ {c} : pc'[q] = pc[q]
BY DEF TypeOK, Goto

(* Such a step takes the lock, gives it back, or stays on its side.        *)
LEMMA LockKept ==
  ASSUME TypeOK, NEW c \in Client, NEW l \in Labels, Goto(c, l),
         lock' \in Client \cup {None},
         l \in Locked <=> lock' = c,
         \A q \in Client \ {c} : lock' = q <=> lock = q
  PROVE  \A q \in Client : pc'[q] \in Locked <=> lock' = q
BY Going DEF TypeOK

LEMMA Become ==
  ASSUME TypeOK, NEW d \in Daemon, NEW s \in Lives, Becomes(d, s)
  PROVE  /\ life' \in [Daemon -> Lives] /\ life'[d] = s
         /\ \A e \in Daemon \ {d} : life'[e] = life[e]
BY DEF TypeOK, Becomes
-----------------------------------------------------------------------------
(* Daemons on their own.                                                   *)

LEMMA DaemonStepKeeps ==
  ASSUME RegistryInv, NEW d \in Daemon,
         SignalReadiness(d) \/ CreateSession(d) \/ Unregister(d) \/ Drain(d) \/ Exit(d)
  PROVE  RegistryInv'
<1> TypeOK
  BY DEF RegistryInv
<1>1. CASE SignalReadiness(d)
  <2>1. TypeOK'
    BY <1>1 DEF SignalReadiness, TypeOK
  <2>2. Quiet
    BY <1>1 DEF SignalReadiness, Quiet, Onward, NoneComesUp, FileLeft, ReadyLeft, Registered
  <2> QED BY <1>1, <2>1, <2>2, DaemonMoves DEF SignalReadiness
<1>2. CASE CreateSession(d) \/ Drain(d) \/ Exit(d)
  <2>1. PICK s \in Lives : Becomes(d, s) /\ s \notin {"unborn", "starting", "init", "doomed"}
                           /\ (s \in {"serving", "stopping"} => Registered(d)) /\ life[d] # "dead"
    BY <1>2 DEF CreateSession, Drain, Exit, Lives, Registered, Running
  <2>2. life' \in [Daemon -> Lives] /\ life'[d] = s /\ \A e \in Daemon \ {d} : life'[e] = life[e]
    BY <2>1, Become
  <2>3. UNCHANGED <<fixedPort, file, lock, ready, pc, saw, started, orphaned>>
    BY <1>2 DEF CreateSession, Drain, Exit
  <2>4. TypeOK'
    BY <2>2, <2>3 DEF TypeOK
  <2>5. Quiet
    BY <2>1, <2>2, <2>3 DEF Quiet, Onward, NoneComesUp, FileLeft, ReadyLeft, Registered
  <2> QED BY <2>3, <2>4, <2>5, DaemonMoves
<1>3. CASE Unregister(d)
  <2>1. life[d] = "stopping" /\ life' \in [Daemon -> Lives] /\ life'[d] = "leaving"
        /\ \A e \in Daemon \ {d} : life'[e] = life[e]
    BY <1>3, Become DEF Unregister, Lives
  <2>2. file' = None /\ orphaned' = orphaned \cup ({file} \ {d, None})
        /\ UNCHANGED <<fixedPort, lock, ready, pc, saw, started>>
    BY <1>3 DEF Unregister
  <2>3. TypeOK'
    BY <2>1, <2>2 DEF TypeOK
  <2>4. Quiet
    BY <2>1, <2>2, RegistryAssumption DEF Quiet, Onward, NoneComesUp, FileLeft, ReadyLeft, Registered
  <2> QED BY <2>2, <2>3, <2>4, DaemonMoves
<1> QED BY <1>1, <1>2, <1>3
-----------------------------------------------------------------------------
(* Clients that look and decide, and leave everything else as it is.       *)

Cleaning == {"lock to clean", "check", "clean up"}

LEMMA OnlyGoes ==
  ASSUME RegistryInv, NEW c \in Client, NEW l \in Labels, Goto(c, l),
         UNCHANGED <<fixedPort, file, lock, life, ready, saw, started, orphaned>>,
         l \in Locked <=> pc[c] \in Locked,
         l \in HasEntry => pc[c] \in HasEntry,
         l \in BeforeSpawn => pc[c] \in BeforeSpawn,
         l \in {"release", "connected"} => pc[c] \in BeforeSpawn,
         l \in Cleaning => pc[c] \in Cleaning,
         l = "clean up" => file \in {None, saw[c]},
         l \notin {"spawn", "await"}, pc[c] # "await"
  PROVE  RegistryInv'
<1> TypeOK /\ ClientOK(c)
  BY DEF RegistryInv
<1>1. pc' \in [Client -> Labels] /\ pc'[c] = l /\ \A q \in Client \ {c} : pc'[q] = pc[q]
  BY Going
<1>2. TypeOK'
  <2>1. \A q \in Client : pc'[q] \in Locked <=> lock' = q
    BY <1>1 DEF TypeOK
  <2> QED BY <1>1, <2>1 DEF TypeOK
<1>3. Quiet
  BY DEF Quiet, Onward, NoneComesUp, FileLeft, ReadyLeft, Registered
<1>4. EntryOK(c)' /\ StartOK(c)' /\ ToldOK(c)'
  BY <1>1 DEF ClientOK, EntryOK, StartOK, ToldOK
<1>5. CleanOK(c)'
  <2>1. life'[saw'[c]] = "dead" \/ l \notin Cleaning
    BY DEF ClientOK, CleanOK, Cleaning
  <2>2. ASSUME l = "clean up", NEW d \in Daemon, Registered(d) \/ life[d] = "starting"
        PROVE  d \in orphaned
    <3>1. lock = c /\ life[saw[c]] = "dead"
      BY <2>2 DEF TypeOK, Locked, ClientOK, CleanOK, Cleaning
    <3>2. CASE Registered(d)
      <4>1. d # saw[c]
        BY <3>1, <3>2 DEF Registered
      <4>2. d \in orphaned \/ file = d
        BY <3>2 DEF RegistryInv, DaemonOK, RegisteredOK
      <4> QED BY <2>2, <4>1, <4>2, RegistryAssumption
    <3>3. CASE life[d] = "starting"
      <4>1. ASSUME NEW q \in Client, pc[q] = "await" PROVE FALSE
        BY <3>1, <4>1 DEF TypeOK, Locked
      <4> QED BY <3>3, <4>1 DEF RegistryInv, DaemonOK, StarterWaits
    <3> QED BY <2>2, <3>2, <3>3
  <2> QED BY <1>1, <2>1, <2>2 DEF CleanOK, Cleaning, Registered
<1>6. OnlyMoves(c) /\ LetsGo(c)
  BY <1>1 DEF OnlyMoves, Still, LetsGo
<1> QED BY <1>2, <1>3, <1>4, <1>5, <1>6, ClientMoves DEF ClientOK

LEMMA LooksKeep ==
  ASSUME RegistryInv, NEW c \in Client,
         Probe(c) \/ LockTimesOut(c) \/ Finish(c) \/ Unanswered(c) \/ CheckOwner(c)
           \/ CheckTakenOver(c) \/ CleanUp(c)
  PROVE  RegistryInv'
<1>1. CASE Probe(c)
  <2>1. \/ pc[c] = "probe" /\ Goto(c, "remove")
        \/ pc[c] = "probe again" /\ Goto(c, "remove again")
        \/ pc[c] = "probe again" /\ Goto(c, "release")
        \/ pc[c] = "probe" /\ Goto(c, "request")
        \/ pc[c] = "probe" /\ Goto(c, "joined")
    BY <1>1 DEF Probe
  <2> QED BY <1>1, <2>1, OnlyGoes DEF Probe, Labels, Locked, HasEntry, BeforeSpawn, Cleaning
<1>2. CASE LockTimesOut(c)
  BY <1>2, OnlyGoes DEF LockTimesOut, Labels, Locked, HasEntry, BeforeSpawn, Cleaning
<1>3. CASE Finish(c)
  BY <1>3, OnlyGoes DEF Finish, Labels, Locked, HasEntry, BeforeSpawn, Cleaning
<1>4. CASE Unanswered(c)
  <2>1. pc[c] = "unanswered" /\ (Goto(c, "terminate") \/ Goto(c, "wait") \/ Goto(c, "done"))
    BY <1>4 DEF Unanswered
  <2> QED BY <1>4, <2>1, OnlyGoes DEF Unanswered, Labels, Locked, HasEntry, BeforeSpawn, Cleaning
<1>5. CASE CheckOwner(c)
  <2>1. pc[c] = "owned" /\ (Goto(c, "remove own") \/ Goto(c, "done"))
    BY <1>5 DEF CheckOwner
  <2> QED BY <1>5, <2>1, OnlyGoes DEF CheckOwner, Labels, Locked, HasEntry, BeforeSpawn, Cleaning
<1>6. CASE CheckTakenOver(c)
  <2>1. /\ pc[c] = "check"
        /\ (Goto(c, "clean up") /\ file \in {None, saw[c]}) \/ Goto(c, "give up")
    BY <1>6 DEF CheckTakenOver, NotTakenOver
  <2> QED BY <1>6, <2>1, OnlyGoes DEF CheckTakenOver, Labels, Locked, HasEntry, BeforeSpawn, Cleaning
<1>7. CASE CleanUp(c)
  BY <1>7, OnlyGoes DEF CleanUp, Labels, Locked, HasEntry, BeforeSpawn, Cleaning
<1> QED BY <1>1, <1>2, <1>3, <1>4, <1>5, <1>6, <1>7
-----------------------------------------------------------------------------
(* Clients that change something.                                          *)

(* What is left to show when a client goes and takes or keeps the lock.    *)
LEMMA Typed ==
  ASSUME TypeOK, NEW c \in Client, NEW l \in Labels, Goto(c, l),
         lock' \in {lock, c, None}, lock \in {c, None} \/ lock' = lock,
         l \in Locked <=> lock' = c,
         fixedPort' = fixedPort, ready' = ready, file' \in Daemon \cup {None},
         life' \in [Daemon -> Lives], orphaned' \subseteq Daemon,
         saw' \in [Client -> Daemon \cup {None}], started' \in [Client -> Daemon \cup {None}]
  PROVE  TypeOK'
<1>1. \A q \in Client \ {c} : lock' = q <=> lock = q
  BY RegistryAssumption
<1>2. lock' \in Client \cup {None}
  BY DEF TypeOK
<1>3. \A q \in Client : pc'[q] \in Locked <=> lock' = q
  BY <1>1, <1>2, LockKept
<1> QED BY <1>2, <1>3, Going DEF TypeOK

LEMMA ReadEntryKeeps ==
  ASSUME RegistryInv, NEW c \in Client, ReadEntry(c) PROVE RegistryInv'
<1> TypeOK /\ ClientOK(c)
  BY DEF RegistryInv
<1>0. UNCHANGED <<fixedPort, file, lock, life, ready, started, orphaned>>
  BY DEF ReadEntry
<1>1. PICK l \in Labels :
        /\ Goto(c, l)
        /\ \/ pc[c] = "find" /\ l \in {"done", "lock", "probe"}
           \/ pc[c] = "find again" /\ l \in {"spawn", "probe again"}
        /\ l \in {"probe", "probe again"} => file # None /\ saw' = [saw EXCEPT ![c] = file]
        /\ l \notin {"probe", "probe again"} => file = None /\ saw' = saw
  BY DEF ReadEntry, Labels, Locked
<1>2. pc'[c] = l /\ \A q \in Client \ {c} : pc'[q] = pc[q]
  BY <1>1, Going
<1>3. saw' \in [Client -> Daemon \cup {None}] /\ \A q \in Client \ {c} : saw'[q] = saw[q]
  BY <1>1 DEF TypeOK
<1>4. TypeOK'
  <2>1. l \in Locked <=> lock' = c
    BY <1>0, <1>1 DEF TypeOK, Locked
  <2> QED BY <1>0, <1>1, <1>3, <2>1, Typed DEF TypeOK
<1>5. Quiet
  BY <1>0 DEF Quiet, Onward, NoneComesUp, FileLeft, ReadyLeft, Registered
<1>6. EntryOK(c)'
  <2>1. saw'[c] = saw[c] \/ (saw'[c] = file /\ file # None)
    BY <1>1 DEF TypeOK
  <2>2. file # None => life[file] # "unborn"
    BY DEF RegistryInv, FileOK
  <2>3. l \in HasEntry => saw'[c] # None
    BY <1>1 DEF HasEntry, TypeOK
  <2> QED BY <1>0, <1>2, <2>1, <2>2, <2>3 DEF ClientOK, EntryOK
<1>7. StartOK(c)'
  <2>1. started'[c] = None
    BY <1>0, <1>1 DEF ClientOK, StartOK, BeforeSpawn
  <2>2. l = "spawn" => \A d \in Daemon : Registered(d) => d \in orphaned
    BY <1>1, RegistryAssumption DEF RegistryInv, DaemonOK, RegisteredOK
  <2> QED BY <1>0, <1>1, <1>2, <2>1, <2>2 DEF StartOK, Registered
<1>8. ToldOK(c)' /\ CleanOK(c)'
  BY <1>1, <1>2 DEF ToldOK, CleanOK
<1>9. OnlyMoves(c) /\ LetsGo(c)
  BY <1>0, <1>1, <1>2, <1>3 DEF OnlyMoves, Still, LetsGo
<1> QED BY <1>4, <1>5, <1>6, <1>7, <1>8, <1>9, ClientMoves DEF ClientOK

LEMMA RemoveEntryKeeps ==
  ASSUME RegistryInv, NEW c \in Client, RemoveEntry(c) PROVE RegistryInv'
<1> TypeOK /\ ClientOK(c)
  BY DEF RegistryInv
<1>0. /\ file' = None /\ orphaned' = orphaned \cup {d \in Daemon : d = file /\ Running(d)}
      /\ UNCHANGED <<fixedPort, lock, life, ready, saw, started>>
  BY DEF RemoveEntry
<1>1. PICK l \in Labels :
        /\ Goto(c, l)
        /\ \/ pc[c] = "remove" /\ l \in {"lock", "done"}
           \/ pc[c] = "remove again" /\ l = "spawn"
           \/ pc[c] = "remove own" /\ l = "done"
  BY DEF RemoveEntry, Labels, Locked
<1>2. pc'[c] = l /\ \A q \in Client \ {c} : pc'[q] = pc[q]
  BY <1>1, Going
<1>3. TypeOK'
  <2>1. l \in Locked <=> lock' = c
    BY <1>0, <1>1 DEF TypeOK, Locked
  <2> QED BY <1>0, <1>1, <2>1, Typed DEF TypeOK
<1>4. Quiet
  BY <1>0 DEF Quiet, Onward, NoneComesUp, FileLeft, ReadyLeft, Registered, Running
<1>5. EntryOK(c)'
  BY <1>0, <1>1, <1>2 DEF ClientOK, EntryOK, HasEntry
<1>6. StartOK(c)'
  <2>1. l \in BeforeSpawn => started'[c] = None
    BY <1>0, <1>1 DEF ClientOK, StartOK, BeforeSpawn
  <2>2. \A d \in Daemon : Registered(d)' => d \in orphaned'
    BY <1>0 DEF RegistryInv, DaemonOK, RegisteredOK, Registered, Running
  <2> QED BY <1>1, <1>2, <2>1, <2>2 DEF StartOK
<1>7. ToldOK(c)' /\ CleanOK(c)'
  BY <1>1, <1>2 DEF ToldOK, CleanOK
<1>8. OnlyMoves(c) /\ LetsGo(c)
  BY <1>0, <1>1, <1>2 DEF OnlyMoves, Still, LetsGo
<1> QED BY <1>3, <1>4, <1>5, <1>6, <1>7, <1>8, ClientMoves DEF ClientOK

LEMMA LockStepKeeps ==
  ASSUME RegistryInv, NEW c \in Client, AcquireSessionLock(c) \/ ReleaseSessionLock(c)
  PROVE  RegistryInv'
<1> TypeOK /\ ClientOK(c)
  BY DEF RegistryInv
<1>0. UNCHANGED <<fixedPort, file, life, ready, saw, started, orphaned>>
  BY DEF AcquireSessionLock, ReleaseSessionLock
<1>1. PICK l \in Labels :
        /\ Goto(c, l)
        /\ \/ pc[c] = "lock" /\ l = "find again" /\ lock = None /\ lock' = c
           \/ pc[c] = "lock to clean" /\ l = "check" /\ lock = None /\ lock' = c
           \/ pc[c] = "release" /\ l = "connected" /\ lock' = None
           \/ pc[c] = "give up" /\ l = "done" /\ lock' = None
  BY DEF AcquireSessionLock, ReleaseSessionLock, Labels, Locked
<1>2. pc'[c] = l /\ \A q \in Client \ {c} : pc'[q] = pc[q]
  BY <1>1, Going
<1>3. TypeOK'
  <2>1. l \in Locked <=> lock' = c
    BY <1>1, RegistryAssumption DEF Locked
  <2>2. lock \in {c, None}
    BY <1>1 DEF TypeOK, Locked
  <2> QED BY <1>0, <1>1, <2>1, <2>2, Typed DEF TypeOK
<1>4. Quiet
  BY <1>0 DEF Quiet, Onward, NoneComesUp, FileLeft, ReadyLeft, Registered
<1>5. ClientOK(c)'
  <2>1. EntryOK(c)'
    BY <1>0, <1>1, <1>2 DEF ClientOK, EntryOK, HasEntry
  <2>2. StartOK(c)'
    BY <1>0, <1>1, <1>2 DEF ClientOK, StartOK, BeforeSpawn
  <2>3. ToldOK(c)' /\ CleanOK(c)'
    BY <1>0, <1>1, <1>2 DEF ClientOK, ToldOK, CleanOK
  <2> QED BY <2>1, <2>2, <2>3 DEF ClientOK
<1>6. OnlyMoves(c) /\ LetsGo(c)
  BY <1>0, <1>1, <1>2 DEF OnlyMoves, Still, LetsGo
<1> QED BY <1>3, <1>4, <1>5, <1>6, ClientMoves

(* A client that stops or kills a daemon.                                  *)
Declines(d) ==
  \/ life' = life
  \/ \E s \in {"doomed", "stopping", "dead"} :
       Becomes(d, s) /\ (s # "dead" => Registered(d)) 

LEMMA Declining ==
  ASSUME TypeOK, NEW d \in Daemon, Declines(d), UNCHANGED <<file, ready, orphaned>>
  PROVE  Quiet /\ life' \in [Daemon -> Lives]
<1>1. CASE life' = life
  BY <1>1 DEF TypeOK, Quiet, Onward, NoneComesUp, FileLeft, ReadyLeft, Registered
<1>2. CASE life' # life
  <2>1. PICK s \in {"doomed", "stopping", "dead"} : Becomes(d, s) /\ (s # "dead" => Registered(d))
    BY <1>2 DEF Declines
  <2>2. s \in Lives
    BY DEF Lives
  <2>3. life' \in [Daemon -> Lives] /\ life'[d] = s /\ \A e \in Daemon \ {d} : life'[e] = life[e]
    BY <2>1, <2>2, Become
  <2> QED BY <2>1, <2>3 DEF Quiet, Onward, NoneComesUp, FileLeft, ReadyLeft, Registered
<1> QED BY <1>1, <1>2

LEMMA StoppingDeclines ==
  ASSUME NEW d \in Daemon, Stopping(d) PROVE Declines(d)
BY DEF Stopping, Declines, Registered

LEMMA StopStepKeeps ==
  ASSUME RegistryInv, NEW c \in Client, RequestShutdown(c) \/ Terminate(c) \/ WaitOrKill(c)
  PROVE  RegistryInv'
<1> TypeOK /\ ClientOK(c)
  BY DEF RegistryInv
<1>0. UNCHANGED <<fixedPort, file, lock, ready, saw, started, orphaned>>
  BY DEF RequestShutdown, Terminate, WaitOrKill
<1>1. PICK l \in Labels :
        /\ Goto(c, l)
        /\ pc[c] \in {"request", "interrupt", "terminate", "terminate and exit", "wait"}
        /\ l \in {"wait", "unanswered", "terminate and exit", "owned", "lock to clean", "done"}
        /\ l = "lock to clean" =>
             pc[c] = "wait" /\ (Becomes(saw[c], "dead") \/ (~Running(saw[c]) /\ life' = life))
  <2>1. CASE RequestShutdown(c)
    <3>1. /\ pc[c] \in {"request", "interrupt"}
          /\ \E l \in {"wait", "unanswered", "terminate and exit", "owned", "done"} : Goto(c, l)
      BY <2>1, Zenon DEF RequestShutdown
    <3> QED BY <3>1 DEF Labels
  <2>2. CASE Terminate(c)
    <3>1. /\ pc[c] \in {"terminate", "terminate and exit"}
          /\ \E l \in {"wait", "done"} : Goto(c, l)
      BY <2>2, Zenon DEF Terminate
    <3> QED BY <3>1 DEF Labels
  <2>3. CASE WaitOrKill(c)
    <3>1. pc[c] = "wait" /\ (Goto(c, "done") \/ Goto(c, "owned") \/ Goto(c, "lock to clean"))
      BY <2>3 DEF WaitOrKill
    <3>2. Goto(c, "lock to clean") => Becomes(saw[c], "dead") \/ (~Running(saw[c]) /\ life' = life)
      <4> SUFFICES ASSUME Goto(c, "lock to clean")
                   PROVE  Becomes(saw[c], "dead") \/ (~Running(saw[c]) /\ life' = life)
        OBVIOUS
      <4>1. ~Goto(c, "done")
        BY DEF Goto, TypeOK
      <4> QED BY <2>3, <4>1 DEF WaitOrKill
    <3> QED BY <3>1, <3>2 DEF Labels
  <2> QED BY <2>1, <2>2, <2>3
<1>2. pc'[c] = l /\ \A q \in Client \ {c} : pc'[q] = pc[q]
  BY <1>1, Going
<1>3. saw[c] \in Daemon /\ life[saw[c]] # "unborn"
  BY <1>1 DEF TypeOK, ClientOK, EntryOK, HasEntry
<1>4. Declines(saw[c])
  <2>1. CASE RequestShutdown(c)
    <3>1. life' = life \/ \E d \in Daemon : d = saw[c] /\ Stopping(d)
      BY <2>1 DEF RequestShutdown, AcceptsShutdown, Answering
    <3> QED BY <3>1, StoppingDeclines, <1>3 DEF Declines
  <2>2. CASE Terminate(c)
    <3>1. \/ Registered(saw[c]) /\ Becomes(saw[c], "doomed")
          \/ Becomes(saw[c], "dead")
          \/ Stopping(saw[c])
      BY <2>2 DEF Terminate, Registered
    <3> QED BY <1>3, <3>1, StoppingDeclines DEF Declines
  <2>3. CASE WaitOrKill(c)
    BY <2>3 DEF WaitOrKill, Declines
  <2> QED BY <2>1, <2>2, <2>3
<1>5. Quiet /\ life' \in [Daemon -> Lives]
  BY <1>0, <1>3, <1>4, Declining
<1>6. TypeOK'
  <2>1. l \in Locked <=> lock' = c
    BY <1>0, <1>1 DEF TypeOK, Locked
  <2> QED BY <1>0, <1>1, <1>5, <2>1, Typed DEF TypeOK
<1>7. EntryOK(c)' /\ StartOK(c)' /\ ToldOK(c)'
  <2>1. saw'[c] # None /\ life'[saw'[c]] # "unborn"
    BY <1>0, <1>3, <1>5, RegistryAssumption DEF Quiet, Onward
  <2>2. pc'[c] \notin BeforeSpawn \cup {"spawn", "await", "release", "connected"}
    BY <1>1, <1>2 DEF BeforeSpawn
  <2> QED BY <2>1, <2>2 DEF EntryOK, StartOK, ToldOK
<1>8. CleanOK(c)'
  <2>1. l = "lock to clean" => life'[saw[c]] = "dead"
    BY <1>1, <1>3 DEF Running, Becomes, TypeOK
  <2> QED BY <1>0, <1>1, <1>2, <2>1 DEF CleanOK
<1>9. OnlyMoves(c) /\ LetsGo(c)
  BY <1>0, <1>1, <1>2 DEF OnlyMoves, Still, LetsGo
<1> QED BY <1>5, <1>6, <1>7, <1>8, <1>9, ClientMoves DEF ClientOK

LEMMA AwaitDaemonKeeps ==
  ASSUME RegistryInv, NEW c \in Client, AwaitDaemon(c) PROVE RegistryInv'
<1> TypeOK /\ ClientOK(c)
  BY DEF RegistryInv
<1>0. /\ pc[c] = "await"
      /\ UNCHANGED <<fixedPort, file, lock, ready, started, orphaned>>
  BY DEF AwaitDaemon
<1> DEFINE d == started[c]
<1>1. d \in Daemon /\ life[d] # "unborn" /\ file \in {None, d} \cup orphaned
  BY <1>0 DEF TypeOK, ClientOK, StartOK
<1>2. PICK l \in {"release", "give up"} :
        /\ Goto(c, l)
        /\ Declines(d)
        /\ l = "release" => life' = life /\ d \in ready /\ \E e \in {d, file} \ {None} : saw' = [saw EXCEPT ![c] = e]
        /\ l = "give up" => saw' = saw /\ life'[d] = "dead"
  <2>1. CASE Goto(c, "release") /\ life' = life /\ d \in ready
             /\ saw' = [saw EXCEPT ![c] = IF file = None THEN d ELSE file]
    BY <1>1, <2>1, RegistryAssumption DEF Declines
  <2>2. CASE life[d] = "dead" /\ Goto(c, "give up") /\ UNCHANGED <<saw, life>>
    BY <2>2 DEF Declines
  <2>3. CASE Becomes(d, "dead") /\ Goto(c, "give up") /\ saw' = saw
    BY <1>1, <2>3 DEF Declines, Becomes, TypeOK
  <2> QED BY <2>1, <2>2, <2>3 DEF AwaitDaemon
<1>3. l \in Labels /\ pc'[c] = l /\ \A q \in Client \ {c} : pc'[q] = pc[q]
  BY <1>2, Going DEF Labels, Locked
<1>4. Quiet /\ life' \in [Daemon -> Lives]
  BY <1>0, <1>1, <1>2, Declining
<1>5. saw' \in [Client -> Daemon \cup {None}] /\ \A q \in Client \ {c} : saw'[q] = saw[q]
  <2>1. saw' = saw \/ \E e \in Daemon : saw' = [saw EXCEPT ![c] = e]
    BY <1>1, <1>2 DEF TypeOK
  <2> QED BY <2>1 DEF TypeOK
<1>6. TypeOK'
  <2>1. l \in Locked /\ lock' = c
    BY <1>0 DEF TypeOK, Locked
  <2> QED BY <1>0, <1>2, <1>3, <1>4, <1>5, <2>1, Typed DEF TypeOK
<1>7. EntryOK(c)'
  <2>1. file # None => life[file] # "unborn"
    BY DEF RegistryInv, FileOK
  <2>2. CASE l = "release"
    <3>1. saw'[c] # None /\ (saw'[c] = d \/ saw'[c] = file) /\ life' = life
      BY <1>1, <1>2, <2>2 DEF TypeOK
    <3> QED BY <1>1, <2>1, <3>1 DEF EntryOK
  <2>3. CASE l = "give up"
    <3>1. saw[c] # None => saw[c] \in Daemon /\ life[saw[c]] # "unborn"
      BY DEF TypeOK, ClientOK, EntryOK
    <3> QED BY <1>2, <1>3, <1>4, <2>3, <3>1 DEF EntryOK, HasEntry, Quiet, Onward
  <2> QED BY <2>2, <2>3
<1>8. StartOK(c)' /\ CleanOK(c)'
  BY <1>2, <1>3 DEF StartOK, CleanOK, BeforeSpawn
<1>9. ToldOK(c)'
  <2>1. l = "release" => saw'[c] \in {d} \cup orphaned
    BY <1>1, <1>2 DEF TypeOK
  <2> QED BY <1>0, <1>2, <1>3, <2>1 DEF ToldOK
<1>10. LetsGo(c)
  <2>1. l = "release" => life[d] # "starting"
    BY <1>2 DEF RegistryInv, ReadyOK
  <2> QED BY <1>0, <1>2, <2>1 DEF LetsGo
<1>11. OnlyMoves(c)
  BY <1>0, <1>3, <1>5 DEF OnlyMoves, Still
<1> QED BY <1>4, <1>6, <1>7, <1>8, <1>9, <1>10, <1>11, ClientMoves DEF ClientOK

LEMMA DiesKeeps ==
  ASSUME RegistryInv, NEW c \in Client, Dies(c) PROVE RegistryInv'
<1> TypeOK /\ ClientOK(c)
  BY DEF RegistryInv
<1>0. /\ Goto(c, "done") /\ lock' = IF lock = c THEN None ELSE lock
      /\ orphaned' = orphaned \cup {d \in Daemon : d = started[c] /\ life[d] = "starting"}
      /\ UNCHANGED <<fixedPort, file, life, ready, saw, started>>
  BY DEF Dies
<1>1. "done" \in Labels \ Locked
  BY DEF Labels, Locked
<1>2. pc'[c] = "done" /\ \A q \in Client \ {c} : pc'[q] = pc[q]
  BY <1>0, <1>1, Going
<1>3. TypeOK'
  <2>1. "done" \in Locked <=> lock' = c
    BY <1>0, <1>1, RegistryAssumption
  <2>2. "done" \in Labels
    BY <1>1
  <2> QED BY <1>0, <2>1, <2>2, Typed DEF TypeOK
<1>4. Quiet
  BY <1>0 DEF Quiet, Onward, NoneComesUp, FileLeft, ReadyLeft, Registered
<1>5. ClientOK(c)'
  BY <1>0, <1>2 DEF ClientOK, EntryOK, StartOK, ToldOK, CleanOK, HasEntry, BeforeSpawn
<1>6. OnlyMoves(c)
  BY <1>0, <1>2 DEF OnlyMoves, Still
<1>7. LetsGo(c)
  BY <1>0 DEF LetsGo, TypeOK, ClientOK, StartOK
<1> QED BY <1>3, <1>4, <1>5, <1>6, <1>7, ClientMoves
-----------------------------------------------------------------------------
(* The two steps that bring a daemon up.                                   *)

(* Under the lock, no other client is where another one may not be.        *)
Alone(c) == \A q \in Client \ {c} : pc[q] \notin Locked

LEMMA SpawnKeeps ==
  ASSUME RegistryInv, NEW c \in Client, Spawn(c) PROVE RegistryInv'
<1> TypeOK /\ ClientOK(c)
  BY DEF RegistryInv
<1>0. pc[c] = "spawn" /\ file' = None /\ UNCHANGED <<fixedPort, lock, ready, saw, orphaned>>
  BY DEF Spawn
<1>1. lock = c /\ Alone(c)
  BY <1>0 DEF TypeOK, Locked, Alone
<1>2. \A e \in Daemon : Registered(e) => e \in orphaned
  BY <1>0 DEF ClientOK, StartOK
<1>3. CASE Goto(c, "give up") /\ UNCHANGED <<life, started>>
  <2>1. "give up" \in Labels /\ "give up" \in Locked
    BY DEF Labels, Locked
  <2>2. pc'[c] = "give up" /\ \A q \in Client \ {c} : pc'[q] = pc[q]
    BY <1>3, <2>1, Going
  <2>3. TypeOK'
    BY <1>0, <1>1, <1>3, <2>1, Typed DEF TypeOK
  <2>4. Quiet
    BY <1>0, <1>2, <1>3 DEF Quiet, Onward, NoneComesUp, FileLeft, ReadyLeft, Registered
  <2>5. ClientOK(c)'
    BY <1>0, <1>3, <2>2 DEF ClientOK, EntryOK, StartOK, ToldOK, CleanOK, HasEntry, BeforeSpawn
  <2>6. OnlyMoves(c) /\ LetsGo(c)
    BY <1>0, <1>3, <2>2 DEF OnlyMoves, Still, LetsGo
  <2> QED BY <2>3, <2>4, <2>5, <2>6, ClientMoves
<1>4. ASSUME NEW d \in Daemon, life[d] = "unborn", Becomes(d, "starting"), Goto(c, "await"),
             started' = [started EXCEPT ![c] = d]
      PROVE  RegistryInv'
  <2>1. "await" \in Labels /\ "await" \in Locked /\ "starting" \in Lives
    BY DEF Labels, Locked, Lives
  <2>2. pc'[c] = "await" /\ \A q \in Client \ {c} : pc'[q] = pc[q]
    BY <1>4, <2>1, Going
  <2>3. life' \in [Daemon -> Lives] /\ life'[d] = "starting" /\ \A e \in Daemon \ {d} : life'[e] = life[e]
    BY <1>4, <2>1, Become
  <2>4. /\ started' \in [Client -> Daemon \cup {None}] /\ started'[c] = d
        /\ \A q \in Client \ {c} : started'[q] = started[q]
    BY <1>4 DEF TypeOK
  <2>5. TypeOK'
    BY <1>0, <1>1, <1>4, <2>1, <2>3, <2>4, Typed DEF TypeOK
  <2>6. FileOK' /\ ReadyOK'
    BY <1>0, <1>4, <2>3 DEF FileOK, RegistryInv, ReadyOK, TypeOK
  <2>7. \A q \in Client : EntryOK(q)'
    <3> SUFFICES ASSUME NEW q \in Client PROVE EntryOK(q)'
      OBVIOUS
    <3>1. EntryOK(q) /\ saw[q] \in Daemon \cup {None}
      BY DEF RegistryInv, ClientOK, TypeOK
    <3>2. pc'[q] \in HasEntry => pc[q] \in HasEntry
      BY <2>2 DEF HasEntry
    <3> QED BY <1>0, <1>4, <2>3, <3>1, <3>2 DEF EntryOK
  <2>8. ClientOK(c)'
    <3>1. StartOK(c)'
      BY <1>0, <2>2, <2>3, <2>4, RegistryAssumption DEF StartOK, BeforeSpawn
    <3>2. ToldOK(c)' /\ CleanOK(c)'
      BY <2>2 DEF ToldOK, CleanOK
    <3> QED BY <2>7, <3>1, <3>2 DEF ClientOK
  <2>9. ASSUME NEW q \in Client \ {c} PROVE ClientOK(q)'
    <3>1. ClientOK(q) /\ pc'[q] = pc[q] /\ started'[q] = started[q] /\ saw[q] \in Daemon \cup {None}
      BY <2>2, <2>4 DEF RegistryInv, TypeOK
    <3>2. pc[q] \notin {"spawn", "await", "release", "check", "clean up"}
      BY <1>1 DEF Alone, Locked
    <3>3. StartOK(q)' /\ ToldOK(q)'
      BY <1>0, <3>1, <3>2 DEF ClientOK, StartOK, ToldOK
    <3>4. CleanOK(q)'
      <4>1. ASSUME pc[q] = "lock to clean" PROVE life'[saw[q]] = "dead"
        <5>1. life[saw[q]] = "dead" /\ saw[q] \in Daemon
          BY <3>1, <4>1 DEF ClientOK, CleanOK, EntryOK, HasEntry
        <5> QED BY <1>4, <2>3, <5>1
      <4> QED BY <1>0, <3>1, <3>2, <4>1 DEF CleanOK
    <3> QED BY <2>7, <3>3, <3>4 DEF ClientOK
  <2>10. ASSUME NEW e \in Daemon PROVE DaemonOK(e)'
    <3>1. CASE e = d
      BY <2>2, <2>3, <2>4, <3>1 DEF DaemonOK, StarterWaits, RegisteredOK, Registered
    <3>2. CASE e # d
      <4>1. life'[e] = life[e]
        BY <2>3, <3>2
      <4>2. life[e] = "starting" => e \in orphaned
        <5>1. \A q \in Client : pc[q] # "await"
          BY <1>0, <1>1 DEF Alone, Locked
        <5> QED BY <5>1 DEF RegistryInv, DaemonOK, StarterWaits
      <4> QED BY <1>0, <1>2, <4>1, <4>2 DEF DaemonOK, StarterWaits, RegisteredOK, Registered
    <3> QED BY <3>1, <3>2
  <2> QED BY <2>5, <2>6, <2>8, <2>9, <2>10 DEF RegistryInv
<1> QED BY <1>3, <1>4 DEF Spawn

LEMMA RegisterKeeps ==
  ASSUME RegistryInv, NEW d \in Daemon, Register(d) PROVE RegistryInv'
<1> TypeOK
  BY DEF RegistryInv
<1>0. /\ life[d] = "starting" /\ file' = d
      /\ orphaned' = IF d \in orphaned THEN orphaned \cup ({file} \ {None}) ELSE orphaned
      /\ UNCHANGED <<fixedPort, lock, ready, pc, saw, started>>
  BY DEF Register
<1>1. life' \in [Daemon -> Lives] /\ life'[d] = "init" /\ \A e \in Daemon \ {d} : life'[e] = life[e]
  BY Become DEF Register, Lives
<1>2. TypeOK'
  BY <1>0, <1>1 DEF TypeOK
<1>3. orphaned \subseteq orphaned'
  BY <1>0
<1>4. FileOK' /\ ReadyOK'
  BY <1>0, <1>1 DEF FileOK, RegistryInv, ReadyOK, TypeOK
<1>5. d \in orphaned \/ \E c \in Client : started[c] = d /\ pc[c] = "await" /\ Alone(c)
  <2>1. ASSUME NEW c \in Client, pc[c] = "await" PROVE Alone(c)
    BY <2>1 DEF TypeOK, Locked, Alone
  <2> QED BY <1>0, <2>1 DEF RegistryInv, DaemonOK, StarterWaits
<1>6. ASSUME NEW q \in Client PROVE ClientOK(q)'
  <2>1. ClientOK(q) /\ saw[q] \in Daemon \cup {None}
    BY DEF RegistryInv, TypeOK
  <2>2. d \in orphaned' \/ pc[q] \notin {"spawn", "await", "clean up"}
        \/ (pc[q] = "await" /\ started[q] = d)
    BY <1>3, <1>5 DEF Alone, Locked
  <2>3. EntryOK(q)' /\ ToldOK(q)'
    BY <1>0, <1>1, <1>3, <2>1 DEF ClientOK, EntryOK, ToldOK
  <2>4. StartOK(q)'
    <3>1. pc[q] \in BeforeSpawn => started[q] = None
      BY <2>1 DEF ClientOK, StartOK
    <3>2. ASSUME pc[q] = "spawn", NEW e \in Daemon, Registered(e)' PROVE e \in orphaned'
      <4>1. CASE e = d
        BY <2>2, <3>2, <4>1
      <4>2. CASE e # d
        BY <1>1, <1>3, <2>1, <3>2, <4>2 DEF ClientOK, StartOK, Registered
      <4> QED BY <4>1, <4>2
    <3>3. ASSUME pc[q] = "await"
          PROVE  started[q] # None /\ life'[started[q]] # "unborn" /\ d \in {started[q]} \cup orphaned'
      BY <1>1, <2>1, <2>2, <3>3 DEF ClientOK, StartOK, TypeOK
    <3> QED BY <1>0, <3>1, <3>2, <3>3 DEF StartOK
  <2>5. CleanOK(q)'
    <3>1. ASSUME pc[q] \in {"lock to clean", "check", "clean up"} PROVE life'[saw[q]] = "dead"
      <4>1. life[saw[q]] = "dead" /\ saw[q] \in Daemon
        BY <2>1, <3>1 DEF ClientOK, CleanOK, EntryOK, HasEntry
      <4> QED BY <1>0, <1>1, <4>1
    <3>2. ASSUME pc[q] = "clean up", NEW e \in Daemon, Registered(e)' \/ life'[e] = "starting"
          PROVE  e \in orphaned'
      <4>1. CASE e = d
        BY <2>2, <3>2, <4>1
      <4>2. CASE e # d
        BY <1>1, <1>3, <2>1, <3>2, <4>2 DEF ClientOK, CleanOK, Registered
      <4> QED BY <4>1, <4>2
    <3> QED BY <1>0, <3>1, <3>2 DEF CleanOK
  <2> QED BY <2>3, <2>4, <2>5 DEF ClientOK
<1>7. ASSUME NEW e \in Daemon PROVE DaemonOK(e)'
  <2>1. DaemonOK(e)
    BY DEF RegistryInv
  <2>2. StarterWaits(e)'
    BY <1>0, <1>1, <1>3, <2>1 DEF DaemonOK, StarterWaits
  <2>3. RegisteredOK(e)'
    <3>1. CASE e = d
      BY <1>0, <3>1 DEF RegisteredOK
    <3>2. CASE e # d
      <4>1. Registered(e)' => e \in orphaned \/ file = e
        BY <1>1, <2>1, <3>2 DEF DaemonOK, RegisteredOK, Registered
      <4>2. file = e => e \in orphaned'
        <5>1. CASE d \in orphaned
          BY <1>0, <5>1, RegistryAssumption
        <5>2. CASE d \notin orphaned
          <6>1. file \in {None, d} \cup orphaned
            BY <1>5, <5>2 DEF RegistryInv, ClientOK, StartOK
          <6> QED BY <1>3, <3>2, <6>1, RegistryAssumption
        <5> QED BY <5>1, <5>2
      <4> QED BY <1>3, <4>1, <4>2 DEF RegisteredOK
    <3> QED BY <3>1, <3>2
  <2> QED BY <2>2, <2>3 DEF DaemonOK
<1> QED BY <1>2, <1>4, <1>6, <1>7 DEF RegistryInv
-----------------------------------------------------------------------------
LEMMA InitRegistry == Init => RegistryInv
<1> SUFFICES ASSUME Init PROVE RegistryInv
  OBVIOUS
<1>1. PICK d \in Daemon, before \in {"unborn", "serving", "dead"} :
        /\ life = [e \in Daemon |-> IF e = d THEN before ELSE "unborn"]
        /\ file = IF before = "unborn" THEN None ELSE d
        /\ ready = IF before = "unborn" THEN {} ELSE {d}
  BY DEF Init
<1>2. /\ lock = None /\ pc = [c \in Client |-> "find"] /\ orphaned = {}
      /\ saw = [c \in Client |-> None] /\ started = [c \in Client |-> None]
  BY DEF Init
<1>3. TypeOK
  <2>1. life \in [Daemon -> Lives]
    BY <1>1 DEF Lives
  <2>2. pc \in [Client -> Labels] /\ \A c \in Client : pc[c] \in Locked <=> lock = c
    BY <1>2, RegistryAssumption DEF Labels, Locked
  <2> QED BY <1>1, <1>2, <2>1, <2>2 DEF TypeOK, Init
<1>4. FileOK /\ ReadyOK
  BY <1>1 DEF FileOK, ReadyOK
<1>5. ASSUME NEW c \in Client PROVE ClientOK(c)
  BY <1>2 DEF ClientOK, EntryOK, StartOK, ToldOK, CleanOK, HasEntry, BeforeSpawn
<1>6. ASSUME NEW e \in Daemon PROVE DaemonOK(e)
  BY <1>1 DEF DaemonOK, StarterWaits, RegisteredOK, Registered
<1> QED BY <1>3, <1>4, <1>5, <1>6 DEF RegistryInv

LEMMA NextKeeps == RegistryInv /\ [Next]_vars => RegistryInv'
<1> SUFFICES ASSUME RegistryInv, [Next]_vars PROVE RegistryInv'
  OBVIOUS
<1>1. CASE UNCHANGED vars
  <2>1. TypeOK'
    BY <1>1 DEF RegistryInv, TypeOK, vars
  <2>2. Quiet
    BY <1>1 DEF vars, Quiet, Onward, NoneComesUp, FileLeft, ReadyLeft, Registered
  <2> QED BY <1>1, <2>1, <2>2, DaemonMoves DEF vars
<1>2. ASSUME NEW d \in Daemon, DaemonStep(d) PROVE RegistryInv'
  BY <1>2, DaemonStepKeeps, RegisterKeeps DEF DaemonStep
<1>3. ASSUME NEW c \in Client, ClientStep(c) PROVE RegistryInv'
  BY <1>3, LooksKeep, ReadEntryKeeps, RemoveEntryKeeps, LockStepKeeps, StopStepKeeps,
     AwaitDaemonKeeps, DiesKeeps, SpawnKeeps DEF ClientStep
<1> QED BY <1>1, <1>2, <1>3 DEF Next, AllDone

LEMMA Invariance == Spec => []RegistryInv
BY InitRegistry, NextKeeps, PTL DEF Spec
-----------------------------------------------------------------------------
(* The lock is held exactly by the client that is between taking it and    *)
(* giving it back, whichever start fails and whichever client dies.        *)
THEOREM RegistryTypes == Spec => []TypeOK
<1>1. RegistryInv => TypeOK
  BY DEF RegistryInv
<1> QED BY <1>1, Invariance, PTL

(* A daemon that serves is the one that the session file names, unless its *)
(* registration was taken from outside the lock or its starter has died.   *)
THEOREM OneDaemonPerKey == Spec => []LiveIsRegistered
<1>1. RegistryInv => LiveIsRegistered
  BY DEF RegistryInv, DaemonOK, RegisteredOK, LiveIsRegistered
<1> QED BY <1>1, Invariance, PTL

(* startDaemon tells a client of the daemon it has started, not of one     *)
(* that others started meanwhile.                                          *)
THEOREM StarterIsToldItsOwn == Spec => []ToldItsOwn
<1>1. RegistryInv => ToldItsOwn
  BY DEF RegistryInv, ClientOK, ToldOK, ToldItsOwn
<1> QED BY <1>1, Invariance, PTL

(* cleanupOnApproval runs when the daemon of the approved review is dead   *)
(* and no other that starters and stoppers respect has it loaded or will.  *)
THEOREM ApprovalCleansAlone == Spec => []CleanupIsAlone
<1>1. RegistryInv => CleanupIsAlone
  <2> SUFFICES ASSUME RegistryInv, NEW c \in Client, pc[c] = "clean up"
               PROVE  /\ life[saw[c]] = "dead"
                      /\ \A d \in Daemon : Registered(d) \/ life[d] = "starting" => d \in orphaned
    BY DEF CleanupIsAlone
  <2> QED BY DEF RegistryInv, ClientOK, CleanOK
<1> QED BY <1>1, Invariance, PTL

(* handleShutdown and SIGTERM stop the daemon that the client has found,   *)
(* whoever has its port by then.                                           *)
THEOREM StopsAreNamed == Spec => OnlyNamedStops
<1> DEFINE Stops(d) == life[d] = "serving" /\ life'[d] = "stopping"
           Meant(d) == \E c \in Client : saw[c] = d /\ pc[c] # pc'[c]
<1>1. ASSUME TypeOK, [Next]_vars, NEW d \in Daemon, Stops(d) PROVE Meant(d)
  <2>1. life' # life
    BY <1>1
  <2>2. ASSUME NEW e \in Daemon, DaemonStep(e) PROVE FALSE
    <3>1. PICK s \in Lives : Becomes(e, s) /\ (s = "stopping" => life[e] = "doomed")
      BY <2>1, <2>2 DEF DaemonStep, Register, SignalReadiness, CreateSession, Unregister, Drain, Exit, Lives
    <3> QED BY <1>1, <3>1, Become
  <2>3. ASSUME NEW c \in Client, ClientStep(c) PROVE Meant(d)
    <3>1. Spawn(c) \/ AwaitDaemon(c) \/ RequestShutdown(c) \/ Terminate(c) \/ WaitOrKill(c)
      BY <2>1, <2>3 DEF ClientStep, ReadEntry, Probe, RemoveEntry, AcquireSessionLock, LockTimesOut,
           ReleaseSessionLock, Finish, Unanswered, CheckOwner, CheckTakenOver, CleanUp, Dies
    <3>2. CASE Spawn(c) \/ AwaitDaemon(c) \/ WaitOrKill(c)
      <4>1. \E e \in Daemon, s \in {"starting", "dead"} : Becomes(e, s)
        BY <1>1, <2>1, <3>2 DEF Spawn, AwaitDaemon, WaitOrKill, TypeOK, Running, Becomes
      <4> QED BY <1>1, <4>1, Become DEF Lives
    <3>3. CASE RequestShutdown(c)
      <4>1. Stopping(saw[c]) /\ saw[c] \in Daemon
        BY <2>1, <3>3 DEF RequestShutdown, AcceptsShutdown, Answering
      <4>2. /\ pc[c] \in {"request", "interrupt"}
            /\ \E l \in {"wait", "done", "unanswered", "terminate and exit"} : Goto(c, l)
        BY <3>3, <2>1, Zenon DEF RequestShutdown
      <4> QED BY <1>1, <4>1, <4>2, Become, Going DEF Stopping, Lives, Labels
    <3>4. CASE Terminate(c)
      <4>1. /\ pc[c] \in {"terminate", "terminate and exit"}
            /\ \E l \in {"wait", "done"} : Goto(c, l)
        BY <3>4, Zenon DEF Terminate
      <4>2. saw[c] = d
        BY <1>1, <3>4 DEF Terminate, Stopping, Becomes, TypeOK
      <4> QED BY <1>1, <4>1, <4>2, Going DEF Labels
    <3> QED BY <3>1, <3>2, <3>3, <3>4
  <2> QED BY <1>1, <2>1, <2>2, <2>3 DEF Next, AllDone, vars
<1>2. TypeOK /\ [Next]_vars => [\A d \in Daemon : Stops(d) => Meant(d)]_vars
  BY <1>1
<1> QED BY <1>2, RegistryTypes, PTL DEF Spec, OnlyNamedStops
=====
