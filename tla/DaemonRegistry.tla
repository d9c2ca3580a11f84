--------------------------- MODULE DaemonRegistry ---------------------------
(***************************************************************************)
(* The daemons of one session key: how clients find, start and stop them   *)
(* by a session file that any process may read, write and remove.  Only    *)
(* starting a daemon and cleaning up after an approved review happen under *)
(* the key's session lock.                                                 *)
(***************************************************************************)
EXTENDS Naturals, FiniteSets

CONSTANTS
  Starter,   \* `crit`: finds or starts a daemon, may approve the review
  Stopper,   \* `crit stop`
  Daemon,    \* daemon processes, by PID
  None

Client == Starter \cup Stopper

ASSUME RegistryAssumption == Starter \cap Stopper = {} /\ None \notin Daemon \cup Client

VARIABLES
  fixedPort,  \* the port is configured, so that all daemons share it
  file,       \* the daemon that the session file names
  lock,       \* the holder of the session lock
  life,       \* how far each daemon is
  ready,      \* daemons that have written their port to the readiness pipe
  pc,
  saw,        \* the session entry a client acts on
  started,    \* the daemon a client has started
  orphaned    \* history: daemons that lost their registration, or their starter
              \* before they had one

vars == <<fixedPort, file, lock, life, ready, pc, saw, started, orphaned>>

(* A daemon that runs already, one that has died, or none.                 *)
Init ==
  /\ fixedPort \in BOOLEAN
  /\ \E d \in Daemon, before \in {"unborn", "serving", "dead"} :
       /\ life = [e \in Daemon |-> IF e = d THEN before ELSE "unborn"]
       /\ file = IF before = "unborn" THEN None ELSE d
       /\ ready = IF before = "unborn" THEN {} ELSE {d}
  /\ lock = None
  /\ pc = [c \in Client |-> "find"]
  /\ saw = [c \in Client |-> None]
  /\ started = [c \in Client |-> None]
  /\ orphaned = {}

Goto(c, label) == pc' = [pc EXCEPT ![c] = label]
Becomes(d, state) == life' = [life EXCEPT ![d] = state]

Running(d) == life[d] \notin {"unborn", "dead"}
Listening(d) == life[d] \in {"init", "doomed", "serving", "failing", "stopping", "leaving"}
Registered(d) == life[d] \in {"init", "doomed", "serving", "stopping"}

(* The daemons that answer at the address of an entry.                     *)
Answering(d) == {e \in Daemon : Listening(e) /\ (fixedPort \/ e = d)}
-----------------------------------------------------------------------------
(* The daemon: runServe.                                                   *)

(* bindListener and writeSessionFile.                                      *)
Register(d) ==
  /\ life[d] = "starting" /\ (fixedPort => \A e \in Daemon : ~Listening(e))
  /\ file' = d
  /\ Becomes(d, "init")
  /\ orphaned' = IF d \in orphaned THEN orphaned \cup ({file} \ {None}) ELSE orphaned
  /\ UNCHANGED <<fixedPort, lock, ready, pc, saw, started>>

SignalReadiness(d) ==
  /\ life[d] \in {"init", "doomed"} /\ d \notin ready
  /\ ready' = ready \cup {d}
  /\ UNCHANGED <<fixedPort, file, lock, life, pc, saw, started, orphaned>>

(* A stop asked for during the initialisation is seen when it ends.        *)
CreateSession(d) ==
  /\ d \in ready
  /\ \/ life[d] = "init" /\ Becomes(d, "serving")
     \/ life[d] = "doomed" /\ Becomes(d, "stopping")
     \/ life[d] \in {"init", "doomed"} /\ Becomes(d, "failing")
  /\ UNCHANGED <<fixedPort, file, lock, ready, pc, saw, started, orphaned>>

Unregister(d) ==
  /\ life[d] = "stopping"
  /\ file' = None
  /\ Becomes(d, "leaving")
  /\ orphaned' = orphaned \cup ({file} \ {d, None})
  /\ UNCHANGED <<fixedPort, lock, ready, pc, saw, started>>

(* Listeners close first; a last save and the exit follow.                 *)
Drain(d) ==
  /\ life[d] = "leaving" /\ Becomes(d, "draining")
  /\ UNCHANGED <<fixedPort, file, lock, ready, pc, saw, started, orphaned>>

(* The end, at any time: daemonFatal, the return of runServe, a crash.     *)
Exit(d) ==
  /\ Running(d) /\ Becomes(d, "dead")
  /\ UNCHANGED <<fixedPort, file, lock, ready, pc, saw, started, orphaned>>

DaemonStep(d) ==
  Register(d) \/ SignalReadiness(d) \/ CreateSession(d) \/ Unregister(d) \/ Drain(d) \/ Exit(d)
-----------------------------------------------------------------------------
(* Finding a daemon: FindAliveSession, without the lock and again under it, *)
(* and the first steps of StopDaemon.                                      *)

ReadEntry(c) ==
  /\ \/ /\ file = None /\ saw' = saw
        /\ \/ pc[c] = "find" /\ c \in Stopper /\ Goto(c, "done")
           \/ pc[c] = "find" /\ c \in Starter /\ Goto(c, "lock")
           \/ pc[c] = "find again" /\ Goto(c, "spawn")
     \/ /\ file # None /\ saw' = [saw EXCEPT ![c] = file]
        /\ \/ pc[c] = "find" /\ Goto(c, "probe")
           \/ pc[c] = "find again" /\ Goto(c, "probe again")
  /\ UNCHANGED <<fixedPort, file, lock, life, ready, started, orphaned>>

(* isDaemonAlive: the process is there and somebody answers within a       *)
(* second, which even a daemon that runs may fail to do.                   *)
Probe(c) ==
  /\ \/ pc[c] = "probe" /\ Goto(c, "remove")
     \/ pc[c] = "probe again" /\ Goto(c, "remove again")
     \/ /\ pc[c] \in {"probe", "probe again"}
        /\ Running(saw[c]) /\ Answering(saw[c]) # {}
        /\ \/ pc[c] = "probe again" /\ Goto(c, "release")
           \/ pc[c] = "probe" /\ c \in Stopper /\ Goto(c, "request")
           \/ pc[c] = "probe" /\ c \in Starter /\ Goto(c, "joined")
  /\ UNCHANGED <<fixedPort, file, lock, life, ready, saw, started, orphaned>>

(* RemoveSessionFile, whatever the file holds by now.                      *)
RemoveEntry(c) ==
  /\ \/ pc[c] = "remove" /\ Goto(c, IF c \in Starter THEN "lock" ELSE "done")
     \/ pc[c] = "remove again" /\ Goto(c, "spawn")
     \/ pc[c] = "remove own" /\ Goto(c, "done")
  /\ file' = None
  /\ orphaned' = orphaned \cup {d \in Daemon : d = file /\ Running(d)}
  /\ UNCHANGED <<fixedPort, lock, life, ready, saw, started>>
-----------------------------------------------------------------------------
(* Starting a daemon: startDaemon.                                         *)

(* Mutant: the key is not looked up again under the lock.                  *)
LockAndSpawn(c) ==
  /\ pc[c] \in {"lock", "lock to clean"} /\ lock = None
  /\ lock' = c
  /\ Goto(c, IF pc[c] = "lock" THEN "spawn" ELSE "check")
  /\ UNCHANGED <<fixedPort, file, life, ready, saw, started, orphaned>>

AcquireSessionLock(c) ==
  /\ pc[c] \in {"lock", "lock to clean"} /\ lock = None
  /\ lock' = c
  /\ Goto(c, IF pc[c] = "lock" THEN "find again" ELSE "check")
  /\ UNCHANGED <<fixedPort, file, life, ready, saw, started, orphaned>>

LockTimesOut(c) ==
  /\ pc[c] \in {"lock", "lock to clean"}
  /\ Goto(c, "done")
  /\ UNCHANGED <<fixedPort, file, lock, life, ready, saw, started, orphaned>>

(* Mutant: the lock is given back before the daemon has registered.        *)
SpawnUnlocked(c) ==
  /\ pc[c] = "spawn"
  /\ file' = None /\ lock' = None
  /\ \/ Goto(c, "done") /\ UNCHANGED <<life, started>>
     \/ \E d \in Daemon :
          /\ life[d] = "unborn" /\ Becomes(d, "starting")
          /\ started' = [started EXCEPT ![c] = d]
          /\ Goto(c, "await")
  /\ UNCHANGED <<fixedPort, ready, saw, orphaned>>

(* prepareDaemonCmd removes what is left of an earlier daemon.             *)
Spawn(c) ==
  /\ pc[c] = "spawn"
  /\ file' = None
  /\ \/ Goto(c, "give up") /\ UNCHANGED <<life, started>>
     \/ \E d \in Daemon :
          /\ life[d] = "unborn" /\ Becomes(d, "starting")
          /\ started' = [started EXCEPT ![c] = d]
          /\ Goto(c, "await")
  /\ UNCHANGED <<fixedPort, lock, ready, saw, orphaned>>

(* Its port comes through the pipe, or it exits, or ten seconds pass.      *)
AwaitDaemon(c) ==
  /\ pc[c] = "await"
  /\ LET d == started[c] IN
     \/ /\ d \in ready
        /\ saw' = [saw EXCEPT ![c] = IF file = None THEN d ELSE file]
        /\ Goto(c, "release") /\ life' = life
     \/ life[d] = "dead" /\ Goto(c, "give up") /\ UNCHANGED <<saw, life>>
     \/ Becomes(d, "dead") /\ Goto(c, "give up") /\ saw' = saw
  /\ UNCHANGED <<fixedPort, file, lock, ready, started, orphaned>>

(* Mutant: an error leaves the lock taken.                                 *)
ReleaseOnSuccess(c) ==
  /\ pc[c] \in {"release", "give up"}
  /\ lock' = IF pc[c] = "release" THEN None ELSE lock
  /\ Goto(c, IF pc[c] = "release" THEN "connected" ELSE "done")
  /\ UNCHANGED <<fixedPort, file, life, ready, saw, started, orphaned>>

ReleaseSessionLock(c) ==
  /\ pc[c] \in {"release", "give up"}
  /\ lock' = None
  /\ Goto(c, IF pc[c] = "release" THEN "connected" ELSE "done")
  /\ UNCHANGED <<fixedPort, file, life, ready, saw, started, orphaned>>
-----------------------------------------------------------------------------
(* Stopping one: StopDaemon, stopDaemonOnApproval, StopForSignal.          *)

(* The review is approved; or a client is interrupted that did not join a  *)
(* daemon at once, though startDaemon may have found one under the lock;   *)
(* or it has nothing more to do.                                           *)
Finish(c) ==
  /\ pc[c] \in {"connected", "joined"}
  /\ \/ Goto(c, "request")
     \/ pc[c] = "connected" /\ Goto(c, "interrupt")
     \/ Goto(c, "done")
  /\ UNCHANGED <<fixedPort, file, lock, life, ready, saw, started, orphaned>>

(* Mutant: the daemon does not look at the pid it is asked for.            *)
AcceptsAny(d, pid) == life[d] \in {"serving", "stopping", "leaving"}
(* handleShutdown.                                                         *)
AcceptsShutdown(d, pid) == d = pid /\ life[d] \in {"serving", "stopping", "leaving"}

Stopping(d) == IF life[d] = "serving" THEN Becomes(d, "stopping") ELSE life' = life

(* RequestShutdown: accepted, refused by another daemon, or no answer,     *)
(* though the request may have arrived.                                    *)
RequestShutdown(c) ==
  /\ pc[c] \in {"request", "interrupt"}
  /\ \/ \E d \in Answering(saw[c]) :
          /\ AcceptsShutdown(d, saw[c]) /\ Stopping(d)
          /\ \/ Goto(c, IF pc[c] = "request" THEN "wait" ELSE "done")
             \/ Goto(c, IF pc[c] = "request" THEN "unanswered" ELSE "terminate and exit")
     \/ /\ \E d \in Answering(saw[c]) : d # saw[c]
        /\ Goto(c, IF c \in Stopper THEN "owned" ELSE "done")
        /\ life' = life
     \/ /\ Goto(c, IF pc[c] = "request" THEN "unanswered" ELSE "terminate and exit")
        /\ life' = life
  /\ UNCHANGED <<fixedPort, file, lock, ready, saw, started, orphaned>>

(* An entry that is gone: the daemon is stopping already.  Another one: it *)
(* is not ours.                                                            *)
Unanswered(c) ==
  /\ pc[c] = "unanswered"
  /\ \/ file = saw[c] /\ Goto(c, "terminate")
     \/ file = None /\ c \in Starter /\ Goto(c, "wait")
     \/ file # saw[c] /\ (file = None => c \in Stopper) /\ Goto(c, "done")
  /\ UNCHANGED <<fixedPort, file, lock, life, ready, saw, started, orphaned>>

(* Until runServe has its handlers, the signal is deadly.                  *)
Terminate(c) ==
  /\ pc[c] \in {"terminate", "terminate and exit"}
  /\ \/ life[saw[c]] = "init" /\ Becomes(saw[c], "doomed")
     \/ life[saw[c]] = "init" /\ saw[c] \notin ready /\ Becomes(saw[c], "dead")
     \/ life[saw[c]] # "init" /\ Stopping(saw[c])
  /\ Goto(c, IF pc[c] = "terminate" THEN "wait" ELSE "done")
  /\ UNCHANGED <<fixedPort, file, lock, ready, saw, started, orphaned>>

(* waitOrKill.  A kill may fail, and an approved review may be kept.       *)
WaitOrKill(c) ==
  /\ pc[c] = "wait"
  /\ \/ Goto(c, "done") /\ life' = life
     \/ /\ IF Running(saw[c]) THEN Becomes(saw[c], "dead") ELSE life' = life
        /\ Goto(c, IF c \in Stopper THEN "owned" ELSE "lock to clean")
  /\ UNCHANGED <<fixedPort, file, lock, ready, saw, started, orphaned>>

(* sessionOwnedBy.                                                         *)
CheckOwner(c) ==
  /\ pc[c] = "owned"
  /\ Goto(c, IF file = saw[c] THEN "remove own" ELSE "done")
  /\ UNCHANGED <<fixedPort, file, lock, life, ready, saw, started, orphaned>>

(* Mutant: the lock alone is taken for enough.                             *)
AlwaysMine(c) == c = c
(* UnlessSessionTakenOver.                                                 *)
NotTakenOver(c) == file \in {None, saw[c]}

CheckTakenOver(c) ==
  /\ pc[c] = "check"
  /\ Goto(c, IF NotTakenOver(c) THEN "clean up" ELSE "give up")
  /\ UNCHANGED <<fixedPort, file, lock, life, ready, saw, started, orphaned>>

(* cleanupOnApproval removes the review; what that does is in ReviewLock.  *)
CleanUp(c) ==
  /\ pc[c] = "clean up"
  /\ Goto(c, "give up")
  /\ UNCHANGED <<fixedPort, file, lock, life, ready, saw, started, orphaned>>
-----------------------------------------------------------------------------
(* A client dies and lets go of the lock; a daemon it was waiting for lives *)
(* on, to register under a key that others may be using by then.           *)
Dies(c) ==
  /\ pc[c] # "done" /\ Goto(c, "done")
  /\ lock' = IF lock = c THEN None ELSE lock
  /\ orphaned' = orphaned \cup {d \in Daemon : d = started[c] /\ life[d] = "starting"}
  /\ UNCHANGED <<fixedPort, file, life, ready, saw, started>>

ClientStep(c) ==
  \/ ReadEntry(c) \/ Probe(c) \/ RemoveEntry(c)
  \/ AcquireSessionLock(c) \/ LockTimesOut(c) \/ Spawn(c) \/ AwaitDaemon(c) \/ ReleaseSessionLock(c)
  \/ Finish(c) \/ RequestShutdown(c) \/ Unanswered(c) \/ Terminate(c) \/ WaitOrKill(c) \/ CheckOwner(c)
  \/ CheckTakenOver(c) \/ CleanUp(c) \/ Dies(c)

AllDone == (\A c \in Client : pc[c] = "done") /\ UNCHANGED vars

Next == (\E c \in Client : ClientStep(c)) \/ (\E d \in Daemon : DaemonStep(d)) \/ AllDone

Spec == Init /\ [][Next]_vars
-----------------------------------------------------------------------------
Locked ==
  {"find again", "probe again", "remove again", "spawn", "await", "release", "give up",
   "check", "clean up"}
Labels ==
  Locked \cup
  {"find", "probe", "remove", "lock", "joined", "connected", "request", "interrupt", "unanswered",
   "terminate", "terminate and exit", "wait", "owned", "remove own", "lock to clean", "done"}
Lives ==
  {"unborn", "starting", "init", "doomed", "serving", "failing", "stopping", "leaving", "draining",
   "dead"}

(* The types of the variables, and that the lock is held by whoever is     *)
(* between taking it and giving it back, failed starts included.           *)
TypeOK ==
  /\ fixedPort \in BOOLEAN /\ file \in Daemon \cup {None}
  /\ life \in [Daemon -> Lives] /\ ready \subseteq Daemon /\ orphaned \subseteq Daemon
  /\ pc \in [Client -> Labels]
  /\ saw \in [Client -> Daemon \cup {None}] /\ started \in [Client -> Daemon \cup {None}]
  /\ lock \in Client \cup {None}
  /\ \A c \in Client : pc[c] \in Locked <=> lock = c

(* One daemon per key: a daemon that serves is the one the session file    *)
(* names, whatever clients start, stop and clean up meanwhile.  Exceptions *)
(* are daemons whose registration was removed or replaced from outside the *)
(* lock, and those whose starter died first.                               *)
LiveIsRegistered == \A d \in Daemon : Registered(d) => d \in orphaned \/ file = d

(* A client that starts a daemon is told of that one, not of one that      *)
(* another client started or stopped at the same time.                     *)
ToldItsOwn ==
  \A c \in Client :
    started[c] # None /\ pc[c] \in {"release", "connected"} =>
      saw[c] = started[c] \/ saw[c] \in orphaned

(* An approved review is removed only while no daemon has it loaded or is  *)
(* about to load it, and after the daemon that served it has exited.       *)
CleanupIsAlone ==
  \A c \in Client : pc[c] = "clean up" =>
    /\ life[saw[c]] = "dead"
    /\ \A d \in Daemon : Registered(d) \/ life[d] = "starting" => d \in orphaned

(* A daemon stops only for a client that meant it, though an old entry's   *)
(* port may be its own by now.                                             *)
OnlyNamedStops ==
  [][\A d \in Daemon : life[d] = "serving" /\ life'[d] = "stopping" =>
       \E c \in Client : saw[c] = d /\ pc[c] # pc'[c]]_vars
=============================================================================
