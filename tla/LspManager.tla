------------------------------ MODULE LspManager ------------------------------
(***************************************************************************)
(* The manager of language servers: one server per language, started by    *)
(* the first request, kept in step with the files of the review, replaced  *)
(* when it dies and shut down when idle.  A request holds its server's     *)
(* lock; whoever drops servers holds the manager's lock and waits for it.  *)
(***************************************************************************)
EXTENDS Naturals, FiniteSets

CONSTANTS
  Lang, Req,  \* languages; goroutines that make requests
  File,       \* files on disk
  LangOf,     \* language of each file
  MaxGen,     \* bound: server states of a language that are remembered
  MaxActs     \* bound: edits, crashes, requests and shutdowns

ASSUME LspAssumption ==
  /\ File # {} /\ LangOf \in [File -> Lang]
  /\ IsFiniteSet(Req) /\ "free" \notin Req
  /\ MaxGen \in Nat \ {0} /\ Cardinality(Req) <= MaxGen /\ MaxActs \in Nat \ {0}

VARIABLES
  disk,       \* content of each file (0: gone) and the time it changed
  listed,     \* files the review lists
  servers,    \* the manager's map: the state of each language, 0 for none
  dropped,    \* states taken out of the map
  lock,       \* holder of every state's mu, or Free
  process,    \* the process behind each state: "none", "up", "dead"
  view,       \* content of the documents open in each process
  synced,     \* what the state believes it sent, and the stat of it
  reviewDocs, \* documents kept open for the review
  managerMu,  \* Free, or who drops servers
  drop,       \* the two ways to drop: an idle timer, Shutdown
  timer,      \* the idle timer is armed
  req,        \* requests
  acts

vars == <<disk, listed, servers, dropped, lock, process, view, synced, reviewDocs, managerMu,
          drop, timer, req, acts>>
files == <<disk, listed>>
docs == <<view, synced, reviewDocs>>
manager == <<servers, dropped, managerMu, drop, timer>>

Gen == 1..MaxGen
State == Lang \X Gen
Dropper == {"idle", "shutdown"}
Free == "free"
Contents == 1..2
NoSync == [content |-> 0, mtime |-> 0]
Act == acts < MaxActs /\ acts' = acts + 1

AnyFile == CHOOSE f \in File : TRUE
NoReq == [at |-> "idle", file |-> AnyFile, gen |-> 0, restarted |-> FALSE, modified |-> 0,
          began |-> 0, docs |-> {}, todo |-> {}, doc |-> AnyFile, read |-> NoSync]
StateOf(r) == <<LangOf[req[r].file], req[r].gen>>

Init ==
  /\ disk = [f \in File |-> [content |-> 1, mtime |-> 1]] /\ listed = File
  /\ servers = [l \in Lang |-> 0] /\ dropped = {}
  /\ lock = [s \in State |-> Free] /\ process = [s \in State |-> "none"]
  /\ view = [s \in State |-> [f \in File |-> 0]]
  /\ synced = [s \in State |-> [f \in File |-> NoSync]]
  /\ reviewDocs = [s \in State |-> {}]
  /\ managerMu = Free /\ drop = [d \in Dropper |-> [at |-> "off", left |-> {}]]
  /\ timer = FALSE
  /\ req = [r \in Req |-> NoReq] /\ acts = 1

At(r, place) == req[r].at = place
-----------------------------------------------------------------------------
(* Agents edit and delete files; a deleted file may leave the file list.   *)

Edit(f) ==
  /\ Act
  /\ \E c \in Contents \ {disk[f].content} :
       disk' = [disk EXCEPT ![f] = [content |-> c, mtime |-> acts + 1]]
  /\ UNCHANGED <<listed, manager, lock, process, docs, req>>
Delete(f) ==
  /\ Act /\ disk[f].content # 0
  /\ disk' = [disk EXCEPT ![f] = [content |-> 0, mtime |-> acts + 1]]
  /\ listed' \in {listed, listed \ {f}}
  /\ UNCHANGED <<manager, lock, process, docs, req>>

(* A server crashes; its client notices at the next call.                  *)
Crash(s) ==
  /\ Act /\ process[s] = "up" /\ process' = [process EXCEPT ![s] = "dead"]
  /\ UNCHANGED <<files, manager, lock, docs, req>>
-----------------------------------------------------------------------------
(* A request: withClient.                                                  *)

Request(r, f) ==
  /\ Act /\ At(r, "idle")
  /\ req' = [req EXCEPT ![r] = [NoReq EXCEPT !.at = "lookup", !.file = f]]
  /\ UNCHANGED <<files, manager, lock, process, docs>>

(* serverFor: under the manager's lock; the idle timer starts again.       *)
(* (A dropped state that no request remembers is collected; its number     *)
(* serves again.)                                                          *)
Unknown(l) == {g \in Gen : \A r \in Req : StateOf(r) # <<l, g>>}
NextGen(l) == IF servers[l] # 0 THEN servers[l] ELSE CHOOSE g \in Unknown(l) : TRUE
(* Mutant: a request that finds a server does not push the timer back.     *)
ServerForUntimed(r) ==
  LET l == LangOf[req[r].file] IN
  /\ req[r].at \in {"lookup", "again"} /\ managerMu = Free
  /\ servers' = [servers EXCEPT ![l] = NextGen(l)] /\ UNCHANGED timer
  /\ req' = [req EXCEPT ![r].at = "lock", ![r].gen = NextGen(l)]
  /\ dropped' = dropped \ {<<l, NextGen(l)>>}
  /\ UNCHANGED <<files, lock, process, docs, managerMu, drop, acts>>
ServerFor(r) ==
  LET l == LangOf[req[r].file] IN
  /\ req[r].at \in {"lookup", "again"} /\ managerMu = Free
  /\ servers' = [servers EXCEPT ![l] = NextGen(l)] /\ timer' = TRUE
  /\ req' = [req EXCEPT ![r].at = "lock", ![r].gen = NextGen(l)]
  /\ dropped' = dropped \ {<<l, NextGen(l)>>}
  /\ UNCHANGED <<files, lock, process, docs, managerMu, drop, acts>>

(* lockServer: a state dropped meanwhile is looked up again.               *)
Take(r) ==
  /\ lock' = [lock EXCEPT ![StateOf(r)] = r]
  /\ req' = [req EXCEPT ![r].at = "ensure"]
LockServer(r) ==
  /\ At(r, "lock") /\ lock[StateOf(r)] = Free
  /\ \/ StateOf(r) \notin dropped /\ Take(r)
     \/ /\ StateOf(r) \in dropped
        /\ req' = [req EXCEPT ![r].at = "again", ![r].gen = 0] /\ UNCHANGED lock
  /\ UNCHANGED <<files, manager, process, docs, acts>>

Unlock(r) ==
  /\ lock' = [lock EXCEPT ![StateOf(r)] = Free]
  /\ req' = [req EXCEPT ![r] = NoReq]

(* ensureClient: a client that is gone is replaced and its documents       *)
(* forgotten; the start may fail.                                          *)
Forget(s) ==
  /\ view' = [view EXCEPT ![s] = [f \in File |-> 0]]
  /\ synced' = [synced EXCEPT ![s] = [f \in File |-> NoSync]]
  /\ reviewDocs' = [reviewDocs EXCEPT ![s] = {}]

EnsureClient(r) ==
  LET s == StateOf(r) IN
  /\ At(r, "ensure")
  /\ \/ process[s] = "up" /\ UNCHANGED <<process, docs>>
     \/ /\ process[s] # "up" /\ Forget(s)
        /\ process' = [process EXCEPT ![s] = "up"]
  /\ req' = [req EXCEPT ![r].at = "stat", ![r].todo = {req[r].file}, ![r].docs = {},
                        ![r].doc = req[r].file, ![r].began = acts]
  /\ UNCHANGED <<files, manager, lock, acts>>
StartFails(r) ==
  LET s == StateOf(r) IN
  /\ At(r, "ensure") /\ process[s] # "up"
  /\ process' = [process EXCEPT ![s] = "none"] /\ Forget(s) /\ Unlock(r)
  /\ UNCHANGED <<files, manager, acts>>
-----------------------------------------------------------------------------
(* syncDocuments: the requested file, then the review's other files of the *)
(* language.  A file is read after its stat is taken; sending it may fail  *)
(* when the process has died.                                              *)

StatFile(r) ==
  /\ At(r, "stat")
  /\ req' = [req EXCEPT ![r].at = "send", ![r].read = disk[req[r].doc]]
  /\ UNCHANGED <<files, manager, lock, process, docs, acts>>
(* What is read was there at the stat or was written over it since;        *)
(* content 0: the file could not be opened.                                *)
ReadFileStat(r) ==
  {req[r].read} \cup IF req[r].read.content = 0 \/ disk[req[r].doc].content = 0 THEN {}
                     ELSE {[req[r].read EXCEPT !.content = disk[req[r].doc].content]}

Done(r, kept) ==
  req' = [req EXCEPT ![r].at = IF req[r].doc = req[r].file THEN "list" ELSE "review",
                     ![r].todo = @ \ {req[r].doc}, ![r].docs = kept, ![r].read = NoSync]

(* syncFile sends a document that is new to the server; reviewDocs marks   *)
(* it unless it is the requested one.                                      *)
SyncFile(r) ==
  LET s == StateOf(r)
      f == req[r].doc
  IN
  /\ At(r, "send")
  /\ \E read \in ReadFileStat(r) :
       /\ read.content # 0
       /\ view' = IF synced[s][f].content # read.content /\ process[s] = "up"
                  THEN [view EXCEPT ![s][f] = read.content] ELSE view
       /\ synced' = [synced EXCEPT ![s][f] = read]
  /\ reviewDocs' = IF f = req[r].file THEN reviewDocs
                   ELSE [reviewDocs EXCEPT ![s] = @ \cup {f}]
  /\ Done(r, req[r].docs)
  /\ UNCHANGED <<files, manager, lock, process, acts>>

(* A file that is gone, or a send that failed, ends the request it was     *)
(* asked about; another document is no longer kept.                        *)
SyncFails(r) ==
  LET f == req[r].doc IN
  /\ At(r, "send") /\ (req[r].read.content = 0 \/ process[StateOf(r)] = "dead")
  /\ \/ f = req[r].file /\ Unlock(r)
     \/ f # req[r].file /\ Done(r, req[r].docs \ {f}) /\ UNCHANGED lock
  /\ UNCHANGED <<files, manager, process, docs, acts>>

(* sessionDocuments, asked anew by every request.                          *)
ListDocuments(r) ==
  LET found == {f \in listed \ {req[r].file} : LangOf[f] = LangOf[req[r].file]} IN
  /\ At(r, "list")
  /\ req' = [req EXCEPT ![r].at = "review", ![r].docs = found, ![r].todo = found]
  /\ UNCHANGED <<files, manager, lock, process, docs, acts>>

(* unchangedOnDisk: a document whose stat is the one last sent is kept.    *)
UnchangedOnDisk(s, f) ==
  synced[s][f].content # 0 /\ disk[f].content # 0 /\ synced[s][f].mtime = disk[f].mtime
NextDocument(r, f) ==
  LET s == StateOf(r) IN
  /\ At(r, "review") /\ f \in req[r].todo
  /\ \/ /\ UnchangedOnDisk(s, f)
        /\ reviewDocs' = [reviewDocs EXCEPT ![s] = @ \cup {f}]
        /\ req' = [req EXCEPT ![r].todo = @ \ {f}]
     \/ /\ ~UnchangedOnDisk(s, f)
        /\ req' = [req EXCEPT ![r].doc = f, ![r].at = "stat"]
        /\ UNCHANGED reviewDocs
  /\ UNCHANGED <<files, manager, lock, process, view, synced, acts>>

(* What the review no longer has is closed, but for the requested file.    *)
CloseDocuments(r) ==
  LET s == StateOf(r)
      stale == reviewDocs[s] \ (req[r].docs \cup {req[r].file})
  IN
  /\ At(r, "review") /\ req[r].todo = {}
  /\ reviewDocs' = [reviewDocs EXCEPT ![s] = @ \ stale]
  /\ synced' = [synced EXCEPT ![s] = [f \in File |-> IF f \in stale THEN NoSync ELSE @[f]]]
  /\ view' = [view EXCEPT ![s] = [f \in File |-> IF f \in stale THEN 0 ELSE @[f]]]
  /\ req' = [req EXCEPT ![r].at = "call"]
  /\ UNCHANGED <<files, manager, lock, process, acts>>

(* The call itself: an answer or an error ends it; a server found dead is  *)
(* replaced once; an answer dropped for a change is asked for again, the   *)
(* documents synchronised anew.                                            *)
MaxModified == 2
(* Mutant: the idle timer is pushed back when the call ends as well.       *)
AnswerTouchesTimer(r) ==
  /\ At(r, "call") /\ (process[StateOf(r)] = "up" \/ req[r].restarted)
  /\ managerMu = Free /\ timer' = TRUE
  /\ Unlock(r) /\ UNCHANGED <<files, servers, dropped, managerMu, drop, process, docs, acts>>
Answer(r) ==
  /\ At(r, "call") /\ (process[StateOf(r)] = "up" \/ req[r].restarted)
  /\ Unlock(r) /\ UNCHANGED <<files, manager, process, docs, acts>>
Restart(r) ==
  /\ At(r, "call") /\ process[StateOf(r)] # "up" /\ ~req[r].restarted
  /\ req' = [req EXCEPT ![r].at = "ensure", ![r].restarted = TRUE]
  /\ UNCHANGED <<files, manager, lock, process, docs, acts>>
AskAgain(r) ==
  /\ At(r, "call") /\ process[StateOf(r)] = "up" /\ req[r].modified < MaxModified
  /\ req' = [req EXCEPT ![r].at = "ensure", ![r].modified = @ + 1]
  /\ UNCHANGED <<files, manager, lock, process, docs, acts>>
-----------------------------------------------------------------------------
(* Dropping servers.  Stop does not call back a timer that has fired.      *)

Want(d) == drop' = [drop EXCEPT ![d].at = "want"]

(* The idle timeout is longer than the time between a request's lookups    *)
(* and its turn at the lock.                                               *)
TimerFires ==
  /\ timer /\ drop["idle"].at = "off" /\ \A r \in Req : req[r].at \notin {"lock", "again"}
  /\ timer' = FALSE /\ Want("idle")
  /\ UNCHANGED <<files, servers, dropped, managerMu, lock, process, docs, req, acts>>
ShutdownCalled ==
  /\ Act /\ drop["shutdown"].at = "off" /\ Want("shutdown")
  /\ UNCHANGED <<files, servers, dropped, managerMu, timer, lock, process, docs, req>>

DropStarts(d) ==
  /\ drop[d].at = "want" /\ managerMu = Free
  /\ managerMu' = d
  /\ timer' = (timer /\ d # "shutdown")
  /\ drop' = [drop EXCEPT ![d] = [at |-> "drop", left |-> {l \in Lang : servers[l] # 0}]]
  /\ UNCHANGED <<files, servers, dropped, lock, process, docs, req, acts>>

(* dropServerLocked waits for the request in flight; the mutant does not.  *)
DropHasty(d, l) ==
  LET s == <<l, servers[l]>> IN
  /\ drop[d].at = "drop" /\ l \in drop[d].left
  /\ servers' = [servers EXCEPT ![l] = 0] /\ dropped' = dropped \cup {s}
  /\ process' = [process EXCEPT ![s] = "none"]
  /\ drop' = [drop EXCEPT ![d].left = @ \ {l}]
  /\ UNCHANGED <<files, managerMu, timer, lock, docs, req, acts>>
DropServer(d, l) ==
  LET s == <<l, servers[l]>> IN
  /\ drop[d].at = "drop" /\ l \in drop[d].left /\ lock[s] = Free
  /\ servers' = [servers EXCEPT ![l] = 0] /\ dropped' = dropped \cup {s}
  /\ process' = [process EXCEPT ![s] = "none"]
  /\ drop' = [drop EXCEPT ![d].left = @ \ {l}]
  /\ Forget(s)
  /\ UNCHANGED <<files, managerMu, timer, lock, req, acts>>
DropEnds(d) ==
  /\ drop[d].at = "drop" /\ drop[d].left = {}
  /\ managerMu' = Free /\ drop' = [drop EXCEPT ![d].at = "off"]
  /\ UNCHANGED <<files, servers, dropped, timer, lock, process, docs, req, acts>>

Step(r) ==
  \/ ServerFor(r) \/ LockServer(r) \/ EnsureClient(r) \/ StartFails(r) \/ StatFile(r)
  \/ SyncFile(r) \/ SyncFails(r) \/ ListDocuments(r)
  \/ (\E f \in File : NextDocument(r, f)) \/ CloseDocuments(r)
  \/ Answer(r) \/ Restart(r) \/ AskAgain(r)
Drop(d) == DropStarts(d) \/ (\E l \in Lang : DropServer(d, l)) \/ DropEnds(d)

Next ==
  \/ \E f \in File : Edit(f) \/ Delete(f)
  \/ \E s \in State : Crash(s)
  \/ \E r \in Req : (\E f \in File : Request(r, f)) \/ Step(r)
  \/ TimerFires \/ ShutdownCalled \/ (\E d \in Dropper : Drop(d))

(* Goroutines run on and timers fire.  A lock is not asked for forever: the *)
(* requests are finitely many, so weak fairness hands it over.              *)
Spec == Init /\ [][Next]_vars
FairSpec ==
  /\ Spec
  /\ \A r \in Req : WF_vars(Step(r))
  /\ \A d \in Dropper : WF_vars(Drop(d))
  /\ WF_vars(TimerFires)
-----------------------------------------------------------------------------
TypeOK ==
  /\ disk \in [File -> [content : 0..2, mtime : 1..MaxActs]] /\ listed \subseteq File
  /\ servers \in [Lang -> 0..MaxGen] /\ dropped \subseteq State
  /\ lock \in [State -> Req \cup {Free}] /\ process \in [State -> {"none", "up", "dead"}]
  /\ view \in [State -> [File -> 0..2]]
  /\ synced \in [State -> [File -> [content : 0..2, mtime : 0..MaxActs]]]
  /\ reviewDocs \in [State -> SUBSET File]
  /\ managerMu \in Dropper \cup {Free} /\ timer \in BOOLEAN
  /\ drop \in [Dropper -> [at : {"off", "want", "drop"}, left : SUBSET Lang]]
  /\ \A r \in Req : /\ req[r].modified \in 0..MaxModified
                     /\ req[r].docs \subseteq listed \cup {f \in File : disk[f].mtime > 1}
  /\ acts \in 1..MaxActs

Holding == {"ensure", "stat", "send", "list", "review", "call"}

(* A transport is never closed under a request: whoever works with a       *)
(* server's state holds its lock, alone, and the state has not been        *)
(* dropped; processes run only behind states the manager can still find    *)
(* and stop.                                                               *)
NoTransportYanked ==
  \A r \in Req : req[r].at \in Holding =>
    lock[StateOf(r)] = r /\ StateOf(r) \notin dropped
NoOrphanServer ==
  \A s \in State : process[s] # "none" => servers[s[1]] = s[2]

(* When the question is put to the server, it sees every file of the       *)
(* review, and the one asked about, as on disk, unless the file changed    *)
(* after the request began to synchronise: edited files are sent, deleted  *)
(* ones closed, and no stat hides an edit.                                 *)
AnswersFromCurrentFiles ==
  \A r \in Req : LET s == StateOf(r) IN
    At(r, "call") /\ process[s] = "up" =>
      \A f \in req[r].docs \cup {req[r].file} \cup reviewDocs[s] :
        disk[f].mtime <= req[r].began => view[s][f] = disk[f].content

(* Requests end, though droppers wait for them and they for droppers; a    *)
(* server nobody asks is stopped.                                          *)
RequestsEnd == \A r \in Req : []<>(req[r].at = "idle")
IdleServersStop == \A s \in State : []<>(process[s] # "up")
(* The language servers are in order in every state: used by one request   *)
(* at a time, stopped under none, left behind by none, and as up to date   *)
(* as the files when they answer.                                          *)
ServersAreSound == TypeOK /\ NoTransportYanked /\ NoOrphanServer /\ AnswersFromCurrentFiles
=============================================================================
