--------------------------- MODULE LspManagerProofs ---------------------------
(***************************************************************************)
(* The language servers are in order, for any numbers of languages, files, *)
(* requests, crashes and edits.                                            *)
(***************************************************************************)
EXTENDS LspManager, FiniteSetTheorems, TLAPS

Seeking == {"lookup", "again"}
Requests ==
  [at : Holding \cup Seeking \cup {"idle", "lock"}, file : File, gen : 0..MaxGen,
   restarted : BOOLEAN, modified : 0..MaxModified, began : 0..MaxActs, docs : SUBSET File,
   todo : SUBSET File, doc : File, read : [content : 0..2, mtime : 0..MaxActs]]
Types ==
  /\ disk \in [File -> [content : 0..2, mtime : 1..MaxActs]] /\ listed \subseteq File
  /\ servers \in [Lang -> 0..MaxGen] /\ dropped \subseteq State
  /\ lock \in [State -> Req \cup {Free}] /\ process \in [State -> {"none", "up", "dead"}]
  /\ view \in [State -> [File -> 0..2]]
  /\ synced \in [State -> [File -> [content : 0..2, mtime : 0..MaxActs]]]
  /\ reviewDocs \in [State -> SUBSET File]
  /\ managerMu \in Dropper \cup {Free} /\ timer \in BOOLEAN
  /\ drop \in [Dropper -> [at : {"off", "want", "drop"}, left : SUBSET Lang]]
  /\ req \in [Req -> Requests]
  /\ acts \in 1..MaxActs

(* Who has looked up a state has one that the manager still finds, or one  *)
(* that is marked as dropped; who holds its lock has one that it finds.    *)
Current(s) == servers[s[1]] = s[2]
Lookup(r) ==
  /\ req[r].at \in Seeking \cup {"idle"} => req[r].gen = 0
  /\ req[r].at \notin Seeking \cup {"idle"} => req[r].gen \in Gen
  /\ req[r].at = "lock" => StateOf(r) \in dropped \/ Current(StateOf(r))
  /\ req[r].at \in Holding => lock[StateOf(r)] = r /\ Current(StateOf(r))
LocksOK ==
  /\ \A r \in Req : Lookup(r)
  /\ \A s \in dropped : ~Current(s)
  /\ NoOrphanServer

(* One drops servers at a time, and those that are there.                  *)
DropsOK == \A d \in Dropper :
  /\ drop[d].at = "drop" <=> managerMu = d
  /\ managerMu = d => \A l \in drop[d].left : servers[l] # 0

(* A stat that still holds vouches for what was read after it, and a       *)
(* server that is up has what was sent to it.                              *)
Past(x, f) ==
  /\ x.mtime <= acts
  /\ x.content # 0 /\ x.mtime = disk[f].mtime => x.content = disk[f].content
DocumentsOK ==
  /\ \A f \in File : disk[f].mtime <= acts
  /\ \A s \in State : \A f \in File :
       /\ Past(synced[s][f], f)
       /\ process[s] = "up" => view[s][f] = synced[s][f].content

(* What a request has been through is in step with the disk as it was when *)
(* the request began, or the disk has changed since.                       *)
Following(r, f) ==
  disk[f].mtime <= req[r].began => synced[StateOf(r)][f].content = disk[f].content
BeyondFile(r) ==
  \/ req[r].at \in {"review", "call"}
  \/ req[r].at \in {"stat", "send"} /\ req[r].doc # req[r].file
Synchronises(r) ==
  /\ req[r].began <= acts
  /\ req[r].at = "send" =>
       /\ Past(req[r].read, req[r].doc)
       /\ disk[req[r].doc].mtime <= req[r].began => req[r].read = disk[req[r].doc]
  /\ req[r].at = "list" => Following(r, req[r].file)
  /\ BeyondFile(r) =>
       /\ req[r].file \notin req[r].todo
       /\ \A f \in (req[r].docs \cup {req[r].file}) \ req[r].todo : Following(r, f)
  /\ req[r].at = "call" =>
       /\ req[r].todo = {}
       /\ reviewDocs[StateOf(r)] \subseteq req[r].docs \cup {req[r].file}
RequestsOK == \A r \in Req : Synchronises(r)

(* A document of a request was listed, or its file has changed since.      *)
ListsOK == \A r \in Req :
  req[r].docs \subseteq listed \cup {f \in File : disk[f].mtime > 1}

LspInv == Types /\ LocksOK /\ DropsOK /\ DocumentsOK /\ RequestsOK /\ ListsOK
-----------------------------------------------------------------------------
(* Numbers of states.                                                      *)

LEMMA StatesOfRequests ==
  ASSUME LspAssumption, Types, NEW r \in Req, req[r].gen \in Gen
  PROVE  StateOf(r) \in State /\ StateOf(r)[1] = LangOf[req[r].file] /\ StateOf(r)[2] = req[r].gen
<1>1. req[r].file \in File
  BY DEF Types, Requests
<1> QED BY <1>1 DEF LspAssumption, StateOf, State

(* There are as many numbers as requests, so one that looks for a server   *)
(* finds a number that no other remembers.                                 *)
LEMMA SomeUnknown ==
  ASSUME LspAssumption, Types, NEW r \in Req, req[r].gen = 0, NEW l \in Lang
  PROVE  \E g \in Unknown(l) : TRUE
<1> SUFFICES ASSUME Unknown(l) = {} PROVE FALSE
  OBVIOUS
<1> DEFINE S == {q \in Req \ {r} : req[q].gen \in Gen}
<1> DEFINE number == [q \in S |-> req[q].gen]
<1>1. number \in Surjection(S, Gen)
  <2>1. number \in [S -> Gen]
    OBVIOUS
  <2>2. ASSUME NEW g \in Gen PROVE \E q \in S : number[q] = g
    <3>1. PICK q \in Req : StateOf(q) = <<l, g>>
      BY DEF Unknown
    <3>2. req[q].gen = g
      BY <3>1 DEF StateOf
    <3>3. g # 0
      BY DEF Gen
    <3> QED BY <3>2, <3>3
  <2> QED BY <2>1, <2>2 DEF Surjection
<1>2. /\ IsFiniteSet(Req \ {r}) /\ Cardinality(Req \ {r}) = Cardinality(Req) - 1
      /\ Cardinality(Req) \in Nat
  BY FS_RemoveElement, FS_CardinalityType DEF LspAssumption
<1>3. S \in SUBSET (Req \ {r})
  OBVIOUS
<1>4. IsFiniteSet(S) /\ Cardinality(S) <= Cardinality(Req \ {r})
  BY <1>2, <1>3, FS_Subset
<1>5. Cardinality(Gen) <= Cardinality(S)
  BY <1>1, <1>4, FS_Surjection
<1>6. Cardinality(Gen) = MaxGen
  <2>1. 1 \in Int /\ MaxGen \in Int /\ ~(1 > MaxGen) /\ MaxGen - 1 + 1 = MaxGen
    BY DEF LspAssumption
  <2> QED BY <2>1, FS_Interval DEF Gen
<1>7. Cardinality(S) \in Nat
  BY <1>4, FS_CardinalityType
<1>8. Cardinality(Req) <= MaxGen /\ MaxGen \in Nat
  BY DEF LspAssumption
<1> HIDE DEF S, number
<1> QED BY <1>2, <1>4, <1>5, <1>6, <1>7, <1>8

LEMMA NextGenIsNumber ==
  ASSUME LspAssumption, Types, NEW r \in Req, req[r].gen = 0, NEW l \in Lang
  PROVE  /\ NextGen(l) \in Gen
         /\ servers[l] # 0 => NextGen(l) = servers[l]
         /\ servers[l] = 0 => \A q \in Req : StateOf(q) # <<l, NextGen(l)>>
<1>1. CASE servers[l] # 0
  BY <1>1 DEF NextGen, Types, Gen, LspAssumption
<1>2. CASE servers[l] = 0
  <2>1. NextGen(l) \in Unknown(l)
    BY <1>2, SomeUnknown DEF NextGen
  <2> QED BY <1>2, <2>1 DEF Unknown
<1> QED BY <1>1, <1>2

LEMMA AnyFileIsFile == ASSUME LspAssumption PROVE AnyFile \in File
BY DEF AnyFile, LspAssumption

LEMMA InitHolds == LspAssumption /\ Init => LspInv
<1> SUFFICES ASSUME LspAssumption, Init PROVE LspInv
  OBVIOUS
<1> USE AnyFileIsFile
<1>1. Types
  <2>1. NoReq \in Requests /\ NoSync \in [content : 0..2, mtime : 0..MaxActs]
    BY DEF NoReq, NoSync, Requests, Seeking, MaxModified, LspAssumption
  <2>2. 1 \in 1..MaxActs /\ 0 \in 0..2 /\ 1 \in 0..2 /\ 0 \in 0..MaxGen
    BY DEF LspAssumption
  <2> QED BY <2>1, <2>2 DEF Init, Types, Dropper
<1>2. \A r \in Req : req[r] = NoReq
  BY DEF Init
<1>3. LocksOK /\ DropsOK
  BY <1>2 DEF Init, LocksOK, Lookup, NoOrphanServer, DropsOK, NoReq, Seeking, Holding, Free, Dropper
<1>4. DocumentsOK /\ RequestsOK /\ ListsOK
  BY <1>2 DEF Init, DocumentsOK, Past, RequestsOK, Synchronises, BeyondFile, NoSync, NoReq, ListsOK
<1> QED BY <1>1, <1>3, <1>4 DEF LspInv
-----------------------------------------------------------------------------
(* The types.                                                              *)

LEMMA NoReqIsTyped == LspAssumption => NoReq \in Requests
BY AnyFileIsFile DEF NoReq, NoSync, Requests, Seeking, MaxModified, LspAssumption

LEMMA ForgetTypes ==
  ASSUME LspAssumption, Types, NEW s \in State, Forget(s)
  PROVE  /\ view' \in [State -> [File -> 0..2]]
         /\ synced' \in [State -> [File -> [content : 0..2, mtime : 0..MaxActs]]]
         /\ reviewDocs' \in [State -> SUBSET File]
<1>1. NoSync \in [content : 0..2, mtime : 0..MaxActs]
  BY DEF NoSync, LspAssumption
<1> QED BY <1>1 DEF Types, Forget

LEMMA OneRequestTypes ==
  ASSUME Types, NEW r \in Req, NEW x \in Requests, req' = [req EXCEPT ![r] = x]
  PROVE  req' \in [Req -> Requests]
BY DEF Types

LEMMA DropTypes ==
  ASSUME Types, NEW d \in Dropper
  PROVE  /\ \A where \in {"off", "want", "drop"} :
              [drop EXCEPT ![d].at = where] \in
                [Dropper -> [at : {"off", "want", "drop"}, left : SUBSET Lang]]
         /\ \A left \in SUBSET Lang :
              [drop EXCEPT ![d].left = left] \in
                [Dropper -> [at : {"off", "want", "drop"}, left : SUBSET Lang]]
         /\ drop[d].left \subseteq Lang
BY DEF Types

LEMMA OutsideTypes ==
  ASSUME LspAssumption, Types, DropsOK,
         \/ \E f \in File : Edit(f) \/ Delete(f)
         \/ \E s \in State : Crash(s)
         \/ TimerFires \/ ShutdownCalled
         \/ \E d \in Dropper : Drop(d)
  PROVE  Types'
<1>1. acts' = acts + 1 /\ acts < MaxActs => acts' \in 1..MaxActs
  BY DEF Types, LspAssumption
<1>2. ASSUME NEW f \in File, Edit(f) \/ Delete(f) PROVE Types'
  <2>1. \A c \in 0..2 : [content |-> c, mtime |-> acts + 1] \in [content : 0..2, mtime : 1..MaxActs]
    BY <1>2 DEF Edit, Delete, Act, Types, LspAssumption
  <2>2. disk' \in [File -> [content : 0..2, mtime : 1..MaxActs]]
    <3>1. \E c \in 0..2 : disk' = [disk EXCEPT ![f] = [content |-> c, mtime |-> acts + 1]]
      BY <1>2 DEF Edit, Delete, Contents
    <3> QED BY <2>1, <3>1 DEF Types
  <2> QED BY <1>1, <1>2, <2>2 DEF Edit, Delete, Act, Types, manager, docs
<1>3. ASSUME NEW s \in State, Crash(s) PROVE Types'
  BY <1>1, <1>3 DEF Crash, Act, Types, files, manager, docs
<1>4. CASE TimerFires \/ ShutdownCalled
  <2>1. drop' \in [Dropper -> [at : {"off", "want", "drop"}, left : SUBSET Lang]]
    BY <1>4, DropTypes DEF TimerFires, ShutdownCalled, Want, Dropper
  <2> QED BY <1>1, <1>4, <2>1 DEF TimerFires, ShutdownCalled, Act, Types, files, docs
<1>5. ASSUME NEW d \in Dropper, DropStarts(d) PROVE Types'
  <2>1. drop' \in [Dropper -> [at : {"off", "want", "drop"}, left : SUBSET Lang]]
    BY <1>5 DEF DropStarts, Types
  <2> QED BY <1>5, <2>1 DEF DropStarts, Types, files, docs
<1>6. ASSUME NEW d \in Dropper, NEW l \in Lang, DropServer(d, l) PROVE Types'
  <2>1. <<l, servers[l]>> \in State
    BY <1>6 DEF DropServer, DropsOK, State, Gen, Types, LspAssumption, Dropper
  <2>2. drop' \in [Dropper -> [at : {"off", "want", "drop"}, left : SUBSET Lang]]
    BY <1>6, DropTypes DEF DropServer
  <2>3. /\ servers' \in [Lang -> 0..MaxGen] /\ dropped' \subseteq State
        /\ process' \in [State -> {"none", "up", "dead"}]
    <3>1. 0 \in 0..MaxGen /\ "none" \in {"none", "up", "dead"}
      BY DEF LspAssumption
    <3>2. servers' = [servers EXCEPT ![l] = 0] /\ dropped' = dropped \cup {<<l, servers[l]>>}
          /\ process' = [process EXCEPT ![<<l, servers[l]>>] = "none"]
      BY <1>6 DEF DropServer
    <3>3. servers' \in [Lang -> 0..MaxGen]
      BY <3>1, <3>2 DEF Types
    <3>4. dropped' \subseteq State
      BY <2>1, <3>2 DEF Types
    <3>5. process' \in [State -> {"none", "up", "dead"}]
      BY <3>1, <3>2 DEF Types
    <3> QED BY <3>3, <3>4, <3>5
  <2>4. /\ view' \in [State -> [File -> 0..2]]
        /\ synced' \in [State -> [File -> [content : 0..2, mtime : 0..MaxActs]]]
        /\ reviewDocs' \in [State -> SUBSET File]
    BY <1>6, <2>1, ForgetTypes DEF DropServer
  <2>5. UNCHANGED <<files, managerMu, timer, lock, req, acts>>
    BY <1>6 DEF DropServer
  <2> QED BY <2>2, <2>3, <2>4, <2>5 DEF Types, files
<1>7. ASSUME NEW d \in Dropper, DropEnds(d) PROVE Types'
  <2>1. drop' \in [Dropper -> [at : {"off", "want", "drop"}, left : SUBSET Lang]]
    BY <1>7, DropTypes DEF DropEnds
  <2> QED BY <1>7, <2>1 DEF DropEnds, Types, files, docs
<1> QED BY <1>2, <1>3, <1>4, <1>5, <1>6, <1>7 DEF Drop

(* The record of a request after each change that its steps make to it.    *)
LEMMA RequestFields ==
  ASSUME LspAssumption, NEW x \in Requests
  PROVE  /\ \A f \in File : [NoReq EXCEPT !.at = "lookup", !.file = f] \in Requests
         /\ \A g \in 0..MaxGen : [x EXCEPT !.at = "lock", !.gen = g] \in Requests
         /\ [x EXCEPT !.at = "again", !.gen = 0] \in Requests
         /\ \A p \in Holding : [x EXCEPT !.at = p] \in Requests
         /\ \A b \in 0..MaxActs :
              [x EXCEPT !.at = "stat", !.todo = {x.file}, !.docs = {}, !.doc = x.file,
                        !.began = b] \in Requests
         /\ \A d \in [content : 0..2, mtime : 0..MaxActs] :
              [x EXCEPT !.at = "send", !.read = d] \in Requests
         /\ \A p \in Holding, t, k \in SUBSET File :
              [x EXCEPT !.at = p, !.todo = t, !.docs = k, !.read = NoSync] \in Requests
         /\ \A p \in Holding, k \in SUBSET File :
              [x EXCEPT !.at = p, !.docs = k, !.todo = k] \in Requests
         /\ \A f \in File : [x EXCEPT !.todo = @ \ {f}] \in Requests
         /\ \A f \in File : [x EXCEPT !.doc = f, !.at = "stat"] \in Requests
         /\ [x EXCEPT !.at = "ensure", !.restarted = TRUE] \in Requests
         /\ \A n \in 0..MaxModified : [x EXCEPT !.at = "ensure", !.modified = n] \in Requests
         /\ x.file \in File /\ x.doc \in File /\ x.docs \subseteq File /\ x.todo \subseteq File
         /\ x.read \in [content : 0..2, mtime : 0..MaxActs] /\ x.modified \in 0..MaxModified
<1>1. 0 \in 0..MaxGen /\ NoSync \in [content : 0..2, mtime : 0..MaxActs]
  BY DEF NoSync, LspAssumption
<1> QED BY <1>1, NoReqIsTyped DEF Requests, Holding, Seeking

LEMMA RequestTypes ==
  ASSUME LspAssumption, Types, LocksOK, NEW r \in Req,
         (\E f \in File : Request(r, f)) \/ Step(r)
  PROVE  req' \in [Req -> Requests]
<1> DEFINE x == req[r]
<1>1. x \in Requests
  BY DEF Types
<1>2. acts \in 0..MaxActs /\ disk \in [File -> [content : 0..2, mtime : 0..MaxActs]]
  BY DEF Types, LspAssumption
<1>3. \A y \in Requests : req' = [req EXCEPT ![r] = y] => req' \in [Req -> Requests]
  BY OneRequestTypes
<1>4. Unlock(r) => req' \in [Req -> Requests]
  BY <1>3, NoReqIsTyped DEF Unlock
<1>5. \A kept \in SUBSET File : Done(r, kept) => req' \in [Req -> Requests]
  <2> SUFFICES ASSUME NEW kept \in SUBSET File, Done(r, kept) PROVE req' \in [Req -> Requests]
    OBVIOUS
  <2> DEFINE p == IF x.doc = x.file THEN "list" ELSE "review"
  <2>1. req' = [req EXCEPT ![r] = [x EXCEPT !.at = p, !.todo = x.todo \ {x.doc},
                                            !.docs = kept, !.read = NoSync]]
    BY DEF Done
  <2>2. p \in Holding /\ x.todo \ {x.doc} \in SUBSET File
    BY <1>1, RequestFields DEF Holding
  <2> HIDE DEF p
  <2> QED BY <1>1, <1>3, <2>1, <2>2, RequestFields
<1>6. ASSUME NEW f \in File, Request(r, f) PROVE req' \in [Req -> Requests]
  BY <1>1, <1>3, <1>6, RequestFields DEF Request
<1>7. CASE ServerFor(r)
  <2>1. NextGen(LangOf[x.file]) \in 0..MaxGen
    <3>1. LangOf[x.file] \in Lang
      BY <1>1, RequestFields DEF LspAssumption
    <3>2. x.gen = 0
      BY <1>7 DEF ServerFor, LocksOK, Lookup, Seeking
    <3>3. NextGen(LangOf[x.file]) \in Gen
      BY <3>1, <3>2, NextGenIsNumber
    <3> QED BY <3>3 DEF Gen, LspAssumption
  <2>2. req' = [req EXCEPT ![r] = [x EXCEPT !.at = "lock", !.gen = NextGen(LangOf[x.file])]]
    BY <1>7 DEF ServerFor
  <2> QED BY <1>1, <1>3, <2>1, <2>2, RequestFields
<1>8. CASE LockServer(r)
  <2>1. \/ req' = [req EXCEPT ![r] = [x EXCEPT !.at = "ensure"]]
        \/ req' = [req EXCEPT ![r] = [x EXCEPT !.at = "again", !.gen = 0]]
    BY <1>8 DEF LockServer, Take
  <2> QED BY <1>1, <1>3, <2>1, RequestFields DEF Holding
<1>9. CASE EnsureClient(r)
  <2>1. req' = [req EXCEPT ![r] = [x EXCEPT !.at = "stat", !.todo = {x.file}, !.docs = {},
                                            !.doc = x.file, !.began = acts]]
    BY <1>9 DEF EnsureClient
  <2> QED BY <1>1, <1>2, <1>3, <2>1, RequestFields
<1>10. CASE StartFails(r) \/ Answer(r)
  BY <1>4, <1>10 DEF StartFails, Answer
<1>11. CASE StatFile(r)
  <2>1. req' = [req EXCEPT ![r] = [x EXCEPT !.at = "send", !.read = disk[x.doc]]]
    BY <1>11 DEF StatFile
  <2> QED BY <1>1, <1>2, <1>3, <2>1, RequestFields
<1>12. CASE SyncFile(r)
  BY <1>1, <1>5, <1>12, RequestFields DEF SyncFile
<1>13. CASE SyncFails(r)
  <2>1. x.docs \ {x.doc} \in SUBSET File
    BY <1>1, RequestFields
  <2> QED BY <1>4, <1>5, <1>13, <2>1 DEF SyncFails
<1>14. CASE ListDocuments(r)
  <2> DEFINE found == {f \in listed \ {x.file} : LangOf[f] = LangOf[x.file]}
  <2>1. req' = [req EXCEPT ![r] = [x EXCEPT !.at = "review", !.docs = found, !.todo = found]]
    BY <1>14 DEF ListDocuments
  <2>2. found \in SUBSET File
    BY DEF Types
  <2> QED BY <1>1, <1>3, <2>1, <2>2, RequestFields DEF Holding
<1>15. ASSUME NEW f \in File, NextDocument(r, f) PROVE req' \in [Req -> Requests]
  <2>1. \/ req' = [req EXCEPT ![r] = [x EXCEPT !.todo = @ \ {f}]]
        \/ req' = [req EXCEPT ![r] = [x EXCEPT !.doc = f, !.at = "stat"]]
    BY <1>15 DEF NextDocument
  <2> QED BY <1>1, <1>3, <2>1, RequestFields
<1>16. CASE CloseDocuments(r)
  <2>1. req' = [req EXCEPT ![r] = [x EXCEPT !.at = "call"]]
    BY <1>16 DEF CloseDocuments
  <2> QED BY <1>1, <1>3, <2>1, RequestFields DEF Holding
<1>17. CASE Restart(r)
  <2>1. req' = [req EXCEPT ![r] = [x EXCEPT !.at = "ensure", !.restarted = TRUE]]
    BY <1>17 DEF Restart
  <2> QED BY <1>1, <1>3, <2>1, RequestFields
<1>18. CASE AskAgain(r)
  <2>1. req' = [req EXCEPT ![r] = [x EXCEPT !.at = "ensure", !.modified = x.modified + 1]]
    BY <1>18 DEF AskAgain
  <2>2. x.modified + 1 \in 0..MaxModified
    <3>1. x.modified \in 0..MaxModified /\ x.modified < MaxModified
      BY <1>1, <1>18, RequestFields DEF AskAgain
    <3> QED BY <3>1 DEF MaxModified
  <2> QED BY <1>1, <1>3, <2>1, <2>2, RequestFields
<1> QED BY <1>6, <1>7, <1>8, <1>9, <1>10, <1>11, <1>12, <1>13, <1>14, <1>15, <1>16, <1>17,
           <1>18 DEF Step

LEMMA StepTypes ==
  ASSUME LspAssumption, Types, LocksOK, NEW r \in Req,
         (\E f \in File : Request(r, f)) \/ Step(r)
  PROVE  Types'
<1>1. req' \in [Req -> Requests]
  BY RequestTypes
<1>2. ASSUME req[r].gen \in Gen PROVE StateOf(r) \in State
  BY <1>2, StatesOfRequests
<1>3. Unlock(r) => lock' \in [State -> Req \cup {Free}]
  BY DEF Unlock, Types
<1>4. ASSUME NEW f \in File, Request(r, f) PROVE Types'
  <2>1. acts' \in 1..MaxActs
    <3>1. acts < MaxActs /\ acts' = acts + 1
      BY <1>4 DEF Request, Act
    <3>2. acts \in 1..MaxActs /\ MaxActs \in Nat
      BY DEF Types, LspAssumption
    <3> QED BY <3>1, <3>2
  <2> QED BY <1>1, <1>4, <2>1 DEF Request, Types, files, manager, docs
<1>5. CASE ServerFor(r)
  <2>1. NextGen(LangOf[req[r].file]) \in 0..MaxGen
    <3>1. LangOf[req[r].file] \in Lang
      BY DEF Types, Requests, LspAssumption
    <3>2. req[r].gen = 0
      BY <1>5 DEF ServerFor, LocksOK, Lookup, Seeking
    <3>3. NextGen(LangOf[req[r].file]) \in Gen
      BY <3>1, <3>2, NextGenIsNumber
    <3> QED BY <3>3 DEF Gen, LspAssumption
  <2>2. servers' \in [Lang -> 0..MaxGen] /\ dropped' \subseteq State
    BY <1>5, <2>1 DEF ServerFor, Types
  <2> QED BY <1>1, <1>5, <2>2 DEF ServerFor, Types, files, docs
<1>6. CASE LockServer(r)
  <2>1. lock' \in [State -> Req \cup {Free}]
    BY <1>6 DEF LockServer, Take, Types
  <2> QED BY <1>1, <1>6, <2>1 DEF LockServer, Types, files, manager, docs
<1>7. CASE EnsureClient(r) \/ StartFails(r)
  <2>1. StateOf(r) \in State
    <3>1. req[r].at = "ensure"
      BY <1>7 DEF EnsureClient, StartFails, At
    <3> QED BY <1>2, <3>1 DEF LocksOK, Lookup, Seeking
  <2>2. process' \in [State -> {"none", "up", "dead"}]
    BY <1>7 DEF EnsureClient, StartFails, Types
  <2>3. /\ view' \in [State -> [File -> 0..2]]
        /\ synced' \in [State -> [File -> [content : 0..2, mtime : 0..MaxActs]]]
        /\ reviewDocs' \in [State -> SUBSET File]
    <3>1. CASE Forget(StateOf(r))
      BY <2>1, <3>1, ForgetTypes
    <3>2. CASE UNCHANGED docs
      BY <3>2 DEF docs, Types
    <3> QED BY <1>7, <3>1, <3>2 DEF EnsureClient, StartFails
  <2>4. lock' \in [State -> Req \cup {Free}]
    BY <1>3, <1>7 DEF EnsureClient, StartFails, Types
  <2> QED BY <1>1, <1>7, <2>2, <2>3, <2>4 DEF EnsureClient, StartFails, Types, files, manager
<1>8. CASE SyncFile(r)
  <2>1. StateOf(r) \in State /\ req[r].doc \in File
    BY <1>1, <1>2, <1>8 DEF SyncFile, At, LocksOK, Lookup, Seeking, Types, Requests
  <2>2. ReadFileStat(r) \subseteq [content : 0..2, mtime : 0..MaxActs]
    <3>1. req[r].read \in [content : 0..2, mtime : 0..MaxActs]
      BY DEF Types, Requests
    <3>2. disk[req[r].doc].content \in 0..2
      BY <2>1 DEF Types
    <3> QED BY <3>1, <3>2 DEF ReadFileStat
  <2>3. PICK read \in ReadFileStat(r) :
          /\ view' = IF synced[StateOf(r)][req[r].doc].content # read.content
                        /\ process[StateOf(r)] = "up"
                     THEN [view EXCEPT ![StateOf(r)][req[r].doc] = read.content] ELSE view
          /\ synced' = [synced EXCEPT ![StateOf(r)][req[r].doc] = read]
    BY <1>8 DEF SyncFile
  <2>4. read \in [content : 0..2, mtime : 0..MaxActs] /\ read.content \in 0..2
    BY <2>2, <2>3
  <2>5. view' \in [State -> [File -> 0..2]]
    BY <2>3, <2>4 DEF Types
  <2>6. synced' \in [State -> [File -> [content : 0..2, mtime : 0..MaxActs]]]
    BY <2>3, <2>4 DEF Types
  <2>7. reviewDocs' \in [State -> SUBSET File]
    BY <1>8, <2>1 DEF SyncFile, Types
  <2> QED BY <1>1, <1>8, <2>5, <2>6, <2>7 DEF SyncFile, Types, files, manager
<1>9. CASE StatFile(r) \/ SyncFails(r) \/ ListDocuments(r) \/ Answer(r) \/ Restart(r) \/ AskAgain(r)
  <2>1. lock' \in [State -> Req \cup {Free}]
    BY <1>3, <1>9 DEF StatFile, SyncFails, ListDocuments, Answer, Restart, AskAgain, Types
  <2>2. UNCHANGED <<files, manager, process, docs, acts>>
    BY <1>9 DEF StatFile, SyncFails, ListDocuments, Answer, Restart, AskAgain
  <2> QED BY <1>1, <2>1, <2>2 DEF Types, files, manager, docs
<1>10. ASSUME NEW f \in File, NextDocument(r, f) PROVE Types'
  <2>1. reviewDocs' \in [State -> SUBSET File]
    <3>1. \/ reviewDocs' = [reviewDocs EXCEPT ![StateOf(r)] = @ \cup {f}]
          \/ UNCHANGED reviewDocs
      BY <1>10 DEF NextDocument
    <3>2. StateOf(r) \in State
      BY <1>2, <1>10 DEF NextDocument, At, LocksOK, Lookup, Seeking
    <3>3. reviewDocs \in [State -> SUBSET File]
      BY DEF Types
    <3>4. reviewDocs[StateOf(r)] \cup {f} \in SUBSET File
      BY <3>2, <3>3
    <3> QED BY <3>1, <3>3, <3>4
  <2> QED BY <1>1, <1>10, <2>1 DEF NextDocument, Types, files, manager
<1>11. CASE CloseDocuments(r)
  <2>1. NoSync \in [content : 0..2, mtime : 0..MaxActs]
    BY DEF NoSync, LspAssumption
  <2> DEFINE stale == reviewDocs[StateOf(r)] \ (req[r].docs \cup {req[r].file})
  <2>2. /\ reviewDocs' = [reviewDocs EXCEPT ![StateOf(r)] = @ \ stale]
        /\ synced' = [synced EXCEPT ![StateOf(r)] =
             [f \in File |-> IF f \in stale THEN NoSync ELSE @[f]]]
        /\ view' = [view EXCEPT ![StateOf(r)] =
             [f \in File |-> IF f \in stale THEN 0 ELSE @[f]]]
        /\ UNCHANGED <<files, manager, lock, process, acts>>
    BY <1>11 DEF CloseDocuments
  <2> HIDE DEF stale
  <2>3. reviewDocs' \in [State -> SUBSET File]
    BY <2>2 DEF Types
  <2>4. StateOf(r) \in State
    BY <1>2, <1>11 DEF CloseDocuments, At, LocksOK, Lookup, Seeking
  <2>5. synced' \in [State -> [File -> [content : 0..2, mtime : 0..MaxActs]]]
    <3>1. [f \in File |-> IF f \in stale THEN NoSync ELSE synced[StateOf(r)][f]]
            \in [File -> [content : 0..2, mtime : 0..MaxActs]]
      BY <2>1, <2>4 DEF Types
    <3> QED BY <2>2, <3>1 DEF Types
  <2>6. view' \in [State -> [File -> 0..2]]
    <3>1. [f \in File |-> IF f \in stale THEN 0 ELSE view[StateOf(r)][f]] \in [File -> 0..2]
      BY <2>4 DEF Types
    <3> QED BY <2>2, <3>1 DEF Types
  <2> QED BY <1>1, <2>2, <2>3, <2>5, <2>6 DEF Types, files, manager
<1> QED BY <1>4, <1>5, <1>6, <1>7, <1>8, <1>9, <1>10, <1>11 DEF Step
-----------------------------------------------------------------------------
(* The locks.                                                              *)

(* Who holds the lock of a state and goes on holding it.                   *)
LEMMA HoldsOn ==
  ASSUME LspAssumption, Types, LocksOK, NEW r \in Req,
         req[r].at \in Holding, req'[r].at \in Holding,
         req'[r].file = req[r].file, req'[r].gen = req[r].gen,
         \A q \in Req \ {r} : req'[q] = req[q],
         UNCHANGED <<lock, servers, dropped>>,
         \A s \in State \ {StateOf(r)} : process'[s] # "none" => process[s] # "none"
  PROVE  LocksOK'
<1>1. \A q \in Req : StateOf(q)' = StateOf(q)
  BY DEF StateOf
<1>2. ASSUME NEW q \in Req PROVE Lookup(q)'
  <2>1. CASE q = r
    BY <1>1, <2>1 DEF LocksOK, Lookup, Current, Holding, Seeking
  <2>2. CASE q # r
    BY <1>1, <2>2 DEF LocksOK, Lookup, Current
  <2> QED BY <2>1, <2>2
<1>3. Current(StateOf(r))
  BY DEF LocksOK, Lookup
<1>4. NoOrphanServer'
  BY <1>3 DEF LocksOK, NoOrphanServer, Current
<1> QED BY <1>2, <1>4 DEF LocksOK, Current

(* Who gives a lock back.                                                  *)
LEMMA LetsGo ==
  ASSUME LspAssumption, Types, LocksOK, NEW r \in Req, req[r].at \in Holding, Unlock(r),
         UNCHANGED <<servers, dropped>>,
         \A s \in State \ {StateOf(r)} : process'[s] # "none" => process[s] # "none"
  PROVE  LocksOK'
<1>1. lock' = [lock EXCEPT ![StateOf(r)] = Free] /\ req' = [req EXCEPT ![r] = NoReq]
  BY DEF Unlock
<1>2. req'[r] = NoReq /\ \A q \in Req \ {r} : req'[q] = req[q]
  BY <1>1 DEF Types
<1>3. \A q \in Req \ {r} : StateOf(q)' = StateOf(q)
  BY <1>2 DEF StateOf
<1>4. Lookup(r)'
  BY <1>2 DEF Lookup, NoReq, Holding, Seeking
<1>5. ASSUME NEW q \in Req, q # r PROVE Lookup(q)'
  <2>1. Lookup(q) /\ Lookup(r)
    BY DEF LocksOK
  <2>2. req[q].at \in Holding => StateOf(q) # StateOf(r)
    BY <1>5, <2>1 DEF Lookup
  <2>3. req[q].at \in Holding => lock'[StateOf(q)] = q
    <3>1. req[q].at \in Holding => StateOf(q) \in State
      BY <2>1, StatesOfRequests DEF Lookup, Holding, Seeking
    <3> QED BY <1>1, <2>1, <2>2, <3>1 DEF Lookup, Types
  <2>4. req'[q] = req[q] /\ StateOf(q)' = StateOf(q)
    BY <1>2, <1>3, <1>5
  <2> QED BY <2>1, <2>3, <2>4 DEF Lookup, Current
<1>6. Current(StateOf(r))
  BY DEF LocksOK, Lookup
<1>7. NoOrphanServer'
  BY <1>6 DEF LocksOK, NoOrphanServer, Current
<1> QED BY <1>4, <1>5, <1>7 DEF LocksOK, Current

LEMMA OutsideLocks ==
  ASSUME LspAssumption, Types, LocksOK, DropsOK,
         \/ \E f \in File : Edit(f) \/ Delete(f)
         \/ \E s \in State : Crash(s)
         \/ TimerFires \/ ShutdownCalled
         \/ \E d \in Dropper : DropStarts(d) \/ DropEnds(d)
  PROVE  LocksOK'
<1>1. UNCHANGED <<servers, dropped, lock, req>>
  BY DEF Edit, Delete, Crash, TimerFires, ShutdownCalled, DropStarts, DropEnds, manager
<1>2. \A s \in State : process'[s] # "none" => process[s] # "none"
  BY DEF Edit, Delete, Crash, TimerFires, ShutdownCalled, DropStarts, DropEnds, Types
<1>3. NoOrphanServer'
  BY <1>1, <1>2 DEF LocksOK, NoOrphanServer
<1> QED BY <1>1, <1>3 DEF LocksOK, Lookup, StateOf, Current

(* Nobody holds the lock of a server that is dropped.                      *)
LEMMA DropLocks ==
  ASSUME LspAssumption, Types, LocksOK, DropsOK,
         NEW d \in Dropper, NEW l \in Lang, DropServer(d, l)
  PROVE  LocksOK'
<1> DEFINE t == <<l, servers[l]>>
<1>1. /\ servers' = [servers EXCEPT ![l] = 0] /\ dropped' = dropped \cup {t}
      /\ process' = [process EXCEPT ![t] = "none"] /\ lock[t] = Free
      /\ UNCHANGED <<lock, req>>
  BY DEF DropServer
<1>2. servers[l] \in Gen
  BY DEF DropServer, DropsOK, Types, Gen, LspAssumption
<1>3. t \in State /\ t[1] = l /\ t[2] = servers[l]
  BY <1>2 DEF State
<1>4. servers'[l] = 0 /\ \A m \in Lang \ {l} : servers'[m] = servers[m]
  BY <1>1 DEF Types
<1>5. \A s \in State : s[1] \in Lang /\ s[2] \in Gen /\ s[2] # 0 /\ s = <<s[1], s[2]>>
  BY DEF State, Gen
<1>6. \A s \in State : Current(s)' <=> Current(s) /\ s # t
  BY <1>3, <1>4, <1>5 DEF Current
<1> HIDE DEF t
<1>7. ASSUME NEW q \in Req PROVE Lookup(q)'
  <2>1. Lookup(q) /\ StateOf(q)' = StateOf(q) /\ req'[q] = req[q]
    BY <1>1 DEF LocksOK, StateOf
  <2>2. CASE req[q].at \in Seeking \cup {"idle"}
    BY <2>1, <2>2 DEF Lookup, Holding, Seeking
  <2>3. CASE req[q].at \notin Seeking \cup {"idle"}
    <3>1. StateOf(q) \in State
      BY <2>1, <2>3, StatesOfRequests DEF Lookup
    <3>2. req[q].at \in Holding => StateOf(q) # t
      BY <1>1, <2>1 DEF Lookup, LspAssumption, Free
    <3> QED BY <1>1, <1>6, <2>1, <2>3, <3>1, <3>2 DEF Lookup
  <2> QED BY <2>2, <2>3
<1>8. \A s \in dropped' : ~Current(s)'
  BY <1>1, <1>3, <1>6 DEF LocksOK, Types
<1>9. NoOrphanServer'
  BY <1>1, <1>3, <1>6 DEF LocksOK, NoOrphanServer, Current, Types
<1> QED BY <1>7, <1>8, <1>9 DEF LocksOK

LEMMA RequestLocks ==
  ASSUME LspAssumption, Types, LocksOK, NEW r \in Req, NEW f \in File, Request(r, f)
  PROVE  LocksOK'
<1>1. req' = [req EXCEPT ![r] = [NoReq EXCEPT !.at = "lookup", !.file = f]]
      /\ UNCHANGED <<servers, dropped, lock, process>>
  BY DEF Request, manager
<1>2. req'[r].at = "lookup" /\ req'[r].gen = 0 /\ \A q \in Req \ {r} : req'[q] = req[q]
  BY <1>1 DEF Types, NoReq
<1>3. Lookup(r)'
  BY <1>2 DEF Lookup, Holding, Seeking
<1>4. \A q \in Req \ {r} : Lookup(q)'
  BY <1>1, <1>2 DEF LocksOK, Lookup, StateOf, Current
<1> QED BY <1>1, <1>3, <1>4 DEF LocksOK, NoOrphanServer, Current

(* A new server has a number that nobody remembers.                        *)
LEMMA LookupLocks ==
  ASSUME LspAssumption, Types, LocksOK, NEW r \in Req, ServerFor(r)
  PROVE  LocksOK'
<1> DEFINE l == LangOf[req[r].file]
<1> DEFINE g == NextGen(l)
<1> DEFINE t == <<l, g>>
<1>1. /\ servers' = [servers EXCEPT ![l] = g] /\ dropped' = dropped \ {t}
      /\ req' = [req EXCEPT ![r].at = "lock", ![r].gen = g]
      /\ UNCHANGED <<lock, process>>
  BY DEF ServerFor
<1>2. l \in Lang /\ req[r].gen = 0
  BY DEF ServerFor, LocksOK, Lookup, Seeking, Types, Requests, LspAssumption
<1> HIDE DEF l
<1>3. /\ g \in Gen /\ g # 0
      /\ servers[l] # 0 => g = servers[l]
      /\ servers[l] = 0 => \A q \in Req : StateOf(q) # t
  BY <1>2, NextGenIsNumber DEF Gen
<1> HIDE DEF g
<1>4. servers'[l] = g /\ \A m \in Lang \ {l} : servers'[m] = servers[m]
  BY <1>1, <1>2 DEF Types
<1>5. \A s \in State : s[1] \in Lang /\ s[2] \in Gen /\ s[2] # 0 /\ s = <<s[1], s[2]>>
  BY DEF State, Gen
<1>6. t \in State /\ t[1] = l /\ t[2] = g
  BY <1>2, <1>3 DEF State
<1>7. \A s \in State : Current(s)' <=> Current(s) \/ s = t
  BY <1>3, <1>4, <1>5, <1>6 DEF Current
<1>8. /\ req'[r].at = "lock" /\ req'[r].gen = g /\ req'[r].file = req[r].file
      /\ \A q \in Req \ {r} : req'[q] = req[q]
  BY <1>1 DEF Types, Requests
<1>9. Lookup(r)'
  <2>1. StateOf(r)' = t
    BY <1>8 DEF StateOf, l
  <2> QED BY <1>3, <1>6, <1>7, <1>8, <2>1 DEF Lookup, Holding, Seeking
<1>10. ASSUME NEW q \in Req \ {r} PROVE Lookup(q)'
  <2>1. Lookup(q) /\ StateOf(q)' = StateOf(q) /\ req'[q] = req[q]
    BY <1>8 DEF LocksOK, StateOf
  <2>2. CASE req[q].at \in Seeking \cup {"idle"}
    BY <2>1, <2>2 DEF Lookup, Holding, Seeking
  <2>3. CASE req[q].at \notin Seeking \cup {"idle"}
    <3>1. StateOf(q) \in State
      BY <2>1, <2>3, StatesOfRequests DEF Lookup
    <3>2. StateOf(q) = t => Current(t)
      BY <1>3, <1>6 DEF Current
    <3> QED BY <1>1, <1>7, <2>1, <2>3, <3>1, <3>2 DEF Lookup
  <2> QED BY <2>2, <2>3
<1>11. \A s \in dropped' : ~Current(s)'
  BY <1>1, <1>7 DEF LocksOK, Types
<1>12. NoOrphanServer'
  BY <1>1, <1>7 DEF LocksOK, NoOrphanServer, Current
<1> QED BY <1>9, <1>10, <1>11, <1>12 DEF LocksOK

LEMMA TakeLocks ==
  ASSUME LspAssumption, Types, LocksOK, NEW r \in Req, LockServer(r)
  PROVE  LocksOK'
<1>1. req[r].at = "lock" /\ lock[StateOf(r)] = Free /\ UNCHANGED <<servers, dropped, process>>
  BY DEF LockServer, At, manager
<1>2. StateOf(r) \in State
  BY <1>1, StatesOfRequests DEF LocksOK, Lookup, Seeking
<1>3. UNCHANGED <<NoOrphanServer>> /\ \A s : Current(s)' = Current(s)
  BY <1>1 DEF NoOrphanServer, Current
<1>4. ASSUME Take(r), StateOf(r) \notin dropped PROVE LocksOK'
  <2>1. /\ req'[r].at = "ensure" /\ req'[r].gen = req[r].gen /\ req'[r].file = req[r].file
        /\ \A q \in Req \ {r} : req'[q] = req[q]
    BY <1>4 DEF Take, Types, Requests
  <2>2. lock' = [lock EXCEPT ![StateOf(r)] = r]
    BY <1>4 DEF Take
  <2>3. \A q \in Req : StateOf(q)' = StateOf(q)
    BY <2>1 DEF StateOf
  <2>4. Lookup(r)'
    <3>1. lock'[StateOf(r)] = r
      BY <1>2, <2>2 DEF Types
    <3>2. Current(StateOf(r)) /\ req[r].gen \in Gen
      BY <1>1, <1>4 DEF LocksOK, Lookup, Seeking
    <3> QED BY <1>3, <2>1, <2>3, <3>1, <3>2 DEF Lookup, Holding, Seeking
  <2>5. ASSUME NEW q \in Req \ {r} PROVE Lookup(q)'
    <3>1. Lookup(q) /\ req'[q] = req[q]
      BY <2>1 DEF LocksOK
    <3>2. req[q].at \in Holding => lock'[StateOf(q)] = q
      BY <1>1, <2>2, <3>1 DEF Lookup, LspAssumption, Free, Types
    <3> QED BY <1>1, <1>3, <2>3, <3>1, <3>2 DEF Lookup
  <2> QED BY <1>1, <1>3, <2>4, <2>5 DEF LocksOK
<1>5. ASSUME req' = [req EXCEPT ![r].at = "again", ![r].gen = 0], UNCHANGED lock PROVE LocksOK'
  <2>1. req'[r].at = "again" /\ req'[r].gen = 0 /\ \A q \in Req \ {r} : req'[q] = req[q]
    BY <1>5 DEF Types, Requests
  <2>2. Lookup(r)'
    BY <2>1 DEF Lookup, Holding, Seeking
  <2>3. ASSUME NEW q \in Req \ {r} PROVE Lookup(q)'
    <3>1. Lookup(q) /\ req'[q] = req[q]
      BY <2>1 DEF LocksOK
    <3>2. StateOf(q)' = StateOf(q)
      BY <3>1 DEF StateOf
    <3> QED BY <1>1, <1>3, <1>5, <3>1, <3>2 DEF Lookup
  <2> QED BY <1>1, <1>3, <2>2, <2>3 DEF LocksOK
<1> QED BY <1>4, <1>5 DEF LockServer

(* The steps of who holds a lock.                                          *)
HeldStep(r) ==
  \/ EnsureClient(r) \/ StartFails(r) \/ StatFile(r) \/ SyncFile(r) \/ SyncFails(r)
  \/ ListDocuments(r) \/ (\E f \in File : NextDocument(r, f)) \/ CloseDocuments(r)
  \/ Answer(r) \/ Restart(r) \/ AskAgain(r)
LEMMA HeldSteps ==
  ASSUME LspAssumption, Types, LocksOK, NEW r \in Req, HeldStep(r)
  PROVE  /\ req[r].at \in Holding /\ StateOf(r) \in State
         /\ UNCHANGED <<files, manager, acts>>
         /\ \A s \in State \ {StateOf(r)} : process'[s] = process[s]
         /\ \/ Unlock(r)
            \/ /\ UNCHANGED lock /\ req'[r].at \in Holding
               /\ req'[r].file = req[r].file /\ req'[r].gen = req[r].gen
               /\ \A q \in Req \ {r} : req'[q] = req[q]
<1>1. req[r].at \in Holding /\ StateOf(r) \in State
  <2>1. req[r].at \in {"ensure", "stat", "send", "list", "review", "call"}
    BY DEF HeldStep, At, EnsureClient, StartFails, StatFile, SyncFile, SyncFails, ListDocuments,
           NextDocument, CloseDocuments, Answer, Restart, AskAgain
  <2> QED BY <2>1, StatesOfRequests DEF LocksOK, Lookup, Seeking, Holding
<1>2. UNCHANGED <<files, manager, acts>>
  BY DEF HeldStep, EnsureClient, StartFails, StatFile, SyncFile, SyncFails, ListDocuments,
         NextDocument, CloseDocuments, Answer, Restart, AskAgain
<1>3. \/ UNCHANGED process
      \/ \E p \in {"none", "up"} : process' = [process EXCEPT ![StateOf(r)] = p]
  BY DEF HeldStep, EnsureClient, StartFails, StatFile, SyncFile, SyncFails, ListDocuments,
         NextDocument, CloseDocuments, Answer, Restart, AskAgain
<1>4. \A s \in State \ {StateOf(r)} : process'[s] = process[s]
  BY <1>3 DEF Types
<1>5. \/ Unlock(r)
      \/ /\ UNCHANGED lock /\ req'[r].at \in Holding
         /\ req'[r].file = req[r].file /\ req'[r].gen = req[r].gen
         /\ \A q \in Req \ {r} : req'[q] = req[q]
  <2>1. CASE StartFails(r) \/ Answer(r)
    BY <2>1 DEF StartFails, Answer
  <2>2. CASE SyncFile(r) \/ SyncFails(r)
    <3>1. ASSUME NEW kept, Done(r, kept), UNCHANGED lock
          PROVE  /\ UNCHANGED lock /\ req'[r].at \in Holding
                 /\ req'[r].file = req[r].file /\ req'[r].gen = req[r].gen
                 /\ \A q \in Req \ {r} : req'[q] = req[q]
      BY <3>1 DEF Done, Types, Requests, Holding
    <3>2. \/ Unlock(r)
          \/ \E kept : Done(r, kept) /\ UNCHANGED lock
      BY <2>2 DEF SyncFile, SyncFails
    <3> QED BY <3>1, <3>2
  <2>3. CASE EnsureClient(r) \/ StatFile(r)
    BY <2>3 DEF EnsureClient, StatFile, Types, Requests, Holding
  <2>6. CASE ListDocuments(r) \/ CloseDocuments(r)
    <3>1. /\ UNCHANGED lock
          /\ \/ \E found : req' = [req EXCEPT ![r].at = "review", ![r].docs = found, ![r].todo = found]
             \/ req' = [req EXCEPT ![r].at = "call"]
      BY <2>6 DEF ListDocuments, CloseDocuments
    <3>2. ASSUME NEW found,
                 req' = [req EXCEPT ![r].at = "review", ![r].docs = found, ![r].todo = found]
          PROVE  /\ req'[r].at \in Holding
                 /\ req'[r].file = req[r].file /\ req'[r].gen = req[r].gen
                 /\ \A q \in Req \ {r} : req'[q] = req[q]
      BY <3>2 DEF Types, Requests, Holding
    <3>3. ASSUME req' = [req EXCEPT ![r].at = "call"]
          PROVE  /\ req'[r].at \in Holding
                 /\ req'[r].file = req[r].file /\ req'[r].gen = req[r].gen
                 /\ \A q \in Req \ {r} : req'[q] = req[q]
      BY <3>3 DEF Types, Requests, Holding
    <3> QED BY <3>1, <3>2, <3>3
  <2>4. CASE Restart(r) \/ AskAgain(r)
    BY <2>4 DEF Restart, AskAgain, Types, Requests, Holding
  <2>5. ASSUME NEW f \in File, NextDocument(r, f)
        PROVE  /\ UNCHANGED lock /\ req'[r].at \in Holding
               /\ req'[r].file = req[r].file /\ req'[r].gen = req[r].gen
               /\ \A q \in Req \ {r} : req'[q] = req[q]
    BY <2>5 DEF NextDocument, At, Types, Requests, Holding
  <2> QED BY <2>1, <2>2, <2>3, <2>4, <2>5, <2>6 DEF HeldStep
<1> QED BY <1>1, <1>2, <1>4, <1>5

LEMMA HeldLocks ==
  ASSUME LspAssumption, Types, LocksOK, NEW r \in Req, HeldStep(r)
  PROVE  LocksOK'
BY HeldSteps, HoldsOn, LetsGo DEF manager
-----------------------------------------------------------------------------
(* Dropping.                                                               *)

LEMMA OutsideDrops ==
  ASSUME LspAssumption, Types, DropsOK,
         \/ \E f \in File : Edit(f) \/ Delete(f)
         \/ \E s \in State : Crash(s)
         \/ TimerFires \/ ShutdownCalled
         \/ \E d \in Dropper : Drop(d)
  PROVE  DropsOK'
<1>1. CASE (\E f \in File : Edit(f) \/ Delete(f)) \/ (\E s \in State : Crash(s))
  BY <1>1 DEF Edit, Delete, Crash, manager, DropsOK
<1>2. CASE TimerFires \/ ShutdownCalled
  <2>1. PICK d \in Dropper : drop[d].at = "off" /\ drop' = [drop EXCEPT ![d].at = "want"]
    BY <1>2 DEF TimerFires, ShutdownCalled, Want, Dropper
  <2>2. UNCHANGED <<managerMu, servers>>
    BY <1>2 DEF TimerFires, ShutdownCalled
  <2> QED BY <2>1, <2>2 DEF DropsOK, Types
<1>3. ASSUME NEW d \in Dropper, DropStarts(d) PROVE DropsOK'
  <2>1. \A l \in {m \in Lang : servers[m] # 0} : servers[l] # 0
    OBVIOUS
  <2>2. drop'[d] = [at |-> "drop", left |-> {l \in Lang : servers[l] # 0}]
    BY <1>3 DEF DropStarts, Types
  <2>3. \A e \in Dropper \ {d} : drop'[e] = drop[e] /\ drop[e].at # "drop"
    BY <1>3 DEF DropStarts, Types, DropsOK, Free, Dropper
  <2>4. managerMu' = d /\ servers' = servers
    BY <1>3 DEF DropStarts
  <2> QED BY <2>1, <2>2, <2>3, <2>4 DEF DropsOK
<1>4. ASSUME NEW d \in Dropper, NEW l \in Lang, DropServer(d, l) PROVE DropsOK'
  <2>1. /\ drop'[d].at = "drop" /\ drop'[d].left = drop[d].left \ {l}
        /\ \A e \in Dropper \ {d} : drop'[e] = drop[e]
    BY <1>4 DEF DropServer, Types
  <2>2. managerMu' = managerMu /\ managerMu = d /\ drop[d].left \subseteq Lang
    BY <1>4 DEF DropServer, DropsOK, Types
  <2>3. \A m \in Lang \ {l} : servers'[m] = servers[m]
    BY <1>4 DEF DropServer, Types
  <2> QED BY <2>1, <2>2, <2>3 DEF DropsOK
<1>5. ASSUME NEW d \in Dropper, DropEnds(d) PROVE DropsOK'
  <2>1. /\ drop'[d].at = "off" /\ \A e \in Dropper \ {d} : drop'[e] = drop[e]
        /\ managerMu = d /\ managerMu' = Free
    BY <1>5 DEF DropEnds, Types, DropsOK
  <2> QED BY <2>1 DEF DropsOK, Free, Dropper
<1> QED BY <1>1, <1>2, <1>3, <1>4, <1>5 DEF Drop

LEMMA StepDrops ==
  ASSUME LspAssumption, Types, LocksOK, DropsOK, NEW r \in Req,
         (\E f \in File : Request(r, f)) \/ Step(r)
  PROVE  DropsOK'
<1>1. CASE ServerFor(r)
  BY <1>1 DEF ServerFor, DropsOK, Free, Dropper
<1>2. CASE (\E f \in File : Request(r, f)) \/ LockServer(r)
  BY <1>2 DEF Request, LockServer, manager, DropsOK
<1>3. CASE HeldStep(r)
  <2>1. UNCHANGED manager
    BY <1>3, HeldSteps
  <2> QED BY <2>1 DEF manager, DropsOK
<1> QED BY <1>1, <1>2, <1>3 DEF Step, HeldStep
-----------------------------------------------------------------------------
(* The documents.                                                          *)

(* While the disk and what was sent stay, so does what follows it.         *)
LEMMA FollowsOn ==
  ASSUME NEW r \in Req, UNCHANGED <<disk, req[r], synced[StateOf(r)]>>
  PROVE  \A f \in File : Following(r, f)' <=> Following(r, f)
BY DEF Following, StateOf

(* A request keeps up while others write and work behind other states.     *)
LEMMA KeepsUp ==
  ASSUME LspAssumption, Types, LocksOK, NEW r \in Req, Synchronises(r),
         UNCHANGED <<disk, acts, req[r]>>,
         req[r].at \in Holding => UNCHANGED <<synced[StateOf(r)], reviewDocs[StateOf(r)]>>
  PROVE  Synchronises(r)'
<1>1. CASE req[r].at \in Holding
  <2>1. \A f \in File : Following(r, f)' <=> Following(r, f)
    BY <1>1, FollowsOn
  <2>2. req[r].file \in File /\ req[r].docs \subseteq File
    BY DEF Types, Requests
  <2> QED BY <1>1, <2>1, <2>2 DEF Synchronises, BeyondFile, Past, StateOf
<1>2. CASE req[r].at \notin Holding
  <2>1. req[r].at \notin {"stat", "send", "list", "review", "call"}
    BY <1>2 DEF Holding
  <2> QED BY <2>1 DEF Synchronises, BeyondFile
<1> QED BY <1>1, <1>2

(* A file that changes from now on is newer than any request.              *)
LEMMA DiskMoves ==
  ASSUME LspAssumption, Types, LocksOK, DocumentsOK, RequestsOK, ListsOK,
         NEW f \in File, Edit(f) \/ Delete(f)
  PROVE  DocumentsOK' /\ RequestsOK' /\ ListsOK'
<1>1. acts' = acts + 1 /\ acts \in Nat /\ acts >= 1 /\ UNCHANGED <<req, docs, process>>
  BY DEF Edit, Delete, Act, Types, LspAssumption
<1>2. disk'[f].mtime = acts + 1 /\ \A g \in File \ {f} : disk'[g] = disk[g]
  BY DEF Edit, Delete, Types
<1>3. \A g \in File : disk[g].mtime <= acts /\ disk[g].mtime \in Nat
  BY DEF DocumentsOK, Types
<1>4. \A x \in [content : 0..2, mtime : 0..MaxActs], g \in File : Past(x, g) => Past(x, g)'
  BY <1>1, <1>2, <1>3 DEF Past
<1>5. DocumentsOK'
  <2>1. \A g \in File : disk'[g].mtime <= acts'
    BY <1>1, <1>2, <1>3
  <2>2. ASSUME NEW s \in State, NEW g \in File
        PROVE  Past(synced[s][g], g)' /\ (process'[s] = "up" => view'[s][g] = synced'[s][g].content)
    <3>1. synced[s][g] \in [content : 0..2, mtime : 0..MaxActs]
      BY DEF Types
    <3> QED BY <1>1, <1>4, <3>1 DEF DocumentsOK, Past, docs
  <2> QED BY <2>1, <2>2 DEF DocumentsOK
<1>6. ASSUME NEW r \in Req PROVE Synchronises(r)'
  <2>1. Synchronises(r) /\ req'[r] = req[r] /\ req[r].began \in Nat
    BY <1>1 DEF RequestsOK, Types, Requests
  <2>2. \A g \in File : Following(r, g) => Following(r, g)'
    BY <1>1, <1>2, <2>1 DEF Following, StateOf, docs, Synchronises
  <2>3. req[r].file \in File /\ req[r].docs \subseteq File /\ req[r].doc \in File
        /\ req[r].read \in [content : 0..2, mtime : 0..MaxActs]
    BY DEF Types, Requests
  <2>4. req'[r].began <= acts'
    BY <1>1, <2>1 DEF Synchronises
  <2>5. req[r].at = "send" =>
          /\ Past(req[r].read, req[r].doc)'
          /\ disk'[req[r].doc].mtime <= req[r].began => req[r].read = disk'[req[r].doc]
    BY <1>1, <1>2, <1>4, <2>1, <2>3 DEF Synchronises, Past
  <2>6. UNCHANGED <<BeyondFile(r), reviewDocs[StateOf(r)]>>
    BY <1>1 DEF BeyondFile, StateOf, docs
  <2> QED BY <2>1, <2>2, <2>3, <2>4, <2>5, <2>6 DEF Synchronises
<1>7. ListsOK'
  <2>1. {g \in File : disk[g].mtime > 1} \cup {f} \subseteq {g \in File : disk[g].mtime > 1}'
    BY <1>1, <1>2, <1>3
  <2>2. listed \ {f} \subseteq listed'
    BY DEF Edit, Delete
  <2> QED BY <1>1, <2>1, <2>2 DEF ListsOK
<1> QED BY <1>5, <1>6, <1>7 DEF RequestsOK

LEMMA ForgottenDocuments ==
  ASSUME LspAssumption, Types, DocumentsOK, NEW s \in State, Forget(s),
         UNCHANGED <<disk, acts>>,
         \A t \in State \ {s} : process'[t] = process[t]
  PROVE  DocumentsOK'
<1>1. \A f \in File : view'[s][f] = 0 /\ synced'[s][f] = NoSync
  BY DEF Forget, Types
<1>2. \A t \in State \ {s} : view'[t] = view[t] /\ synced'[t] = synced[t]
  BY DEF Forget, Types
<1>3. \A f \in File : Past(NoSync, f)'
  BY DEF Past, NoSync, Types
<1>4. ASSUME NEW t \in State, NEW f \in File
      PROVE  Past(synced[t][f], f)' /\ (process'[t] = "up" => view'[t][f] = synced'[t][f].content)
  <2>1. CASE t = s
    BY <1>1, <1>3, <2>1 DEF NoSync, Past
  <2>2. CASE t # s
    BY <1>2, <2>2 DEF DocumentsOK, Past
  <2> QED BY <2>1, <2>2
<1> QED BY <1>4 DEF DocumentsOK

LEMMA OutsideDocuments ==
  ASSUME LspAssumption, Types, LocksOK, DropsOK, DocumentsOK, RequestsOK, ListsOK,
         \/ \E s \in State : Crash(s)
         \/ TimerFires \/ ShutdownCalled
         \/ \E d \in Dropper : Drop(d)
  PROVE  DocumentsOK' /\ RequestsOK' /\ ListsOK'
<1>1. UNCHANGED <<files, req>>
  BY DEF Crash, TimerFires, ShutdownCalled, Drop, DropStarts, DropServer, DropEnds
<1>2. ListsOK'
  BY <1>1 DEF ListsOK, files
<1>3. acts' = acts \/ acts' = acts + 1
  BY DEF Crash, TimerFires, ShutdownCalled, Drop, DropStarts, DropServer, DropEnds, Act
<1>4. CASE UNCHANGED docs /\ \A s \in State : process'[s] = "up" => process[s] = "up"
  <2>1. \A x \in [content : 0..2, mtime : 0..MaxActs], f \in File : Past(x, f) => Past(x, f)'
    BY <1>1, <1>3 DEF Past, files, Types, LspAssumption
  <2>2. DocumentsOK'
    <3>1. \A f \in File : disk'[f].mtime <= acts'
      BY <1>1, <1>3 DEF DocumentsOK, files, Types, LspAssumption
    <3>2. ASSUME NEW s \in State, NEW f \in File
          PROVE  Past(synced[s][f], f)' /\ (process'[s] = "up" => view'[s][f] = synced'[s][f].content)
      <4>1. synced[s][f] \in [content : 0..2, mtime : 0..MaxActs]
        BY DEF Types
      <4> QED BY <1>4, <2>1, <4>1 DEF DocumentsOK, docs, Past
    <3> QED BY <3>1, <3>2 DEF DocumentsOK
  <2>3. ASSUME NEW r \in Req PROVE Synchronises(r)'
    <3>1. Synchronises(r) /\ req[r] \in Requests
      BY DEF RequestsOK, Types
    <3>2. req'[r].began <= acts'
      BY <1>1, <1>3, <3>1 DEF Synchronises, Requests, Types, LspAssumption
    <3>3. \A f : Following(r, f)' <=> Following(r, f)
      BY <1>1, <1>4 DEF Following, StateOf, docs, files
    <3>4. req[r].at = "send" => Past(req[r].read, req[r].doc)'
      BY <1>1, <2>1, <3>1 DEF Synchronises, Requests, Past
    <3>5. UNCHANGED <<BeyondFile(r), reviewDocs[StateOf(r)], req[r], disk>>
      BY <1>1, <1>4 DEF BeyondFile, StateOf, docs, files
    <3> QED BY <3>1, <3>2, <3>3, <3>4, <3>5 DEF Synchronises
  <2> QED BY <1>2, <2>2, <2>3 DEF RequestsOK
<1>5. ASSUME NEW d \in Dropper, NEW l \in Lang, DropServer(d, l)
      PROVE  DocumentsOK' /\ RequestsOK'
  <2> DEFINE t == <<l, servers[l]>>
  <2>1. t \in State
    BY <1>5 DEF DropServer, DropsOK, Types, Gen, State, LspAssumption
  <2>2. /\ Forget(t) /\ lock[t] = Free /\ UNCHANGED <<disk, acts>>
        /\ process' = [process EXCEPT ![t] = "none"]
    BY <1>5 DEF DropServer, files
  <2> HIDE DEF t
  <2>3. DocumentsOK'
    BY <2>1, <2>2, ForgottenDocuments DEF Types
  <2>4. ASSUME NEW r \in Req PROVE Synchronises(r)'
    <3>1. req[r].at \in Holding => StateOf(r) \in State /\ StateOf(r) # t
      BY <2>2, StatesOfRequests DEF LocksOK, Lookup, Holding, Seeking, LspAssumption, Free
    <3>2. \A s \in State \ {t} : UNCHANGED <<synced[s], reviewDocs[s]>>
      BY <2>2 DEF Forget, Types
    <3>3. UNCHANGED req[r] /\ Synchronises(r) /\ UNCHANGED StateOf(r)
      BY <1>1 DEF RequestsOK, StateOf
    <3>4. req[r].at \in Holding => UNCHANGED <<synced[StateOf(r)], reviewDocs[StateOf(r)]>>
      BY <3>1, <3>2, <3>3
    <3> QED BY <2>2, <3>3, <3>4, KeepsUp
  <2> QED BY <2>3, <2>4 DEF RequestsOK
<1>6. ASSUME NEW s \in State, Crash(s)
      PROVE  UNCHANGED docs /\ \A t \in State : process'[t] = "up" => process[t] = "up"
  BY <1>6 DEF Crash, Types
<1>7. ASSUME TimerFires \/ ShutdownCalled \/ \E d \in Dropper : DropStarts(d) \/ DropEnds(d)
      PROVE  UNCHANGED docs /\ \A s \in State : process'[s] = "up" => process[s] = "up"
  BY <1>7 DEF TimerFires, ShutdownCalled, DropStarts, DropEnds, docs
<1> QED BY <1>2, <1>4, <1>5, <1>6, <1>7 DEF Drop

(* Requests that are not yet at a server, or only now take its lock.       *)
LEMMA SeekingDocuments ==
  ASSUME LspAssumption, Types, LocksOK, DocumentsOK, RequestsOK, ListsOK, NEW r \in Req,
         (\E f \in File : Request(r, f)) \/ ServerFor(r) \/ LockServer(r)
  PROVE  DocumentsOK' /\ RequestsOK' /\ ListsOK'
<1>1. UNCHANGED <<files, process, docs>> /\ (acts' = acts \/ acts' = acts + 1)
  BY DEF Request, ServerFor, LockServer, Act
<1>2. /\ req'[r].at \in Seeking \cup {"lock", "ensure"}
      /\ req'[r].docs \in {req[r].docs, {}} /\ req'[r].began \in {req[r].began, 0}
      /\ \A q \in Req \ {r} : req'[q] = req[q]
  <2>1. ASSUME NEW f \in File, Request(r, f)
        PROVE  req' = [req EXCEPT ![r] = [NoReq EXCEPT !.at = "lookup", !.file = f]]
    BY <2>1 DEF Request
  <2>2. ASSUME NEW g, req' = [req EXCEPT ![r].at = "lock", ![r].gen = g]
        PROVE  /\ req'[r].at = "lock" /\ req'[r].docs = req[r].docs
               /\ req'[r].began = req[r].began /\ \A q \in Req \ {r} : req'[q] = req[q]
    BY <2>2 DEF Types, Requests
  <2>3. ASSUME \/ req' = [req EXCEPT ![r].at = "again", ![r].gen = 0]
               \/ req' = [req EXCEPT ![r].at = "ensure"]
        PROVE  /\ req'[r].at \in {"again", "ensure"} /\ req'[r].docs = req[r].docs
               /\ req'[r].began = req[r].began /\ \A q \in Req \ {r} : req'[q] = req[q]
    BY <2>3 DEF Types, Requests
  <2>4. ASSUME NEW f \in File,
               req' = [req EXCEPT ![r] = [NoReq EXCEPT !.at = "lookup", !.file = f]]
        PROVE  /\ req'[r].at = "lookup" /\ req'[r].docs = {}
               /\ req'[r].began = 0 /\ \A q \in Req \ {r} : req'[q] = req[q]
    BY <2>4 DEF Types, NoReq
  <2>5. CASE ServerFor(r)
    BY <2>2, <2>5 DEF ServerFor, Seeking
  <2>6. CASE LockServer(r)
    BY <2>3, <2>6 DEF LockServer, Take, Seeking
  <2>7. CASE \E f \in File : Request(r, f)
    BY <2>1, <2>4, <2>7 DEF Seeking
  <2> QED BY <2>5, <2>6, <2>7
<1>3. \A x \in [content : 0..2, mtime : 0..MaxActs], f \in File : Past(x, f) => Past(x, f)'
  BY <1>1 DEF Past, files, Types, LspAssumption
<1>4. DocumentsOK'
  <2>1. \A f \in File : disk'[f].mtime <= acts'
    BY <1>1 DEF DocumentsOK, files, Types, LspAssumption
  <2>2. ASSUME NEW s \in State, NEW f \in File
        PROVE  Past(synced[s][f], f)' /\ (process'[s] = "up" => view'[s][f] = synced'[s][f].content)
    <3>1. synced[s][f] \in [content : 0..2, mtime : 0..MaxActs]
      BY DEF Types
    <3> QED BY <1>1, <1>3, <3>1 DEF DocumentsOK, docs, Past
  <2> QED BY <2>1, <2>2 DEF DocumentsOK
<1>5. Synchronises(r)'
  <2>1. req'[r].began <= acts'
    BY <1>1, <1>2 DEF RequestsOK, Synchronises, Types, Requests, LspAssumption
  <2> QED BY <1>2, <2>1 DEF Synchronises, BeyondFile, Seeking
<1>6. ASSUME NEW q \in Req \ {r} PROVE Synchronises(q)'
  <2>1. Synchronises(q) /\ req[q] \in Requests /\ req'[q] = req[q]
    BY <1>2 DEF RequestsOK, Types
  <2>2. req'[q].began <= acts'
    BY <1>1, <2>1 DEF Synchronises, Requests, Types, LspAssumption
  <2>3. \A f : Following(q, f)' <=> Following(q, f)
    BY <1>1, <2>1 DEF Following, StateOf, docs, files
  <2>4. req[q].at = "send" => Past(req[q].read, req[q].doc)'
    BY <1>3, <2>1 DEF Synchronises, Requests, Past
  <2>5. UNCHANGED <<BeyondFile(q), reviewDocs[StateOf(q)], req[q], disk>>
    BY <1>1, <2>1 DEF BeyondFile, StateOf, docs, files
  <2> QED BY <2>1, <2>2, <2>3, <2>4, <2>5 DEF Synchronises
<1>7. ListsOK'
  BY <1>1, <1>2 DEF ListsOK, files
<1> QED BY <1>4, <1>5, <1>6, <1>7 DEF RequestsOK

(* Whoever holds the lock of a state leaves the other states alone, and so *)
(* the requests at them.                                                   *)
LEMMA OthersKeepUp ==
  ASSUME LspAssumption, Types, LocksOK, RequestsOK, NEW r \in Req, HeldStep(r)
  PROVE  \A q \in Req \ {r} : Synchronises(q)'
<1>1. /\ req[r].at \in Holding /\ StateOf(r) \in State /\ UNCHANGED <<files, acts>>
      /\ \A q \in Req \ {r} : req'[q] = req[q]
  BY HeldSteps DEF Unlock, Types
<1>2. \A s \in State \ {StateOf(r)} : UNCHANGED <<synced[s], reviewDocs[s]>>
  <2>1. CASE EnsureClient(r) \/ StartFails(r)
    BY <1>1, <2>1 DEF EnsureClient, StartFails, Forget, docs, Types
  <2>2. CASE SyncFile(r)
    BY <1>1, <2>2 DEF SyncFile, Types
  <2>3. CASE CloseDocuments(r)
    BY <1>1, <2>3 DEF CloseDocuments, Types
  <2>4. ASSUME NEW f \in File, NextDocument(r, f)
        PROVE  \A s \in State \ {StateOf(r)} : UNCHANGED <<synced[s], reviewDocs[s]>>
    <3>1. \/ reviewDocs' = [reviewDocs EXCEPT ![StateOf(r)] = @ \cup {f}]
          \/ UNCHANGED reviewDocs
      BY <2>4 DEF NextDocument
    <3>2. UNCHANGED synced
      BY <2>4 DEF NextDocument
    <3> QED BY <1>1, <3>1, <3>2 DEF Types
  <2>5. CASE StatFile(r) \/ SyncFails(r) \/ ListDocuments(r) \/ Answer(r) \/ Restart(r) \/ AskAgain(r)
    BY <2>5 DEF StatFile, SyncFails, ListDocuments, Answer, Restart, AskAgain, docs
  <2> QED BY <2>1, <2>2, <2>3, <2>4, <2>5 DEF HeldStep
<1> SUFFICES ASSUME NEW q \in Req \ {r} PROVE Synchronises(q)'
  OBVIOUS
<1>3. req[q].at \in Holding => StateOf(q) \in State /\ StateOf(q) # StateOf(r)
  <2>1. Lookup(q) /\ Lookup(r)
    BY DEF LocksOK
  <2> QED BY <1>1, <2>1, StatesOfRequests DEF Lookup, Holding, Seeking
<1>4. req'[q] = req[q] /\ StateOf(q)' = StateOf(q) /\ Synchronises(q)
  BY <1>1 DEF StateOf, RequestsOK
<1>5. req[q].at \in Holding => UNCHANGED <<synced[StateOf(q)], reviewDocs[StateOf(q)]>>
  BY <1>2, <1>3, <1>4
<1> QED BY <1>1, <1>4, <1>5, KeepsUp DEF files

(* The documents a request may have next.                                  *)
LEMMA HeldLists ==
  ASSUME LspAssumption, Types, LocksOK, ListsOK, NEW r \in Req, HeldStep(r)
  PROVE  ListsOK'
<1>1. UNCHANGED files /\ \A q \in Req \ {r} : req'[q] = req[q]
  BY HeldSteps DEF Unlock, Types
<1>2. \/ req'[r].docs \subseteq req[r].docs
      \/ req'[r].docs \subseteq listed
  <2>1. CASE StartFails(r) \/ Answer(r)
    BY <2>1 DEF StartFails, Answer, Unlock, NoReq, Types
  <2>2. CASE SyncFile(r)
    BY <2>2 DEF SyncFile, Done, Types, Requests
  <2>3. CASE SyncFails(r)
    <3>1. CASE Unlock(r)
      BY <3>1 DEF Unlock, NoReq, Types
    <3>2. CASE Done(r, req[r].docs \ {req[r].doc})
      BY <3>2 DEF Done, Types, Requests
    <3> QED BY <2>3, <3>1, <3>2 DEF SyncFails
  <2>4. CASE EnsureClient(r)
    BY <2>4 DEF EnsureClient, Types, Requests
  <2>5. CASE StatFile(r)
    BY <2>5 DEF StatFile, Types, Requests
  <2>6. CASE CloseDocuments(r) \/ Restart(r) \/ AskAgain(r)
    <3>1. \/ req' = [req EXCEPT ![r].at = "call"]
          \/ req' = [req EXCEPT ![r].at = "ensure", ![r].restarted = TRUE]
          \/ req' = [req EXCEPT ![r].at = "ensure", ![r].modified = @ + 1]
      BY <2>6 DEF CloseDocuments, Restart, AskAgain
    <3>2. CASE req' = [req EXCEPT ![r].at = "call"]
      BY <3>2 DEF Types, Requests
    <3>3. CASE req' = [req EXCEPT ![r].at = "ensure", ![r].restarted = TRUE]
      BY <3>3 DEF Types, Requests
    <3>4. CASE req' = [req EXCEPT ![r].at = "ensure", ![r].modified = @ + 1]
      BY <3>4 DEF Types, Requests
    <3> QED BY <3>1, <3>2, <3>3, <3>4
  <2>7. ASSUME NEW f \in File, NextDocument(r, f) PROVE req'[r].docs \subseteq req[r].docs
    <3>1. \/ req' = [req EXCEPT ![r].todo = @ \ {f}]
          \/ req' = [req EXCEPT ![r].doc = f, ![r].at = "stat"]
      BY <2>7 DEF NextDocument
    <3>2. CASE req' = [req EXCEPT ![r].todo = @ \ {f}]
      BY <3>2 DEF Types, Requests
    <3>3. CASE req' = [req EXCEPT ![r].doc = f, ![r].at = "stat"]
      BY <3>3 DEF Types, Requests
    <3> QED BY <3>1, <3>2, <3>3
  <2>8. CASE ListDocuments(r)
    <3>1. ASSUME NEW found \in SUBSET listed,
                 req' = [req EXCEPT ![r].at = "review", ![r].docs = found, ![r].todo = found]
          PROVE  req'[r].docs \subseteq listed
      BY <3>1 DEF Types, Requests
    <3>2. {f \in listed \ {req[r].file} : LangOf[f] = LangOf[req[r].file]} \in SUBSET listed
      OBVIOUS
    <3> QED BY <2>8, <3>1, <3>2 DEF ListDocuments
  <2> QED BY <2>1, <2>2, <2>3, <2>4, <2>5, <2>6, <2>7, <2>8 DEF HeldStep
<1> QED BY <1>1, <1>2 DEF ListsOK, files

(* Steps that send and close nothing.                                      *)
LEMMA QuietDocuments ==
  ASSUME DocumentsOK, UNCHANGED <<disk, acts, view, synced, process>>
  PROVE  DocumentsOK'
BY DEF DocumentsOK, Past

(* What is sent was read under its stat, or was written after it.          *)
LEMMA SendsCurrent ==
  ASSUME LspAssumption, Types, LocksOK, DocumentsOK, RequestsOK, NEW r \in Req, SyncFile(r)
  PROVE  /\ DocumentsOK'
         /\ \A f \in File : Following(r, f) \/ f = req[r].doc =>
              (disk[f].mtime <= req[r].began =>
                 synced'[StateOf(r)][f].content = disk[f].content)
<1> DEFINE s == StateOf(r)
<1> DEFINE f == req[r].doc
<1>1. PICK read \in ReadFileStat(r) :
        /\ read.content # 0
        /\ view' = IF synced[s][f].content # read.content /\ process[s] = "up"
                   THEN [view EXCEPT ![s][f] = read.content] ELSE view
        /\ synced' = [synced EXCEPT ![s][f] = read]
  BY DEF SyncFile
<1>2. s \in State /\ f \in File /\ UNCHANGED <<files, process, acts>> /\ req[r].at = "send"
  <2>1. SyncFile(r) => HeldStep(r)
    BY DEF HeldStep
  <2> QED BY <2>1, HeldSteps DEF SyncFile, At, Types, Requests
<1>3. /\ Past(req[r].read, f)
      /\ disk[f].mtime <= req[r].began => req[r].read = disk[f]
      /\ req[r].read \in [content : 0..2, mtime : 0..MaxActs]
  BY <1>2 DEF RequestsOK, Synchronises, Types, Requests
<1>4. /\ (Past(read, f) /\ read.content = disk[f].content) \/ read = req[r].read
      /\ read.mtime = req[r].read.mtime
  BY <1>1, <1>3 DEF ReadFileStat, Past
<1>5. /\ Past(read, f)
      /\ disk[f].mtime <= req[r].began => read.content = disk[f].content
  BY <1>3, <1>4 DEF Past
<1> HIDE DEF s, f
<1>6. /\ synced'[s][f] = read
      /\ \A g \in File \ {f} : synced'[s][g] = synced[s][g]
      /\ \A t \in State \ {s} : synced'[t] = synced[t]
  BY <1>1, <1>2 DEF Types
<1>7. /\ process[s] = "up" => view'[s][f] = read.content
      /\ \A g \in File \ {f} : view'[s][g] = view[s][g]
      /\ \A t \in State \ {s} : view'[t] = view[t]
  <2>1. process[s] = "up" => view[s][f] = synced[s][f].content
    BY <1>2 DEF DocumentsOK
  <2> QED BY <1>1, <1>2, <2>1 DEF Types
<1>8. \A x, g : Past(x, g)' <=> Past(x, g)
  BY <1>2 DEF Past, files
<1>9. ASSUME NEW t \in State, NEW g \in File
      PROVE  Past(synced'[t][g], g) /\ (process'[t] = "up" => view'[t][g] = synced'[t][g].content)
  <2>1. CASE t = s /\ g = f
    BY <1>2, <1>5, <1>6, <1>7, <2>1
  <2>2. CASE t = s /\ g # f
    BY <1>2, <1>6, <1>7, <2>2 DEF DocumentsOK
  <2>3. CASE t # s
    BY <1>2, <1>6, <1>7, <2>3 DEF DocumentsOK
  <2> QED BY <2>1, <2>2, <2>3
<1>10. DocumentsOK'
  <2>1. \A g \in File : disk'[g].mtime <= acts'
    BY <1>2 DEF DocumentsOK, files
  <2>2. \A t \in State, g \in File : Past(synced[t][g], g)' <=> Past(synced'[t][g], g)
    BY <1>2 DEF Past, files
  <2> QED BY <1>9, <2>1, <2>2 DEF DocumentsOK
<1>11. \A g \in File : Following(r, g) \/ g = f =>
         (disk[g].mtime <= req[r].began => synced'[s][g].content = disk[g].content)
  BY <1>5, <1>6 DEF Following, s
<1> QED BY <1>10, <1>11 DEF s, f

LEMMA ClosesStale ==
  ASSUME LspAssumption, Types, LocksOK, DocumentsOK, RequestsOK, NEW r \in Req, CloseDocuments(r)
  PROVE  DocumentsOK' /\ Synchronises(r)'
<1> DEFINE s == StateOf(r)
<1> DEFINE kept == req[r].docs \cup {req[r].file}
<1> DEFINE stale == reviewDocs[s] \ kept
<1>1. /\ req[r].at = "review" /\ req[r].todo = {} /\ UNCHANGED <<files, process, acts>>
      /\ reviewDocs' = [reviewDocs EXCEPT ![s] = @ \ stale]
      /\ synced' = [synced EXCEPT ![s] = [f \in File |-> IF f \in stale THEN NoSync ELSE @[f]]]
      /\ view' = [view EXCEPT ![s] = [f \in File |-> IF f \in stale THEN 0 ELSE @[f]]]
      /\ req' = [req EXCEPT ![r].at = "call"]
  BY DEF CloseDocuments, At
<1>2. s \in State /\ kept \subseteq File
  <2>1. CloseDocuments(r) => HeldStep(r)
    BY DEF HeldStep
  <2> QED BY <2>1, HeldSteps DEF Types, Requests
<1>3. /\ req'[r].at = "call" /\ StateOf(r)' = s
      /\ \A q \in {"file", "docs", "todo", "began"} : req'[r][q] = req[r][q]
  BY <1>1 DEF Types, Requests, StateOf
<1>4. stale \cap kept = {} /\ reviewDocs[s] \ stale \subseteq kept
  OBVIOUS
<1> HIDE DEF s, kept, stale
<1>5. /\ \A f \in File : synced'[s][f] = IF f \in stale THEN NoSync ELSE synced[s][f]
      /\ \A f \in File : view'[s][f] = IF f \in stale THEN 0 ELSE view[s][f]
      /\ \A t \in State \ {s} : synced'[t] = synced[t] /\ view'[t] = view[t]
      /\ reviewDocs'[s] = reviewDocs[s] \ stale
  BY <1>1, <1>2 DEF Types
<1>6. \A f \in File : Past(NoSync, f)
  BY DEF Past, NoSync, Types
<1>7. ASSUME NEW t \in State, NEW f \in File
      PROVE  Past(synced'[t][f], f) /\ (process'[t] = "up" => view'[t][f] = synced'[t][f].content)
  <2>1. CASE t = s /\ f \in stale
    BY <1>5, <1>6, <2>1 DEF NoSync
  <2>2. CASE t = s /\ f \notin stale
    BY <1>1, <1>5, <2>2 DEF DocumentsOK
  <2>3. CASE t # s
    BY <1>1, <1>5, <2>3 DEF DocumentsOK
  <2> QED BY <2>1, <2>2, <2>3
<1>8. DocumentsOK'
  <2>1. \A g \in File : disk'[g].mtime <= acts'
    BY <1>1 DEF DocumentsOK, files
  <2>2. \A t \in State, g \in File : Past(synced[t][g], g)' <=> Past(synced'[t][g], g)
    BY <1>1 DEF Past, files
  <2> QED BY <1>7, <2>1, <2>2 DEF DocumentsOK
<1>9. \A f \in kept : Following(r, f)
  BY <1>1 DEF RequestsOK, Synchronises, BeyondFile, kept
<1>10. \A f \in kept : synced'[s][f] = synced[s][f]
  BY <1>2, <1>4, <1>5
<1>11. \A f \in kept : Following(r, f)'
  BY <1>1, <1>3, <1>9, <1>10 DEF Following, files, s
<1>12. req'[r].began <= acts' /\ req'[r].todo = {}
  BY <1>1, <1>3 DEF RequestsOK, Synchronises
<1>13. reviewDocs'[s] \subseteq kept /\ kept' = kept
  BY <1>3, <1>4, <1>5 DEF kept
<1>14. req'[r].file \notin req'[r].todo
       /\ \A f \in (req'[r].docs \cup {req'[r].file}) \ req'[r].todo : Following(r, f)'
  BY <1>3, <1>11, <1>12, <1>13 DEF kept
<1>15. reviewDocs'[StateOf(r)'] \subseteq req'[r].docs \cup {req'[r].file}
  BY <1>3, <1>13 DEF kept
<1> QED BY <1>3, <1>8, <1>12, <1>14, <1>15 DEF Synchronises

(* What a step of its own does to a request.                               *)
LEMMA OwnStep ==
  ASSUME LspAssumption, Types, LocksOK, DocumentsOK, RequestsOK, NEW r \in Req, HeldStep(r)
  PROVE  DocumentsOK' /\ Synchronises(r)'
<1>1. /\ UNCHANGED <<files, acts>> /\ StateOf(r) \in State
      /\ \A s \in State \ {StateOf(r)} : process'[s] = process[s]
  BY HeldSteps
<1>2. req[r] \in Requests /\ Synchronises(r)
  BY DEF Types, RequestsOK
<1>3. Unlock(r) => Synchronises(r)'
  BY <1>1 DEF Unlock, Synchronises, BeyondFile, NoReq, Types
<1>4. UNCHANGED <<synced, StateOf(r), req[r].began>> => \A f : Following(r, f)' <=> Following(r, f)
  BY <1>1 DEF Following, files
<1>5. CASE EnsureClient(r) \/ StartFails(r)
  <2>1. DocumentsOK'
    <3>1. CASE Forget(StateOf(r))
      BY <1>1, <3>1, ForgottenDocuments DEF files
    <3>2. CASE UNCHANGED <<process, docs>>
      BY <1>1, <3>2, QuietDocuments DEF files, docs
    <3> QED BY <1>5, <3>1, <3>2 DEF EnsureClient, StartFails
  <2>2. CASE EnsureClient(r)
    <3>1. req'[r].at = "stat" /\ req'[r].doc = req'[r].file /\ req'[r].began = acts
      BY <2>2 DEF EnsureClient, Types, Requests
    <3> QED BY <1>1, <2>1, <3>1 DEF Synchronises, BeyondFile, Types
  <2> QED BY <1>3, <1>5, <2>1, <2>2 DEF StartFails
<1>6. CASE StatFile(r)
  <2>1. /\ req[r].at = "stat" /\ req' = [req EXCEPT ![r].at = "send", ![r].read = disk[req[r].doc]]
        /\ UNCHANGED <<process, docs>>
    BY <1>6 DEF StatFile, At
  <2>2. /\ req'[r].at = "send" /\ req'[r].read = disk[req[r].doc]
        /\ \A q \in {"file", "docs", "todo", "began", "doc", "gen"} : req'[r][q] = req[r][q]
    BY <2>1 DEF Types, Requests
  <2>3. StateOf(r)' = StateOf(r)
    BY <2>2 DEF StateOf
  <2>4. DocumentsOK'
    BY <1>1, <2>1, QuietDocuments DEF docs, files
  <2>5. Past(disk[req[r].doc], req[r].doc)
    BY <1>2 DEF Past, DocumentsOK, Requests
  <2>6. \A f : Following(r, f)' <=> Following(r, f)
    BY <1>4, <2>1, <2>2, <2>3 DEF docs
  <2>7. BeyondFile(r)' => BeyondFile(r)
    BY <2>1, <2>2 DEF BeyondFile
  <2>8. Past(req[r].read, req[r].doc)' <=> Past(disk[req[r].doc], req[r].doc)
    BY <1>1, <2>2 DEF Past, files
  <2> QED BY <1>1, <1>2, <2>2, <2>4, <2>5, <2>6, <2>7, <2>8 DEF Synchronises, Past, files
<1>7. CASE SyncFile(r)
  <2> DEFINE p == IF req[r].doc = req[r].file THEN "list" ELSE "review"
  <2>1. req[r].at = "send" /\ Done(r, req[r].docs)
    BY <1>7 DEF SyncFile, At
  <2>2. /\ req'[r].at = p /\ req'[r].todo = req[r].todo \ {req[r].doc}
        /\ \A q \in {"file", "docs", "began", "doc", "gen"} : req'[r][q] = req[r][q]
    BY <2>1 DEF Done, Types, Requests
  <2>3. StateOf(r)' = StateOf(r)
    BY <2>2 DEF StateOf
  <2>4. DocumentsOK' /\ \A f \in File : Following(r, f) \/ f = req[r].doc => Following(r, f)'
    BY <1>1, <1>7, <2>2, <2>3, SendsCurrent DEF Following, files
  <2>5. CASE req[r].doc = req[r].file
    BY <1>1, <1>2, <2>2, <2>4, <2>5 DEF Synchronises, BeyondFile, Requests
  <2>6. CASE req[r].doc # req[r].file
    <3>1. \A f \in (req[r].docs \cup {req[r].file}) \ (req[r].todo \ {req[r].doc}) : Following(r, f)'
      BY <1>2, <2>1, <2>4, <2>6 DEF Synchronises, BeyondFile, Requests
    <3> QED BY <1>1, <1>2, <2>1, <2>2, <2>4, <2>6, <3>1 DEF Synchronises, BeyondFile
  <2> QED BY <2>5, <2>6
<1>8. CASE SyncFails(r)
  <2>1. req[r].at = "send" /\ UNCHANGED <<process, docs>>
    BY <1>8 DEF SyncFails, At
  <2>2. DocumentsOK'
    BY <1>1, <2>1, QuietDocuments DEF docs, files
  <2>3. ASSUME req[r].doc # req[r].file, Done(r, req[r].docs \ {req[r].doc}) PROVE Synchronises(r)'
    <3>1. /\ req'[r].at = "review" /\ req'[r].todo = req[r].todo \ {req[r].doc}
          /\ req'[r].docs = req[r].docs \ {req[r].doc}
          /\ \A q \in {"file", "began", "doc", "gen"} : req'[r][q] = req[r][q]
      BY <2>3 DEF Done, Types, Requests
    <3>2. StateOf(r)' = StateOf(r)
      BY <3>1 DEF StateOf
    <3>3. \A f : Following(r, f)' <=> Following(r, f)
      BY <1>4, <2>1, <3>1, <3>2 DEF docs
    <3> QED BY <1>1, <1>2, <2>1, <2>3, <3>1, <3>3 DEF Synchronises, BeyondFile
  <2> QED BY <1>3, <1>8, <2>2, <2>3 DEF SyncFails
<1>9. CASE ListDocuments(r)
  <2> DEFINE found == {f \in listed \ {req[r].file} : LangOf[f] = LangOf[req[r].file]}
  <2>1. /\ req[r].at = "list" /\ UNCHANGED <<process, docs>>
        /\ req' = [req EXCEPT ![r].at = "review", ![r].docs = found, ![r].todo = found]
    BY <1>9 DEF ListDocuments, At
  <2>2. req[r].file \notin found
    OBVIOUS
  <2> HIDE DEF found
  <2>3. /\ req'[r].at = "review" /\ req'[r].todo = found /\ req'[r].docs = found
        /\ \A q \in {"file", "began", "doc", "gen"} : req'[r][q] = req[r][q]
    BY <2>1 DEF Types, Requests
  <2>4. StateOf(r)' = StateOf(r)
    BY <2>3 DEF StateOf
  <2>5. \A f : Following(r, f)' <=> Following(r, f)
    BY <1>4, <2>1, <2>3, <2>4 DEF docs
  <2>6. DocumentsOK'
    BY <1>1, <2>1, QuietDocuments DEF docs, files
  <2> QED BY <1>1, <1>2, <2>1, <2>2, <2>3, <2>5, <2>6 DEF Synchronises, BeyondFile
<1>10. ASSUME NEW f \in File, NextDocument(r, f) PROVE DocumentsOK' /\ Synchronises(r)'
  <2>1. /\ req[r].at = "review" /\ f \in req[r].todo /\ UNCHANGED <<process, view, synced>>
    BY <1>10 DEF NextDocument, At
  <2>2. DocumentsOK'
    BY <1>1, <2>1, QuietDocuments DEF files
  <2>3. ASSUME UnchangedOnDisk(StateOf(r), f), req' = [req EXCEPT ![r].todo = @ \ {f}]
        PROVE  Synchronises(r)'
    <3>1. /\ req'[r].at = "review" /\ req'[r].todo = req[r].todo \ {f}
          /\ \A q \in {"file", "docs", "began", "doc", "gen"} : req'[r][q] = req[r][q]
      BY <2>1, <2>3 DEF Types, Requests
    <3>2. Following(r, f)
      BY <1>1, <2>3 DEF Following, UnchangedOnDisk, DocumentsOK, Past
    <3>3. StateOf(r)' = StateOf(r)
      BY <3>1 DEF StateOf
    <3>4. \A g : Following(r, g)' <=> Following(r, g)
      BY <1>4, <2>1, <3>1, <3>3
    <3> QED BY <1>1, <1>2, <2>1, <3>1, <3>2, <3>4 DEF Synchronises, BeyondFile
  <2>4. ASSUME req' = [req EXCEPT ![r].doc = f, ![r].at = "stat"] PROVE Synchronises(r)'
    <3>1. /\ req'[r].at = "stat" /\ req'[r].doc = f
          /\ \A q \in {"file", "docs", "began", "todo", "gen"} : req'[r][q] = req[r][q]
      BY <2>4 DEF Types, Requests
    <3>2. StateOf(r)' = StateOf(r)
      BY <3>1 DEF StateOf
    <3>3. \A g : Following(r, g)' <=> Following(r, g)
      BY <1>4, <2>1, <3>1, <3>2
    <3> QED BY <1>1, <1>2, <2>1, <3>1, <3>3 DEF Synchronises, BeyondFile
  <2> QED BY <1>10, <2>2, <2>3, <2>4 DEF NextDocument
<1>11. CASE CloseDocuments(r)
  BY <1>11, ClosesStale
<1>12. CASE Answer(r) \/ Restart(r) \/ AskAgain(r)
  <2>1. UNCHANGED <<process, docs>>
    BY <1>12 DEF Answer, Restart, AskAgain
  <2>2. DocumentsOK'
    BY <1>1, <2>1, QuietDocuments DEF docs, files
  <2>3. CASE Restart(r) \/ AskAgain(r)
    <3>1. \/ req' = [req EXCEPT ![r].at = "ensure", ![r].restarted = TRUE]
          \/ req' = [req EXCEPT ![r].at = "ensure", ![r].modified = @ + 1]
      BY <2>3 DEF Restart, AskAgain
    <3>2. req'[r].at = "ensure" /\ req'[r].began = req[r].began
      BY <3>1 DEF Types, Requests
    <3> QED BY <1>1, <1>2, <2>2, <3>2 DEF Synchronises, BeyondFile
  <2> QED BY <1>3, <1>12, <2>2, <2>3 DEF Answer
<1> QED BY <1>5, <1>6, <1>7, <1>8, <1>9, <1>10, <1>11, <1>12 DEF HeldStep
-----------------------------------------------------------------------------
(* The invariant.                                                          *)

LEMMA InvSteps == LspAssumption /\ LspInv /\ [Next]_vars => LspInv'
<1> SUFFICES ASSUME LspAssumption, LspInv, [Next]_vars PROVE LspInv'
  OBVIOUS
<1> USE DEF LspInv
<1>1. ASSUME NEW f \in File, Edit(f) \/ Delete(f) PROVE LspInv'
  BY <1>1, OutsideTypes, OutsideLocks, OutsideDrops, DiskMoves
<1>2. CASE \/ \E s \in State : Crash(s)
           \/ TimerFires \/ ShutdownCalled
           \/ \E d \in Dropper : DropStarts(d) \/ DropEnds(d)
  BY <1>2, OutsideTypes, OutsideLocks, OutsideDrops, OutsideDocuments DEF Drop
<1>3. ASSUME NEW d \in Dropper, NEW l \in Lang, DropServer(d, l) PROVE LspInv'
  BY <1>3, OutsideTypes, DropLocks, OutsideDrops, OutsideDocuments DEF Drop
<1>4. ASSUME NEW r \in Req, (\E f \in File : Request(r, f)) \/ ServerFor(r) \/ LockServer(r)
      PROVE  LspInv'
  BY <1>4, StepTypes, RequestLocks, LookupLocks, TakeLocks, StepDrops, SeekingDocuments DEF Step
<1>5. ASSUME NEW r \in Req, HeldStep(r) PROVE LspInv'
  <2>1. Types' /\ DropsOK'
    BY <1>5, StepTypes, StepDrops DEF Step, HeldStep
  <2>2. RequestsOK'
    BY <1>5, OwnStep, OthersKeepUp DEF RequestsOK
  <2> QED BY <1>5, <2>1, <2>2, HeldLocks, OwnStep, HeldLists
<1>6. CASE UNCHANGED vars
  <2>1. UNCHANGED <<files, docs, manager, lock, process, req, acts>>
    BY <1>6 DEF vars, files, docs, manager
  <2>2. Types' /\ DropsOK'
    BY <2>1 DEF Types, DropsOK, files, docs, manager
  <2>3. LocksOK'
    BY <2>1 DEF LocksOK, Lookup, StateOf, Current, NoOrphanServer, manager
  <2>4. DocumentsOK' /\ ListsOK'
    BY <2>1 DEF DocumentsOK, Past, ListsOK, files, docs
  <2>5. RequestsOK'
    BY <2>1, KeepsUp DEF RequestsOK, files, docs, StateOf
  <2> QED BY <2>2, <2>3, <2>4, <2>5
<1> QED BY <1>1, <1>2, <1>3, <1>4, <1>5, <1>6 DEF Next, Step, HeldStep, Drop

LEMMA InvIsSound == LspInv => ServersAreSound
<1> SUFFICES ASSUME LspInv PROVE ServersAreSound
  OBVIOUS
<1>1. TypeOK
  BY DEF LspInv, Types, Requests, ListsOK, TypeOK
<1>2. NoTransportYanked /\ NoOrphanServer
  BY DEF LspInv, LocksOK, Lookup, NoTransportYanked
<1>3. ASSUME NEW r \in Req, At(r, "call"), process[StateOf(r)] = "up",
             NEW f \in req[r].docs \cup {req[r].file} \cup reviewDocs[StateOf(r)],
             disk[f].mtime <= req[r].began
      PROVE  view[StateOf(r)][f] = disk[f].content
  <2>1. Synchronises(r) /\ req[r] \in Requests /\ req[r].at = "call"
    BY <1>3 DEF LspInv, RequestsOK, Types, At
  <2>2. StateOf(r) \in State
    <3>1. LspAssumption
      BY LspAssumption
    <3> QED BY <2>1, <3>1, StatesOfRequests DEF LspInv, LocksOK, Lookup, Seeking
  <2>3. f \in req[r].docs \cup {req[r].file} /\ f \in File
    BY <1>3, <2>1 DEF Synchronises, Requests
  <2>4. Following(r, f)
    BY <2>1, <2>3 DEF Synchronises, BeyondFile
  <2> QED BY <1>3, <2>2, <2>3, <2>4 DEF LspInv, DocumentsOK, Following
<1>4. AnswersFromCurrentFiles
  BY <1>3 DEF AnswersFromCurrentFiles
<1> QED BY <1>1, <1>2, <1>4 DEF ServersAreSound

(* A server's lock is held by one request at a time and no server is       *)
(* dropped under it; every process has a state the manager finds; and when *)
(* a question is put, the server sees the files as on disk, unless they    *)
(* changed after the request began: for any numbers of languages, files    *)
(* and requests.                                                           *)
THEOREM ServersStaySound == Spec => []ServersAreSound
<1>1. Init => LspInv
  BY InitHolds, LspAssumption
<1>2. LspInv /\ [Next]_vars => LspInv'
  BY InvSteps, LspAssumption
<1> QED BY <1>1, <1>2, InvIsSound, PTL DEF Spec
=============================================================================
