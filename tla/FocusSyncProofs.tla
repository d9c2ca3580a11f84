--------------------------- MODULE FocusSyncProofs ---------------------------
(***************************************************************************)
(* That the review keeps in step with the text, for any comments, number   *)
(* of versions and of steps: FocusSync's ReviewInStep.                     *)
(*                                                                         *)
(* The property speaks of the session's copy alone.  What keeps it is that *)
(* the other places a comment can be in - review.json, the comments of the *)
(* last round, the copy a switch has put aside - follow the text as well,  *)
(* each but for the steps in which it is known to be behind; that a sync,  *)
(* a round and a switch do not overlap there; and that memory has whatever *)
(* review.json has when a sync moves lines, which a save is to write back. *)
(***************************************************************************)
EXTENDS FocusSync, TLAPS

HandAt == {"off", "start", "load", "list", "files", "reread", "carry", "persist", "finish"}
Copies == {"file", "spare", "gone"}
TypeText == file \in Files /\ spare \in Files /\ disk \in Lines
TypeRest ==
  /\ tree \in 1..MaxVersion /\ shown \in Version /\ focus \in {"W", "R"} /\ scope \in {"W", "R"}
  /\ view \in [Comment -> {"none", "W", "R"}]
  /\ mu \in {"free", "switch", "sync"} /\ armed \in BOOLEAN /\ pending \in BOOLEAN
  /\ seq \in Nat /\ queued \in BOOLEAN /\ torn \in BOOLEAN /\ double \in BOOLEAN /\ acts \in Nat
  /\ astray \in SUBSET Comment /\ hurried \in SUBSET Comment
TypeJobs ==
  /\ hand \in [at : HandAt, seq : Nat, of : Copies]
  /\ sync \in [at : {"off", "read", "apply", "save"}, from : Version, to : Version, of : Copies]
  /\ switch \in [at : {"off", "flush", "build", "swap", "load", "persist"},
                 to : {"W", "R"}, content : Version]
Type == TypeText /\ TypeJobs /\ TypeRest

Made == {c \in Comment : view[c] # "none"}
(* Comments of the focus, and those of the focus that a switch has left.   *)
Here == {c \in Comment \ astray : view[c] = focus}
There == {c \in Comment \ astray : view[c] = switch.to}
Away == switch.at \in {"load", "persist"}
On(lines, text, cs) == \A c \in cs \cap In(lines) : lines[c] = text

(* Who is at work.  While a save of moved lines is due no round is         *)
(* signalled, and unless two signals came at once a round is pending for   *)
(* as long as the watcher has one to take or to finish.                    *)
Turns ==
  /\ mu = "switch" <=> switch.at # "off"
  /\ mu = "sync" <=> sync.at = "save"
  /\ sync.at = "save" => ~pending
  /\ queued \/ hand.at # "off" => seq >= 1
  /\ hand.at \notin {"off", "start"} => hand.seq \in 1..seq
  /\ ~double => /\ queued \/ hand.at # "off" => pending
                /\ queued /\ hand.at \notin {"off", "start"} => seq # hand.seq

(* The focus and what is there for it: the copy that a failing switch puts *)
(* back, the text that a switch has built, what a sync has read.           *)
Focused ==
  /\ scope = IF Away THEN switch.to ELSE focus
  /\ ~torn => /\ focus = "R" <=> file.content = Head
              /\ Away => (switch.to = "R" <=> spare.content = Head)
              /\ switch.at = "swap" => (switch.to = "R" <=> switch.content = Head)
              /\ sync.at # "off" => sync.from # Head
              /\ sync.at \in {"apply", "save"} => sync.to # Head

(* No comment is lost, and past the flush of a switch all are on disk.     *)
Kept ==
  /\ In(file.com) \cup In(disk) \cup In(spare.com) \subseteq Made
  /\ In(file.prev) \cup In(spare.prev) \subseteq In(disk)
  /\ Made \ hurried \subseteq In(file.com) \cup In(disk)
  /\ switch.at \in {"build", "swap", "load", "persist"} => Made \ hurried \subseteq In(disk)

MemoryFollows == hand.at # "carry" => On(file.com, file.content, Here)
DiskFollows ==
  sync.at # "save" /\ switch.at # "load" /\ hand.at \notin {"carry", "persist"}
    => On(disk, file.content, Here)
(* In a round: the comments read from disk are on the text they are to be  *)
(* moved from, with what was added since they are all of them, and what    *)
(* was not moved need not be.                                              *)
LastRoundFollows ==
  /\ hand.at \in {"list", "files", "reread"} => On(file.prev, file.content, Here)
  /\ hand.at = "carry" => On(file.prev, file.base, Here)
RoundHasAll ==
  hand.at \in {"list", "files", "reread", "carry"}
    => Here \cap In(disk) \subseteq In(file.prev) \cup In(file.com)
RestFollows == hand.at = "persist" => On(disk, file.content, Here \ In(file.com))
(* Between rounds a sync finds all comments in memory.                     *)
MemoryHasAll ==
  \/ ~pending /\ switch.at # "load"
  \/ hand.at \in {"persist", "finish"} /\ seq = hand.seq
  => Here \cap In(disk) \subseteq In(file.com)
(* The copy put aside is as good, for the focus it belongs to; but in a    *)
(* round nothing is said of comments that there were.                      *)
SpareFollows ==
  Away => /\ On(spare.com, spare.content, There) /\ On(disk, spare.content, There)
          /\ There \cap In(disk) \subseteq In(spare.com)
          /\ pending => In(disk) \cup In(spare.com) \subseteq astray
Texts ==
  ~double => /\ MemoryFollows /\ DiskFollows /\ LastRoundFollows /\ RoundHasAll
             /\ RestFollows /\ MemoryHasAll /\ SpareFollows

Inv == Type /\ Turns /\ Focused /\ Kept /\ Texts
-----------------------------------------------------------------------------
(* The operators on lines and copies keep to their types.                  *)
LEMMA LinesTyped ==
  ASSUME FocusAssumption, Type
  PROVE /\ Saved \in Lines /\ None \in Lines
        /\ \A v \in Version : Fresh(v) \in Files
        /\ \A lines \in Lines, from \in 0..Head, to \in Version : Carried(lines, from, to) \in Lines
        /\ file.com \in Lines /\ file.prev \in Lines /\ file.content \in Version /\ file.base \in 0..Head
        /\ tree \in Version /\ Version \subseteq 0..Head
<1> USE DEF FocusAssumption, Type, TypeText, TypeJobs, TypeRest, Files, Lines, Version, Head
<1>1. Saved \in Lines
  BY DEF Saved
<1>2. None \in Lines
  BY DEF None
<1>3. ASSUME NEW v \in Version PROVE Fresh(v) \in Files
  BY <1>2, <1>3 DEF Fresh
<1>4. ASSUME NEW lines \in Lines, NEW from \in 0..Head, NEW to \in Version
      PROVE  Carried(lines, from, to) \in Lines
  BY <1>4 DEF Carried
<1>5. /\ file.com \in Lines /\ file.prev \in Lines /\ file.content \in Version /\ file.base \in 0..Head
      /\ tree \in Version /\ Version \subseteq 0..Head
  OBVIOUS
<1> HIDE DEF Type, TypeText, TypeJobs, TypeRest, Files, Lines, Version, Head
<1> QED BY <1>1, <1>2, <1>3, <1>4, <1>5

LEMMA FilesTyped ==
  ASSUME NEW f \in Files, NEW lines \in Lines, NEW v \in Version, NEW b \in 0..Head
  PROVE  /\ [f EXCEPT !.com = lines] \in Files /\ [f EXCEPT !.prev = lines] \in Files
         /\ [f EXCEPT !.content = v, !.com = lines] \in Files
         /\ [f EXCEPT !.base = b, !.content = v] \in Files
BY DEF Files

(* Types.                                                                  *)
LEMMA TypeStep ==
  ASSUME FocusAssumption, Type, [Next]_vars
  PROVE  Type'
<1>a. /\ Saved \in Lines /\ None \in Lines
      /\ \A v \in Version : Fresh(v) \in Files
      /\ \A lines \in Lines, from \in 0..Head, to \in Version : Carried(lines, from, to) \in Lines
      /\ file.com \in Lines /\ file.prev \in Lines /\ file.content \in Version
      /\ file.base \in 0..Head /\ tree \in Version /\ Version \subseteq 0..Head
  BY LinesTyped
<1>b. \A f \in Files, lines \in Lines, v \in Version, b \in 0..Head :
         /\ [f EXCEPT !.com = lines] \in Files /\ [f EXCEPT !.prev = lines] \in Files
         /\ [f EXCEPT !.content = v, !.com = lines] \in Files
         /\ [f EXCEPT !.base = b, !.content = v] \in Files
  BY FilesTyped
<1>f. file.content \in Version /\ tree \in Version
  BY <1>a
<1>c. /\ Head \in Version /\ 1 \in Version
      /\ tree < MaxVersion => tree + 1 \in 1..MaxVersion
  BY DEF FocusAssumption, Version, Head, Type, TypeRest
<1>d. \A x \in Copies : Replaced[x] \in Copies /\ PutBack[x] \in Copies
  BY DEF Replaced, PutBack, Copies
<1>e. Act => acts' \in Nat
  BY DEF Act, Type, TypeRest
<1>1. CASE AgentEdits
  <2>1. TypeText'
    BY <1>1, <1>a, <1>b, <1>c DEF Type, TypeText, TypeJobs, TypeRest, AgentEdits,
       session, round, store, ghosts
  <2>2. TypeJobs'
    BY <1>1, <1>c, <1>f DEF Type, TypeRest, TypeJobs, HandAt, Copies, AgentEdits,
       session, round, store, ghosts
  <2>3. TypeRest'
    BY <1>1, <1>c, <1>f DEF Type, TypeRest, AgentEdits, session, round, store,
       ghosts, TypeJobs
  <2> QED BY <2>1, <2>2, <2>3 DEF Type
<1>2. CASE Show
  <2>1. TypeText'
    BY <1>2, <1>a, <1>b, <1>c DEF Type, TypeText, TypeJobs, TypeRest, Show, session,
       round, store, ghosts
  <2>2. TypeJobs'
    BY <1>2, <1>c, <1>f DEF Type, TypeRest, TypeJobs, HandAt, Copies, Show, session,
       round, store, ghosts
  <2>3. TypeRest'
    BY <1>2, <1>c, <1>f DEF Type, TypeRest, Show, session, round, store, ghosts, TypeJobs
  <2> QED BY <2>1, <2>2, <2>3 DEF Type
<1>3. CASE TimerFires
  <2>1. TypeText'
    BY <1>3, <1>a, <1>b, <1>c DEF Type, TypeText, TypeJobs, TypeRest, TimerFires,
       session, round, store, ghosts
  <2>2. TypeJobs'
    BY <1>3, <1>c, <1>f DEF Type, TypeRest, TypeJobs, HandAt, Copies, TimerFires,
       session, round, store, ghosts
  <2>3. TypeRest'
    BY <1>3, <1>c, <1>f DEF Type, TypeRest, TimerFires, session, round, store,
       ghosts, TypeJobs
  <2> QED BY <2>1, <2>2, <2>3 DEF Type
<1>4. ASSUME NEW c \in Comment, AddComment(c) PROVE Type'
  <2>1. TypeText'
    BY <1>4, <1>a, <1>b, <1>c DEF Type, TypeText, TypeJobs, TypeRest, AddComment,
       session, round, store, ghosts, Files, Lines, Version
  <2>2. TypeJobs'
    BY <1>4, <1>c, <1>f DEF Type, TypeRest, TypeJobs, HandAt, Copies, AddComment,
       session, round, store, ghosts
  <2>3. TypeRest'
    BY <1>4, <1>c, <1>f, <1>e DEF Type, TypeRest, AddComment, session, round, store,
       ghosts, TypeJobs
  <2> QED BY <2>1, <2>2, <2>3 DEF Type
<1>5. CASE SyncStarts
  <2>1. TypeText'
    BY <1>5, <1>a, <1>b, <1>c DEF Type, TypeText, TypeJobs, TypeRest, SyncStarts,
       session, round, store, ghosts
  <2>2. TypeJobs'
    BY <1>5, <1>c, <1>f DEF Type, TypeRest, TypeJobs, HandAt, Copies, SyncStarts,
       session, round, store, ghosts
  <2>3. TypeRest'
    BY <1>5, <1>c, <1>f DEF Type, TypeRest, SyncStarts, session, round, store,
       ghosts, TypeJobs
  <2> QED BY <2>1, <2>2, <2>3 DEF Type
<1>6. CASE SyncReads
  <2>1. TypeText'
    BY <1>6, <1>a, <1>b, <1>c DEF Type, TypeText, TypeJobs, TypeRest, SyncReads,
       session, round, store, ghosts
  <2>2. TypeJobs'
    BY <1>6, <1>c, <1>f DEF Type, TypeRest, TypeJobs, HandAt, Copies, SyncReads,
       SyncOff, session, round, store, ghosts
  <2>3. TypeRest'
    BY <1>6, <1>c, <1>f DEF Type, TypeRest, SyncReads, SyncOff, session, round,
       store, ghosts, TypeJobs
  <2> QED BY <2>1, <2>2, <2>3 DEF Type
<1>7. CASE SyncApplies
  <2>1. TypeText'
    <3>1. sync.from \in 0..Head /\ sync.to \in Version /\ file \in Files /\ spare \in Files
      BY <1>a DEF Type, TypeText, TypeJobs
    <3>2. Carried(file.com, sync.from, sync.to) \in Lines
      BY <3>1, <1>a
    <3>3. \/ file' = file
          \/ file' = [file EXCEPT !.content = sync.to, !.com = Carried(file.com, sync.from, sync.to)]
      BY <1>7 DEF SyncApplies
    <3>4. spare' = spare /\ disk' = disk
      BY <1>7 DEF SyncApplies, store
    <3>5. [file EXCEPT !.content = sync.to, !.com = Carried(file.com, sync.from, sync.to)] \in Files
      BY <3>1, <3>2, FilesTyped
    <3> QED BY <3>1, <3>3, <3>4, <3>5 DEF Type, TypeText
  <2>2. TypeJobs'
    BY <1>7, <1>c, <1>f DEF Type, TypeRest, TypeJobs, HandAt, Copies, SyncApplies,
       Applies, SyncOff, session, round, store, ghosts
  <2>3. TypeRest'
    BY <1>7, <1>c, <1>f DEF Type, TypeRest, SyncApplies, Applies, Misled, In,
       SyncOff, session, round, store, ghosts, TypeJobs
  <2> QED BY <2>1, <2>2, <2>3 DEF Type
<1>8. CASE SyncSaves
  <2>1. TypeText'
    BY <1>8, <1>a, <1>b, <1>c DEF Type, TypeText, TypeJobs, TypeRest, SyncSaves,
       session, round, store, ghosts
  <2>2. TypeJobs'
    BY <1>8, <1>c, <1>f DEF Type, TypeRest, TypeJobs, HandAt, Copies, SyncSaves,
       SyncOff, session, round, store, ghosts
  <2>3. TypeRest'
    BY <1>8, <1>c, <1>f DEF Type, TypeRest, SyncSaves, SyncOff, session, round,
       store, ghosts, TypeJobs
  <2> QED BY <2>1, <2>2, <2>3 DEF Type
<1>9. CASE SyncSaveFails
  <2>1. TypeText'
    BY <1>9, <1>a, <1>b, <1>c DEF Type, TypeText, TypeJobs, TypeRest, SyncSaveFails,
       session, round, store, ghosts
  <2>2. TypeJobs'
    BY <1>9, <1>c, <1>f DEF Type, TypeRest, TypeJobs, HandAt, Copies, SyncSaveFails,
       SyncOff, session, round, store, ghosts
  <2>3. TypeRest'
    BY <1>9, <1>c, <1>f, <1>e DEF Type, TypeRest, SyncSaveFails, Behind, In, SyncOff,
       session, round, store, ghosts, TypeJobs
  <2> QED BY <2>1, <2>2, <2>3 DEF Type
<1>10. CASE Signal
  <2>1. TypeText'
    BY <1>10, <1>a, <1>b, <1>c DEF Type, TypeText, TypeJobs, TypeRest, Signal, Queue,
       Added, session, round, store, ghosts
  <2>2. TypeJobs'
    BY <1>10, <1>c, <1>f DEF Type, TypeRest, TypeJobs, HandAt, Copies, Signal, Queue,
       Added, session, round, store, ghosts
  <2>3. TypeRest'
    <3>1. seq' \in Nat /\ acts' \in Nat
      BY <1>10, <1>e DEF Signal, Type, TypeRest
    <3>2. astray' \in SUBSET Comment /\ hurried' \in SUBSET Comment
      BY <1>10 DEF Signal, Behind, Added, In, Type, TypeRest
    <3> QED BY <1>10, <3>1, <3>2 DEF Signal, Queue, Type, TypeRest
  <2> QED BY <2>1, <2>2, <2>3 DEF Type
<1>11. CASE Receive
  <2>1. TypeText'
    BY <1>11, <1>a, <1>b, <1>c DEF Type, TypeText, TypeJobs, TypeRest, Receive, Hand,
       session, round, store, ghosts
  <2>2. TypeJobs'
    BY <1>11, <1>c, <1>f DEF Type, TypeRest, TypeJobs, HandAt, Copies, Receive, Hand,
       session, round, store, ghosts
  <2>3. TypeRest'
    BY <1>11, <1>c, <1>f DEF Type, TypeRest, Receive, Hand, session, round, store,
       ghosts, TypeJobs
  <2> QED BY <2>1, <2>2, <2>3 DEF Type
<1>12. CASE HandleStarts
  <2>1. TypeText'
    BY <1>12, <1>a, <1>b, <1>c DEF Type, TypeText, TypeJobs, TypeRest, HandleStarts,
       session, round, store, ghosts
  <2>2. TypeJobs'
    BY <1>12, <1>c, <1>f DEF Type, TypeRest, TypeJobs, HandAt, Copies, HandleStarts,
       session, round, store, ghosts
  <2>3. TypeRest'
    BY <1>12, <1>c, <1>f DEF Type, TypeRest, HandleStarts, session, round, store,
       ghosts, TypeJobs
  <2> QED BY <2>1, <2>2, <2>3 DEF Type
<1>13. CASE LoadComments
  <2>1. TypeText'
    BY <1>13, <1>a, <1>b, <1>c DEF Type, TypeText, TypeJobs, TypeRest, LoadComments,
       Hand, session, round, store, ghosts
  <2>2. TypeJobs'
    BY <1>13, <1>c, <1>f DEF Type, TypeRest, TypeJobs, HandAt, Copies, LoadComments,
       Hand, session, round, store, ghosts
  <2>3. TypeRest'
    BY <1>13, <1>c, <1>f DEF Type, TypeRest, LoadComments, Hand, session, round,
       store, ghosts, TypeJobs
  <2> QED BY <2>1, <2>2, <2>3 DEF Type
<1>14. CASE ListFiles
  <2>1. TypeText'
    BY <1>14, <1>a, <1>b, <1>c DEF Type, TypeText, TypeJobs, TypeRest, ListFiles,
       session, round, store, ghosts
  <2>2. TypeJobs'
    BY <1>14, <1>c, <1>f DEF Type, TypeRest, TypeJobs, HandAt, Copies, ListFiles,
       session, round, store, ghosts
  <2>3. TypeRest'
    BY <1>14, <1>c, <1>f DEF Type, TypeRest, ListFiles, session, round, store,
       ghosts, TypeJobs
  <2> QED BY <2>1, <2>2, <2>3 DEF Type
<1>15. CASE AssignFiles
  <2>1. TypeText'
    BY <1>15, <1>a, <1>b, <1>c DEF Type, TypeText, TypeJobs, TypeRest, AssignFiles,
       session, round, store, ghosts
  <2>2. TypeJobs'
    BY <1>15, <1>c, <1>f DEF Type, TypeRest, TypeJobs, HandAt, Copies, AssignFiles,
       session, round, store, ghosts
  <2>3. TypeRest'
    BY <1>15, <1>c, <1>f DEF Type, TypeRest, AssignFiles, In, session, round, store,
       ghosts, TypeJobs
  <2> QED BY <2>1, <2>2, <2>3 DEF Type
<1>16. CASE RereadFile
  <2>1. TypeText'
    BY <1>16, <1>a, <1>b, <1>c DEF Type, TypeText, TypeJobs, TypeRest, RereadFile,
       Hand, Base, Reread, session, round, store, ghosts
  <2>2. TypeJobs'
    BY <1>16, <1>c, <1>f DEF Type, TypeRest, TypeJobs, HandAt, Copies, RereadFile,
       Hand, Base, Reread, session, round, store, ghosts
  <2>3. TypeRest'
    BY <1>16, <1>c, <1>f DEF Type, TypeRest, RereadFile, Hand, Base, Reread, session,
       round, store, ghosts, TypeJobs
  <2> QED BY <2>1, <2>2, <2>3 DEF Type
<1>17. CASE CarryForward
  <2>1. TypeText'
    <3> DEFINE moved == [c \in Comment |->
                 IF c \in Added THEN file.com[c] ELSE Carried(file.prev, file.base, file.content)[c]]
    <3>0. Carried(file.prev, file.base, file.content) \in Lines /\ file.com \in Lines
      BY <1>a
    <3>1. moved \in Lines
      BY <3>0 DEF Lines
    <3>2. file' = file \/ file' = [file EXCEPT !.com = moved]
      BY <1>17 DEF CarryForward
    <3>3. spare' = spare /\ disk' = disk
      BY <1>17 DEF CarryForward, store
    <3>4. [file EXCEPT !.com = moved] \in Files
      BY <1>a, <1>b, <3>1 DEF Type, TypeText
    <3> QED BY <3>2, <3>3, <3>4 DEF Type, TypeText
  <2>2. TypeJobs'
    BY <1>17, <1>c, <1>f DEF Type, TypeRest, TypeJobs, HandAt, Copies, CarryForward,
       Hand, Added, session, round, store, ghosts
  <2>3. TypeRest'
    BY <1>17, <1>c, <1>f DEF Type, TypeRest, CarryForward, Hand, Added, Misled, In,
       session, round, store, ghosts, TypeJobs
  <2> QED BY <2>1, <2>2, <2>3 DEF Type
<1>18. CASE Persist
  <2>1. TypeText'
    BY <1>18, <1>a, <1>b, <1>c DEF Type, TypeText, TypeJobs, TypeRest, Persist, Hand,
       session, round, store, ghosts
  <2>2. TypeJobs'
    BY <1>18, <1>c, <1>f DEF Type, TypeRest, TypeJobs, HandAt, Copies, Persist, Hand,
       session, round, store, ghosts
  <2>3. TypeRest'
    BY <1>18, <1>c, <1>f DEF Type, TypeRest, Persist, Hand, session, round, store,
       ghosts, TypeJobs
  <2> QED BY <2>1, <2>2, <2>3 DEF Type
<1>19. CASE FinishRound
  <2>1. TypeText'
    BY <1>19, <1>a, <1>b, <1>c DEF Type, TypeText, TypeJobs, TypeRest, FinishRound,
       StillPending, session, round, store, ghosts
  <2>2. TypeJobs'
    BY <1>19, <1>c, <1>f DEF Type, TypeRest, TypeJobs, HandAt, Copies, FinishRound,
       HandOff, StillPending, session, round, store, ghosts
  <2>3. TypeRest'
    BY <1>19, <1>c, <1>f DEF Type, TypeRest, FinishRound, HandOff, StillPending,
       session, round, store, ghosts, TypeJobs
  <2> QED BY <2>1, <2>2, <2>3 DEF Type
<1>20. CASE PersistFails
  <2>1. TypeText'
    BY <1>20, <1>a, <1>b, <1>c DEF Type, TypeText, TypeJobs, TypeRest, PersistFails,
       Hand, session, round, store, ghosts
  <2>2. TypeJobs'
    BY <1>20, <1>c, <1>f DEF Type, TypeRest, TypeJobs, HandAt, Copies, PersistFails,
       Hand, session, round, store, ghosts
  <2>3. TypeRest'
    BY <1>20, <1>c, <1>f, <1>e DEF Type, TypeRest, PersistFails, Hand, Behind, In,
       session, round, store, ghosts, TypeJobs
  <2> QED BY <2>1, <2>2, <2>3 DEF Type
<1>21. ASSUME NEW f \in {"W", "R"}, SwitchStarts(f) PROVE Type'
  <2>1. TypeText'
    BY <1>21, <1>a, <1>b, <1>c DEF Type, TypeText, TypeJobs, TypeRest, SwitchStarts,
       session, round, store, ghosts
  <2>2. TypeJobs'
    BY <1>21, <1>c, <1>f DEF Type, TypeRest, TypeJobs, HandAt, Copies, SwitchStarts,
       session, round, store, ghosts
  <2>3. TypeRest'
    BY <1>21, <1>c, <1>f, <1>e DEF Type, TypeRest, SwitchStarts, session, round,
       store, ghosts, TypeJobs
  <2> QED BY <2>1, <2>2, <2>3 DEF Type
<1>22. CASE Flush
  <2>1. TypeText'
    BY <1>22, <1>a, <1>b, <1>c DEF Type, TypeText, TypeJobs, TypeRest, Flush, To,
       Flushed, session, round, store, ghosts
  <2>2. TypeJobs'
    BY <1>22, <1>c, <1>f DEF Type, TypeRest, TypeJobs, HandAt, Copies, Flush, To,
       Flushed, session, round, store, ghosts
  <2>3. TypeRest'
    BY <1>22, <1>c, <1>f DEF Type, TypeRest, Flush, To, Flushed, session, round,
       store, ghosts, TypeJobs
  <2> QED BY <2>1, <2>2, <2>3 DEF Type
<1>23. CASE Build
  <2>1. TypeText'
    BY <1>23, <1>a, <1>b, <1>c DEF Type, TypeText, TypeJobs, TypeRest, Build,
       session, round, store, ghosts
  <2>2. TypeJobs'
    BY <1>23, <1>c, <1>f DEF Type, TypeRest, TypeJobs, HandAt, Copies, Build,
       session, round, store, ghosts
  <2>3. TypeRest'
    BY <1>23, <1>c, <1>f DEF Type, TypeRest, Build, session, round, store, ghosts, TypeJobs
  <2> QED BY <2>1, <2>2, <2>3 DEF Type
<1>24. CASE Swap
  <2>1. TypeText'
    BY <1>24, <1>a, <1>b, <1>c DEF Type, TypeText, TypeJobs, TypeRest, Swap, Hold,
       session, round, store, ghosts
  <2>2. TypeJobs'
    BY <1>24, <1>c, <1>f, <1>d DEF Type, TypeRest, TypeJobs, HandAt, Copies, Swap,
       Hold, session, round, store, ghosts
  <2>3. TypeRest'
    BY <1>24, <1>c, <1>f DEF Type, TypeRest, Swap, In, Hold, session, round, store,
       ghosts, TypeJobs
  <2> QED BY <2>1, <2>2, <2>3 DEF Type
<1>25. CASE LoadFile
  <2>1. TypeText'
    BY <1>25, <1>a, <1>b, <1>c DEF Type, TypeText, TypeJobs, TypeRest, LoadFile, To,
       session, round, store, ghosts
  <2>2. TypeJobs'
    BY <1>25, <1>c, <1>f DEF Type, TypeRest, TypeJobs, HandAt, Copies, LoadFile, To,
       session, round, store, ghosts
  <2>3. TypeRest'
    BY <1>25, <1>c, <1>f DEF Type, TypeRest, LoadFile, To, In, session, round, store,
       ghosts, TypeJobs
  <2> QED BY <2>1, <2>2, <2>3 DEF Type
<1>26. CASE PersistScope
  <2>1. TypeText'
    BY <1>26, <1>a, <1>b, <1>c DEF Type, TypeText, TypeJobs, TypeRest, PersistScope,
       session, round, store, ghosts
  <2>2. TypeJobs'
    BY <1>26, <1>c, <1>f DEF Type, TypeRest, TypeJobs, HandAt, Copies, PersistScope,
       SwitchOff, session, round, store, ghosts
  <2>3. TypeRest'
    BY <1>26, <1>c, <1>f DEF Type, TypeRest, PersistScope, SwitchOff, session, round,
       store, ghosts, TypeJobs
  <2> QED BY <2>1, <2>2, <2>3 DEF Type
<1>27. CASE FlushFails
  <2>1. TypeText'
    BY <1>27, <1>a, <1>b, <1>c DEF Type, TypeText, TypeJobs, TypeRest, FlushFails,
       ArmTimer, session, round, store, ghosts
  <2>2. TypeJobs'
    BY <1>27, <1>c, <1>f DEF Type, TypeRest, TypeJobs, HandAt, Copies, FlushFails,
       SwitchOff, ArmTimer, session, round, store, ghosts
  <2>3. TypeRest'
    BY <1>27, <1>c, <1>f, <1>e DEF Type, TypeRest, FlushFails, SwitchOff, ArmTimer,
       session, round, store, ghosts, TypeJobs
  <2> QED BY <2>1, <2>2, <2>3 DEF Type
<1>28. CASE BuildFails
  <2>1. TypeText'
    BY <1>28, <1>a, <1>b, <1>c DEF Type, TypeText, TypeJobs, TypeRest, BuildFails,
       session, round, store, ghosts
  <2>2. TypeJobs'
    BY <1>28, <1>c, <1>f DEF Type, TypeRest, TypeJobs, HandAt, Copies, BuildFails,
       SwitchOff, session, round, store, ghosts
  <2>3. TypeRest'
    BY <1>28, <1>c, <1>f, <1>e DEF Type, TypeRest, BuildFails, SwitchOff, session,
       round, store, ghosts, TypeJobs
  <2> QED BY <2>1, <2>2, <2>3 DEF Type
<1>29. CASE RollBack
  <2>1. TypeText'
    BY <1>29, <1>a, <1>b, <1>c DEF Type, TypeText, TypeJobs, TypeRest, RollBack,
       OldFocus, Hold, session, round, store, ghosts
  <2>2. TypeJobs'
    BY <1>29, <1>c, <1>f, <1>d DEF Type, TypeRest, TypeJobs, HandAt, Copies,
       RollBack, SwitchOff, OldFocus, Hold, session, round, store, ghosts
  <2>3. TypeRest'
    BY <1>29, <1>c, <1>f, <1>e DEF Type, TypeRest, RollBack, SwitchOff, OldFocus,
       Hold, session, round, store, ghosts, TypeJobs
  <2> QED BY <2>1, <2>2, <2>3 DEF Type
<1>30. CASE UNCHANGED vars
  BY <1>30 DEF vars, session, round, store, ghosts, Type, TypeText, TypeJobs, TypeRest
<1> QED BY <1>1, <1>2, <1>3, <1>4, <1>5, <1>6, <1>7, <1>8, <1>9, <1>10, <1>11, <1>12,
    <1>13, <1>14, <1>15, <1>16, <1>17, <1>18, <1>19, <1>20, <1>21, <1>22, <1>23, <1>24,
    <1>25, <1>26, <1>27, <1>28, <1>29, <1>30 DEF Next, SyncStep, HandleStep, SwitchStep

-----------------------------------------------------------------------------
(* Carrying lines loses no comment and adds none.                          *)
LEMMA CarriedIn ==
  ASSUME FocusAssumption, NEW lines \in Lines, NEW from, NEW to \in Version
  PROVE  In(Carried(lines, from, to)) = In(lines)
<1>1. to # 0
  BY DEF FocusAssumption, Version, Head
<1>2. \A c \in Comment : Carried(lines, from, to)[c] # 0 <=> lines[c] # 0
  BY <1>1 DEF Carried, In
<1> QED BY <1>2 DEF In

(* What a sync does: it moves the text and the lines, or leaves.           *)
LEMMA SyncShape ==
  ASSUME FocusAssumption, Type, SyncApplies
  PROVE  /\ UNCHANGED <<tree, focus, spare, disk, view, scope, armed, shown, pending, seq,
                         queued, hand, switch, hurried, torn, double>>
         /\ sync.at = "apply" /\ mu = "free" /\ astray \subseteq astray'
         /\ sync'.at \in {"off", "save"}
         /\ \/ file' = file /\ sync'.at = "off"
            \/ /\ ~pending /\ file.content = sync.from /\ file'.content = sync.to
               /\ file'.com = Carried(file.com, sync.from, sync.to) /\ file'.prev = file.prev
               /\ In(file'.com) = In(file.com) /\ astray' = astray \cup Misled(file.com)
               /\ sync'.at = "save" => sync'.to = sync.to /\ sync'.from = sync.from
               /\ sync'.at = "off" => In(file.com) = {}
<1>1. In(Carried(file.com, sync.from, sync.to)) = In(file.com)
  <2>1. file.com \in Lines /\ sync.to \in Version
    BY DEF Type, TypeText, TypeJobs, Files
  <2> QED BY <2>1, CarriedIn
<1>2. CASE Applies
  <2>1. file' = [file EXCEPT !.content = sync.to, !.com = Carried(file.com, sync.from, sync.to)]
    BY <1>2 DEF SyncApplies
  <2>2. /\ file'.content = sync.to /\ file'.prev = file.prev
        /\ file'.com = Carried(file.com, sync.from, sync.to)
    BY <2>1 DEF Type, TypeText, TypeJobs, Files
  <2> QED BY <1>1, <1>2, <2>2 DEF SyncApplies, Applies, Type, TypeJobs, SyncOff,
      session, round, store
<1>3. CASE ~Applies
  BY <1>3 DEF SyncApplies, SyncOff, session, round, store
<1> QED BY <1>2, <1>3

(* Turns.                                                                  *)
LEMMA TurnsStep ==
  ASSUME FocusAssumption, Type, Turns, [Next]_vars
  PROVE  Turns'
<1> USE DEF Type, TypeText, TypeJobs, TypeRest, Turns, HandAt
<1>1. CASE AgentEdits
  BY <1>1 DEF AgentEdits, session, round, store, ghosts
<1>2. CASE Show
  BY <1>2 DEF Show, session, round, store, ghosts
<1>3. CASE TimerFires
  BY <1>3 DEF TimerFires, session, round, store, ghosts
<1>4. ASSUME NEW c \in Comment, AddComment(c) PROVE Turns'
  BY <1>4 DEF AddComment, session, round, store, ghosts
<1>5. CASE SyncStarts
  BY <1>5 DEF SyncStarts, session, round, store, ghosts
<1>6. CASE SyncReads
  BY <1>6 DEF SyncReads, SyncOff, session, round, store, ghosts
<1>7. CASE SyncApplies
  BY <1>7 DEF SyncApplies, Applies, SyncOff, session, round, store, ghosts
<1>8. CASE SyncSaves
  BY <1>8 DEF SyncSaves, SyncOff, session, round, store, ghosts
<1>9. CASE SyncSaveFails
  BY <1>9 DEF SyncSaveFails, SyncOff, session, round, store, ghosts
<1>10. CASE Signal
  BY <1>10 DEF Signal, Queue, session, round, store, ghosts
<1>11. CASE Receive
  BY <1>11 DEF Receive, Hand, session, round, store, ghosts
<1>12. CASE HandleStarts
  BY <1>12 DEF HandleStarts, session, round, store, ghosts
<1>13. CASE LoadComments
  BY <1>13 DEF LoadComments, Hand, session, round, store, ghosts
<1>14. CASE ListFiles
  BY <1>14 DEF ListFiles, session, round, store, ghosts
<1>15. CASE AssignFiles
  BY <1>15 DEF AssignFiles, session, round, store, ghosts
<1>16. CASE RereadFile
  BY <1>16 DEF RereadFile, Hand, Base, Reread, session, round, store, ghosts
<1>17. CASE CarryForward
  BY <1>17 DEF CarryForward, Hand, session, round, store, ghosts
<1>18. CASE Persist
  BY <1>18 DEF Persist, Hand, session, round, store, ghosts
<1>19. CASE FinishRound
  BY <1>19 DEF FinishRound, HandOff, StillPending, session, round, store, ghosts
<1>20. CASE PersistFails
  BY <1>20 DEF PersistFails, Hand, session, round, store, ghosts
<1>21. ASSUME NEW f \in {"W", "R"}, SwitchStarts(f) PROVE Turns'
  BY <1>21 DEF SwitchStarts, session, round, store, ghosts
<1>22. CASE Flush
  BY <1>22 DEF Flush, To, Flushed, session, round, store, ghosts
<1>23. CASE Build
  BY <1>23 DEF Build, session, round, store, ghosts
<1>24. CASE Swap
  BY <1>24 DEF Swap, Fresh, Hold, Replaced, session, round, store, ghosts
<1>25. CASE LoadFile
  BY <1>25 DEF LoadFile, To, session, round, store, ghosts
<1>26. CASE PersistScope
  BY <1>26 DEF PersistScope, SwitchOff, session, round, store, ghosts
<1>27. CASE FlushFails
  BY <1>27 DEF FlushFails, SwitchOff, ArmTimer, session, round, store, ghosts
<1>28. CASE BuildFails
  BY <1>28 DEF BuildFails, SwitchOff, session, round, store, ghosts
<1>29. CASE RollBack
  BY <1>29 DEF RollBack, SwitchOff, OldFocus, Hold, PutBack, session, round, store, ghosts
<1>30. CASE UNCHANGED vars
  BY <1>30 DEF vars, session, round, store, ghosts
<1> HIDE DEF Type, TypeText, TypeJobs, TypeRest, Turns, HandAt
<1> QED BY <1>1, <1>2, <1>3, <1>4, <1>5, <1>6, <1>7, <1>8, <1>9, <1>10, <1>11, <1>12,
    <1>13, <1>14, <1>15, <1>16, <1>17, <1>18, <1>19, <1>20, <1>21, <1>22, <1>23, <1>24,
    <1>25, <1>26, <1>27, <1>28, <1>29, <1>30 DEF Next, SyncStep, HandleStep, SwitchStep

(* The focus.                                                              *)
LEMMA FocusedStep ==
  ASSUME FocusAssumption, Type, Turns, Focused, [Next]_vars
  PROVE  Focused'
<1> USE DEF Type, TypeText, TypeJobs, TypeRest, Turns, Focused, Away, HandAt
<1>1. CASE AgentEdits
  BY <1>1 DEF AgentEdits, session, round, store, ghosts, FocusAssumption, Version, Head
<1>2. CASE Show
  BY <1>2 DEF Show, session, round, store, ghosts
<1>3. CASE TimerFires
  BY <1>3 DEF TimerFires, session, round, store, ghosts
<1>4. ASSUME NEW c \in Comment, AddComment(c) PROVE Focused'
  BY <1>4 DEF AddComment, session, round, store, ghosts, Files
<1>5. CASE SyncStarts
  BY <1>5 DEF SyncStarts, session, round, store, ghosts
<1>6. CASE SyncReads
  BY <1>6 DEF SyncReads, SyncOff, session, round, store, ghosts, FocusAssumption,
     Version, Head
<1>7. CASE SyncApplies
  BY <1>7, SyncShape
<1>8. CASE SyncSaves
  BY <1>8 DEF SyncSaves, SyncOff, session, round, store, ghosts
<1>9. CASE SyncSaveFails
  BY <1>9 DEF SyncSaveFails, SyncOff, session, round, store, ghosts
<1>10. CASE Signal
  BY <1>10 DEF Signal, Queue, session, round, store, ghosts, Files
<1>11. CASE Receive
  BY <1>11 DEF Receive, Hand, session, round, store, ghosts
<1>12. CASE HandleStarts
  BY <1>12 DEF HandleStarts, session, round, store, ghosts
<1>13. CASE LoadComments
  BY <1>13 DEF LoadComments, Hand, session, round, store, ghosts, Files
<1>14. CASE ListFiles
  BY <1>14 DEF ListFiles, session, round, store, ghosts
<1>15. CASE AssignFiles
  BY <1>15 DEF AssignFiles, session, round, store, ghosts
<1>16. CASE RereadFile
  BY <1>16 DEF RereadFile, Hand, Base, Reread, session, round, store, ghosts, Files,
     FocusAssumption, Version, Head
<1>17. CASE CarryForward
  <2>1. file'.content = file.content
    BY <1>17 DEF CarryForward, Files
  <2> QED BY <1>17, <2>1 DEF CarryForward, Hand, store
<1>18. CASE Persist
  BY <1>18 DEF Persist, Hand, session, round, store, ghosts
<1>19. CASE FinishRound
  BY <1>19 DEF FinishRound, HandOff, StillPending, session, round, store, ghosts
<1>20. CASE PersistFails
  BY <1>20 DEF PersistFails, Hand, session, round, store, ghosts
<1>21. ASSUME NEW f \in {"W", "R"}, SwitchStarts(f) PROVE Focused'
  BY <1>21 DEF SwitchStarts, session, round, store, ghosts
<1>22. CASE Flush
  BY <1>22 DEF Flush, To, Flushed, session, round, store, ghosts
<1>23. CASE Build
  BY <1>23 DEF Build, session, round, store, ghosts, FocusAssumption, Version, Head
<1>24. CASE Swap
  BY <1>24 DEF Swap, Fresh, Hold, Replaced, session, round, store, ghosts
<1>25. CASE LoadFile
  BY <1>25 DEF LoadFile, To, session, round, store, ghosts
<1>26. CASE PersistScope
  BY <1>26 DEF PersistScope, SwitchOff, session, round, store, ghosts
<1>27. CASE FlushFails
  BY <1>27 DEF FlushFails, SwitchOff, ArmTimer, session, round, store, ghosts
<1>28. CASE BuildFails
  BY <1>28 DEF BuildFails, SwitchOff, session, round, store, ghosts
<1>29. CASE RollBack
  BY <1>29 DEF RollBack, SwitchOff, OldFocus, Hold, PutBack, session, round, store, ghosts
<1>30. CASE UNCHANGED vars
  BY <1>30 DEF vars, session, round, store, ghosts
<1> HIDE DEF Type, TypeText, TypeJobs, TypeRest, Turns, Focused, Away, HandAt
<1> QED BY <1>1, <1>2, <1>3, <1>4, <1>5, <1>6, <1>7, <1>8, <1>9, <1>10, <1>11, <1>12,
    <1>13, <1>14, <1>15, <1>16, <1>17, <1>18, <1>19, <1>20, <1>21, <1>22, <1>23, <1>24,
    <1>25, <1>26, <1>27, <1>28, <1>29, <1>30 DEF Next, SyncStep, HandleStep, SwitchStep

(* No comment is lost.                                                     *)
LEMMA KeptStep ==
  ASSUME FocusAssumption, Type, Turns, Kept, [Next]_vars
  PROVE  Kept'
<1> USE DEF Type, TypeText, TypeJobs, TypeRest, Turns, Kept, Made, In, Files, Lines
<1>1. CASE AgentEdits
  BY <1>1 DEF AgentEdits, session, round, store, ghosts
<1>2. CASE Show
  BY <1>2 DEF Show, session, round, store, ghosts
<1>3. CASE TimerFires
  BY <1>3 DEF TimerFires, Saved, session, round, store, ghosts
<1>4. ASSUME NEW c \in Comment, AddComment(c) PROVE Kept'
  BY <1>4 DEF AddComment, session, round, store, ghosts, FocusAssumption, Version, Head
<1>5. CASE SyncStarts
  BY <1>5 DEF SyncStarts, session, round, store, ghosts
<1>6. CASE SyncReads
  BY <1>6 DEF SyncReads, session, round, store, ghosts
<1>7. CASE SyncApplies
  BY <1>7, SyncShape
<1>8. CASE SyncSaves
  BY <1>8 DEF SyncSaves, Saved, session, round, store, ghosts
<1>9. CASE SyncSaveFails
  BY <1>9 DEF SyncSaveFails, Behind, session, round, store, ghosts
<1>10. CASE Signal
  BY <1>10 DEF Signal, Queue, None, Behind, Added, session, round, store, ghosts
<1>11. CASE Receive
  BY <1>11 DEF Receive, Hand, session, round, store, ghosts
<1>12. CASE HandleStarts
  BY <1>12 DEF HandleStarts, session, round, store, ghosts
<1>13. CASE LoadComments
  BY <1>13 DEF LoadComments, Hand, session, round, store, ghosts
<1>14. CASE ListFiles
  BY <1>14 DEF ListFiles, session, round, store, ghosts
<1>15. CASE AssignFiles
  BY <1>15 DEF AssignFiles, session, round, store, ghosts
<1>16. CASE RereadFile
  BY <1>16 DEF RereadFile, Hand, Base, Reread, session, round, store, ghosts
<1>17. CASE CarryForward
  BY <1>17 DEF CarryForward, Hand, Added, Carried, Misled, session, round, store,
     ghosts, FocusAssumption, Version, Head
<1>18. CASE Persist
  BY <1>18 DEF Persist, Hand, Saved, session, round, store, ghosts
<1>19. CASE FinishRound
  BY <1>19 DEF FinishRound, StillPending, session, round, store, ghosts
<1>20. CASE PersistFails
  BY <1>20 DEF PersistFails, Hand, Behind, session, round, store, ghosts
<1>21. ASSUME NEW f \in {"W", "R"}, SwitchStarts(f) PROVE Kept'
  BY <1>21 DEF SwitchStarts, session, round, store, ghosts
<1>22. CASE Flush
  BY <1>22 DEF Flush, To, Flushed, Saved, session, round, store, ghosts
<1>23. CASE Build
  BY <1>23 DEF Build, session, round, store, ghosts
<1>24. CASE Swap
  BY <1>24 DEF Swap, Fresh, None, Saved, Hold, Replaced, session, round, store, ghosts
<1>25. CASE LoadFile
  BY <1>25 DEF LoadFile, To, session, round, store, ghosts
<1>26. CASE PersistScope
  BY <1>26 DEF PersistScope, session, round, store, ghosts
<1>27. CASE FlushFails
  BY <1>27 DEF FlushFails, SwitchOff, session, round, ghosts
<1>28. CASE BuildFails
  BY <1>28 DEF BuildFails, session, round, store, ghosts
<1>29. CASE RollBack
  BY <1>29 DEF RollBack, OldFocus, Hold, PutBack, session, round, store, ghosts
<1>30. CASE UNCHANGED vars
  BY <1>30 DEF vars, session, round, store, ghosts
<1> HIDE DEF Type, TypeText, TypeJobs, TypeRest, Turns, Kept, Made, In, Files, Lines
<1> QED BY <1>1, <1>2, <1>3, <1>4, <1>5, <1>6, <1>7, <1>8, <1>9, <1>10, <1>11, <1>12,
    <1>13, <1>14, <1>15, <1>16, <1>17, <1>18, <1>19, <1>20, <1>21, <1>22, <1>23, <1>24,
    <1>25, <1>26, <1>27, <1>28, <1>29, <1>30 DEF Next, SyncStep, HandleStep, SwitchStep

(* The lines.                                                              *)
LEMMA TextsStep ==
  ASSUME FocusAssumption, Type, Turns, Kept, Texts, [Next]_vars
  PROVE  Texts'
<1> USE DEF Type, TypeText, TypeJobs, TypeRest, Turns, Kept, Made, In, Files, Lines,
    Texts, Here, There, Away, On, MemoryFollows, DiskFollows, LastRoundFollows,
    RoundHasAll, RestFollows, MemoryHasAll, SpareFollows
<1>1. CASE AgentEdits
  BY <1>1 DEF AgentEdits, session, round, store, ghosts
<1>2. CASE Show
  BY <1>2 DEF Show, session, round, store, ghosts
<1>3. CASE TimerFires
  BY <1>3 DEF TimerFires, Saved, session, round, store, ghosts
<1>4. ASSUME NEW c \in Comment, AddComment(c) PROVE Texts'
  BY <1>4 DEF AddComment, session, round, store, ghosts, FocusAssumption, Version, Head
<1>5. CASE SyncStarts
  BY <1>5 DEF SyncStarts, session, round, store, ghosts
<1>6. CASE SyncReads
  BY <1>6 DEF SyncReads, SyncOff, session, round, store, ghosts
<1>7. CASE SyncApplies
  <2>1. CASE file' = file
    BY <1>7, <2>1, SyncShape
  <2>2. CASE file' # file
    <3>1. /\ UNCHANGED <<focus, spare, disk, view, pending, seq, queued, hand, switch, double>>
          /\ ~pending /\ mu = "free" /\ sync'.at \in {"off", "save"}
          /\ file'.content = sync.to /\ file'.prev = file.prev /\ file.content = sync.from
          /\ In(file'.com) = In(file.com) /\ astray \subseteq astray'
          /\ file'.com = Carried(file.com, sync.from, sync.to)
          /\ sync'.at = "off" => In(file.com) = {}
      BY <1>7, <2>2, SyncShape
    <3>2. ~double => hand.at = "off" /\ switch.at = "off"
      BY <3>1
    <3>3. Here' \subseteq Here
      BY <3>1
    <3>4. ASSUME ~double PROVE MemoryFollows' /\ DiskFollows' /\ MemoryHasAll'
      <4>1. On(file.com, file.content, Here) /\ Here \cap In(disk) \subseteq In(file.com)
        BY <3>1, <3>2, <3>4
      <4>2. MemoryFollows'
        BY <3>1, <3>3, <4>1 DEF Carried
      <4>3. DiskFollows' /\ MemoryHasAll'
        BY <3>1, <3>3, <4>1
      <4> QED BY <4>2, <4>3
    <3> QED BY <3>1, <3>2, <3>4
  <2> QED BY <2>1, <2>2
<1>8. CASE SyncSaves
  BY <1>8 DEF SyncSaves, Saved, SyncOff, session, round, store, ghosts
<1>9. CASE SyncSaveFails
  BY <1>9 DEF SyncSaveFails, Behind, SyncOff, session, round, store, ghosts
<1>10. CASE Signal
  BY <1>10 DEF Signal, Queue, None, Behind, Added, session, round, store, ghosts
<1>11. CASE Receive
  BY <1>11 DEF Receive, Hand, session, round, store, ghosts
<1>12. CASE HandleStarts
  BY <1>12 DEF HandleStarts, session, round, store, ghosts
<1>13. CASE LoadComments
  BY <1>13 DEF LoadComments, Hand, session, round, store, ghosts
<1>14. CASE ListFiles
  BY <1>14 DEF ListFiles, session, round, store, ghosts
<1>15. CASE AssignFiles
  BY <1>15 DEF AssignFiles, session, round, store, ghosts
<1>16. CASE RereadFile
  BY <1>16 DEF RereadFile, Hand, Base, Reread, session, round, store, ghosts
<1>17. CASE CarryForward
  BY <1>17 DEF CarryForward, Hand, Added, Carried, Misled, session, round, store,
     ghosts, FocusAssumption, Version, Head
<1>18. CASE Persist
  BY <1>18 DEF Persist, Hand, Saved, session, round, store, ghosts
<1>19. CASE FinishRound
  BY <1>19 DEF FinishRound, HandOff, StillPending, session, round, store, ghosts
<1>20. CASE PersistFails
  BY <1>20 DEF PersistFails, Hand, Behind, session, round, store, ghosts
<1>21. ASSUME NEW f \in {"W", "R"}, SwitchStarts(f) PROVE Texts'
  BY <1>21 DEF SwitchStarts, session, round, store, ghosts
<1>22. CASE Flush
  BY <1>22 DEF Flush, To, Flushed, Saved, session, round, store, ghosts
<1>23. CASE Build
  BY <1>23 DEF Build, session, round, store, ghosts
<1>24. CASE Swap
  BY <1>24 DEF Swap, Fresh, None, Saved, Hold, Replaced, session, round, store, ghosts
<1>25. CASE LoadFile
  BY <1>25 DEF LoadFile, To, session, round, store, ghosts
<1>26. CASE PersistScope
  BY <1>26 DEF PersistScope, SwitchOff, session, round, store, ghosts
<1>27. CASE FlushFails
  BY <1>27 DEF FlushFails, SwitchOff, ArmTimer, session, round, store, ghosts
<1>28. CASE BuildFails
  BY <1>28 DEF BuildFails, SwitchOff, session, round, store, ghosts
<1>29. CASE RollBack
  BY <1>29 DEF RollBack, SwitchOff, OldFocus, Hold, PutBack, session, round, store, ghosts
<1>30. CASE UNCHANGED vars
  BY <1>30 DEF vars, session, round, store, ghosts
<1> HIDE DEF Type, TypeText, TypeJobs, TypeRest, Turns, Kept, Made, In, Files, Lines,
    Texts, Here, There, Away, On, MemoryFollows, DiskFollows, LastRoundFollows,
    RoundHasAll, RestFollows, MemoryHasAll, SpareFollows
<1> QED BY <1>1, <1>2, <1>3, <1>4, <1>5, <1>6, <1>7, <1>8, <1>9, <1>10, <1>11, <1>12,
    <1>13, <1>14, <1>15, <1>16, <1>17, <1>18, <1>19, <1>20, <1>21, <1>22, <1>23, <1>24,
    <1>25, <1>26, <1>27, <1>28, <1>29, <1>30 DEF Next, SyncStep, HandleStep, SwitchStep
-----------------------------------------------------------------------------
LEMMA InitInv == FocusAssumption /\ Init => Inv
<1> SUFFICES ASSUME FocusAssumption, Init PROVE Inv
  OBVIOUS
<1> USE DEF Init, HandOff, SyncOff, SwitchOff, Fresh, None, In
<1>1. Type
  <2>1. 1 \in Version /\ tree \in 1..MaxVersion /\ [c \in Comment |-> 0] \in Lines
    BY DEF FocusAssumption, Version, Head, Lines
  <2>2. file \in Files /\ spare \in Files
    BY <2>1 DEF FocusAssumption, Files, Head
  <2> QED BY <2>1, <2>2 DEF Type, TypeText, TypeJobs, TypeRest, HandAt, Copies
<1>2. Turns /\ Focused
  BY DEF Turns, Focused, Away, FocusAssumption, Head
<1>3. Kept
  BY DEF Kept, Made
<1>4. Texts
  BY DEF Texts, MemoryFollows, DiskFollows, LastRoundFollows, RoundHasAll, RestFollows,
         MemoryHasAll, SpareFollows, On, Here, Away
<1> QED BY <1>1, <1>2, <1>3, <1>4 DEF Inv

LEMMA NextInv == FocusAssumption /\ Inv /\ [Next]_vars => Inv'
BY TypeStep, TurnsStep, FocusedStep, KeptStep, TextsStep DEF Inv

LEMMA InvInStep == Inv => ReviewInStep
<1> SUFFICES ASSUME Inv PROVE ReviewInStep
  OBVIOUS
<1> USE DEF Inv
<1>1. TypeOK
  BY DEF TypeOK, Type, TypeText, TypeJobs, TypeRest, Turns
<1>2. CommentsFollowText
  BY DEF CommentsFollowText, Texts, MemoryFollows, On, Here, Type, TypeText, TypeRest, In
<1>3. CommentsSurvive
  BY DEF CommentsSurvive, Kept, Made, In
<1>4. FocusIsConsistent
  BY DEF FocusIsConsistent, Focused, Away
<1> QED BY <1>1, <1>2, <1>3, <1>4 DEF ReviewInStep

(* Whatever the interleaving of syncs, rounds, switches and saves, failed  *)
(* or not, comments stay, and stay on the text of their focus, up to the   *)
(* exceptions that the property names (SyncWorkingTree, SetFocus and       *)
(* handleRoundCompleteGit).                                                *)
THEOREM ReviewStaysInStep == Spec => []ReviewInStep
<1>1. Init => Inv
  BY InitInv, FocusAssumption
<1>2. Inv /\ [Next]_vars => Inv'
  BY NextInv, FocusAssumption
<1> QED BY <1>1, <1>2, InvInStep, PTL DEF Spec
=============================================================================
