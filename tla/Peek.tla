-------------------------------- MODULE Peek --------------------------------
(* The lines of a file shown beside a definition or a reference            *)
(* (server/lsp_handlers.go, readPeek): all of a short file, else a window  *)
(* around the target.                                                      *)
EXTENDS Integers, Sequences
LOCAL INSTANCE SequencesExt
LOCAL INSTANCE FiniteSetsExt

CONSTANT TooLong      \* a line that does not fit the scanner's buffer

(* The lines the scanner yields: none from the first that is too long on.  *)
Scanned(file) ==
  IF Contains(file, TooLong) THEN SelectInSeq(file, LAMBDA l : l = TooLong) - 1 ELSE Len(file)

Shown(start, lines, truncated) == [start |-> start, lines |-> lines, truncated |-> truncated]
NoPeek == Shown(0, <<>>, FALSE)

ReadPeek(file, target, full, context) ==
  LET from == Max({target - context, 1})
      n    == Min({Scanned(file), Max({full, target + context}) + 1})
      error == Scanned(file) < Len(file) /\ Scanned(file) <= Max({full, target + context})
  IN  CASE n <= full /\ ~error ->
             IF n = 0 \/ from > n THEN NoPeek ELSE Shown(1, SubSeq(file, 1, n), FALSE)
        [] from > n -> NoPeek
        [] OTHER -> Shown(from, SubSeq(file, from, Min({n, target + context})), TRUE)

(* A target that can be read is in its peek, under its own number, and the *)
(* peek is as long as allowed; one that is not said to be truncated is the *)
(* whole file, also when lines beyond the window cannot be read.           *)
PeekShowsTarget(file, target, full, context) ==
  \A p \in {ReadPeek(file, target, full, context)} :
    /\ target \in 1..Scanned(file)
         => p.start <= target /\ target < p.start + Len(p.lines)
    /\ \A i \in DOMAIN p.lines : p.lines[i] = file[p.start + i - 1]
    /\ Len(p.lines) <= IF p.truncated THEN 2 * context + 1 ELSE full
    /\ p.lines # <<>> /\ ~p.truncated => p.lines = file
=============================================================================
