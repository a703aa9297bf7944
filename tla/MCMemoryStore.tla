---------------------------- MODULE MCMemoryStore ----------------------------
(* A file that may move onto another's place and one that may split in two;  *)
(* lessons that need to recur, that are believed at once and that cite the   *)
(* outside, a remedied failure, and cards of both files.                     *)
EXTENDS MemoryStore

MCBase == [p \in Paths |-> IF p \in {"a/f", "b/f"} THEN "f" ELSE "g"]
Item(list, kind, subject, path, evidence, remedy) ==
  [list |-> list, kind |-> kind, subject |-> subject, paths |-> path, nodes |-> {},
   evidence |-> evidence, remedy |-> remedy, complete |-> TRUE]
Lesson(subject, path, evidence) == Item("lessons", "semantic", subject, path, evidence, FALSE)
Card(id, path) == Item("entities", "semantic", id, path, {}, FALSE)

MCDeltas ==
  {<<Lesson("s", <<"b/f">>, {"check", "task"}), Lesson("t", <<"a/f">>, {"repo"})>>,
   <<Lesson("s", <<"b/f">>, {"repo", "web"}), Card("e", <<"x/g">>)>>,
   <<Item("failures", "failure", "u", <<>>, {"check"}, TRUE)>>}
MCTrees == <<{"a/f", "b/f", "x/g"}, {"b/f", "y/g", "z/g"}>>
MCSymmetry == Permutations(Tasks)
MCScopes == {MemoryTier, {}}
=============================================================================
