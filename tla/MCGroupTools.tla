----------------------------- MODULE MCGroupTools -----------------------------
(***************************************************************************)
(* GroupTools with the limits a model may ask of ReadChat: one message, no  *)
(* limit (any number at or above the cap), and the negative numbers that    *)
(* nothing refuses.  Three messages overflow the history; with mention      *)
(* wakes two are enough.  Two agents that look for a task need two tasks    *)
(* to lose one to each other; every other kind of call, and a failure, come *)
(* with three calls in all.                                                 *)
(*                                                                         *)
(* A single editor meets every small file, with empty lines and lines that  *)
(* are equal but for white space; two of them, and a crash, meet on a file  *)
(* of two lines, one, or none.  Two EditMemory calls that take away what    *)
(* the other has written may judge it for their own, and a file that        *)
(* becomes ambiguous anew outdates a suggestion.                            *)
(***************************************************************************)
EXTENDS GroupTools, TLC

CONSTANTS x, y, e1, e2

LimitsAsked == {-1, 1, 2}

Uses == {[wakes |-> 0, posts |-> 3], [wakes |-> 1, posts |-> 2], [wakes |-> 0, posts |-> 0]}

Calls ==
  {[calls |-> 0, fails |-> 0, edits |-> {}],
   [calls |-> 4, fails |-> 0, edits |-> {}],
   [calls |-> 3, fails |-> 1, edits |-> {{}, {"close"}, {"reopen"}, {"block"}, {"unblock"}}]}

Lines == {"", "a", " a", "b"}
Normal == [l \in Lines |-> IF l = " a" THEN "a" ELSE l]

File(lines, ended) == [lines |-> lines, ended |-> ended]
EditOf(old, new) == [tool |-> "edit", first |-> old, last |-> old, new |-> new]

OneEditor ==
  [first : {File(s, TRUE) : s \in BoundedSeq(Lines, 4) \ {<<>>}},
   memory : {FALSE}, editors : {{e1}}, calls : {2}, crashes : {0},
   asked : {{EditOf(old, new) : old \in {<<"a">>, <<"a", "b">>}, new \in {<<>>, <<"b", "">>}}
              \cup {[tool |-> "range", first |-> <<"a">>, last |-> <<"b">>, new |-> <<"">>]}}]

TwoEditors ==
  [first : {NoFile, File(<<"a", "b">>, FALSE), File(<<"a">>, TRUE)},
   memory : BOOLEAN, editors : {{e1, e2}}, calls : {3}, crashes : {1},
   asked : {{EditOf(<<"a">>, <<"">>), EditOf(<<>>, <<"a">>), EditOf(<<"b">>, <<"a">>),
             [tool |-> "create", new |-> File(<<"b">>, FALSE)]}}]

Removing(w) ==
  [w EXCEPT !.asked = @ \cup {IF w.memory THEN [tool |-> "forget"]
                             ELSE [tool |-> "replace", search |-> "a", new |-> ""]}]

Judging ==
  [first : {File(<<"a">>, TRUE)}, memory : {TRUE}, editors : {{e1, e2}}, calls : {3}, crashes : {0},
   asked : {{EditOf(<<"a">>, <<"">>), EditOf(<<"">>, <<"b">>), EditOf(<<"b">>, <<"">>)}}]

Outdating ==
  [first : {File(<<"a", "a">>, TRUE)}, memory : {FALSE}, editors : {{e1, e2}}, calls : {3}, crashes : {0},
   asked : {{EditOf(<<"a">>, <<"">>), EditOf(<<"a", "a">>, <<"b">>), EditOf(<<"b">>, <<"">>)}}]

NoEditor == [first |-> NoFile, memory |-> FALSE, editors |-> {}, calls |-> 0, crashes |-> 0,
             asked |-> {}]

EditWorks ==
  {NoEditor} \cup OneEditor \cup {Removing(w) : w \in TwoEditors} \cup Judging \cup Outdating

NoChat == {[wakes |-> 0, posts |-> 0]}
NoTasks == {[calls |-> 0, fails |-> 0, edits |-> {}]}

Members == Permutations({x, y})
=============================================================================
