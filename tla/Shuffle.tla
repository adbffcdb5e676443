------------------------------ MODULE Shuffle ------------------------------
(***************************************************************************)
(* shuffle_array of server/game/game_manager.c, with the outcomes of its   *)
(* calls of rand as an argument: c[i] is the place, among the first i, of  *)
(* the element that goes to place i.                                       *)
(***************************************************************************)
EXTENDS Integers, Sequences

RandResults(size) ==
  {c \in [1 .. size -> 1 .. size] : \A i \in 1 .. size : c[i] <= i}

swap(array, i, j) == [array EXCEPT ![i] = array[j], ![j] = array[i]]

\* The loop goes down from the last place to the second.
shuffle_array(array, c) ==
  LET size == Len(array)
      after[i \in 1 .. size] ==
        IF i = size THEN array ELSE swap(after[i + 1], i + 1, c[i + 1])
  IN  after[1]
=============================================================================
