------------------------------ MODULE MCEditing ------------------------------
(***************************************************************************)
(* A small instance of Editing; the two texts are interchangeable.         *)
(***************************************************************************)
EXTENDS Editing, TLC

Bound(v, k, p, n) ==
  [versions |-> v, saves |-> k, visits |-> p, troubles |-> n]

(* A long visit, a page that is left and visited again, more troubles.     *)
ScenariosOf == {Bound(4, 2, 1, 1), Bound(3, 2, 2, 1), Bound(3, 1, 1, 2)}

TextsAlike == Permutations(Texts)
=============================================================================
