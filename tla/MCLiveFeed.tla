----------------------------- MODULE MCLiveFeed -----------------------------
(***************************************************************************)
(* A small instance of LiveFeed: a few changes, replays of one page.       *)
(***************************************************************************)
EXTENDS LiveFeed, TLC

Page(from, to, n) == [start |-> from, last |-> to, troubles |-> n]

(* A page just opened, and one that comes back and has two changes to      *)
(* catch up with.                                                          *)
ScenariosOf == {Page(0, 2, 0), Page(1, 3, 1)}
=============================================================================
