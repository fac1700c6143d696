---------------------------- MODULE MCPostClient ----------------------------
(* An instance of PostClient for TLC. *)
EXTENDS PostClient

CONSTANTS p1, p2

TwoPosts == {p1, p2}
=============================================================================
