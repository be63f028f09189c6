------------------------------- MODULE MCNews -------------------------------
(* News for TLC: two cores, the second of which has the war and the character. *)
EXTENDS News

CONSTANTS c1, c2

HomeIsSecond == [s \in Players \cup Wars |-> c2]
=============================================================================
