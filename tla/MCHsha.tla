------------------------------- MODULE MCHsha -------------------------------
(* Instances of Hsha for TLC. *)
EXTENDS Hsha

CONSTANTS w1, w2, loop1, tcp1, udp1
=============================================================================
