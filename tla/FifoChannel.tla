---------------------------- MODULE FifoChannel ----------------------------
(***************************************************************************)
(* What a task queue promises its users: everything accepted by it comes   *)
(* out once, in the order in which it was accepted.  The queues of the     *)
(* library are shown to implement this specification.                      *)
(***************************************************************************)
EXTENDS Naturals, Sequences

CONSTANT Values

VARIABLES in,   \* everything accepted so far, in order
          out   \* everything handed out so far, in order

Init == in = <<>> /\ out = <<>>

Put == /\ \E v \in Values : in' = Append(in, v)
       /\ out' = out

Get == /\ Len(out) < Len(in)
       /\ out' = Append(out, in[Len(out) + 1])
       /\ in' = in

Next == Put \/ Get

Spec == Init /\ [][Next]_<<in, out>>
=============================================================================
