-------------------------- MODULE MCLoopFirewall --------------------------
(***************************************************************************)
(* Three calls of one virtual key whose hooks see one payload p.  Either   *)
(* all three are sent as p (SamePayload), or a later hook rewrites the     *)
(* last of them to q (LastRewritten).                                      *)
(***************************************************************************)
EXTENDS LoopFirewall, TLC

CONSTANTS c1, c2, c3, p, q

SameHook == [c \in Calls |-> p]
SamePayload == [c \in Calls |-> p]
Symmetry == Permutations({c1, c2})
LastRewritten == [c \in Calls |-> IF c = c3 THEN q ELSE p]
=============================================================================
