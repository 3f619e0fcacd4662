--------------------------- MODULE MCL0Coalescing ---------------------------
(***************************************************************************)
(* Three identical requests, and in the other instance two identical ones  *)
(* beside one with the same payload under another virtual key.             *)
(***************************************************************************)
EXTENDS L0Coalescing

CONSTANTS r1, r2, r3, vk1, vk2, h

OneTenant == [r \in Requests |-> vk1]
TwoTenants == [r \in Requests |-> IF r = r3 THEN vk2 ELSE vk1]
OnePayload == [r \in Requests |-> h]
=============================================================================
