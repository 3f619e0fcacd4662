------------------------ MODULE MCTelemetryPipeline ------------------------
(***************************************************************************)
(* One user with two keys, one key suffixed with an end user's id, and one *)
(* change of tier.  The first log of the user crosses the limit of the     *)
(* first tier, the second that of the other one.                           *)
(***************************************************************************)
EXTENDS TelemetryPipeline

CONSTANTS l1, l2, l3, k1, k2, k1bob, u1, w1, w2, r1

KeyOfLog == [l \in Logs |-> IF l = l3 THEN k1bob ELSE k1]

OwnerOfKey == [k \in Registered |-> u1]

LimitOfTier == [t \in {"FREE", "PRO_1"} |-> IF t = "FREE" THEN 1 ELSE 2]
=============================================================================
