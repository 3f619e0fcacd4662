---------------------------- MODULE MCUpstreamCall ----------------------------
(***************************************************************************)
(* One request of tenant a, of one of four kinds; the others are what      *)
(* Remember and Expire make of the tool cache.  It may also hold results   *)
(* of A, the same name in capitals, and of b, another tenant.  The tools   *)
(* of the two calls differ in capitals too.                                *)
(***************************************************************************)
EXTENDS UpstreamCall

CONSTANTS r1, a, A, b, c1, c2, read, Read

SomeKinds == {k \in [stream : BOOLEAN, fallback : BOOLEAN, unkept : BOOLEAN] :
                  k.unkept = (k.stream /\ k.fallback)}
AllOfA == [r \in Requests |-> a]
Tools == [c \in Calls |-> IF c = c1 THEN read ELSE Read]
Similar == Calls \X Calls
AsAsked == [n \in Tenants \cup {read, Read} |->
               CASE n = A -> a [] n = Read -> read [] OTHER -> n]
AsIndexed == [n \in Tenants \cup {read, Read} |-> {AsAsked[n]}]
Brought == {<<a, c1>>, <<A, c2>>, <<b, c2>>}
=============================================================================
