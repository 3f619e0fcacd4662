---------------------------- MODULE MCResponseCache ----------------------------
EXTENDS ResponseCache, TLC

CONSTANTS p, q, t, r1, r2, a, A, b

\* p and q are two wordings of one question; t carries a tool call.
NearPairs == {<<p, p>>, <<q, q>>, <<p, q>>, <<q, p>>}
\* Users Bob (a) and "bob,eve" (A) of one virtual key; b belongs to another.
OneKey == {{a, A}}
AsAsked == [x \in Tenants |-> CASE x = a -> "bob" [] x = A -> "bob,eve" [] x = b -> "b"]
AsIndexed == [x \in Tenants |->
                 CASE x = a -> {"bob"} [] x = A -> {"bob", "eve"} [] x = b -> {"b"}]
Before ==
    [keys : {{k} : k \in {<<"L1", a, t>>} \cup ({"L2"} \X {A, b} \X {p, q})},
     ttl : {3}]
Alike == Permutations({r1, r2}) \cup Permutations({p, q})

=============================================================================
