------------------------------- MODULE LineDiff -------------------------------
(***************************************************************************)
(* computeLineDiff of the request explorer                                 *)
(* (components/RequestExplorer.tsx): the lines of the prompt before and    *)
(* after compression, walked from their ends along the table of the        *)
(* longest common subsequences.  One step is one turn of the loop.         *)
(***************************************************************************)
EXTENDS Enumeration

CONSTANTS
    Texts,      \* the lines that occur
    MaxLen      \* bound on the number of lines

VARIABLES view, net

vars == <<view, net>>

Init ==
    \E a, b \in BoundedSeq(Texts, MaxLen) \ {<<>>} :
        /\ a # b        \* equal prompts are not compared
        /\ net = [a |-> a, b |-> b]
        /\ view = [i |-> Len(a), j |-> Len(b), result |-> <<>>]

MaxOf(m, n) == IF m >= n THEN m ELSE n
\* matrix[i][j]: the longest common subsequence of the first i and j lines.
Matrix ==
    LET matrix[p \in (0 .. Len(net.a)) \X (0 .. Len(net.b))] ==
            LET i == p[1]
                j == p[2]
            IN  IF i = 0 \/ j = 0 THEN 0
                ELSE IF net.a[i] = net.b[j] THEN matrix[<<i - 1, j - 1>>] + 1
                ELSE MaxOf(matrix[<<i - 1, j>>], matrix[<<i, j - 1>>])
    IN  matrix
Lcs(i, j) == Matrix[<<i, j>>]

Same == view.i > 0 /\ view.j > 0 /\ net.a[view.i] = net.b[view.j]

Unshift(type, value, di, dj) ==
    view' = [i |-> view.i - di, j |-> view.j - dj,
             result |-> <<[type |-> type, value |-> value]>> \o view.result]

Unchanged == Same /\ Unshift("unchanged", net.a[view.i], 1, 1)

\* The left side is used up, or the table has no less above than to the left.
AddsFirst ==
    IF view.i = 0 \/ view.j = 0 THEN view.j > 0
    ELSE Lcs(view.i, view.j - 1) >= Lcs(view.i - 1, view.j)

\* Mutant: the test that the left side is used up is missing.
Added_Greedy ==
    ~Same /\ view.j > 0 /\ Unshift("added", net.b[view.j], 0, 1)

Added == ~Same /\ AddsFirst /\ Unshift("added", net.b[view.j], 0, 1)

Removed == /\ ~Same /\ ~AddsFirst /\ view.i > 0
           /\ Unshift("removed", net.a[view.i], 1, 0)

Next == (Unchanged \/ Added \/ Removed) /\ UNCHANGED net

Spec == Init /\ [][Next]_vars

-----------------------------------------------------------------------------
TypeOK ==
    /\ view.i \in 0 .. MaxLen /\ view.j \in 0 .. MaxLen
    /\ view.result \in Seq([type : {"unchanged", "added", "removed"},
                            value : Texts])

\* Without the added lines the result is the end of the original, without the
\* removed ones that of the compressed prompt; and when the walk is over no
\* shorter comparison exists.
DiffLosesNothing ==
    LET side(type) == At(view.result, {n \in DOMAIN view.result :
                                            view.result[n].type # type})
        texts(rows) == [n \in DOMAIN rows |-> rows[n].value]
    IN  /\ texts(side("added")) = SubSeq(net.a, view.i + 1, Len(net.a))
        /\ texts(side("removed")) = SubSeq(net.b, view.j + 1, Len(net.b))
        /\ view.i = 0 /\ view.j = 0 =>
            Len(view.result) = Len(net.a) + Len(net.b)
                                - Lcs(Len(net.a), Len(net.b))
=============================================================================
