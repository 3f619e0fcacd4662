----------------------------- MODULE PayloadDiff -----------------------------
(***************************************************************************)
(* The comparison of a request before and after optimisation               *)
(* (DiffModal in components/LiveTelemetryGrouped.tsx): the lines of both   *)
(* payloads are walked along the table of their longest common             *)
(* subsequences, and the words of a line that changed are compared the     *)
(* same way, at most MaxWords of them.  One step of the model is one turn  *)
(* of a loop; level tells the two loops apart.                             *)
(***************************************************************************)
EXTENDS Enumeration

CONSTANTS
    Texts,      \* the lines, or words, that occur
    None,       \* what reading past the end of an array gives
    MaxLen,     \* bound on the number of lines or words
    MaxWords    \* 400 in the code

VARIABLES view, net

vars == <<view, net>>
Loops == {"line", "word"}

Init ==
    \E a, b \in BoundedSeq(Texts, MaxLen), level \in Loops :
        /\ net = [a |-> a, b |-> b, level |-> level]
        /\ view = [i |-> 1, j |-> 1, rows |-> <<>>]

\* Texts i of both sides; words are cut off after MaxWords, and the loops
\* still run over all of them.
Cut(s, i) == IF i > Len(s) \/ (net.level = "word" /\ i > MaxWords) THEN None
             ELSE s[i]
A(i) == Cut(net.a, i)
B(j) == Cut(net.b, j)

\* dp[i][j]: the longest common subsequence of what is left of both sides.
MaxOf(m, n) == IF m >= n THEN m ELSE n
Table ==
    LET dp[n \in 0 .. Len(net.a), m \in 0 .. Len(net.b)] ==
            IF n = 0 \/ m = 0 THEN 0
            ELSE IF A(Len(net.a) + 1 - n) = B(Len(net.b) + 1 - m)
            THEN dp[n - 1, m - 1] + 1
            ELSE MaxOf(dp[n - 1, m], dp[n, m - 1])
    IN  dp
Dp(i, j) == Table[Len(net.a) + 1 - i, Len(net.b) + 1 - j]

Both == view.i <= Len(net.a) /\ view.j <= Len(net.b)
Push(kind, di, dj) ==
    view' = [i |-> view.i + di, j |-> view.j + dj,
             rows |-> Append(view.rows,
                [kind |-> kind, left |-> IF di = 1 THEN A(view.i) ELSE None,
                 right |-> IF dj = 1 THEN B(view.j) ELSE None])]

Same ==
    /\ Both /\ A(view.i) = B(view.j)
    /\ Push("same", 1, 1)

\* Words: the left side goes first when both are as good.  Lines: then they
\* make one modified row, whose words are compared in turn.
Removed ==
    /\ Both /\ A(view.i) # B(view.j)
    /\ \/ Dp(view.i + 1, view.j) > Dp(view.i, view.j + 1)
       \/ /\ net.level = "word"
          /\ Dp(view.i + 1, view.j) = Dp(view.i, view.j + 1)
    /\ Push("del", 1, 0)

Added ==
    /\ Both /\ A(view.i) # B(view.j)
    /\ Dp(view.i, view.j + 1) > Dp(view.i + 1, view.j)
    /\ Push("add", 0, 1)

\* Mutant: a modified line is taken from one side only.
Modified_LeftOnly ==
    /\ Both /\ A(view.i) # B(view.j) /\ net.level = "line"
    /\ Dp(view.i, view.j + 1) = Dp(view.i + 1, view.j)
    /\ view' = [i |-> view.i + 1, j |-> view.j + 1,
                rows |-> Append(view.rows, [kind |-> "mod",
                            left |-> A(view.i), right |-> None])]

Modified ==
    /\ Both /\ A(view.i) # B(view.j) /\ net.level = "line"
    /\ Dp(view.i, view.j + 1) = Dp(view.i + 1, view.j)
    /\ Push("mod", 1, 1)

\* The rest of the side that is left.
RestRemoved == view.j > Len(net.b) /\ view.i <= Len(net.a) /\ Push("del", 1, 0)
RestAdded == view.i > Len(net.a) /\ view.j <= Len(net.b) /\ Push("add", 0, 1)

Next ==
    /\ Same \/ Removed \/ Added \/ Modified \/ RestRemoved \/ RestAdded
    /\ UNCHANGED net

Spec == Init /\ [][Next]_vars

-----------------------------------------------------------------------------
\* What is drawn: one column, or two.
Unified == view.rows
Without(kind) ==
    At(view.rows, {n \in DOMAIN view.rows : view.rows[n].kind # kind})
LeftColumn == Without("add")
RightColumn == Without("del")

TypeOK ==
    /\ view.i \in 1 .. MaxLen + 1 /\ view.j \in 1 .. MaxLen + 1
    /\ \A n \in DOMAIN view.rows :
        /\ view.rows[n].kind \in {"same", "del", "add", "mod"}
        /\ {view.rows[n].left, view.rows[n].right} \subseteq Texts \union {None}

Fits == net.level = "line" \/ (Len(net.a) <= MaxWords /\ Len(net.b) <= MaxWords)

\* Whatever the two payloads are, each column of the comparison spells out its
\* side, text by text; beyond MaxWords words a line loses its end.
DiffLosesNothing ==
    Fits => /\ [n \in DOMAIN LeftColumn |-> LeftColumn[n].left]
                    = SubSeq(net.a, 1, view.i - 1)
            /\ [n \in DOMAIN RightColumn |-> RightColumn[n].right]
                    = SubSeq(net.b, 1, view.j - 1)
            /\ Len(Unified) <= view.i + view.j - 2
=============================================================================
