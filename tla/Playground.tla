------------------------------ MODULE Playground ------------------------------
(***************************************************************************)
(* The playground (app/playground/page.tsx): one prompt is sent through    *)
(* the proxy and, side by side, past its caches, and both answers stream   *)
(* into the last bubble of their panel.  The chat route                    *)
(* (app/api/playground/chat/route.ts) forwards the stream and adds the     *)
(* figures of the request to it.  The streams run on while the user        *)
(* clears the panels, or while a forked conversation replaces them.        *)
(***************************************************************************)
EXTENDS Naturals, Sequences

CONSTANTS
    Keys, None,
    MaxSends,   \* bound on the prompts
    MaxTurns    \* bound on clicks and failing streams

VARIABLES view, net

vars == <<view, net>>
Panels == {"opti", "ctrl"}
Turns == 0 .. MaxSends     \* 0 is the forked conversation
Bubble == [role : {"user", "assistant"}, turn : Turns, streaming : BOOLEAN,
           stats : BOOLEAN]
Idle == [at |-> "idle", turn |-> 0, key |-> None]

Init ==
    \E fork \in BOOLEAN :
        /\ view = [keys |-> FALSE, key |-> [p \in Panels |-> None],
                   linked |-> TRUE, side |-> TRUE, typing |-> FALSE,
                   msgs |-> [p \in Panels |-> <<>>],
                   history |-> [p \in Panels |-> 0]]
        /\ net = [stream |-> [p \in Panels |-> Idle], fork |-> fork,
                  sends |-> 0, turns |-> 0, replaced |-> FALSE]

Turn == net.turns < MaxTurns
Turned == [net EXCEPT !.turns = @ + 1]

\* The header of each panel; a linked right panel shows and sets the left one.
SettingsOf(p) == IF p = "ctrl" /\ view.linked THEN "opti" ELSE p
KeysOffered == IF view.keys THEN Keys ELSE {}
Bubbles(p) == view.msgs[p]
PanelsShown == IF view.side THEN Panels ELSE {"opti"}
ClearOffered == view.msgs["opti"] # <<>> \/ view.msgs["ctrl"] # <<>>
SendOffered == view.keys /\ ~view.typing /\ \E p \in Panels : view.key[p] # None

-----------------------------------------------------------------------------
\* The first key is chosen for both panels, unless a fork will choose.
KeysArrive ==
    /\ ~view.keys
    /\ \E k \in Keys :
        view' = [view EXCEPT !.keys = TRUE,
                             !.key = IF net.fork THEN @
                                     ELSE [p \in Panels |-> k]]
    /\ UNCHANGED net

\* loadFork: the conversation of a logged request, into both panels.
ForkArrives ==
    /\ net.fork /\ view.keys
    /\ \E k \in Keys :
        view' = [view EXCEPT !.key = [p \in Panels |-> k],
                    !.msgs = [p \in Panels |->
                        <<[role |-> "user", turn |-> 0, streaming |-> FALSE,
                           stats |-> FALSE]>>]]
    /\ net' = [net EXCEPT !.fork = FALSE, !.replaced = view.typing]

ForkFails ==
    net.fork /\ net' = [net EXCEPT !.fork = FALSE] /\ UNCHANGED view

SelectKey ==
    /\ Turn
    /\ \E p \in PanelsShown, k \in KeysOffered :
        /\ view.key[SettingsOf(p)] # k
        /\ view' = [view EXCEPT !.key[SettingsOf(p)] = k]
    /\ net' = Turned

ToggleLinked ==
    Turn /\ view' = [view EXCEPT !.linked = ~@] /\ net' = Turned

ToggleSideBySide ==
    Turn /\ view' = [view EXCEPT !.side = ~@] /\ net' = Turned

HandleClear ==
    /\ ClearOffered
    /\ view' = [view EXCEPT !.msgs = [p \in Panels |-> <<>>],
                            !.history = [p \in Panels |-> 0]]
    /\ UNCHANGED net

-----------------------------------------------------------------------------
\* Mutant: a panel that is hidden is asked too.
Asked_Hidden(p) == view.key[p] # None

\* handleSend: the right panel is asked with its own key, linked or not.
Asked(p) == /\ p \in PanelsShown
            /\ view.key[p] # None

Said(role, turn) == [role |-> role, turn |-> turn,
                     streaming |-> role = "assistant", stats |-> FALSE]

HandleSend ==
    /\ SendOffered /\ net.sends < MaxSends
    /\ LET turn == net.sends + 1
           bubbles(p) ==
                (IF p \in PanelsShown THEN <<Said("user", turn)>> ELSE <<>>)
                \o (IF Asked(p) THEN <<Said("assistant", turn)>> ELSE <<>>)
       IN  /\ view' = [view EXCEPT !.typing = TRUE,
                            !.msgs = [p \in Panels |-> @[p] \o bubbles(p)]]
           /\ net' = [net EXCEPT !.sends = turn,
                        !.stream = [p \in Panels |->
                            IF Asked(p) THEN [at |-> "sent", turn |-> turn,
                                              key |-> view.key[p]]
                            ELSE net.stream[p]]]

\* What a stream brings goes into the last bubble there is now.
OnLast(p, f(_)) ==
    LET m == view.msgs[p] IN
    IF m = <<>> THEN view.msgs
    ELSE [view.msgs EXCEPT ![p] = [m EXCEPT ![Len(m)] = f(m[Len(m)])]]

Advance(p, at) == [net EXCEPT !.stream[p].at = at]

\* Text; the first chunk, or one more.
Chunk(p) ==
    /\ net.stream[p].at \in {"sent", "text"}
    /\ view' = [view EXCEPT !.msgs = OnLast(p, LAMBDA b :
                                [b EXCEPT !.turn = net.stream[p].turn])]
    /\ net' = Advance(p, "text")

Stats(p) ==
    [view EXCEPT !.history[p] = @ + 1,
                 !.msgs = OnLast(p, LAMBDA b :
                    [b EXCEPT !.streaming = FALSE, !.stats = TRUE])]

\* The route sends the figures before [DONE], and once more at the end.
DoneSeen(p) ==
    /\ net.stream[p].at = "text"
    /\ view' = Stats(p)
    /\ net' = Advance(p, "done")

EndStats(p) ==
    /\ net.stream[p].at \in {"sent", "text", "done"}
    /\ view' = Stats(p)
    /\ net' = Advance(p, "ending")

\* The end of the stream, and of an answer that was no stream.
Ended(p) ==
    /\ net.stream[p].at = "ending"
    /\ view' = [view EXCEPT !.msgs = OnLast(p, LAMBDA b :
                    [b EXCEPT !.streaming = FALSE])]
    /\ net' = Advance(p, "over")

\* Mutant: an error leaves the bubble as it is.
Broken_Leaves(p) ==
    /\ net.stream[p].at \in {"sent", "text", "done"} /\ Turn
    /\ UNCHANGED view
    /\ net' = [Advance(p, "over") EXCEPT !.turns = @ + 1]

\* The request or the stream breaks: the bubble says so.
Broken(p) ==
    /\ net.stream[p].at \in {"sent", "text", "done"} /\ Turn
    /\ view' = [view EXCEPT !.msgs = OnLast(p, LAMBDA b :
                    [b EXCEPT !.streaming = FALSE])]
    /\ net' = [Advance(p, "over") EXCEPT !.turns = @ + 1]

\* Promise.all.
AllEnded ==
    /\ view.typing
    /\ \A p \in Panels : net.stream[p].at \in {"idle", "over"}
    /\ view' = [view EXCEPT !.typing = FALSE]
    /\ net' = [net EXCEPT !.stream = [p \in Panels |-> Idle]]

Next ==
    \/ KeysArrive \/ ForkArrives \/ ForkFails
    \/ SelectKey \/ ToggleLinked \/ ToggleSideBySide \/ HandleClear
    \/ HandleSend \/ AllEnded
    \/ \E p \in Panels : Chunk(p) \/ DoneSeen(p) \/ EndStats(p) \/ Ended(p)
                         \/ Broken(p)

Spec == Init /\ [][Next]_vars

-----------------------------------------------------------------------------
\* The figures of the last answer of each panel, for the comparison bar.
StatsOf(p) == {i \in DOMAIN view.msgs[p] : view.msgs[p][i].stats}
ComparisonShown == view.side /\ StatsOf("opti") # {} /\ StatsOf("ctrl") # {}

TypeOK ==
    /\ view.key \in [Panels -> Keys \union {None}]
    /\ view.msgs \in [Panels -> Seq(Bubble)]
    /\ view.history \in [Panels -> Nat]
    /\ \A p \in Panels : net.stream[p].at \in
            {"idle", "sent", "text", "done", "ending", "over"}
    /\ net.sends \in 0 .. MaxSends /\ net.turns \in 0 .. MaxTurns

\* Every answer stands below the prompt it answers, and no stream wrote into
\* the prompt of another turn, unless a forked conversation arrived while the
\* panels were streaming.
AnswersStayInTurn ==
    ~net.replaced => \A p \in Panels : \A i \in DOMAIN Bubbles(p) :
        LET b == Bubbles(p)[i] IN
        /\ b.role = "assistant" => i > 1 /\ Bubbles(p)[i - 1].role = "user"
                                         /\ Bubbles(p)[i - 1].turn = b.turn
        /\ b.role = "user" => ~b.stats

\* When the input is free again no bubble is still streaming.
LoadingHasAnEnd ==
    ~view.typing => \A p \in Panels : \A i \in DOMAIN view.msgs[p] :
                        ~view.msgs[p][i].streaming

=============================================================================
