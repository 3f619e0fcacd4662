------------------------------ MODULE LogConsole ------------------------------
(***************************************************************************)
(* The live log console of the administrator                               *)
(* (components/LiveLogConsole.tsx) and its stream                          *)
(* (app/api/admin/logs/stream/route.ts).  The stream polls the request     *)
(* rows by their stamps; the console keeps the newest ones, drops them     *)
(* while it is paused and counts all of them.  Rows commit in the order of *)
(* their stamps here; LiveFeed has the rows that commit late.              *)
(***************************************************************************)
EXTENDS Enumeration

CONSTANTS
    Levels,     \* cache levels
    LogRows,    \* bound on the rows logged during the visit
    LogCap,     \* MAX_BUFFER, 500 in the code
    Take,       \* rows per poll, 50 in the code
    LogTurns    \* bound on clicks, faults and overlapping polls

VARIABLES view, net

vars == <<view, net>>

Row == 1 .. LogRows
PollIds == 1 .. 2
NoPoll == [on |-> FALSE, rows |-> <<>>]

Init ==
    /\ view = [logs |-> <<>>, connected |-> FALSE, paused |-> FALSE,
               levels |-> Levels, received |-> 0, filtered |-> 0]
    \* at: the stamps of the committed rows; level: the cache level of each
    /\ \E level \in [Row -> Levels] :
        net = [at |-> <<>>, level |-> level, up |-> FALSE, last |-> 0,
               polls |-> [i \in PollIds |-> NoPoll], wire |-> <<>>,
               lives |-> 0, crossed |-> FALSE, skipped |-> {}, turns |-> 0,
               dropped |-> {}, uncounted |-> 0]

Turn == net.turns < LogTurns
Turned == [net EXCEPT !.turns = @ + 1]

\* The rows below the toolbar, and the counts of the buffer in it.
RowsShown == At(view.logs, {n \in DOMAIN view.logs :
                                net.level[view.logs[n]] \in view.levels})
LevelCounts == [l \in Levels |->
                    Cardinality({n \in DOMAIN view.logs :
                                    net.level[view.logs[n]] = l})]

-----------------------------------------------------------------------------
\* A row is logged, in the millisecond of the row before or in a later one.
LogRow ==
    /\ Len(net.at) < LogRows
    /\ \E t \in {0, 1} :
        LET now == IF net.at = <<>> THEN 1 ELSE Last(net.at) + t
        IN  /\ net' = [net EXCEPT !.at = Append(@, now),
                    !.skipped = IF net.up /\ now <= net.last
                                THEN @ \union {Len(net.at) + 1} ELSE @]
            /\ UNCHANGED view

\* GET: the stream starts 10 s ago.
Connect ==
    /\ ~net.up
    /\ \E from \in {0} \union Range(net.at) :
        net' = [net EXCEPT !.up = TRUE, !.last = from, !.lives = @ + 1,
                    !.skipped = @ \union
                        {r \in DOMAIN net.at : net.at[r] <= from}]
    /\ view' = [view EXCEPT !.connected = TRUE]

UpTo(n, s) == SubSeq(s, 1, IF Len(s) < n THEN Len(s) ELSE n)

After(t) == {r \in DOMAIN net.at : net.at[r] > t}
Oldest(S) == UpTo(Take, Ascending(S))

\* Each second, whether or not the previous query has been answered (an
\* overlap counts as a turn).
Poll(i) ==
    LET overlaps == \E j \in PollIds : net.polls[j].on
        before == IF overlaps THEN Turned ELSE net
    IN  /\ net.up /\ ~net.polls[i].on /\ After(net.last) # {}
        /\ overlaps => Turn
        /\ net' = [before EXCEPT
                !.polls[i] = [on |-> TRUE, rows |-> Oldest(After(net.last))],
                !.crossed = @ \/ overlaps]
        /\ UNCHANGED view

\* Mutant: the stream does not remember what it sent.
PollAnswered_Again(i) ==
    /\ net.polls[i].on
    /\ net' = [net EXCEPT !.polls[i] = NoPoll,
                          !.wire = @ \o net.polls[i].rows]
    /\ UNCHANGED view

\* The stamp of the last row is where the next query starts: what has the same
\* stamp and was not taken is passed over.
PollAnswered(i) ==
    LET rows == net.polls[i].rows
        last == net.at[Last(rows)]
    IN  /\ net.polls[i].on
        /\ net' = [net EXCEPT !.polls[i] = NoPoll, !.last = last,
                !.wire = @ \o rows,
                !.skipped = @ \union {r \in DOMAIN net.at :
                    net.at[r] = last /\ r \notin Range(rows)}]
        /\ UNCHANGED view

\* The query fails: the stream sends an event named "error", which onerror
\* takes for a lost connection; the connection stays, and no onopen follows.
PollFails(i) ==
    /\ net.polls[i].on /\ Turn
    /\ view' = [view EXCEPT !.connected = FALSE]
    /\ net' = [Turned EXCEPT !.polls[i] = NoPoll]

ConnectionDrops ==
    /\ net.up /\ Turn
    /\ view' = [view EXCEPT !.connected = FALSE]
    /\ net' = [Turned EXCEPT !.up = FALSE, !.last = 0, !.wire = <<>>,
                    !.polls = [i \in PollIds |-> NoPoll],
                    !.dropped = @ \union Range(net.wire)]

-----------------------------------------------------------------------------
\* onmessage: the level is looked up in the selection of the mount, which is
\* all levels; a paused console drops the row.
Received(logs) ==
    /\ net.wire # <<>>
    /\ view' = [view EXCEPT !.received = @ + 1, !.filtered = @ + 1,
                            !.logs = logs]
    /\ net' = [net EXCEPT !.wire = Tail(@), !.dropped = @ \union
            (({Head(net.wire)} \union Range(view.logs)) \ Range(logs))]

\* Mutant: the buffer is cut before the row is put into it.
Event_CutFirst ==
    Received(IF view.paused THEN view.logs
             ELSE <<Head(net.wire)>> \o UpTo(LogCap, view.logs))

Event ==
    Received(IF view.paused THEN view.logs
             ELSE UpTo(LogCap, <<Head(net.wire)>> \o view.logs))

Pause ==
    /\ Turn
    /\ view' = [view EXCEPT !.paused = ~@] /\ net' = Turned

ToggleLevel ==
    \E l \in Levels :
        /\ Turn
        /\ view' = [view EXCEPT !.levels = (@ \ {l}) \union ({l} \ @)]
        /\ net' = Turned

ClearBuffer ==
    /\ Turn
    /\ view' = [view EXCEPT !.logs = <<>>, !.received = 0, !.filtered = 0]
    /\ net' = [Turned EXCEPT !.dropped = @ \union Range(view.logs),
                             !.uncounted = @ + view.received]

Next ==
    \/ LogRow \/ Connect
    \/ \E i \in PollIds : Poll(i) \/ PollAnswered(i) \/ PollFails(i)
    \/ ConnectionDrops \/ Event \/ Pause \/ ToggleLevel \/ ClearBuffer

Spec == Init /\ [][Next]_vars

-----------------------------------------------------------------------------
TypeOK ==
    /\ view.logs \in Seq(Row) /\ Len(view.logs) <= LogCap
    /\ view.levels \subseteq Levels /\ view.filtered = view.received
    /\ net.at \in Seq(Row) /\ net.last \in 0 .. LogRows
    /\ net.skipped \subseteq Row /\ net.turns \in 0 .. LogTurns

\* Over one connection whose queries do not overlap, every row comes once and
\* in its order, the newest on top, whatever was paused or cleared between.
\* (A new connection sends the last 10 s again.)
RowsComeOnce ==
    net.lives <= 1 /\ ~net.crossed =>
        LET all == Reverse(view.logs) \o net.wire
        IN  /\ \A m, n \in DOMAIN all : m < n => all[m] < all[n]
            /\ view.received + net.uncounted + Len(net.wire) <= Len(net.at)

\* What the stream has reached is in the buffer or on the wire, or it was
\* dropped by the user, by the cap or with the connection, or it had the stamp
\* of the last row of a full poll or of an earlier poll.
NothingSkipped ==
    ~net.crossed /\ net.up =>
        \A r \in DOMAIN net.at :
            \/ net.at[r] > net.last
            \/ r \in net.skipped \union net.dropped \union Range(net.wire)
                        \union Range(view.logs)
=============================================================================
