------------------------------- MODULE LiveFeed -------------------------------
(***************************************************************************)
(* The live part of the home page (app/page.tsx) and the stream behind it  *)
(* (app/api/analytics/stream/route.ts).  Request rows reach the page on    *)
(* two ways, a server-sent stream and the pages SWR fetches, and are       *)
(* merged into one list; the counters are fetched by SWR and by a poll.    *)
(* A row is stamped when its insertion starts and seen when it commits, so *)
(* rows can become visible behind the stamp the stream has reached.        *)
(***************************************************************************)
EXTENDS Enumeration

CONSTANTS
    Keys,       \* virtual keys of the user
    None,
    MaxRows,    \* bound on the rows logged during the visit
    MaxTurns,   \* bound on filter changes, refetches and lost connections
    Cap,        \* 5000 in the code
    PageLen     \* 100 in the code

VARIABLES view, net

vars == <<view, net>>

Rows == 1 .. MaxRows        \* a row is its stamp
Filters == [key : Keys \union {None}, page : 1 .. 2]
ScanIds == 1 .. 2
NoScan == [on |-> FALSE, rows |-> <<>>]

\* Rows of a filter, oldest first; None stands for all keys.
RowsOf(key, S) == Ascending({r \in S : key \in {None, net.keyOf[r]}})

\* slice: what there is of s from index m to index n.
Slice(s, m, n) == SubSeq(s, m, IF n < Len(s) THEN n ELSE Len(s))

Panels == {"headline", "classes", "intents"}

Init ==
    \E keyOf \in [Rows -> Keys], old \in {{}, {1}} :
        /\ keyOf[1] = CHOOSE k \in Keys : TRUE    \* the keys are alike
        /\ view = [filter |-> [key |-> None, page |-> 1], logs |-> <<>>,
                   seen |-> {}, panels |-> [p \in Panels |-> None]]
        /\ net = [keyOf |-> keyOf, stamped |-> Cardinality(old),
                  committed |-> old,
                  up |-> FALSE, reached |-> 0, wire |-> <<>>,
                  scans |-> [i \in ScanIds |-> NoScan],
                  swr |-> "asked", poll |-> None, turns |-> 0,
                  missed |-> {}, crossed |-> FALSE]

-----------------------------------------------------------------------------
\* The panels of the page, each drawn from one group of counters.  SWR sets
\* all of them, the poll only the headline group.
Gauges == view.panels["headline"]
ValueSaved == view.panels["headline"]
HitRatio == view.panels["headline"]
CostChart == view.panels["headline"]
IntentShare == view.panels["intents"]
ClassTable == view.panels["classes"]
ProviderCards == view.panels["headline"]
Shown == {Gauges, ValueSaved, HitRatio, CostChart, IntentShare, ClassTable,
          ProviderCards}

-----------------------------------------------------------------------------
\* The database.
StampRow ==
    /\ net.stamped < MaxRows
    /\ net' = [net EXCEPT !.stamped = @ + 1]
    /\ UNCHANGED view

CommitRow ==
    \E r \in (1 .. net.stamped) \ net.committed :
        /\ net' = [net EXCEPT !.committed = @ \union {r},
                              !.missed = IF net.up /\ r <= net.reached
                                         THEN @ \union {r} ELSE @]
        /\ UNCHANGED view

\* The stream: it starts with the last 30 seconds.
Connect ==
    /\ ~net.up
    /\ \E from \in 0 .. net.stamped :
        net' = [net EXCEPT !.up = TRUE, !.reached = from,
                           !.missed = @ \union {r \in net.committed :
                                                    r <= from}]
    /\ UNCHANGED view

\* Mutant: the query starts a millisecond after the stamp reached.
Scan_After(i) ==
    LET rows == RowsOf(view.filter.key,
                       {r \in net.committed : r > net.reached + 1})
    IN  /\ net.up /\ ~net.scans[i].on /\ Len(rows) > 0
        /\ net' = [net EXCEPT !.scans[i] = [on |-> TRUE, rows |-> rows]]
        /\ UNCHANGED view

\* Every 2 s, whether or not the previous query has been answered.
Scan(i) ==
    LET rows == RowsOf(view.filter.key,
                       {r \in net.committed : r > net.reached})
    IN  /\ net.up /\ ~net.scans[i].on /\ Len(rows) > 0
        /\ net' = [net EXCEPT !.scans[i] = [on |-> TRUE, rows |-> rows]]
        /\ UNCHANGED view

\* Mutant: the stream goes on from now, not from the last row it found.
ScanAnswered_Now(i) ==
    /\ net.scans[i].on
    /\ net' = [net EXCEPT !.scans[i] = NoScan,
                          !.wire = @ \o net.scans[i].rows,
                          !.reached = net.stamped]
    /\ UNCHANGED view

ScanAnswered(i) ==
    /\ net.scans[i].on
    /\ net' = [net EXCEPT
            !.scans[i] = NoScan,
            !.wire = @ \o net.scans[i].rows,
            !.reached = Last(net.scans[i].rows),
            !.missed = @ \union {r \in net.committed :
                /\ r <= Last(net.scans[i].rows) /\ r > net.reached
                /\ r \notin Range(net.scans[i].rows)}]
    /\ UNCHANGED view

Disconnected == [net EXCEPT !.up = FALSE, !.reached = 0, !.wire = <<>>,
                            !.scans = [i \in ScanIds |-> NoScan]]

ConnectionDrops ==
    /\ net.up /\ net.turns < MaxTurns
    /\ net' = [Disconnected EXCEPT !.turns = @ + 1]
    /\ UNCHANGED view

\* onmessage.
Event ==
    /\ net.wire # <<>>
    /\ LET r == Head(net.wire)
       IN  view' = IF r \in view.seen THEN view
                   ELSE [view EXCEPT !.seen = @ \union {r},
                            !.logs = Slice(<<r>> \o @, 1, Cap)]
    /\ net' = [net EXCEPT !.wire = Tail(@)]

-----------------------------------------------------------------------------
\* The list SWR fetches: newest first, one page of it.
Listed ==
    LET rows == Reverse(RowsOf(view.filter.key, net.committed))
        first == (view.filter.page - 1) * PageLen + 1
    IN  Slice(rows, first, first + PageLen - 1)

\* Mutants: rows are taken as they come; they replace the list.
Merged_Blindly(rows) ==
    [logs |-> Slice(Reverse(rows) \o view.logs, 1, Cap),
     seen |-> view.seen \union Range(rows)]
Merged_Replaces(rows) ==
    [logs |-> rows, seen |-> view.seen \union Range(rows)]

\* The rows not seen yet are put in front, one by one.
Merged(rows) ==
    LET new == At(rows, {n \in DOMAIN rows : rows[n] \notin view.seen})
    IN  [logs |-> Slice(Reverse(new) \o view.logs, 1, Cap),
         seen |-> view.seen \union Range(new)]

\* SWR asks for a new key at once, and on focus for the same one; an answer to
\* a former key only goes to its cache.
SwrAnswers ==
    /\ net.swr = "asked"
    /\ LET m == Merged(Listed)
       IN  view' = [view EXCEPT !.logs = m.logs, !.seen = m.seen,
                                !.panels = [p \in Panels |-> view.filter]]
    /\ net' = [net EXCEPT !.swr = "idle"]

Focus ==
    /\ net.swr = "idle" /\ net.turns < MaxTurns
    /\ net' = [net EXCEPT !.swr = "asked", !.turns = @ + 1]
    /\ UNCHANGED view

\* The poll of every 5 s; its answer is not checked against the filter.
Poll ==
    /\ net.poll = None
    /\ net' = [net EXCEPT !.poll = view.filter]
    /\ UNCHANGED view

PollAnswers ==
    /\ net.poll # None
    /\ view' = [view EXCEPT !.panels["headline"] = net.poll]
    /\ net' = [net EXCEPT !.poll = None]

\* The key selector, which goes back to page 1, and the pages.  The effect
\* closes the stream and opens another; list and seen ids are kept.
Filter(f) ==
    /\ f # view.filter /\ net.turns < MaxTurns
    /\ f.key = view.filter.key \/ f.page = 1
    /\ view' = [view EXCEPT !.filter = f]
    /\ net' = [Disconnected EXCEPT !.swr = "asked", !.turns = @ + 1,
                                   !.crossed = net.poll # None]

Next ==
    \/ StampRow \/ CommitRow \/ Connect \/ ConnectionDrops \/ Event
    \/ \E i \in ScanIds : Scan(i) \/ ScanAnswered(i)
    \/ SwrAnswers \/ Focus \/ Poll \/ PollAnswers
    \/ \E f \in Filters : Filter(f)

Spec == Init /\ [][Next]_vars

\* The intervals of the stream fire and its queries are answered, an open
\* insertion commits, and EventSource reconnects.
Fairness ==
    /\ WF_vars(CommitRow) /\ WF_vars(Connect) /\ WF_vars(Event)
    /\ \A i \in ScanIds : WF_vars(Scan(i)) /\ WF_vars(ScanAnswered(i))

-----------------------------------------------------------------------------
TypeOK ==
    /\ view.filter \in Filters /\ view.logs \in Seq(Rows)
    /\ view.seen \subseteq Rows
    /\ view.panels \in [Panels -> Filters \union {None}]
    /\ net.stamped \in 0 .. MaxRows /\ net.committed \subseteq 1 .. net.stamped
    /\ net.reached \in 0 .. MaxRows /\ net.wire \in Seq(Rows)
    /\ net.turns \in 0 .. MaxTurns

\* Stream and SWR bring a row together only once, and as long as the cap is
\* not reached no row that was ever shown goes away again.
LiveRowsMerge ==
    /\ Cardinality(Range(view.logs)) = Len(view.logs)
    /\ Range(view.logs) \subseteq view.seen
    /\ Cardinality(view.seen) <= Cap => Range(view.logs) = view.seen

\* A row of the stream's keys is shown, on its way or still ahead of the
\* stream, unless it became visible behind it or before it was connected.
NothingSkipped ==
    net.up => \A r \in net.committed \ net.missed :
        \/ view.filter.key \notin {None, net.keyOf[r]}
        \/ r \in view.seen \union Range(net.wire)
        \/ r > net.reached
        \/ \E i \in ScanIds : r \in Range(net.scans[i].rows)

\* With no request pending all panels show the filter selected, unless a poll
\* of a former filter was still under way when it was changed.
ShownIsCurrent ==
    net.swr = "idle" /\ net.poll = None /\ ~net.crossed
        => Shown = {view.filter}

\* Every committed row of the key selected is shown in the end, but for those
\* that became visible behind the stream.
CatchesUp ==
    <>[]({r \in net.committed \ net.missed :
            view.filter.key \in {None, net.keyOf[r]}}
             \subseteq view.seen)
=============================================================================
