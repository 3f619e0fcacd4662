---------------------------- MODULE TelemetryBoard ----------------------------
(***************************************************************************)
(* The live telemetry board (components/LiveTelemetryGrouped.tsx): rows    *)
(* put into buckets by agent, session or model, paged, with a snapshot of  *)
(* a bucket and the payloads of a row.  A snapshot asks the server for the *)
(* rows of the time the bucket spans (app/api/analytics/session/route.ts)  *)
(* and the home page reduces the answer to the bucket (app/page.tsx).      *)
(***************************************************************************)
EXTENDS Naturals, FiniteSets

CONSTANTS
    Agents, Sessions, Models,
    None,
    MaxRows,    \* bound on the rows that arrive
    MaxTurns,   \* bound on the clicks of one visit
    PageSize,   \* 5, 10, 25 or 50 in the code
    Window      \* rows one answer holds, 5000 in the code

VARIABLES view, net

vars == <<view, net>>
Ids == 1 .. MaxRows
\* A row as it is logged; turn 0 of a conversation may only have a signature,
\* rows of former versions have neither.
LiveRequest == [agent : Agents \union {None}, session : Sessions \union {None},
                conv : Sessions \union {None}, model : Models]
Groupings == {"agent", "session", "model"}
Least(S) == CHOOSE n \in S : \A m \in S : n <= m

Init ==
    \E known \in SUBSET Agents, by \in Groupings :
        /\ view = [records |-> {}, by |-> by, filter |-> None, page |-> 1,
                   expanded |-> {}, known |-> known, toasts |-> {},
                   snapshot |-> {}, of |-> None, diff |-> None,
                   payload |-> None, loading |-> FALSE, error |-> FALSE]
        /\ net = [rows |-> [i \in {} |-> None], ask |-> None, fetch |-> None,
                  toasted |-> {}, turns |-> 0]

Row(i) == net.rows[i]

-----------------------------------------------------------------------------
\* buildGroups: the key of the bucket of row i.
KeyOf(i, by) ==
    LET r == Row(i) IN
    IF by = "agent" THEN IF r.agent # None THEN <<"agent", r.agent>>
                         ELSE <<"anon", i>>
    ELSE IF by = "session"
         THEN IF r.session # None THEN <<"session", r.session>>
              ELSE IF r.conv # None THEN <<"session", r.conv>>
              ELSE <<"legacy", r.model>>
    ELSE <<"model", r.model>>

\* Mutant: rows without an agent are left out.
Bucket_KnownOnly(key) ==
    {i \in {j \in view.records :
                view.filter = None \/ view.filter = Row(j).model} :
        KeyOf(i, view.by) = key /\ (view.by = "agent" => Row(i).agent # None)}

Filtered == {i \in view.records :
                view.filter = None \/ view.filter = Row(i).model}
Bucket(key) ==
    {i \in Filtered : KeyOf(i, view.by) = key}
Groups == {KeyOf(i, view.by) : i \in Filtered}

\* The accordion, latest group first, and the page of it that is shown.
LastSeen(key) == CHOOSE i \in Bucket(key) : \A j \in Bucket(key) : j <= i
Rank(key) == Cardinality({k \in Groups : LastSeen(k) >= LastSeen(key)})
TotalPages == (Cardinality(Groups) + PageSize - 1) \div PageSize
SafePage == IF view.page > TotalPages
            THEN IF TotalPages = 0 THEN 1 ELSE TotalPages ELSE view.page
PagedGroups ==
    {k \in Groups : /\ Bucket(k) # {}
                    /\ Rank(k) > (SafePage - 1) * PageSize
                    /\ Rank(k) <= SafePage * PageSize}

\* The controls of the bar, of a group, of its rows, and the dialogs.
PagesOffered == IF Cardinality(Groups) > 1 THEN 1 .. TotalPages ELSE {}
RowsOffered == UNION {Bucket(k) : k \in PagedGroups \intersect view.expanded}
DiffShown == view.diff # None /\ view.payload # None
                /\ ~view.loading /\ ~view.error
SnapshotShown == view.of # None
RequestsShown == view.snapshot

Turn == net.turns < MaxTurns
Turned == [net EXCEPT !.turns = @ + 1]

-----------------------------------------------------------------------------
\* A row arrives from the feed; an agent not known yet gets a toast.
Arrive ==
    \E r \in LiveRequest :
        LET i == Cardinality(view.records) + 1
            new == {r.agent} \ (view.known \union {None})
        IN  /\ i \in Ids
            /\ view' = [view EXCEPT !.records = @ \union {i},
                                    !.known = @ \union new,
                                    !.toasts = @ \union new]
            /\ net' = [net EXCEPT !.rows = [j \in 1 .. i |->
                                        IF j = i THEN r ELSE net.rows[j]],
                                  !.toasted = @ \union new]

ToastFades ==
    \E a \in view.toasts :
        /\ view' = [view EXCEPT !.toasts = @ \ {a}]
        /\ UNCHANGED net

\* Another grouping goes back to page 1, another filter does not.
Regroup ==
    /\ Turn
    /\ \E by \in Groupings \ {view.by} :
        view' = [view EXCEPT !.by = by, !.page = 1]
    /\ net' = Turned

TypeFilter ==
    /\ Turn
    /\ \E f \in (Models \union {None}) \ {view.filter} :
        view' = [view EXCEPT !.filter = f]
    /\ net' = Turned

ChangePage ==
    /\ Turn
    /\ \E p \in PagesOffered \ {SafePage} : view' = [view EXCEPT !.page = p]
    /\ net' = Turned

Toggle ==
    /\ Turn
    /\ \E k \in PagedGroups :
        view' = [view EXCEPT !.expanded = IF k \in @ THEN @ \ {k}
                                          ELSE @ \union {k}]
    /\ net' = Turned

\* snapshotGroup: the window starts with the oldest row of the bucket.
SnapshotGroup ==
    /\ Turn /\ net.ask = None
    /\ \E k \in PagedGroups :
        net' = [Turned EXCEPT !.ask = [key |-> k, bucket |-> Bucket(k),
                                       by |-> view.by,
                                       end |-> Cardinality(view.records)]]
    /\ UNCHANGED view

\* The first rows of the window; with the key of a session, those that carry
\* it as their session id.
SessionRows(start, end, key, by) ==
    LET window == {i \in start .. end :
                     by = "session" => Row(i).session = key[2]}
    IN  {i \in window : Cardinality({j \in window : j <= i}) <= Window}

\* Mutant: the answer is shown as it is.
Reduced_Never(rows, bucket, by) == rows

\* The answer is reduced to the bucket for agents and models only.
Reduced(rows, bucket, by) ==
    IF by = "session" THEN rows ELSE rows \intersect bucket

SnapshotAnswered ==
    /\ net.ask # None
    /\ view' = [view EXCEPT !.of = net.ask,
            !.snapshot = Reduced(SessionRows(Least(net.ask.bucket), net.ask.end,
                                             net.ask.key, net.ask.by),
                                 net.ask.bucket, net.ask.by)]
    /\ net' = [net EXCEPT !.ask = None]

CloseSnapshot ==
    /\ SnapshotShown
    /\ view' = [view EXCEPT !.of = None, !.snapshot = {}]
    /\ UNCHANGED net

\* The payloads of a row: closing the dialog cancels its request.
OpenDiff ==
    /\ Turn /\ view.diff = None
    /\ \E i \in RowsOffered :
        /\ view' = [view EXCEPT !.diff = i, !.payload = None,
                                !.loading = TRUE, !.error = FALSE]
        /\ net' = [Turned EXCEPT !.fetch = i]

PayloadArrives ==
    /\ net.fetch # None
    /\ \/ view' = [view EXCEPT !.payload = net.fetch, !.loading = FALSE]
       \/ view' = [view EXCEPT !.error = TRUE, !.loading = FALSE]
    /\ net' = [net EXCEPT !.fetch = None]

CloseDiff ==
    /\ view.diff # None
    /\ view' = [view EXCEPT !.diff = None, !.payload = None,
                            !.loading = FALSE, !.error = FALSE]
    /\ net' = [net EXCEPT !.fetch = None]

Next ==
    \/ Arrive \/ ToastFades \/ Regroup \/ TypeFilter \/ ChangePage \/ Toggle
    \/ SnapshotGroup \/ SnapshotAnswered \/ CloseSnapshot
    \/ OpenDiff \/ PayloadArrives \/ CloseDiff

Spec == Init /\ [][Next]_vars

-----------------------------------------------------------------------------
TypeOK ==
    /\ view.records \subseteq Ids /\ view.by \in Groupings
    /\ view.page \in 1 .. MaxRows /\ view.known \subseteq Agents
    /\ view.toasts \subseteq net.toasted /\ view.snapshot \subseteq Ids
    /\ DOMAIN net.rows = view.records
    /\ \A i \in view.records : net.rows[i] \in LiveRequest

\* The groups of all pages together hold every row that passes the filter
\* once, and the page shown is never an empty one beyond the last.
EveryRowCountedOnce ==
    /\ UNION {Bucket(k) : k \in Groups} = Filtered
    /\ \A k, l \in Groups : k # l => Bucket(k) \intersect Bucket(l) = {}
    /\ Groups # {} => PagedGroups # {}

\* The summary of an agent or model bucket holds rows of the bucket only and,
\* as long as the window fits in an answer, all the rows it had when it was
\* clicked.  The summary of a session holds rows that carry its id only, those
\* of the bucket among them; the rows the bucket has by their signature alone
\* (turn 0 of a conversation) are not in it, although the comment of the page
\* (app/page.tsx:894-900) says that the endpoint returns them.
SummaryIsTheBucket ==
    LET s == view.of
        fits == Cardinality(DOMAIN net.rows) <= Window
    IN  SnapshotShown =>
            IF s.by = "session"
            THEN /\ \A i \in RequestsShown : Row(i).session = s.key[2]
                 /\ fits => {i \in s.bucket : Row(i).session = s.key[2]}
                                \subseteq RequestsShown
            ELSE /\ RequestsShown \subseteq s.bucket
                 /\ fits => RequestsShown = s.bucket

\* The payloads shown are those of the row clicked.
ShownIsCurrent == DiffShown => view.payload = view.diff

LoadingHasAnEnd == view.loading => net.fetch # None
=============================================================================
