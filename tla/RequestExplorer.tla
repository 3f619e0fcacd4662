--------------------------- MODULE RequestExplorer ---------------------------
(***************************************************************************)
(* The request explorer (components/RequestExplorer.tsx): a filtered,      *)
(* paged list (app/api/explorer/route.ts), the drawer of one row           *)
(* (app/api/explorer/[id]/route.ts) and in it the payloads, the response   *)
(* fetched apart (app/api/telemetry/[id]/payload/route.ts).  Lists are     *)
(* neither cancelled nor ordered; drawer and payload requests are          *)
(* cancelled by their effects.                                             *)
(***************************************************************************)
EXTENDS Naturals

CONSTANTS
    Queries,    \* what can be filtered for
    None,
    MaxPages,   \* bound on the pages of one query
    MaxLists,   \* bound on the lists asked for
    MaxTurns    \* bound on opened rows and tabs and on failing calls

VARIABLES view, net

vars == <<view, net>>
ListIds == 1 .. MaxLists
Rows == 1 .. 2                  \* rows of the page shown
DrawerTabs == {"pipeline", "original", "response"}
Cursor == [q : Queries, page : 1 .. MaxPages]
NoList == [at |-> "none", of |-> None, pages |-> 0]
Idle == [row |-> None, cancelled |-> FALSE]

Init ==
    \E q \in Queries, pages \in [Queries -> 0 .. MaxPages] :
        /\ view = [q |-> q, page |-> 1, of |-> None, pages |-> 0,
                   loading |-> TRUE, selected |-> None, row |-> None,
                   fetching |-> FALSE, tab |-> "pipeline", text |-> None,
                   waiting |-> FALSE]
        /\ net = [pages |-> pages, sent |-> 1,
                  lists |-> [[i \in ListIds |-> NoList] EXCEPT
                     ![1] = [NoList EXCEPT !.at = "sent",
                                           !.of = [q |-> q, page |-> 1]]],
                  detail |-> Idle, payload |-> Idle, turns |-> 0,
                  crossed |-> FALSE]

Pending == {i \in ListIds : net.lists[i].at # "none"}
Turn == net.turns < MaxTurns
Turned == [net EXCEPT !.turns = @ + 1]

\* The filters, the table, the pages, the drawer and what its tabs show.
FiltersOffered == Queries
RowsOffered == IF view.of = None \/ view.selected # None THEN {} ELSE Rows
PagesOffered == IF view.pages > 1
                THEN {view.page - 1, view.page + 1} \intersect 1 .. view.pages
                ELSE {}
DrawerShown == view.selected # None /\ ~view.fetching /\ view.row # None
PipelineShown == DrawerShown /\ view.tab = "pipeline"
ResponseShown == DrawerShown /\ view.tab = "response" /\ ~view.waiting

-----------------------------------------------------------------------------
\* fetchRows, on every change of filter or page.
Ask(q, page) ==
    /\ net.sent < MaxLists
    /\ view' = [view EXCEPT !.q = q, !.page = page, !.loading = TRUE]
    /\ net' = [net EXCEPT !.sent = @ + 1, !.crossed = @ \/ Pending # {},
            !.lists[net.sent + 1] = [NoList EXCEPT !.at = "sent",
                                        !.of = [q |-> q, page |-> page]]]

\* Mutant: another filter keeps the page.
Filter_KeepsPage == \E q \in FiltersOffered \ {view.q} : Ask(q, view.page)

\* Another filter, or the reset, goes back to page 1.
Filter == \E q \in FiltersOffered \ {view.q} : Ask(q, 1)

ChangePage == \E p \in PagesOffered : Ask(view.q, p)

ServeList(i) ==
    /\ net.lists[i].at = "sent"
    /\ net' = [net EXCEPT !.lists[i].at = "ok",
                          !.lists[i].pages = net.pages[net.lists[i].of.q]]
    /\ UNCHANGED view

ListArrives(i) ==
    /\ net.lists[i].at = "ok"
    /\ view' = [view EXCEPT !.of = net.lists[i].of, !.loading = FALSE,
                            !.pages = net.lists[i].pages]
    /\ net' = [net EXCEPT !.lists[i] = NoList]

\* The table keeps its rows, and the error goes to the console.
ListFails(i) ==
    /\ net.lists[i].at = "sent" /\ Turn
    /\ view' = [view EXCEPT !.loading = FALSE]
    /\ net' = [Turned EXCEPT !.lists[i] = NoList, !.crossed = TRUE]

-----------------------------------------------------------------------------
\* The drawer; closing it unmounts it.
OpenRow ==
    /\ Turn
    /\ \E r \in RowsOffered :
        /\ view' = [view EXCEPT !.selected = r, !.row = None, !.text = None,
                       !.fetching = TRUE, !.tab = "pipeline",
                       !.waiting = FALSE]
        /\ net' = [Turned EXCEPT !.detail = [row |-> r, cancelled |-> FALSE]]

CloseRow ==
    /\ view.selected # None
    /\ view' = [view EXCEPT !.selected = None, !.fetching = FALSE,
                            !.waiting = FALSE]
    /\ net' = [net EXCEPT !.detail.cancelled = TRUE,
                          !.payload.cancelled = TRUE]

\* An answer, or one without a row; a cancelled one only counts when it is an
\* error, which clears loading in any case.
RowArrives ==
    /\ net.detail.row # None
    /\ \E row \in {net.detail.row, None} :
        view' = IF net.detail.cancelled THEN view
                ELSE [view EXCEPT !.row = row, !.fetching = FALSE]
    /\ net' = [net EXCEPT !.detail = Idle]

\* The response is fetched when its tab is opened, and again each time.
Fetched(r) == [row |-> r, cancelled |-> FALSE]
OpenTab ==
    /\ Turn /\ DrawerShown
    /\ \E t \in DrawerTabs \ {view.tab} :
        /\ view' = [view EXCEPT !.tab = t, !.waiting = @ \/ t = "response"]
        /\ net' = [Turned EXCEPT
             !.payload = IF t = "response" THEN Fetched(view.row)
                         ELSE [@ EXCEPT !.cancelled = TRUE]]

\* Text or error of the row asked for; a row without one gives an error.
PayloadArrives ==
    /\ net.payload.row # None
    /\ view' = IF net.payload.cancelled THEN view
               ELSE [view EXCEPT !.text = net.payload.row, !.waiting = FALSE]
    /\ net' = [net EXCEPT !.payload = Idle]

Next ==
    \/ Filter \/ ChangePage
    \/ \E i \in ListIds : ServeList(i) \/ ListArrives(i) \/ ListFails(i)
    \/ OpenRow \/ CloseRow \/ RowArrives \/ OpenTab \/ PayloadArrives

Spec == Init /\ [][Next]_vars

-----------------------------------------------------------------------------
TypeOK ==
    /\ view.q \in Queries /\ view.page \in 1 .. MaxPages
    /\ view.of \in Cursor \union {None} /\ view.pages \in 0 .. MaxPages
    /\ view.selected \in Rows \union {None} /\ view.tab \in DrawerTabs
    /\ net.turns \in 0 .. MaxTurns /\ net.sent \in ListIds

\* The list is that of filter and page, on a page the filter has, unless lists
\* overtook each other or one failed; drawer and response are those of the
\* row clicked.
ShownIsCurrent ==
    /\ Pending = {} /\ ~net.crossed =>
        /\ view.of = [q |-> view.q, page |-> view.page]
        /\ view.page <= IF view.pages = 0 THEN 1 ELSE view.pages
    /\ DrawerShown => view.row = view.selected
    /\ ResponseShown => view.text = view.selected

LoadingHasAnEnd ==
    /\ view.loading => Pending # {}
    /\ view.fetching => net.detail.row # None /\ ~net.detail.cancelled
    /\ view.tab = "response" /\ view.waiting
            => net.payload.row # None /\ ~net.payload.cancelled
=============================================================================
