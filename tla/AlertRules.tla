------------------------------ MODULE AlertRules ------------------------------
(***************************************************************************)
(* The alert rules panel (components/AlertRulesPanel.tsx) and its routes   *)
(* (app/api/alerts).  The panel asks for the rules and for the open events *)
(* every 10 s and after every change, with two requests of which both must *)
(* answer; an administrator elsewhere works on the same rules.  Nothing in *)
(* the repository evaluates rules: the events are there from the start.    *)
(***************************************************************************)
EXTENDS Naturals, FiniteSets, Functions

CONSTANTS
    Alerts,     \* ids of rules
    None,
    MaxChanges  \* bound on changes, polls of the timer and failing requests

VARIABLES view, net

vars == <<view, net>>

\* What a form edits, abstracted to a metric, and whether the rule is enabled.
Rule == [metric : {"error_rate", "panic_rate"}, enabled : BOOLEAN]
FetchIds == 1 .. 2
CallIds == 1 .. MaxChanges
NoFetch == [at |-> "none", rules |-> None, events |-> None]
NoCall == [at |-> "none", op |-> None, id |-> None, data |-> None]
NoRules == [r \in {} |-> None]

Init ==
    \E ids \in SUBSET Alerts : \E open \in {{}, ids} :
        /\ view = [rules |-> NoRules, events |-> {}, unacked |-> 0,
                   showForm |-> FALSE, editing |-> None, error |-> FALSE]
        /\ net = [rules |-> [r \in ids |-> [metric |-> "error_rate",
                                            enabled |-> TRUE]],
                  events |-> open, used |-> ids,
                  fetches |-> [i \in FetchIds |-> IF i = 1
                        THEN [NoFetch EXCEPT !.at = "sent"] ELSE NoFetch],
                  calls |-> [i \in CallIds |-> NoCall],
                  changes |-> 0,
                  crossed |-> FALSE, stale |-> FALSE]

Pending == {i \in FetchIds : net.fetches[i].at # "none"}
InFlight == {i \in CallIds : net.calls[i].at # "none"}

\* What the panel offers: rows and forms of the rules, and open events.
RowsShown == DOMAIN view.rules \ {view.editing}
FormShown == view.editing \in DOMAIN view.rules
EventsShown == view.events

\* fetchAll of state n; what is already on its way may answer later.
Asked(n) ==
    LET free == {i \in FetchIds : n.fetches[i].at = "none"}
    IN  IF free = {} THEN [n EXCEPT !.crossed = TRUE, !.stale = TRUE]
        ELSE [n EXCEPT !.crossed = @ \/ free # FetchIds,
                !.fetches[CHOOSE i \in free : TRUE] =
                    [NoFetch EXCEPT !.at = "sent"],
                !.stale = FALSE]

Poll ==
    /\ net.changes < MaxChanges
    /\ net' = Asked([net EXCEPT !.changes = @ + 1])
    /\ UNCHANGED view

\* GET /api/alerts and GET /api/alerts/events, in either order.
ServeRules(i) ==
    /\ net.fetches[i].at = "sent" /\ net.fetches[i].rules = None
    /\ net' = [net EXCEPT !.fetches[i].rules =
                    [rules |-> net.rules, unacked |-> Cardinality(net.events)]]
    /\ UNCHANGED view

ServeEvents(i) ==
    /\ net.fetches[i].at = "sent" /\ net.fetches[i].events = None
    /\ net' = [net EXCEPT !.fetches[i].events = [open |-> net.events]]
    /\ UNCHANGED view

Arrives(i) ==
    LET f == net.fetches[i]
    IN  /\ f.rules # None /\ f.events # None
        /\ view' = [view EXCEPT !.rules = f.rules.rules,
                        !.unacked = f.rules.unacked, !.events = f.events.open]
        /\ net' = [net EXCEPT !.fetches[i] = NoFetch]

\* The lists keep what they had; no later answer takes the error away.
FetchFails(i) ==
    /\ net.fetches[i].at = "sent" /\ net.changes < MaxChanges
    /\ view' = [view EXCEPT !.error = TRUE]
    /\ net' = [net EXCEPT !.changes = @ + 1, !.fetches[i] = NoFetch,
                          !.stale = TRUE]

-----------------------------------------------------------------------------
\* The buttons.
NewRule ==
    view' = [view EXCEPT !.showForm = ~@, !.editing = None] /\ UNCHANGED net
Edit ==
    \E r \in RowsShown :
        /\ view' = [view EXCEPT !.editing = r, !.showForm = FALSE]
        /\ UNCHANGED net
Cancel ==
    /\ FormShown
    /\ view' = [view EXCEPT !.editing = None] /\ UNCHANGED net

Send(op, r, data) ==
    /\ net.changes < MaxChanges
    /\ net' = [net EXCEPT !.changes = @ + 1,
                          !.calls[net.changes + 1] =
                    [at |-> "sent", op |-> op, id |-> r, data |-> data]]
    /\ UNCHANGED view

CreateRule == view.showForm /\ \E d \in Rule : Send("create", None, d)
UpdateRule == FormShown /\ \E d \in Rule : Send("update", view.editing, d)
Toggle == \E r \in RowsShown :
    Send("update", r, [enabled |-> ~view.rules[r].enabled])
DeleteRule == \E r \in RowsShown : Send("delete", r, None)
AckEvent == \E r \in EventsShown : Send("ack", r, None)

-----------------------------------------------------------------------------
\* The routes: POST, PATCH, DELETE of a rule, whose events go with it, and
\* POST of an event.
Created(c) ==
    \E r \in Alerts \ net.used :
        net' = [net EXCEPT !.used = @ \union {r}, !.calls[c].at = "ok",
                    !.rules = [x \in DOMAIN @ \union {r} |->
                        IF x = r THEN net.calls[c].data ELSE @[x]]]

Deleted(n, r) == [n EXCEPT !.rules = Restrict(@, DOMAIN @ \ {r}),
                           !.events = @ \ {r}]

\* A toggle sends one field, a form all of them.
Patched(rule, data) == [f \in DOMAIN rule |->
                            IF f \in DOMAIN data THEN data[f] ELSE rule[f]]

Serve(c) ==
    LET call == net.calls[c]
        known == IF call.op = "ack" THEN call.id \in net.events
                 ELSE call.id \in DOMAIN net.rules
    IN  /\ call.at = "sent" /\ UNCHANGED view
        /\ \/ call.op = "create" /\ Created(c)
           \/ /\ call.op # "create" /\ ~known
              /\ net' = [net EXCEPT !.calls[c].at = "bad"]
           \/ /\ call.op = "update" /\ known
              /\ net' = [net EXCEPT !.calls[c].at = "ok",
                                    !.rules[call.id] = Patched(@, call.data)]
           \/ /\ call.op = "delete" /\ known
              /\ net' = Deleted([net EXCEPT !.calls[c].at = "ok"], call.id)
           \/ /\ call.op = "ack" /\ known
              /\ net' = [net EXCEPT !.calls[c].at = "ok",
                                    !.events = @ \ {call.id}]

\* Mutant: after an update the panel waits for its timer.
Answered_NoRefetch(c) ==
    LET call == net.calls[c]
        done == [net EXCEPT !.calls[c] = NoCall]
    IN  /\ call.at \in {"ok", "bad"}
        /\ view' = [view EXCEPT !.editing = None, !.error = FALSE]
        /\ net' = IF call.op = "update" THEN done ELSE Asked(done)

\* A refused change leaves its form open, with an error, and asks for nothing;
\* deletions and acknowledgements do not look at their answer.  Any accepted
\* change of a rule closes the form that is open, of whatever rule.
Answered(c) ==
    LET call == net.calls[c]
        done == [net EXCEPT !.calls[c] = NoCall]
    IN  \/ /\ call.at \in {"ok", "bad"} /\ call.op \in {"delete", "ack"}
           /\ net' = Asked(done) /\ UNCHANGED view
        \/ /\ call.at = "bad" /\ call.op = "update"
           /\ view' = [view EXCEPT !.error = TRUE]
           /\ net' = done
        \/ /\ call.at = "ok" /\ call.op \in {"create", "update"}
           /\ view' = [view EXCEPT !.editing = None, !.error = FALSE,
                        !.showForm = @ /\ call.op = "update"]
           /\ net' = Asked(done)

\* The other administrator deletes a rule.
OtherDeletes ==
    \E r \in DOMAIN net.rules :
        /\ net.changes < MaxChanges
        /\ net' = Deleted([net EXCEPT !.changes = @ + 1, !.stale = TRUE], r)
        /\ UNCHANGED view

Next ==
    \/ Poll
    \/ \E i \in FetchIds : ServeRules(i) \/ ServeEvents(i) \/ Arrives(i)
                            \/ FetchFails(i)
    \/ NewRule \/ Edit \/ Cancel
    \/ CreateRule \/ UpdateRule \/ Toggle \/ DeleteRule \/ AckEvent
    \/ \E c \in CallIds : Serve(c) \/ Answered(c)
    \/ OtherDeletes

Spec == Init /\ [][Next]_vars

-----------------------------------------------------------------------------
TypeOK ==
    /\ DOMAIN view.rules \subseteq Alerts /\ DOMAIN net.rules \subseteq net.used
    /\ Range(view.rules) \union Range(net.rules) \subseteq Rule
    /\ view.events \subseteq Alerts /\ net.events \subseteq DOMAIN net.rules
    /\ view.editing \in Alerts \union {None}
    /\ net.changes \in 0 .. MaxChanges

\* When nothing is on its way, and since the last request nobody else changed
\* the rules and no request failed or met another, the panel shows the rules
\* and the open events, as many as it counts.
ShownIsCurrent ==
    Pending = {} /\ InFlight = {} /\ ~net.stale /\ ~net.crossed =>
        /\ view.rules = net.rules /\ view.events = net.events
        /\ view.unacked = Cardinality(view.events)
=============================================================================
