---------------------------- MODULE SettingsPage ----------------------------
(***************************************************************************)
(* The settings page of the dashboard (app/settings/page.tsx): the list of *)
(* virtual keys with its controls, the creation form, billing and, in the  *)
(* local edition, the licence form.                                        *)
(*                                                                         *)
(* Every control starts an asynchronous handler: a call to the server,     *)
(* then a reload of the whole list, then a toast.  Handlers do not know of *)
(* each other; the only thing that holds them apart is that the page shows *)
(* nothing but "Loading..." while some reload is under way.  view is the   *)
(* component's state, net the server and what is in flight.                *)
(***************************************************************************)
EXTENDS Naturals

CONSTANTS
    Keys,       \* virtual keys, those not generated yet included
    Tiers,      \* the plans, "FREE" among them
    UserTier,   \* the plan of the user
    None,
    MaxOps,     \* bound on the handlers started in one visit
    MaxFaults   \* bound on refused, half done and lost calls

VARIABLES view, net

vars == <<view, net>>

OpIds == 1 .. MaxOps
Row == [{"mode", "firewall"} -> BOOLEAN]
Tables == UNION {[S -> Row] : S \in SUBSET Keys}
Kinds == {"none", "load", "create", "mode", "firewall", "delete", "purge",
          "checkout", "license"}
Stages == {"unused", "sent", "ok", "failed", "fetching", "fetched", "refused",
           "rejected", "over"}

FirstKey == CHOOSE k \in Keys : TRUE
NoTable == [k \in {} |-> 0]
Fresh == [mode |-> FALSE, firewall |-> FALSE]
UnusedOp == [kind |-> "none", at |-> "unused", key |-> None, val |-> FALSE,
             verdict |-> "none", told |-> "none", done |-> FALSE,
             blind |-> FALSE, snap |-> NoTable, ver |-> 0]

InFlight(i) == net.ops[i].at \notin {"unused", "over"}
Fetching(i) == net.ops[i].at \in {"fetching", "fetched", "refused", "rejected"}
NextId == {i \in OpIds : /\ net.ops[i].at = "unused"
                         /\ \A j \in 1 .. (i - 1) : net.ops[j].at # "unused"}

Init ==
    \E local \in BOOLEAN :
        /\ view = [status |-> "loading", local |-> local, loading |-> TRUE,
                   keys |-> NoTable, ver |-> 0, modal |-> None,
                   snippet |-> None, profile |-> None,
                   activating |-> FALSE, returned |-> FALSE]
        /\ net = [rows |-> [k \in {FirstKey} |-> Fresh], used |-> {FirstKey},
                  ver |-> 0, ops |-> [i \in OpIds |-> UnusedOp],
                  faults |-> 0, overtaken |-> FALSE, missed |-> FALSE,
                  stuck |-> FALSE]

\* The early return of the component: only then are there controls.
Ready == view.status = "in" /\ ~view.loading

\* The controls of the table, one row per key shown.
KeysOffered == IF Ready THEN DOMAIN view.keys ELSE {}
KeyInputs == {"ttl", "budget", "tolerance"} \X KeysOffered
KeyToggles == {"benchmark", "isolate", "zeroLog"} \X KeysOffered
KeyActions == {"firewall", "purge", "delete"} \X KeysOffered

\* The dialog with the snippets for a key just created.
SnippetOffered == Ready /\ view.snippet # None

\* The creation form, which its submit button never leaves disabled.
CreationOffered == Ready

\* The plan cards: the button of the current plan is disabled; a profile
\* that has not arrived counts as FREE.
PlansOffered ==
    IF Ready THEN Tiers \ {IF view.profile = None THEN "FREE" ELSE view.profile}
    ELSE {}

LicenseOffered == Ready /\ view.local /\ ~view.activating

Start(i, kind, k, val) ==
    /\ i \in NextId
    /\ net' = [net EXCEPT !.ops[i] = [UnusedOp EXCEPT
                    !.kind = kind, !.at = "sent", !.key = k, !.val = val]]

-----------------------------------------------------------------------------
\* The effect on the session: redirect, or load keys and profile; the return
\* from Stripe changes searchParams and runs it a second time.
SessionResolves(i) ==
    /\ view.status = "loading"
    /\ \/ /\ ~view.local
          /\ view' = [view EXCEPT !.status = "left"]
          /\ UNCHANGED net
       \/ \E returned \in BOOLEAN :
            /\ i \in NextId
            /\ view' = [view EXCEPT !.status = "in", !.loading = TRUE,
                                    !.returned = returned]
            /\ net' = [net EXCEPT !.ops[i] = [UnusedOp EXCEPT
                            !.kind = "load", !.at = "fetching"]]

ParamsCleared(i) ==
    /\ view.status = "in" /\ view.returned
    /\ i \in NextId
    /\ view' = [view EXCEPT !.returned = FALSE, !.loading = TRUE]
    /\ net' = [net EXCEPT !.ops[i] = [UnusedOp EXCEPT
                    !.kind = "load", !.at = "fetching"]]

\* fetchProfileAndPlans; when either answer is missing the page does without.
ProfileArrives ==
    /\ view.status = "in"
    /\ view' = [view EXCEPT !.profile = UserTier]
    /\ UNCHANGED net

GenerateKey(i) ==
    CreationOffered /\ Start(i, "create", None, FALSE) /\ UNCHANGED view

\* The value sent is the negation of what the row showed.
ToggleSetting(i) ==
    \E c \in KeyToggles :
        /\ Start(i, "mode", c[2], ~view.keys[c[2]].mode)
        /\ UNCHANGED view

EditSetting(i) ==
    \E c \in KeyInputs, val \in BOOLEAN :
        Start(i, "mode", c[2], val) /\ UNCHANGED view

OpenFirewall ==
    \E c \in KeyActions :
        /\ c[1] = "firewall"
        /\ view.modal = None
        /\ view' = [view EXCEPT !.modal = c[2]]
        /\ UNCHANGED net

CloseFirewall ==
    Ready /\ view' = [view EXCEPT !.modal = None] /\ UNCHANGED net

SaveFirewall(i) ==
    /\ Ready /\ view.modal # None
    /\ \E val \in BOOLEAN : Start(i, "firewall", view.modal, val)
    /\ UNCHANGED view

\* The row goes at once, before the server has been asked.
DeleteKey(i) ==
    \E c \in KeyActions :
        /\ c[1] = "delete"
        /\ Start(i, "delete", c[2], FALSE)
        /\ view' = [view EXCEPT !.keys =
                        [k \in DOMAIN view.keys \ {c[2]} |-> view.keys[k]]]

PurgeCache(i) ==
    \E c \in KeyActions :
        c[1] = "purge" /\ Start(i, "purge", c[2], FALSE) /\ UNCHANGED view

Checkout(i) ==
    \E plan \in PlansOffered :
        Start(i, "checkout", None, FALSE) /\ UNCHANGED view

ActivateLicense(i) ==
    /\ LicenseOffered
    /\ Start(i, "license", None, FALSE)
    /\ view' = [view EXCEPT !.activating = TRUE]

CloseSnippet ==
    /\ SnippetOffered
    /\ view' = [view EXCEPT !.snippet = None]
    /\ UNCHANGED net

-----------------------------------------------------------------------------
\* The server.  What a call of kind o does to the rows.
Committed(o, k) ==
    IF o.kind = "create" THEN [x \in DOMAIN net.rows \union {k} |->
                                  IF x = k THEN Fresh ELSE net.rows[x]]
    ELSE IF o.kind = "delete" THEN [x \in DOMAIN net.rows \ {k} |-> net.rows[x]]
    ELSE IF o.kind \in {"mode", "firewall"}
    THEN [net.rows EXCEPT ![k][o.kind] = o.val]
    ELSE net.rows

Targets(o) ==
    IF o.kind = "create" THEN Keys \ net.used
    ELSE IF o.kind \in {"mode", "firewall", "delete"}
    THEN {o.key} \intersect DOMAIN net.rows ELSE {o.key}

\* Executed and answered, or executed with an error or a lost answer.
ServerCommits(i) ==
    LET o == net.ops[i] IN
    /\ o.at = "sent"
    /\ \E k \in Targets(o), lost \in BOOLEAN :
        /\ lost => net.faults < MaxFaults
        /\ net' = [net EXCEPT
             !.rows = Committed(o, k), !.ver = @ + 1,
             !.used = @ \union ({k} \intersect Keys),
             !.faults = @ + (IF lost THEN 1 ELSE 0),
             !.missed = @ \/ (lost /\ o.kind \in {"create", "mode", "firewall"}),
             !.ops[i] = [o EXCEPT !.at = IF lost THEN "failed" ELSE "ok",
                                  !.key = k, !.done = TRUE, !.blind = lost]]
    /\ UNCHANGED view

ServerRefuses(i) ==
    LET o == net.ops[i] IN
    /\ o.at = "sent"
    /\ Targets(o) = {} \/ net.faults < MaxFaults
    /\ net' = [net EXCEPT !.ops[i].at = "failed",
                          !.faults = @ + (IF Targets(o) = {} THEN 0 ELSE 1)]
    /\ UNCHANGED view

\* A SCAN or an UNLINK of a purge fails: the proxy logs it and answers 200 with
\* the number of entries that went, if any, which the route passes on.
PurgesInPart(i) ==
    LET o == net.ops[i] IN
    /\ o.at = "sent" /\ o.kind = "purge"
    /\ net.faults < MaxFaults
    /\ net' = [net EXCEPT !.faults = @ + 1,
                          !.ops[i] = [o EXCEPT !.at = "ok", !.blind = TRUE]]
    /\ UNCHANGED view

\* GET /api/keys.
ServerLists(i) ==
    /\ net.ops[i].at = "fetching"
    /\ \/ net' = [net EXCEPT !.ops[i].at = "fetched", !.ops[i].snap = net.rows,
                             !.ops[i].ver = net.ver]
       \/ /\ net.faults < MaxFaults
          /\ \E how \in {"refused", "rejected"} :
                net' = [net EXCEPT !.ops[i].at = how, !.faults = @ + 1]
    /\ UNCHANGED view

-----------------------------------------------------------------------------
Changes == {"create", "mode", "firewall", "delete"}

\* Mutants: a failed deletion is not reloaded; res.ok is not looked at.
Reloads_AfterSuccess(o) == o.at = "ok" /\ o.kind \in Changes
Verdict_Optimistic(o) == "success"

\* A change is followed by fetchKeys, and so is a failed deletion, to put the
\* row back.
Reloads(o) == (o.at = "ok" /\ o.kind \in Changes) \/ o.kind = "delete"
Verdict(o) == IF o.at = "ok" THEN "success" ELSE "error"

\* The answer to the call of i.
Reply(i) ==
    LET o == net.ops[i]
        ok == o.at = "ok"
        reloads == Reloads(o)
        verdict == Verdict(o)
    IN  /\ o.at \in {"ok", "failed"}
        /\ net' = [net EXCEPT !.ops[i] = [o EXCEPT
                !.at = IF reloads THEN "fetching" ELSE "over",
                !.verdict = verdict,
                !.told = IF reloads THEN "none" ELSE verdict]]
        /\ view' = [view EXCEPT
                !.loading = @ \/ reloads,
                !.activating = @ /\ o.kind # "license",
                !.status = IF ok /\ o.kind = "checkout" THEN "left" ELSE @]

\* The end of a handler whose reload went through: the toast, and the modal.
Finish(i, shown) ==
    LET o == net.ops[i] IN
    view' = [shown EXCEPT
        !.loading = FALSE,
        !.snippet = IF o.kind = "create" THEN o.key ELSE @,
        !.modal = IF o.kind = "firewall" THEN None ELSE @]

ListArrives(i) ==
    LET o == net.ops[i] IN
    /\ o.at = "fetched"
    /\ Finish(i, [view EXCEPT !.keys = o.snap, !.ver = o.ver])
    /\ net' = [net EXCEPT
            !.overtaken = (@ \/ o.ver < view.ver) /\ o.ver < net.ver,
            !.missed = @ /\ o.ver < net.ver,
            !.ops[i] = [o EXCEPT !.at = "over", !.told = o.verdict,
                                 !.snap = NoTable, !.ver = 0]]

\* Mutant: fetchKeys throws on an error answer and leaves loading set.
ListIsRefused_Throws(i) ==
    /\ net.ops[i].at = "refused"
    /\ net' = [net EXCEPT !.missed = TRUE,
                          !.ops[i].at = "over", !.ops[i].blind = TRUE]
    /\ UNCHANGED view

\* fetchKeys does not look at the status of an error answer.
ListIsRefused(i) ==
    /\ net.ops[i].at = "refused"
    /\ Finish(i, view)
    /\ net' = [net EXCEPT !.missed = TRUE,
                          !.ops[i].at = "over", !.ops[i].blind = TRUE,
                          !.ops[i].told = net.ops[i].verdict]

\* A rejected fetch skips setLoading(false) and ends in the handler's catch;
\* that of a deletion reloads once more.
ListIsLost(i) ==
    LET o == net.ops[i]
        again == o.kind = "delete" /\ o.verdict = "success"
    IN  /\ o.at = "rejected"
        /\ net' = [net EXCEPT !.missed = TRUE, !.stuck = TRUE,
             !.ops[i] = [o EXCEPT
                !.at = IF again THEN "fetching" ELSE "over",
                !.blind = TRUE,
                !.verdict = "error",
                !.told = IF o.kind \in {"create", "mode", "firewall"}
                         THEN "error" ELSE "none"]]
        /\ UNCHANGED view

Step(i) ==
    \/ SessionResolves(i) \/ ParamsCleared(i)
    \/ GenerateKey(i) \/ ToggleSetting(i) \/ EditSetting(i) \/ SaveFirewall(i) \/ DeleteKey(i)
    \/ PurgeCache(i) \/ Checkout(i) \/ ActivateLicense(i)
    \/ ServerCommits(i) \/ ServerRefuses(i) \/ PurgesInPart(i) \/ ServerLists(i)
    \/ Reply(i) \/ ListArrives(i) \/ ListIsRefused(i) \/ ListIsLost(i)

Next ==
    \/ \E i \in OpIds : Step(i)
    \/ ProfileArrives \/ OpenFirewall \/ CloseFirewall \/ CloseSnippet

Spec == Init /\ [][Next]_vars

-----------------------------------------------------------------------------
Op == [kind : Kinds, at : Stages, key : Keys \union {None}, val : BOOLEAN,
       verdict : {"none", "success", "error"},
       told : {"none", "success", "error"}, done : BOOLEAN, blind : BOOLEAN,
       snap : Tables, ver : Nat]

TypeOK ==
    /\ view \in [status : {"loading", "in", "left"}, local : BOOLEAN,
                 loading : BOOLEAN, keys : Tables, ver : Nat,
                 modal : Keys \union {None}, snippet : Keys \union {None},
                 profile : Tiers \union {None},
                 activating : BOOLEAN, returned : BOOLEAN]
    /\ net.rows \in Tables /\ net.used \subseteq Keys /\ net.ver \in Nat
    /\ net.ops \in [OpIds -> Op]
    /\ net.faults \in 0 .. MaxFaults

\* When every handler has ended, the list is what the server holds, unless
\* since the last up to date list an older one overtook a newer one, or a
\* change or its reload was never answered: every handler reloads after the
\* server's commit, and the optimistic removal of a key is taken back when the
\* deletion fails.
ShownIsCurrent ==
    (Ready /\ (\A i \in OpIds : ~InFlight(i)) /\ ~net.overtaken /\ ~net.missed)
        => view.keys = net.rows

\* "Loading..." goes away: somebody is still to set loading to false, unless
\* a list request was rejected.
LoadingHasAnEnd ==
    view.status = "in" /\ view.loading
        => net.stuck \/ \E i \in OpIds : Fetching(i)

\* A success toast is about a change that was made, and an error toast about
\* one that was not, unless an answer was lost or half of the change failed.  A
\* purge that could not delete everything, or anything, is the one change whose
\* failure is told as a success (purge.go 77-104, page.tsx 779-792).
ToastsAreHonest ==
    \A i \in OpIds :
        LET o == net.ops[i] IN
        /\ o.told = "success" =>
              o.done \/ o.kind = "load" \/ (o.kind = "purge" /\ o.blind)
        /\ o.told = "error" => ~o.done \/ o.blind
=============================================================================
