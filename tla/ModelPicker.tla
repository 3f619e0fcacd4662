----------------------------- MODULE ModelPicker -----------------------------
(***************************************************************************)
(* The model field of the key form (app/settings/page.tsx): one second     *)
(* after the last change of provider or key the models of the provider are *)
(* asked for, and a list replaces the free text field.  The timer is       *)
(* cancelled by the next change, a request already sent is not.  The form  *)
(* has the field twice, for the provider and for the fallback; only the    *)
(* first resets the key when the provider changes.                         *)
(***************************************************************************)
EXTENDS Naturals

CONSTANTS
    Providers,  \* "custom", which has no list, among them
    None,
    MaxCalls    \* bound on the requests of one visit

VARIABLES view, net

vars == <<view, net>>
CallIds == 1 .. MaxCalls

Init ==
    \E main \in BOOLEAN, p \in Providers \ {"custom"} :
        /\ view = [main |-> main, provider |-> p, key |-> FALSE,
                   timer |-> TRUE, models |-> None, spinner |-> FALSE]
        /\ net = [calls |-> [i \in CallIds |-> None], sent |-> 0,
                  crossed |-> FALSE]

Pending == {i \in CallIds : net.calls[i] # None}

\* The list replaces the text field as soon as it is not empty.
ListOffered == view.models # None

\* Each change runs the cleanup of the effect, then the effect.
SelectProvider(p) ==
    /\ p # view.provider
    /\ view' = [view EXCEPT !.provider = p, !.timer = TRUE,
                            !.key = @ /\ ~view.main]
    /\ UNCHANGED net

TypeKey ==
    /\ view' = [view EXCEPT !.key = ~@, !.timer = TRUE]
    /\ UNCHANGED net

\* Mutant: a list once shown stays when the key is taken away.
NothingToAsk_Keeps ==
    /\ view.timer
    /\ ~view.key \/ view.provider = "custom"
    /\ view' = [view EXCEPT !.timer = FALSE]
    /\ UNCHANGED net

NothingToAsk ==
    /\ view.timer
    /\ ~view.key \/ view.provider = "custom"
    /\ view' = [view EXCEPT !.timer = FALSE, !.models = None]
    /\ net' = [net EXCEPT !.crossed = Pending # {}]

Ask ==
    /\ view.timer /\ view.key /\ view.provider # "custom"
    /\ net.sent < MaxCalls
    /\ view' = [view EXCEPT !.timer = FALSE, !.spinner = TRUE]
    /\ net' = [net EXCEPT !.sent = @ + 1,
                          !.calls[net.sent + 1] = view.provider,
                          !.crossed = Pending # {}]

\* Answers come in any order, and empty when the provider is not reached.
Answer(i) ==
    /\ i \in Pending
    /\ \E models \in {net.calls[i], None} :
        view' = [view EXCEPT !.models = models, !.spinner = FALSE]
    /\ net' = [net EXCEPT !.calls[i] = None]

Next ==
    \/ \E p \in Providers : SelectProvider(p)
    \/ TypeKey \/ NothingToAsk \/ Ask
    \/ \E i \in CallIds : Answer(i)

Spec == Init /\ [][Next]_vars

TypeOK ==
    /\ view \in [main : BOOLEAN, provider : Providers, key : BOOLEAN,
                 timer : BOOLEAN, models : Providers \union {None},
                 spinner : BOOLEAN]
    /\ net \in [calls : [CallIds -> Providers \union {None}],
                sent : 0 .. MaxCalls, crossed : BOOLEAN]

\* With no timer and no request pending, the models offered are those of the
\* provider selected, unless the last request was sent while another was on
\* its way (nothing cancels it, and the last answer wins).
ShownIsCurrent ==
    (Pending = {} /\ ~view.timer /\ ~net.crossed /\ ListOffered)
        => view.models = view.provider /\ view.key

LoadingHasAnEnd == view.spinner => Pending # {}
=============================================================================
