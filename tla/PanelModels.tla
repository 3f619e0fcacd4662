----------------------------- MODULE PanelModels -----------------------------
(***************************************************************************)
(* The header of a playground panel (useAvailableModels and PanelHeader in *)
(* app/playground/page.tsx): the models of the selected key, and the model *)
(* that is chosen when the key, the list or its loading changes.  A change *)
(* of key cancels the request for the former one, except when that key is  *)
(* one of a local provider, whose branch returns without a cleanup.        *)
(***************************************************************************)
EXTENDS Naturals

CONSTANTS
    Keys, Local,  \* Local: the keys of ollama and lmstudio
    None,
    MaxCalls      \* bound on the requests of one visit

VARIABLES view, net

vars == <<view, net>>
CallIds == 1 .. MaxCalls
Choices == Keys \union {None}
Call == [key : Keys, cancelled : BOOLEAN]

Init ==
    /\ view = [key |-> None, model |-> None, models |-> None,
               loading |-> FALSE, settle |-> FALSE]
    /\ net = [calls |-> [i \in CallIds |-> None], sent |-> 0,
              crossed |-> FALSE]

Pending == {i \in CallIds : net.calls[i] # None}
Live == {i \in Pending : ~net.calls[i].cancelled}

\* The list, or a text field while there is none; a model stands for its key.
ListOffered == view.key # None /\ view.models # None
HeaderOffered == Choices \ {view.key}

\* Mutant: the request for the former key is not cancelled.
Cancelled_Never == net.calls

\* The cleanup of the effect.
Cancelled ==
    [i \in CallIds |->
        IF i \in Pending /\ net.calls[i].key \notin Local
        THEN [net.calls[i] EXCEPT !.cancelled = TRUE] ELSE net.calls[i]]

SelectKey(k) ==
    /\ k \in HeaderOffered /\ net.sent < MaxCalls
    /\ view' = [view EXCEPT !.key = k, !.model = None, !.settle = TRUE,
                            !.models = IF k = None THEN None ELSE @,
                            !.loading = @ \/ k # None]
    /\ net' = [net EXCEPT
            !.sent = @ + 1,
            !.crossed = @ \/ \E i \in Live : net.calls[i].key \in Local,
            !.calls = IF k = None THEN Cancelled
                      ELSE [Cancelled EXCEPT ![net.sent + 1] =
                                [key |-> k, cancelled |-> FALSE]]]

\* The answer, empty when there is none; an empty one gives the text field.
Answer(i) ==
    /\ i \in Pending
    /\ net' = [net EXCEPT !.calls[i] = None]
    /\ IF net.calls[i].cancelled THEN UNCHANGED view
       ELSE \E models \in {net.calls[i].key, None} :
            view' = [view EXCEPT !.models = models, !.loading = FALSE,
                                 !.settle = TRUE]

\* The effect that chooses: the first of the list, or the default of the key.
Settle ==
    /\ view.settle
    /\ view' = [view EXCEPT !.settle = FALSE,
            !.model = IF view.key = None THEN None
                      ELSE IF view.models # None THEN view.models
                      ELSE IF ~view.loading THEN view.key ELSE @]
    /\ UNCHANGED net

Next ==
    \/ \E k \in Choices : SelectKey(k)
    \/ \E i \in CallIds : Answer(i)
    \/ Settle

Spec == Init /\ [][Next]_vars

-----------------------------------------------------------------------------
TypeOK ==
    /\ view \in [key : Choices, model : Choices, models : Choices,
                 loading : BOOLEAN, settle : BOOLEAN]
    /\ net.calls \in [CallIds -> Call \union {None}]
    /\ net.sent \in 0 .. MaxCalls

\* Once all is answered and chosen, list and model are those of the selected
\* key, unless a request for a local provider was overtaken.
ShownIsCurrent ==
    Pending = {} /\ ~view.settle /\ ~net.crossed
        => /\ ListOffered => view.models = view.key
           /\ view.model = view.key

\* "Loading..." stands only while an answer that will be taken is to come, or
\* after the key was taken away.
LoadingHasAnEnd == view.loading => Live # {} \/ view.key = None
=============================================================================
