---------------------------- MODULE FirewallModal ----------------------------
(***************************************************************************)
(* The firewall dialog of one key (components/FirewallModal.tsx) and the   *)
(* two Redis sets behind it (app/api/admin/discovered-tools/route.ts): the *)
(* tools the proxy has seen the agent use, and those the operator denied.  *)
(* The dialog polls both, and posts each checkbox as it is clicked; polls  *)
(* and posts are not ordered.  When the page behind it reloads its list it *)
(* is unmounted and mounted again, with the form as it was on opening.     *)
(***************************************************************************)
EXTENDS Naturals

CONSTANTS
    Tools,
    MaxCalls,   \* bound on the requests in flight
    MaxEdits,   \* bound on clicks, edits, reloads and expiries of one visit
    MaxFaults   \* bound on lost requests

VARIABLES view, net

vars == <<view, net>>
CallIds == 1 .. MaxCalls
Slot == [kind |-> "free", at |-> "none", tool |-> {}, deny |-> FALSE,
         discovered |-> {}, denied |-> {}, ver |-> 0, mounted |-> TRUE]
Free(i) == net.calls[i].kind = "free"

Init ==
    \E seen \in SUBSET Tools :
        /\ view = [open |-> TRUE, form |-> "asOpened", discovered |-> {},
                   denied |-> {}, ver |-> 0]
        /\ net = [discovered |-> seen, denied |-> {}, ver |-> 0,
                  calls |-> [i \in CallIds |-> Slot], edits |-> 0,
                  faults |-> 0, expired |-> {}]

\* The cells of the form, and the checkboxes below it.
FieldsOffered == view.open
ToolsOffered == IF view.open THEN view.discovered ELSE {}

Edits == net.edits < MaxEdits

Send(i, call) ==
    /\ Free(i) /\ \A j \in 1 .. (i - 1) : ~Free(j)
    /\ net' = [net EXCEPT !.calls[i] = [call EXCEPT !.at = "sent"],
                          !.edits = @ + (IF call.kind = "post" THEN 1 ELSE 0)]

\* refreshTools, on mounting and every 15 s.
Poll(i) ==
    /\ view.open
    /\ Send(i, [Slot EXCEPT !.kind = "get"])
    /\ UNCHANGED view

ToggleTool(i) ==
    /\ Edits
    /\ \E t \in ToolsOffered :
        Send(i, [Slot EXCEPT !.kind = "post", !.tool = {t},
                             !.deny = t \notin view.denied])
    /\ UNCHANGED view

EditForm ==
    /\ FieldsOffered /\ Edits
    /\ view' = [view EXCEPT !.form = "edited"]
    /\ net' = [net EXCEPT !.edits = @ + 1]

\* onSave, ESC, a click outside and Cancel; the parent closes the dialog.
Close ==
    /\ view.open
    /\ view' = [view EXCEPT !.open = FALSE]
    /\ UNCHANGED net

\* The parent shows "Loading..." and then a new instance for the same key;
\* what answers the old one is dropped.
Remount ==
    /\ view.open /\ Edits
    /\ view' = [view EXCEPT !.form = "asOpened", !.discovered = {},
                            !.denied = {}, !.ver = 0]
    /\ net' = [net EXCEPT !.edits = @ + 1,
                          !.calls = [i \in CallIds |->
                              [net.calls[i] EXCEPT !.mounted = FALSE]]]

-----------------------------------------------------------------------------
\* GET reads the discovered tools, then the denied ones.
ReadDiscovered(i) ==
    /\ net.calls[i].kind = "get" /\ net.calls[i].at = "sent"
    /\ net' = [net EXCEPT !.calls[i].at = "half",
                          !.calls[i].discovered = net.discovered]
    /\ UNCHANGED view

ReadDenied(i) ==
    /\ net.calls[i].at = "half"
    /\ net' = [net EXCEPT !.calls[i].at = "answered",
                          !.calls[i].denied = net.denied,
                          !.calls[i].ver = net.ver]
    /\ UNCHANGED view

\* Mutant: the tool is taken to be in the set of the discovered ones.
Denied_OnlyDenies(i) ==
    LET c == net.calls[i] IN
    /\ c.kind = "post" /\ c.at = "sent"
    /\ LET denied == IF c.deny THEN net.denied \union c.tool
                     ELSE net.denied \ c.tool
       IN  net' = [net EXCEPT !.denied = denied, !.ver = @ + 1,
                   !.calls[i].at = "answered", !.calls[i].denied = denied,
                   !.calls[i].ver = net.ver + 1]
    /\ UNCHANGED view

\* POST: SADD of the discovered set, then SADD or SREM of the denied one.
Post(i) ==
    LET c == net.calls[i] IN
    /\ c.kind = "post" /\ c.at = "sent"
    /\ LET denied == IF c.deny THEN net.denied \union c.tool
                     ELSE net.denied \ c.tool
       IN  net' = [net EXCEPT !.discovered = @ \union c.tool,
                   !.denied = denied, !.ver = @ + 1,
                   !.calls[i].at = "answered", !.calls[i].denied = denied,
                   !.calls[i].ver = net.ver + 1]
    /\ UNCHANGED view

\* The discovered set lives for 30 days, the denied one for ever.
DiscoveredExpires ==
    /\ Edits
    /\ net' = [net EXCEPT !.discovered = {}, !.edits = @ + 1,
                          !.expired = @ \union net.denied]
    /\ UNCHANGED view

Lost(i) ==
    /\ net.calls[i].at \in {"sent", "answered"}
    /\ net.faults < MaxFaults
    /\ net' = [net EXCEPT !.calls[i] = Slot, !.faults = @ + 1]
    /\ UNCHANGED view

\* Mutant: the poll refreshes the discovered tools only.
Arrives_Discovered(i) ==
    LET c == net.calls[i] IN
    /\ c.at = "answered"
    /\ net' = [net EXCEPT !.calls[i] = Slot]
    /\ view' = IF ~view.open \/ ~c.mounted THEN view
               ELSE IF c.kind = "get"
               THEN [view EXCEPT !.discovered = c.discovered]
               ELSE [view EXCEPT !.denied = c.denied, !.ver = c.ver]

\* An answer replaces what the dialog shows, whatever it has shown since.
Arrives(i) ==
    LET c == net.calls[i] IN
    /\ c.at = "answered"
    /\ net' = [net EXCEPT !.calls[i] = Slot]
    /\ view' = IF view.open /\ c.mounted
               THEN [view EXCEPT !.denied = c.denied, !.ver = c.ver,
                                 !.discovered = IF c.kind = "get"
                                                THEN c.discovered ELSE @]
               ELSE view

Serve(i) == ReadDiscovered(i) \/ ReadDenied(i) \/ Post(i) \/ Arrives(i)

Next ==
    \/ \E i \in CallIds : Poll(i) \/ ToggleTool(i) \/ Serve(i) \/ Lost(i)
    \/ EditForm \/ Close \/ Remount \/ DiscoveredExpires

Spec == Init /\ [][Next]_vars

\* The interval fires, and a call that is not lost is answered.
Fairness ==
    /\ WF_vars(\E i \in CallIds : Poll(i))
    /\ \A i \in CallIds : WF_vars(Serve(i))

-----------------------------------------------------------------------------
TypeOK ==
    /\ view \in [open : BOOLEAN, form : {"asOpened", "edited"},
                 discovered : SUBSET Tools, denied : SUBSET Tools, ver : Nat]
    /\ net.calls \in [CallIds ->
            [kind : {"free", "get", "post"},
             at : {"none", "sent", "half", "answered"}, tool : SUBSET Tools,
             deny : BOOLEAN, discovered : SUBSET Tools, denied : SUBSET Tools,
             ver : Nat, mounted : BOOLEAN]]
    /\ net.discovered \subseteq Tools /\ net.denied \subseteq Tools
    /\ net.edits \in 0 .. MaxEdits /\ net.faults \in 0 .. MaxFaults

\* A denial can be taken back in the dialog: its tool is among the
\* discovered ones, unless their set expired after the denial.
DenialIsListed == net.denied \subseteq net.discovered \union net.expired

\* Whatever was lost or answered out of order, polling brings an open dialog
\* back to what the proxy enforces.
CatchesUp == []<>(view.open => view.denied = net.denied)
=============================================================================
