------------------------------ MODULE Recording ------------------------------
(***************************************************************************)
(* Recording a session from the home page (app/page.tsx) and the route     *)
(* that tags the user's virtual keys in Redis                              *)
(* (app/api/sessions/record/route.ts); the proxy logs every request of a   *)
(* tagged key under the session.  The user may have the page open twice.   *)
(* A page keeps the session in one variable, sessionId, which the snapshot *)
(* of a telemetry group (components/LiveTelemetryGrouped.tsx) sets too.    *)
(***************************************************************************)
EXTENDS Naturals

CONSTANTS
    Tabs,       \* pages of one user
    None,
    MaxStarts,  \* bound on recordings
    MaxTurns    \* bound on snapshots, failing calls and expiries of the tag

VARIABLES view, net

vars == <<view, net>>

Sids == 1 .. MaxStarts
CallIds == 1 .. 2
NoCall == [kind |-> "none", at |-> "none", sid |-> None,
           of |-> None]
Free(t, c) == net.calls[t][c].kind = "none"
                /\ (c = 2 => net.calls[t][1].kind # "none")

Init ==
    \E redis \in BOOLEAN :
        /\ view = [t \in Tabs |-> [recording |-> FALSE, sid |-> None,
                                   modal |-> FALSE, summary |-> FALSE]]
        /\ net = [tag |-> None, redis |-> redis, used |-> 0,
                  calls |-> [t \in Tabs |-> [c \in CallIds |-> NoCall]],
                  under |-> [t \in Tabs |-> None],
                  turns |-> 0, last |-> None, ended |-> {}, unsure |-> {}]

\* What the page offers: the record button of the header, the configuration
\* dialog, the summary and its sections, the snapshot button of a group.
RecordButton == Tabs
ConfigDialog == {t \in Tabs : view[t].modal}
SummaryDialog == {t \in Tabs : view[t].summary}
SnapshotButton == Tabs

Call(t, c, kind, sid) ==
    [net.calls EXCEPT ![t][c] = [kind |-> kind, at |-> "sent", sid |-> sid,
                                 of |-> net.under[t]]]

-----------------------------------------------------------------------------
\* handleRecordToggle: the dialog, or the end of the recording.
OpenConfig(t) ==
    /\ t \in RecordButton /\ ~view[t].recording
    /\ view' = [view EXCEPT ![t].modal = TRUE]
    /\ UNCHANGED net

CloseConfig(t) ==
    /\ t \in ConfigDialog
    /\ view' = [view EXCEPT ![t].modal = FALSE]
    /\ UNCHANGED net

\* startRecording; nothing keeps the user from starting twice.
StartRecording(t, c) ==
    /\ t \in ConfigDialog /\ Free(t, c)
    /\ net.used < MaxStarts
    /\ view' = [view EXCEPT ![t].modal = FALSE]
    /\ net' = [net EXCEPT !.used = @ + 1,
                          !.calls = Call(t, c, "start", net.used + 1)]

\* Without a session id the tag is left alone and the summary comes next.
StopRecording(t, c) ==
    /\ t \in RecordButton /\ view[t].recording /\ Free(t, c)
    /\ view' = [view EXCEPT ![t].recording = FALSE]
    /\ net' = [net EXCEPT
            !.calls = Call(t, c, IF view[t].sid = None THEN "summary"
                                 ELSE "stop", view[t].sid),
            !.ended = IF view[t].sid = None
                      THEN @ \union ({net.under[t]} \ {None}) ELSE @]

\* onSnapshot: a bucket of the session tab is named by its session, others
\* have none.
Snapshot(t, c) ==
    /\ t \in SnapshotButton /\ Free(t, c) /\ net.turns < MaxTurns
    /\ \E sid \in (1 .. net.used) \union {None} :
        /\ view' = [view EXCEPT ![t].sid = sid]
        /\ net' = [net EXCEPT !.turns = @ + 1,
                              !.calls = Call(t, c, "summary", sid),
                              !.unsure = @ \union {t}]

CloseSummary(t) ==
    /\ t \in SummaryDialog
    /\ view' = [view EXCEPT ![t].summary = FALSE]
    /\ UNCHANGED net

-----------------------------------------------------------------------------
\* POST /api/sessions/record, enable: one MULTI tags all keys of the user.
ServeStart(t, c) ==
    /\ net.calls[t][c].kind = "start" /\ net.calls[t][c].at = "sent"
    /\ net' = [net EXCEPT !.calls[t][c].at = "ok",
                          !.last = net.calls[t][c].sid,
                          !.tag = IF net.redis THEN net.calls[t][c].sid ELSE @]
    /\ UNCHANGED view

\* Mutant: the tag goes whatever session it is of.
Untagged_Any(sid) == None

\* The Lua script compares before it deletes.
Untagged(sid) == IF net.tag = sid THEN None ELSE net.tag

ServeStop(t, c) ==
    /\ net.calls[t][c].kind = "stop" /\ net.calls[t][c].at = "sent"
    /\ net' = [net EXCEPT !.calls[t][c].at = "ok",
                          !.tag = Untagged(net.calls[t][c].sid)]
    /\ UNCHANGED view

\* The call fails before or after it was executed, and its handler ends; only
\* a stop that is answered by an error is followed by the summary all the same.
Fails(t, c) ==
    /\ net.calls[t][c].kind # "none" /\ net.turns < MaxTurns
    /\ \/ net' = [net EXCEPT !.turns = @ + 1, !.calls[t][c] = NoCall]
       \/ /\ net.calls[t][c].kind = "stop"
          /\ net' = [net EXCEPT !.turns = @ + 1,
                !.calls = Call(t, c, "summary", net.calls[t][c].sid)]
    /\ UNCHANGED view

\* The safety net of 24 hours.
TagExpires ==
    /\ net.tag # None /\ net.turns < MaxTurns
    /\ net' = [net EXCEPT !.tag = None, !.turns = @ + 1, !.unsure = Tabs]
    /\ UNCHANGED view

-----------------------------------------------------------------------------
Started(t, c) ==
    /\ net.calls[t][c].kind = "start" /\ net.calls[t][c].at = "ok"
    /\ view' = [view EXCEPT ![t] = [@ EXCEPT !.recording = TRUE,
                        !.sid = net.calls[t][c].sid, !.summary = FALSE]]
    /\ net' = [net EXCEPT !.calls[t][c] = NoCall,
                          !.under[t] = net.calls[t][c].sid]

\* The summary is asked for with the session the page was stopped with.
Stopped(t, c) ==
    /\ net.calls[t][c].kind = "stop" /\ net.calls[t][c].at = "ok"
    /\ net' = [net EXCEPT !.calls = Call(t, c, "summary",
                                         net.calls[t][c].sid),
                          !.ended = @ \union ({net.calls[t][c].of} \ {None})]
    /\ UNCHANGED view

\* The summary is of the session asked for, or of the whole window without one.
Summarised(t, c) ==
    /\ net.calls[t][c].kind = "summary"
    /\ view' = [view EXCEPT ![t].summary = TRUE]
    /\ net' = [net EXCEPT !.calls[t][c] = NoCall]

Next ==
    \/ \E t \in Tabs : OpenConfig(t) \/ CloseConfig(t) \/ CloseSummary(t)
    \/ \E t \in Tabs, c \in CallIds :
        \/ StartRecording(t, c) \/ StopRecording(t, c) \/ Snapshot(t, c)
        \/ ServeStart(t, c) \/ ServeStop(t, c)
        \/ Fails(t, c)
        \/ Started(t, c) \/ Stopped(t, c) \/ Summarised(t, c)
    \/ TagExpires

Spec == Init /\ [][Next]_vars

-----------------------------------------------------------------------------
TypeOK ==
    /\ view \in [Tabs -> [recording : BOOLEAN, sid : Sids \union {None},
                          modal : BOOLEAN, summary : BOOLEAN]]
    /\ net.tag \in Sids \union {None} /\ net.used \in 0 .. MaxStarts
    /\ net.calls \in [Tabs -> [CallIds ->
            [kind : {"none", "start", "stop", "summary"},
             at : {"none", "sent", "ok"}, sid : Sids \union {None},
             of : Sids \union {None}]]]
    /\ net.unsure \subseteq Tabs /\ net.ended \subseteq Sids

\* A page that believes it records has its keys tagged: no stop of the other
\* page removes the tag of a recording, however often a page starts and whatever
\* calls fail.  Not so without Redis, when another start was served later, when
\* a page took a snapshot, or when the tag expired.
RecordingIsTagged ==
    \A t \in Tabs :
        view[t].recording /\ net.redis /\ net.unsure = {}
            => net.tag = view[t].sid \/ net.last # view[t].sid

\* "Stop the proxy-side session tag ... so subsequent requests are no longer
\* tagged with this session id" (app/page.tsx:132): once the stop has
\* succeeded the session of the recording is off the keys.  Only as long as no
\* page touched its session id in between: a snapshot (890) does.
StopRemovesItsTag == net.unsure = {} => net.tag \notin net.ended
=============================================================================
