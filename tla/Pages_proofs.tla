----------------------------- MODULE Pages_proofs -----------------------------
(***************************************************************************)
(* Invariants of the pages of the dashboard, for any bounds and any sets   *)
(* of keys, tabs and the like: one section per page, each with the lemmas  *)
(* that the page starts in its invariant and that every step keeps it.     *)
(* Dashboard_proofs puts them together.                                    *)
(***************************************************************************)
EXTENDS Integers, Sequences, TLAPS

CONSTANTS None

VARIABLES view, net

-----------------------------------------------------------------------------
(* Recording: the session of a start is known to its own call alone until  *)
(* it is served, and nobody records the session of a stop.                 *)

CONSTANTS Tabs, MaxStarts, MaxTurns

Record == INSTANCE Recording

RecordConstants == None \notin Int /\ MaxStarts \in Nat

RecordCall == [kind : {"none", "start", "stop", "summary"},
               at : {"none", "sent", "ok"},
               sid : Record!Sids \union {None}, of : Record!Sids \union {None}]
RecordCalls == [Tabs -> [Record!CallIds -> RecordCall]]
RecordTab == [recording : BOOLEAN, sid : Record!Sids \union {None},
              modal : BOOLEAN, summary : BOOLEAN]
RecordFields == {"tag", "redis", "used", "calls", "under", "turns", "last",
                 "ended", "unsure"}

RecordType ==
    /\ RecordConstants
    /\ DOMAIN net = RecordFields
    /\ view \in [Tabs -> RecordTab]
    /\ net.tag \in Record!Sids \union {None}
    /\ net.last \in Record!Sids \union {None}
    /\ net.used \in 0 .. MaxStarts
    /\ net.calls \in RecordCalls
    /\ net.under \in [Tabs -> Record!Sids \union {None}]
    /\ net.ended \subseteq Record!Sids
    /\ net.unsure \subseteq Tabs

\* A call replaced by another of its type.
Put(t, c, x) == [net.calls EXCEPT ![t] = [net.calls[t] EXCEPT ![c] = x]]

LEMMA PutType ==
    ASSUME NEW t \in Tabs, NEW c \in Record!CallIds, NEW x \in RecordCall,
           net.calls \in RecordCalls
    PROVE  /\ Put(t, c, x) \in RecordCalls
           /\ Put(t, c, x)[t][c] = x
           /\ \A u \in Tabs, d \in Record!CallIds :
                u # t \/ d # c => Put(t, c, x)[u][d] = net.calls[u][d]
BY DEF RecordCalls, Put

LEMMA CallType ==
    ASSUME NEW t \in Tabs, NEW c \in Record!CallIds, RecordType
    PROVE  net.calls[t][c] \in RecordCall
BY DEF RecordType, RecordCalls

LEMMA AnsweredType ==
    ASSUME NEW x \in RecordCall
    PROVE  /\ [x EXCEPT !.at = "ok"] \in RecordCall
           /\ [x EXCEPT !.at = "ok"].at = "ok"
           /\ [x EXCEPT !.at = "ok"].kind = x.kind
           /\ [x EXCEPT !.at = "ok"].sid = x.sid
           /\ [x EXCEPT !.at = "ok"].of = x.of
<1>1. [x EXCEPT !.at = "ok"]
        = [kind |-> x.kind, at |-> "ok", sid |-> x.sid, of |-> x.of]
  BY DEF RecordCall
<1> QED BY <1>1 DEF RecordCall

Sent(t, kind, sid) == [kind |-> kind, at |-> "sent", sid |-> sid,
                       of |-> net.under[t]]

LEMMA SentType ==
    ASSUME NEW t \in Tabs, NEW sid \in Record!Sids \union {None}, RecordType
    PROVE  /\ Sent(t, "start", sid) \in RecordCall
           /\ Sent(t, "stop", sid) \in RecordCall
           /\ Sent(t, "summary", sid) \in RecordCall
BY DEF RecordCall, RecordType, Sent

LEMMA NoCallType == Record!NoCall \in RecordCall
BY DEF RecordCall, Record!NoCall

LEMMA TabType ==
    ASSUME NEW x \in RecordTab, NEW b \in BOOLEAN,
           NEW s \in Record!Sids \union {None}
    PROVE  /\ [x EXCEPT !.modal = b] \in RecordTab
           /\ [x EXCEPT !.summary = b] \in RecordTab
           /\ [x EXCEPT !.recording = b] \in RecordTab
           /\ [x EXCEPT !.sid = s] \in RecordTab
           /\ [x EXCEPT !.recording = TRUE, !.sid = s, !.summary = b]
                \in RecordTab
<1>1. /\ [x EXCEPT !.modal = b] \in RecordTab
      /\ [x EXCEPT !.summary = b] \in RecordTab
      /\ [x EXCEPT !.recording = b] \in RecordTab
      /\ [x EXCEPT !.sid = s] \in RecordTab
  BY DEF RecordTab
<1>2. [x EXCEPT !.recording = TRUE, !.sid = s, !.summary = b] \in RecordTab
  BY DEF RecordTab
<1> QED BY <1>1, <1>2

LEMMA TabPut ==
    ASSUME NEW t \in Tabs, NEW x \in RecordTab, view \in [Tabs -> RecordTab]
    PROVE  [view EXCEPT ![t] = x] \in [Tabs -> RecordTab]
OBVIOUS

LEMMA RecordTypeKept ==
    ASSUME RecordType, Record!Next
    PROVE  RecordType'
<1> USE DEF RecordConstants, RecordType, RecordFields
<1>n. Record!NoCall \in RecordCall
  BY DEF RecordCall, Record!NoCall
<1>s. ASSUME NEW t \in Tabs, NEW c \in Record!CallIds
      PROVE  /\ net.calls[t][c] \in RecordCall
             /\ net.calls[t][c].sid \in Record!Sids \union {None}
             /\ net.calls[t][c].of \in Record!Sids \union {None}
  BY CallType DEF RecordCall
<1>1. ASSUME NEW t \in Tabs, NEW c \in Record!CallIds,
             Record!StartRecording(t, c)
      PROVE  RecordType'
  <2>1. net.used + 1 \in Record!Sids
    BY <1>1 DEF Record!Sids, Record!StartRecording
  <2>2. net'.calls = Put(t, c, Sent(t, "start", net.used + 1))
    BY <1>1 DEF Record!StartRecording, Record!Call, Put, Sent
  <2>3. net'.calls \in RecordCalls
    BY <2>1, <2>2, SentType, PutType
  <2>4. net'.used \in 0 .. MaxStarts
    BY <1>1, <2>1 DEF Record!StartRecording, Record!Sids
  <2>5. view' \in [Tabs -> RecordTab]
    BY <1>1, TabType, TabPut DEF Record!StartRecording
  <2> QED BY <1>1, <2>3, <2>4, <2>5 DEF Record!StartRecording
<1>2. ASSUME NEW t \in Tabs, NEW c \in Record!CallIds,
             Record!StopRecording(t, c)
      PROVE  RecordType'
  <2>1. view[t].sid \in Record!Sids \union {None}
    BY DEF RecordTab
  <2>2. \/ net'.calls = Put(t, c, Sent(t, "summary", view[t].sid))
        \/ net'.calls = Put(t, c, Sent(t, "stop", view[t].sid))
    BY <1>2 DEF Record!StopRecording, Record!Call, Put, Sent
  <2>3. net'.calls \in RecordCalls
    BY <2>1, <2>2, SentType, PutType
  <2>4. view' \in [Tabs -> RecordTab]
    BY <1>2, TabType, TabPut DEF Record!StopRecording
  <2> QED BY <1>2, <2>3, <2>4 DEF Record!StopRecording
<1>3. ASSUME NEW t \in Tabs, NEW c \in Record!CallIds,
             Record!Snapshot(t, c)
      PROVE  RecordType'
  <2>1. PICK sid \in (1 .. net.used) \union {None} :
            /\ view' = [view EXCEPT ![t].sid = sid]
            /\ net' = [net EXCEPT !.turns = @ + 1,
                                  !.calls = Record!Call(t, c, "summary", sid),
                                  !.unsure = @ \union {t}]
    BY <1>3 DEF Record!Snapshot
  <2>2. sid \in Record!Sids \union {None}
    BY DEF Record!Sids
  <2>3. Sent(t, "summary", sid) \in RecordCall
    BY <2>2, SentType
  <2>4. net'.calls = Put(t, c, Sent(t, "summary", sid))
    BY <2>1 DEF Record!Call, Put, Sent
  <2>5. net'.calls \in RecordCalls
    BY <2>3, <2>4, PutType
  <2>6. view' \in [Tabs -> RecordTab]
    BY <2>1, <2>2, TabType, TabPut
  <2> QED BY <2>1, <2>5, <2>6
<1>4. ASSUME NEW t \in Tabs, NEW c \in Record!CallIds,
             Record!ServeStart(t, c)
      PROVE  RecordType'
  <2>1. net'.calls = Put(t, c, [net.calls[t][c] EXCEPT !.at = "ok"])
    BY <1>4 DEF Record!ServeStart, Put
  <2>2. net'.calls \in RecordCalls
    BY <2>1, <1>s, AnsweredType, PutType
  <2> QED BY <1>4, <1>s, <2>2 DEF Record!ServeStart
<1>5. ASSUME NEW t \in Tabs, NEW c \in Record!CallIds,
             Record!ServeStop(t, c)
      PROVE  RecordType'
  <2>1. net'.calls = Put(t, c, [net.calls[t][c] EXCEPT !.at = "ok"])
    BY <1>5 DEF Record!ServeStop, Put
  <2>2. net'.calls \in RecordCalls
    BY <2>1, <1>s, AnsweredType, PutType
  <2> QED BY <1>5, <2>2 DEF Record!ServeStop, Record!Untagged
<1>6. ASSUME NEW t \in Tabs, NEW c \in Record!CallIds, Record!Fails(t, c)
      PROVE  RecordType'
  <2>1. \/ net'.calls = Put(t, c, Record!NoCall)
        \/ net'.calls = Put(t, c, Sent(t, "summary", net.calls[t][c].sid))
    BY <1>6 DEF Record!Fails, Record!Call, Put, Sent
  <2>2. net'.calls \in RecordCalls
    BY <2>1, <1>s, <1>n, SentType, PutType
  <2> QED BY <1>6, <2>2 DEF Record!Fails
<1>7. ASSUME NEW t \in Tabs, NEW c \in Record!CallIds, Record!Started(t, c)
      PROVE  RecordType'
  <2>1. net'.calls = Put(t, c, Record!NoCall)
    BY <1>7 DEF Record!Started, Put
  <2>2. net'.calls \in RecordCalls
    BY <2>1, <1>n, PutType
  <2>3. view' = [view EXCEPT ![t] = [view[t] EXCEPT !.recording = TRUE,
                        !.sid = net.calls[t][c].sid, !.summary = FALSE]]
    BY <1>7 DEF Record!Started
  <2>4. view' \in [Tabs -> RecordTab]
    BY <2>3, <1>s, TabType, TabPut
  <2> QED BY <1>7, <1>s, <2>2, <2>4 DEF Record!Started
<1>8. ASSUME NEW t \in Tabs, NEW c \in Record!CallIds, Record!Stopped(t, c)
      PROVE  RecordType'
  <2>1. net'.calls = Put(t, c, Sent(t, "summary", net.calls[t][c].sid))
    BY <1>8 DEF Record!Stopped, Record!Call, Put, Sent
  <2>2. net'.calls \in RecordCalls
    BY <2>1, <1>s, SentType, PutType
  <2> QED BY <1>8, <1>s, <2>2 DEF Record!Stopped
<1>9. ASSUME NEW t \in Tabs, NEW c \in Record!CallIds, Record!Summarised(t, c)
      PROVE  RecordType'
  <2>1. net'.calls = Put(t, c, Record!NoCall)
    BY <1>9 DEF Record!Summarised, Put
  <2>2. net'.calls \in RecordCalls
    BY <2>1, <1>n, PutType
  <2>3. view' = [view EXCEPT ![t] = [view[t] EXCEPT !.summary = TRUE]]
    BY <1>9 DEF Record!Summarised
  <2>4. view' \in [Tabs -> RecordTab]
    BY <2>3, TabType, TabPut
  <2> QED BY <1>9, <2>2, <2>4 DEF Record!Summarised
<1>10. ASSUME NEW t \in Tabs, Record!OpenConfig(t) \/ Record!CloseConfig(t)
                                \/ Record!CloseSummary(t)
      PROVE  RecordType'
  <2>1. UNCHANGED net
    BY <1>10 DEF Record!OpenConfig, Record!CloseConfig, Record!CloseSummary
  <2>2. \E x \in RecordTab : view' = [view EXCEPT ![t] = x]
    BY <1>10, TabType DEF Record!OpenConfig, Record!CloseConfig,
               Record!CloseSummary
  <2>3. view' \in [Tabs -> RecordTab]
    BY <2>2, TabPut
  <2> QED BY <2>1, <2>3
<1>11. ASSUME Record!TagExpires PROVE RecordType'
  BY <1>11 DEF Record!TagExpires
<1> QED
  BY <1>1, <1>2, <1>3, <1>4, <1>5, <1>6, <1>7, <1>8, <1>9, <1>10, <1>11
  DEF Record!Next

Known(s) == s = None \/ s \in 1 .. net.used

RecordTabs ==
    /\ \A t \in Tabs :
        /\ view[t].sid = net.under[t]
        /\ Known(net.under[t])
        /\ view[t].recording => net.under[t] # None
    /\ \A t, u \in Tabs :
        net.under[t] = net.under[u] /\ net.under[t] # None => t = u

RecordTag ==
    /\ Known(net.tag) /\ Known(net.last)
    /\ net.ended \subseteq 1 .. net.used
    /\ net.tag \notin net.ended
    /\ \A t \in Tabs :
        view[t].recording /\ net.redis /\ net.last = net.under[t]
            => net.tag = net.last

\* The session of a start is known to its own call alone until it is served,
\* and to the tag until the page hears of it.
RecordStart(t, c) ==
    LET s == net.calls[t][c].sid IN
    net.calls[t][c].kind = "start" =>
        /\ s # None /\ s \notin net.ended
        /\ \A u \in Tabs : net.under[u] # s
        /\ \A u \in Tabs, d \in Record!CallIds :
                u # t \/ d # c => net.calls[u][d].sid # s
        /\ net.calls[t][c].at = "sent" => net.tag # s /\ net.last # s
        /\ net.redis /\ net.last = s => net.tag = s

\* Nobody records the session of a stop any more.
RecordStop(t, c) ==
    LET s == net.calls[t][c].sid IN
    net.calls[t][c].kind = "stop" =>
        /\ s # None /\ net.calls[t][c].of = s
        /\ \A u \in Tabs : view[u].recording => net.under[u] # s
        /\ net.calls[t][c].at = "ok" => net.tag # s

RecordCallsOK ==
    \A t \in Tabs, c \in Record!CallIds :
        /\ Known(net.calls[t][c].sid)
        /\ RecordStart(t, c)
        /\ RecordStop(t, c)

RecordInv ==
    /\ RecordType
    /\ net.unsure = {} => RecordTabs /\ RecordTag /\ RecordCallsOK

LEMMA RecordKept ==
    ASSUME RecordInv, Record!Next
    PROVE  RecordInv'
<1> USE DEF RecordInv, RecordConstants
<1>c. RecordConstants
  BY DEF RecordType
<1>t. RecordType'
  BY RecordTypeKept
<1> SUFFICES ASSUME net'.unsure = {}
             PROVE  (RecordTabs /\ RecordTag /\ RecordCallsOK)'
  BY <1>t
<1>1. ASSUME NEW t \in Tabs, NEW c \in Record!CallIds, Record!StartRecording(t, c)
      PROVE  (RecordTabs /\ RecordTag /\ RecordCallsOK)'
  <2>1. /\ net'.used = net.used + 1 /\ net.used \in Nat
        /\ UNCHANGED <<net.tag, net.redis, net.under, net.last, net.ended, net.unsure>>
        /\ net.unsure = {}
        /\ \A u \in Tabs : /\ view'[u].recording = view[u].recording
                           /\ view'[u].sid = view[u].sid
    BY <1>1 DEF Record!StartRecording, RecordType, RecordFields, RecordTab
  <2>2. /\ \A u \in Tabs, d \in Record!CallIds :
                u # t \/ d # c => net'.calls[u][d] = net.calls[u][d]
        /\ net'.calls[t][c].kind = "start"
        /\ net'.calls[t][c].at = "sent"
        /\ net'.calls[t][c].sid = net.used + 1
    <3>1. net.used + 1 \in Record!Sids
      BY <1>1 DEF Record!Sids, Record!StartRecording, RecordType
    <3>2. net'.calls = Put(t, c, Sent(t, "start", net.used + 1))
      BY <1>1 DEF Record!StartRecording, Record!Call, Put, Sent, RecordType,
                  RecordFields
    <3>3. Sent(t, "start", net.used + 1) \in RecordCall
      BY <3>1, SentType
    <3> QED BY <3>2, <3>3, PutType DEF RecordType, Sent
  <2>3. RecordTabs /\ RecordTag /\ RecordCallsOK
    BY <2>1
  <2>4. RecordTabs'
    BY <2>1, <2>3 DEF RecordTabs, Known
  <2>5. RecordTag'
    BY <1>c, <2>1, <2>3 DEF RecordTag, Known
  <2>6. ASSUME NEW u \in Tabs, NEW d \in Record!CallIds
        PROVE  Known(net.calls[u][d].sid)'
    BY <2>1, <2>2, <2>3 DEF Known, RecordCallsOK
  <2>7. ASSUME NEW u \in Tabs, NEW d \in Record!CallIds
        PROVE  RecordStart(u, d)'
    <3>1. CASE u = t /\ d = c
      BY <1>c, <2>1, <2>2, <2>3, <3>1
      DEF Known, RecordCallsOK, RecordStart, RecordTabs, RecordTag
    <3>2. CASE ~(u = t /\ d = c)
      <4>1. net.calls[u][d].kind = "start"
                => net.calls[t][c].sid # net.calls[u][d].sid
        BY <2>3, <3>2 DEF RecordCallsOK, RecordStart
      <4>2. net'.calls[u][d] = net.calls[u][d]
        BY <2>2, <3>2
      <4>3. net.calls[u][d].kind = "start" =>
                \A v \in Tabs, e \in Record!CallIds :
                    v # u \/ e # d =>
                        net'.calls[v][e].sid # net.calls[u][d].sid
        BY <2>1, <2>2, <2>3, <3>2, <4>1
        DEF RecordCallsOK, RecordStart, Known, RecordTabs
      <4> QED
        BY <2>1, <2>2, <2>3, <4>1, <4>2, <4>3, SMTT(30)
        DEF Known, RecordCallsOK, RecordStart, RecordTabs, RecordTag
    <3> QED BY <3>1, <3>2
  <2>8. ASSUME NEW u \in Tabs, NEW d \in Record!CallIds
        PROVE  RecordStop(u, d)'
    BY <2>1, <2>2, <2>3
    DEF Known, RecordCallsOK, RecordStop, RecordStart, RecordTabs
  <2> QED BY <2>4, <2>5, <2>6, <2>7, <2>8 DEF RecordCallsOK
<1>2. ASSUME NEW t \in Tabs, NEW c \in Record!CallIds, Record!StopRecording(t, c)
      PROVE  (RecordTabs /\ RecordTag /\ RecordCallsOK)'
  <2>1. /\ view[t].recording
        /\ UNCHANGED <<net.tag, net.redis, net.under, net.last, net.used, net.unsure>>
        /\ net.unsure = {}
        /\ \A u \in Tabs : /\ view'[u].recording <=> view[u].recording /\ u # t
                           /\ view'[u].sid = view[u].sid
        /\ view[t].sid # None => net'.ended = net.ended
    BY <1>2 DEF Record!StopRecording, RecordType, RecordFields, RecordTab
  <2>2. /\ \A u \in Tabs, d \in Record!CallIds :
                u # t \/ d # c => net'.calls[u][d] = net.calls[u][d]
        /\ net'.calls[t][c].kind = "stop"
        /\ net'.calls[t][c].at = "sent"
        /\ net'.calls[t][c].sid = view[t].sid
        /\ net'.calls[t][c].of = view[t].sid
    <3>1. view[t].sid = net.under[t] /\ view[t].sid # None
      BY <2>1 DEF RecordTabs
    <3>2. net'.calls = Put(t, c, Sent(t, "stop", view[t].sid))
      BY <1>2, <3>1 DEF Record!StopRecording, Record!Call, Put, Sent, RecordType,
                  RecordFields
    <3>3. view[t].sid \in Record!Sids
      BY <3>1 DEF RecordType
    <3>4. Sent(t, "stop", view[t].sid) \in RecordCall
      BY <3>3, SentType
    <3> QED BY <3>1, <3>2, <3>4, PutType DEF RecordType, Sent
  <2>3. RecordTabs /\ RecordTag /\ RecordCallsOK
    BY <2>1
  <2>4. RecordTabs'
    BY <2>1, <2>3 DEF RecordTabs, Known, RecordTabs
  <2>5. RecordTag'
    BY <1>c, <2>1, <2>3 DEF RecordTag, Known, RecordTabs
  <2>6. ASSUME NEW u \in Tabs, NEW d \in Record!CallIds
        PROVE  Known(net.calls[u][d].sid)'
    BY <2>1, <2>2, <2>3 DEF Known, RecordCallsOK, RecordTabs
  <2>7. ASSUME NEW u \in Tabs, NEW d \in Record!CallIds
        PROVE  RecordStart(u, d)'
    <3>1. CASE u = t /\ d = c
      BY <1>c, <2>1, <2>2, <2>3, <3>1
      DEF Known, RecordCallsOK, RecordStart, RecordTabs, RecordTag, RecordTabs
    <3>2. CASE ~(u = t /\ d = c)
      <4>1. net.calls[u][d].kind = "start"
                => net.calls[t][c].sid # net.calls[u][d].sid
        BY <2>3, <3>2 DEF RecordCallsOK, RecordStart
      <4>2. net'.calls[u][d] = net.calls[u][d]
        BY <2>2, <3>2
      <4>3. net.calls[u][d].kind = "start" =>
                \A v \in Tabs, e \in Record!CallIds :
                    v # u \/ e # d =>
                        net'.calls[v][e].sid # net.calls[u][d].sid
        BY <2>1, <2>2, <2>3, <3>2, <4>1
        DEF RecordCallsOK, RecordStart, Known, RecordTabs
      <4> QED
        BY <2>1, <2>2, <2>3, <4>1, <4>2, <4>3, SMTT(30)
        DEF Known, RecordCallsOK, RecordStart, RecordTabs, RecordTag, RecordTabs
    <3> QED BY <3>1, <3>2
  <2>8. ASSUME NEW u \in Tabs, NEW d \in Record!CallIds
        PROVE  RecordStop(u, d)'
    BY <2>1, <2>2, <2>3
    DEF Known, RecordCallsOK, RecordStop, RecordStart, RecordTabs, RecordTabs
  <2> QED BY <2>4, <2>5, <2>6, <2>7, <2>8 DEF RecordCallsOK
<1>3. ASSUME NEW t \in Tabs, NEW c \in Record!CallIds, Record!ServeStart(t, c)
      PROVE  (RecordTabs /\ RecordTag /\ RecordCallsOK)'
  <2>1. /\ net.calls[t][c].kind = "start" /\ net.calls[t][c].at = "sent"
        /\ UNCHANGED <<net.redis, net.under, net.ended, net.used, net.unsure>>
        /\ net.unsure = {}
        /\ UNCHANGED view
        /\ net'.last = net.calls[t][c].sid
        /\ net'.tag = IF net.redis THEN net.calls[t][c].sid ELSE net.tag
    BY <1>3 DEF Record!ServeStart, RecordType, RecordFields, RecordTab
  <2>2. /\ \A u \in Tabs, d \in Record!CallIds :
                u # t \/ d # c => net'.calls[u][d] = net.calls[u][d]
        /\ net'.calls[t][c].kind = "start"
        /\ net'.calls[t][c].at = "ok"
        /\ net'.calls[t][c].sid = net.calls[t][c].sid
    <3> DEFINE x == [net.calls[t][c] EXCEPT !.at = "ok"]
    <3>1. net'.calls = Put(t, c, x)
      BY <1>3 DEF Record!ServeStart, Put, RecordType, RecordFields
    <3>2. net.calls[t][c].kind = "start" /\ net.calls[t][c] \in RecordCall
      BY <2>1, CallType
    <3>3. /\ x \in RecordCall /\ x.at = "ok"
          /\ x.kind = net.calls[t][c].kind
          /\ x.sid = net.calls[t][c].sid
          /\ x.of = net.calls[t][c].of
      BY <3>2, AnsweredType
    <3> HIDE DEF x
    <3> QED BY <3>1, <3>2, <3>3, PutType DEF RecordType
  <2>3. RecordTabs /\ RecordTag /\ RecordCallsOK
    BY <2>1
  <2>4. RecordTabs'
    BY <2>1, <2>3 DEF RecordTabs, Known, RecordCallsOK, RecordStart
  <2>5. RecordTag'
    BY <1>c, <2>1, <2>3 DEF RecordTag, Known, RecordCallsOK, RecordStart
  <2>6. ASSUME NEW u \in Tabs, NEW d \in Record!CallIds
        PROVE  Known(net.calls[u][d].sid)'
    BY <2>1, <2>2, <2>3 DEF Known, RecordCallsOK
  <2>7. ASSUME NEW u \in Tabs, NEW d \in Record!CallIds
        PROVE  RecordStart(u, d)'
    <3>1. CASE u = t /\ d = c
      BY <1>c, <2>1, <2>2, <2>3, <3>1, SMTT(30)
      DEF Known, RecordCallsOK, RecordStart, RecordTabs, RecordTag
    <3>2. CASE ~(u = t /\ d = c)
      <4>1. net.calls[u][d].kind = "start"
                => net.calls[t][c].sid # net.calls[u][d].sid
        BY <2>3, <3>2 DEF RecordCallsOK, RecordStart
      <4>2. net'.calls[u][d] = net.calls[u][d]
        BY <2>2, <3>2
      <4>3. net.calls[u][d].kind = "start" =>
                \A v \in Tabs, e \in Record!CallIds :
                    v # u \/ e # d =>
                        net'.calls[v][e].sid # net.calls[u][d].sid
        BY <2>1, <2>2, <2>3, <3>2, <4>1
        DEF RecordCallsOK, RecordStart, Known, RecordTabs
      <4> QED
        BY <2>1, <2>2, <2>3, <4>1, <4>2, <4>3, SMTT(30)
        DEF Known, RecordCallsOK, RecordStart, RecordTabs, RecordTag
    <3> QED BY <3>1, <3>2
  <2>8. ASSUME NEW u \in Tabs, NEW d \in Record!CallIds
        PROVE  RecordStop(u, d)'
    BY <2>1, <2>2, <2>3, SMTT(30)
    DEF Known, RecordCallsOK, RecordStop, RecordStart, RecordTabs
  <2> QED BY <2>4, <2>5, <2>6, <2>7, <2>8 DEF RecordCallsOK
<1>4. ASSUME NEW t \in Tabs, NEW c \in Record!CallIds, Record!ServeStop(t, c)
      PROVE  (RecordTabs /\ RecordTag /\ RecordCallsOK)'
  <2>1. /\ net.calls[t][c].kind = "stop"
        /\ UNCHANGED <<net.redis, net.under, net.ended, net.used, net.unsure, net.last>>
        /\ net.unsure = {}
        /\ UNCHANGED view
        /\ net'.tag = IF net.tag = net.calls[t][c].sid THEN None ELSE net.tag
    BY <1>4 DEF Record!ServeStop, Record!Untagged, RecordType, RecordFields, RecordTab
  <2>2. /\ \A u \in Tabs, d \in Record!CallIds :
                u # t \/ d # c => net'.calls[u][d] = net.calls[u][d]
        /\ net'.calls[t][c].kind = "stop"
        /\ net'.calls[t][c].at = "ok"
        /\ net'.calls[t][c].sid = net.calls[t][c].sid
        /\ net'.calls[t][c].of = net.calls[t][c].of
    <3> DEFINE x == [net.calls[t][c] EXCEPT !.at = "ok"]
    <3>1. net'.calls = Put(t, c, x)
      BY <1>4 DEF Record!ServeStop, Put, RecordType, RecordFields
    <3>2. net.calls[t][c].kind = "stop" /\ net.calls[t][c] \in RecordCall
      BY <2>1, CallType
    <3>3. /\ x \in RecordCall /\ x.at = "ok"
          /\ x.kind = net.calls[t][c].kind
          /\ x.sid = net.calls[t][c].sid
          /\ x.of = net.calls[t][c].of
      BY <3>2, AnsweredType
    <3> HIDE DEF x
    <3> QED BY <3>1, <3>2, <3>3, PutType DEF RecordType
  <2>3. RecordTabs /\ RecordTag /\ RecordCallsOK
    BY <2>1
  <2>4. RecordTabs'
    BY <2>1, <2>3 DEF RecordTabs, Known, RecordCallsOK, RecordStop
  <2>5. RecordTag'
    BY <1>c, <2>1, <2>3 DEF RecordTag, Known, RecordCallsOK, RecordStop
  <2>6. ASSUME NEW u \in Tabs, NEW d \in Record!CallIds
        PROVE  Known(net.calls[u][d].sid)'
    BY <2>1, <2>2, <2>3 DEF Known, RecordCallsOK
  <2>7. ASSUME NEW u \in Tabs, NEW d \in Record!CallIds
        PROVE  RecordStart(u, d)'
    <3>1. CASE u = t /\ d = c
      BY <1>c, <2>1, <2>2, <2>3, <3>1
      DEF Known, RecordCallsOK, RecordStart, RecordTabs, RecordTag
    <3>2. CASE ~(u = t /\ d = c)
      <4>1. net.calls[u][d].kind = "start"
                => net.calls[t][c].sid # net.calls[u][d].sid
        BY <2>3, <3>2 DEF RecordCallsOK, RecordStart
      <4>2. net'.calls[u][d] = net.calls[u][d]
        BY <2>2, <3>2
      <4>3. net.calls[u][d].kind = "start" =>
                \A v \in Tabs, e \in Record!CallIds :
                    v # u \/ e # d =>
                        net'.calls[v][e].sid # net.calls[u][d].sid
        BY <2>1, <2>2, <2>3, <3>2, <4>1, SMTT(30)
        DEF RecordCallsOK, RecordStart, Known, RecordTabs
      <4> QED
        BY <2>1, <2>2, <2>3, <4>1, <4>2, <4>3, SMTT(30)
        DEF Known, RecordCallsOK, RecordStart, RecordTabs, RecordTag
    <3> QED BY <3>1, <3>2
  <2>8. ASSUME NEW u \in Tabs, NEW d \in Record!CallIds
        PROVE  RecordStop(u, d)'
    BY <2>1, <2>2, <2>3, SMTT(30)
    DEF Known, RecordCallsOK, RecordStop, RecordStart, RecordTabs
  <2> QED BY <2>4, <2>5, <2>6, <2>7, <2>8 DEF RecordCallsOK
<1>5. ASSUME NEW t \in Tabs, NEW c \in Record!CallIds, Record!Fails(t, c)
      PROVE  (RecordTabs /\ RecordTag /\ RecordCallsOK)'
  <2>1. /\ UNCHANGED <<net.tag, net.redis, net.under, net.last, net.ended, net.used, net.unsure>>
        /\ net.unsure = {}
        /\ UNCHANGED view
    BY <1>5 DEF Record!Fails, RecordType, RecordFields, RecordTab
  <2>2. /\ \A u \in Tabs, d \in Record!CallIds :
                u # t \/ d # c => net'.calls[u][d] = net.calls[u][d]
        /\ net'.calls[t][c].kind \in {"none", "summary"}
        /\ net'.calls[t][c].sid \in {None, net.calls[t][c].sid}
    <3>1. \/ net'.calls = Put(t, c, Record!NoCall)
          \/ net'.calls = Put(t, c, Sent(t, "summary", net.calls[t][c].sid))
      BY <1>5 DEF Record!Fails, Record!Call, Put, Sent, RecordType, RecordFields
    <3>2. net.calls[t][c].sid \in Record!Sids \union {None}
      BY CallType DEF RecordCall
    <3>3. Sent(t, "summary", net.calls[t][c].sid) \in RecordCall
      BY <3>2, SentType
    <3> QED BY <3>1, <3>3, PutType, NoCallType DEF RecordType, Record!NoCall, Sent
  <2>3. RecordTabs /\ RecordTag /\ RecordCallsOK
    BY <2>1
  <2>4. RecordTabs'
    BY <2>1, <2>3 DEF RecordTabs, Known
  <2>5. RecordTag'
    BY <1>c, <2>1, <2>3 DEF RecordTag, Known
  <2>6. ASSUME NEW u \in Tabs, NEW d \in Record!CallIds
        PROVE  Known(net.calls[u][d].sid)'
    BY <2>1, <2>2, <2>3 DEF Known, RecordCallsOK
  <2>7. ASSUME NEW u \in Tabs, NEW d \in Record!CallIds
        PROVE  RecordStart(u, d)'
    <3>1. CASE u = t /\ d = c
      BY <1>c, <2>1, <2>2, <2>3, <3>1
      DEF Known, RecordCallsOK, RecordStart, RecordTabs, RecordTag
    <3>2. CASE ~(u = t /\ d = c)
      <4>1. net.calls[u][d].kind = "start"
                => net.calls[t][c].sid # net.calls[u][d].sid
        BY <2>3, <3>2 DEF RecordCallsOK, RecordStart
      <4>2. net'.calls[u][d] = net.calls[u][d]
        BY <2>2, <3>2
      <4>3. net.calls[u][d].kind = "start" =>
                \A v \in Tabs, e \in Record!CallIds :
                    v # u \/ e # d =>
                        net'.calls[v][e].sid # net.calls[u][d].sid
        BY <2>1, <2>2, <2>3, <3>2, <4>1
        DEF RecordCallsOK, RecordStart, Known, RecordTabs
      <4> QED
        BY <2>1, <2>2, <2>3, <4>1, <4>2, <4>3, SMTT(30)
        DEF Known, RecordCallsOK, RecordStart, RecordTabs, RecordTag
    <3> QED BY <3>1, <3>2
  <2>8. ASSUME NEW u \in Tabs, NEW d \in Record!CallIds
        PROVE  RecordStop(u, d)'
    BY <2>1, <2>2, <2>3
    DEF Known, RecordCallsOK, RecordStop, RecordStart, RecordTabs
  <2> QED BY <2>4, <2>5, <2>6, <2>7, <2>8 DEF RecordCallsOK
<1>6. ASSUME NEW t \in Tabs, NEW c \in Record!CallIds, Record!Started(t, c)
      PROVE  (RecordTabs /\ RecordTag /\ RecordCallsOK)'
  <2>1. /\ net.calls[t][c].kind = "start" /\ net.calls[t][c].at = "ok"
        /\ UNCHANGED <<net.tag, net.redis, net.ended, net.used, net.last, net.unsure>>
        /\ net.unsure = {}
        /\ \A u \in Tabs :
                IF u = t THEN /\ view'[u].recording
                              /\ view'[u].sid = net.calls[t][c].sid
                              /\ net'.under[u] = net.calls[t][c].sid
                ELSE UNCHANGED <<view[u], net.under[u]>>
    BY <1>6 DEF Record!Started, RecordType, RecordFields, RecordTab
  <2>2. /\ \A u \in Tabs, d \in Record!CallIds :
                u # t \/ d # c => net'.calls[u][d] = net.calls[u][d]
        /\ net'.calls[t][c].kind = "none"
        /\ net'.calls[t][c].sid = None
    <3>2. net'.calls = Put(t, c, Record!NoCall)
      BY <1>6 DEF Record!Started, Put, RecordType, RecordFields
    <3> QED BY <3>2, PutType, NoCallType DEF RecordType, Record!NoCall
  <2>3. RecordTabs /\ RecordTag /\ RecordCallsOK
    BY <2>1
  <2>4. RecordTabs'
    BY <2>1, <2>3 DEF RecordTabs, Known, RecordCallsOK, RecordStart
  <2>5. RecordTag'
    BY <1>c, <2>1, <2>3 DEF RecordTag, Known, RecordCallsOK, RecordStart
  <2>6. ASSUME NEW u \in Tabs, NEW d \in Record!CallIds
        PROVE  Known(net.calls[u][d].sid)'
    BY <2>1, <2>2, <2>3 DEF Known, RecordCallsOK
  <2>7. ASSUME NEW u \in Tabs, NEW d \in Record!CallIds
        PROVE  RecordStart(u, d)'
    <3>1. CASE u = t /\ d = c
      BY <1>c, <2>1, <2>2, <2>3, <3>1
      DEF Known, RecordCallsOK, RecordStart, RecordTabs, RecordTag
    <3>2. CASE ~(u = t /\ d = c)
      <4>1. net.calls[u][d].kind = "start"
                => net.calls[t][c].sid # net.calls[u][d].sid
        BY <2>3, <3>2 DEF RecordCallsOK, RecordStart
      <4>2. net'.calls[u][d] = net.calls[u][d]
        BY <2>2, <3>2
      <4>3. net.calls[u][d].kind = "start" =>
                \A v \in Tabs, e \in Record!CallIds :
                    v # u \/ e # d =>
                        net'.calls[v][e].sid # net.calls[u][d].sid
        BY <2>1, <2>2, <2>3, <3>2, <4>1
        DEF RecordCallsOK, RecordStart, Known, RecordTabs
      <4> QED
        BY <2>1, <2>2, <2>3, <4>1, <4>2, <4>3
        DEF Known, RecordCallsOK, RecordStart, RecordTabs, RecordTag
    <3> QED BY <3>1, <3>2
  <2>8. ASSUME NEW u \in Tabs, NEW d \in Record!CallIds
        PROVE  RecordStop(u, d)'
    BY <2>1, <2>2, <2>3
    DEF Known, RecordCallsOK, RecordStop, RecordStart, RecordTabs
  <2> QED BY <2>4, <2>5, <2>6, <2>7, <2>8 DEF RecordCallsOK
<1>7. ASSUME NEW t \in Tabs, NEW c \in Record!CallIds, Record!Stopped(t, c)
      PROVE  (RecordTabs /\ RecordTag /\ RecordCallsOK)'
  <2>1. /\ net.calls[t][c].kind = "stop" /\ net.calls[t][c].at = "ok"
        /\ UNCHANGED <<net.tag, net.redis, net.under, net.used, net.last, net.unsure>>
        /\ net.unsure = {}
        /\ UNCHANGED view
        /\ net'.ended = net.ended \union ({net.calls[t][c].of} \ {None})
    BY <1>7 DEF Record!Stopped, RecordType, RecordFields, RecordTab
  <2>2. /\ \A u \in Tabs, d \in Record!CallIds :
                u # t \/ d # c => net'.calls[u][d] = net.calls[u][d]
        /\ net.calls[t][c].of = net.calls[t][c].sid
        /\ net'.calls[t][c].kind = "summary"
        /\ net'.calls[t][c].sid = net.calls[t][c].sid
    <3>2. net'.calls = Put(t, c, Sent(t, "summary", net.calls[t][c].sid))
      BY <1>7 DEF Record!Stopped, Record!Call, Put, Sent, RecordType,
                  RecordFields
    <3>3. net.calls[t][c].sid \in Record!Sids \union {None}
      BY CallType DEF RecordCall
    <3>4. Sent(t, "summary", net.calls[t][c].sid) \in RecordCall
      BY <3>3, SentType
    <3>5. net.calls[t][c].of = net.calls[t][c].sid
      BY <2>1 DEF RecordCallsOK, RecordStop
    <3> QED BY <3>2, <3>4, <3>5, PutType DEF RecordType, Sent
  <2>3. RecordTabs /\ RecordTag /\ RecordCallsOK
    BY <2>1
  <2>4. RecordTabs'
    BY <2>1, <2>3 DEF RecordTabs, Known, RecordCallsOK, RecordStop
  <2>5. RecordTag'
    BY <1>c, <2>1, <2>3 DEF RecordTag, Known, RecordCallsOK, RecordStop
  <2>6. ASSUME NEW u \in Tabs, NEW d \in Record!CallIds
        PROVE  Known(net.calls[u][d].sid)'
    BY <2>1, <2>2, <2>3 DEF Known, RecordCallsOK, RecordStop
  <2>7. ASSUME NEW u \in Tabs, NEW d \in Record!CallIds
        PROVE  RecordStart(u, d)'
    <3>1. CASE u = t /\ d = c
      BY <1>c, <2>1, <2>2, <2>3, <3>1
      DEF Known, RecordCallsOK, RecordStart, RecordTabs, RecordTag, RecordStop
    <3>2. CASE ~(u = t /\ d = c)
      <4>1. net.calls[u][d].kind = "start"
                => net.calls[t][c].sid # net.calls[u][d].sid
        BY <2>3, <3>2 DEF RecordCallsOK, RecordStart
      <4>2. net'.calls[u][d] = net.calls[u][d]
        BY <2>2, <3>2
      <4>3. net.calls[u][d].kind = "start" =>
                \A v \in Tabs, e \in Record!CallIds :
                    v # u \/ e # d =>
                        net'.calls[v][e].sid # net.calls[u][d].sid
        BY <2>1, <2>2, <2>3, <3>2, <4>1
        DEF RecordCallsOK, RecordStart, Known, RecordTabs
      <4> QED
        BY <2>1, <2>2, <2>3, <4>1, <4>2, <4>3, SMTT(30)
        DEF Known, RecordCallsOK, RecordStart, RecordTabs, RecordTag, RecordStop
    <3> QED BY <3>1, <3>2
  <2>8. ASSUME NEW u \in Tabs, NEW d \in Record!CallIds
        PROVE  RecordStop(u, d)'
    BY <2>1, <2>2, <2>3, SMTT(30)
    DEF Known, RecordCallsOK, RecordStop, RecordStart, RecordTabs, RecordStop
  <2> QED BY <2>4, <2>5, <2>6, <2>7, <2>8 DEF RecordCallsOK
<1>8. ASSUME NEW t \in Tabs, NEW c \in Record!CallIds, Record!Summarised(t, c)
      PROVE  (RecordTabs /\ RecordTag /\ RecordCallsOK)'
  <2>1. /\ UNCHANGED <<net.tag, net.redis, net.under, net.last, net.ended, net.used, net.unsure>>
        /\ net.unsure = {}
        /\ \A u \in Tabs : /\ view'[u].recording = view[u].recording
                           /\ view'[u].sid = view[u].sid
    BY <1>8 DEF Record!Summarised, RecordType, RecordFields, RecordTab
  <2>2. /\ \A u \in Tabs, d \in Record!CallIds :
                u # t \/ d # c => net'.calls[u][d] = net.calls[u][d]
        /\ net'.calls[t][c].kind = "none"
        /\ net'.calls[t][c].sid = None
    <3>2. net'.calls = Put(t, c, Record!NoCall)
      BY <1>8 DEF Record!Summarised, Put, RecordType, RecordFields
    <3> QED BY <3>2, PutType, NoCallType DEF RecordType, Record!NoCall
  <2>3. RecordTabs /\ RecordTag /\ RecordCallsOK
    BY <2>1
  <2>4. RecordTabs'
    BY <2>1, <2>3 DEF RecordTabs, Known
  <2>5. RecordTag'
    BY <1>c, <2>1, <2>3 DEF RecordTag, Known
  <2>6. ASSUME NEW u \in Tabs, NEW d \in Record!CallIds
        PROVE  Known(net.calls[u][d].sid)'
    BY <2>1, <2>2, <2>3 DEF Known, RecordCallsOK
  <2>7. ASSUME NEW u \in Tabs, NEW d \in Record!CallIds
        PROVE  RecordStart(u, d)'
    <3>1. CASE u = t /\ d = c
      BY <1>c, <2>1, <2>2, <2>3, <3>1
      DEF Known, RecordCallsOK, RecordStart, RecordTabs, RecordTag
    <3>2. CASE ~(u = t /\ d = c)
      <4>1. net.calls[u][d].kind = "start"
                => net.calls[t][c].sid # net.calls[u][d].sid
        BY <2>3, <3>2 DEF RecordCallsOK, RecordStart
      <4>2. net'.calls[u][d] = net.calls[u][d]
        BY <2>2, <3>2
      <4>3. net.calls[u][d].kind = "start" =>
                \A v \in Tabs, e \in Record!CallIds :
                    v # u \/ e # d =>
                        net'.calls[v][e].sid # net.calls[u][d].sid
        BY <2>1, <2>2, <2>3, <3>2, <4>1
        DEF RecordCallsOK, RecordStart, Known, RecordTabs
      <4> QED
        BY <2>1, <2>2, <2>3, <4>1, <4>2, <4>3
        DEF Known, RecordCallsOK, RecordStart, RecordTabs, RecordTag
    <3> QED BY <3>1, <3>2
  <2>8. ASSUME NEW u \in Tabs, NEW d \in Record!CallIds
        PROVE  RecordStop(u, d)'
    BY <2>1, <2>2, <2>3
    DEF Known, RecordCallsOK, RecordStop, RecordStart, RecordTabs
  <2> QED BY <2>4, <2>5, <2>6, <2>7, <2>8 DEF RecordCallsOK
<1>9. ASSUME NEW t \in Tabs, Record!OpenConfig(t) \/ Record!CloseConfig(t)
                               \/ Record!CloseSummary(t)
      PROVE  (RecordTabs /\ RecordTag /\ RecordCallsOK)'
  <2>1. /\ UNCHANGED net
        /\ \A u \in Tabs : /\ view'[u].recording = view[u].recording
                           /\ view'[u].sid = view[u].sid
    BY <1>9 DEF Record!OpenConfig, Record!CloseConfig, Record!CloseSummary,
                RecordType, RecordTab
  <2>2. RecordTabs /\ RecordTag /\ RecordCallsOK
    BY <2>1
  <2>3. RecordTabs' /\ RecordTag'
    BY <2>1, <2>2 DEF RecordTabs, RecordTag, Known
  <2>4. RecordCallsOK'
    BY <2>1, <2>2 DEF RecordCallsOK, RecordStart, RecordStop, Known
  <2> QED BY <2>3, <2>4
<1>10. ASSUME NEW t \in Tabs, NEW c \in Record!CallIds, Record!Snapshot(t, c)
       PROVE  FALSE
  BY <1>10 DEF Record!Snapshot, RecordType, RecordFields
<1>11. ASSUME Record!TagExpires
       PROVE  (RecordTabs /\ RecordTag /\ RecordCallsOK)'
  <2>1. /\ net'.tag = None /\ Tabs = {} /\ net.unsure = {}
        /\ UNCHANGED <<net.redis, net.under, net.last, net.ended, net.used>>
    BY <1>11 DEF Record!TagExpires, RecordType, RecordFields
  <2>2. RecordTabs' /\ RecordCallsOK'
    BY <2>1 DEF RecordTabs, RecordCallsOK
  <2>3. RecordTag'
    BY <1>c, <2>1 DEF RecordTag, Known
  <2> QED BY <2>2, <2>3
<1> QED
  BY <1>1, <1>2, <1>3, <1>4, <1>5, <1>6, <1>7, <1>8, <1>9, <1>10, <1>11
  DEF Record!Next

LEMMA RecordStarts ==
    ASSUME RecordConstants, Record!Init
    PROVE  RecordInv
<1>1. PICK redis \in BOOLEAN :
        /\ view = [t \in Tabs |-> [recording |-> FALSE, sid |-> None,
                                   modal |-> FALSE, summary |-> FALSE]]
        /\ net = [tag |-> None, redis |-> redis, used |-> 0,
                  calls |-> [t \in Tabs |->
                                [c \in Record!CallIds |-> Record!NoCall]],
                  under |-> [t \in Tabs |-> None],
                  turns |-> 0, last |-> None, ended |-> {}, unsure |-> {}]
  BY DEF Record!Init
<1>2. RecordType
  BY <1>1, NoCallType DEF RecordType, RecordFields, RecordCalls, RecordTab,
              RecordConstants
<1>3. \A t \in Tabs, c \in Record!CallIds :
        net.calls[t][c].kind = "none" /\ net.calls[t][c].sid = None
  BY <1>1 DEF Record!NoCall
<1>4. RecordTabs /\ RecordTag
  BY <1>1 DEF RecordTabs, RecordTag, Known
<1>5. RecordCallsOK
  BY <1>3 DEF RecordCallsOK, RecordStart, RecordStop, Known
<1> QED BY <1>2, <1>4, <1>5 DEF RecordInv

LEMMA RecordStutters ==
    ASSUME RecordInv, UNCHANGED <<view, net>> PROVE RecordInv'
BY DEF RecordInv, RecordType, RecordTabs, RecordTag, RecordCallsOK,
       RecordStart, RecordStop, Known

LEMMA RecordTagged ==
    ASSUME RecordInv
    PROVE  Record!RecordingIsTagged /\ Record!StopRemovesItsTag
BY DEF Record!RecordingIsTagged, Record!StopRemovesItsTag, RecordInv,
       RecordTabs, RecordTag

-----------------------------------------------------------------------------
(* Playground: a running stream writes into the answer at the end of its   *)
(* panel, and every answer stands below the prompt it was asked with.      *)

CONSTANTS Keys, MaxSends, Clicks

Play == INSTANCE Playground WITH MaxTurns <- Clicks

PlayConstants == MaxSends \in Nat /\ Clicks \in Nat

PlayStream == [at : {"idle", "sent", "text", "done", "ending", "over"},
               turn : Play!Turns, key : Keys \union {None}]

PlayType ==
    /\ PlayConstants
    /\ DOMAIN view = {"keys", "key", "linked", "side", "typing", "msgs",
                      "history"}
    /\ DOMAIN net = {"stream", "fork", "sends", "turns", "replaced"}
    /\ view.keys \in BOOLEAN /\ view.linked \in BOOLEAN
    /\ view.side \in BOOLEAN /\ view.typing \in BOOLEAN
    /\ view.key \in [Play!Panels -> Keys \union {None}]
    /\ view.msgs \in [Play!Panels -> Seq(Play!Bubble)]
    /\ view.history \in [Play!Panels -> Nat]
    /\ net.stream \in [Play!Panels -> PlayStream]
    /\ net.fork \in BOOLEAN /\ net.replaced \in BOOLEAN
    /\ net.sends \in 0 .. MaxSends /\ net.turns \in 0 .. Clicks

LastOf(m) == m[Len(m)]

\* Answers below their prompts, no figures on a prompt.
PlayTurns(m) ==
    \A i \in 1 .. Len(m) :
        /\ m[i].role = "assistant" => /\ i > 1 /\ m[i - 1].role = "user"
                                     /\ m[i - 1].turn = m[i].turn
        /\ m[i].role = "user" => ~m[i].stats

\* A running stream writes into the answer at the end of its panel.
PlayPanel(p) ==
    LET m == view.msgs[p]
        at == net.stream[p].at
    IN  /\ at # "idle" => view.typing
        /\ \A i \in 1 .. Len(m) :
                m[i].streaming => i = Len(m) /\ at \in {"sent", "text"}
        /\ ~net.replaced => PlayTurns(m)
        /\ ~net.replaced /\ at \notin {"idle", "over"} /\ m # <<>> =>
                /\ LastOf(m).role = "assistant"
                /\ LastOf(m).turn = net.stream[p].turn

PlayInv == PlayType /\ \A p \in Play!Panels : PlayPanel(p)

LEMMA Joined ==
    ASSUME NEW S, NEW m \in Seq(S), NEW t \in Seq(S)
    PROVE  /\ m \o t \in Seq(S)
           /\ Len(m \o t) = Len(m) + Len(t)
           /\ \A i \in 1 .. Len(m) : (m \o t)[i] = m[i]
           /\ \A i \in 1 .. Len(t) : (m \o t)[Len(m) + i] = t[i]
OBVIOUS

LEMMA LastReplaced ==
    ASSUME NEW S, NEW m \in Seq(S), m # <<>>, NEW b \in S
    PROVE  LET n == [m EXCEPT ![Len(m)] = b] IN
           /\ Len(m) \in 1 .. Len(m)
           /\ n \in Seq(S) /\ Len(n) = Len(m) /\ n[Len(n)] = b
           /\ \A i \in 1 .. Len(m) : n[i] = IF i = Len(m) THEN b ELSE m[i]
OBVIOUS

\* One step of the stream of panel p, with what it makes of the last bubble.
LEMMA PlayStreamStep ==
    ASSUME PlayInv, PlayType', NEW p \in Play!Panels,
           net.stream[p].at \notin {"idle", "over"},
           UNCHANGED <<view.typing, net.replaced>>,
           net'.stream[p].at # "idle",
           net'.stream[p].turn = net.stream[p].turn,
           \A q \in Play!Panels \ {p} :
                UNCHANGED <<view.msgs[q], net.stream[q]>>,
           view.msgs[p] = <<>> => view'.msgs[p] = <<>>,
           view.msgs[p] # <<>> => \E b \in Play!Bubble :
                /\ view'.msgs[p] = [view.msgs[p] EXCEPT ![Len(view.msgs[p])] = b]
                /\ b.role = LastOf(view.msgs[p]).role
                /\ b.turn \in {LastOf(view.msgs[p]).turn, net.stream[p].turn}
                /\ b.streaming => LastOf(view.msgs[p]).streaming
                                  /\ net'.stream[p].at \in {"sent", "text"}
    PROVE  PlayInv'
<1> DEFINE at == net'.stream[p].at
<1>1. ASSUME NEW q \in Play!Panels, q # p
      PROVE  view'.msgs[q] = view.msgs[q] /\ net'.stream[q] = net.stream[q]
  BY <1>1
<1>2. /\ view.typing
      /\ view.msgs[p] \in Seq(Play!Bubble)
  BY DEF PlayInv, PlayType, PlayStream, PlayPanel
<1>3. CASE view.msgs[p] = <<>>
  <2>1. view'.msgs[p] = <<>>
    BY <1>3
  <2>2. PlayPanel(p)'
    BY <1>2, <2>1 DEF PlayPanel, PlayTurns
  <2> QED BY <1>1, <2>2 DEF PlayInv, PlayPanel
<1>4. CASE view.msgs[p] # <<>>
  <2> DEFINE m == view.msgs[p]
             n == view'.msgs[p]
  <2>b. PICK b \in Play!Bubble :
            /\ n = [m EXCEPT ![Len(m)] = b] /\ b.role = LastOf(m).role
            /\ b.turn \in {LastOf(m).turn, net.stream[p].turn}
            /\ b.streaming => LastOf(m).streaming /\ at \in {"sent", "text"}
    BY <1>4
  <2>1. /\ Len(m) \in 1 .. Len(m)
        /\ n \in Seq(Play!Bubble) /\ Len(n) = Len(m) /\ n[Len(n)] = b
        /\ \A i \in 1 .. Len(m) : n[i] = IF i = Len(m) THEN b ELSE m[i]
    BY <2>b, <1>2, <1>4, LastReplaced
  <2>2. \A i \in 1 .. Len(m) :
            m[i].streaming => i = Len(m)
    BY DEF PlayInv, PlayPanel
  <2>3. \A i \in 1 .. Len(n) :
            n[i].streaming => i = Len(n) /\ at \in {"sent", "text"}
    BY <2>b, <2>1, <2>2 DEF LastOf
  <2>4. ASSUME ~net.replaced
        PROVE  /\ PlayTurns(n)
               /\ LastOf(n).role = "assistant"
               /\ LastOf(n).turn = net.stream[p].turn
    <3>1. /\ PlayTurns(m) /\ LastOf(m).role = "assistant"
          /\ LastOf(m).turn = net.stream[p].turn
      BY <1>4, <2>4 DEF PlayInv, PlayPanel
    <3>2. b.role = "assistant" /\ b.turn = LastOf(m).turn
      BY <2>b, <3>1
    <3>3. \A i \in 1 .. Len(m) :
            /\ n[i].role = m[i].role /\ n[i].turn = m[i].turn
            /\ n[i].role = "user" => n[i] = m[i]
      BY <2>1, <3>1, <3>2 DEF LastOf
    <3>4. Len(m) \in Nat /\ Len(n) = Len(m)
      BY <1>2, <2>1
    <3>5. PlayTurns(n)
      <4> HIDE DEF m, n
      <4> QED BY <3>1, <3>3, <3>4 DEF PlayTurns
    <3> QED BY <2>1, <3>1, <3>2, <3>5 DEF LastOf
  <2>5. PlayPanel(p)'
    BY <1>2, <2>3, <2>4 DEF PlayPanel
  <2> QED BY <1>1, <2>5 DEF PlayInv, PlayPanel
<1> QED BY <1>3, <1>4

\* What HandleSend adds to a panel.
Added(q) ==
    (IF q \in Play!PanelsShown THEN <<Play!Said("user", net.sends + 1)>>
     ELSE <<>>)
    \o (IF Play!Asked(q) THEN <<Play!Said("assistant", net.sends + 1)>>
        ELSE <<>>)

LEMMA AddedIs ==
    ASSUME PlayConstants, net.sends \in 0 .. MaxSends, net.sends < MaxSends,
           NEW q \in Play!Panels
    PROVE  LET u == Play!Said("user", net.sends + 1)
               a == Play!Said("assistant", net.sends + 1)
           IN  /\ Added(q) \in Seq(Play!Bubble)
               /\ Play!Asked(q) => Len(Added(q)) = 2 /\ Added(q)[1] = u
                                   /\ Added(q)[2] = a
               /\ ~Play!Asked(q) => \/ Len(Added(q)) = 0
                                    \/ Len(Added(q)) = 1 /\ Added(q)[1] = u
               /\ u \in Play!Bubble /\ a \in Play!Bubble
<1> DEFINE u == Play!Said("user", net.sends + 1)
           a == Play!Said("assistant", net.sends + 1)
<1>1. u \in Play!Bubble /\ a \in Play!Bubble
  BY DEF Play!Said, Play!Bubble, Play!Turns, PlayConstants
<1>2. Play!Asked(q) => q \in Play!PanelsShown
  BY DEF Play!Asked
<1> HIDE DEF u, a
<1>3. CASE Play!Asked(q)
  <2>1. Added(q) = <<u>> \o <<a>>
    BY <1>2, <1>3 DEF Added, u, a
  <2> QED BY <1>1, <1>3, <2>1 DEF u, a
<1>4. CASE ~Play!Asked(q) /\ q \in Play!PanelsShown
  <2>1. Added(q) = <<u>> \o <<>>
    BY <1>4 DEF Added, u
  <2> QED BY <1>1, <1>4, <2>1 DEF u, a
<1>5. CASE ~Play!Asked(q) /\ q \notin Play!PanelsShown
  <2>1. Added(q) = <<>> \o <<>>
    BY <1>5 DEF Added
  <2> QED BY <1>1, <1>5, <2>1 DEF u, a
<1> QED BY <1>3, <1>4, <1>5

LEMMA PlaySend ==
    ASSUME PlayInv, Play!HandleSend
    PROVE  PlayInv'
<1> DEFINE u == Play!Said("user", net.sends + 1)
           a == Play!Said("assistant", net.sends + 1)
<1>1. /\ ~view.typing /\ view'.typing
      /\ net.sends \in 0 .. MaxSends /\ net.sends < MaxSends
      /\ PlayConstants
      /\ net'.sends = net.sends + 1
      /\ UNCHANGED <<view.keys, view.key, view.linked, view.side,
                     view.history, net.fork, net.turns, net.replaced>>
      /\ DOMAIN view' = DOMAIN view /\ DOMAIN net' = DOMAIN net
  BY DEF Play!HandleSend, Play!SendOffered, PlayInv, PlayType
<1>2. \A q \in Play!Panels :
        /\ view'.msgs[q] = view.msgs[q] \o Added(q)
        /\ net'.stream[q] = IF Play!Asked(q)
                            THEN [at |-> "sent", turn |-> net.sends + 1,
                                  key |-> view.key[q]]
                            ELSE net.stream[q]
  BY DEF Play!HandleSend, PlayInv, PlayType, Added
<1>3. /\ view'.msgs = [q \in Play!Panels |-> view'.msgs[q]]
      /\ net'.stream = [q \in Play!Panels |-> net'.stream[q]]
  BY DEF Play!HandleSend, PlayInv, PlayType
<1>4. ASSUME NEW q \in Play!Panels
      PROVE  /\ view'.msgs[q] \in Seq(Play!Bubble)
             /\ net'.stream[q] \in PlayStream
             /\ PlayPanel(q)'
  <2> DEFINE m == view.msgs[q]
             t == Added(q)
             n == view'.msgs[q]
  <2>1. /\ t \in Seq(Play!Bubble) /\ m \in Seq(Play!Bubble) /\ n = m \o t
        /\ Play!Asked(q) => Len(t) = 2 /\ t[1] = u /\ t[2] = a
        /\ ~Play!Asked(q) => Len(t) = 0 \/ (Len(t) = 1 /\ t[1] = u)
    BY <1>1, <1>2, AddedIs DEF PlayInv, PlayType
  <2>2. /\ n \in Seq(Play!Bubble)
        /\ Len(n) = Len(m) + Len(t)
        /\ \A i \in 1 .. Len(m) : n[i] = m[i]
        /\ \A i \in 1 .. Len(t) : n[Len(m) + i] = t[i]
    <3> HIDE DEF m, t
    <3> QED BY <2>1, Joined
  <2>3. /\ u.role = "user" /\ ~u.stats /\ ~u.streaming
        /\ u.turn = net.sends + 1
        /\ a.role = "assistant" /\ a.turn = net.sends + 1
    BY DEF Play!Said
  <2>4. net'.stream[q] \in PlayStream
    <3>1. /\ view.key[q] \in Keys \union {None}
          /\ net.stream[q] \in PlayStream
      BY DEF PlayInv, PlayType
    <3>2. [at |-> "sent", turn |-> net.sends + 1, key |-> view.key[q]]
            \in PlayStream
      BY <1>1, <3>1 DEF PlayStream, Play!Turns, PlayConstants
    <3> QED BY <1>2, <3>1, <3>2
  <2>5. \A i \in 1 .. Len(m) : ~m[i].streaming
    BY <1>1 DEF PlayInv, PlayPanel
  <2>6. net.stream[q].at = "idle"
    BY <1>1 DEF PlayInv, PlayPanel
  <2>7. ~net.replaced => PlayTurns(m)
    BY DEF PlayInv, PlayPanel
  <2>8. CASE Play!Asked(q)
    <3>1. /\ Len(n) = Len(m) + 2 /\ n[Len(m) + 1] = u /\ n[Len(m) + 2] = a
      <4> HIDE DEF m, n, t, u, a
      <4>1. Len(t) = 2
        BY <2>1, <2>8
      <4>2. t[1] = u /\ t[2] = a
        BY <2>1, <2>8
      <4>3. 1 \in 1 .. Len(t) /\ 2 \in 1 .. Len(t)
        BY <4>1
      <4> QED BY <2>2, <4>1, <4>2, <4>3
    <3>6. net'.stream[q] = [at |-> "sent", turn |-> net.sends + 1,
                            key |-> view.key[q]]
      BY <1>2, <2>8
    <3>2. net'.stream[q].at = "sent" /\ net'.stream[q].turn = net.sends + 1
      BY <3>6
    <3>3. ~net.replaced => PlayTurns(n)
      <4> HIDE DEF m, n, t, u, a
      <4> QED BY <2>1, <2>2, <2>3, <2>7, <3>1 DEF PlayTurns
    <3>4. \A i \in 1 .. Len(n) : n[i].streaming => i = Len(n)
      <4> HIDE DEF m, n, t, u, a
      <4> QED BY <2>1, <2>2, <2>3, <2>5, <3>1
    <3>5. LastOf(n).role = "assistant" /\ LastOf(n).turn = net.sends + 1
      BY <2>1, <2>3, <3>1 DEF LastOf
    <3> QED BY <1>1, <2>2, <2>4, <3>2, <3>3, <3>4, <3>5 DEF PlayPanel
  <2>9. CASE ~Play!Asked(q)
    <3>1. net'.stream[q].at = "idle"
      BY <1>2, <2>6, <2>9
    <3>2. ~net.replaced => PlayTurns(n)
      <4> HIDE DEF m, n, t, u, a
      <4> QED BY <2>1, <2>2, <2>3, <2>7, <2>9 DEF PlayTurns
    <3>3. \A i \in 1 .. Len(n) : ~n[i].streaming
      <4> HIDE DEF m, n, t, u, a
      <4> QED BY <2>1, <2>2, <2>3, <2>5, <2>9
    <3> QED BY <1>1, <2>2, <2>4, <3>1, <3>2, <3>3 DEF PlayPanel
  <2> QED BY <2>8, <2>9
<1>5. PlayType'
  BY <1>1, <1>3, <1>4 DEF PlayInv, PlayType, PlayConstants
<1> QED BY <1>4, <1>5 DEF PlayInv

\* Steps that leave the panels and their streams alone.
LEMMA PlayApart ==
    ASSUME PlayInv, PlayType',
           UNCHANGED <<view.msgs, view.typing, net.stream, net.replaced>>
    PROVE  PlayInv'
BY DEF PlayInv, PlayPanel, PlayTurns, LastOf

LEMMA PlayStreamType ==
    ASSUME PlayInv, NEW p \in Play!Panels
    PROVE  \A at \in {"text", "done", "ending", "over"} :
                [net.stream EXCEPT ![p] = [net.stream[p] EXCEPT !.at = at]]
                    \in [Play!Panels -> PlayStream]
<1> TAKE at \in {"text", "done", "ending", "over"}
<1>1. net.stream[p] \in PlayStream
  BY DEF PlayInv, PlayType
<1>2. [net.stream[p] EXCEPT !.at = at] \in PlayStream
  BY <1>1 DEF PlayStream
<1> QED BY <1>2 DEF PlayInv, PlayType

LEMMA PlayLastType ==
    ASSUME PlayInv, NEW p \in Play!Panels, view.msgs[p] # <<>>
    PROVE  LastOf(view.msgs[p]) \in Play!Bubble
BY DEF PlayInv, PlayType, LastOf

LEMMA PlayMsgsType ==
    ASSUME PlayInv, NEW p \in Play!Panels, view.msgs[p] # <<>>,
           NEW b \in Play!Bubble
    PROVE  [view.msgs EXCEPT ![p] =
                [view.msgs[p] EXCEPT ![Len(view.msgs[p])] = b]]
                \in [Play!Panels -> Seq(Play!Bubble)]
<1>1. [view.msgs[p] EXCEPT ![Len(view.msgs[p])] = b] \in Seq(Play!Bubble)
  BY LastReplaced DEF PlayInv, PlayType
<1> QED BY <1>1 DEF PlayInv, PlayType

\* The last bubble with some of its fields replaced.
LEMMA BubbleTurn ==
    ASSUME NEW b \in Play!Bubble, NEW turn \in Play!Turns
    PROVE  LET c == [b EXCEPT !.turn = turn] IN
           /\ c \in Play!Bubble /\ c.role = b.role /\ c.turn = turn
           /\ c.streaming = b.streaming
<1>1. [b EXCEPT !.turn = turn] \in Play!Bubble
  BY DEF Play!Bubble
<1> QED BY <1>1 DEF Play!Bubble

LEMMA BubbleEnds ==
    ASSUME NEW b \in Play!Bubble
    PROVE  LET c == [b EXCEPT !.streaming = FALSE] IN
           /\ c \in Play!Bubble /\ c.role = b.role /\ c.turn = b.turn
           /\ ~c.streaming
<1>1. [b EXCEPT !.streaming = FALSE] \in Play!Bubble
  BY DEF Play!Bubble
<1> QED BY <1>1 DEF Play!Bubble

LEMMA BubbleStats ==
    ASSUME NEW b \in Play!Bubble
    PROVE  LET c == [b EXCEPT !.streaming = FALSE, !.stats = TRUE] IN
           /\ c \in Play!Bubble /\ c.role = b.role /\ c.turn = b.turn
           /\ ~c.streaming
<1>1. [b EXCEPT !.streaming = FALSE, !.stats = TRUE] \in Play!Bubble
  BY DEF Play!Bubble
<1> QED BY <1>1 DEF Play!Bubble

LEMMA PlayChunk ==
    ASSUME PlayInv, NEW p \in Play!Panels, Play!Chunk(p)
    PROVE  PlayInv'
<1> DEFINE m == view.msgs[p]
           b == [LastOf(m) EXCEPT !.turn = net.stream[p].turn]
<1>1. /\ net.stream[p].at \in {"sent", "text"}
      /\ net'.stream = [net.stream EXCEPT ![p] =
                            [net.stream[p] EXCEPT !.at = "text"]]
      /\ UNCHANGED <<view.keys, view.key, view.linked, view.side, view.typing,
                     view.history, net.fork, net.sends, net.turns, net.replaced>>
      /\ DOMAIN view' = DOMAIN view /\ DOMAIN net' = DOMAIN net
  BY DEF Play!Chunk, Play!Advance, PlayInv, PlayType
<1>2. /\ m = <<>> => view'.msgs = view.msgs
      /\ m # <<>> => view'.msgs = [view.msgs EXCEPT ![p] =
                                      [m EXCEPT ![Len(m)] = b]]
  BY DEF Play!Chunk, Play!OnLast, LastOf, PlayInv, PlayType
<1>3. net.stream[p].turn \in Play!Turns
  BY DEF PlayInv, PlayType, PlayStream
<1>4. m # <<>> =>
        /\ b \in Play!Bubble /\ b.role = LastOf(m).role
        /\ b.turn = net.stream[p].turn
        /\ b.streaming => LastOf(m).streaming /\ "text" = "text"
  BY <1>3, PlayLastType, BubbleTurn
<1>5. PlayType'
  <2>1. net'.stream \in [Play!Panels -> PlayStream]
    <3> DEFINE s(at) == [net.stream EXCEPT ![p] =
                            [net.stream[p] EXCEPT !.at = at]]
    <3>1. \A at \in {"text", "done", "ending", "over"} :
            s(at) \in [Play!Panels -> PlayStream]
      BY PlayStreamType
    <3>2. net'.stream = s("text")
      BY <1>1
    <3> HIDE DEF s
    <3> QED BY <3>1, <3>2
  <2>2. view'.msgs \in [Play!Panels -> Seq(Play!Bubble)]
    <3>1. CASE m = <<>>
      BY <1>2, <3>1 DEF PlayInv, PlayType
    <3>2. CASE m # <<>>
      <4> HIDE DEF b
      <4> QED BY <1>2, <1>4, <3>2, PlayMsgsType
    <3> QED BY <3>1, <3>2
  <2> QED BY <1>1, <2>1, <2>2 DEF PlayInv, PlayType, PlayConstants
<1>6. /\ net'.stream[p].at = "text" /\ net'.stream[p].turn = net.stream[p].turn
      /\ \A q \in Play!Panels \ {p} :
            UNCHANGED <<view.msgs[q], net.stream[q]>>
      /\ m = <<>> => view'.msgs[p] = <<>>
      /\ m # <<>> => view'.msgs[p] = [m EXCEPT ![Len(m)] = b]
  BY <1>1, <1>2 DEF PlayInv, PlayType, PlayStream
<1>7. m # <<>> => \E c \in Play!Bubble :
        /\ view'.msgs[p] = [m EXCEPT ![Len(m)] = c]
        /\ c.role = LastOf(m).role
        /\ c.turn \in {LastOf(m).turn, net.stream[p].turn}
        /\ c.streaming => LastOf(m).streaming
                          /\ net'.stream[p].at \in {"sent", "text"}
  <2> HIDE DEF b
  <2> QED BY <1>4, <1>6
<1> QED BY <1>1, <1>5, <1>6, <1>7, PlayStreamStep

LEMMA PlayDoneSeen ==
    ASSUME PlayInv, NEW p \in Play!Panels, Play!DoneSeen(p)
    PROVE  PlayInv'
<1> DEFINE m == view.msgs[p]
           b == [LastOf(m) EXCEPT !.streaming = FALSE, !.stats = TRUE]
<1>1. /\ net.stream[p].at \in {"text"}
      /\ net'.stream = [net.stream EXCEPT ![p] =
                            [net.stream[p] EXCEPT !.at = "done"]]
      /\ UNCHANGED <<view.keys, view.key, view.linked, view.side, view.typing,
                     net.fork, net.sends, net.turns, net.replaced>>
      /\ DOMAIN view' = DOMAIN view /\ DOMAIN net' = DOMAIN net
      /\ view'.history = [view.history EXCEPT ![p] = @ + 1]
  BY DEF Play!DoneSeen, Play!Advance, Play!Stats, PlayInv, PlayType
<1>2. /\ m = <<>> => view'.msgs = view.msgs
      /\ m # <<>> => view'.msgs = [view.msgs EXCEPT ![p] =
                                      [m EXCEPT ![Len(m)] = b]]
  BY DEF Play!DoneSeen, Play!Stats, Play!OnLast, LastOf, PlayInv, PlayType
<1>3. net.stream[p].turn \in Play!Turns
  BY DEF PlayInv, PlayType, PlayStream
<1>4. m # <<>> =>
        /\ b \in Play!Bubble /\ b.role = LastOf(m).role
        /\ b.turn = LastOf(m).turn
        /\ b.streaming => LastOf(m).streaming /\ "done" = "text"
  BY <1>3, PlayLastType, BubbleStats
<1>5. PlayType'
  <2>1. net'.stream \in [Play!Panels -> PlayStream]
    <3> DEFINE s(at) == [net.stream EXCEPT ![p] =
                            [net.stream[p] EXCEPT !.at = at]]
    <3>1. \A at \in {"text", "done", "ending", "over"} :
            s(at) \in [Play!Panels -> PlayStream]
      BY PlayStreamType
    <3>2. net'.stream = s("done")
      BY <1>1
    <3> HIDE DEF s
    <3> QED BY <3>1, <3>2
  <2>2. view'.msgs \in [Play!Panels -> Seq(Play!Bubble)]
    <3>1. CASE m = <<>>
      BY <1>2, <3>1 DEF PlayInv, PlayType
    <3>2. CASE m # <<>>
      <4> HIDE DEF b
      <4> QED BY <1>2, <1>4, <3>2, PlayMsgsType
    <3> QED BY <3>1, <3>2
  <2> QED BY <1>1, <2>1, <2>2 DEF PlayInv, PlayType, PlayConstants
<1>6. /\ net'.stream[p].at = "done" /\ net'.stream[p].turn = net.stream[p].turn
      /\ \A q \in Play!Panels \ {p} :
            UNCHANGED <<view.msgs[q], net.stream[q]>>
      /\ m = <<>> => view'.msgs[p] = <<>>
      /\ m # <<>> => view'.msgs[p] = [m EXCEPT ![Len(m)] = b]
  BY <1>1, <1>2 DEF PlayInv, PlayType, PlayStream
<1>7. m # <<>> => \E c \in Play!Bubble :
        /\ view'.msgs[p] = [m EXCEPT ![Len(m)] = c]
        /\ c.role = LastOf(m).role
        /\ c.turn \in {LastOf(m).turn, net.stream[p].turn}
        /\ c.streaming => LastOf(m).streaming
                          /\ net'.stream[p].at \in {"sent", "text"}
  <2> HIDE DEF b
  <2> QED BY <1>4, <1>6
<1> QED BY <1>1, <1>5, <1>6, <1>7, PlayStreamStep

LEMMA PlayEndStats ==
    ASSUME PlayInv, NEW p \in Play!Panels, Play!EndStats(p)
    PROVE  PlayInv'
<1> DEFINE m == view.msgs[p]
           b == [LastOf(m) EXCEPT !.streaming = FALSE, !.stats = TRUE]
<1>1. /\ net.stream[p].at \in {"sent", "text", "done"}
      /\ net'.stream = [net.stream EXCEPT ![p] =
                            [net.stream[p] EXCEPT !.at = "ending"]]
      /\ UNCHANGED <<view.keys, view.key, view.linked, view.side, view.typing,
                     net.fork, net.sends, net.turns, net.replaced>>
      /\ DOMAIN view' = DOMAIN view /\ DOMAIN net' = DOMAIN net
      /\ view'.history = [view.history EXCEPT ![p] = @ + 1]
  BY DEF Play!EndStats, Play!Advance, Play!Stats, PlayInv, PlayType
<1>2. /\ m = <<>> => view'.msgs = view.msgs
      /\ m # <<>> => view'.msgs = [view.msgs EXCEPT ![p] =
                                      [m EXCEPT ![Len(m)] = b]]
  BY DEF Play!EndStats, Play!Stats, Play!OnLast, LastOf, PlayInv, PlayType
<1>3. net.stream[p].turn \in Play!Turns
  BY DEF PlayInv, PlayType, PlayStream
<1>4. m # <<>> =>
        /\ b \in Play!Bubble /\ b.role = LastOf(m).role
        /\ b.turn = LastOf(m).turn
        /\ b.streaming => LastOf(m).streaming /\ "ending" = "text"
  BY <1>3, PlayLastType, BubbleStats
<1>5. PlayType'
  <2>1. net'.stream \in [Play!Panels -> PlayStream]
    <3> DEFINE s(at) == [net.stream EXCEPT ![p] =
                            [net.stream[p] EXCEPT !.at = at]]
    <3>1. \A at \in {"text", "done", "ending", "over"} :
            s(at) \in [Play!Panels -> PlayStream]
      BY PlayStreamType
    <3>2. net'.stream = s("ending")
      BY <1>1
    <3> HIDE DEF s
    <3> QED BY <3>1, <3>2
  <2>2. view'.msgs \in [Play!Panels -> Seq(Play!Bubble)]
    <3>1. CASE m = <<>>
      BY <1>2, <3>1 DEF PlayInv, PlayType
    <3>2. CASE m # <<>>
      <4> HIDE DEF b
      <4> QED BY <1>2, <1>4, <3>2, PlayMsgsType
    <3> QED BY <3>1, <3>2
  <2> QED BY <1>1, <2>1, <2>2 DEF PlayInv, PlayType, PlayConstants
<1>6. /\ net'.stream[p].at = "ending" /\ net'.stream[p].turn = net.stream[p].turn
      /\ \A q \in Play!Panels \ {p} :
            UNCHANGED <<view.msgs[q], net.stream[q]>>
      /\ m = <<>> => view'.msgs[p] = <<>>
      /\ m # <<>> => view'.msgs[p] = [m EXCEPT ![Len(m)] = b]
  BY <1>1, <1>2 DEF PlayInv, PlayType, PlayStream
<1>7. m # <<>> => \E c \in Play!Bubble :
        /\ view'.msgs[p] = [m EXCEPT ![Len(m)] = c]
        /\ c.role = LastOf(m).role
        /\ c.turn \in {LastOf(m).turn, net.stream[p].turn}
        /\ c.streaming => LastOf(m).streaming
                          /\ net'.stream[p].at \in {"sent", "text"}
  <2> HIDE DEF b
  <2> QED BY <1>4, <1>6
<1> QED BY <1>1, <1>5, <1>6, <1>7, PlayStreamStep

LEMMA PlayEnded ==
    ASSUME PlayInv, NEW p \in Play!Panels, Play!Ended(p)
    PROVE  PlayInv'
<1> DEFINE m == view.msgs[p]
           b == [LastOf(m) EXCEPT !.streaming = FALSE]
<1>1. /\ net.stream[p].at \in {"ending"}
      /\ net'.stream = [net.stream EXCEPT ![p] =
                            [net.stream[p] EXCEPT !.at = "over"]]
      /\ UNCHANGED <<view.keys, view.key, view.linked, view.side, view.typing,
                     view.history, net.fork, net.sends, net.turns, net.replaced>>
      /\ DOMAIN view' = DOMAIN view /\ DOMAIN net' = DOMAIN net
  BY DEF Play!Ended, Play!Advance, PlayInv, PlayType
<1>2. /\ m = <<>> => view'.msgs = view.msgs
      /\ m # <<>> => view'.msgs = [view.msgs EXCEPT ![p] =
                                      [m EXCEPT ![Len(m)] = b]]
  BY DEF Play!Ended, Play!OnLast, LastOf, PlayInv, PlayType
<1>3. net.stream[p].turn \in Play!Turns
  BY DEF PlayInv, PlayType, PlayStream
<1>4. m # <<>> =>
        /\ b \in Play!Bubble /\ b.role = LastOf(m).role
        /\ b.turn = LastOf(m).turn
        /\ b.streaming => LastOf(m).streaming /\ "over" = "text"
  BY <1>3, PlayLastType, BubbleEnds
<1>5. PlayType'
  <2>1. net'.stream \in [Play!Panels -> PlayStream]
    <3> DEFINE s(at) == [net.stream EXCEPT ![p] =
                            [net.stream[p] EXCEPT !.at = at]]
    <3>1. \A at \in {"text", "done", "ending", "over"} :
            s(at) \in [Play!Panels -> PlayStream]
      BY PlayStreamType
    <3>2. net'.stream = s("over")
      BY <1>1
    <3> HIDE DEF s
    <3> QED BY <3>1, <3>2
  <2>2. view'.msgs \in [Play!Panels -> Seq(Play!Bubble)]
    <3>1. CASE m = <<>>
      BY <1>2, <3>1 DEF PlayInv, PlayType
    <3>2. CASE m # <<>>
      <4> HIDE DEF b
      <4> QED BY <1>2, <1>4, <3>2, PlayMsgsType
    <3> QED BY <3>1, <3>2
  <2> QED BY <1>1, <2>1, <2>2 DEF PlayInv, PlayType, PlayConstants
<1>6. /\ net'.stream[p].at = "over" /\ net'.stream[p].turn = net.stream[p].turn
      /\ \A q \in Play!Panels \ {p} :
            UNCHANGED <<view.msgs[q], net.stream[q]>>
      /\ m = <<>> => view'.msgs[p] = <<>>
      /\ m # <<>> => view'.msgs[p] = [m EXCEPT ![Len(m)] = b]
  BY <1>1, <1>2 DEF PlayInv, PlayType, PlayStream
<1>7. m # <<>> => \E c \in Play!Bubble :
        /\ view'.msgs[p] = [m EXCEPT ![Len(m)] = c]
        /\ c.role = LastOf(m).role
        /\ c.turn \in {LastOf(m).turn, net.stream[p].turn}
        /\ c.streaming => LastOf(m).streaming
                          /\ net'.stream[p].at \in {"sent", "text"}
  <2> HIDE DEF b
  <2> QED BY <1>4, <1>6
<1> QED BY <1>1, <1>5, <1>6, <1>7, PlayStreamStep

LEMMA PlayBroken ==
    ASSUME PlayInv, NEW p \in Play!Panels, Play!Broken(p)
    PROVE  PlayInv'
<1> DEFINE m == view.msgs[p]
           b == [LastOf(m) EXCEPT !.streaming = FALSE]
<1>1. /\ net.stream[p].at \in {"sent", "text", "done"}
      /\ net'.stream = [net.stream EXCEPT ![p] =
                            [net.stream[p] EXCEPT !.at = "over"]]
      /\ UNCHANGED <<view.keys, view.key, view.linked, view.side, view.typing,
                     view.history, net.fork, net.sends, net.replaced>>
      /\ DOMAIN view' = DOMAIN view /\ DOMAIN net' = DOMAIN net
      /\ net'.turns = net.turns + 1 /\ net.turns < Clicks
  BY DEF Play!Broken, Play!Advance, Play!Turn, PlayInv, PlayType
<1>2. /\ m = <<>> => view'.msgs = view.msgs
      /\ m # <<>> => view'.msgs = [view.msgs EXCEPT ![p] =
                                      [m EXCEPT ![Len(m)] = b]]
  BY DEF Play!Broken, Play!Turn, Play!OnLast, LastOf, PlayInv, PlayType
<1>3. net.stream[p].turn \in Play!Turns
  BY DEF PlayInv, PlayType, PlayStream
<1>4. m # <<>> =>
        /\ b \in Play!Bubble /\ b.role = LastOf(m).role
        /\ b.turn = LastOf(m).turn
        /\ b.streaming => LastOf(m).streaming /\ "over" = "text"
  BY <1>3, PlayLastType, BubbleEnds
<1>5. PlayType'
  <2>1. net'.stream \in [Play!Panels -> PlayStream]
    <3> DEFINE s(at) == [net.stream EXCEPT ![p] =
                            [net.stream[p] EXCEPT !.at = at]]
    <3>1. \A at \in {"text", "done", "ending", "over"} :
            s(at) \in [Play!Panels -> PlayStream]
      BY PlayStreamType
    <3>2. net'.stream = s("over")
      BY <1>1
    <3> HIDE DEF s
    <3> QED BY <3>1, <3>2
  <2>2. view'.msgs \in [Play!Panels -> Seq(Play!Bubble)]
    <3>1. CASE m = <<>>
      BY <1>2, <3>1 DEF PlayInv, PlayType
    <3>2. CASE m # <<>>
      <4> HIDE DEF b
      <4> QED BY <1>2, <1>4, <3>2, PlayMsgsType
    <3> QED BY <3>1, <3>2
  <2> QED BY <1>1, <2>1, <2>2 DEF PlayInv, PlayType, PlayConstants
<1>6. /\ net'.stream[p].at = "over" /\ net'.stream[p].turn = net.stream[p].turn
      /\ \A q \in Play!Panels \ {p} :
            UNCHANGED <<view.msgs[q], net.stream[q]>>
      /\ m = <<>> => view'.msgs[p] = <<>>
      /\ m # <<>> => view'.msgs[p] = [m EXCEPT ![Len(m)] = b]
  BY <1>1, <1>2 DEF PlayInv, PlayType, PlayStream
<1>7. m # <<>> => \E c \in Play!Bubble :
        /\ view'.msgs[p] = [m EXCEPT ![Len(m)] = c]
        /\ c.role = LastOf(m).role
        /\ c.turn \in {LastOf(m).turn, net.stream[p].turn}
        /\ c.streaming => LastOf(m).streaming
                          /\ net'.stream[p].at \in {"sent", "text"}
  <2> HIDE DEF b
  <2> QED BY <1>4, <1>6
<1> QED BY <1>1, <1>5, <1>6, <1>7, PlayStreamStep

LEMMA PlayAllEnded ==
    ASSUME PlayInv, Play!AllEnded PROVE PlayInv'
<1>1. /\ \A p \in Play!Panels : net.stream[p].at \in {"idle", "over"}
      /\ net'.stream = [p \in Play!Panels |-> Play!Idle]
      /\ view'.typing = FALSE
      /\ UNCHANGED <<view.keys, view.key, view.linked, view.side, view.msgs,
                     view.history, net.fork, net.sends, net.turns, net.replaced>>
      /\ DOMAIN view' = DOMAIN view /\ DOMAIN net' = DOMAIN net
  BY DEF Play!AllEnded, PlayInv, PlayType
<1>2. Play!Idle \in PlayStream /\ Play!Idle.at = "idle"
  BY DEF Play!Idle, PlayStream, Play!Turns, PlayInv, PlayType, PlayConstants
<1>3. PlayType'
  <2>1. net'.stream \in [Play!Panels -> PlayStream]
    BY <1>1, <1>2
  <2> QED BY <1>1, <2>1 DEF PlayInv, PlayType, PlayConstants
<1>4. \A p \in Play!Panels : \A i \in 1 .. Len(view.msgs[p]) :
            ~view.msgs[p][i].streaming
  BY <1>1 DEF PlayInv, PlayPanel
<1>5. \A p \in Play!Panels : PlayPanel(p)'
  BY <1>1, <1>2, <1>4 DEF PlayInv, PlayPanel, PlayTurns, LastOf
<1> QED BY <1>3, <1>5 DEF PlayInv

LEMMA PlayCleared ==
    ASSUME PlayInv, Play!HandleClear PROVE PlayInv'
<1>1. /\ \A p \in Play!Panels : view'.msgs[p] = <<>>
      /\ view'.msgs = [p \in Play!Panels |-> <<>>]
      /\ view'.history = [p \in Play!Panels |-> 0]
      /\ UNCHANGED <<view.keys, view.key, view.linked, view.side, view.typing,
                     net>>
      /\ DOMAIN view' = DOMAIN view
  BY DEF Play!HandleClear, PlayInv, PlayType
<1>2. PlayType'
  BY <1>1 DEF PlayInv, PlayType, PlayConstants
<1>3. \A p \in Play!Panels : PlayPanel(p)'
  BY <1>1 DEF PlayInv, PlayPanel, PlayTurns
<1> QED BY <1>2, <1>3 DEF PlayInv

LEMMA PlayForked ==
    ASSUME PlayInv, Play!ForkArrives PROVE PlayInv'
<1> DEFINE u == [role |-> "user", turn |-> 0, streaming |-> FALSE,
                 stats |-> FALSE]
<1>1. PICK k \in Keys :
        view' = [view EXCEPT !.key = [p \in Play!Panels |-> k],
                    !.msgs = [p \in Play!Panels |-> <<u>>]]
  BY DEF Play!ForkArrives
<1>2. /\ view'.key \in [Play!Panels -> Keys \union {None}]
      /\ view'.msgs = [p \in Play!Panels |-> <<u>>]
      /\ UNCHANGED <<view.keys, view.linked, view.side, view.typing,
                     view.history>>
      /\ DOMAIN view' = DOMAIN view
  BY <1>1 DEF PlayInv, PlayType
<1>3. /\ net'.replaced = view.typing /\ net'.fork = FALSE
      /\ UNCHANGED <<net.stream, net.sends, net.turns>>
      /\ DOMAIN net' = DOMAIN net
  BY DEF Play!ForkArrives, PlayInv, PlayType
<1>4. u \in Play!Bubble
  BY DEF Play!Bubble, Play!Turns, PlayInv, PlayType, PlayConstants
<1>5. PlayType'
  <2>1. <<u>> \in Seq(Play!Bubble)
    BY <1>4
  <2>2. view'.msgs \in [Play!Panels -> Seq(Play!Bubble)]
    <3> HIDE DEF u
    <3> QED BY <1>2, <2>1
  <2> QED BY <1>2, <1>3, <2>2 DEF PlayInv, PlayType, PlayConstants
<1>6. \A p \in Play!Panels :
        /\ view'.msgs[p] = <<u>> /\ Len(<<u>>) = 1 /\ <<u>>[1] = u
  BY <1>2
<1>7. ASSUME NEW p \in Play!Panels PROVE PlayPanel(p)'
  <2>1. /\ PlayTurns(view'.msgs[p])
        /\ \A i \in 1 .. Len(view'.msgs[p]) : ~view'.msgs[p][i].streaming
    BY <1>6 DEF PlayTurns
  <2>2. ~net'.replaced => net.stream[p].at = "idle"
    BY <1>3 DEF PlayInv, PlayPanel
  <2>3. net.stream[p].at # "idle" => view.typing
    BY DEF PlayInv, PlayPanel
  <2> QED BY <1>2, <1>3, <2>1, <2>2, <2>3 DEF PlayPanel
<1> QED BY <1>5, <1>7 DEF PlayInv

LEMMA PlayKept ==
    ASSUME PlayInv, Play!Next PROVE PlayInv'
<1>1. ASSUME Play!KeysArrive PROVE PlayInv'
  <2>1. PICK k \in Keys :
            view' = [view EXCEPT !.keys = TRUE,
                        !.key = IF net.fork THEN @
                                ELSE [p \in Play!Panels |-> k]]
    BY <1>1 DEF Play!KeysArrive
  <2>2. /\ view'.key \in [Play!Panels -> Keys \union {None}]
        /\ view'.keys = TRUE
        /\ UNCHANGED <<view.msgs, view.linked, view.side, view.typing,
                       view.history>>
        /\ DOMAIN view' = DOMAIN view
    BY <2>1 DEF PlayInv, PlayType
  <2>3. UNCHANGED net
    BY <1>1 DEF Play!KeysArrive
  <2>4. PlayType'
    BY <2>2, <2>3 DEF PlayInv, PlayType, PlayConstants
  <2> QED BY <2>2, <2>3, <2>4, PlayApart
<1>2. ASSUME Play!ForkFails PROVE PlayInv'
  <2>1. /\ net'.fork = FALSE
        /\ UNCHANGED <<net.stream, net.sends, net.turns, net.replaced, view>>
        /\ DOMAIN net' = DOMAIN net
    BY <1>2 DEF Play!ForkFails, PlayInv, PlayType
  <2>2. PlayType'
    BY <2>1 DEF PlayInv, PlayType, PlayConstants
  <2> QED BY <2>1, <2>2, PlayApart
<1>3. ASSUME Play!SelectKey \/ Play!ToggleLinked \/ Play!ToggleSideBySide
      PROVE  PlayInv'
  <2>1. /\ net'.turns = net.turns + 1 /\ net.turns < Clicks
        /\ UNCHANGED <<net.stream, net.sends, net.fork, net.replaced>>
        /\ DOMAIN net' = DOMAIN net
    BY <1>3 DEF Play!SelectKey, Play!ToggleLinked, Play!ToggleSideBySide,
               Play!Turn, Play!Turned, PlayInv, PlayType
  <2>2. CASE Play!SelectKey
    <3>1. PICK p \in Play!PanelsShown : \E k \in Play!KeysOffered :
                view' = [view EXCEPT !.key[Play!SettingsOf(p)] = k]
      BY <2>2 DEF Play!SelectKey
    <3>2. PICK k \in Play!KeysOffered :
                view' = [view EXCEPT !.key[Play!SettingsOf(p)] = k]
      BY <3>1
    <3>3. k \in Keys
      BY DEF Play!KeysOffered
    <3>4. /\ view'.key \in [Play!Panels -> Keys \union {None}]
          /\ UNCHANGED <<view.msgs, view.keys, view.linked, view.side,
                         view.typing, view.history>>
          /\ DOMAIN view' = DOMAIN view
      BY <3>2, <3>3 DEF PlayInv, PlayType
    <3>5. PlayType'
      BY <2>1, <3>4 DEF PlayInv, PlayType, PlayConstants
    <3> QED BY <2>1, <3>4, <3>5, PlayApart
  <2>3. CASE Play!ToggleLinked \/ Play!ToggleSideBySide
    <3>1. /\ view'.linked \in BOOLEAN /\ view'.side \in BOOLEAN
          /\ UNCHANGED <<view.msgs, view.keys, view.key, view.typing,
                         view.history>>
          /\ DOMAIN view' = DOMAIN view
      BY <2>3 DEF Play!ToggleLinked, Play!ToggleSideBySide, PlayInv, PlayType
    <3>2. PlayType'
      BY <2>1, <3>1 DEF PlayInv, PlayType, PlayConstants
    <3> QED BY <2>1, <3>1, <3>2, PlayApart
  <2> QED BY <1>3, <2>2, <2>3
<1> QED
  BY <1>1, <1>2, <1>3, PlayForked, PlayCleared, PlaySend, PlayAllEnded,
     PlayChunk, PlayDoneSeen, PlayEndStats, PlayEnded, PlayBroken
  DEF Play!Next

LEMMA PlayStarts ==
    ASSUME PlayConstants, Play!Init PROVE PlayInv
<1>1. PICK fork \in BOOLEAN :
        /\ view = [keys |-> FALSE, key |-> [p \in Play!Panels |-> None],
                   linked |-> TRUE, side |-> TRUE, typing |-> FALSE,
                   msgs |-> [p \in Play!Panels |-> <<>>],
                   history |-> [p \in Play!Panels |-> 0]]
        /\ net = [stream |-> [p \in Play!Panels |-> Play!Idle], fork |-> fork,
                  sends |-> 0, turns |-> 0, replaced |-> FALSE]
  BY DEF Play!Init
<1>2. Play!Idle \in PlayStream /\ Play!Idle.at = "idle"
  BY DEF Play!Idle, PlayStream, Play!Turns, PlayConstants
<1>3. PlayType
  BY <1>1, <1>2 DEF PlayType, PlayConstants
<1>4. \A p \in Play!Panels : view.msgs[p] = <<>> /\ net.stream[p].at = "idle"
  BY <1>1, <1>2
<1>5. \A p \in Play!Panels : PlayPanel(p)
  BY <1>4 DEF PlayPanel, PlayTurns
<1> QED BY <1>3, <1>5 DEF PlayInv

LEMMA PlayStutters ==
    ASSUME PlayInv, UNCHANGED <<view, net>> PROVE PlayInv'
BY DEF PlayInv, PlayType, PlayConstants, PlayPanel, PlayTurns, LastOf

LEMMA PlayShows ==
    ASSUME PlayInv
    PROVE  Play!TypeOK /\ Play!AnswersStayInTurn /\ Play!LoadingHasAnEnd
<1>1. Play!TypeOK
  BY DEF PlayInv, PlayType, PlayStream, Play!TypeOK
<1>2. \A p \in Play!Panels : DOMAIN view.msgs[p] = 1 .. Len(view.msgs[p])
  BY DEF PlayInv, PlayType
<1>3. Play!AnswersStayInTurn
  BY <1>2 DEF PlayInv, PlayPanel, PlayTurns, Play!AnswersStayInTurn,
              Play!Bubbles
<1>4. Play!LoadingHasAnEnd
  BY <1>2 DEF PlayInv, PlayPanel, Play!LoadingHasAnEnd
<1> QED BY <1>1, <1>3, <1>4

-----------------------------------------------------------------------------
(* ContentEditor: a load that nothing overtakes brings the page that is     *)
(* selected, so what is saved goes back to where it was loaded from.       *)

CONSTANTS Pages, MaxLoads, ContentTurns, MaxFaults

Content == INSTANCE ContentEditor WITH MaxTurns <- ContentTurns

ContentConstants ==
    MaxLoads \in Nat \ {0} /\ ContentTurns \in Nat /\ MaxFaults \in Nat

\* The file of a section, if it has one, was meant for it or moved.
Sections == {s \in [id : Nat, file : Nat \union {None}] :
                s.file \in {None, 0, s.id}}
Contents == [of : Pages \union {None}, sections : Seq(Sections),
             table : BOOLEAN, text : Nat]
Loads == [page : Pages \union {None}, at : {"none", "sent", "ok"},
          content : Contents]
Saves == [page : Pages \union {None},
          at : {"none", "sent", "ok", "failed", "over"}, content : Contents]
Uploads == [index : Nat, id : Nat]

ContentType ==
    /\ ContentConstants
    /\ DOMAIN view = {"page", "form", "loading", "saving", "told"}
    /\ DOMAIN net = {"stored", "loads", "sent", "save", "upload", "turns",
                     "faults", "crossed", "moved"}
    /\ view.page \in Pages /\ view.form \in Contents
    /\ view.loading \in BOOLEAN /\ view.saving \in BOOLEAN
    /\ net.stored \in [Pages -> Contents]
    /\ net.loads \in [Content!LoadIds -> Loads]
    /\ net.sent \in Content!LoadIds
    /\ net.save \in Saves /\ net.upload \in Uploads
    /\ net.turns \in 0 .. ContentTurns /\ net.faults \in 0 .. MaxFaults
    /\ net.crossed \in BOOLEAN /\ net.moved \in BOOLEAN

\* Loading ends with a call that is under way.
ContentLoads ==
    /\ \A i \in Content!LoadIds :
        net.loads[i].at # "none" => net.loads[i].page \in Pages
    /\ view.loading =>
        \E i \in Content!LoadIds : net.loads[i].at # "none"

\* Until the page is told, the server holds what was saved.
ContentSave ==
    /\ net.save.at # "none" => net.save.page \in Pages
    /\ view.saving => net.save.at \in {"sent", "ok", "failed"}
    /\ net.save.at = "sent" => view.told # "success"
    /\ net.save.at = "ok" \/ view.told = "success" =>
        net.stored[net.save.page] = net.save.content

\* One load at a time, each into the page it was asked for.
ContentOrder ==
    ~net.crossed =>
        /\ \A p \in Pages : net.stored[p].of = p
        /\ \A i \in Content!LoadIds : net.loads[i].at # "none" =>
            /\ view.loading /\ net.loads[i].page = view.page
            /\ net.loads[i].at = "ok" => net.loads[i].content.of = view.page
            /\ \A j \in Content!LoadIds : net.loads[j].at # "none" => j = i
        /\ ~view.loading => view.form.of = view.page
        /\ net.save.at = "sent" => net.save.content.of = net.save.page

\* The section a file is uploaded for is where it was.
ContentUpload ==
    net.upload # Content!NoUpload /\ ~net.moved =>
        /\ net.upload.index \in 1 .. Len(view.form.sections)
        /\ view.form.sections[net.upload.index].id = net.upload.id

ContentInv == ContentType /\ ContentLoads /\ ContentSave /\ ContentOrder
                          /\ ContentUpload

LEMMA EmptyType ==
    /\ Content!Empty \in Contents /\ Content!NoLoad \in Loads
    /\ Content!NoLoad.at = "none"
    /\ Content!NoSave \in Saves /\ Content!NoSave.at = "none"
    /\ Content!NoUpload \in Uploads
<1>1. Content!Empty \in Contents
  BY DEF Content!Empty, Contents
<1> QED BY <1>1 DEF Content!NoLoad, Loads, Content!NoSave, Saves,
                    Content!NoUpload, Uploads

LEMMA ContentSelect ==
    ASSUME ContentInv, NEW p \in Pages, Content!Select(p) PROVE ContentInv'
<1> DEFINE load == [Content!NoLoad EXCEPT !.page = p, !.at = "sent"]
<1>1. /\ view'.page = p /\ view'.loading = TRUE
      /\ UNCHANGED <<view.form, view.saving, view.told>>
      /\ DOMAIN view' = DOMAIN view
  BY DEF Content!Select, ContentInv, ContentType
<1>a. net.sent + 1 \in Content!LoadIds
  BY DEF Content!Select, ContentInv, ContentType, Content!LoadIds,
         ContentConstants
<1>2. /\ net'.sent = net.sent + 1
      /\ net'.crossed = (net.crossed \/ Content!Pending # {})
      /\ net'.loads = [net.loads EXCEPT ![net.sent + 1] = load]
      /\ UNCHANGED <<net.stored, net.save, net.upload, net.turns, net.faults,
                     net.moved>>
      /\ DOMAIN net' = DOMAIN net
  BY DEF Content!Select, ContentInv, ContentType
<1>3. load \in Loads
  BY EmptyType DEF Loads
<1>5. \A i \in Content!LoadIds :
        net'.loads[i] = IF i = net.sent + 1 THEN load ELSE net.loads[i]
  BY <1>2 DEF ContentInv, ContentType
<1>c. net'.loads \in [Content!LoadIds -> Loads]
  <2> HIDE DEF load
  <2> QED BY <1>2, <1>3 DEF ContentInv, ContentType
<1>d. net'.crossed \in BOOLEAN
  BY <1>2 DEF ContentInv, ContentType
<1>4. ContentType'
  <2> HIDE DEF load
  <2> QED BY <1>1, <1>2, <1>a, <1>c, <1>d
      DEF ContentInv, ContentType, ContentConstants
<1>6. load.page = p /\ load.at = "sent"
  BY EmptyType DEF Loads
<1> HIDE DEF load
<1>7. ContentLoads'
  BY <1>1, <1>a, <1>5, <1>6 DEF ContentInv, ContentLoads
<1>8. ContentSave'
  BY <1>1, <1>2 DEF ContentInv, ContentSave
<1>9. ContentOrder'
  <2> SUFFICES ASSUME ~net'.crossed PROVE ContentOrder'
    BY DEF ContentOrder
  <2>1. ~net.crossed /\ \A i \in Content!LoadIds : net.loads[i].at = "none"
    BY <1>2 DEF Content!Pending
  <2> QED BY <1>1, <1>2, <1>5, <1>6, <2>1 DEF ContentInv, ContentOrder
<1>10. ContentUpload'
  BY <1>1, <1>2 DEF ContentInv, ContentUpload
<1> QED BY <1>4, <1>7, <1>8, <1>9, <1>10 DEF ContentInv

LEMMA ContentServeLoad ==
    ASSUME ContentInv, NEW i \in Content!LoadIds, Content!ServeLoad(i)
    PROVE  ContentInv'
<1> DEFINE load == [net.loads[i] EXCEPT !.at = "ok",
                        !.content = net.stored[net.loads[i].page]]
<1>1. /\ net.loads[i].at = "sent" /\ UNCHANGED view
      /\ net'.loads = [net.loads EXCEPT ![i] = load]
      /\ UNCHANGED <<net.stored, net.sent, net.save, net.upload, net.turns,
                     net.faults, net.crossed, net.moved>>
      /\ DOMAIN net' = DOMAIN net
  BY DEF Content!ServeLoad, ContentInv, ContentType
<1>2. /\ net.loads[i] \in Loads /\ net.loads[i].page \in Pages
      /\ net.stored[net.loads[i].page] \in Contents
  BY <1>1 DEF ContentInv, ContentType, ContentLoads
<1>3. load \in Loads
  BY <1>2 DEF Loads
<1>4. /\ load.page = net.loads[i].page /\ load.at = "ok"
      /\ load.content = net.stored[net.loads[i].page]
  BY <1>2 DEF Loads
<1> HIDE DEF load
<1>5. ContentType'
  BY <1>1, <1>3 DEF ContentInv, ContentType, ContentConstants
<1>6. \A j \in Content!LoadIds :
        net'.loads[j] = IF j = i THEN load ELSE net.loads[j]
  BY <1>1 DEF ContentInv, ContentType
<1>7. ContentLoads'
  BY <1>1, <1>4, <1>6 DEF ContentInv, ContentLoads
<1>8. ContentSave' /\ ContentUpload'
  BY <1>1 DEF ContentInv, ContentSave, ContentUpload
<1>9. ContentOrder'
  BY <1>1, <1>2, <1>4, <1>6 DEF ContentInv, ContentOrder
<1> QED BY <1>5, <1>7, <1>8, <1>9 DEF ContentInv

LEMMA ContentLoadArrives ==
    ASSUME ContentInv, NEW i \in Content!LoadIds, Content!LoadArrives(i)
    PROVE  ContentInv'
<1>1. /\ net.loads[i].at = "ok"
      /\ view'.form = net.loads[i].content /\ view'.loading = FALSE
      /\ UNCHANGED <<view.page, view.saving, view.told>>
      /\ DOMAIN view' = DOMAIN view
      /\ net'.loads = [net.loads EXCEPT ![i] = Content!NoLoad]
      /\ net'.moved = (net.moved \/ Content!Uploading)
      /\ UNCHANGED <<net.stored, net.sent, net.save, net.upload, net.turns,
                     net.faults, net.crossed>>
      /\ DOMAIN net' = DOMAIN net
  BY DEF Content!LoadArrives, ContentInv, ContentType
<1>2. net.loads[i].content \in Contents
  BY DEF ContentInv, ContentType, Loads
<1>3. ContentType'
  BY <1>1, <1>2, EmptyType DEF ContentInv, ContentType, ContentConstants
<1>4. \A j \in Content!LoadIds :
        net'.loads[j] = IF j = i THEN Content!NoLoad ELSE net.loads[j]
  BY <1>1 DEF ContentInv, ContentType
<1>5. ContentLoads'
  BY <1>1, <1>4, EmptyType DEF ContentInv, ContentLoads
<1>6. ContentSave'
  BY <1>1 DEF ContentInv, ContentSave
<1>7. ContentUpload'
  BY <1>1 DEF ContentInv, ContentUpload, Content!Uploading
<1>8. ContentOrder'
  BY <1>1, <1>4, EmptyType DEF ContentInv, ContentOrder
<1> QED BY <1>3, <1>5, <1>6, <1>7, <1>8 DEF ContentInv

LEMMA ContentLoadFails ==
    ASSUME ContentInv, NEW i \in Content!LoadIds, Content!LoadFails(i)
    PROVE  ContentInv'
<1>1. /\ view'.loading = FALSE
      /\ UNCHANGED <<view.form, view.page, view.saving, view.told>>
      /\ DOMAIN view' = DOMAIN view
      /\ net'.loads = [net.loads EXCEPT ![i] = Content!NoLoad]
      /\ net'.crossed = TRUE
      /\ net'.faults = net.faults + 1 /\ net.faults < MaxFaults
      /\ UNCHANGED <<net.stored, net.sent, net.save, net.upload, net.turns,
                     net.moved>>
      /\ DOMAIN net' = DOMAIN net
  BY DEF Content!LoadFails, ContentInv, ContentType
<1>a. net'.loads \in [Content!LoadIds -> Loads]
  BY <1>1, EmptyType DEF ContentInv, ContentType
<1>b. net'.faults \in 0 .. MaxFaults
  BY <1>1 DEF ContentInv, ContentType, ContentConstants
<1>2. ContentType'
  BY <1>1, <1>a, <1>b DEF ContentInv, ContentType, ContentConstants
<1>3. \A j \in Content!LoadIds :
        net'.loads[j] = IF j = i THEN Content!NoLoad ELSE net.loads[j]
  BY <1>1 DEF ContentInv, ContentType
<1>4. ContentLoads'
  BY <1>1, <1>3, EmptyType DEF ContentInv, ContentLoads
<1>5. ContentSave' /\ ContentUpload' /\ ContentOrder'
  BY <1>1 DEF ContentInv, ContentSave, ContentUpload, ContentOrder
<1> QED BY <1>2, <1>4, <1>5 DEF ContentInv

\* An edit of the form that leaves the section a file is uploaded for alone.
LEMMA ContentEdit ==
    ASSUME ContentInv, NEW form \in Contents, Content!Edited(form),
           ~view.loading,
           net' = [net EXCEPT !.turns = @ + 1, !.moved = net'.moved],
           net'.moved \in BOOLEAN, ~net'.moved => ~net.moved,
           form.of = view.form.of,
           net.upload # Content!NoUpload /\ ~net'.moved =>
             /\ net.upload.index \in 1 .. Len(form.sections)
             /\ form.sections[net.upload.index].id = net.upload.id
    PROVE  ContentInv'
<1>1. /\ view'.form = form
      /\ UNCHANGED <<view.page, view.loading, view.saving, view.told>>
      /\ DOMAIN view' = DOMAIN view
  BY DEF Content!Edited, ContentInv, ContentType
<1>2. /\ net'.turns = net.turns + 1
      /\ UNCHANGED <<net.stored, net.loads, net.sent, net.save, net.upload,
                     net.faults, net.crossed>>
      /\ DOMAIN net' = DOMAIN net
  BY DEF ContentInv, ContentType
<1>3. net'.turns \in 0 .. ContentTurns
  BY <1>2 DEF Content!Edited, Content!Turn, ContentInv, ContentType,
              ContentConstants
<1>4. ContentType'
  BY <1>1, <1>2, <1>3 DEF ContentInv, ContentType, ContentConstants
<1>5. ContentLoads' /\ ContentSave'
  BY <1>1, <1>2 DEF ContentInv, ContentLoads, ContentSave
<1>6. ContentOrder'
  BY <1>1, <1>2 DEF ContentInv, ContentOrder
<1>7. ContentUpload'
  BY <1>1, <1>2 DEF ContentUpload
<1> QED BY <1>4, <1>5, <1>6, <1>7 DEF ContentInv

LEMMA FormType ==
    ASSUME ContentInv
    PROVE  /\ view.form \in Contents /\ view.form.sections \in Seq(Sections)
           /\ net.moved \in BOOLEAN /\ net.turns \in Nat
BY DEF ContentInv, ContentType, Contents

LEMMA ContentChangeField ==
    ASSUME ContentInv, Content!ChangeField PROVE ContentInv'
<1> DEFINE form == [view.form EXCEPT !.text = @ + 1]
<1>1. /\ form \in Contents /\ form.of = view.form.of
      /\ form.sections = view.form.sections
  BY FormType DEF Contents
<1>2. Content!Edited(form) /\ ~view.loading
  BY DEF Content!ChangeField, Content!FieldsOffered
<1>3. net' = [net EXCEPT !.turns = @ + 1]
  BY DEF Content!ChangeField
<1>4. net'.moved = net.moved
  BY <1>3 DEF ContentInv, ContentType
<1>5. net' = [net EXCEPT !.turns = @ + 1, !.moved = net'.moved]
  BY <1>3, <1>4
<1>6. net.upload # Content!NoUpload /\ ~net'.moved =>
        /\ net.upload.index \in 1 .. Len(form.sections)
        /\ form.sections[net.upload.index].id = net.upload.id
  BY <1>1, <1>4 DEF ContentInv, ContentUpload
<1> HIDE DEF form
<1> QED BY <1>1, <1>2, <1>4, <1>5, <1>6, FormType, ContentEdit

LEMMA ContentChangeTable ==
    ASSUME ContentInv, Content!ChangeTable PROVE ContentInv'
<1> DEFINE form == [view.form EXCEPT !.table = ~@]
<1>1. /\ form \in Contents /\ form.of = view.form.of
      /\ form.sections = view.form.sections
  BY FormType DEF Contents
<1>2. Content!Edited(form) /\ ~view.loading
  BY DEF Content!ChangeTable, Content!TableOffered
<1>3. net' = [net EXCEPT !.turns = @ + 1]
  BY DEF Content!ChangeTable
<1>4. net'.moved = net.moved
  BY <1>3 DEF ContentInv, ContentType
<1>5. net' = [net EXCEPT !.turns = @ + 1, !.moved = net'.moved]
  BY <1>3, <1>4
<1>6. net.upload # Content!NoUpload /\ ~net'.moved =>
        /\ net.upload.index \in 1 .. Len(form.sections)
        /\ form.sections[net.upload.index].id = net.upload.id
  BY <1>1, <1>4 DEF ContentInv, ContentUpload
<1> HIDE DEF form
<1> QED BY <1>1, <1>2, <1>4, <1>5, <1>6, FormType, ContentEdit

LEMMA ContentAddSection ==
    ASSUME ContentInv, Content!AddSection PROVE ContentInv'
<1> DEFINE new == Content!Section(3 + net.turns)
           form == [view.form EXCEPT !.sections = Append(@, new)]
<1>1. new \in Sections
  BY FormType DEF Content!Section, Sections
<1>2. Append(view.form.sections, new) \in Seq(Sections)
  BY <1>1, FormType
<1>3. /\ form \in Contents /\ form.of = view.form.of
      /\ form.sections = Append(view.form.sections, new)
  <2> HIDE DEF new
  <2> QED BY <1>2, FormType DEF Contents
<1>4. Content!Edited(form) /\ ~view.loading
  BY DEF Content!AddSection, Content!FieldsOffered
<1>5. net' = [net EXCEPT !.turns = @ + 1]
  BY DEF Content!AddSection
<1>6. net'.moved = net.moved
  BY <1>5 DEF ContentInv, ContentType
<1>7. net' = [net EXCEPT !.turns = @ + 1, !.moved = net'.moved]
  BY <1>5, <1>6
<1>8. \A n \in 1 .. Len(view.form.sections) :
        /\ n \in 1 .. Len(Append(view.form.sections, new))
        /\ Append(view.form.sections, new)[n] = view.form.sections[n]
  <2> HIDE DEF new
  <2> QED BY <1>1, FormType
<1>9. net.upload # Content!NoUpload /\ ~net'.moved =>
        /\ net.upload.index \in 1 .. Len(form.sections)
        /\ form.sections[net.upload.index].id = net.upload.id
  <2> HIDE DEF new, form
  <2> QED BY <1>3, <1>6, <1>8 DEF ContentInv, ContentUpload
<1> HIDE DEF form
<1> QED BY <1>3, <1>4, <1>6, <1>7, <1>9, FormType, ContentEdit

LEMMA ContentDeleteSection ==
    ASSUME ContentInv, Content!DeleteSection PROVE ContentInv'
<1>1. PICK n \in Content!SectionsOffered :
        /\ Content!Edited([view.form EXCEPT
                             !.sections = Content!RemoveAt(@, n)])
        /\ net' = [net EXCEPT !.turns = @ + 1,
                              !.moved = @ \/ Content!Uploading]
  BY DEF Content!DeleteSection
<1>2. ~view.loading /\ n \in 1 .. Len(view.form.sections)
  BY FormType DEF Content!SectionsOffered
<1> DEFINE rest == Content!RemoveAt(view.form.sections, n)
           form == [view.form EXCEPT !.sections = rest]
<1>3. rest \in Seq(Sections)
  BY <1>2, FormType DEF Content!RemoveAt
<1>4. form \in Contents /\ form.of = view.form.of
  <2> HIDE DEF rest
  <2> QED BY <1>3, FormType DEF Contents
<1>5. Content!Edited(form)
  BY <1>1
<1>6. net'.moved = (net.moved \/ Content!Uploading)
  BY <1>1 DEF ContentInv, ContentType
<1>7. net' = [net EXCEPT !.turns = @ + 1, !.moved = net'.moved]
  BY <1>1, <1>6
<1>8. net'.moved \in BOOLEAN /\ (~net'.moved => ~net.moved)
  BY <1>6, FormType
<1>9. ~(net.upload # Content!NoUpload /\ ~net'.moved)
  BY <1>6 DEF Content!Uploading
<1> HIDE DEF form
<1> QED BY <1>2, <1>4, <1>5, <1>7, <1>8, <1>9, ContentEdit

LEMMA ContentUploadStarts ==
    ASSUME ContentInv, Content!Upload PROVE ContentInv'
<1>1. PICK n \in Content!SectionsOffered :
        net' = [net EXCEPT !.turns = @ + 1, !.moved = FALSE,
                    !.upload = [index |-> n, id |-> view.form.sections[n].id]]
  BY DEF Content!Upload
<1>2. n \in 1 .. Len(view.form.sections)
  BY FormType DEF Content!SectionsOffered
<1>3. view.form.sections[n] \in Sections
  BY <1>2, FormType
<1>4. view.form.sections[n].id \in Nat /\ n \in Nat
  BY <1>2, <1>3, FormType DEF Sections
<1>5. /\ net'.upload = [index |-> n, id |-> view.form.sections[n].id]
      /\ net'.turns = net.turns + 1 /\ net'.moved = FALSE
      /\ UNCHANGED <<net.stored, net.loads, net.sent, net.save, net.faults,
                     net.crossed>>
      /\ UNCHANGED view /\ DOMAIN net' = DOMAIN net
  BY <1>1 DEF Content!Upload, ContentInv, ContentType
<1>6. net'.upload \in Uploads
  BY <1>4, <1>5 DEF Uploads
<1>7. net'.turns \in 0 .. ContentTurns
  BY <1>5 DEF Content!Upload, Content!Turn, ContentInv, ContentType,
              ContentConstants
<1>8. ContentType'
  BY <1>5, <1>6, <1>7 DEF ContentInv, ContentType, ContentConstants
<1>9. ContentLoads' /\ ContentSave' /\ ContentOrder'
  BY <1>5 DEF ContentInv, ContentLoads, ContentSave, ContentOrder
<1>10. ContentUpload'
  BY <1>2, <1>5 DEF ContentUpload
<1> QED BY <1>8, <1>9, <1>10 DEF ContentInv

\* A file lands in the section it was meant for, or is marked as moved.
LEMMA PlacedType ==
    ASSUME NEW s \in Seq(Sections), NEW n \in Nat, NEW file,
           file = 0 \/ (n \in DOMAIN s /\ file = s[n].id)
    PROVE  Content!Placed(s, n, file) \in Seq(Sections)
<1>1. CASE n \in DOMAIN s
  <2> DEFINE new == [s[n] EXCEPT !.file = file]
  <2>1. s[n] \in Sections
    BY <1>1
  <2>2. new \in Sections
    BY <2>1 DEF Sections
  <2>3. Content!Placed(s, n, file) = [s EXCEPT ![n] = new]
    BY <1>1 DEF Content!Placed
  <2> HIDE DEF new
  <2> QED BY <1>1, <2>2, <2>3
<1>2. CASE n \notin DOMAIN s
  <2>1. [id |-> 0, file |-> 0] \in Sections
    BY DEF Sections
  <2>2. Content!Placed(s, n, file) = Append(s, [id |-> 0, file |-> 0])
    BY <1>2 DEF Content!Placed
  <2> QED BY <2>1, <2>2
<1> QED BY <1>1, <1>2

LEMMA ContentUploadArrives ==
    ASSUME ContentInv, Content!UploadArrives PROVE ContentInv'
<1> DEFINE file == IF net.moved THEN 0 ELSE net.upload.id
           s == view.form.sections
           n == net.upload.index
           new == Content!Placed(s, n, file)
<1>1. n \in Nat /\ s \in Seq(Sections) /\ DOMAIN s = 1 .. Len(s)
  BY FormType DEF ContentInv, ContentType, Uploads
<1>2. file = 0 \/ (n \in DOMAIN s /\ file = s[n].id)
  BY <1>1 DEF Content!UploadArrives, Content!Uploading, ContentInv,
              ContentUpload
<1> HIDE DEF file, s, n
<1>3. new \in Seq(Sections)
  BY <1>1, <1>2, PlacedType
<1>4. /\ view'.form = [view.form EXCEPT !.sections = new]
      /\ UNCHANGED <<view.page, view.loading, view.saving, view.told>>
      /\ DOMAIN view' = DOMAIN view
  BY FormType DEF Content!UploadArrives, ContentInv, ContentType, file, s, n,
                  Contents
<1> HIDE DEF new
<1>5. view'.form \in Contents /\ view'.form.of = view.form.of
  BY <1>3, <1>4, FormType DEF Contents
<1>6. /\ net'.upload = Content!NoUpload
      /\ UNCHANGED <<net.stored, net.loads, net.sent, net.save, net.turns,
                     net.faults, net.crossed, net.moved>>
      /\ DOMAIN net' = DOMAIN net
  BY DEF Content!UploadArrives, ContentInv, ContentType
<1>7. ContentType'
  BY <1>4, <1>5, <1>6, EmptyType DEF ContentInv, ContentType, ContentConstants
<1>8. ContentLoads' /\ ContentSave'
  BY <1>4, <1>6 DEF ContentInv, ContentLoads, ContentSave
<1>9. ContentOrder'
  BY <1>4, <1>5, <1>6 DEF ContentInv, ContentOrder
<1>10. ContentUpload'
  BY <1>6 DEF ContentUpload
<1> QED BY <1>7, <1>8, <1>9, <1>10 DEF ContentInv

LEMMA ContentUploadFails ==
    ASSUME ContentInv, Content!UploadFails PROVE ContentInv'
<1>1. /\ net'.upload = Content!NoUpload
      /\ net'.faults = net.faults + 1 /\ net.faults < MaxFaults
      /\ UNCHANGED <<net.stored, net.loads, net.sent, net.save, net.turns,
                     net.crossed, net.moved>>
      /\ UNCHANGED view /\ DOMAIN net' = DOMAIN net
  BY DEF Content!UploadFails, ContentInv, ContentType
<1>2. net'.faults \in 0 .. MaxFaults
  BY <1>1 DEF ContentInv, ContentType, ContentConstants
<1>3. ContentType'
  BY <1>1, <1>2, EmptyType DEF ContentInv, ContentType, ContentConstants
<1>4. ContentLoads' /\ ContentSave' /\ ContentOrder' /\ ContentUpload'
  BY <1>1 DEF ContentInv, ContentLoads, ContentSave, ContentOrder,
              ContentUpload
<1> QED BY <1>3, <1>4 DEF ContentInv

\* What is sent is what the form shows, under the page selected.
LEMMA ContentHandleSave ==
    ASSUME ContentInv, Content!HandleSave PROVE ContentInv'
<1>1. /\ ~view.loading /\ view'.saving = TRUE /\ view'.told = "none"
      /\ UNCHANGED <<view.page, view.form, view.loading>>
      /\ DOMAIN view' = DOMAIN view
  BY DEF Content!HandleSave, Content!SaveOffered, ContentInv, ContentType
<1>2. /\ net'.turns = net.turns + 1
      /\ net'.save = [page |-> view.page, at |-> "sent", content |-> view.form]
      /\ UNCHANGED <<net.stored, net.loads, net.sent, net.upload, net.faults,
                     net.crossed, net.moved>>
      /\ DOMAIN net' = DOMAIN net
  BY DEF Content!HandleSave, ContentInv, ContentType
<1>3. net'.turns \in 0 .. ContentTurns
  BY <1>2 DEF Content!HandleSave, Content!Turn, ContentInv, ContentType,
              ContentConstants
<1>4. view.page \in Pages /\ net'.save \in Saves
  BY <1>2, FormType DEF ContentInv, ContentType, Saves
<1>5. ContentType'
  BY <1>1, <1>2, <1>3, <1>4 DEF ContentInv, ContentType, ContentConstants
<1>6. ContentLoads' /\ ContentUpload'
  BY <1>1, <1>2 DEF ContentInv, ContentLoads, ContentUpload
<1>7. ContentSave'
  BY <1>1, <1>2, <1>4 DEF ContentSave
<1>8. ContentOrder'
  BY <1>1, <1>2 DEF ContentInv, ContentOrder
<1> QED BY <1>5, <1>6, <1>7, <1>8 DEF ContentInv

\* The fields of a save that is answered or lost.
LEMMA SaveMoves ==
    ASSUME ContentInv, NEW at \in {"ok", "failed", "over"}
    PROVE  /\ [net.save EXCEPT !.at = at] \in Saves
           /\ [net.save EXCEPT !.at = at].at = at
           /\ [net.save EXCEPT !.at = at].page = net.save.page
           /\ [net.save EXCEPT !.at = at].content = net.save.content
           /\ net.save.content \in Contents
BY DEF ContentInv, ContentType, Saves

LEMMA ContentServeSave ==
    ASSUME ContentInv, Content!ServeSave PROVE ContentInv'
<1>1. /\ net.save.at = "sent" /\ UNCHANGED view
      /\ net'.save = [net.save EXCEPT !.at = "ok"]
      /\ net'.stored = [net.stored EXCEPT ![net.save.page] = net.save.content]
      /\ UNCHANGED <<net.loads, net.sent, net.upload, net.turns, net.faults,
                     net.crossed, net.moved>>
      /\ DOMAIN net' = DOMAIN net
  BY DEF Content!ServeSave, ContentInv, ContentType
<1>2. /\ net'.save \in Saves /\ net'.save.at = "ok"
      /\ net'.save.page = net.save.page /\ net.save.page \in Pages
      /\ net'.save.content = net.save.content
      /\ net.save.content \in Contents
  BY <1>1, SaveMoves DEF ContentInv, ContentSave
<1>3. net'.stored \in [Pages -> Contents]
  BY <1>1, <1>2 DEF ContentInv, ContentType
<1>4. \A p \in Pages : net'.stored[p] =
        IF p = net.save.page THEN net.save.content ELSE net.stored[p]
  BY <1>1 DEF ContentInv, ContentType
<1>5. ContentType'
  BY <1>1, <1>2, <1>3 DEF ContentInv, ContentType, ContentConstants
<1>6. ContentLoads' /\ ContentUpload'
  BY <1>1 DEF ContentInv, ContentLoads, ContentUpload
<1>7. ContentSave'
  BY <1>1, <1>2, <1>4 DEF ContentInv, ContentSave
<1>8. ContentOrder'
  BY <1>1, <1>2, <1>4 DEF ContentInv, ContentOrder
<1> QED BY <1>5, <1>6, <1>7, <1>8 DEF ContentInv

LEMMA ContentSaveFails ==
    ASSUME ContentInv, Content!SaveFails PROVE ContentInv'
<1>1. /\ net.save.at = "sent" /\ UNCHANGED view
      /\ net'.save = [net.save EXCEPT !.at = "failed"]
      /\ net'.faults = net.faults + 1 /\ net.faults < MaxFaults
      /\ UNCHANGED <<net.stored, net.loads, net.sent, net.upload, net.turns,
                     net.crossed, net.moved>>
      /\ DOMAIN net' = DOMAIN net
  BY DEF Content!SaveFails, ContentInv, ContentType
<1>2. /\ net'.save \in Saves /\ net'.save.at = "failed"
      /\ net'.save.page = net.save.page
  BY <1>1, SaveMoves
<1>3. net'.faults \in 0 .. MaxFaults
  BY <1>1 DEF ContentInv, ContentType, ContentConstants
<1>4. ContentType'
  BY <1>1, <1>2, <1>3 DEF ContentInv, ContentType, ContentConstants
<1>5. ContentLoads' /\ ContentUpload' /\ ContentOrder'
  BY <1>1, <1>2 DEF ContentInv, ContentLoads, ContentUpload, ContentOrder
<1>6. ContentSave'
  BY <1>1, <1>2 DEF ContentInv, ContentSave
<1> QED BY <1>4, <1>5, <1>6 DEF ContentInv

LEMMA ContentSaveEnds ==
    ASSUME ContentInv, Content!SaveEnds PROVE ContentInv'
<1>1. /\ net.save.at \in {"ok", "failed"} /\ view'.saving = FALSE
      /\ view'.told = (IF net.save.at = "ok" THEN "success" ELSE "error")
      /\ UNCHANGED <<view.page, view.form, view.loading>>
      /\ DOMAIN view' = DOMAIN view
  BY DEF Content!SaveEnds, ContentInv, ContentType
<1>2. /\ net'.save = [net.save EXCEPT !.at = "over"]
      /\ UNCHANGED <<net.stored, net.loads, net.sent, net.upload, net.turns,
                     net.faults, net.crossed, net.moved>>
      /\ DOMAIN net' = DOMAIN net
  BY DEF Content!SaveEnds, ContentInv, ContentType
<1>3. /\ net'.save \in Saves /\ net'.save.at = "over"
      /\ net'.save.page = net.save.page
      /\ net'.save.content = net.save.content
  BY <1>2, SaveMoves
<1>4. ContentType'
  BY <1>1, <1>2, <1>3 DEF ContentInv, ContentType, ContentConstants
<1>5. ContentLoads' /\ ContentUpload' /\ ContentOrder'
  BY <1>1, <1>2, <1>3 DEF ContentInv, ContentLoads, ContentUpload,
                          ContentOrder
<1>6. ContentSave'
  BY <1>1, <1>2, <1>3 DEF ContentInv, ContentSave
<1> QED BY <1>4, <1>5, <1>6 DEF ContentInv

LEMMA ContentKept == ASSUME ContentInv, Content!Next PROVE ContentInv'
BY ContentSelect, ContentServeLoad, ContentLoadArrives, ContentLoadFails,
   ContentChangeField, ContentChangeTable, ContentAddSection,
   ContentDeleteSection, ContentUploadStarts, ContentUploadArrives,
   ContentUploadFails, ContentHandleSave, ContentServeSave, ContentSaveFails,
   ContentSaveEnds DEF Content!Next

LEMMA ContentStutters ==
    ASSUME ContentInv, UNCHANGED <<view, net>> PROVE ContentInv'
BY DEF ContentInv, ContentType, ContentConstants, ContentLoads, ContentSave,
       ContentOrder, ContentUpload

LEMMA ContentStarts ==
    ASSUME ContentConstants, Content!Init PROVE ContentInv
<1>1. PICK p \in Pages :
        /\ view = [page |-> p, form |-> Content!Empty, loading |-> TRUE,
                   saving |-> FALSE, told |-> "none"]
        /\ net = [stored |-> [q \in Pages |-> Content!Content(q)],
                  loads |-> [[i \in Content!LoadIds |-> Content!NoLoad] EXCEPT
                               ![1] = [Content!NoLoad EXCEPT !.page = p,
                                                             !.at = "sent"]],
                  sent |-> 1, save |-> Content!NoSave,
                  upload |-> Content!NoUpload,
                  turns |-> 0, faults |-> 0, crossed |-> FALSE,
                  moved |-> FALSE]
  BY DEF Content!Init
<1> DEFINE load == [Content!NoLoad EXCEPT !.page = p, !.at = "sent"]
<1>2. load \in Loads /\ load.page = p /\ load.at = "sent"
  BY EmptyType DEF Loads
<1> HIDE DEF load
<1>3. 1 \in Content!LoadIds
  BY DEF ContentConstants, Content!LoadIds
<1>4. net.loads = [[i \in Content!LoadIds |-> Content!NoLoad]
                     EXCEPT ![1] = load]
  BY <1>1 DEF load
<1>5. \A i \in Content!LoadIds :
        net.loads[i] = IF i = 1 THEN load ELSE Content!NoLoad
  BY <1>3, <1>4
<1>6. net.loads \in [Content!LoadIds -> Loads]
  BY <1>2, <1>4, EmptyType
<1>7. \A q \in Pages :
        Content!Content(q) \in Contents /\ Content!Content(q).of = q
  <2>1. Content!Section(1) \in Sections /\ Content!Section(2) \in Sections
    BY DEF Content!Section, Sections
  <2>2. <<Content!Section(1), Content!Section(2)>> \in Seq(Sections)
    BY <2>1
  <2> QED BY <2>2 DEF Content!Content, Contents
<1>8. /\ net.stored \in [Pages -> Contents]
      /\ \A q \in Pages : net.stored[q].of = q
  BY <1>1, <1>7
<1>9. ContentType
  BY <1>1, <1>3, <1>6, <1>8, EmptyType DEF ContentType, ContentConstants
<1>10. ContentLoads
  BY <1>1, <1>2, <1>3, <1>5, EmptyType DEF ContentLoads
<1>11. ContentSave /\ ContentUpload
  BY <1>1, EmptyType DEF ContentSave, ContentUpload
<1>12. ContentOrder
  BY <1>1, <1>2, <1>5, <1>8, EmptyType DEF ContentOrder
<1> QED BY <1>9, <1>10, <1>11, <1>12 DEF ContentInv

\* What the invariant says to a user of the page.
LEMMA ContentShows ==
    ASSUME ContentInv
    PROVE  /\ Content!TypeOK /\ Content!SavedWhereItBelongs
           /\ Content!UploadsStayInSection /\ Content!ToastsAreHonest
           /\ Content!ShownIsCurrent /\ Content!LoadingHasAnEnd
<1>1. Content!TypeOK
  BY FormType DEF ContentInv, ContentType, Contents, Saves, Content!TypeOK
<1>2. Content!SavedWhereItBelongs
  BY DEF ContentInv, ContentType, ContentOrder, Content!SavedWhereItBelongs
<1>3. Content!UploadsStayInSection
  <2>1. \A n \in DOMAIN view.form.sections :
          view.form.sections[n] \in Sections
    BY FormType
  <2> QED BY <2>1 DEF Sections, Content!UploadsStayInSection
<1>4. Content!ToastsAreHonest
  BY DEF ContentInv, ContentSave, Content!ToastsAreHonest
<1>5. Content!Pending = {} <=>
        \A i \in Content!LoadIds : net.loads[i].at = "none"
  BY DEF Content!Pending
<1>6. Content!ShownIsCurrent
  BY <1>5 DEF ContentInv, ContentLoads, ContentOrder, Content!ShownIsCurrent
<1>7. Content!LoadingHasAnEnd
  BY <1>5 DEF ContentInv, ContentLoads, ContentSave, Content!LoadingHasAnEnd
<1> QED BY <1>1, <1>2, <1>3, <1>4, <1>6, <1>7

-----------------------------------------------------------------------------
(* ModelPicker: with the timer gone, whatever is under way was asked for   *)
(* the provider selected, unless it overtook an earlier request.           *)

CONSTANTS Providers, PickerCalls

Picker == INSTANCE ModelPicker WITH MaxCalls <- PickerCalls

PickerConstants == PickerCalls \in Nat /\ None \notin Providers

PickerCurrent ==
    ~view.timer /\ ~net.crossed =>
        /\ \A i \in Picker!CallIds : net.calls[i] # None =>
            net.calls[i] = view.provider /\ view.key
        /\ Picker!Pending = {} /\ view.models # None =>
            view.models = view.provider /\ view.key

PickerSpinner == view.spinner => Picker!Pending # {}

PickerInv == PickerConstants /\ Picker!TypeOK /\ PickerCurrent /\ PickerSpinner

LEMMA PickerStarts ==
    ASSUME PickerConstants, Picker!Init PROVE PickerInv
BY DEF PickerConstants, Picker!Init, PickerInv, Picker!TypeOK, PickerCurrent,
       PickerSpinner

LEMMA PickerStutters ==
    ASSUME PickerInv, UNCHANGED <<view, net>> PROVE PickerInv'
BY DEF PickerInv, PickerConstants, Picker!TypeOK, PickerCurrent,
       PickerSpinner, Picker!Pending

LEMMA PickerKept == ASSUME PickerInv, Picker!Next PROVE PickerInv'
<1> USE DEF PickerInv
<1>1. ASSUME NEW p \in Providers, Picker!SelectProvider(p) PROVE PickerInv'
  <2>1. /\ view'.timer = TRUE /\ UNCHANGED <<net, view.spinner>>
        /\ Picker!TypeOK'
    BY <1>1 DEF Picker!SelectProvider, Picker!TypeOK
  <2> QED BY <2>1 DEF PickerConstants, PickerCurrent, PickerSpinner,
                      Picker!Pending
<1>2. ASSUME Picker!TypeKey PROVE PickerInv'
  <2>1. /\ view'.timer = TRUE /\ UNCHANGED <<net, view.spinner>>
        /\ Picker!TypeOK'
    BY <1>2 DEF Picker!TypeKey, Picker!TypeOK
  <2> QED BY <2>1 DEF PickerConstants, PickerCurrent, PickerSpinner,
                      Picker!Pending
<1>3. ASSUME Picker!NothingToAsk PROVE PickerInv'
  <2>1. /\ view'.models = None /\ UNCHANGED <<view.spinner, net.calls>>
        /\ net'.crossed = (Picker!Pending # {})
        /\ Picker!TypeOK'
    BY <1>3 DEF Picker!NothingToAsk, Picker!TypeOK
  <2> QED BY <2>1 DEF PickerConstants, PickerCurrent, PickerSpinner,
                      Picker!Pending
<1>4. ASSUME Picker!Ask PROVE PickerInv'
  <2>1. net.sent + 1 \in Picker!CallIds
    BY <1>4 DEF Picker!Ask, Picker!TypeOK, Picker!CallIds, PickerConstants
  <2>2. /\ view.key = TRUE /\ UNCHANGED <<view.key, view.provider>>
        /\ net'.calls = [net.calls EXCEPT ![net.sent + 1] = view.provider]
        /\ net'.crossed = (Picker!Pending # {})
        /\ view.provider \in Providers
    BY <1>4 DEF Picker!Ask, Picker!TypeOK
  <2>3. Picker!TypeOK'
    <3>1. view' \in [main : BOOLEAN, provider : Providers, key : BOOLEAN,
                     timer : BOOLEAN, models : Providers \union {None},
                     spinner : BOOLEAN]
      BY <1>4 DEF Picker!Ask, Picker!TypeOK
    <3>2. net.sent + 1 \in 0 .. PickerCalls
      BY <2>1 DEF Picker!CallIds
    <3>3. net' \in [calls : [Picker!CallIds -> Providers \union {None}],
                    sent : 0 .. PickerCalls, crossed : BOOLEAN]
      BY <1>4, <2>1, <2>2, <3>2 DEF Picker!Ask, Picker!TypeOK
    <3> QED BY <3>1, <3>3 DEF Picker!TypeOK
  <2>4. \A i \in Picker!CallIds : net'.calls[i] =
          IF i = net.sent + 1 THEN view.provider ELSE net.calls[i]
    BY <2>1, <2>2 DEF Picker!TypeOK
  <2>5. view.provider # None
    BY <2>2 DEF PickerConstants
  <2>6. net.sent + 1 \in Picker!Pending'
    BY <2>1, <2>4, <2>5 DEF Picker!Pending
  <2>7. PickerCurrent'
    BY <2>2, <2>4, <2>6 DEF PickerCurrent, Picker!Pending
  <2> QED BY <2>3, <2>6, <2>7 DEF PickerConstants, PickerSpinner
<1>5. ASSUME NEW i \in Picker!CallIds, Picker!Answer(i) PROVE PickerInv'
  <2>1. /\ net.calls[i] # None
        /\ net'.calls = [net.calls EXCEPT ![i] = None]
        /\ view'.models \in {net.calls[i], None} /\ view'.spinner = FALSE
        /\ UNCHANGED <<view.timer, view.provider, view.key, net.crossed>>
    BY <1>5 DEF Picker!Answer, Picker!TypeOK, Picker!Pending
  <2>2. Picker!TypeOK'
    BY <1>5 DEF Picker!Answer, Picker!TypeOK
  <2>3. \A j \in Picker!CallIds : net'.calls[j] =
          IF j = i THEN None ELSE net.calls[j]
    BY <2>1 DEF Picker!TypeOK
  <2>4. PickerCurrent'
    BY <2>1, <2>3 DEF PickerCurrent
  <2> QED BY <2>1, <2>2, <2>4 DEF PickerConstants, PickerSpinner
<1> QED BY <1>1, <1>2, <1>3, <1>4, <1>5 DEF Picker!Next

LEMMA PickerShows ==
    ASSUME PickerInv
    PROVE  Picker!TypeOK /\ Picker!ShownIsCurrent /\ Picker!LoadingHasAnEnd
BY DEF PickerInv, PickerCurrent, PickerSpinner, Picker!ShownIsCurrent,
       Picker!ListOffered, Picker!LoadingHasAnEnd

-----------------------------------------------------------------------------
(* PanelModels: the only request whose answer is taken is the one for the  *)
(* key selected, unless a request for a local provider was overtaken.      *)

CONSTANTS PanelKeys, LocalKeys, PanelCalls

Panel == INSTANCE PanelModels WITH Keys <- PanelKeys, Local <- LocalKeys,
                                   MaxCalls <- PanelCalls

PanelConstants == PanelCalls \in Nat /\ None \notin PanelKeys

\* A request whose answer will be taken.
PanelLive(i) == net.calls[i] # None /\ net.calls[i].cancelled = FALSE

PanelType ==
    /\ PanelConstants
    /\ None \notin Panel!Call
    /\ Panel!TypeOK
    /\ DOMAIN net = {"calls", "sent", "crossed"}
    /\ net.crossed \in BOOLEAN

PanelLoading ==
    view.loading => \/ view.key = None
                    \/ \E i \in Panel!CallIds : PanelLive(i)

PanelCurrent ==
    ~net.crossed =>
        /\ \A i \in Panel!CallIds : PanelLive(i) =>
            net.calls[i].key = view.key
        /\ (\A i \in Panel!CallIds : ~PanelLive(i)) =>
            /\ view.models # None => view.models = view.key
            /\ ~view.settle => view.model = view.key

PanelInv == PanelType /\ PanelLoading /\ PanelCurrent

LEMMA PanelSelect ==
    ASSUME PanelInv, NEW k \in Panel!Choices, Panel!SelectKey(k)
    PROVE  PanelInv'
<1>1. /\ view'.key = k /\ view'.settle = TRUE
      /\ view'.models = (IF k = None THEN None ELSE view.models)
      /\ view'.loading = (view.loading \/ k # None)
      /\ view' \in [key : Panel!Choices, model : Panel!Choices,
                    models : Panel!Choices, loading : BOOLEAN,
                    settle : BOOLEAN]
  BY DEF Panel!SelectKey, PanelInv, PanelType, Panel!TypeOK, Panel!Choices
<1>2. net.sent + 1 \in Panel!CallIds /\ net.sent + 1 \in 0 .. PanelCalls
  BY DEF Panel!SelectKey, PanelInv, PanelType, Panel!TypeOK, Panel!CallIds,
         PanelConstants
<1>3. /\ net'.sent = net.sent + 1
      /\ net'.crossed = (net.crossed \/
           \E i \in Panel!Live : net.calls[i].key \in LocalKeys)
      /\ net'.calls = IF k = None THEN Panel!Cancelled
                      ELSE [Panel!Cancelled EXCEPT ![net.sent + 1] =
                              [key |-> k, cancelled |-> FALSE]]
      /\ DOMAIN net' = DOMAIN net
  BY DEF Panel!SelectKey, PanelInv, PanelType
<1> DEFINE Dropped(i) ==
      /\ Panel!Cancelled[i] \in Panel!Call \union {None}
      /\ net.calls[i] = None => Panel!Cancelled[i] = None
      /\ net.calls[i] # None =>
           /\ Panel!Cancelled[i] # None
           /\ net.calls[i].key \notin LocalKeys =>
                Panel!Cancelled[i].cancelled = TRUE
           /\ net.calls[i].key \in LocalKeys =>
                Panel!Cancelled[i] = net.calls[i]
<1>4. ASSUME NEW i \in Panel!CallIds PROVE Dropped(i)
  <2>1. CASE net.calls[i] = None
    BY <2>1 DEF Panel!Cancelled, Panel!Pending
  <2>2. CASE net.calls[i] # None
    <3>1. net.calls[i] \in Panel!Call
      BY <2>2 DEF PanelInv, PanelType, Panel!TypeOK
    <3> DEFINE c == [net.calls[i] EXCEPT !.cancelled = TRUE]
    <3>2. c \in Panel!Call /\ c.cancelled = TRUE
      BY <3>1 DEF Panel!Call
    <3>3. Panel!Cancelled[i] = IF net.calls[i].key \notin LocalKeys
                               THEN c ELSE net.calls[i]
      BY <2>2 DEF Panel!Cancelled, Panel!Pending
    <3> HIDE DEF c
    <3> QED BY <2>2, <3>1, <3>2, <3>3 DEF PanelInv, PanelType
  <2> QED BY <2>1, <2>2
<1>5. Panel!Cancelled \in [Panel!CallIds -> Panel!Call \union {None}]
  BY <1>4 DEF Panel!Cancelled
<1> DEFINE new == [key |-> k, cancelled |-> FALSE]
<1>6. k # None => new \in Panel!Call
  BY DEF Panel!Call, Panel!Choices
<1>7. new.key = k /\ new.cancelled = FALSE
  OBVIOUS
<1> HIDE DEF new, Dropped
<1>8. net'.calls = IF k = None THEN Panel!Cancelled
                   ELSE [Panel!Cancelled EXCEPT ![net.sent + 1] = new]
  BY <1>3 DEF new
<1>9. net'.calls \in [Panel!CallIds -> Panel!Call \union {None}]
  BY <1>2, <1>5, <1>6, <1>8
<1>10. net'.crossed \in BOOLEAN
  BY <1>3 DEF PanelInv, PanelType
<1>11. PanelType'
  BY <1>1, <1>2, <1>3, <1>9, <1>10 DEF PanelInv, PanelType, PanelConstants,
                                       Panel!TypeOK
<1>12. \A i \in Panel!CallIds : net'.calls[i] =
         IF k # None /\ i = net.sent + 1 THEN new ELSE Panel!Cancelled[i]
  BY <1>2, <1>5, <1>8
<1>13. k # None => \E i \in Panel!CallIds : PanelLive(i)'
  <2> SUFFICES ASSUME k # None
               PROVE  \E i \in Panel!CallIds : PanelLive(i)'
    OBVIOUS
  <2>1. PICK i \in Panel!CallIds : i = net.sent + 1
    BY <1>2
  <2>2. net'.calls[i] = new
    BY <1>12, <2>1
  <2>3. new # None
    BY <1>6 DEF PanelInv, PanelType
  <2>4. PanelLive(i)'
    BY <1>7, <2>2, <2>3 DEF PanelLive
  <2> QED BY <2>4
<1>14. PanelLoading'
  <2>1. k = None \/ \E i \in Panel!CallIds : PanelLive(i)'
    BY <1>13
  <2> QED BY <1>1, <2>1 DEF PanelLoading
<1>15. ASSUME ~net'.crossed, NEW i \in Panel!CallIds, PanelLive(i)'
       PROVE  k # None /\ i = net.sent + 1
  <2>1. SUFFICES ASSUME ~(k # None /\ i = net.sent + 1) PROVE FALSE
    OBVIOUS
  <2>2. /\ Panel!Cancelled[i] # None
        /\ Panel!Cancelled[i].cancelled = FALSE
    BY <1>12, <1>15, <2>1 DEF PanelLive
  <2>3. Panel!Cancelled[i] = net.calls[i] /\ net.calls[i] # None
        /\ net.calls[i].key \in LocalKeys
    BY <1>4, <2>2 DEF Dropped
  <2>4. i \in Panel!Live
    BY <2>2, <2>3 DEF Panel!Live, Panel!Pending
  <2> QED BY <1>3, <1>15, <2>3, <2>4
<1>16. PanelCurrent'
  <2> SUFFICES ASSUME ~net'.crossed PROVE PanelCurrent'
    BY DEF PanelCurrent
  <2>1. ASSUME NEW i \in Panel!CallIds, PanelLive(i)'
        PROVE  net'.calls[i].key = view'.key
    <3>1. k # None /\ i = net.sent + 1
      BY <1>15, <2>1
    <3>2. net'.calls[i] = new
      BY <1>12, <3>1
    <3> QED BY <1>1, <1>7, <3>2
  <2>2. (\A i \in Panel!CallIds : ~PanelLive(i)') => k = None
    BY <1>13
  <2> QED BY <1>1, <2>1, <2>2 DEF PanelCurrent
<1> QED BY <1>11, <1>14, <1>16 DEF PanelInv

LEMMA PanelAnswer ==
    ASSUME PanelInv, NEW i \in Panel!CallIds, Panel!Answer(i)
    PROVE  PanelInv'
<1>1. /\ net.calls[i] # None
      /\ net'.calls = [net.calls EXCEPT ![i] = None]
      /\ UNCHANGED <<net.sent, net.crossed>> /\ DOMAIN net' = DOMAIN net
  BY DEF Panel!Answer, Panel!Pending, PanelInv, PanelType
<1>2. net.calls[i] \in Panel!Call
  BY <1>1 DEF PanelInv, PanelType, Panel!TypeOK
<1>3. net'.calls \in [Panel!CallIds -> Panel!Call \union {None}]
  BY <1>1 DEF PanelInv, PanelType, Panel!TypeOK
<1>4. \A j \in Panel!CallIds : net'.calls[j] =
        IF j = i THEN None ELSE net.calls[j]
  BY <1>1 DEF PanelInv, PanelType, Panel!TypeOK
<1>5. \A j \in Panel!CallIds : PanelLive(j)' <=> PanelLive(j) /\ j # i
  BY <1>4 DEF PanelLive
<1>6. CASE net.calls[i].cancelled
  <2>1. UNCHANGED view /\ ~PanelLive(i)
    BY <1>6 DEF Panel!Answer, PanelLive
  <2>2. PanelType'
    BY <1>1, <1>3, <2>1 DEF PanelInv, PanelType, PanelConstants, Panel!TypeOK
  <2>3. PanelLoading' /\ PanelCurrent'
    BY <1>1, <1>4, <1>5, <2>1 DEF PanelInv, PanelLoading, PanelCurrent
  <2> QED BY <2>2, <2>3 DEF PanelInv
<1>7. CASE ~net.calls[i].cancelled
  <2>1. /\ view'.models \in {net.calls[i].key, None}
        /\ view'.loading = FALSE /\ view'.settle = TRUE
        /\ UNCHANGED <<view.key, view.model>>
    BY <1>7 DEF Panel!Answer, PanelInv, PanelType, Panel!TypeOK
  <2>2. view' \in [key : Panel!Choices, model : Panel!Choices,
                   models : Panel!Choices, loading : BOOLEAN,
                   settle : BOOLEAN]
    BY <1>2, <1>7 DEF Panel!Answer, PanelInv, PanelType, Panel!TypeOK,
                      Panel!Choices, Panel!Call
  <2>3. PanelType'
    BY <1>1, <1>3, <2>2 DEF PanelInv, PanelType, PanelConstants, Panel!TypeOK
  <2>4. PanelLive(i)
    BY <1>1, <1>2, <1>7 DEF PanelLive, Panel!Call
  <2>5. PanelLoading' /\ PanelCurrent'
    BY <1>1, <1>4, <1>5, <2>1, <2>4 DEF PanelInv, PanelLoading, PanelCurrent
  <2> QED BY <2>3, <2>5 DEF PanelInv
<1> QED BY <1>6, <1>7

LEMMA PanelSettle == ASSUME PanelInv, Panel!Settle PROVE PanelInv'
<1>1. /\ UNCHANGED <<view.key, view.models, view.loading, net>>
      /\ view'.settle = FALSE
      /\ view'.model = IF view.key = None THEN None
                       ELSE IF view.models # None THEN view.models
                       ELSE IF ~view.loading THEN view.key ELSE view.model
  BY DEF Panel!Settle, PanelInv, PanelType, Panel!TypeOK
<1>2. view' \in [key : Panel!Choices, model : Panel!Choices,
                 models : Panel!Choices, loading : BOOLEAN, settle : BOOLEAN]
  BY DEF Panel!Settle, PanelInv, PanelType, Panel!TypeOK, Panel!Choices
<1>3. PanelType'
  BY <1>1, <1>2 DEF PanelInv, PanelType, PanelConstants, Panel!TypeOK
<1>4. \A i \in Panel!CallIds : PanelLive(i)' <=> PanelLive(i)
  BY <1>1 DEF PanelLive
<1>5. PanelLoading' /\ PanelCurrent'
  BY <1>1, <1>4 DEF PanelInv, PanelLoading, PanelCurrent
<1> QED BY <1>3, <1>5 DEF PanelInv

LEMMA PanelKept == ASSUME PanelInv, Panel!Next PROVE PanelInv'
BY PanelSelect, PanelAnswer, PanelSettle DEF Panel!Next

LEMMA PanelStutters ==
    ASSUME PanelInv, UNCHANGED <<view, net>> PROVE PanelInv'
BY DEF PanelInv, PanelType, PanelConstants, PanelLoading, PanelCurrent,
       PanelLive, Panel!TypeOK

LEMMA PanelStarts ==
    ASSUME PanelConstants, None \notin Panel!Call, Panel!Init PROVE PanelInv
BY DEF PanelConstants, Panel!Init, PanelInv, PanelType, Panel!TypeOK,
       PanelLoading, PanelCurrent, PanelLive, Panel!Choices

LEMMA PanelShows ==
    ASSUME PanelInv
    PROVE  Panel!TypeOK /\ Panel!ShownIsCurrent /\ Panel!LoadingHasAnEnd
<1>1. \A i \in Panel!CallIds : PanelLive(i) => i \in Panel!Live
  BY DEF PanelLive, Panel!Live, Panel!Pending
<1>2. Panel!ShownIsCurrent
  BY DEF PanelInv, PanelCurrent, PanelLive, Panel!ShownIsCurrent,
         Panel!ListOffered, Panel!Pending
<1>3. Panel!LoadingHasAnEnd
  BY <1>1 DEF PanelInv, PanelLoading, Panel!LoadingHasAnEnd
<1> QED BY <1>2, <1>3 DEF PanelInv, PanelType

-----------------------------------------------------------------------------
(* RequestExplorer: a list that nothing overtakes is the one of filter and *)
(* page, and what the drawer waits for is the row that was clicked.        *)

CONSTANTS Queries, MaxPages, MaxLists

Explorer == INSTANCE RequestExplorer WITH MaxTurns <- Clicks

ExplorerConstants ==
    /\ None \notin Int /\ None \notin Explorer!Cursor
    /\ MaxPages \in Nat \ {0} /\ MaxLists \in Nat \ {0} /\ Clicks \in Nat

ExplorerList == [at : {"none", "sent", "ok"}, of : Explorer!Cursor \union {None},
                 pages : 0 .. MaxPages]
ExplorerFetch == [row : Explorer!Rows \union {None}, cancelled : BOOLEAN]

ExplorerView ==
    /\ DOMAIN view = {"q", "page", "of", "pages", "loading", "selected", "row",
                      "fetching", "tab", "text", "waiting"}
    /\ view.q \in Queries /\ view.page \in 1 .. MaxPages
    /\ view.of \in Explorer!Cursor \union {None}
    /\ view.pages \in 0 .. MaxPages /\ view.loading \in BOOLEAN
    /\ view.selected \in Explorer!Rows \union {None}
    /\ view.row \in Explorer!Rows \union {None}
    /\ view.text \in Explorer!Rows \union {None}
    /\ view.tab \in Explorer!DrawerTabs
    /\ view.fetching \in BOOLEAN /\ view.waiting \in BOOLEAN

ExplorerNet ==
    /\ DOMAIN net = {"pages", "sent", "lists", "detail", "payload", "turns",
                     "crossed"}
    /\ net.pages \in [Queries -> 0 .. MaxPages]
    /\ net.sent \in Explorer!ListIds
    /\ net.lists \in [Explorer!ListIds -> ExplorerList]
    /\ net.detail \in ExplorerFetch /\ net.payload \in ExplorerFetch
    /\ net.turns \in 0 .. Clicks /\ net.crossed \in BOOLEAN

\* One list at a time, for the filter and the page shown above it.
ExplorerLists ==
    /\ \A i \in Explorer!ListIds :
        /\ net.lists[i].at # "none" => net.lists[i].of \in Explorer!Cursor
        /\ net.lists[i].at = "ok" =>
            net.lists[i].pages = net.pages[net.lists[i].of.q]
    /\ view.loading =>
        \E i \in Explorer!ListIds : net.lists[i].at # "none"
    /\ ~net.crossed =>
        /\ view.page = 1 \/ view.page <= net.pages[view.q]
        /\ \A i \in Explorer!ListIds : net.lists[i].at # "none" =>
            /\ net.lists[i].of = [q |-> view.q, page |-> view.page]
            /\ \A j \in Explorer!ListIds : net.lists[j].at # "none" => j = i
        /\ (\A i \in Explorer!ListIds : net.lists[i].at = "none") =>
            /\ view.of = [q |-> view.q, page |-> view.page]
            /\ view.pages = net.pages[view.q]

\* Row and response of the drawer are on their way or those of the selection.
ExplorerDrawer ==
    /\ view.fetching => /\ net.detail.row # None /\ view.tab = "pipeline"
                        /\ net.detail.cancelled = FALSE
    /\ net.detail.row # None /\ net.detail.cancelled = FALSE =>
        view.fetching /\ net.detail.row = view.selected
    /\ view.selected # None /\ ~view.fetching /\ view.row # None =>
        view.row = view.selected
    /\ net.payload.row # None /\ net.payload.cancelled = FALSE =>
        /\ view.selected = net.payload.row /\ view.tab = "response"
        /\ ~view.fetching /\ view.row = view.selected
    /\ view.tab = "response" /\ view.waiting =>
        net.payload.row # None /\ net.payload.cancelled = FALSE
    /\ Explorer!ResponseShown => view.text = view.selected

ExplorerInv == /\ ExplorerConstants /\ ExplorerView /\ ExplorerNet
               /\ ExplorerLists /\ ExplorerDrawer

\* The fields of the lists and those of the drawer.
LEMMA ExplorerListsApart ==
    ASSUME ExplorerInv,
           UNCHANGED <<view.selected, view.row, view.fetching, view.tab,
                       view.text, view.waiting, net.detail, net.payload>>
    PROVE  ExplorerDrawer'
BY DEF ExplorerInv, ExplorerDrawer, Explorer!ResponseShown,
       Explorer!DrawerShown

LEMMA ExplorerDrawerApart ==
    ASSUME ExplorerInv,
           UNCHANGED <<view.q, view.page, view.of, view.pages, view.loading,
                       net.pages, net.lists, net.crossed>>
    PROVE  ExplorerLists'
BY DEF ExplorerInv, ExplorerLists

LEMMA NoListType ==
    ASSUME ExplorerConstants
    PROVE  Explorer!NoList \in ExplorerList /\ Explorer!NoList.at = "none"
BY DEF Explorer!NoList, ExplorerList, ExplorerConstants

LEMMA ExplorerFetchTypes ==
    /\ Explorer!Idle \in ExplorerFetch /\ Explorer!Idle.row = None
    /\ \A r \in Explorer!Rows :
        /\ [row |-> r, cancelled |-> FALSE] \in ExplorerFetch
        /\ [row |-> r, cancelled |-> FALSE].row = r
        /\ [row |-> r, cancelled |-> FALSE].cancelled = FALSE
    /\ \A f \in ExplorerFetch :
        /\ [f EXCEPT !.cancelled = TRUE] \in ExplorerFetch
        /\ [f EXCEPT !.cancelled = TRUE].cancelled = TRUE
        /\ [f EXCEPT !.cancelled = TRUE].row = f.row
BY DEF Explorer!Idle, ExplorerFetch

\* A list asked for while none is under way, or one that crosses another.
LEMMA ExplorerAsk ==
    ASSUME ExplorerInv, NEW q \in Queries, NEW page \in 1 .. MaxPages,
           Explorer!Ask(q, page),
           ~net.crossed /\ Explorer!Pending = {} =>
             page = 1 \/ page <= net.pages[q]
    PROVE  ExplorerInv'
<1> USE DEF ExplorerInv
<1> DEFINE of == [q |-> q, page |-> page]
           list == [Explorer!NoList EXCEPT !.at = "sent", !.of = of]
<1>1. /\ view'.q = q /\ view'.page = page /\ view'.loading = TRUE
      /\ UNCHANGED <<view.of, view.pages, view.selected, view.row,
                     view.fetching, view.tab, view.text, view.waiting>>
      /\ DOMAIN view' = DOMAIN view
  BY DEF Explorer!Ask, ExplorerView
<1>2. /\ net'.sent = net.sent + 1
      /\ net'.crossed = (net.crossed \/ Explorer!Pending # {})
      /\ net'.lists = [net.lists EXCEPT ![net.sent + 1] = list]
      /\ UNCHANGED <<net.pages, net.detail, net.payload, net.turns>>
      /\ DOMAIN net' = DOMAIN net
  BY DEF Explorer!Ask, ExplorerNet
<1>3. net.sent + 1 \in Explorer!ListIds
  BY DEF Explorer!Ask, ExplorerNet, Explorer!ListIds, ExplorerConstants
<1>4. of \in Explorer!Cursor
  BY DEF Explorer!Cursor
<1>5. list \in ExplorerList /\ list.at = "sent" /\ list.of = of
  <2> HIDE DEF of
  <2> QED BY <1>4, NoListType DEF ExplorerList
<1>6. ExplorerView'
  BY <1>1 DEF ExplorerView
<1> HIDE DEF list
<1>7. net'.lists \in [Explorer!ListIds -> ExplorerList]
  BY <1>2, <1>5 DEF ExplorerNet
<1>8. ExplorerNet'
  BY <1>2, <1>3, <1>7 DEF ExplorerNet
<1>9. \A i \in Explorer!ListIds : net'.lists[i] =
        IF i = net.sent + 1 THEN list ELSE net.lists[i]
  BY <1>2 DEF ExplorerNet
<1>10. ExplorerDrawer'
  BY <1>1, <1>2, ExplorerListsApart
<1>11. ~net'.crossed =>
         /\ ~net.crossed
         /\ \A i \in Explorer!ListIds : net.lists[i].at = "none"
         /\ page = 1 \/ page <= net.pages[q]
  BY <1>2 DEF Explorer!Pending
<1>12. ExplorerLists'
  <2>1. \A i \in Explorer!ListIds :
          /\ net'.lists[i].at # "none" => net'.lists[i].of \in Explorer!Cursor
          /\ net'.lists[i].at = "ok" =>
               net'.lists[i].pages = net'.pages[net'.lists[i].of.q]
    BY <1>2, <1>4, <1>5, <1>9 DEF ExplorerLists
  <2>2. \E i \in Explorer!ListIds : net'.lists[i].at # "none"
    BY <1>3, <1>5, <1>9
  <2>3. ~net'.crossed => \A i \in Explorer!ListIds :
          net'.lists[i].at # "none" =>
            net'.lists[i].of = of /\ i = net.sent + 1
    BY <1>5, <1>9, <1>11
  <2> QED BY <1>1, <1>2, <1>11, <2>1, <2>2, <2>3 DEF ExplorerLists
<1> QED BY <1>6, <1>8, <1>10, <1>12 DEF ExplorerConstants

LEMMA ExplorerFilter == ASSUME ExplorerInv, Explorer!Filter PROVE ExplorerInv'
<1>1. PICK q \in Queries : Explorer!Ask(q, 1)
  BY DEF Explorer!Filter, Explorer!FiltersOffered
<1>2. 1 \in 1 .. MaxPages
  BY DEF ExplorerInv, ExplorerConstants
<1> QED BY <1>1, <1>2, ExplorerAsk

LEMMA ExplorerPage == ASSUME ExplorerInv, Explorer!ChangePage PROVE ExplorerInv'
<1>1. PICK p \in Explorer!PagesOffered : Explorer!Ask(view.q, p)
  BY DEF Explorer!ChangePage
<1>2. p \in 1 .. view.pages
  BY DEF Explorer!PagesOffered
<1>3. p \in 1 .. MaxPages /\ view.q \in Queries /\ p <= view.pages
  BY <1>2 DEF ExplorerInv, ExplorerView, ExplorerConstants
<1>4. ~net.crossed /\ Explorer!Pending = {} => view.pages = net.pages[view.q]
  BY DEF ExplorerInv, ExplorerLists, Explorer!Pending
<1> QED BY <1>1, <1>3, <1>4, ExplorerAsk

LEMMA ExplorerServeList ==
    ASSUME ExplorerInv, NEW i \in Explorer!ListIds, Explorer!ServeList(i)
    PROVE  ExplorerInv'
<1> USE DEF ExplorerInv
<1> DEFINE list == [net.lists[i] EXCEPT !.at = "ok",
                       !.pages = net.pages[net.lists[i].of.q]]
<1>1. /\ net.lists[i].at = "sent" /\ UNCHANGED view
      /\ net'.lists = [net.lists EXCEPT ![i] = list]
      /\ UNCHANGED <<net.pages, net.sent, net.detail, net.payload, net.turns,
                     net.crossed>>
      /\ DOMAIN net' = DOMAIN net
  BY DEF Explorer!ServeList, ExplorerNet
<1>2. net.lists[i] \in ExplorerList /\ net.lists[i].of \in Explorer!Cursor
  BY <1>1 DEF ExplorerNet, ExplorerLists
<1>3. net.pages[net.lists[i].of.q] \in 0 .. MaxPages
  BY <1>2 DEF ExplorerNet, Explorer!Cursor
<1>4. /\ list \in ExplorerList /\ list.at = "ok"
      /\ list.of = net.lists[i].of
      /\ list.pages = net.pages[net.lists[i].of.q]
  BY <1>2, <1>3 DEF ExplorerList
<1> HIDE DEF list
<1>5. net'.lists \in [Explorer!ListIds -> ExplorerList]
  BY <1>1, <1>4 DEF ExplorerNet
<1>6. ExplorerView' /\ ExplorerNet'
  BY <1>1, <1>5 DEF ExplorerView, ExplorerNet
<1>7. \A j \in Explorer!ListIds : net'.lists[j] =
        IF j = i THEN list ELSE net.lists[j]
  BY <1>1 DEF ExplorerNet
<1>8. ExplorerLists'
  BY <1>1, <1>2, <1>4, <1>7, SMTT(30) DEF ExplorerLists
<1>9. ExplorerDrawer'
  BY <1>1, ExplorerListsApart
<1> QED BY <1>6, <1>8, <1>9 DEF ExplorerConstants

LEMMA ExplorerListArrives ==
    ASSUME ExplorerInv, NEW i \in Explorer!ListIds, Explorer!ListArrives(i)
    PROVE  ExplorerInv'
<1> USE DEF ExplorerInv
<1>1. /\ net.lists[i].at = "ok"
      /\ view'.of = net.lists[i].of /\ view'.loading = FALSE
      /\ view'.pages = net.lists[i].pages
      /\ UNCHANGED <<view.q, view.page, view.selected, view.row,
                     view.fetching, view.tab, view.text, view.waiting>>
      /\ DOMAIN view' = DOMAIN view
      /\ net'.lists = [net.lists EXCEPT ![i] = Explorer!NoList]
      /\ UNCHANGED <<net.pages, net.sent, net.detail, net.payload, net.turns,
                     net.crossed>>
      /\ DOMAIN net' = DOMAIN net
  BY DEF Explorer!ListArrives, ExplorerNet, ExplorerView
<1>2. net.lists[i] \in ExplorerList
  BY DEF ExplorerNet
<1>3. net.lists[i].of \in Explorer!Cursor \union {None}
      /\ net.lists[i].pages \in 0 .. MaxPages
  BY <1>2 DEF ExplorerList
<1>4. net'.lists \in [Explorer!ListIds -> ExplorerList]
  BY <1>1, NoListType DEF ExplorerNet
<1>5. ExplorerView' /\ ExplorerNet'
  BY <1>1, <1>3, <1>4 DEF ExplorerView, ExplorerNet
<1>6. \A j \in Explorer!ListIds : net'.lists[j] =
        IF j = i THEN Explorer!NoList ELSE net.lists[j]
  BY <1>1 DEF ExplorerNet
<1>7. ExplorerLists'
  <2>1. \A j \in Explorer!ListIds :
          /\ net'.lists[j].at # "none" => net'.lists[j].of \in Explorer!Cursor
          /\ net'.lists[j].at = "ok" =>
               net'.lists[j].pages = net'.pages[net'.lists[j].of.q]
    BY <1>1, <1>6, NoListType DEF ExplorerLists
  <2>2. ~net.crossed => /\ view'.of = [q |-> view.q, page |-> view.page]
                        /\ view'.pages = net.pages[view'.of.q]
    BY <1>1 DEF ExplorerLists
  <2>3. ~net.crossed => \A j \in Explorer!ListIds :
          net'.lists[j].at = "none"
    BY <1>1, <1>6, NoListType DEF ExplorerLists
  <2>4. ~net.crossed => (view.page = 1 \/ view.page <= net.pages[view.q])
    BY DEF ExplorerLists
  <2> QED BY <1>1, <2>1, <2>2, <2>3, <2>4 DEF ExplorerLists
<1>8. ExplorerDrawer'
  BY <1>1, ExplorerListsApart
<1> QED BY <1>5, <1>7, <1>8 DEF ExplorerConstants

LEMMA ExplorerListFails ==
    ASSUME ExplorerInv, NEW i \in Explorer!ListIds, Explorer!ListFails(i)
    PROVE  ExplorerInv'
<1> USE DEF ExplorerInv
<1>1. /\ view'.loading = FALSE
      /\ UNCHANGED <<view.q, view.page, view.of, view.pages, view.selected,
                     view.row, view.fetching, view.tab, view.text,
                     view.waiting>>
      /\ DOMAIN view' = DOMAIN view
  BY DEF Explorer!ListFails, ExplorerView
<1>2. /\ net'.lists = [net.lists EXCEPT ![i] = Explorer!NoList]
      /\ net'.crossed = TRUE /\ net'.turns = net.turns + 1
      /\ UNCHANGED <<net.pages, net.sent, net.detail, net.payload>>
      /\ DOMAIN net' = DOMAIN net
  BY DEF Explorer!ListFails, Explorer!Turned, ExplorerNet
<1>3. net'.turns \in 0 .. Clicks
  BY <1>2 DEF Explorer!ListFails, Explorer!Turn, ExplorerNet,
              ExplorerConstants
<1>4. net'.lists \in [Explorer!ListIds -> ExplorerList]
  BY <1>2, NoListType DEF ExplorerNet
<1>5. ExplorerView' /\ ExplorerNet'
  BY <1>1, <1>2, <1>3, <1>4 DEF ExplorerView, ExplorerNet
<1>6. \A j \in Explorer!ListIds : net'.lists[j] =
        IF j = i THEN Explorer!NoList ELSE net.lists[j]
  BY <1>2 DEF ExplorerNet
<1>7. ExplorerLists'
  BY <1>1, <1>2, <1>6, NoListType DEF ExplorerLists
<1>8. ExplorerDrawer'
  BY <1>1, <1>2, ExplorerListsApart
<1> QED BY <1>5, <1>7, <1>8 DEF ExplorerConstants

LEMMA ExplorerOpenRow == ASSUME ExplorerInv, Explorer!OpenRow PROVE ExplorerInv'
<1> USE DEF ExplorerInv
<1>1. PICK r \in Explorer!RowsOffered :
        /\ view' = [view EXCEPT !.selected = r, !.row = None, !.text = None,
                       !.fetching = TRUE, !.tab = "pipeline",
                       !.waiting = FALSE]
        /\ net' = [Explorer!Turned EXCEPT
                     !.detail = [row |-> r, cancelled |-> FALSE]]
  BY DEF Explorer!OpenRow
<1>2. r \in Explorer!Rows /\ view.selected = None
  BY DEF Explorer!RowsOffered
<1> DEFINE detail == [row |-> r, cancelled |-> FALSE]
<1>a. r # None
  BY <1>2 DEF Explorer!Rows, ExplorerConstants
<1>3. /\ detail \in ExplorerFetch /\ detail.row = r /\ r # None
      /\ detail.cancelled = FALSE
  BY <1>2, <1>a, ExplorerFetchTypes
<1>4. /\ view'.selected = r /\ view'.row = None /\ view'.text = None
      /\ view'.fetching = TRUE /\ view'.tab = "pipeline"
      /\ view'.waiting = FALSE
      /\ UNCHANGED <<view.q, view.page, view.of, view.pages, view.loading>>
      /\ DOMAIN view' = DOMAIN view
  BY <1>1 DEF ExplorerView
<1>5. /\ net'.turns = net.turns + 1 /\ net'.detail = detail
      /\ UNCHANGED <<net.pages, net.sent, net.lists, net.payload, net.crossed>>
      /\ DOMAIN net' = DOMAIN net
  BY <1>1 DEF ExplorerNet, Explorer!Turned
<1> HIDE DEF detail
<1>6. net'.turns \in 0 .. Clicks
  BY <1>5 DEF Explorer!OpenRow, Explorer!Turn, ExplorerNet,
              ExplorerConstants
<1>7. ExplorerView' /\ ExplorerNet'
  BY <1>2, <1>3, <1>4, <1>5, <1>6 DEF ExplorerView, ExplorerNet,
                                      Explorer!DrawerTabs
<1>8. ExplorerLists'
  BY <1>4, <1>5, ExplorerDrawerApart
<1>9. ~(net.payload.row # None /\ net.payload.cancelled = FALSE)
  BY <1>2 DEF ExplorerDrawer
<1>10. ExplorerDrawer'
  BY <1>3, <1>4, <1>5, <1>9 DEF ExplorerDrawer, Explorer!ResponseShown
<1> QED BY <1>7, <1>8, <1>10 DEF ExplorerConstants

LEMMA ExplorerCloseRow ==
    ASSUME ExplorerInv, Explorer!CloseRow PROVE ExplorerInv'
<1> USE DEF ExplorerInv
<1>1. /\ view'.selected = None /\ view'.fetching = FALSE
      /\ view'.waiting = FALSE
      /\ UNCHANGED <<view.q, view.page, view.of, view.pages, view.loading,
                     view.row, view.tab, view.text>>
      /\ DOMAIN view' = DOMAIN view
  BY DEF Explorer!CloseRow, ExplorerView
<1>2. /\ net'.detail = [net.detail EXCEPT !.cancelled = TRUE]
      /\ net'.payload = [net.payload EXCEPT !.cancelled = TRUE]
      /\ UNCHANGED <<net.pages, net.sent, net.lists, net.turns, net.crossed>>
      /\ DOMAIN net' = DOMAIN net
  BY DEF Explorer!CloseRow, ExplorerNet
<1>3. /\ net'.detail \in ExplorerFetch /\ net'.payload \in ExplorerFetch
      /\ net'.detail.cancelled = TRUE /\ net'.payload.cancelled = TRUE
  BY <1>2, ExplorerFetchTypes DEF ExplorerNet
<1>4. ExplorerView' /\ ExplorerNet'
  BY <1>1, <1>2, <1>3 DEF ExplorerView, ExplorerNet
<1>5. ExplorerLists'
  BY <1>1, <1>2, ExplorerDrawerApart
<1>6. ExplorerDrawer'
  BY <1>1, <1>3 DEF ExplorerDrawer, Explorer!ResponseShown,
                    Explorer!DrawerShown
<1> QED BY <1>4, <1>5, <1>6 DEF ExplorerConstants

LEMMA ExplorerRowArrives ==
    ASSUME ExplorerInv, Explorer!RowArrives PROVE ExplorerInv'
<1> USE DEF ExplorerInv
<1>1. /\ net.detail.row # None /\ net'.detail = Explorer!Idle
      /\ UNCHANGED <<net.pages, net.sent, net.lists, net.payload, net.turns,
                     net.crossed>>
      /\ DOMAIN net' = DOMAIN net
  BY DEF Explorer!RowArrives, ExplorerNet
<1>2. net.detail.row \in Explorer!Rows /\ net.detail.cancelled \in BOOLEAN
  BY <1>1 DEF ExplorerNet, ExplorerFetch
<1>3. ExplorerNet'
  BY <1>1, ExplorerFetchTypes DEF ExplorerNet
<1>4. CASE net.detail.cancelled
  <2>1. UNCHANGED view
    BY <1>4 DEF Explorer!RowArrives
  <2>2. ~view.fetching
    BY <1>4 DEF ExplorerDrawer
  <2>3. ExplorerLists'
    BY <1>1, <2>1, ExplorerDrawerApart
  <2>4. ExplorerDrawer'
    BY <1>1, <2>1, <2>2, ExplorerFetchTypes
       DEF ExplorerDrawer, Explorer!ResponseShown, Explorer!DrawerShown
  <2> QED BY <1>3, <2>1, <2>3, <2>4 DEF ExplorerView, ExplorerConstants
<1>5. CASE ~net.detail.cancelled
  <2>1. /\ view'.row \in {net.detail.row, None} /\ view'.fetching = FALSE
        /\ UNCHANGED <<view.q, view.page, view.of, view.pages, view.loading,
                       view.selected, view.tab, view.text, view.waiting>>
        /\ DOMAIN view' = DOMAIN view
    BY <1>5 DEF Explorer!RowArrives, ExplorerView
  <2>2. view.fetching /\ view.tab = "pipeline"
        /\ net.detail.row = view.selected
    BY <1>1, <1>2, <1>5 DEF ExplorerDrawer
  <2>3. ExplorerView'
    BY <1>2, <2>1 DEF ExplorerView
  <2>4. ExplorerLists'
    BY <1>1, <2>1, ExplorerDrawerApart
  <2>5. ExplorerDrawer'
    BY <1>1, <2>1, <2>2, ExplorerFetchTypes
       DEF ExplorerDrawer, Explorer!ResponseShown, Explorer!DrawerShown
  <2> QED BY <1>3, <2>3, <2>4, <2>5 DEF ExplorerConstants
<1> QED BY <1>4, <1>5

LEMMA ExplorerOpenTab == ASSUME ExplorerInv, Explorer!OpenTab PROVE ExplorerInv'
<1> USE DEF ExplorerInv
<1>1. PICK t \in Explorer!DrawerTabs \ {view.tab} :
        /\ view' = [view EXCEPT !.tab = t,
                                !.waiting = @ \/ t = "response"]
        /\ net' = [Explorer!Turned EXCEPT
             !.payload = IF t = "response" THEN Explorer!Fetched(view.row)
                         ELSE [@ EXCEPT !.cancelled = TRUE]]
  BY DEF Explorer!OpenTab
<1>2. /\ view'.tab = t /\ view'.waiting = (view.waiting \/ t = "response")
      /\ UNCHANGED <<view.q, view.page, view.of, view.pages, view.loading,
                     view.selected, view.row, view.fetching, view.text>>
      /\ DOMAIN view' = DOMAIN view
  BY <1>1 DEF ExplorerView
<1>3. /\ net'.turns = net.turns + 1
      /\ net'.payload = IF t = "response" THEN Explorer!Fetched(view.row)
                        ELSE [net.payload EXCEPT !.cancelled = TRUE]
      /\ UNCHANGED <<net.pages, net.sent, net.lists, net.detail, net.crossed>>
      /\ DOMAIN net' = DOMAIN net
  BY <1>1 DEF ExplorerNet, Explorer!Turned
<1>4. /\ view.selected # None /\ ~view.fetching /\ view.row # None
      /\ view.row = view.selected /\ view.row \in Explorer!Rows
  BY DEF Explorer!OpenTab, Explorer!DrawerShown, ExplorerDrawer, ExplorerView
<1>5. net'.turns \in 0 .. Clicks
  BY <1>3 DEF Explorer!OpenTab, Explorer!Turn, ExplorerNet,
              ExplorerConstants
<1>6. t = "response" => /\ net'.payload \in ExplorerFetch
                        /\ net'.payload.row = view.row
                        /\ net'.payload.cancelled = FALSE
  BY <1>3, <1>4, ExplorerFetchTypes DEF Explorer!Fetched
<1>7. t # "response" => /\ net'.payload \in ExplorerFetch
                        /\ net'.payload.cancelled = TRUE
  BY <1>3, ExplorerFetchTypes DEF ExplorerNet
<1>8. ExplorerView' /\ ExplorerNet'
  BY <1>2, <1>3, <1>5, <1>6, <1>7 DEF ExplorerView, ExplorerNet
<1>9. ExplorerLists'
  BY <1>2, <1>3, ExplorerDrawerApart
<1>10. ExplorerDrawer'
  BY <1>2, <1>3, <1>4, <1>6, <1>7 DEF ExplorerDrawer, Explorer!ResponseShown
<1> QED BY <1>8, <1>9, <1>10 DEF ExplorerConstants

LEMMA ExplorerPayloadArrives ==
    ASSUME ExplorerInv, Explorer!PayloadArrives PROVE ExplorerInv'
<1> USE DEF ExplorerInv
<1>1. /\ net.payload.row # None /\ net'.payload = Explorer!Idle
      /\ UNCHANGED <<net.pages, net.sent, net.lists, net.detail, net.turns,
                     net.crossed>>
      /\ DOMAIN net' = DOMAIN net
  BY DEF Explorer!PayloadArrives, ExplorerNet
<1>2. net.payload.row \in Explorer!Rows /\ net.payload.cancelled \in BOOLEAN
  BY <1>1 DEF ExplorerNet, ExplorerFetch
<1>3. ExplorerNet'
  BY <1>1, ExplorerFetchTypes DEF ExplorerNet
<1>4. CASE net.payload.cancelled
  <2>1. UNCHANGED view
    BY <1>4 DEF Explorer!PayloadArrives
  <2>2. ExplorerLists'
    BY <1>1, <2>1, ExplorerDrawerApart
  <2>3. ExplorerDrawer'
    BY <1>1, <1>4, <2>1, ExplorerFetchTypes
       DEF ExplorerDrawer, Explorer!ResponseShown, Explorer!DrawerShown
  <2> QED BY <1>3, <2>1, <2>2, <2>3 DEF ExplorerView, ExplorerConstants
<1>5. CASE ~net.payload.cancelled
  <2>1. /\ view'.text = net.payload.row /\ view'.waiting = FALSE
        /\ UNCHANGED <<view.q, view.page, view.of, view.pages, view.loading,
                       view.selected, view.row, view.fetching, view.tab>>
        /\ DOMAIN view' = DOMAIN view
    BY <1>5 DEF Explorer!PayloadArrives, ExplorerView
  <2>2. view.selected = net.payload.row
    BY <1>1, <1>2, <1>5 DEF ExplorerDrawer
  <2>3. ExplorerView'
    BY <1>2, <2>1 DEF ExplorerView
  <2>4. ExplorerLists'
    BY <1>1, <2>1, ExplorerDrawerApart
  <2>5. ExplorerDrawer'
    BY <1>1, <2>1, <2>2, ExplorerFetchTypes
       DEF ExplorerDrawer, Explorer!ResponseShown
  <2> QED BY <1>3, <2>3, <2>4, <2>5 DEF ExplorerConstants
<1> QED BY <1>4, <1>5

LEMMA ExplorerKept == ASSUME ExplorerInv, Explorer!Next PROVE ExplorerInv'
BY ExplorerFilter, ExplorerPage, ExplorerServeList, ExplorerListArrives,
   ExplorerListFails, ExplorerOpenRow, ExplorerCloseRow, ExplorerRowArrives,
   ExplorerOpenTab, ExplorerPayloadArrives DEF Explorer!Next

LEMMA ExplorerStutters ==
    ASSUME ExplorerInv, UNCHANGED <<view, net>> PROVE ExplorerInv'
<1>1. ExplorerLists' /\ ExplorerDrawer'
  BY ExplorerDrawerApart, ExplorerListsApart
<1> QED BY <1>1 DEF ExplorerInv, ExplorerConstants, ExplorerView, ExplorerNet

LEMMA ExplorerStarts ==
    ASSUME ExplorerConstants, Explorer!Init PROVE ExplorerInv
<1>1. PICK q \in Queries, pages \in [Queries -> 0 .. MaxPages] :
        /\ view = [q |-> q, page |-> 1, of |-> None, pages |-> 0,
                   loading |-> TRUE, selected |-> None, row |-> None,
                   fetching |-> FALSE, tab |-> "pipeline", text |-> None,
                   waiting |-> FALSE]
        /\ net = [pages |-> pages, sent |-> 1,
                  lists |-> [[i \in Explorer!ListIds |-> Explorer!NoList]
                     EXCEPT ![1] = [Explorer!NoList EXCEPT !.at = "sent",
                                      !.of = [q |-> q, page |-> 1]]],
                  detail |-> Explorer!Idle, payload |-> Explorer!Idle,
                  turns |-> 0, crossed |-> FALSE]
  BY DEF Explorer!Init
<1> DEFINE of == [q |-> q, page |-> 1]
           list == [Explorer!NoList EXCEPT !.at = "sent", !.of = of]
<1>2. 1 \in Explorer!ListIds /\ of \in Explorer!Cursor
  BY DEF ExplorerConstants, Explorer!ListIds, Explorer!Cursor
<1>3. list \in ExplorerList /\ list.at = "sent" /\ list.of = of
  <2> HIDE DEF of
  <2> QED BY <1>2, NoListType DEF ExplorerList
<1> HIDE DEF list
<1>4. net.lists = [[i \in Explorer!ListIds |-> Explorer!NoList]
                     EXCEPT ![1] = list]
  BY <1>1 DEF list
<1>5. net.lists \in [Explorer!ListIds -> ExplorerList]
  BY <1>3, <1>4, NoListType
<1>6. \A i \in Explorer!ListIds : net.lists[i] =
        IF i = 1 THEN list ELSE Explorer!NoList
  BY <1>4
<1>7. ExplorerView
  BY <1>1 DEF ExplorerView, ExplorerConstants, Explorer!DrawerTabs
<1>8. ExplorerNet
  BY <1>1, <1>2, <1>5, ExplorerFetchTypes DEF ExplorerNet, ExplorerConstants
<1>9. ExplorerLists
  <2>1. /\ view.loading = TRUE /\ view.page = 1 /\ view.q = q
        /\ net.crossed = FALSE
    BY <1>1
  <2> QED BY <1>2, <1>3, <1>6, <2>1, NoListType DEF ExplorerLists
<1>10. ExplorerDrawer
  BY <1>1, ExplorerFetchTypes DEF ExplorerDrawer, Explorer!ResponseShown
<1> QED BY <1>7, <1>8, <1>9, <1>10 DEF ExplorerInv

LEMMA ExplorerShows ==
    ASSUME ExplorerInv
    PROVE  /\ Explorer!TypeOK /\ Explorer!ShownIsCurrent
           /\ Explorer!LoadingHasAnEnd
<1>1. Explorer!TypeOK
  BY DEF ExplorerInv, ExplorerView, ExplorerNet, Explorer!TypeOK
<1>2. Explorer!Pending = {} <=>
        \A i \in Explorer!ListIds : net.lists[i].at = "none"
  BY DEF Explorer!Pending
<1>3. net.pages[view.q] \in 0 .. MaxPages /\ view.page \in 1 .. MaxPages
  BY DEF ExplorerInv, ExplorerView, ExplorerNet
<1>4. Explorer!ShownIsCurrent
  BY <1>2, <1>3 DEF ExplorerInv, ExplorerLists, ExplorerDrawer,
                    ExplorerConstants, Explorer!ShownIsCurrent,
                    Explorer!DrawerShown
<1>5. Explorer!LoadingHasAnEnd
  BY <1>2 DEF ExplorerInv, ExplorerLists, ExplorerDrawer,
              Explorer!LoadingHasAnEnd
<1> QED BY <1>1, <1>4, <1>5

-----------------------------------------------------------------------------
(* FirewallModal: what is denied was discovered before, or the discovered  *)
(* tools expired since.                                                    *)

CONSTANTS Tools, ModalCalls, MaxEdits

Firewall == INSTANCE FirewallModal WITH MaxCalls <- ModalCalls

FirewallConstants ==
    ModalCalls \in Nat /\ MaxEdits \in Nat /\ MaxFaults \in Nat

FirewallCall == [kind : {"free", "get", "post"},
                 at : {"none", "sent", "half", "answered"}, tool : SUBSET Tools,
                 deny : BOOLEAN, discovered : SUBSET Tools,
                 denied : SUBSET Tools, ver : Nat, mounted : BOOLEAN]

FirewallInv ==
    /\ FirewallConstants
    /\ DOMAIN net = {"discovered", "denied", "ver", "calls", "edits", "faults",
                     "expired"}
    /\ net.ver \in Nat
    /\ Firewall!TypeOK
    /\ Firewall!DenialIsListed

LEMMA FirewallSlot ==
    /\ Firewall!Slot \in FirewallCall
    /\ [Firewall!Slot EXCEPT !.kind = "get"] \in FirewallCall
    /\ [Firewall!Slot EXCEPT !.kind = "get"].kind = "get"
    /\ \A t \in Tools, d \in BOOLEAN :
         [Firewall!Slot EXCEPT !.kind = "post", !.tool = {t}, !.deny = d]
            \in FirewallCall
<1>1. Firewall!Slot \in FirewallCall
  BY DEF Firewall!Slot, FirewallCall
<1> QED BY <1>1 DEF FirewallCall

LEMMA FirewallView ==
    ASSUME FirewallInv
    PROVE  /\ view \in [open : BOOLEAN, form : {"asOpened", "edited"},
                        discovered : SUBSET Tools, denied : SUBSET Tools,
                        ver : Nat]
           /\ net.calls \in [Firewall!CallIds -> FirewallCall]
BY DEF FirewallInv, Firewall!TypeOK, FirewallCall

\* A step on the calls alone.
LEMMA FirewallCalls ==
    ASSUME FirewallInv,
           net'.calls \in [Firewall!CallIds -> FirewallCall],
           view' \in [open : BOOLEAN, form : {"asOpened", "edited"},
                      discovered : SUBSET Tools, denied : SUBSET Tools,
                      ver : Nat],
           DOMAIN net' = DOMAIN net,
           UNCHANGED <<net.discovered, net.denied, net.ver, net.expired>>,
           net'.edits \in 0 .. MaxEdits, net'.faults \in 0 .. MaxFaults
    PROVE  FirewallInv'
BY DEF FirewallInv, FirewallConstants, Firewall!TypeOK, FirewallCall,
       Firewall!DenialIsListed

LEMMA FirewallSend ==
    ASSUME FirewallInv, NEW i \in Firewall!CallIds, NEW call \in FirewallCall,
           Firewall!Send(i, call), call.kind = "get" \/ Firewall!Edits,
           UNCHANGED view
    PROVE  FirewallInv'
<1> DEFINE sent == [call EXCEPT !.at = "sent"]
<1>1. sent \in FirewallCall
  BY DEF FirewallCall
<1>2. /\ net'.calls = [net.calls EXCEPT ![i] = sent]
      /\ net'.edits = net.edits + (IF call.kind = "post" THEN 1 ELSE 0)
      /\ UNCHANGED <<net.discovered, net.denied, net.ver, net.expired,
                     net.faults>>
      /\ DOMAIN net' = DOMAIN net
  BY DEF Firewall!Send, FirewallInv
<1> HIDE DEF sent
<1>3. net'.calls \in [Firewall!CallIds -> FirewallCall]
  BY <1>1, <1>2, FirewallView
<1>4. net'.edits \in 0 .. MaxEdits /\ net'.faults \in 0 .. MaxFaults
  BY <1>2 DEF Firewall!Edits, FirewallInv, FirewallConstants, Firewall!TypeOK
<1> QED BY <1>2, <1>3, <1>4, FirewallView, FirewallCalls

LEMMA FirewallPoll ==
    ASSUME FirewallInv, NEW i \in Firewall!CallIds,
           Firewall!Poll(i) \/ Firewall!ToggleTool(i)
    PROVE  FirewallInv'
<1>1. CASE Firewall!Poll(i)
  BY <1>1, FirewallSlot, FirewallSend DEF Firewall!Poll
<1>2. CASE Firewall!ToggleTool(i)
  <2>1. PICK t \in Firewall!ToolsOffered :
          Firewall!Send(i, [Firewall!Slot EXCEPT !.kind = "post",
                              !.tool = {t}, !.deny = t \notin view.denied])
    BY <1>2 DEF Firewall!ToggleTool
  <2>2. t \in Tools /\ (t \notin view.denied) \in BOOLEAN
    BY FirewallView DEF Firewall!ToolsOffered
  <2> DEFINE call == [Firewall!Slot EXCEPT !.kind = "post", !.tool = {t},
                                           !.deny = t \notin view.denied]
  <2>3. call \in FirewallCall
    BY <2>2, FirewallSlot
  <2>4. Firewall!Send(i, call) /\ Firewall!Edits /\ UNCHANGED view
    BY <1>2, <2>1 DEF Firewall!ToggleTool
  <2> HIDE DEF call
  <2> QED BY <2>3, <2>4, FirewallSend
<1> QED BY <1>1, <1>2

LEMMA FirewallForm ==
    ASSUME FirewallInv,
           Firewall!EditForm \/ Firewall!Close \/ Firewall!Remount
    PROVE  FirewallInv'
<1>1. view' \in [open : BOOLEAN, form : {"asOpened", "edited"},
                 discovered : SUBSET Tools, denied : SUBSET Tools, ver : Nat]
  <2>1. CASE Firewall!EditForm
    BY <2>1, FirewallView DEF Firewall!EditForm
  <2>2. CASE Firewall!Close
    BY <2>2, FirewallView DEF Firewall!Close
  <2>3. CASE Firewall!Remount
    BY <2>3, FirewallView DEF Firewall!Remount
  <2> QED BY <2>1, <2>2, <2>3
<1>2. /\ net'.edits \in {net.edits, net.edits + 1}
      /\ Firewall!Edits \/ net'.edits = net.edits
      /\ UNCHANGED <<net.discovered, net.denied, net.ver, net.expired,
                     net.faults>>
      /\ DOMAIN net' = DOMAIN net
  BY DEF Firewall!EditForm, Firewall!Close, Firewall!Remount, FirewallInv
<1>3. net'.edits \in 0 .. MaxEdits /\ net'.faults \in 0 .. MaxFaults
  BY <1>2 DEF Firewall!Edits, FirewallInv, FirewallConstants, Firewall!TypeOK
<1>4. \A i \in Firewall!CallIds :
        [net.calls[i] EXCEPT !.mounted = FALSE] \in FirewallCall
  <2> TAKE i \in Firewall!CallIds
  <2>1. net.calls[i] \in FirewallCall
    BY FirewallView
  <2> QED BY <2>1 DEF FirewallCall
<1>5. \/ net'.calls = net.calls
      \/ net'.calls = [i \in Firewall!CallIds |->
                         [net.calls[i] EXCEPT !.mounted = FALSE]]
  BY DEF Firewall!EditForm, Firewall!Close, Firewall!Remount, FirewallInv
<1>6. net'.calls \in [Firewall!CallIds -> FirewallCall]
  BY <1>4, <1>5, FirewallView
<1> QED BY <1>1, <1>2, <1>3, <1>6, FirewallCalls

\* A read, a lost call, and an answer.
LEMMA FirewallAnswers ==
    ASSUME FirewallInv, NEW i \in Firewall!CallIds,
           \/ Firewall!ReadDiscovered(i) \/ Firewall!ReadDenied(i)
           \/ Firewall!Lost(i) \/ Firewall!Arrives(i)
    PROVE  FirewallInv'
<1> DEFINE c == net.calls[i]
           read == [c EXCEPT !.at = "half", !.discovered = net.discovered]
           told == [c EXCEPT !.at = "answered", !.denied = net.denied,
                             !.ver = net.ver]
<1>1. c \in FirewallCall
  BY FirewallView
<1>2. net.discovered \subseteq Tools /\ net.denied \subseteq Tools
      /\ net.ver \in Nat
  BY DEF FirewallInv, Firewall!TypeOK
<1>3. read \in FirewallCall /\ told \in FirewallCall
  <2> HIDE DEF c
  <2> QED BY <1>1, <1>2 DEF FirewallCall
<1>4. /\ \E x \in {read, told, Firewall!Slot} :
            net'.calls = [net.calls EXCEPT ![i] = x]
      /\ UNCHANGED <<net.discovered, net.denied, net.ver, net.expired,
                     net.edits>>
      /\ DOMAIN net' = DOMAIN net
      /\ \/ net'.faults = net.faults
         \/ net'.faults = net.faults + 1 /\ net.faults < MaxFaults
  <2>0. DOMAIN net = {"discovered", "denied", "ver", "calls", "edits",
                      "faults", "expired"}
    BY DEF FirewallInv
  <2>1. CASE Firewall!ReadDiscovered(i)
    <3>1. net'.calls = [net.calls EXCEPT ![i] = read]
      BY <2>0, <2>1 DEF Firewall!ReadDiscovered
    <3> QED BY <2>0, <2>1, <3>1 DEF Firewall!ReadDiscovered
  <2>2. CASE Firewall!ReadDenied(i)
    <3>1. net'.calls = [net.calls EXCEPT ![i] = told]
      BY <2>0, <2>2 DEF Firewall!ReadDenied
    <3> QED BY <2>0, <2>2, <3>1 DEF Firewall!ReadDenied
  <2>3. CASE Firewall!Lost(i)
    BY <2>0, <2>3 DEF Firewall!Lost
  <2>4. CASE Firewall!Arrives(i)
    BY <2>0, <2>4 DEF Firewall!Arrives
  <2> QED BY <2>1, <2>2, <2>3, <2>4
<1>5. net'.calls \in [Firewall!CallIds -> FirewallCall]
  <2> HIDE DEF read, told
  <2> QED BY <1>3, <1>4, FirewallView, FirewallSlot
<1>6. net'.edits \in 0 .. MaxEdits /\ net'.faults \in 0 .. MaxFaults
  BY <1>4 DEF FirewallInv, FirewallConstants, Firewall!TypeOK
<1>7. view' \in [open : BOOLEAN, form : {"asOpened", "edited"},
                 discovered : SUBSET Tools, denied : SUBSET Tools, ver : Nat]
  <2>1. /\ c.discovered \in SUBSET Tools /\ c.denied \in SUBSET Tools
        /\ c.ver \in Nat
    BY <1>1 DEF FirewallCall
  <2> QED BY <2>1, FirewallView
          DEF Firewall!ReadDiscovered, Firewall!ReadDenied, Firewall!Lost,
              Firewall!Arrives
<1> QED BY <1>4, <1>5, <1>6, <1>7, FirewallCalls

LEMMA FirewallPost ==
    ASSUME FirewallInv, NEW i \in Firewall!CallIds, Firewall!Post(i)
    PROVE  FirewallInv'
<1> DEFINE c == net.calls[i]
           denied == IF c.deny THEN net.denied \union c.tool
                     ELSE net.denied \ c.tool
           told == [c EXCEPT !.at = "answered", !.denied = denied,
                             !.ver = net.ver + 1]
<1>1. c \in FirewallCall /\ c.tool \subseteq Tools
  BY FirewallView DEF FirewallCall
<1>2. /\ net.discovered \subseteq Tools /\ net.denied \subseteq Tools
      /\ net.ver \in Nat
      /\ net.denied \subseteq net.discovered \union net.expired
  BY DEF FirewallInv, Firewall!TypeOK, Firewall!DenialIsListed
<1>3. /\ denied \subseteq Tools
      /\ denied \subseteq net.discovered \union c.tool \union net.expired
  BY <1>1, <1>2
<1>4. /\ net'.discovered = net.discovered \union c.tool
      /\ net'.denied = denied /\ net'.ver = net.ver + 1
      /\ net'.calls = [net.calls EXCEPT ![i] = told]
      /\ UNCHANGED <<net.expired, net.edits, net.faults, view>>
      /\ DOMAIN net' = DOMAIN net
  BY DEF Firewall!Post, FirewallInv
<1> HIDE DEF c, denied
<1>a. denied \in SUBSET Tools /\ net.ver + 1 \in Nat
  BY <1>2, <1>3
<1>5. told \in FirewallCall
  BY <1>1, <1>a DEF FirewallCall
<1> HIDE DEF told
<1>6. net'.calls \in [Firewall!CallIds -> FirewallCall]
  BY <1>4, <1>5, FirewallView
<1>7. Firewall!TypeOK'
  BY <1>1, <1>2, <1>3, <1>4, <1>6 DEF FirewallInv, Firewall!TypeOK,
                                      FirewallCall
<1>8. Firewall!DenialIsListed'
  BY <1>3, <1>4 DEF Firewall!DenialIsListed
<1> QED BY <1>2, <1>4, <1>7, <1>8 DEF FirewallInv, FirewallConstants

LEMMA FirewallExpires ==
    ASSUME FirewallInv, Firewall!DiscoveredExpires PROVE FirewallInv'
<1>1. /\ net'.discovered = {} /\ net'.edits = net.edits + 1
      /\ net'.expired = net.expired \union net.denied
      /\ UNCHANGED <<net.denied, net.ver, net.calls, net.faults, view>>
      /\ DOMAIN net' = DOMAIN net
  BY DEF Firewall!DiscoveredExpires, FirewallInv
<1>2. net'.edits \in 0 .. MaxEdits
  BY <1>1 DEF Firewall!DiscoveredExpires, Firewall!Edits, FirewallInv,
              FirewallConstants, Firewall!TypeOK
<1> QED BY <1>1, <1>2 DEF FirewallInv, FirewallConstants, Firewall!TypeOK,
                          Firewall!DenialIsListed

LEMMA FirewallKept == ASSUME FirewallInv, Firewall!Next PROVE FirewallInv'
BY FirewallPoll, FirewallForm, FirewallAnswers, FirewallPost, FirewallExpires
   DEF Firewall!Next, Firewall!Serve

LEMMA FirewallStutters ==
    ASSUME FirewallInv, UNCHANGED <<view, net>> PROVE FirewallInv'
BY DEF FirewallInv, FirewallConstants, Firewall!TypeOK,
       Firewall!DenialIsListed

LEMMA FirewallStarts ==
    ASSUME FirewallConstants, Firewall!Init PROVE FirewallInv
<1>1. PICK seen \in SUBSET Tools :
        /\ view = [open |-> TRUE, form |-> "asOpened", discovered |-> {},
                   denied |-> {}, ver |-> 0]
        /\ net = [discovered |-> seen, denied |-> {}, ver |-> 0,
                  calls |-> [i \in Firewall!CallIds |-> Firewall!Slot],
                  edits |-> 0, faults |-> 0, expired |-> {}]
  BY DEF Firewall!Init
<1>2. net.calls \in [Firewall!CallIds -> FirewallCall]
  BY <1>1, FirewallSlot
<1>3. Firewall!TypeOK
  BY <1>1, <1>2 DEF Firewall!TypeOK, FirewallCall, FirewallConstants
<1> QED BY <1>1, <1>3 DEF FirewallInv, Firewall!DenialIsListed

-----------------------------------------------------------------------------
(* SettingsPage: whoever changes a row still has to reload the list or has *)
(* reloaded it, so an outdated list only stays when it overtook a newer    *)
(* one or when a change or its reload was never answered.                  *)

CONSTANTS SettingsKeys, Tiers, UserTier, MaxOps

Settings == INSTANCE SettingsPage WITH Keys <- SettingsKeys

SettingsConstants ==
    /\ SettingsKeys # {} /\ UserTier \in Tiers
    /\ MaxOps \in Nat /\ MaxFaults \in Nat

SettingsView ==
    /\ DOMAIN view = {"status", "local", "loading", "keys", "ver", "modal",
                      "snippet", "profile", "activating", "returned"}
    /\ view.status \in {"loading", "in", "left"} /\ view.local \in BOOLEAN
    /\ view.loading \in BOOLEAN /\ view.keys \in Settings!Tables
    /\ view.ver \in Nat /\ view.modal \in SettingsKeys \union {None}
    /\ view.snippet \in SettingsKeys \union {None}
    /\ view.profile \in Tiers \union {None}
    /\ view.activating \in BOOLEAN /\ view.returned \in BOOLEAN

SettingsNet ==
    /\ DOMAIN net = {"rows", "used", "ver", "ops", "faults", "overtaken",
                     "missed", "stuck"}
    /\ net.rows \in Settings!Tables /\ net.used \subseteq SettingsKeys
    /\ net.ver \in Nat /\ net.ops \in [Settings!OpIds -> Settings!Op]
    /\ net.faults \in 0 .. MaxFaults /\ net.overtaken \in BOOLEAN
    /\ net.missed \in BOOLEAN /\ net.stuck \in BOOLEAN

\* What a handler knows of its change, and what it said.
SettingsToast(o) ==
    /\ o.at \in {"unused", "sent"} =>
        o.verdict = "none" /\ o.told = "none" /\ o.done = FALSE
    /\ o.at = "ok" => o.done = TRUE \/ (o.kind = "purge" /\ o.blind = TRUE)
    /\ o.at = "failed" => o.done = FALSE \/ o.blind = TRUE
    /\ "success" \in {o.verdict, o.told} =>
          o.done = TRUE \/ (o.kind = "purge" /\ o.blind = TRUE)
    /\ "error" \in {o.verdict, o.told} => o.done = FALSE \/ o.blind = TRUE
    /\ o.at \in {"ok", "failed"} => o.told = "none"

SettingsToasts == \A i \in Settings!OpIds : SettingsToast(net.ops[i])

SettingsLoading ==
    view.status = "in" /\ view.loading =>
        net.stuck = TRUE \/ \E i \in Settings!OpIds : Settings!Fetching(i)

\* A handler that will ask for the list again or miss it.
Due(i) ==
    LET o == net.ops[i] IN
    \/ o.at = "ok" /\ o.kind \in Settings!Changes
    \/ o.at \in {"sent", "ok", "failed"} /\ o.kind = "delete"
    \/ o.at \in {"fetching", "refused", "rejected"}

\* One whose list is on its way; ver orders the lists.
Brings(i, v) == /\ net.ops[i].at = "fetched" /\ net.ops[i].snap = net.rows
                /\ net.ops[i].ver >= v

Excused == net.missed = TRUE \/ net.overtaken = TRUE
               \/ \E i \in Settings!OpIds : Due(i)

\* An outdated list on its way will be followed or is late, and an outdated
\* list on the page will be replaced.
SettingsCurrent ==
    /\ view.ver <= net.ver
    /\ \A i \in Settings!OpIds : net.ops[i].at = "fetched" =>
        /\ net.ops[i].ver <= net.ver
        /\ net.ops[i].ver = net.ver => net.ops[i].snap = net.rows
    /\ view.status = "in" /\ ~Excused =>
        /\ \A i \in Settings!OpIds :
            net.ops[i].at = "fetched" /\ net.ops[i].snap # net.rows =>
                \/ \E j \in Settings!OpIds : Brings(j, net.ops[i].ver + 1)
                \/ view.ver > net.ops[i].ver /\ view.keys = net.rows
        /\ view.keys = net.rows
               \/ \E j \in Settings!OpIds : Brings(j, view.ver)

SettingsInv == /\ SettingsConstants /\ SettingsView /\ SettingsNet
               /\ SettingsToasts /\ SettingsLoading /\ SettingsCurrent

LEMMA TableTypes ==
    /\ Settings!NoTable \in Settings!Tables
    /\ \A t \in Settings!Tables :
        /\ DOMAIN t \subseteq SettingsKeys
        /\ \A k \in DOMAIN t : t[k] \in Settings!Row
        /\ \A k : [x \in DOMAIN t \ {k} |-> t[x]] \in Settings!Tables
        /\ \A k \in SettingsKeys :
             [x \in DOMAIN t \union {k} |->
                 IF x = k THEN Settings!Fresh ELSE t[x]] \in Settings!Tables
        /\ \A k \in DOMAIN t, f \in {"mode", "firewall"}, b \in BOOLEAN :
             [t EXCEPT ![k][f] = b] \in Settings!Tables
<1>1. ASSUME NEW S \in SUBSET SettingsKeys, NEW t \in [S -> Settings!Row]
      PROVE  t \in Settings!Tables
  BY DEF Settings!Tables
<1>2. Settings!NoTable \in Settings!Tables
  <2>1. Settings!NoTable \in [{} -> Settings!Row]
    BY DEF Settings!NoTable
  <2> QED BY <1>1, <2>1
<1>3. Settings!Fresh \in Settings!Row
  <2>1. [mode : BOOLEAN, firewall : BOOLEAN]
          = [{"mode", "firewall"} -> BOOLEAN]
    OBVIOUS
  <2> QED BY <2>1 DEF Settings!Fresh, Settings!Row
<1>4. ASSUME NEW t \in Settings!Tables
      PROVE  /\ DOMAIN t \subseteq SettingsKeys
             /\ t \in [DOMAIN t -> Settings!Row]
  BY DEF Settings!Tables
<1>5. ASSUME NEW t \in Settings!Tables, NEW k
      PROVE  [x \in DOMAIN t \ {k} |-> t[x]] \in Settings!Tables
  <2>1. [x \in DOMAIN t \ {k} |-> t[x]] \in [DOMAIN t \ {k} -> Settings!Row]
    BY <1>4
  <2> QED BY <1>1, <1>4, <2>1
<1>6. ASSUME NEW t \in Settings!Tables, NEW k \in SettingsKeys
      PROVE  [x \in DOMAIN t \union {k} |->
                 IF x = k THEN Settings!Fresh ELSE t[x]] \in Settings!Tables
  <2>1. [x \in DOMAIN t \union {k} |->
           IF x = k THEN Settings!Fresh ELSE t[x]]
             \in [DOMAIN t \union {k} -> Settings!Row]
    BY <1>3, <1>4
  <2> QED BY <1>1, <1>4, <2>1
<1>7. ASSUME NEW t \in Settings!Tables, NEW k \in DOMAIN t,
             NEW f \in {"mode", "firewall"}, NEW b \in BOOLEAN
      PROVE  [t EXCEPT ![k][f] = b] \in Settings!Tables
  <2>1. t[k] \in Settings!Row
    BY <1>4
  <2>2. [t[k] EXCEPT ![f] = b] \in Settings!Row
    BY <2>1 DEF Settings!Row
  <2>3. [t EXCEPT ![k] = [t[k] EXCEPT ![f] = b]] \in [DOMAIN t -> Settings!Row]
    BY <1>4, <2>2
  <2> QED BY <1>1, <1>4, <2>3
<1> QED BY <1>2, <1>4, <1>5, <1>6, <1>7

LEMMA OpTypes ==
    ASSUME NEW o \in Settings!Op
    PROVE  /\ o.kind \in Settings!Kinds /\ o.at \in Settings!Stages
           /\ o.key \in SettingsKeys \union {None} /\ o.val \in BOOLEAN
           /\ o.verdict \in {"none", "success", "error"}
           /\ o.told \in {"none", "success", "error"}
           /\ o.done \in BOOLEAN /\ o.blind \in BOOLEAN
           /\ o.snap \in Settings!Tables /\ o.ver \in Nat
BY DEF Settings!Op

LEMMA UnusedType ==
    /\ Settings!UnusedOp \in Settings!Op
    /\ SettingsToast(Settings!UnusedOp)
    /\ Settings!UnusedOp.at = "unused"
<1>1. Settings!UnusedOp \in Settings!Op
  BY TableTypes DEF Settings!UnusedOp, Settings!Op, Settings!Kinds,
                    Settings!Stages
<1> QED BY <1>1 DEF Settings!UnusedOp, SettingsToast

\* A step that replaces one handler by another of its type.
Became(i, o) ==
    /\ o \in Settings!Op
    /\ net'.ops = [net.ops EXCEPT ![i] = o]

LEMMA BecameType ==
    ASSUME SettingsInv, NEW i \in Settings!OpIds, NEW o, Became(i, o)
    PROVE  /\ net'.ops \in [Settings!OpIds -> Settings!Op]
           /\ net'.ops[i] = o
           /\ \A j \in Settings!OpIds : j # i => net'.ops[j] = net.ops[j]
           /\ SettingsToast(o) => SettingsToasts'
<1>1. net.ops \in [Settings!OpIds -> Settings!Op]
  BY DEF SettingsInv, SettingsNet
<1>2. /\ net'.ops \in [Settings!OpIds -> Settings!Op]
      /\ net'.ops[i] = o
      /\ \A j \in Settings!OpIds : j # i => net'.ops[j] = net.ops[j]
  BY <1>1 DEF Became
<1>3. SettingsToast(o) => SettingsToasts'
  BY <1>2 DEF SettingsInv, SettingsToasts, SettingsToast
<1> QED BY <1>2, <1>3

\* A step that brings no list: whoever will ask again still will, or the answer
\* is missed, and who changes the rows will ask.
LEMMA SettingsQuiet ==
    ASSUME SettingsInv, NEW i \in Settings!OpIds, NEW o, Became(i, o),
           net.ops[i].at # "fetched", o.at # "fetched",
           \/ net'.rows = net.rows /\ net'.ver = net.ver
           \/ /\ net'.rows = net.rows \/ net'.missed = TRUE \/ Due(i)'
              /\ net'.ver = net.ver + 1,
           net'.overtaken = net.overtaken, net.missed => net'.missed = TRUE,
           view'.ver = view.ver,
           \/ view'.status # "in"
           \/ net'.missed = TRUE
           \/ Due(i)'
           \/ ~Due(i) /\ view'.keys = view.keys /\ view.status = "in"
    PROVE  SettingsCurrent'
<1>1. /\ net'.ops[i] = o
      /\ \A j \in Settings!OpIds : j # i => net'.ops[j] = net.ops[j]
  BY BecameType
<1>2. \A j \in Settings!OpIds :
        net'.ops[j].at = "fetched" =>
          net.ops[j].at = "fetched" /\ net'.ops[j] = net.ops[j]
  BY <1>1
<1>v. /\ view.ver \in Nat /\ view.ver + 1 \in Nat /\ net.ver \in Nat
      /\ \A j \in Settings!OpIds :
           net.ops[j].ver \in Nat /\ net.ops[j].ver + 1 \in Nat
  <2>1. \A j \in Settings!OpIds : net.ops[j].ver \in Nat
    BY OpTypes DEF SettingsInv, SettingsNet
  <2> QED BY <2>1 DEF SettingsInv, SettingsView, SettingsNet
<1>3. /\ view'.ver <= net'.ver
      /\ \A j \in Settings!OpIds : net'.ops[j].at = "fetched" =>
          /\ net'.ops[j].ver <= net'.ver
          /\ net'.ops[j].ver = net'.ver => net'.ops[j].snap = net'.rows
  BY <1>2, <1>v DEF SettingsInv, SettingsCurrent
<1>4. CASE view'.status # "in" \/ net'.missed = TRUE \/ Due(i)'
  BY <1>3, <1>4 DEF SettingsCurrent, Excused
<1>5. CASE /\ ~Due(i) /\ view'.keys = view.keys /\ view.status = "in"
           /\ net'.missed # TRUE /\ ~Due(i)'
  <2>1. \A j \in Settings!OpIds : j # i => (Due(j)' <=> Due(j))
    BY <1>1 DEF Due
  <2>2. net.missed # TRUE
    BY <1>5 DEF SettingsInv, SettingsNet
  <2>3. Excused => Excused'
    BY <1>5, <2>1, <2>2 DEF Excused
  <2>r. net'.rows = net.rows
    BY <1>5
  <2>4. \A j \in Settings!OpIds : \A v \in Nat : Brings(j, v) => Brings(j, v)'
    <3>1. \A j \in Settings!OpIds : net.ops[j].at = "fetched" =>
            net'.ops[j] = net.ops[j]
      BY <1>1
    <3> QED BY <2>r, <3>1 DEF Brings
  <2> SUFFICES ASSUME ~Excused'
               PROVE
        /\ \A j \in Settings!OpIds :
            net'.ops[j].at = "fetched" /\ net'.ops[j].snap # net'.rows =>
                \/ \E k \in Settings!OpIds : Brings(k, net.ops[j].ver + 1)'
                \/ view'.ver > net.ops[j].ver /\ view'.keys = net'.rows
        /\ view'.keys = net'.rows
               \/ \E k \in Settings!OpIds : Brings(k, view.ver)'
    BY <1>2, <1>3 DEF SettingsCurrent, Brings
  <2> QED BY <1>2, <1>5, <1>v, <2>3, <2>r, <2>4
          DEF SettingsInv, SettingsCurrent
<1> QED BY <1>4, <1>5

\* Loading is only shown while somebody fetches the list.
LEMMA SettingsSpins ==
    ASSUME SettingsInv, NEW i \in Settings!OpIds, NEW o, Became(i, o),
           net.stuck = TRUE => net'.stuck = TRUE,
           view'.status = "in" /\ view'.loading =>
             \/ net'.stuck = TRUE
             \/ o.at \in {"fetching", "fetched", "refused", "rejected"}
             \/ view.status = "in" /\ view.loading /\ ~Settings!Fetching(i)
    PROVE  SettingsLoading'
<1>1. /\ net'.ops[i] = o
      /\ \A j \in Settings!OpIds : j # i => net'.ops[j] = net.ops[j]
  BY BecameType
<1> QED BY <1>1 DEF SettingsInv, SettingsLoading, Settings!Fetching

\* The fields a handler starts with.
LEMMA StartedType ==
    ASSUME NEW kind \in Settings!Kinds, NEW k \in SettingsKeys \union {None},
           NEW val \in BOOLEAN
    PROVE  LET o == [Settings!UnusedOp EXCEPT !.kind = kind, !.at = "sent",
                                              !.key = k, !.val = val]
           IN  /\ o \in Settings!Op /\ o.at = "sent" /\ o.kind = kind
               /\ SettingsToast(o)
<1> DEFINE o == [Settings!UnusedOp EXCEPT !.kind = kind, !.at = "sent",
                                          !.key = k, !.val = val]
<1>1. /\ o.at = "sent" /\ o.kind = kind /\ o.verdict = "none"
      /\ o.told = "none" /\ o.done = FALSE
  BY DEF Settings!UnusedOp
<1>2. o \in Settings!Op
  BY UnusedType DEF Settings!Op, Settings!Stages
<1> QED BY <1>1, <1>2 DEF SettingsToast

LEMMA LoadType ==
    LET o == [Settings!UnusedOp EXCEPT !.kind = "load", !.at = "fetching"]
    IN  /\ o \in Settings!Op /\ o.at = "fetching" /\ o.kind = "load"
        /\ SettingsToast(o)
<1> DEFINE o == [Settings!UnusedOp EXCEPT !.kind = "load", !.at = "fetching"]
<1>1. /\ o.at = "fetching" /\ o.kind = "load" /\ o.verdict = "none"
      /\ o.told = "none" /\ o.done = FALSE
  BY DEF Settings!UnusedOp
<1>2. o \in Settings!Op
  BY UnusedType DEF Settings!Op, Settings!Stages, Settings!Kinds
<1> QED BY <1>1, <1>2 DEF SettingsToast

\* A control of the page starts its handler.
LEMMA SettingsStart ==
    ASSUME SettingsInv, NEW i \in Settings!OpIds,
           \E kind \in Settings!Kinds, k \in SettingsKeys \union {None},
              val \in BOOLEAN :
                /\ Settings!Start(i, kind, k, val)
                /\ kind = "delete" \/ view'.keys = view.keys,
           SettingsView',
           UNCHANGED <<view.status, view.loading, view.ver>>
    PROVE  SettingsInv'
<1>1. PICK kind \in Settings!Kinds, k \in SettingsKeys \union {None},
           val \in BOOLEAN :
        /\ Settings!Start(i, kind, k, val)
        /\ kind = "delete" \/ view'.keys = view.keys
  OBVIOUS
<1> DEFINE o == [Settings!UnusedOp EXCEPT !.kind = kind, !.at = "sent",
                                          !.key = k, !.val = val]
<1>2. /\ o \in Settings!Op /\ o.at = "sent" /\ o.kind = kind
      /\ SettingsToast(o)
  BY StartedType, ZenonT(60)
<1>3. net.ops[i].at = "unused"
  BY <1>1 DEF Settings!Start, Settings!NextId
<1>4. /\ net'.ops = [net.ops EXCEPT ![i] = o]
      /\ UNCHANGED <<net.rows, net.used, net.ver, net.faults, net.overtaken,
                     net.missed, net.stuck>>
      /\ DOMAIN net' = DOMAIN net
  BY <1>1 DEF Settings!Start, SettingsInv, SettingsNet
<1> HIDE DEF o
<1>5. Became(i, o)
  BY <1>2, <1>4 DEF Became
<1>6. SettingsNet' /\ SettingsToasts' /\ net'.ops[i] = o
  BY <1>2, <1>4, <1>5, BecameType DEF SettingsInv, SettingsNet
<1>7. ~Due(i) /\ ~Settings!Fetching(i)
  BY <1>3 DEF Due, Settings!Fetching
<1>8. kind = "delete" => Due(i)'
  BY <1>2, <1>6 DEF Due
<1>9. SettingsCurrent'
  BY <1>1, <1>2, <1>3, <1>4, <1>5, <1>7, <1>8, SettingsQuiet
     DEF SettingsInv, SettingsNet
<1>10. SettingsLoading'
  BY <1>4, <1>5, <1>7, SettingsSpins
<1> QED BY <1>6, <1>9, <1>10 DEF SettingsInv, SettingsConstants

LEMMA SettingsRowTypes ==
    ASSUME SettingsInv
    PROVE  /\ DOMAIN view.keys \subseteq SettingsKeys
           /\ \A k \in DOMAIN view.keys :
                /\ view.keys[k].mode \in BOOLEAN
                /\ (~view.keys[k].mode) \in BOOLEAN
           /\ \A k : [x \in DOMAIN view.keys \ {k} |-> view.keys[x]]
                        \in Settings!Tables
<1>1. view.keys \in Settings!Tables
  BY DEF SettingsInv, SettingsView
<1>2. \A k \in DOMAIN view.keys : view.keys[k] \in Settings!Row
  BY <1>1, TableTypes
<1>3. \A k \in DOMAIN view.keys : view.keys[k].mode \in BOOLEAN
  BY <1>2 DEF Settings!Row
<1> QED BY <1>1, <1>3, TableTypes

LEMMA SettingsControls ==
    ASSUME SettingsInv, NEW i \in Settings!OpIds,
           \/ Settings!GenerateKey(i) \/ Settings!ToggleSetting(i)
           \/ Settings!EditSetting(i) \/ Settings!SaveFirewall(i)
           \/ Settings!PurgeCache(i) \/ Settings!Checkout(i)
    PROVE  SettingsInv'
<1>1. UNCHANGED view
  BY DEF Settings!GenerateKey, Settings!ToggleSetting, Settings!EditSetting,
         Settings!SaveFirewall, Settings!PurgeCache, Settings!Checkout
<1>2. /\ SettingsView'
      /\ UNCHANGED <<view.status, view.loading, view.ver, view.keys>>
  BY <1>1 DEF SettingsInv, SettingsView
<1>3. \E kind \in Settings!Kinds, k \in SettingsKeys \union {None},
         val \in BOOLEAN : Settings!Start(i, kind, k, val)
  <2>1. CASE Settings!GenerateKey(i)
    BY <2>1 DEF Settings!GenerateKey, Settings!Kinds
  <2>2. CASE Settings!ToggleSetting(i)
    <3>1. PICK c \in Settings!KeyToggles :
            Settings!Start(i, "mode", c[2], ~view.keys[c[2]].mode)
      BY <2>2 DEF Settings!ToggleSetting
    <3>2. c[2] \in DOMAIN view.keys
      BY DEF Settings!KeyToggles, Settings!KeysOffered
    <3>3. c[2] \in SettingsKeys /\ (~view.keys[c[2]].mode) \in BOOLEAN
      BY <3>2, SettingsRowTypes
    <3> QED BY <3>1, <3>3 DEF Settings!Kinds
  <2>3. CASE Settings!EditSetting(i)
    <3>1. PICK c \in Settings!KeyInputs, val \in BOOLEAN :
            Settings!Start(i, "mode", c[2], val)
      BY <2>3 DEF Settings!EditSetting
    <3>2. c[2] \in SettingsKeys
      BY SettingsRowTypes DEF Settings!KeyInputs, Settings!KeysOffered
    <3> QED BY <3>1, <3>2 DEF Settings!Kinds
  <2>4. CASE Settings!SaveFirewall(i)
    <3>1. PICK val \in BOOLEAN :
            Settings!Start(i, "firewall", view.modal, val)
      BY <2>4 DEF Settings!SaveFirewall
    <3>2. view.modal \in SettingsKeys \union {None}
      BY DEF SettingsInv, SettingsView
    <3> QED BY <3>1, <3>2 DEF Settings!Kinds
  <2>5. CASE Settings!PurgeCache(i)
    <3>1. PICK c \in Settings!KeyActions :
            Settings!Start(i, "purge", c[2], FALSE)
      BY <2>5 DEF Settings!PurgeCache
    <3>2. c[2] \in SettingsKeys
      BY SettingsRowTypes DEF Settings!KeyActions, Settings!KeysOffered
    <3> QED BY <3>1, <3>2 DEF Settings!Kinds
  <2>6. CASE Settings!Checkout(i)
    BY <2>6 DEF Settings!Checkout, Settings!Kinds
  <2> QED BY <2>1, <2>2, <2>3, <2>4, <2>5, <2>6
<1> QED BY <1>2, <1>3, SettingsStart

LEMMA SettingsDelete ==
    ASSUME SettingsInv, NEW i \in Settings!OpIds, Settings!DeleteKey(i)
    PROVE  SettingsInv'
<1>1. PICK c \in Settings!KeyActions :
        /\ Settings!Start(i, "delete", c[2], FALSE)
        /\ view' = [view EXCEPT !.keys =
                      [k \in DOMAIN view.keys \ {c[2]} |-> view.keys[k]]]
  BY DEF Settings!DeleteKey
<1>2. c[2] \in SettingsKeys
  BY SettingsRowTypes DEF Settings!KeyActions, Settings!KeysOffered
<1> DEFINE keys == [k \in DOMAIN view.keys \ {c[2]} |-> view.keys[k]]
<1>3. keys \in Settings!Tables
  BY SettingsRowTypes
<1>4. /\ view'.keys = keys
      /\ UNCHANGED <<view.status, view.local, view.loading, view.ver,
                     view.modal, view.snippet, view.profile, view.activating,
                     view.returned>>
      /\ DOMAIN view' = DOMAIN view
  BY <1>1 DEF SettingsInv, SettingsView
<1> HIDE DEF keys
<1>5. SettingsView'
  BY <1>3, <1>4 DEF SettingsInv, SettingsView
<1>6. \E kind \in Settings!Kinds, k \in SettingsKeys \union {None},
         val \in BOOLEAN :
           Settings!Start(i, kind, k, val) /\ kind = "delete"
  BY <1>1, <1>2 DEF Settings!Kinds
<1> QED BY <1>4, <1>5, <1>6, SettingsStart

LEMMA SettingsLicense ==
    ASSUME SettingsInv, NEW i \in Settings!OpIds, Settings!ActivateLicense(i)
    PROVE  SettingsInv'
<1>1. /\ view'.activating = TRUE
      /\ UNCHANGED <<view.status, view.local, view.loading, view.keys,
                     view.ver, view.modal, view.snippet, view.profile,
                     view.returned>>
      /\ DOMAIN view' = DOMAIN view
  BY DEF Settings!ActivateLicense, SettingsInv, SettingsView
<1>2. SettingsView'
  BY <1>1 DEF SettingsInv, SettingsView
<1>3. \E kind \in Settings!Kinds, k \in SettingsKeys \union {None},
         val \in BOOLEAN :
           Settings!Start(i, kind, k, val) /\ view'.keys = view.keys
  BY <1>1 DEF Settings!ActivateLicense, Settings!Kinds
<1> QED BY <1>1, <1>2, <1>3, SettingsStart

\* The buttons that ask nobody, and the profile.
LEMMA SettingsLocal ==
    ASSUME SettingsInv,
           \/ Settings!ProfileArrives \/ Settings!OpenFirewall
           \/ Settings!CloseFirewall \/ Settings!CloseSnippet
    PROVE  SettingsInv'
<1>1. UNCHANGED net
  BY DEF Settings!ProfileArrives, Settings!OpenFirewall,
         Settings!CloseFirewall, Settings!CloseSnippet
<1>2. /\ view'.modal \in SettingsKeys \union {None}
      /\ view'.snippet \in SettingsKeys \union {None}
      /\ view'.profile \in Tiers \union {None}
      /\ UNCHANGED <<view.status, view.local, view.loading, view.keys,
                     view.ver, view.activating, view.returned>>
      /\ DOMAIN view' = DOMAIN view
  <2>0. SettingsView /\ SettingsConstants
    BY DEF SettingsInv
  <2>1. CASE Settings!ProfileArrives
    BY <2>0, <2>1 DEF Settings!ProfileArrives, SettingsView,
                      SettingsConstants
  <2>2. CASE Settings!OpenFirewall
    <3>1. PICK c \in Settings!KeyActions :
            view' = [view EXCEPT !.modal = c[2]]
      BY <2>2 DEF Settings!OpenFirewall
    <3>2. c[2] \in SettingsKeys
      BY SettingsRowTypes DEF Settings!KeyActions, Settings!KeysOffered
    <3> QED BY <2>0, <3>1, <3>2 DEF SettingsView
  <2>3. CASE Settings!CloseFirewall \/ Settings!CloseSnippet
    BY <2>0, <2>3 DEF Settings!CloseFirewall, Settings!CloseSnippet,
                      SettingsView
  <2> QED BY <2>1, <2>2, <2>3
<1>3. SettingsView' /\ SettingsNet'
  BY <1>1, <1>2 DEF SettingsInv, SettingsView, SettingsNet
<1>4. \A j \in Settings!OpIds :
        /\ Due(j)' <=> Due(j)
        /\ Settings!Fetching(j)' <=> Settings!Fetching(j)
  BY <1>1 DEF Due, Settings!Fetching
<1>5. SettingsToasts' /\ SettingsLoading'
  BY <1>1, <1>2, <1>4 DEF SettingsInv, SettingsToasts, SettingsToast,
                          SettingsLoading
<1>6. SettingsCurrent'
  BY <1>1, <1>2, <1>4 DEF SettingsInv, SettingsCurrent, Excused, Brings
<1> QED BY <1>3, <1>5, <1>6 DEF SettingsInv, SettingsConstants

\* Every load of the page itself.
LEMMA SettingsLoad ==
    ASSUME SettingsInv, NEW i \in Settings!OpIds, net.ops[i].at = "unused",
           net' = [net EXCEPT !.ops[i] = [Settings!UnusedOp EXCEPT
                            !.kind = "load", !.at = "fetching"]],
           SettingsView', UNCHANGED view.ver
    PROVE  SettingsInv'
<1> DEFINE o == [Settings!UnusedOp EXCEPT !.kind = "load", !.at = "fetching"]
<1>1. o \in Settings!Op /\ o.at = "fetching" /\ SettingsToast(o)
  BY LoadType
<1>2. /\ net'.ops = [net.ops EXCEPT ![i] = o]
      /\ UNCHANGED <<net.rows, net.used, net.ver, net.faults, net.overtaken,
                     net.missed, net.stuck>>
      /\ DOMAIN net' = DOMAIN net
  BY DEF SettingsInv, SettingsNet
<1> HIDE DEF o
<1>3. Became(i, o)
  BY <1>1, <1>2 DEF Became
<1>4. SettingsNet' /\ SettingsToasts' /\ net'.ops[i] = o
  BY <1>1, <1>2, <1>3, BecameType DEF SettingsInv, SettingsNet
<1>5. Due(i)'
  BY <1>1, <1>4 DEF Due
<1>6. SettingsCurrent'
  BY <1>1, <1>2, <1>3, <1>5, SettingsQuiet DEF SettingsInv, SettingsNet
<1>7. SettingsLoading'
  BY <1>1, <1>2, <1>3, SettingsSpins
<1> QED BY <1>4, <1>6, <1>7 DEF SettingsInv, SettingsConstants

LEMMA SettingsLoads ==
    ASSUME SettingsInv, NEW i \in Settings!OpIds,
           Settings!SessionResolves(i) \/ Settings!ParamsCleared(i)
    PROVE  SettingsInv'
<1>1. CASE net' = [net EXCEPT !.ops[i] = [Settings!UnusedOp EXCEPT
                            !.kind = "load", !.at = "fetching"]]
           /\ i \in Settings!NextId
  <2>1. SettingsView' /\ UNCHANGED view.ver
    <3>0. SettingsView
      BY DEF SettingsInv
    <3>1. CASE Settings!SessionResolves(i)
      BY <3>0, <3>1 DEF Settings!SessionResolves, SettingsView
    <3>2. CASE Settings!ParamsCleared(i)
      BY <3>0, <3>2 DEF Settings!ParamsCleared, SettingsView
    <3> QED BY <3>1, <3>2
  <2> QED BY <1>1, <2>1, SettingsLoad DEF Settings!NextId
<1>2. CASE UNCHANGED net /\ view' = [view EXCEPT !.status = "left"]
  <2>1. /\ view'.status = "left"
        /\ UNCHANGED <<view.local, view.loading, view.keys, view.ver,
                       view.modal, view.snippet, view.profile,
                       view.activating, view.returned>>
        /\ DOMAIN view' = DOMAIN view
    BY <1>2 DEF SettingsInv, SettingsView
  <2>2. SettingsView' /\ SettingsNet'
    BY <1>2, <2>1 DEF SettingsInv, SettingsView, SettingsNet
  <2>3. SettingsToasts' /\ SettingsLoading'
    BY <1>2, <2>1 DEF SettingsInv, SettingsToasts, SettingsToast,
                      SettingsLoading
  <2>4. SettingsCurrent'
    BY <1>2, <2>1 DEF SettingsInv, SettingsCurrent
  <2> QED BY <2>2, <2>3, <2>4 DEF SettingsInv, SettingsConstants
<1> QED BY <1>1, <1>2 DEF Settings!SessionResolves, Settings!ParamsCleared

\* The fields of a handler at its steps.
LEMMA SettingsOp ==
    ASSUME SettingsInv, NEW i \in Settings!OpIds
    PROVE  /\ net.ops[i] \in Settings!Op
           /\ SettingsToast(net.ops[i])
BY DEF SettingsInv, SettingsNet, SettingsToasts

LEMMA SettingsCommits ==
    ASSUME SettingsInv, NEW i \in Settings!OpIds, Settings!ServerCommits(i)
    PROVE  SettingsInv'
<1> DEFINE o == net.ops[i]
<1>1. PICK k \in Settings!Targets(o), lost \in BOOLEAN :
        /\ lost => net.faults < MaxFaults
        /\ net' = [net EXCEPT
             !.rows = Settings!Committed(o, k), !.ver = @ + 1,
             !.used = @ \union ({k} \intersect SettingsKeys),
             !.faults = @ + (IF lost THEN 1 ELSE 0),
             !.missed = @ \/ (lost /\ o.kind \in {"create", "mode",
                                                  "firewall"}),
             !.ops[i] = [o EXCEPT !.at = IF lost THEN "failed" ELSE "ok",
                                  !.key = k, !.done = TRUE, !.blind = lost]]
  BY DEF Settings!ServerCommits
<1> DEFINE new == [o EXCEPT !.at = IF lost THEN "failed" ELSE "ok",
                            !.key = k, !.done = TRUE, !.blind = lost]
<1>2. o.at = "sent" /\ UNCHANGED view
  BY DEF Settings!ServerCommits
<1>3. o \in Settings!Op /\ SettingsToast(o)
  BY SettingsOp
<1>4. /\ net'.rows = Settings!Committed(o, k) /\ net'.ver = net.ver + 1
      /\ net'.used = net.used \union ({k} \intersect SettingsKeys)
      /\ net'.faults = net.faults + (IF lost THEN 1 ELSE 0)
      /\ net'.missed = (net.missed \/ (lost /\ o.kind \in {"create", "mode",
                                                           "firewall"}))
      /\ net'.ops = [net.ops EXCEPT ![i] = new]
      /\ UNCHANGED <<net.overtaken, net.stuck>>
      /\ DOMAIN net' = DOMAIN net
  BY <1>1 DEF SettingsInv, SettingsNet
<1> HIDE DEF o
<1>5. k \in SettingsKeys \union {None}
  BY <1>3, OpTypes DEF Settings!Targets
<1>6. /\ new \in Settings!Op /\ new.kind = o.kind /\ new.done = TRUE
      /\ new.at = (IF lost THEN "failed" ELSE "ok") /\ new.blind = lost
      /\ new.verdict = "none" /\ new.told = "none"
  BY <1>2, <1>3, <1>5 DEF Settings!Op, Settings!Stages, SettingsToast
<1> HIDE DEF new
<1>7. SettingsToast(new)
  BY <1>6 DEF SettingsToast
<1>8. net'.rows \in Settings!Tables
  <2>1. net.rows \in Settings!Tables
    BY DEF SettingsInv, SettingsNet
  <2>2. o.kind = "create" => k \in SettingsKeys
    BY DEF Settings!Targets
  <2>3. o.kind \in {"mode", "firewall"} => k \in DOMAIN net.rows
    BY DEF Settings!Targets
  <2>4. o.val \in BOOLEAN
    BY <1>3, OpTypes
  <2>5. CASE o.kind = "create"
    <3>1. net'.rows = [x \in DOMAIN net.rows \union {k} |->
                         IF x = k THEN Settings!Fresh ELSE net.rows[x]]
      BY <1>4, <2>5 DEF Settings!Committed
    <3> QED BY <2>1, <2>2, <2>5, <3>1, TableTypes
  <2>6. CASE o.kind = "delete"
    <3>1. net'.rows = [x \in DOMAIN net.rows \ {k} |-> net.rows[x]]
      BY <1>4, <2>6 DEF Settings!Committed
    <3> QED BY <2>1, <3>1, TableTypes
  <2>7. CASE o.kind \in {"mode", "firewall"}
    <3>1. net'.rows = [net.rows EXCEPT ![k][o.kind] = o.val]
      BY <1>4, <2>7 DEF Settings!Committed
    <3> QED BY <2>1, <2>3, <2>4, <2>7, <3>1, TableTypes
  <2>8. CASE o.kind \notin {"create", "delete", "mode", "firewall"}
    BY <1>4, <2>1, <2>8 DEF Settings!Committed
  <2> QED BY <2>5, <2>6, <2>7, <2>8
<1>9. /\ net'.used \subseteq SettingsKeys /\ net'.ver \in Nat
      /\ net'.missed \in BOOLEAN
  BY <1>4 DEF SettingsInv, SettingsNet
<1>10. net'.faults \in 0 .. MaxFaults
  BY <1>1, <1>4 DEF SettingsInv, SettingsNet, SettingsConstants
<1>11. Became(i, new)
  BY <1>4, <1>6 DEF Became
<1>12. SettingsNet' /\ SettingsToasts' /\ net'.ops[i] = new
  BY <1>4, <1>7, <1>8, <1>9, <1>10, <1>11, BecameType
     DEF SettingsInv, SettingsNet
<1>13. \/ net'.rows = net.rows /\ ~Due(i)
       \/ net'.missed = TRUE
       \/ Due(i)'
  <2>1. CASE o.kind = "delete"
    BY <1>6, <1>12, <2>1 DEF Due
  <2>2. CASE o.kind \in {"create", "mode", "firewall"} /\ ~lost
    BY <1>6, <1>12, <2>2 DEF Due, Settings!Changes
  <2>3. CASE o.kind \in {"create", "mode", "firewall"} /\ lost
    BY <1>4, <2>3 DEF SettingsInv, SettingsNet
  <2>4. CASE o.kind \notin {"create", "delete", "mode", "firewall"}
    BY <1>2, <1>4, <2>4 DEF Due, Settings!Committed, o
  <2> QED BY <2>1, <2>2, <2>3, <2>4
<1>14. net.missed => net'.missed = TRUE
  BY <1>4 DEF SettingsInv, SettingsNet
<1>15. /\ net.ops[i].at # "fetched" /\ new.at # "fetched"
       /\ UNCHANGED <<view.ver, view.keys, view.status>>
  BY <1>2, <1>6 DEF o
<1>16. SettingsCurrent'
  <2>1. \/ view'.status # "in" \/ net'.missed = TRUE \/ Due(i)'
        \/ ~Due(i) /\ view'.keys = view.keys /\ view.status = "in"
    BY <1>13, <1>15
  <2>2. /\ net'.rows = net.rows \/ net'.missed = TRUE \/ Due(i)'
        /\ net'.ver = net.ver + 1 /\ net'.overtaken = net.overtaken
    BY <1>4, <1>13
  <2> QED BY <1>11, <1>14, <1>15, <2>1, <2>2, SettingsQuiet
<1>17. SettingsLoading'
  <2>1. ~Settings!Fetching(i)
    BY <1>2 DEF Settings!Fetching, o
  <2> QED BY <1>2, <1>4, <1>11, <2>1, SettingsSpins
<1>18. SettingsView'
  BY <1>2 DEF SettingsInv, SettingsView
<1> QED BY <1>12, <1>16, <1>17, <1>18 DEF SettingsInv, SettingsConstants

LEMMA SettingsRefuses ==
    ASSUME SettingsInv, NEW i \in Settings!OpIds, Settings!ServerRefuses(i)
    PROVE  SettingsInv'
<1> DEFINE o == net.ops[i]
           new == [o EXCEPT !.at = "failed"]
<1>1. /\ o.at = "sent" /\ UNCHANGED view
      /\ Settings!Targets(o) = {} \/ net.faults < MaxFaults
      /\ net'.faults = net.faults + (IF Settings!Targets(o) = {} THEN 0 ELSE 1)
      /\ net'.ops = [net.ops EXCEPT ![i] = new]
      /\ UNCHANGED <<net.rows, net.used, net.ver, net.overtaken, net.missed,
                     net.stuck>>
      /\ DOMAIN net' = DOMAIN net
  BY DEF Settings!ServerRefuses, SettingsInv, SettingsNet
<1>2. o \in Settings!Op /\ SettingsToast(o)
  BY SettingsOp
<1>a. Due(i) => o.kind = "delete"
  BY <1>1 DEF Due
<1>b. ~Settings!Fetching(i)
  BY <1>1 DEF Settings!Fetching
<1> HIDE DEF o
<1>3. /\ new \in Settings!Op /\ new.kind = o.kind /\ new.done = FALSE
      /\ new.at = "failed" /\ new.verdict = "none" /\ new.told = "none"
  BY <1>1, <1>2 DEF Settings!Op, Settings!Stages, SettingsToast
<1> HIDE DEF new
<1>4. SettingsToast(new)
  BY <1>3 DEF SettingsToast
<1>5. Became(i, new)
  BY <1>1, <1>3 DEF Became
<1>6. net'.faults \in 0 .. MaxFaults
  BY <1>1 DEF SettingsInv, SettingsNet, SettingsConstants
<1>7. SettingsNet' /\ SettingsToasts' /\ net'.ops[i] = new
  BY <1>1, <1>4, <1>5, <1>6, BecameType DEF SettingsInv, SettingsNet
<1>8. o.kind = "delete" => Due(i)'
  BY <1>3, <1>7 DEF Due
<1>9. SettingsCurrent'
  <2>1. net.ops[i].at # "fetched" /\ new.at # "fetched"
    BY <1>1, <1>3 DEF o
  <2>2. /\ UNCHANGED <<view.ver, view.keys, view.status>>
        /\ net.missed => net'.missed = TRUE
    BY <1>1 DEF SettingsInv, SettingsNet
  <2>3. \/ view'.status # "in" \/ Due(i)'
        \/ ~Due(i) /\ view'.keys = view.keys /\ view.status = "in"
    BY <1>8, <1>a, <2>2
  <2> QED BY <1>1, <1>5, <2>1, <2>2, <2>3, SettingsQuiet
<1>10. SettingsLoading'
  BY <1>1, <1>5, <1>b, SettingsSpins
<1>11. SettingsView'
  BY <1>1 DEF SettingsInv, SettingsView
<1> QED BY <1>7, <1>9, <1>10, <1>11 DEF SettingsInv, SettingsConstants

\* A list read now is followed by every handler that changes a row later.
LEMMA SettingsPurges ==
    ASSUME SettingsInv, NEW i \in Settings!OpIds, Settings!PurgesInPart(i)
    PROVE  SettingsInv'
<1> DEFINE o == net.ops[i]
           new == [o EXCEPT !.at = "ok", !.blind = TRUE]
<1>1. /\ o.at = "sent" /\ o.kind = "purge" /\ UNCHANGED view
      /\ net.faults < MaxFaults /\ net'.faults = net.faults + 1
      /\ net'.ops = [net.ops EXCEPT ![i] = new]
      /\ UNCHANGED <<net.rows, net.used, net.ver, net.overtaken, net.missed,
                     net.stuck>>
      /\ DOMAIN net' = DOMAIN net
  BY DEF Settings!PurgesInPart, SettingsInv, SettingsNet
<1>2. o \in Settings!Op /\ SettingsToast(o)
  BY SettingsOp
<1>a. ~Due(i) /\ ~Settings!Fetching(i)
  BY <1>1 DEF Due, Settings!Fetching
<1> HIDE DEF o
<1>3. /\ new \in Settings!Op /\ new.kind = o.kind /\ new.done = FALSE
      /\ new.at = "ok" /\ new.blind = TRUE
      /\ new.verdict = "none" /\ new.told = "none"
  BY <1>1, <1>2 DEF Settings!Op, Settings!Stages, SettingsToast
<1> HIDE DEF new
<1>4. SettingsToast(new)
  BY <1>1, <1>3 DEF SettingsToast
<1>5. Became(i, new)
  BY <1>1, <1>3 DEF Became
<1>6. net'.faults \in 0 .. MaxFaults
  BY <1>1 DEF SettingsInv, SettingsNet, SettingsConstants
<1>7. SettingsNet' /\ SettingsToasts' /\ net'.ops[i] = new
  BY <1>1, <1>4, <1>5, <1>6, BecameType DEF SettingsInv, SettingsNet
<1>8. SettingsCurrent'
  <2>1. net.ops[i].at # "fetched" /\ new.at # "fetched"
    BY <1>1, <1>3 DEF o
  <2>2. /\ UNCHANGED <<view.ver, view.keys, view.status>>
        /\ net.missed => net'.missed = TRUE
    BY <1>1 DEF SettingsInv, SettingsNet
  <2>3. \/ view'.status # "in" \/ Due(i)'
        \/ ~Due(i) /\ view'.keys = view.keys /\ view.status = "in"
    BY <1>a, <2>2
  <2> QED BY <1>1, <1>5, <2>1, <2>2, <2>3, SettingsQuiet
<1>9. SettingsLoading'
  BY <1>1, <1>5, <1>a, SettingsSpins
<1>10. SettingsView'
  BY <1>1 DEF SettingsInv, SettingsView
<1> QED BY <1>7, <1>8, <1>9, <1>10 DEF SettingsInv, SettingsConstants

LEMMA SettingsLists ==
    ASSUME SettingsInv, NEW i \in Settings!OpIds, Settings!ServerLists(i)
    PROVE  SettingsInv'
<1> DEFINE o == net.ops[i]
<1>1. o.at = "fetching" /\ UNCHANGED view
  BY DEF Settings!ServerLists
<1>2. o \in Settings!Op /\ SettingsToast(o)
  BY SettingsOp
<1>3. SettingsView'
  BY <1>1 DEF SettingsInv, SettingsView
<1>4. Due(i)
  BY <1>1 DEF Due
<1>5. CASE net' = [net EXCEPT !.ops[i].at = "fetched",
                              !.ops[i].snap = net.rows,
                              !.ops[i].ver = net.ver]
  <2> DEFINE new == [o EXCEPT !.at = "fetched", !.snap = net.rows,
                              !.ver = net.ver]
  <2>1. /\ net'.ops = [net.ops EXCEPT ![i] = new]
        /\ UNCHANGED <<net.rows, net.used, net.ver, net.faults,
                       net.overtaken, net.missed, net.stuck>>
        /\ DOMAIN net' = DOMAIN net
    BY <1>5 DEF SettingsInv, SettingsNet
  <2>2. net.rows \in Settings!Tables /\ net.ver \in Nat
    BY DEF SettingsInv, SettingsNet
  <2> HIDE DEF o
  <2>3. /\ new \in Settings!Op /\ new.at = "fetched"
        /\ new.snap = net.rows /\ new.ver = net.ver
        /\ new.verdict = o.verdict /\ new.told = o.told
        /\ new.done = o.done /\ new.blind = o.blind /\ new.kind = o.kind
    BY <1>2, <2>2 DEF Settings!Op, Settings!Stages
  <2> HIDE DEF new
  <2>4. SettingsToast(new)
    BY <1>2, <2>3 DEF SettingsToast
  <2>5. Became(i, new)
    BY <2>1, <2>3 DEF Became
  <2>6. /\ SettingsNet' /\ SettingsToasts' /\ net'.ops[i] = new
        /\ \A j \in Settings!OpIds : j # i => net'.ops[j] = net.ops[j]
    BY <2>1, <2>4, <2>5, BecameType DEF SettingsInv, SettingsNet
  <2>7. SettingsLoading'
    BY <1>1, <2>1, <2>3, <2>5, SettingsSpins DEF SettingsInv, SettingsLoading
  <2>8. SettingsCurrent'
    <3>1. \A j \in Settings!OpIds : net.ops[j].ver \in Nat
      BY OpTypes DEF SettingsInv, SettingsNet
    <3>2. view'.ver <= net'.ver
      BY <1>1, <2>1 DEF SettingsInv, SettingsCurrent
    <3>3. \A j \in Settings!OpIds : net'.ops[j].at = "fetched" =>
            /\ net'.ops[j].ver <= net'.ver
            /\ net'.ops[j].ver = net'.ver => net'.ops[j].snap = net'.rows
      BY <2>1, <2>2, <2>3, <2>6 DEF SettingsInv, SettingsCurrent
    <3>4. \A v \in Nat : v <= net.ver => Brings(i, v)'
      BY <2>1, <2>2, <2>3, <2>6 DEF Brings
    <3>5. \A j \in Settings!OpIds :
            net'.ops[j].at = "fetched" /\ net'.ops[j].snap # net'.rows =>
              Brings(i, net.ops[j].ver + 1)' /\ net'.ops[j] = net.ops[j]
      <4> SUFFICES ASSUME NEW j \in Settings!OpIds,
                          net'.ops[j].at = "fetched",
                          net'.ops[j].snap # net'.rows
                   PROVE  /\ Brings(i, net.ops[j].ver + 1)'
                          /\ net'.ops[j] = net.ops[j]
        OBVIOUS
      <4>1. net'.ops[j] = net.ops[j]
        BY <2>1, <2>3, <2>6
      <4>2. \E v \in Nat : v = net'.ops[j].ver + 1 /\ v <= net.ver
        BY <2>1, <2>2, <3>1, <3>3, <4>1
      <4> QED BY <3>4, <4>1, <4>2
    <3>6. Brings(i, view.ver)'
      <4>1. \E v \in Nat : v = view'.ver /\ v <= net.ver
        BY <1>1, <2>1, <3>2 DEF SettingsInv, SettingsView
      <4> QED BY <3>4, <4>1
    <3> QED BY <3>2, <3>3, <3>5, <3>6 DEF SettingsCurrent
  <2> QED BY <1>3, <2>6, <2>7, <2>8 DEF SettingsInv, SettingsConstants
<1>6. CASE /\ net.faults < MaxFaults
           /\ \E how \in {"refused", "rejected"} :
                net' = [net EXCEPT !.ops[i].at = how, !.faults = @ + 1]
  <2>1. PICK how \in {"refused", "rejected"} :
          net' = [net EXCEPT !.ops[i].at = how, !.faults = @ + 1]
    BY <1>6
  <2> DEFINE new == [o EXCEPT !.at = how]
  <2>2. /\ net'.ops = [net.ops EXCEPT ![i] = new]
        /\ net'.faults = net.faults + 1
        /\ UNCHANGED <<net.rows, net.used, net.ver, net.overtaken, net.missed,
                       net.stuck>>
        /\ DOMAIN net' = DOMAIN net
    BY <2>1 DEF SettingsInv, SettingsNet
  <2> HIDE DEF o
  <2>3. /\ new \in Settings!Op /\ new.at = how
        /\ new.verdict = o.verdict /\ new.told = o.told
        /\ new.done = o.done /\ new.blind = o.blind /\ new.kind = o.kind
    BY <1>2 DEF Settings!Op, Settings!Stages
  <2> HIDE DEF new
  <2>4. SettingsToast(new)
    BY <1>2, <2>3 DEF SettingsToast
  <2>5. Became(i, new)
    BY <2>2, <2>3 DEF Became
  <2>6. net'.faults \in 0 .. MaxFaults
    BY <1>6, <2>2 DEF SettingsInv, SettingsNet, SettingsConstants
  <2>7. SettingsNet' /\ SettingsToasts' /\ net'.ops[i] = new
    BY <2>2, <2>4, <2>5, <2>6, BecameType DEF SettingsInv, SettingsNet
  <2>8. SettingsLoading'
    BY <1>1, <2>2, <2>3, <2>5, SettingsSpins DEF SettingsInv, SettingsLoading
  <2>9. Due(i)'
    BY <2>3, <2>7 DEF Due
  <2>10. SettingsCurrent'
    <3>1. net.ops[i].at # "fetched" /\ new.at # "fetched"
      BY <1>1, <2>3 DEF o
    <3>2. UNCHANGED view.ver /\ (net.missed => net'.missed = TRUE)
      BY <1>1, <2>2 DEF SettingsInv, SettingsNet
    <3> QED BY <2>2, <2>5, <2>9, <3>1, <3>2, SettingsQuiet
  <2> QED BY <1>3, <2>7, <2>8, <2>10 DEF SettingsInv, SettingsConstants
<1> QED BY <1>5, <1>6 DEF Settings!ServerLists

LEMMA SettingsReply ==
    ASSUME SettingsInv, NEW i \in Settings!OpIds, Settings!Reply(i)
    PROVE  SettingsInv'
<1> DEFINE o == net.ops[i]
           reloads == Settings!Reloads(o)
           new == [o EXCEPT
                !.at = IF reloads THEN "fetching" ELSE "over",
                !.verdict = Settings!Verdict(o),
                !.told = IF reloads THEN "none" ELSE Settings!Verdict(o)]
<1>1. /\ o.at \in {"ok", "failed"}
      /\ net'.ops = [net.ops EXCEPT ![i] = new]
      /\ UNCHANGED <<net.rows, net.used, net.ver, net.faults, net.overtaken,
                     net.missed, net.stuck>>
      /\ DOMAIN net' = DOMAIN net
  BY DEF Settings!Reply, SettingsInv, SettingsNet
<1>2. /\ view'.loading = (view.loading \/ reloads)
      /\ view'.activating = (view.activating /\ o.kind # "license")
      /\ view'.status = (IF o.at = "ok" /\ o.kind = "checkout" THEN "left"
                         ELSE view.status)
      /\ UNCHANGED <<view.local, view.keys, view.ver, view.modal,
                     view.snippet, view.profile, view.returned>>
      /\ DOMAIN view' = DOMAIN view
  BY DEF Settings!Reply, SettingsInv, SettingsView
<1>3. o \in Settings!Op /\ SettingsToast(o)
  BY SettingsOp
<1>4. reloads \in BOOLEAN
  BY DEF Settings!Reloads
<1>5. Due(i) => reloads
  BY <1>1 DEF Due, Settings!Reloads
<1>6. ~Settings!Fetching(i)
  BY <1>1 DEF Settings!Fetching
<1>7. /\ Settings!Verdict(o) \in {"success", "error"}
      /\ Settings!Verdict(o) = "success" <=> o.at = "ok"
  BY DEF Settings!Verdict
<1>8. net.ops[i].at # "fetched"
  BY <1>1
<1> HIDE DEF o, reloads
<1>9. /\ new \in Settings!Op
      /\ new.at = (IF reloads THEN "fetching" ELSE "over")
      /\ new.verdict = Settings!Verdict(o)
      /\ new.told = (IF reloads THEN "none" ELSE Settings!Verdict(o))
      /\ new.done = o.done /\ new.blind = o.blind /\ new.kind = o.kind
  BY <1>3, <1>7 DEF Settings!Op, Settings!Stages
<1> HIDE DEF new
<1>10. SettingsToast(new)
  BY <1>1, <1>3, <1>7, <1>9 DEF SettingsToast
<1>11. Became(i, new)
  BY <1>1, <1>9 DEF Became
<1>12. SettingsNet' /\ SettingsToasts' /\ net'.ops[i] = new
  BY <1>1, <1>10, <1>11, BecameType DEF SettingsInv, SettingsNet
<1>13. SettingsView'
  BY <1>2, <1>4 DEF SettingsInv, SettingsView
<1>14. reloads => Due(i)'
  BY <1>9, <1>12 DEF Due
<1>15. SettingsCurrent'
  <2>1. new.at # "fetched" /\ (net.missed => net'.missed = TRUE)
    BY <1>1, <1>9 DEF SettingsInv, SettingsNet
  <2>2. \/ view'.status # "in" \/ Due(i)'
        \/ ~Due(i) /\ view'.keys = view.keys /\ view.status = "in"
    BY <1>2, <1>5, <1>14
  <2> QED BY <1>1, <1>2, <1>8, <1>11, <2>1, <2>2, SettingsQuiet
<1>16. SettingsLoading'
  <2>1. view'.status = "in" /\ view'.loading =>
          new.at = "fetching" \/ (view.status = "in" /\ view.loading)
    BY <1>2, <1>9
  <2> QED BY <1>1, <1>6, <1>11, <2>1, SettingsSpins
<1> QED BY <1>12, <1>13, <1>15, <1>16 DEF SettingsInv, SettingsConstants

\* The two ways in which a list does not come.
LEMMA SettingsListFails ==
    ASSUME SettingsInv, NEW i \in Settings!OpIds,
           Settings!ListIsRefused(i) \/ Settings!ListIsLost(i)
    PROVE  SettingsInv'
<1> DEFINE o == net.ops[i]
           again == o.kind = "delete" /\ o.verdict = "success"
           refused == [o EXCEPT !.at = "over", !.blind = TRUE,
                                !.told = o.verdict]
           lost == [o EXCEPT
                !.at = IF again THEN "fetching" ELSE "over",
                !.blind = TRUE, !.verdict = "error",
                !.told = IF o.kind \in {"create", "mode", "firewall"}
                         THEN "error" ELSE "none"]
<1>1. o \in Settings!Op /\ SettingsToast(o)
  BY SettingsOp
<1>2. CASE Settings!ListIsRefused(i)
  <2>1. /\ o.at = "refused" /\ net'.missed = TRUE
        /\ net'.ops = [net.ops EXCEPT ![i] = refused]
        /\ UNCHANGED <<net.rows, net.used, net.ver, net.faults, net.overtaken,
                       net.stuck>>
        /\ DOMAIN net' = DOMAIN net
    BY <1>2 DEF Settings!ListIsRefused, SettingsInv, SettingsNet
  <2>2. /\ view'.loading = FALSE
        /\ view'.snippet = (IF o.kind = "create" THEN o.key ELSE view.snippet)
        /\ view'.modal = (IF o.kind = "firewall" THEN None ELSE view.modal)
        /\ UNCHANGED <<view.status, view.local, view.keys, view.ver,
                       view.profile, view.activating, view.returned>>
        /\ DOMAIN view' = DOMAIN view
    BY <1>2 DEF Settings!ListIsRefused, Settings!Finish, SettingsInv,
                SettingsView
  <2>3. net.ops[i].at # "fetched"
    BY <2>1
  <2> HIDE DEF o
  <2>4. /\ refused \in Settings!Op /\ refused.at = "over"
        /\ refused.blind = TRUE /\ refused.told = o.verdict
        /\ refused.verdict = o.verdict /\ refused.done = o.done
        /\ refused.kind = o.kind
    BY <1>1 DEF Settings!Op, Settings!Stages
  <2> HIDE DEF refused
  <2>5. SettingsToast(refused)
    BY <1>1, <2>4 DEF SettingsToast
  <2>6. Became(i, refused)
    BY <2>1, <2>4 DEF Became
  <2>7. SettingsNet' /\ SettingsToasts'
    BY <2>1, <2>5, <2>6, BecameType DEF SettingsInv, SettingsNet
  <2>8. SettingsView'
    BY <1>1, <2>2, OpTypes DEF SettingsInv, SettingsView
  <2>9. SettingsCurrent'
    <3>1. refused.at # "fetched" /\ (net.missed => net'.missed = TRUE)
      BY <2>1, <2>4
    <3> QED BY <2>1, <2>2, <2>3, <2>6, <3>1, SettingsQuiet
  <2>10. SettingsLoading'
    BY <2>2 DEF SettingsLoading
  <2> QED BY <2>7, <2>8, <2>9, <2>10 DEF SettingsInv, SettingsConstants
<1>3. CASE Settings!ListIsLost(i)
  <2>1. /\ o.at = "rejected" /\ net'.missed = TRUE /\ net'.stuck = TRUE
        /\ net'.ops = [net.ops EXCEPT ![i] = lost]
        /\ UNCHANGED <<net.rows, net.used, net.ver, net.faults, net.overtaken,
                       view>>
        /\ DOMAIN net' = DOMAIN net
    BY <1>3 DEF Settings!ListIsLost, SettingsInv, SettingsNet
  <2>2. net.ops[i].at # "fetched"
    BY <2>1
  <2> HIDE DEF o
  <2>3. /\ lost \in Settings!Op /\ lost.at \in {"fetching", "over"}
        /\ lost.blind = TRUE /\ lost.told \in {"error", "none"}
        /\ lost.verdict = "error" /\ lost.done = o.done
    BY <1>1, ZenonT(60) DEF Settings!Op, Settings!Stages
  <2> HIDE DEF lost
  <2>4. SettingsToast(lost)
    BY <1>1, <2>3 DEF SettingsToast
  <2>5. Became(i, lost)
    BY <2>1, <2>3 DEF Became
  <2>6. SettingsNet' /\ SettingsToasts'
    BY <2>1, <2>4, <2>5, BecameType DEF SettingsInv, SettingsNet
  <2>7. SettingsView'
    BY <2>1 DEF SettingsInv, SettingsView
  <2>8. SettingsCurrent'
    <3>1. lost.at # "fetched" /\ (net.missed => net'.missed = TRUE)
      BY <2>1, <2>3
    <3> QED BY <2>1, <2>2, <2>5, <3>1, SettingsQuiet
  <2>9. SettingsLoading'
    BY <2>1 DEF SettingsLoading
  <2> QED BY <2>6, <2>7, <2>8, <2>9 DEF SettingsInv, SettingsConstants
<1> QED BY <1>2, <1>3

\* A list that is put on the page is the newest of those on their way, or a
\* newer one follows it, or the page has been overtaken.
LEMMA SettingsListArrives ==
    ASSUME SettingsInv, NEW i \in Settings!OpIds, Settings!ListArrives(i)
    PROVE  SettingsInv'
<1> DEFINE o == net.ops[i]
           new == [o EXCEPT !.at = "over", !.told = o.verdict,
                            !.snap = Settings!NoTable, !.ver = 0]
<1>1. /\ o.at = "fetched"
      /\ net'.ops = [net.ops EXCEPT ![i] = new]
      /\ net'.overtaken = ((net.overtaken \/ o.ver < view.ver)
                              /\ o.ver < net.ver)
      /\ net'.missed = (net.missed /\ o.ver < net.ver)
      /\ UNCHANGED <<net.rows, net.used, net.ver, net.faults, net.stuck>>
      /\ DOMAIN net' = DOMAIN net
  BY DEF Settings!ListArrives, SettingsInv, SettingsNet
<1>2. /\ view'.keys = o.snap /\ view'.ver = o.ver /\ view'.loading = FALSE
      /\ view'.snippet = (IF o.kind = "create" THEN o.key ELSE view.snippet)
      /\ view'.modal = (IF o.kind = "firewall" THEN None ELSE view.modal)
      /\ UNCHANGED <<view.status, view.local, view.profile, view.activating,
                     view.returned>>
      /\ DOMAIN view' = DOMAIN view
  BY DEF Settings!ListArrives, Settings!Finish, SettingsInv, SettingsView
<1>3. o \in Settings!Op /\ SettingsToast(o)
  BY SettingsOp
<1>4. net.ops[i].at = "fetched" /\ ~Due(i)
  BY <1>1 DEF Due
<1>5. o.ver = net.ops[i].ver /\ o.snap = net.ops[i].snap
  OBVIOUS
<1> HIDE DEF o
<1>6. /\ new \in Settings!Op /\ new.at = "over" /\ new.told = o.verdict
      /\ new.verdict = o.verdict /\ new.done = o.done
      /\ new.blind = o.blind /\ new.kind = o.kind
  BY <1>3, TableTypes DEF Settings!Op, Settings!Stages
<1> HIDE DEF new
<1>7. SettingsToast(new)
  BY <1>3, <1>6 DEF SettingsToast
<1>8. Became(i, new)
  BY <1>1, <1>6 DEF Became
<1>9. /\ net'.ops \in [Settings!OpIds -> Settings!Op] /\ net'.ops[i] = new
      /\ \A j \in Settings!OpIds : j # i => net'.ops[j] = net.ops[j]
      /\ SettingsToasts'
  BY <1>7, <1>8, BecameType
<1>10. SettingsNet'
  <2>1. net'.overtaken \in BOOLEAN /\ net'.missed \in BOOLEAN
    BY <1>1
  <2> QED BY <1>1, <1>9, <2>1 DEF SettingsInv, SettingsNet
<1>11. SettingsView'
  BY <1>2, <1>3, OpTypes DEF SettingsInv, SettingsView
<1>12. SettingsLoading'
  BY <1>2 DEF SettingsLoading
<1>13. SettingsCurrent'
  <2>1. /\ view.ver \in Nat /\ net.ver \in Nat /\ o.ver \in Nat
        /\ \A j \in Settings!OpIds : net.ops[j].ver \in Nat
    BY <1>3, OpTypes DEF SettingsInv, SettingsView, SettingsNet
  <2>2. \A j \in Settings!OpIds : net'.ops[j].at = "fetched" =>
          j # i /\ net'.ops[j] = net.ops[j] /\ net.ops[j].at = "fetched"
    BY <1>6, <1>9
  <2>3. /\ view.ver <= net.ver /\ o.ver <= net.ver
        /\ o.ver = net.ver => o.snap = net.rows
        /\ \A j \in Settings!OpIds : net.ops[j].at = "fetched" =>
            /\ net.ops[j].ver <= net.ver
            /\ net.ops[j].ver = net.ver => net.ops[j].snap = net.rows
    BY <1>4, <1>5 DEF SettingsInv, SettingsCurrent
  <2>4. /\ view'.ver <= net'.ver
        /\ \A j \in Settings!OpIds : net'.ops[j].at = "fetched" =>
            /\ net'.ops[j].ver <= net'.ver
            /\ net'.ops[j].ver = net'.ver => net'.ops[j].snap = net'.rows
    BY <1>1, <1>2, <2>2, <2>3
  <2> SUFFICES ASSUME view'.status = "in", ~Excused'
               PROVE
        /\ \A j \in Settings!OpIds :
            net'.ops[j].at = "fetched" /\ net'.ops[j].snap # net'.rows =>
                \/ \E k \in Settings!OpIds : Brings(k, net.ops[j].ver + 1)'
                \/ view'.ver > net.ops[j].ver /\ view'.keys = net'.rows
        /\ view'.keys = net'.rows
               \/ \E k \in Settings!OpIds : Brings(k, view.ver)'
    BY <1>2, <2>2, <2>4 DEF SettingsCurrent, Brings
  <2>5. \A j \in Settings!OpIds : \A v \in Nat :
          Brings(j, v) /\ j # i => Brings(j, v)'
    BY <1>1, <1>9 DEF Brings
  <2>6. CASE o.ver = net.ver
    BY <1>1, <1>2, <2>1, <2>2, <2>3, <2>6
  <2>7. CASE o.ver < net.ver
    <3>1. /\ net.missed # TRUE /\ net.overtaken # TRUE /\ o.ver >= view.ver
      <4>1. net.missed \in BOOLEAN /\ net.overtaken \in BOOLEAN
        BY DEF SettingsInv, SettingsNet
      <4>2. net'.missed # TRUE /\ net'.overtaken # TRUE
        BY DEF Excused
      <4>3. net.missed # TRUE
        BY <1>1, <2>7, <4>1, <4>2
      <4>4. net.overtaken # TRUE /\ ~(o.ver < view.ver)
        BY <1>1, <2>7, <4>1, <4>2
      <4>5. o.ver >= view.ver
        BY <2>1, <4>4
      <4> QED BY <4>3, <4>4, <4>5
    <3>2. \A j \in Settings!OpIds : ~Due(j)
      <4>1. \A j \in Settings!OpIds : j # i => (Due(j)' <=> Due(j))
        BY <1>9 DEF Due
      <4> QED BY <1>4, <4>1 DEF Excused
    <3>3. /\ \A j \in Settings!OpIds :
              net.ops[j].at = "fetched" /\ net.ops[j].snap # net.rows =>
                \/ \E k \in Settings!OpIds : Brings(k, net.ops[j].ver + 1)
                \/ view.ver > net.ops[j].ver /\ view.keys = net.rows
      BY <1>2, <3>1, <3>2 DEF SettingsInv, SettingsCurrent, Excused
    <3>4. \A j \in Settings!OpIds : \A v \in Nat : Brings(j, v) =>
            /\ net.ops[j].ver >= v /\ net.ops[j].snap = net.rows
            /\ net.ops[j].at = "fetched"
      BY DEF Brings
    <3>5. CASE o.snap = net.rows
      <4> SUFFICES ASSUME NEW j \in Settings!OpIds, j # i,
                          net.ops[j].at = "fetched",
                          net.ops[j].snap # net.rows
                   PROVE
                \/ \E k \in Settings!OpIds : Brings(k, net.ops[j].ver + 1)'
                \/ o.ver > net.ops[j].ver
        BY <1>1, <1>2, <2>2, <3>5
      <4>1. CASE view.ver > net.ops[j].ver
        BY <2>1, <3>1, <4>1
      <4>2. CASE \E k \in Settings!OpIds : Brings(k, net.ops[j].ver + 1)
        <5>1. PICK k \in Settings!OpIds : Brings(k, net.ops[j].ver + 1)
          BY <4>2
        <5>2. net.ops[j].ver + 1 \in Nat
          BY <2>1
        <5>3. CASE k = i
          BY <1>5, <2>1, <3>4, <5>1, <5>2, <5>3
        <5>4. CASE k # i
          <6>1. PICK v \in Nat : v = net.ops[j].ver + 1
            BY <5>2
          <6> QED BY <2>5, <5>1, <5>4, <6>1, <1>9
        <5> QED BY <5>3, <5>4
      <4> QED BY <3>3, <4>1, <4>2
    <3>6. CASE o.snap # net.rows
      <4>1. \A k \in Settings!OpIds : \A v \in Nat :
              Brings(k, v) => Brings(k, v)'
        BY <1>5, <2>5, <3>4, <3>6
      <4>2. o.ver + 1 \in Nat
        BY <2>1
      <4>3. PICK k \in Settings!OpIds : Brings(k, o.ver + 1)
        BY <1>4, <1>5, <2>1, <3>1, <3>3, <3>6
      <4>4. net.ops[k].ver >= o.ver + 1 /\ net.ops[k].ver \in Nat
        BY <2>1, <3>4, <4>2, <4>3
      <4>5. \A v \in Nat : v <= o.ver + 1 => Brings(k, v)'
        <5>1. \A v \in Nat : v <= o.ver + 1 => Brings(k, v)
          BY <2>1, <4>3, <4>4 DEF Brings
        <5> QED BY <4>1, <5>1
      <4>6. Brings(k, view.ver)'
        <5>1. \E v \in Nat : v = view'.ver /\ v <= o.ver + 1
          BY <1>2, <2>1
        <5> QED BY <4>5, <5>1
      <4> SUFFICES ASSUME NEW j \in Settings!OpIds, j # i,
                          net.ops[j].at = "fetched",
                          net.ops[j].snap # net.rows
                   PROVE
                \E h \in Settings!OpIds : Brings(h, net.ops[j].ver + 1)'
        BY <1>1, <1>2, <1>9, <2>2, <4>6
      <4>7. PICK v \in Nat : v = net.ops[j].ver + 1
        BY <2>1
      <4>10. v = net'.ops[j].ver + 1
        BY <1>9, <4>7
      <4>8. CASE view.ver > net.ops[j].ver
        <5>1. v <= o.ver + 1
          BY <2>1, <3>1, <4>7, <4>8
        <5> QED BY <4>5, <4>10, <5>1
      <4>9. CASE \E h \in Settings!OpIds : Brings(h, net.ops[j].ver + 1)
        <5>1. PICK h \in Settings!OpIds : Brings(h, v)
          BY <4>7, <4>9
        <5> QED BY <4>1, <4>10, <5>1
      <4> QED BY <3>3, <4>8, <4>9
    <3> QED BY <3>5, <3>6
  <2> QED BY <2>1, <2>3, <2>6, <2>7
<1> QED BY <1>9, <1>10, <1>11, <1>12, <1>13 DEF SettingsInv, SettingsConstants

\* The state of the page stays a record.
SettingsRecord == view = [f \in DOMAIN view |-> view[f]]

LEMMA SettingsRecordKept ==
    ASSUME SettingsRecord, Settings!Next
    PROVE  SettingsRecord'
<1>2. ASSUME UNCHANGED view PROVE SettingsRecord'
  BY <1>2 DEF SettingsRecord
<1>3. ASSUME NEW i \in Settings!OpIds, Settings!Step(i)
      PROVE  SettingsRecord'
  <2>1. ASSUME Settings!SessionResolves(i) \/ Settings!ParamsCleared(i)
        PROVE  SettingsRecord'
    BY <2>1 DEF SettingsRecord, Settings!SessionResolves,
                Settings!ParamsCleared
  <2>2. ASSUME \/ Settings!GenerateKey(i) \/ Settings!ToggleSetting(i)
               \/ Settings!EditSetting(i) \/ Settings!SaveFirewall(i)
               \/ Settings!PurgeCache(i) \/ Settings!Checkout(i)
               \/ Settings!ServerCommits(i) \/ Settings!ServerRefuses(i)
               \/ Settings!PurgesInPart(i)
               \/ Settings!ServerLists(i) \/ Settings!ListIsLost(i)
        PROVE  UNCHANGED view
    BY <2>2 DEF Settings!GenerateKey, Settings!ToggleSetting,
                Settings!EditSetting, Settings!SaveFirewall,
                Settings!PurgeCache, Settings!Checkout,
                Settings!ServerCommits, Settings!ServerRefuses,
                Settings!PurgesInPart, Settings!ServerLists,
                Settings!ListIsLost
  <2>3. ASSUME \/ Settings!DeleteKey(i) \/ Settings!ActivateLicense(i)
               \/ Settings!Reply(i)
        PROVE  SettingsRecord'
    BY <2>3 DEF SettingsRecord, Settings!DeleteKey,
                Settings!ActivateLicense, Settings!Reply
  <2>4. ASSUME Settings!ListArrives(i) \/ Settings!ListIsRefused(i)
        PROVE  SettingsRecord'
    BY <2>4 DEF SettingsRecord, Settings!ListArrives,
                Settings!ListIsRefused, Settings!Finish
  <2> QED BY <1>2, <1>3, <2>1, <2>2, <2>3, <2>4 DEF Settings!Step
<1>1. ASSUME \/ Settings!ProfileArrives \/ Settings!OpenFirewall
             \/ Settings!CloseFirewall \/ Settings!CloseSnippet
      PROVE  SettingsRecord'
  BY <1>1 DEF SettingsRecord, Settings!ProfileArrives, Settings!OpenFirewall,
              Settings!CloseFirewall, Settings!CloseSnippet
<1> QED BY <1>1, <1>3 DEF Settings!Next

LEMMA SettingsKept ==
    ASSUME SettingsInv, SettingsRecord, Settings!Next
    PROVE  SettingsInv' /\ SettingsRecord'
<1>1. ASSUME NEW i \in Settings!OpIds, Settings!Step(i)
      PROVE  SettingsInv'
  BY <1>1, SettingsLoads, SettingsControls, SettingsDelete, SettingsLicense,
     SettingsCommits, SettingsRefuses, SettingsPurges, SettingsLists, SettingsReply,
     SettingsListArrives, SettingsListFails DEF Settings!Step
<1> QED BY <1>1, SettingsLocal, SettingsRecordKept DEF Settings!Next

LEMMA SettingsStutters ==
    ASSUME SettingsInv, SettingsRecord, UNCHANGED <<view, net>>
    PROVE  SettingsInv' /\ SettingsRecord'
BY DEF SettingsInv, SettingsRecord, SettingsConstants, SettingsView, SettingsNet,
       SettingsToasts, SettingsToast, SettingsLoading, SettingsCurrent,
       Excused, Due, Brings, Settings!Fetching

LEMMA SettingsStarts ==
    ASSUME SettingsConstants, Settings!Init
    PROVE  SettingsInv /\ SettingsRecord
<1>1. PICK local \in BOOLEAN :
        /\ view = [status |-> "loading", local |-> local, loading |-> TRUE,
                   keys |-> Settings!NoTable, ver |-> 0, modal |-> None,
                   snippet |-> None, profile |-> None,
                   activating |-> FALSE, returned |-> FALSE]
        /\ net = [rows |-> [k \in {Settings!FirstKey} |-> Settings!Fresh],
                  used |-> {Settings!FirstKey}, ver |-> 0,
                  ops |-> [i \in Settings!OpIds |-> Settings!UnusedOp],
                  faults |-> 0, overtaken |-> FALSE, missed |-> FALSE,
                  stuck |-> FALSE]
  BY DEF Settings!Init
<1>2. Settings!FirstKey \in SettingsKeys
  BY DEF SettingsConstants, Settings!FirstKey
<1>3. net.rows \in Settings!Tables
  <2>1. [mode : BOOLEAN, firewall : BOOLEAN]
          = [{"mode", "firewall"} -> BOOLEAN]
    OBVIOUS
  <2>2. Settings!Fresh \in Settings!Row
    BY <2>1 DEF Settings!Fresh, Settings!Row
  <2>3. net.rows \in [{Settings!FirstKey} -> Settings!Row]
    BY <1>1, <2>2
  <2> QED BY <1>2, <2>3 DEF Settings!Tables
<1>4. SettingsView
  BY <1>1, TableTypes DEF SettingsView
<1>5. SettingsNet
  BY <1>1, <1>2, <1>3, UnusedType DEF SettingsNet, SettingsConstants
<1>6. \A i \in Settings!OpIds :
        net.ops[i].at = "unused" /\ SettingsToast(net.ops[i])
  BY <1>1, UnusedType
<1>7. view.ver = 0 /\ net.ver = 0 /\ view.status = "loading"
  BY <1>1
<1>8. SettingsToasts /\ SettingsLoading /\ SettingsCurrent
  BY <1>6, <1>7 DEF SettingsToasts, SettingsLoading, SettingsCurrent
<1>9. SettingsRecord
  BY <1>1 DEF SettingsRecord
<1> QED BY <1>4, <1>5, <1>8, <1>9 DEF SettingsInv

LEMMA SettingsShows ==
    ASSUME SettingsInv, SettingsRecord
    PROVE  /\ Settings!TypeOK /\ Settings!ShownIsCurrent
           /\ Settings!LoadingHasAnEnd /\ Settings!ToastsAreHonest
<1>1. Settings!TypeOK
  <2>1. view = [status |-> view.status, local |-> view.local,
                loading |-> view.loading, keys |-> view.keys,
                ver |-> view.ver, modal |-> view.modal,
                snippet |-> view.snippet, profile |-> view.profile,
                activating |-> view.activating, returned |-> view.returned]
    BY DEF SettingsInv, SettingsView, SettingsRecord
  <2> QED BY <2>1 DEF SettingsInv, SettingsView, SettingsNet, Settings!TypeOK
<1>2. Settings!ShownIsCurrent
  <2>1. ASSUME \A i \in Settings!OpIds : ~Settings!InFlight(i)
        PROVE  \A i \in Settings!OpIds : ~Due(i) /\ net.ops[i].at # "fetched"
    BY <2>1 DEF Settings!InFlight, Due
  <2>2. net.missed \in BOOLEAN /\ net.overtaken \in BOOLEAN
    BY DEF SettingsInv, SettingsNet
  <2> QED BY <2>1, <2>2 DEF SettingsInv, SettingsCurrent, Excused, Brings,
                     Settings!ShownIsCurrent, Settings!Ready
<1>3. Settings!LoadingHasAnEnd
  BY DEF SettingsInv, SettingsLoading, Settings!LoadingHasAnEnd
<1>4. Settings!ToastsAreHonest
  BY DEF SettingsInv, SettingsToasts, SettingsToast, Settings!ToastsAreHonest
<1> QED BY <1>1, <1>2, <1>3, <1>4
=============================================================================
