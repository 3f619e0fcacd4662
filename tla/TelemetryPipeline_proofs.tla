----------------------- MODULE TelemetryPipeline_proofs -----------------------
(***************************************************************************)
(* Theorems about TelemetryPipeline, for any logs, keys, users, limits,    *)
(* workers, routes, batch size, stream cap and number of faults.           *)
(*   DueMeansOver   what the last write to Postgres calls for is still so; *)
(*   Writing        who is about to write the flag of a key, and what.     *)
(***************************************************************************)
EXTENDS TelemetryPipeline, SequenceTheorems, TLAPS

\* Worker w is about to write the flag of k; route r still has to reset it.
Writes(w, k) == pc[w] = "flag" /\ Key(w) = k
Resets(r, k) == k \in todo[r]

DueMeansOver ==
    \A k \in Registered : due[k] => used[Owner[k]] >= Limit[tier[Owner[k]]]

\* The flag of k agrees with Postgres, or exactly one write will make it so.
Settled(k) ==
    /\ (/\ \A w \in Workers : ~Writes(w, k)
        /\ \A r \in Routes : ~Resets(r, k)) => flag[k] = due[k]
    /\ \A w \in Workers : Writes(w, k) =>
          /\ exceeded[w] = due[k]
          /\ \A v \in Workers : Writes(v, k) => v = w
          /\ \A r \in Routes : ~Resets(r, k)
    /\ \A r \in Routes : Resets(r, k) =>
          /\ ~due[k]
          /\ \A q \in Routes : Resets(q, k) => q = r

Writing ==
    /\ \A w \in Workers : pc[w] = "flag" => Key(w) \in Registered
    /\ \A r \in Routes : route[r] = "new" => todo[r] = {}
    /\ \A k \in Registered \ unsettled : Settled(k)

FlagInv == TypeOK /\ DueMeansOver /\ Writing

USE ConstantsAssumption DEF Tiers

-----------------------------------------------------------------------------
(* Sequences *)

\* A part of a sequence from n + 1 on, its elements and its length.
LEMMA PartOfSeq ==
    ASSUME NEW S, NEW s \in Seq(S), NEW m \in 1 .. Len(s) + 1,
           NEW n \in m - 1 .. Len(s)
    PROVE  /\ SubSeq(s, m, n) \in Seq(S)
           /\ Len(SubSeq(s, m, n)) = n - m + 1
           /\ Elements(SubSeq(s, m, n)) \subseteq S
<1>1. /\ SubSeq(s, m, n) \in Seq(S)
      /\ Len(SubSeq(s, m, n)) = IF m <= n THEN n - m + 1 ELSE 0
  BY SubSeqProperties, LenProperties
<1>2. Len(SubSeq(s, m, n)) = n - m + 1
  BY <1>1, LenProperties
<1>3. Elements(SubSeq(s, m, n)) \subseteq S
  BY <1>1, LenProperties, ElementOfSeq DEF Elements
<1>. QED BY <1>1, <1>2, <1>3

LEMMA TailOfSeq ==
    ASSUME NEW S, NEW s \in Seq(S), s # <<>>
    PROVE  /\ Head(s) \in S
           /\ Tail(s) \in Seq(S)
           /\ Len(Tail(s)) = Len(s) - 1
           /\ Len(s) \in Nat \ {0}
BY HeadTailProperties, EmptySeq, LenProperties

LEMMA EmptyIffNoLength ==
    ASSUME NEW S, NEW s \in Seq(S)
    PROVE  Len(s) \in Nat /\ (s = <<>> <=> Len(s) = 0)
BY EmptySeq, LenProperties

\* What Redis delivers at once.
LEMMA DeliveredPart ==
    ASSUME TypeOK, Undelivered # <<>>
    PROVE  LET n == Smallest(Batch, Len(Undelivered)) IN
           /\ Undelivered \in Seq(Logs)
           /\ n \in 1 .. Batch
           /\ next + n \in 0 .. Len(stream)
           /\ SubSeq(Undelivered, 1, n) \in Seq(Logs)
           /\ Len(SubSeq(Undelivered, 1, n)) = n
           /\ Elements(SubSeq(Undelivered, 1, n)) \subseteq Logs
<1>. DEFINE n == Smallest(Batch, Len(Undelivered))
<1>1. stream \in Seq(Logs) /\ Len(stream) \in Nat /\ next \in 0 .. Len(stream)
  BY LenProperties DEF TypeOK
<1>2. /\ Undelivered \in Seq(Logs)
      /\ Len(Undelivered) = Len(stream) - next
  <2>1. next + 1 \in 1 .. Len(stream) + 1
    BY <1>1
  <2>2. Len(stream) \in (next + 1) - 1 .. Len(stream)
    BY <1>1
  <2>. QED BY <1>1, <2>1, <2>2, PartOfSeq DEF Undelivered
<1>3. Len(Undelivered) \in Nat \ {0}
  BY <1>2, EmptySeq
<1>4. n \in 1 .. Batch /\ n <= Len(Undelivered)
  BY <1>3 DEF Smallest
<1>5. /\ SubSeq(Undelivered, 1, n) \in Seq(Logs)
      /\ Len(SubSeq(Undelivered, 1, n)) = n
      /\ Elements(SubSeq(Undelivered, 1, n)) \subseteq Logs
  <2>1. 1 \in 1 .. Len(Undelivered) + 1 /\ n \in 1 - 1 .. Len(Undelivered)
    BY <1>3, <1>4
  <2>2. n - 1 + 1 = n
    BY <1>4
  <2>. QED BY <1>2, <2>1, <2>2, PartOfSeq
<1>. QED BY <1>1, <1>2, <1>4, <1>5

\* The log a worker is at.
LEMMA CurrentIsALog ==
    ASSUME TypeOK, NEW w \in Workers, pc[w] # "read"
    PROVE  /\ batch[w] \in Seq(Logs) /\ batch[w] # <<>>
           /\ Current(w) \in Logs
           /\ Key(w) \in Keys
           /\ Tail(batch[w]) \in Seq(Logs)
           /\ Len(Tail(batch[w])) = Len(batch[w]) - 1
           /\ Len(batch[w]) \in Nat \ {0}
           /\ Len(Tail(batch[w])) <= Batch
<1>1. batch[w] \in Seq(Logs) /\ batch[w] # <<>> /\ Len(batch[w]) <= Batch
  BY DEF TypeOK
<1>. QED BY <1>1, TailOfSeq DEF Current, Key

-----------------------------------------------------------------------------
(* Types *)

LEMMA ElementsOfSeq ==
    ASSUME NEW S, NEW s \in Seq(S) PROVE Elements(s) \subseteq S
BY LenProperties, ElementOfSeq DEF Elements

\* The next message, or the end of the batch.
LEMMA NextMessageTypes ==
    ASSUME TypeOK, NEW w \in Workers, pc[w] # "read", NextMessage(w)
    PROVE  /\ pc' \in [Workers -> {"read", "charge", "flag", "insert", "ack"}]
           /\ batch' \in [Workers -> Seq(Logs)]
           /\ \A v \in Workers : /\ Len(batch'[v]) <= Batch
                                 /\ pc'[v] = "read" <=> batch'[v] = <<>>
           /\ found' \in [Workers -> BOOLEAN]
<1>1. /\ batch' = [batch EXCEPT ![w] = Tail(batch[w])]
      /\ pc' = [pc EXCEPT ![w] = IF Len(batch[w]) = 1 THEN "read" ELSE "charge"]
      /\ found' = [found EXCEPT ![w] = FALSE]
  BY DEF NextMessage, Goto
<1>2. /\ Tail(batch[w]) \in Seq(Logs)
      /\ Len(Tail(batch[w])) = Len(batch[w]) - 1
      /\ Len(Tail(batch[w])) <= Batch
      /\ Len(batch[w]) \in Nat \ {0}
  BY CurrentIsALog
<1>3. Tail(batch[w]) = <<>> <=> Len(batch[w]) = 1
  <2>1. Tail(batch[w]) = <<>> <=> Len(Tail(batch[w])) = 0
    BY <1>2, EmptyIffNoLength, Zenon
  <2>. QED BY <1>2, <2>1
<1>4. ASSUME NEW v \in Workers
      PROVE  Len(batch'[v]) <= Batch /\ (pc'[v] = "read" <=> batch'[v] = <<>>)
  <2>1. CASE v = w
    BY <1>1, <1>2, <1>3, <2>1 DEF TypeOK
  <2>2. CASE v # w
    BY <1>1, <2>2 DEF TypeOK
  <2>. QED BY <2>1, <2>2
<1>. QED BY <1>1, <1>2, <1>4 DEF TypeOK

LEMMA PushTypes == ASSUME TypeOK, NEW l \in Logs, Push(l) PROVE TypeOK'
<1>1. status' \in [Logs -> {"new", "sent", "dropped"}]
  BY DEF TypeOK, Push
<1>2. stream' \in Seq(Logs) /\ next' \in 0 .. Len(stream') /\ hit' \subseteq Logs
  <2>1. stream \in Seq(Logs) /\ Len(stream) \in Nat /\ next \in 0 .. Len(stream)
    BY LenProperties DEF TypeOK
  <2>2. CASE stream' = Append(stream, l) /\ UNCHANGED <<next, hit>>
    <3>1. stream' \in Seq(Logs) /\ Len(stream') = Len(stream) + 1
      BY <2>1, <2>2, AppendProperties
    <3>. QED BY <2>1, <2>2, <3>1 DEF TypeOK
  <2>3. CASE /\ Len(stream) >= StreamCap
             /\ stream' = Append(Tail(stream), l)
             /\ next' = IF next = 0 THEN 0 ELSE next - 1
             /\ Strike(IF next = 0 THEN {Head(stream)} ELSE {})
    <3>1. stream # <<>>
      BY <2>1, <2>3, EmptySeq
    <3>2. /\ Tail(stream) \in Seq(Logs) /\ Len(Tail(stream)) = Len(stream) - 1
          /\ Head(stream) \in Logs /\ Len(stream) \in Nat \ {0}
      BY <2>1, <3>1, TailOfSeq
    <3>3. stream' \in Seq(Logs) /\ Len(stream') = Len(Tail(stream)) + 1
      BY <2>3, <3>2, AppendProperties
    <3>. QED BY <2>1, <2>3, <3>2, <3>3 DEF TypeOK, Strike
  <2>. QED BY <2>2, <2>3 DEF Push
<1>. QED BY <1>1, <1>2 DEF TypeOK, Push, workerVars, userVars, routeVars,
                           historyVars

LEMMA ReadTypes == ASSUME TypeOK, NEW w \in Workers, Read(w) PROVE TypeOK'
<1>. DEFINE n == Smallest(Batch, Len(Undelivered))
            part == SubSeq(Undelivered, 1, n)
<1>1. /\ batch' = [batch EXCEPT ![w] = part]
      /\ next' = next + n
      /\ pending' = pending \union Elements(batch'[w])
      /\ pc' = [pc EXCEPT ![w] = "charge"]
  BY DEF Read, Deliver, Goto
<1>2. /\ n \in 1 .. Batch
      /\ next + n \in 0 .. Len(stream)
      /\ part \in Seq(Logs)
      /\ Len(part) = n
      /\ Elements(part) \subseteq Logs
  BY DeliveredPart DEF Read, Deliver
<1>. HIDE DEF part, n
<1>3. part # <<>>
  <2>1. part = <<>> <=> Len(part) = 0
    BY <1>2, EmptyIffNoLength, Zenon
  <2>. QED BY <1>2, <2>1
<1>4. batch'[w] = part
  BY <1>1 DEF TypeOK
<1>5. ASSUME NEW v \in Workers
      PROVE  Len(batch'[v]) <= Batch /\ (pc'[v] = "read" <=> batch'[v] = <<>>)
  <2>1. CASE v = w
    BY <1>1, <1>2, <1>3, <2>1 DEF TypeOK
  <2>2. CASE v # w
    BY <1>1, <2>2 DEF TypeOK
  <2>. QED BY <2>1, <2>2
<1>. QED BY <1>1, <1>2, <1>4, <1>5
         DEF TypeOK, Read, userVars, routeVars, historyVars

LEMMA ReadFailsTypes == ASSUME TypeOK, NEW w \in Workers, ReadFails(w) PROVE TypeOK'
<1>. DEFINE n == Smallest(Batch, Len(Undelivered))
            lost == Elements(SubSeq(Undelivered, 1, n))
<1>1. next + n \in 0 .. Len(stream) /\ lost \subseteq Logs
  BY DeliveredPart DEF ReadFails
<1>2. /\ next' = next + n
      /\ pending' = pending \union lost
      /\ hit' = hit \union lost
      /\ faults' \in 0 .. MaxFaults
  BY DEF ReadFails, Strike, Fault, TypeOK
<1>. HIDE DEF n, lost
<1>. QED BY <1>1, <1>2 DEF TypeOK, ReadFails, workerVars, userVars, routeVars,
                           historyVars

\* A worker stays at its message.
LEMMA GotoTypes ==
    ASSUME TypeOK, NEW w \in Workers, pc[w] # "read", UNCHANGED batch,
           NEW p \in {"charge", "flag", "insert", "ack"}, Goto(w, p)
    PROVE  /\ pc' \in [Workers -> {"read", "charge", "flag", "insert", "ack"}]
           /\ batch' \in [Workers -> Seq(Logs)]
           /\ \A v \in Workers : /\ Len(batch'[v]) <= Batch
                                 /\ pc'[v] = "read" <=> batch'[v] = <<>>
<1>1. pc' = [pc EXCEPT ![w] = p]
  BY DEF Goto
<1>2. ASSUME NEW v \in Workers
      PROVE  Len(batch'[v]) <= Batch /\ (pc'[v] = "read" <=> batch'[v] = <<>>)
  BY <1>1 DEF TypeOK
<1>. QED BY <1>1, <1>2 DEF TypeOK

LEMMA ChargeTypes == ASSUME TypeOK, NEW w \in Workers, Charge(w) PROVE TypeOK'
<1>. DEFINE u == Owner[Key(w)]
            over == used[u] + 1 >= Limit[tier[u]]
<1>1. /\ pc[w] # "read" /\ UNCHANGED batch /\ Goto(w, "flag")
      /\ Key(w) \in Registered /\ u \in Users
      /\ charges' = [charges EXCEPT ![Current(w)] = @ + 1]
      /\ used' = [used EXCEPT ![u] = @ + 1]
      /\ exceeded' = [exceeded EXCEPT ![w] = over]
      /\ found' = [found EXCEPT ![w] = TRUE]
      /\ Owe({Key(w)}, over)
  BY DEF Charge
<1>2. Current(w) \in Logs
  BY <1>1, CurrentIsALog
<1>3. over \in BOOLEAN
  OBVIOUS
<1>4. due' \in [Registered -> BOOLEAN] /\ unsettled' \subseteq Registered
  BY <1>1, <1>3 DEF TypeOK, Owe
<1>5. /\ charges' \in [Logs -> Nat]
      /\ used' \in [Users -> Nat]
      /\ found' \in [Workers -> BOOLEAN]
  BY SMTT(30), <1>1, <1>2 DEF TypeOK
<1>6. exceeded' \in [Workers -> BOOLEAN]
  BY <1>1, <1>3 DEF TypeOK
<1>. QED BY <1>1, <1>4, <1>5, <1>6, GotoTypes
         DEF TypeOK, Charge, streamVars, routeVars

\* A step of w that strikes its message, or that no fault strikes.
LEMMA StrikeTypes ==
    ASSUME TypeOK, NEW w \in Workers, pc[w] # "read",
           \/ NoFault /\ UNCHANGED hit
           \/ Fault("postgres") /\ Strike({Current(w)})
    PROVE  hit' \subseteq Logs /\ faults' \in 0 .. MaxFaults
<1>1. Current(w) \in Logs
  BY CurrentIsALog
<1>2. hit \subseteq Logs /\ faults \in 0 .. MaxFaults
  BY DEF TypeOK
<1>3. hit' \subseteq Logs
  BY <1>1, <1>2 DEF Strike
<1>4. faults' \in 0 .. MaxFaults
  BY <1>2 DEF NoFault, Fault
<1>. QED BY <1>3, <1>4

LEMMA ChargeNobodyTypes ==
    ASSUME TypeOK, NEW w \in Workers, ChargeNobody(w) PROVE TypeOK'
<1>1. pc[w] # "read" /\ UNCHANGED batch /\ Goto(w, "insert")
  BY DEF ChargeNobody
<1>2. hit' \subseteq Logs /\ faults' \in 0 .. MaxFaults
  BY <1>1, StrikeTypes DEF ChargeNobody
<1>. QED BY <1>1, <1>2, GotoTypes
         DEF TypeOK, ChargeNobody, streamVars, userVars, routeVars, historyVars

LEMMA ChargeFailsTypes ==
    ASSUME TypeOK, NEW w \in Workers, ChargeFails(w) PROVE TypeOK'
<1>1. pc[w] # "read" /\ UNCHANGED batch /\ Goto(w, "insert")
  BY DEF ChargeFails
<1>2. hit' \subseteq Logs /\ faults' \in 0 .. MaxFaults
  BY <1>1, StrikeTypes DEF ChargeFails
<1>3. found' \in [Workers -> BOOLEAN]
  BY DEF ChargeFails, TypeOK
<1>. QED BY <1>1, <1>2, <1>3, GotoTypes
         DEF TypeOK, ChargeFails, streamVars, userVars, routeVars, historyVars

\* A worker that is to write a flag has a registered key at hand.
LEMMA SetFlagTypes ==
    ASSUME TypeOK, Writing, NEW w \in Workers, SetFlag(w) PROVE TypeOK'
<1>1. pc[w] # "read" /\ UNCHANGED batch /\ Goto(w, "insert")
  BY DEF SetFlag
<1>2. Key(w) \in Registered
  BY DEF SetFlag, Writing
<1>3. exceeded' \in [Workers -> BOOLEAN] /\ exceeded[w] \in BOOLEAN
  BY DEF SetFlag, TypeOK
<1>4. flag' \in [Registered -> BOOLEAN] /\ unsettled' \subseteq Registered
      /\ faults' \in 0 .. MaxFaults
  <2>1. CASE /\ NoFault
             /\ flag' = [flag EXCEPT ![Key(w)] = exceeded[w]]
             /\ UNCHANGED unsettled
    BY <1>3, <2>1 DEF NoFault, TypeOK
  <2>2. CASE /\ Fault("redis")
             /\ unsettled' = unsettled \union {Key(w)}
             /\ UNCHANGED flag
    BY <1>2, <2>2 DEF Fault, TypeOK
  <2>. QED BY <2>1, <2>2 DEF SetFlag
<1>. QED BY <1>1, <1>3, <1>4, GotoTypes DEF TypeOK, SetFlag, streamVars, routeVars

LEMMA InsertTypes == ASSUME TypeOK, NEW w \in Workers, Insert(w) PROVE TypeOK'
<1>1. pc[w] # "read" /\ UNCHANGED batch /\ Goto(w, "ack")
  BY DEF Insert
<1>2. rows' \in [Logs -> Nat]
  <2>1. rows \in [Logs -> Nat] /\ rows' = [rows EXCEPT ![Current(w)] = @ + 1]
    BY DEF Insert, TypeOK
  <2>2. Current(w) \in Logs
    BY <1>1, CurrentIsALog
  <2>. QED BY <2>1, <2>2
<1>. QED BY <1>1, <1>2, GotoTypes
         DEF TypeOK, Insert, streamVars, userVars, routeVars, historyVars

LEMMA InsertFailsTypes ==
    ASSUME TypeOK, NEW w \in Workers, InsertFails(w) PROVE TypeOK'
<1>1. pc[w] # "read" /\ NextMessage(w)
  BY DEF InsertFails
<1>2. /\ rows' \in [Logs -> Nat]
      /\ hit' \subseteq Logs
      /\ faults' \in 0 .. MaxFaults
  <2>1. Current(w) \in Logs
    BY <1>1, CurrentIsALog
  <2>2. CASE ~found[w] /\ NoFault /\ UNCHANGED <<rows, hit>>
    BY <2>2 DEF NoFault, TypeOK
  <2>3. CASE /\ found[w] /\ Fault("postgres") /\ Strike({Current(w)})
             /\ \/ UNCHANGED rows
                \/ rows' = [rows EXCEPT ![Current(w)] = @ + 1]
    <3>1. rows \in [Logs -> Nat]
      BY DEF TypeOK
    <3>2. rows' \in [Logs -> Nat]
      BY <2>1, <2>3, <3>1
    <3>. QED BY <2>1, <2>3, <3>2 DEF Fault, Strike, TypeOK
  <2>. QED BY <2>2, <2>3 DEF InsertFails
<1>. QED BY <1>1, <1>2, NextMessageTypes
         DEF TypeOK, InsertFails, streamVars, userVars, routeVars, historyVars

LEMMA AckTypes == ASSUME TypeOK, NEW w \in Workers, Ack(w) PROVE TypeOK'
<1>1. pc[w] # "read" /\ NextMessage(w)
  BY DEF Ack
<1>2. pending' \subseteq Logs /\ faults' \in 0 .. MaxFaults
  BY DEF Ack, NoFault, Fault, TypeOK
<1>. QED BY <1>1, <1>2, NextMessageTypes
         DEF TypeOK, Ack, userVars, routeVars, historyVars

LEMMA CrashTypes ==
    ASSUME TypeOK, Writing, NEW w \in Workers, Crash(w) PROVE TypeOK'
<1>1. /\ pc' = [pc EXCEPT ![w] = "read"]
      /\ batch' = [batch EXCEPT ![w] = <<>>]
      /\ exceeded' = [exceeded EXCEPT ![w] = FALSE]
      /\ found' = [found EXCEPT ![w] = FALSE]
      /\ hit' = hit \union Elements(batch[w])
      /\ faults' \in 0 .. MaxFaults
  BY DEF Crash, Goto, Strike, Fault, TypeOK
<1>2. unsettled' \subseteq Registered
  BY DEF Crash, Writing, TypeOK
<1>3. hit' \subseteq Logs
  BY <1>1, ElementsOfSeq DEF TypeOK
<1>4. <<>> \in Seq(Logs) /\ Len(<<>>) = 0
  BY EmptySeq
<1>5. batch' \in [Workers -> Seq(Logs)]
  BY <1>1, <1>4 DEF TypeOK
<1>6. ASSUME NEW v \in Workers
      PROVE  Len(batch'[v]) <= Batch /\ (pc'[v] = "read" <=> batch'[v] = <<>>)
  <2>1. CASE v = w
    <3>1. batch'[v] = <<>> /\ pc'[v] = "read"
      BY <1>1, <2>1 DEF TypeOK
    <3>. QED BY <3>1, <1>4
  <2>2. CASE v # w
    BY <1>1, <2>2 DEF TypeOK
  <2>. QED BY <2>1, <2>2
<1>. QED BY <1>1, <1>2, <1>3, <1>5, <1>6
         DEF TypeOK, Crash, streamVars, userVars, routeVars

LEMMA RouteTypes ==
    ASSUME TypeOK, NEW r \in Routes,
           \/ \E u \in Users : ChangeTier(r, u)
           \/ \E k \in Registered : SyncKey(r, k)
           \/ SyncFails(r)
    PROVE  TypeOK'
<1>1. ASSUME NEW u \in Users, ChangeTier(r, u) PROVE TypeOK'
  <2>1. /\ tier' \in [Users -> Tiers]
        /\ route' \in [Routes -> {"new", "sync"}]
        /\ todo' \in [Routes -> SUBSET Registered]
    BY <1>1 DEF ChangeTier, TypeOK, KeysOf
  <2>2. due' \in [Registered -> BOOLEAN] /\ unsettled' \subseteq Registered
    BY <1>1 DEF ChangeTier, TypeOK, Owe, KeysOf
  <2>. QED BY <1>1, <2>1, <2>2 DEF TypeOK, ChangeTier, streamVars, workerVars
<1>2. ASSUME NEW k \in Registered, SyncKey(r, k) PROVE TypeOK'
  <2>1. flag' \in [Registered -> BOOLEAN] /\ todo' \in [Routes -> SUBSET Registered]
    BY <1>2 DEF SyncKey, ClearFlag, TypeOK
  <2>. QED BY <1>2, <2>1 DEF TypeOK, SyncKey, streamVars, workerVars, historyVars
<1>3. CASE SyncFails(r)
  <2>1. unsettled' \subseteq Registered /\ todo' \in [Routes -> SUBSET Registered]
        /\ faults' \in 0 .. MaxFaults
    BY <1>3 DEF SyncFails, Fault, TypeOK
  <2>. QED BY <1>3, <2>1 DEF TypeOK, SyncFails, streamVars, workerVars, userVars
<1>. QED BY <1>1, <1>2, <1>3

LEMMA PushFailsTypes == ASSUME TypeOK, NEW l \in Logs, PushFails(l) PROVE TypeOK'
<1>1. status' \in [Logs -> {"new", "sent", "dropped"}] /\ faults' \in 0 .. MaxFaults
  BY DEF PushFails, Fault, TypeOK
<1>. QED BY <1>1 DEF TypeOK, PushFails, workerVars, userVars, routeVars, historyVars

\* No step leaves the types.
LEMMA TypesStay == ASSUME TypeOK, Writing, [Next]_vars PROVE TypeOK'
<1>1. ASSUME NEW w \in Workers, Work(w) PROVE TypeOK'
  BY <1>1, ReadTypes, ChargeTypes, ChargeNobodyTypes, ChargeFailsTypes,
     SetFlagTypes, InsertTypes, InsertFailsTypes, AckTypes DEF Work
<1>2. CASE UNCHANGED vars
  BY <1>2 DEF TypeOK, vars
<1>. QED BY <1>1, <1>2, PushTypes, PushFailsTypes, ReadFailsTypes, CrashTypes,
            RouteTypes DEF Next, Finished

-----------------------------------------------------------------------------
(* The flag *)

\* A step that touches no flag and none of those who are about to write one.
LEMMA FlagsStay ==
    ASSUME FlagInv,
           \A w \in Workers :
              /\ pc'[w] = "flag" <=> pc[w] = "flag"
              /\ pc[w] = "flag" => /\ batch'[w] = batch[w]
                                   /\ exceeded'[w] = exceeded[w],
           UNCHANGED <<used, tier, flag, due, unsettled, route, todo>>
    PROVE  DueMeansOver' /\ Writing'
<1>1. DueMeansOver'
  BY DEF FlagInv, DueMeansOver
<1>2. \A w \in Workers, k \in Keys : Writes(w, k)' <=> Writes(w, k)
  BY DEF Writes, Key, Current
<1>3. \A k \in Registered \ unsettled : Settled(k)'
  BY <1>2 DEF FlagInv, Writing, Settled, Writes, Key, Current, Resets
<1>4. \A w \in Workers : pc'[w] = "flag" => Key(w)' \in Registered
  BY DEF FlagInv, Writing, Key, Current
<1>. QED BY <1>1, <1>3, <1>4 DEF FlagInv, Writing

\* A key nobody is about to write, as FlagWriters says it.
LEMMA NoWriters ==
    ASSUME NEW k
    PROVE  FlagWriters(k) = {} <=> /\ \A w \in Workers : ~Writes(w, k)
                                   /\ \A r \in Routes : ~Resets(r, k)
BY DEF FlagWriters, Writes, Resets

\* What a worker is about to write, after the step of worker w that leaves
\* the messages as they are.
LEMMA OtherWriters ==
    ASSUME TypeOK, NEW w \in Workers, NEW p, Goto(w, p), UNCHANGED batch,
           NEW v \in Workers, v # w, NEW k
    PROVE  Writes(v, k)' <=> Writes(v, k)
BY DEF TypeOK, Goto, Writes, Key, Current

LEMMA ChargeFlag == ASSUME FlagInv, NEW w \in Workers, Charge(w)
                    PROVE  DueMeansOver' /\ Writing'
<1>. DEFINE c == Key(w)
            u == Owner[c]
            over == used[u] + 1 >= Limit[tier[u]]
<1>1. /\ pc[w] = "charge" /\ UNCHANGED batch /\ Goto(w, "flag")
      /\ c \in Registered /\ u \in Users
      /\ used' = [used EXCEPT ![u] = @ + 1]
      /\ exceeded' = [exceeded EXCEPT ![w] = over]
      /\ UNCHANGED <<tier, flag, route, todo>>
  BY DEF Charge, routeVars
<1>2. /\ due' = [k \in Registered |-> IF k = c THEN over ELSE due[k]]
      /\ unsettled' = {k \in unsettled \union {c} : k = c => FlagWriters(k) # {}}
  BY DEF Charge, Owe
<1>3. TypeOK /\ pc' = [pc EXCEPT ![w] = "flag"]
  BY <1>1 DEF FlagInv, Goto
<1>4. over \in BOOLEAN
  OBVIOUS
<1>5. DueMeansOver'
  <2>1. ASSUME NEW k \in Registered, due'[k]
        PROVE  used'[Owner[k]] >= Limit[tier'[Owner[k]]]
    <3>1. /\ Owner[k] \in Users /\ used \in [Users -> Nat]
          /\ tier[Owner[k]] \in Tiers /\ Limit[tier[Owner[k]]] \in Nat
          /\ used[u] \in Nat /\ used[Owner[k]] \in Nat
      BY <1>1, <1>3 DEF TypeOK
    <3>2. CASE k = c
      BY <1>1, <1>2, <2>1, <3>1, <3>2
    <3>3. CASE k # c
      <4>1. used[Owner[k]] >= Limit[tier[Owner[k]]]
        BY <1>2, <2>1, <3>3 DEF FlagInv, DueMeansOver
      <4>2. used'[Owner[k]] >= used[Owner[k]] /\ used'[Owner[k]] \in Nat
        BY <1>1, <3>1
      <4>. QED BY <1>1, <3>1, <4>1, <4>2
    <3>. QED BY <3>2, <3>3
  <2>. QED BY <2>1 DEF DueMeansOver
<1>6. \A k : Writes(w, k)' <=> k = c
  <2>1. pc'[w] = "flag" /\ Key(w)' = c
    BY <1>1, <1>3 DEF TypeOK, Key, Current
  <2>. QED BY <2>1 DEF Writes
<1>7. \A v \in Workers \ {w}, k \in Registered : Writes(v, k)' <=> Writes(v, k)
  BY <1>1, <1>3, OtherWriters
<1>8. \A r \in Routes, k \in Registered : Resets(r, k)' <=> Resets(r, k)
  BY <1>1 DEF Resets
<1>9. exceeded'[w] = over /\ \A v \in Workers \ {w} : exceeded'[v] = exceeded[v]
  BY <1>1, <1>3 DEF TypeOK
<1>10. ASSUME NEW k \in Registered, k \notin unsettled' PROVE Settled(k)'
  <2>1. CASE k = c
    <3>1. FlagWriters(c) = {}
      BY <1>2, <1>10, <2>1
    <3>2. /\ \A v \in Workers : ~Writes(v, c)
          /\ \A r \in Routes : ~Resets(r, c)
      BY <3>1, NoWriters
    <3>3. /\ \A v \in Workers : Writes(v, k)' <=> v = w
          /\ \A r \in Routes : ~Resets(r, k)'
      BY <1>6, <1>7, <1>8, <2>1, <3>2
    <3>4. exceeded'[w] = due'[k]
      BY <1>2, <1>9, <2>1
    <3>. QED BY <3>3, <3>4 DEF Settled
  <2>2. CASE k # c
    <3>1. Settled(k)
      BY <1>2, <1>10, <2>2 DEF FlagInv, Writing
    <3>2. ~Writes(w, k) /\ ~Writes(w, k)'
      BY <1>1, <1>6, <2>2 DEF Writes
    <3>3. due'[k] = due[k] /\ flag'[k] = flag[k]
      BY <1>1, <1>2, <2>2
    <3>4. \A v \in Workers : Writes(v, k)' <=> Writes(v, k)
      BY <1>7, <3>2
    <3>. QED BY <1>8, <1>9, <3>1, <3>2, <3>3, <3>4 DEF Settled
  <2>. QED BY <2>1, <2>2
<1>11. \A v \in Workers : pc'[v] = "flag" => Key(v)' \in Registered
  BY <1>1, <1>3 DEF FlagInv, Writing, TypeOK, Key, Current
<1>. QED BY <1>1, <1>5, <1>10, <1>11 DEF FlagInv, Writing

LEMMA SetFlagFlag == ASSUME FlagInv, NEW w \in Workers, SetFlag(w)
                     PROVE  DueMeansOver' /\ Writing'
<1>. DEFINE c == Key(w)
<1>1. /\ TypeOK /\ Writes(w, c) /\ c \in Registered
      /\ UNCHANGED batch /\ Goto(w, "insert")
      /\ pc' = [pc EXCEPT ![w] = "insert"]
      /\ exceeded' = [exceeded EXCEPT ![w] = FALSE]
      /\ UNCHANGED <<used, tier, due, route, todo>>
  BY DEF SetFlag, FlagInv, Writing, Writes, Goto, routeVars
<1>2. \/ flag' = [flag EXCEPT ![c] = exceeded[w]] /\ UNCHANGED unsettled
      \/ unsettled' = unsettled \union {c} /\ UNCHANGED flag
  BY DEF SetFlag
<1>3. \A k : ~Writes(w, k)'
  BY <1>1 DEF TypeOK, Writes
<1>4. \A v \in Workers \ {w}, k \in Registered : Writes(v, k)' <=> Writes(v, k)
  BY <1>1, OtherWriters
<1>5. \A v \in Workers \ {w} : exceeded'[v] = exceeded[v]
  BY <1>1 DEF TypeOK
<1>6. \A r \in Routes, k \in Registered : Resets(r, k)' <=> Resets(r, k)
  BY <1>1 DEF Resets
<1>7. ASSUME NEW k \in Registered, k \notin unsettled' PROVE Settled(k)'
  <2>1. Settled(k)
    BY <1>2, <1>7 DEF FlagInv, Writing
  <2>2. CASE k = c
    <3>1. flag'[k] = due'[k]
      BY <1>1, <1>2, <1>7, <2>1, <2>2 DEF Settled, TypeOK
    <3>2. /\ \A v \in Workers : ~Writes(v, k)'
          /\ \A r \in Routes : ~Resets(r, k)'
      BY <1>1, <1>3, <1>4, <1>6, <2>1, <2>2 DEF Settled
    <3>. QED BY <3>1, <3>2 DEF Settled
  <2>3. CASE k # c
    <3>1. flag'[k] = flag[k] /\ due'[k] = due[k]
      BY <1>1, <1>2, <2>3 DEF TypeOK
    <3>2. ~Writes(w, k)
      BY <1>1, <2>3 DEF Writes
    <3>3. \A v \in Workers : Writes(v, k)' <=> Writes(v, k)
      BY <1>3, <1>4, <3>2
    <3>. QED BY <1>5, <1>6, <2>1, <3>1, <3>2, <3>3 DEF Settled
  <2>. QED BY <2>2, <2>3
<1>8. \A v \in Workers : pc'[v] = "flag" => Key(v)' \in Registered
  BY <1>1 DEF FlagInv, Writing, TypeOK, Key, Current
<1>9. DueMeansOver'
  BY <1>1 DEF FlagInv, DueMeansOver
<1>. QED BY <1>1, <1>7, <1>8, <1>9 DEF FlagInv, Writing

LEMMA CrashFlag == ASSUME FlagInv, NEW w \in Workers, Crash(w)
                   PROVE  DueMeansOver' /\ Writing'
<1>1. /\ TypeOK
      /\ pc' = [pc EXCEPT ![w] = "read"]
      /\ batch' = [batch EXCEPT ![w] = <<>>]
      /\ exceeded' = [exceeded EXCEPT ![w] = FALSE]
      /\ unsettled' = IF pc[w] = "flag" THEN unsettled \union {Key(w)} ELSE unsettled
      /\ UNCHANGED <<used, tier, flag, due, route, todo>>
  BY DEF Crash, Goto, FlagInv, userVars, routeVars
<1>2. \A v \in Workers \ {w} : /\ pc'[v] = pc[v]
                               /\ batch'[v] = batch[v]
                               /\ exceeded'[v] = exceeded[v]
  BY <1>1 DEF TypeOK
<1>3. pc'[w] # "flag"
  BY <1>1 DEF TypeOK
<1>4. ASSUME NEW k \in Registered, k \notin unsettled' PROVE Settled(k)'
  <2>1. Settled(k) /\ ~Writes(w, k)
    BY <1>1, <1>4 DEF FlagInv, Writing, Writes
  <2>2. \A v \in Workers : Writes(v, k)' <=> Writes(v, k)
    BY <1>2, <1>3, <2>1 DEF Writes, Key, Current
  <2>3. \A r \in Routes : Resets(r, k)' <=> Resets(r, k)
    BY <1>1 DEF Resets
  <2>. QED BY <1>1, <1>2, <2>1, <2>2, <2>3 DEF Settled
<1>5. \A v \in Workers : pc'[v] = "flag" => Key(v)' \in Registered
  BY <1>2, <1>3 DEF FlagInv, Writing, Key, Current
<1>6. DueMeansOver'
  BY <1>1 DEF FlagInv, DueMeansOver
<1>. QED BY <1>1, <1>4, <1>5, <1>6 DEF FlagInv, Writing

LEMMA ChangeTierFlag ==
    ASSUME FlagInv, NEW r \in Routes, NEW u \in Users, ChangeTier(r, u)
    PROVE  DueMeansOver' /\ Writing'
<1>. DEFINE ks == KeysOf(u)
<1>1. /\ TypeOK /\ todo[r] = {}
      /\ route' = [route EXCEPT ![r] = "sync"]
      /\ todo' = [todo EXCEPT ![r] = ks]
      /\ due' = [k \in Registered |-> IF k \in ks THEN FALSE ELSE due[k]]
      /\ unsettled' = {k \in unsettled \union ks : k \in ks => FlagWriters(k) # {}}
      /\ UNCHANGED <<used, flag, pc, batch, exceeded>>
  BY DEF ChangeTier, FlagInv, Writing, Owe, workerVars
<1>2. \E t \in Tiers : tier' = [tier EXCEPT ![u] = t]
  BY DEF ChangeTier
<1>3. DueMeansOver'
  <2>1. ASSUME NEW k \in Registered, due'[k]
        PROVE  used'[Owner[k]] >= Limit[tier'[Owner[k]]]
    <3>1. due[k] /\ Owner[k] # u
      BY <1>1, <2>1 DEF KeysOf
    <3>2. tier'[Owner[k]] = tier[Owner[k]]
      BY <1>1, <1>2, <3>1 DEF TypeOK
    <3>. QED BY <1>1, <3>1, <3>2 DEF FlagInv, DueMeansOver
  <2>. QED BY <2>1 DEF DueMeansOver
<1>4. \A v \in Workers, k \in Registered : Writes(v, k)' <=> Writes(v, k)
  BY <1>1 DEF Writes, Key, Current
<1>5. \A q \in Routes, k \in Registered :
          Resets(q, k)' <=> IF q = r THEN k \in ks ELSE Resets(q, k)
  BY <1>1 DEF Resets, TypeOK
<1>6. ASSUME NEW k \in Registered, k \notin unsettled' PROVE Settled(k)'
  <2>1. CASE k \in ks
    <3>1. FlagWriters(k) = {}
      BY <1>1, <1>6, <2>1
    <3>2. /\ \A v \in Workers : ~Writes(v, k)
          /\ \A q \in Routes : ~Resets(q, k)
      BY <3>1, NoWriters
    <3>3. /\ \A v \in Workers : ~Writes(v, k)'
          /\ \A q \in Routes : Resets(q, k)' <=> q = r
      BY <1>4, <1>5, <2>1, <3>2
    <3>. QED BY <1>1, <2>1, <3>3 DEF Settled
  <2>2. CASE k \notin ks
    <3>1. Settled(k)
      BY <1>1, <1>6, <2>2 DEF FlagInv, Writing
    <3>2. \A q \in Routes : Resets(q, k)' <=> Resets(q, k)
      BY <1>1, <1>5, <2>2 DEF Resets
    <3>. QED BY <1>1, <1>4, <2>2, <3>1, <3>2 DEF Settled
  <2>. QED BY <2>1, <2>2
<1>7. \A v \in Workers : pc'[v] = "flag" => Key(v)' \in Registered
  BY <1>1 DEF FlagInv, Writing, Key, Current
<1>8. \A q \in Routes : route'[q] = "new" => todo'[q] = {}
  BY <1>1 DEF FlagInv, Writing, TypeOK
<1>. QED BY <1>3, <1>6, <1>7, <1>8 DEF Writing

LEMMA SyncKeyFlag ==
    ASSUME FlagInv, NEW r \in Routes, NEW c \in Registered, SyncKey(r, c)
    PROVE  DueMeansOver' /\ Writing'
<1>1. /\ TypeOK /\ Resets(r, c)
      /\ flag' = [flag EXCEPT ![c] = FALSE]
      /\ todo' = [todo EXCEPT ![r] = @ \ {c}]
      /\ UNCHANGED <<used, tier, due, unsettled, route, pc, batch, exceeded>>
  BY DEF SyncKey, ClearFlag, FlagInv, Resets, workerVars, historyVars
<1>2. \A v \in Workers, k \in Registered : Writes(v, k)' <=> Writes(v, k)
  BY <1>1 DEF Writes, Key, Current
<1>3. \A q \in Routes, k \in Registered :
          Resets(q, k)' <=> Resets(q, k) /\ ~(q = r /\ k = c)
  BY <1>1 DEF Resets, TypeOK
<1>4. ASSUME NEW k \in Registered, k \notin unsettled' PROVE Settled(k)'
  <2>1. Settled(k)
    BY <1>1, <1>4 DEF FlagInv, Writing
  <2>2. CASE k = c
    <3>1. ~due'[k] /\ flag'[k] = FALSE /\ due'[k] \in BOOLEAN
      BY <1>1, <2>1, <2>2 DEF Settled, TypeOK
    <3>2. /\ \A v \in Workers : ~Writes(v, k)'
          /\ \A q \in Routes : ~Resets(q, k)'
      BY <1>1, <1>2, <1>3, <2>1, <2>2 DEF Settled
    <3>3. flag'[k] = due'[k]
      BY <3>1
    <3>. QED BY <3>2, <3>3 DEF Settled
  <2>3. CASE k # c
    <3>1. flag'[k] = flag[k]
      BY <1>1, <2>3
    <3>. QED BY <1>1, <1>2, <1>3, <2>1, <2>3, <3>1 DEF Settled
  <2>. QED BY <2>2, <2>3
<1>5. \A v \in Workers : pc'[v] = "flag" => Key(v)' \in Registered
  BY <1>1 DEF FlagInv, Writing, Key, Current
<1>6. \A q \in Routes : route'[q] = "new" => todo'[q] = {}
  BY <1>1 DEF FlagInv, Writing, TypeOK, Resets
<1>7. DueMeansOver'
  BY <1>1 DEF FlagInv, DueMeansOver
<1>. QED BY <1>4, <1>5, <1>6, <1>7 DEF Writing

LEMMA SyncFailsFlag == ASSUME FlagInv, NEW r \in Routes, SyncFails(r)
                       PROVE  DueMeansOver' /\ Writing'
<1>1. /\ TypeOK
      /\ unsettled' = unsettled \union todo[r]
      /\ todo' = [todo EXCEPT ![r] = {}]
      /\ UNCHANGED <<used, tier, flag, due, route, pc, batch, exceeded>>
  BY DEF SyncFails, FlagInv, workerVars, userVars
<1>2. ASSUME NEW k \in Registered, k \notin unsettled' PROVE Settled(k)'
  <2>1. Settled(k) /\ ~Resets(r, k)
    BY <1>1, <1>2 DEF FlagInv, Writing, Resets
  <2>2. \A v \in Workers : Writes(v, k)' <=> Writes(v, k)
    BY <1>1 DEF Writes, Key, Current
  <2>3. \A q \in Routes : Resets(q, k)' <=> Resets(q, k)
    BY <1>1, <2>1 DEF Resets, TypeOK
  <2>. QED BY <1>1, <2>1, <2>2, <2>3 DEF Settled
<1>3. \A v \in Workers : pc'[v] = "flag" => Key(v)' \in Registered
  BY <1>1 DEF FlagInv, Writing, Key, Current
<1>4. \A q \in Routes : route'[q] = "new" => todo'[q] = {}
  BY <1>1 DEF FlagInv, Writing, TypeOK
<1>5. DueMeansOver'
  BY <1>1 DEF FlagInv, DueMeansOver
<1>. QED BY <1>2, <1>3, <1>4, <1>5 DEF Writing

\* The steps of a worker that have nothing to do with a flag.
LEMMA WorkerFlag ==
    ASSUME FlagInv, NEW w \in Workers,
           \/ Read(w) \/ ReadFails(w) \/ ChargeNobody(w) \/ ChargeFails(w)
           \/ Insert(w) \/ InsertFails(w) \/ Ack(w)
    PROVE  DueMeansOver' /\ Writing'
<1>1. /\ pc[w] # "flag" /\ pc'[w] # "flag"
      /\ \A v \in Workers \ {w} : pc'[v] = pc[v] /\ batch'[v] = batch[v]
      /\ UNCHANGED <<used, tier, flag, due, unsettled, route, todo>>
      /\ UNCHANGED exceeded
  <2>. USE DEF FlagInv, TypeOK, Goto, userVars, routeVars, historyVars,
               workerVars, streamVars, NextMessage
  <2>1. CASE Read(w)         BY <2>1 DEF Read, Deliver
  <2>2. CASE ReadFails(w)    BY <2>2 DEF ReadFails
  <2>3. CASE ChargeNobody(w) BY <2>3 DEF ChargeNobody
  <2>4. CASE ChargeFails(w)  BY <2>4 DEF ChargeFails
  <2>5. CASE Insert(w)       BY <2>5 DEF Insert
  <2>6. CASE InsertFails(w)  BY <2>6 DEF InsertFails
  <2>7. CASE Ack(w)          BY <2>7 DEF Ack
  <2>. QED BY <2>1, <2>2, <2>3, <2>4, <2>5, <2>6, <2>7
<1>2. \A v \in Workers : /\ pc'[v] = "flag" <=> pc[v] = "flag"
                         /\ pc[v] = "flag" => /\ batch'[v] = batch[v]
                                              /\ exceeded'[v] = exceeded[v]
  BY <1>1
<1>. QED BY <1>1, <1>2, FlagsStay

LEMMA PushFlag ==
    ASSUME FlagInv,
           (\E l \in Logs : Push(l) \/ PushFails(l)) \/ UNCHANGED vars
    PROVE  DueMeansOver' /\ Writing'
<1>1. UNCHANGED <<pc, batch, exceeded, used, tier, flag, due, unsettled, route, todo>>
  BY DEF Push, PushFails, vars, workerVars, userVars, routeVars, historyVars
<1>. QED BY <1>1, FlagsStay

-----------------------------------------------------------------------------
(* The theorems *)

LEMMA InitFlagInv == ASSUME Init PROVE FlagInv
<1>1. <<>> \in Seq(Logs) /\ Len(<<>>) = 0
  BY EmptySeq
<1>2. TypeOK
  <2>1. stream \in Seq(Logs) /\ next \in 0 .. Len(stream)
    BY <1>1 DEF Init
  <2>2. batch \in [Workers -> Seq(Logs)]
    BY <1>1 DEF Init
  <2>3. \A w \in Workers :
            Len(batch[w]) <= Batch /\ (pc[w] = "read" <=> batch[w] = <<>>)
    <3>1. \A w \in Workers : batch[w] = <<>> /\ pc[w] = "read"
      BY DEF Init
    <3>. QED BY <1>1, <3>1
  <2>. QED BY <2>1, <2>2, <2>3 DEF Init, TypeOK
<1>3. DueMeansOver /\ Writing
  BY DEF Init, DueMeansOver, Writing, Settled, Writes, Resets
<1>. QED BY <1>2, <1>3 DEF FlagInv

\* The strengthened invariant: the types, what a due flag means, and that of
\* the writes of one flag that overlap none is lost on a settled key.
THEOREM FlagInvariant == Spec => []FlagInv
<1>1. Init => FlagInv
  BY InitFlagInv
<1>2. FlagInv /\ [Next]_vars => FlagInv'
  <2>. SUFFICES ASSUME FlagInv, [Next]_vars PROVE FlagInv'
    OBVIOUS
  <2>1. TypeOK'
    BY TypesStay DEF FlagInv
  <2>2. ASSUME NEW w \in Workers, Work(w) \/ ReadFails(w) \/ Crash(w)
        PROVE  DueMeansOver' /\ Writing'
    BY <2>2, ChargeFlag, SetFlagFlag, CrashFlag, WorkerFlag DEF Work
  <2>. QED BY <2>1, <2>2, PushFlag, ChangeTierFlag, SyncKeyFlag, SyncFailsFlag
           DEF Next, Finished, FlagInv
<1>. QED BY <1>1, <1>2, PTL DEF Spec

\* Types, for every value of the constants.
THEOREM TypeCorrect == Spec => []TypeOK
BY FlagInvariant, PTL DEF FlagInv

\* The limit_exceeded flag of a key nobody is writing is the one the last
\* write to Postgres calls for, and a flagged key's owner is over the limit.
THEOREM FlagsFollow == Spec => []FlagFollowsPostgres
<1>1. FlagInv => FlagFollowsPostgres
  <2>. SUFFICES ASSUME FlagInv, NEW k \in Registered \ unsettled, FlagWriters(k) = {}
                PROVE  /\ flag[k] = due[k]
                       /\ flag[k] => used[Owner[k]] >= Limit[tier[Owner[k]]]
    BY DEF FlagFollowsPostgres
  <2>1. flag[k] = due[k]
    BY NoWriters DEF FlagInv, Writing, Settled
  <2>. QED BY <2>1 DEF FlagInv, DueMeansOver
<1>. QED BY <1>1, FlagInvariant, PTL

-----------------------------------------------------------------------------
(***************************************************************************)
(* However many workers read, fail and die, no log is charged or recorded  *)
(* twice, one that nothing struck is charged if and only if it is          *)
(* recorded, and a message is acknowledged only with its row in Postgres.  *)
(*   Places   a log is in the stream once, or with one worker once;        *)
(*   Bills    what has become of it follows from the place it is in.       *)
(***************************************************************************)

\* Log l waits in the stream to be delivered; worker w has it in its batch.
Queued(l) == \E i \in next + 1 .. Len(stream) : stream[i] = l
Has(w, l) == \E i \in 1 .. Len(batch[w]) : batch[w][i] = l

Distinct(s) == \A i, j \in 1 .. Len(s) : s[i] = s[j] => i = j

Places ==
    /\ Distinct(stream)
    /\ \A i \in 1 .. Len(stream) : status[stream[i]] = "sent"
    /\ \A w \in Workers : Distinct(batch[w])
    /\ \A w \in Workers, l \in Logs : Has(w, l) =>
          /\ status[l] = "sent"
          /\ ~Queued(l)
          /\ \A v \in Workers : Has(v, l) => v = w

Untouched(l) == rows[l] = 0 /\ charges[l] = 0

\* Log l, the current one of worker w.
Stage(w, l) ==
    /\ pc[w] = "charge" => Untouched(l) /\ ~found[w]
    /\ pc[w] = "flag" => rows[l] = 0 /\ charges[l] = 1 /\ found[w]
    /\ pc[w] = "insert" =>
          /\ rows[l] = 0
          /\ charges[l] <= 1
          /\ l \notin hit => charges[l] = IF found[w] THEN 1 ELSE 0
    /\ pc[w] = "ack" =>
          /\ rows[l] = 1
          /\ charges[l] <= 1
          /\ l \notin hit => charges[l] = 1

Bill(l) ==
    /\ rows[l] <= 1 /\ charges[l] <= 1
    /\ status[l] # "sent" \/ Queued(l) => Untouched(l)
    /\ \A w \in Workers : Has(w, l) =>
          IF l = Current(w) THEN Stage(w, l) ELSE Untouched(l)
    /\ (l \notin hit /\ status[l] = "sent" /\ ~Queued(l)
          /\ \A w \in Workers : ~Has(w, l)) => rows[l] = charges[l]

Bills ==
    /\ \A l \in Logs : Bill(l)
    /\ \A w \in Workers : pc[w] = "read" => ~found[w]

BillInv == TypeOK /\ Places /\ Bills

-----------------------------------------------------------------------------
(* Where the logs are *)

LEMMA StreamTypes ==
    ASSUME TypeOK
    PROVE  /\ stream \in Seq(Logs) /\ Len(stream) \in Nat
           /\ next \in 0 .. Len(stream)
           /\ \A i \in 1 .. Len(stream) : stream[i] \in Logs
           /\ \A w \in Workers : batch[w] \in Seq(Logs) /\ Len(batch[w]) \in Nat
           /\ \A w \in Workers : \A i \in 1 .. Len(batch[w]) : batch[w][i] \in Logs
BY LenProperties, ElementOfSeq DEF TypeOK

\* The first n of what is not delivered.
LEMMA FirstOfUndelivered ==
    ASSUME TypeOK, Undelivered # <<>>
    PROVE  LET n == Smallest(Batch, Len(Undelivered))
               part == SubSeq(Undelivered, 1, n) IN
           /\ n \in Nat \ {0} /\ next + n <= Len(stream)
           /\ part \in Seq(Logs) /\ Len(part) = n
           /\ \A i \in 1 .. n : part[i] = stream[next + i]
<1>. DEFINE n == Smallest(Batch, Len(Undelivered))
            part == SubSeq(Undelivered, 1, n)
<1>1. /\ Undelivered \in Seq(Logs)
      /\ n \in 1 .. Batch
      /\ next + n \in 0 .. Len(stream)
      /\ part \in Seq(Logs)
      /\ Len(part) = n
  BY DeliveredPart
<1>2. /\ stream \in Seq(Logs) /\ Len(stream) \in Nat /\ next \in 0 .. Len(stream)
  BY StreamTypes
<1>3. /\ Len(Undelivered) = Len(stream) - next
      /\ \A i \in 1 .. Len(stream) - next : Undelivered[i] = stream[next + i]
  <2>1. next + 1 \in 1 .. Len(stream) + 1 /\ Len(stream) \in next + 1 - 1 .. Len(stream)
    BY <1>2
  <2>2. /\ Len(Undelivered) = IF next + 1 <= Len(stream)
                              THEN Len(stream) - (next + 1) + 1 ELSE 0
        /\ \A i \in 1 .. Len(stream) - (next + 1) + 1 :
              Undelivered[i] = stream[next + 1 + i - 1]
    BY <1>2, <2>1, SubSeqProperties DEF Undelivered
  <2>. QED BY <1>2, <2>2
<1>4. \A i \in 1 .. n : part[i] = stream[next + i]
  <2>1. 1 \in 1 .. Len(Undelivered) + 1 /\ n \in 1 - 1 .. Len(Undelivered)
    BY <1>1, <1>2, <1>3
  <2>2. \A i \in 1 .. n - 1 + 1 : part[i] = Undelivered[1 + i - 1]
    BY <1>1, <2>1, SubSeqProperties
  <2>3. ASSUME NEW i \in 1 .. n PROVE part[i] = stream[next + i]
    <3>1. i \in 1 .. n - 1 + 1 /\ 1 + i - 1 = i /\ i \in 1 .. Len(stream) - next
      BY <1>1, <1>2
    <3>2. part[i] = Undelivered[i]
      BY <2>2, <3>1
    <3>. QED BY <1>3, <3>1, <3>2
  <2>. QED BY <2>3
<1>. QED BY <1>1, <1>2, <1>4

\* Undelivered and InProgress are what Queued and Has say.
LEMMA PlacesOfLogs ==
    ASSUME TypeOK, NEW l \in Logs
    PROVE  /\ l \in Elements(Undelivered) <=> Queued(l)
           /\ l \in InProgress <=> \E w \in Workers : Has(w, l)
<1>1. stream \in Seq(Logs) /\ Len(stream) \in Nat /\ next \in 0 .. Len(stream)
  BY StreamTypes
<1>2. /\ Undelivered \in Seq(Logs)
      /\ Len(Undelivered) = Len(stream) - next
      /\ \A i \in 1 .. Len(stream) - next : Undelivered[i] = stream[next + i]
  <2>1. next + 1 \in 1 .. Len(stream) + 1 /\ Len(stream) \in next + 1 - 1 .. Len(stream)
    BY <1>1
  <2>2. /\ Undelivered \in Seq(Logs)
        /\ Len(Undelivered) = IF next + 1 <= Len(stream)
                              THEN Len(stream) - (next + 1) + 1 ELSE 0
        /\ \A i \in 1 .. Len(stream) - (next + 1) + 1 :
              Undelivered[i] = stream[next + 1 + i - 1]
    BY <1>1, <2>1, SubSeqProperties DEF Undelivered
  <2>. QED BY <1>1, <2>2
<1>3. DOMAIN Undelivered = 1 .. Len(stream) - next
  BY <1>2, LenProperties
<1>4. l \in Elements(Undelivered) <=> Queued(l)
  <2>1. ASSUME NEW i \in next + 1 .. Len(stream), stream[i] = l
        PROVE  l \in Elements(Undelivered)
    <3>1. i - next \in 1 .. Len(stream) - next /\ next + (i - next) = i
      BY <1>1
    <3>. QED BY <1>2, <1>3, <2>1, <3>1 DEF Elements
  <2>2. ASSUME NEW i \in 1 .. Len(stream) - next, Undelivered[i] = l
        PROVE  Queued(l)
    <3>1. next + i \in next + 1 .. Len(stream)
      BY <1>1
    <3>. QED BY <1>2, <2>2, <3>1 DEF Queued
  <2>. QED BY <1>3, <2>1, <2>2 DEF Elements, Queued
<1>5. \A w \in Workers : DOMAIN batch[w] = 1 .. Len(batch[w])
  BY StreamTypes, LenProperties
<1>6. l \in InProgress <=> \E w \in Workers : Has(w, l)
  BY <1>5 DEF InProgress, Elements, Has
<1>. QED BY <1>4, <1>6

\* The current log of a worker is one it has.
LEMMA HasCurrent ==
    ASSUME TypeOK, NEW w \in Workers, pc[w] # "read"
    PROVE  /\ Current(w) \in Logs /\ Has(w, Current(w))
           /\ batch[w][1] = Current(w) /\ Len(batch[w]) \in Nat \ {0}
<1>1. batch[w] \in Seq(Logs) /\ batch[w] # <<>> /\ Len(batch[w]) \in Nat \ {0}
      /\ Current(w) \in Logs
  BY CurrentIsALog
<1>2. batch[w][1] = Current(w)
  BY <1>1 DEF Current
<1>. QED BY <1>1, <1>2 DEF Has

-----------------------------------------------------------------------------
(* Steps that move no log *)

\* A step that changes no place and no bill.
LEMMA BillsStay ==
    ASSUME BillInv, UNCHANGED <<status, stream, next, pc, batch, found, rows, charges>>,
           hit \subseteq hit'
    PROVE  Places' /\ Bills'
<1>1. Places'
  BY DEF BillInv, Places, Distinct, Has, Queued
<1>2. \A l \in Logs : Bill(l)'
  BY DEF BillInv, Bills, Bill, Has, Queued, Untouched, Stage, Current
<1>3. \A w \in Workers : pc'[w] = "read" => ~found'[w]
  BY DEF BillInv, Bills
<1>. QED BY <1>1, <1>2, <1>3 DEF Bills

\* A step of worker w at its message c.
LEMMA AtMessage ==
    ASSUME BillInv, NEW w \in Workers, NEW c \in Logs,
           pc[w] # "read", c = Current(w), pc'[w] # "read",
           UNCHANGED <<status, stream, next, batch>>, hit \subseteq hit',
           \A v \in Workers \ {w} : pc'[v] = pc[v] /\ found'[v] = found[v],
           \A l \in Logs \ {c} : rows'[l] = rows[l] /\ charges'[l] = charges[l],
           rows'[c] <= 1, charges'[c] <= 1, Stage(w, c)'
    PROVE  Places' /\ Bills'
<1>1. Places'
  BY SMTT(30) DEF BillInv, Places, Distinct, Has, Queued
<1>2. \A v \in Workers, l \in Logs : Has(v, l)' <=> Has(v, l)
  BY DEF Has
<1>3. \A l \in Logs : Queued(l)' <=> Queued(l)
  BY DEF Queued
<1>4. Has(w, c)
  BY HasCurrent DEF BillInv
<1>5. status[c] = "sent" /\ ~Queued(c) /\ \A v \in Workers : Has(v, c) => v = w
  BY <1>4 DEF BillInv, Places
<1>6. \A v \in Workers : Current(v)' = Current(v)
  BY DEF Current
<1>7. Bill(c)'
  BY <1>2, <1>3, <1>4, <1>5, <1>6 DEF Bill
<1>8. ASSUME NEW l \in Logs, l # c PROVE Bill(l)'
  <2>1. Bill(l) /\ rows'[l] = rows[l] /\ charges'[l] = charges[l]
    BY <1>8 DEF BillInv, Bills
  <2>2. ASSUME NEW v \in Workers, Has(v, l)
        PROVE  IF l = Current(v)' THEN Stage(v, l)' ELSE Untouched(l)'
    <3>1. IF l = Current(v) THEN Stage(v, l) ELSE Untouched(l)
      BY <2>1, <2>2 DEF Bill
    <3>2. CASE v = w
      BY <1>6, <1>8, <2>1, <3>1, <3>2 DEF Untouched
    <3>3. CASE v # w
      BY <1>6, <2>1, <3>1, <3>3 DEF Untouched, Stage
    <3>. QED BY <3>2, <3>3
  <2>. QED BY <1>2, <1>3, <2>1, <2>2 DEF Bill, Untouched
<1>9. \A v \in Workers : pc'[v] = "read" => ~found'[v]
  BY DEF BillInv, Bills
<1>. QED BY <1>1, <1>7, <1>8, <1>9 DEF Bills

\* What the invariant says of the message a worker is at.
LEMMA StageOfCurrent ==
    ASSUME BillInv, NEW w \in Workers, pc[w] # "read"
    PROVE  /\ Current(w) \in Logs /\ Stage(w, Current(w))
           /\ rows \in [Logs -> Nat] /\ charges \in [Logs -> Nat]
           /\ found \in [Workers -> BOOLEAN]
           /\ rows[Current(w)] <= 1 /\ charges[Current(w)] <= 1
BY HasCurrent DEF BillInv, Bills, Bill, TypeOK

LEMMA ChargeBills == ASSUME BillInv, NEW w \in Workers, Charge(w)
                     PROVE  Places' /\ Bills'
<1>1. PICK c \in Logs : c = Current(w) /\ Stage(w, c)
  BY StageOfCurrent DEF Charge
<1>2. /\ pc[w] = "charge"
      /\ charges' = [charges EXCEPT ![c] = @ + 1]
      /\ found' = [found EXCEPT ![w] = TRUE]
      /\ pc' = [pc EXCEPT ![w] = "flag"]
      /\ UNCHANGED <<status, stream, next, batch, rows, hit>>
  BY <1>1 DEF Charge, Goto, streamVars
<1>3. rows \in [Logs -> Nat] /\ charges \in [Logs -> Nat]
  BY DEF BillInv, TypeOK
<1>4. rows'[c] = 0 /\ charges'[c] = 1
  BY <1>1, <1>2, <1>3 DEF Stage, Untouched
<1>5. /\ pc'[w] = "flag" /\ found'[w]
      /\ \A v \in Workers \ {w} : pc'[v] = pc[v] /\ found'[v] = found[v]
  BY <1>2 DEF BillInv, TypeOK
<1>6. \A l \in Logs \ {c} : rows'[l] = rows[l] /\ charges'[l] = charges[l]
  BY <1>2, <1>3
<1>7. Stage(w, c)'
  BY <1>4, <1>5 DEF Stage
<1>8. pc[w] # "read" /\ pc'[w] # "read" /\ hit \subseteq hit'
  BY <1>2, <1>5
<1>9. rows'[c] <= 1 /\ charges'[c] <= 1
  BY <1>4
<1>10. UNCHANGED <<status, stream, next, batch>>
  BY <1>2
<1>. QED BY <1>1, <1>5, <1>6, <1>7, <1>8, <1>9, <1>10, AtMessage

LEMMA ChargeNobodyBills == ASSUME BillInv, NEW w \in Workers, ChargeNobody(w)
                           PROVE  Places' /\ Bills'
<1>1. PICK c \in Logs : c = Current(w) /\ Stage(w, c)
  BY StageOfCurrent DEF ChargeNobody
<1>2. /\ pc[w] = "charge"
      /\ pc' = [pc EXCEPT ![w] = "insert"]
      /\ hit \subseteq hit'
      /\ UNCHANGED <<status, stream, next, batch, found, rows, charges>>
  BY DEF ChargeNobody, Goto, Strike, streamVars, historyVars
<1>3. rows'[c] = 0 /\ charges'[c] = 0 /\ ~found'[w]
  BY <1>1, <1>2 DEF Stage, Untouched
<1>4. pc'[w] = "insert" /\ \A v \in Workers \ {w} : pc'[v] = pc[v]
  BY <1>2 DEF BillInv, TypeOK
<1>. QED BY <1>1, <1>2, <1>3, <1>4, AtMessage DEF Stage

LEMMA ChargeFailsBills == ASSUME BillInv, NEW w \in Workers, ChargeFails(w)
                          PROVE  Places' /\ Bills'
<1>1. PICK c \in Logs : c = Current(w) /\ Stage(w, c)
  BY StageOfCurrent DEF ChargeFails
<1>2. /\ pc[w] = "charge"
      /\ pc' = [pc EXCEPT ![w] = "insert"]
      /\ found' = [found EXCEPT ![w] = TRUE]
      /\ hit' = hit \union {c}
      /\ UNCHANGED <<status, stream, next, batch, rows, charges>>
  BY <1>1 DEF ChargeFails, Goto, Strike, streamVars, historyVars
<1>3. rows'[c] = 0 /\ charges'[c] = 0 /\ c \in hit'
  BY <1>1, <1>2 DEF Stage, Untouched
<1>4. /\ pc'[w] = "insert"
      /\ \A v \in Workers \ {w} : pc'[v] = pc[v] /\ found'[v] = found[v]
  BY <1>2 DEF BillInv, TypeOK
<1>5. Stage(w, c)'
  BY <1>3, <1>4 DEF Stage
<1>6. /\ pc[w] # "read" /\ pc'[w] # "read" /\ hit \subseteq hit'
      /\ UNCHANGED <<status, stream, next, batch>>
      /\ \A l \in Logs \ {c} : rows'[l] = rows[l] /\ charges'[l] = charges[l]
  BY <1>2, <1>4
<1>7. rows'[c] <= 1 /\ charges'[c] <= 1
  BY <1>3
<1>. QED BY <1>1, <1>4, <1>5, <1>6, <1>7, AtMessage

LEMMA SetFlagBills == ASSUME BillInv, NEW w \in Workers, SetFlag(w)
                      PROVE  Places' /\ Bills'
<1>1. PICK c \in Logs : c = Current(w) /\ Stage(w, c)
  BY StageOfCurrent DEF SetFlag
<1>2. /\ pc[w] = "flag"
      /\ pc' = [pc EXCEPT ![w] = "insert"]
      /\ UNCHANGED <<status, stream, next, batch, found, rows, charges, hit>>
  BY DEF SetFlag, Goto, streamVars
<1>3. rows'[c] = 0 /\ charges'[c] = 1 /\ found'[w]
  BY <1>1, <1>2 DEF Stage
<1>4. pc'[w] = "insert" /\ \A v \in Workers \ {w} : pc'[v] = pc[v]
  BY <1>2 DEF BillInv, TypeOK
<1>. QED BY <1>1, <1>2, <1>3, <1>4, AtMessage DEF Stage

LEMMA InsertBills == ASSUME BillInv, NEW w \in Workers, Insert(w)
                     PROVE  Places' /\ Bills'
<1>1. PICK c \in Logs : c = Current(w) /\ Stage(w, c)
  BY StageOfCurrent DEF Insert
<1>2. /\ pc[w] = "insert" /\ found[w]
      /\ rows' = [rows EXCEPT ![c] = @ + 1]
      /\ pc' = [pc EXCEPT ![w] = "ack"]
      /\ UNCHANGED <<status, stream, next, batch, found, charges, hit>>
  BY <1>1 DEF Insert, Goto, streamVars, historyVars
<1>3. rows \in [Logs -> Nat]
  BY DEF BillInv, TypeOK
<1>4. /\ rows'[c] = 1 /\ charges'[c] <= 1
      /\ c \notin hit' => charges'[c] = 1
  BY <1>1, <1>2, <1>3 DEF Stage
<1>5. pc'[w] = "ack" /\ \A v \in Workers \ {w} : pc'[v] = pc[v]
  BY <1>2 DEF BillInv, TypeOK
<1>6. \A l \in Logs \ {c} : rows'[l] = rows[l]
  BY <1>2, <1>3
<1>. QED BY <1>1, <1>2, <1>4, <1>5, <1>6, AtMessage DEF Stage

-----------------------------------------------------------------------------
(* Steps that move logs *)

\* Worker w is done with its message c, with what it has become in order.
LEMMA DoneWithMessage ==
    ASSUME BillInv, NEW w \in Workers, NEW c \in Logs,
           pc[w] # "read", c = Current(w), NextMessage(w),
           UNCHANGED <<status, stream, next, charges>>, hit \subseteq hit',
           \A l \in Logs \ {c} : rows'[l] = rows[l],
           rows'[c] <= 1, charges[c] <= 1,
           c \notin hit' => rows'[c] = charges[c]
    PROVE  Places' /\ Bills'
<1>1. /\ batch' = [batch EXCEPT ![w] = Tail(batch[w])]
      /\ pc' = [pc EXCEPT ![w] = IF Len(batch[w]) = 1 THEN "read" ELSE "charge"]
      /\ found' = [found EXCEPT ![w] = FALSE]
  BY DEF NextMessage, Goto
<1>2. TypeOK /\ Places /\ Bills
  BY DEF BillInv
<1>3. /\ batch[w] \in Seq(Logs) /\ Len(batch[w]) \in Nat \ {0}
      /\ batch[w] # <<>> /\ batch[w][1] = c /\ Has(w, c)
  BY <1>2, HasCurrent, CurrentIsALog
<1>4. /\ Len(Tail(batch[w])) = Len(batch[w]) - 1
      /\ \A i \in 1 .. Len(batch[w]) - 1 : Tail(batch[w])[i] = batch[w][i + 1]
  BY <1>3, HeadTailProperties
<1>5. /\ batch'[w] = Tail(batch[w])
      /\ pc'[w] = IF Len(batch[w]) = 1 THEN "read" ELSE "charge"
      /\ ~found'[w]
      /\ \A v \in Workers \ {w} : /\ pc'[v] = pc[v] /\ batch'[v] = batch[v]
                                  /\ found'[v] = found[v]
  BY <1>1, <1>2 DEF TypeOK
<1>6. \A i, j \in 1 .. Len(batch[w]) : batch[w][i] = batch[w][j] => i = j
  BY <1>2 DEF Places, Distinct
<1>7. \A l \in Logs : Has(w, l)' <=> Has(w, l) /\ l # c
  <2>1. ASSUME NEW l \in Logs, Has(w, l)' PROVE Has(w, l) /\ l # c
    <3>1. PICK i \in 1 .. Len(batch[w]) - 1 : batch[w][i + 1] = l
      BY <1>3, <1>4, <1>5, <2>1 DEF Has
    <3>2. i + 1 \in 1 .. Len(batch[w]) /\ i + 1 # 1 /\ 1 \in 1 .. Len(batch[w])
      BY <1>3
    <3>. QED BY <1>3, <1>6, <3>1, <3>2 DEF Has
  <2>2. ASSUME NEW l \in Logs, Has(w, l), l # c PROVE Has(w, l)'
    <3>1. PICK i \in 1 .. Len(batch[w]) : batch[w][i] = l
      BY <2>2 DEF Has
    <3>2. i # 1
      BY <1>3, <2>2, <3>1
    <3>3. i - 1 \in 1 .. Len(batch[w]) - 1 /\ (i - 1) + 1 = i
      BY <1>3, <3>2
    <3>. QED BY <1>4, <1>5, <3>1, <3>3 DEF Has
  <2>. QED BY <2>1, <2>2
<1>8. \A v \in Workers \ {w}, l \in Logs : Has(v, l)' <=> Has(v, l)
  BY <1>5 DEF Has
<1>9. \A l \in Logs : Queued(l)' <=> Queued(l)
  BY DEF Queued
<1>10. Places'
  <2>1. ASSUME NEW i \in 1 .. Len(batch[w]) - 1, NEW j \in 1 .. Len(batch[w]) - 1,
               Tail(batch[w])[i] = Tail(batch[w])[j]
        PROVE  i = j
    <3>1. i + 1 \in 1 .. Len(batch[w]) /\ j + 1 \in 1 .. Len(batch[w])
      BY <1>3
    <3>2. i + 1 = j + 1
      BY <1>4, <1>6, <2>1, <3>1
    <3>. QED BY <3>2
  <2>2. Distinct(batch[w])'
    BY <1>4, <1>5, <2>1 DEF Distinct
  <2>3. \A v \in Workers : Distinct(batch[v])'
    <3>1. ASSUME NEW v \in Workers, v # w PROVE Distinct(batch[v])'
      <4>1. Distinct(batch[v]) /\ batch'[v] = batch[v]
        BY <1>2, <1>5, <3>1 DEF Places
      <4>. QED BY <4>1 DEF Distinct
    <3>. QED BY <2>2, <3>1
  <2>4. Distinct(stream)' /\ \A i \in 1 .. Len(stream') : status'[stream'[i]] = "sent"
    BY <1>2 DEF Places, Distinct
  <2>5. \A v \in Workers, l \in Logs : Has(v, l)' => Has(v, l)
    BY <1>7, <1>8
  <2>6. \A v \in Workers, l \in Logs : Has(v, l)' =>
            /\ status'[l] = "sent" /\ ~Queued(l)'
            /\ \A x \in Workers : Has(x, l)' => x = v
    BY <1>2, <1>9, <2>5 DEF Places
  <2>. QED BY <2>3, <2>4, <2>6 DEF Places
<1>11. status[c] = "sent" /\ ~Queued(c) /\ \A v \in Workers : Has(v, c) => v = w
  BY <1>2, <1>3 DEF Places
<1>12. Bill(c)'
  <2>1. \A v \in Workers : ~Has(v, c)'
    BY <1>7, <1>8, <1>11
  <2>. QED BY <1>9, <1>11, <2>1 DEF Bill
<1>13. ASSUME NEW l \in Logs, l # c PROVE Bill(l)'
  <2>1. Bill(l) /\ rows'[l] = rows[l] /\ charges'[l] = charges[l]
    BY <1>2, <1>13 DEF Bills
  <2>2. \A v \in Workers : Has(v, l)' <=> Has(v, l)
    BY <1>7, <1>8, <1>13
  <2>3. ASSUME NEW v \in Workers, Has(v, l)
        PROVE  IF l = Current(v)' THEN Stage(v, l)' ELSE Untouched(l)'
    <3>1. IF l = Current(v) THEN Stage(v, l) ELSE Untouched(l)
      BY <2>1, <2>3 DEF Bill
    <3>2. CASE v = w
      <4>1. Untouched(l)'
        BY <1>13, <2>1, <3>1, <3>2 DEF Untouched
      <4>2. Stage(v, l)'
        BY <1>5, <3>2, <4>1 DEF Stage
      <4>. QED BY <4>1, <4>2
    <3>3. CASE v # w
      BY <1>5, <2>1, <3>1, <3>3 DEF Untouched, Stage, Current
    <3>. QED BY <3>2, <3>3
  <2>. QED BY <1>9, <2>1, <2>2, <2>3 DEF Bill, Untouched
<1>14. \A v \in Workers : pc'[v] = "read" => ~found'[v]
  BY <1>2, <1>5 DEF Bills
<1>. QED BY <1>10, <1>12, <1>13, <1>14 DEF Bills

LEMMA InsertFailsBills == ASSUME BillInv, NEW w \in Workers, InsertFails(w)
                          PROVE  Places' /\ Bills'
<1>1. PICK c \in Logs : c = Current(w) /\ Stage(w, c)
  BY StageOfCurrent DEF InsertFails
<1>2. /\ pc[w] = "insert" /\ NextMessage(w)
      /\ UNCHANGED <<status, stream, next, charges>>
  BY DEF InsertFails, streamVars, historyVars
<1>3. \/ ~found[w] /\ UNCHANGED <<rows, hit>>
      \/ /\ found[w] /\ hit' = hit \union {c}
         /\ \/ UNCHANGED rows
            \/ rows' = [rows EXCEPT ![c] = @ + 1]
  BY <1>1 DEF InsertFails, Strike
<1>4. rows \in [Logs -> Nat] /\ rows[c] = 0 /\ charges[c] <= 1
      /\ (c \notin hit => charges[c] = IF found[w] THEN 1 ELSE 0)
  BY <1>1, <1>2 DEF Stage, BillInv, TypeOK
<1>5. /\ \A l \in Logs \ {c} : rows'[l] = rows[l]
      /\ rows'[c] <= 1
      /\ hit \subseteq hit'
      /\ c \notin hit' => rows'[c] = charges[c]
  BY <1>3, <1>4
<1>. QED BY <1>1, <1>2, <1>4, <1>5, DoneWithMessage

LEMMA AckBills == ASSUME BillInv, NEW w \in Workers, Ack(w)
                  PROVE  Places' /\ Bills'
<1>1. PICK c \in Logs : c = Current(w) /\ Stage(w, c)
  BY StageOfCurrent DEF Ack
<1>2. /\ pc[w] = "ack" /\ NextMessage(w)
      /\ UNCHANGED <<status, stream, next, rows, charges, hit>>
  BY DEF Ack, historyVars
<1>3. rows[c] = 1 /\ charges[c] <= 1 /\ (c \notin hit => charges[c] = 1)
  BY <1>1, <1>2 DEF Stage
<1>. QED BY <1>1, <1>2, <1>3, DoneWithMessage

\* The stream grows at its end by a log that was not in it, and may lose its
\* oldest entry.
LEMMA StreamGrows ==
    ASSUME NEW S, NEW s \in Seq(S), NEW e \in S, Distinct(s),
           \A i \in 1 .. Len(s) : s[i] # e
    PROVE  /\ Distinct(Append(s, e))
           /\ Len(Append(s, e)) = Len(s) + 1 /\ Len(s) \in Nat
           /\ \A i \in 1 .. Len(s) : Append(s, e)[i] = s[i]
           /\ Append(s, e)[Len(s) + 1] = e
<1>1. /\ Len(Append(s, e)) = Len(s) + 1 /\ Len(s) \in Nat
      /\ \A i \in 1 .. Len(s) : Append(s, e)[i] = s[i]
      /\ Append(s, e)[Len(s) + 1] = e
  BY AppendProperties, LenProperties
<1>2. ASSUME NEW n \in Nat, n = Len(s), NEW t, n + 1 = Len(t), t[n + 1] = e,
             \A i \in 1 .. n : t[i] = s[i],
             NEW i \in 1 .. n + 1, NEW j \in 1 .. n + 1, t[i] = t[j]
      PROVE  i = j
  <2>1. CASE i \in 1 .. n /\ j \in 1 .. n
    BY <1>2, <2>1 DEF Distinct
  <2>2. CASE i = n + 1 \/ j = n + 1
    BY <1>2, <2>2
  <2> QED BY <2>1, <2>2
<1>3. Distinct(Append(s, e))
  BY <1>1, <1>2 DEF Distinct
<1>. QED BY <1>1, <1>3

LEMMA TailIsDistinct ==
    ASSUME NEW S, NEW s \in Seq(S), s # <<>>, Distinct(s)
    PROVE  /\ Distinct(Tail(s)) /\ Tail(s) \in Seq(S)
           /\ Len(Tail(s)) = Len(s) - 1 /\ Len(s) \in Nat \ {0}
           /\ \A i \in 1 .. Len(s) - 1 : Tail(s)[i] = s[i + 1]
           /\ s[1] = Head(s)
<1>1. /\ Tail(s) \in Seq(S)
      /\ Len(Tail(s)) = Len(s) - 1 /\ Len(s) \in Nat \ {0}
      /\ \A i \in 1 .. Len(s) - 1 : Tail(s)[i] = s[i + 1]
  BY HeadTailProperties, TailOfSeq
<1>2. ASSUME NEW i \in 1 .. Len(s) - 1, NEW j \in 1 .. Len(s) - 1,
             Tail(s)[i] = Tail(s)[j]
      PROVE  i = j
  <2>1. i + 1 \in 1 .. Len(s) /\ j + 1 \in 1 .. Len(s)
    BY <1>1
  <2>2. i + 1 = j + 1
    BY <1>1, <1>2, <2>1 DEF Distinct
  <2>. QED BY <2>2
<1>3. Distinct(Tail(s))
  BY <1>1, <1>2 DEF Distinct
<1>. QED BY <1>1, <1>3

LEMMA PushBills == ASSUME BillInv, NEW l \in Logs, Push(l) PROVE Places' /\ Bills'
<1>1. /\ status[l] = "new" /\ status' = [status EXCEPT ![l] = "sent"]
      /\ UNCHANGED <<pc, batch, found, rows, charges>>
  BY DEF Push, workerVars, historyVars
<1>2. /\ TypeOK /\ Places /\ Bills
      /\ stream \in Seq(Logs) /\ Len(stream) \in Nat /\ next \in 0 .. Len(stream)
  BY StreamTypes DEF BillInv
<1>3. \A i \in 1 .. Len(stream) : stream[i] # l
  BY <1>1, <1>2 DEF Places
<1>4. /\ Distinct(stream')
      /\ \A i \in 1 .. Len(stream') :
            stream'[i] = l \/ \E j \in 1 .. Len(stream) : stream'[i] = stream[j]
      /\ Queued(l)'
      /\ \A m \in Logs : Queued(m)' => m = l \/ Queued(m)
      /\ hit \subseteq hit'
      /\ \A m \in Logs : Queued(m) /\ ~Queued(m)' => m \in hit'
  <2>1. CASE stream' = Append(stream, l) /\ UNCHANGED <<next, hit>>
    <3>1. /\ Distinct(stream')
          /\ Len(stream') = Len(stream) + 1
          /\ \A i \in 1 .. Len(stream) : stream'[i] = stream[i]
          /\ stream'[Len(stream) + 1] = l
      BY <1>2, <1>3, <2>1, StreamGrows DEF Places
    <3>2. \A i \in 1 .. Len(stream') :
            stream'[i] = l \/ \E j \in 1 .. Len(stream) : stream'[i] = stream[j]
      BY <1>2, <3>1
    <3>3. Queued(l)'
      BY <1>2, <2>1, <3>1 DEF Queued
    <3>4. \A m \in Logs : Queued(m) => Queued(m)'
      BY <1>2, <2>1, <3>1 DEF Queued
    <3>5. \A m \in Logs : Queued(m)' => m = l \/ Queued(m)
      BY <1>2, <2>1, <3>1 DEF Queued
    <3>. QED BY <2>1, <3>1, <3>2, <3>3, <3>4, <3>5
  <2>2. CASE /\ Len(stream) >= StreamCap
             /\ stream' = Append(Tail(stream), l)
             /\ next' = IF next = 0 THEN 0 ELSE next - 1
             /\ Strike(IF next = 0 THEN {Head(stream)} ELSE {})
    <3>. DEFINE t == Tail(stream)
    <3>1. stream # <<>>
      <4>1. Len(stream) # 0
        BY <1>2, <2>2, ConstantsAssumption
      <4>. QED BY <1>2, <4>1, EmptyIffNoLength, Zenon
    <3>2. /\ Distinct(t) /\ t \in Seq(Logs)
          /\ Len(t) = Len(stream) - 1 /\ Len(stream) \in Nat \ {0}
          /\ \A i \in 1 .. Len(stream) - 1 : t[i] = stream[i + 1]
          /\ stream[1] = Head(stream)
      BY <1>2, <3>1, TailIsDistinct DEF Places
    <3>3. \A i \in 1 .. Len(t) : t[i] # l
      BY <1>3, <3>2
    <3>4. /\ Distinct(stream')
          /\ Len(stream') = Len(t) + 1
          /\ \A i \in 1 .. Len(t) : stream'[i] = t[i]
          /\ stream'[Len(t) + 1] = l
      <4>1. stream' = Append(t, l)
        BY <2>2
      <4>. HIDE DEF t
      <4>. QED BY <3>2, <3>3, <4>1, StreamGrows
    <3>. HIDE DEF t
    <3>5. /\ Len(stream') = Len(stream)
          /\ \A i \in 1 .. Len(stream) - 1 : stream'[i] = stream[i + 1]
          /\ stream'[Len(stream)] = l
      BY <3>2, <3>4
    <3>6. \A i \in 1 .. Len(stream') :
            stream'[i] = l \/ \E j \in 1 .. Len(stream) : stream'[i] = stream[j]
      BY <3>2, <3>5
    <3>7. next' \in 0 .. Len(stream) - 1
      BY <1>2, <2>2, <3>2
    <3>8. Queued(l)'
      BY <3>2, <3>5, <3>7 DEF Queued
    <3>9. ASSUME NEW m \in Logs, Queued(m)' PROVE m = l \/ Queued(m)
      <4>1. PICK i \in next' + 1 .. Len(stream) : stream'[i] = m
        BY <3>5, <3>9 DEF Queued
      <4>2. CASE i = Len(stream)
        BY <3>5, <4>1, <4>2
      <4>3. CASE i # Len(stream)
        <5>1. i \in 1 .. Len(stream) - 1 /\ i + 1 \in next + 1 .. Len(stream)
          BY <1>2, <2>2, <3>2, <3>7, <4>1, <4>3
        <5>. QED BY <3>5, <4>1, <5>1 DEF Queued
      <4>. QED BY <4>2, <4>3
    <3>10. hit' = hit \union (IF next = 0 THEN {Head(stream)} ELSE {})
      BY <2>2 DEF Strike
    <3>11. ASSUME NEW m \in Logs, Queued(m), ~Queued(m)' PROVE m \in hit'
      <4>1. PICK i \in next + 1 .. Len(stream) : stream[i] = m
        BY <3>11 DEF Queued
      <4>2. CASE i = 1
        <5>1. next = 0
          BY <1>2, <4>1, <4>2
        <5>. QED BY <3>2, <3>10, <4>1, <4>2, <5>1
      <4>3. CASE i # 1
        <5>1. /\ i - 1 \in 1 .. Len(stream) - 1 /\ (i - 1) + 1 = i
              /\ i - 1 \in next' + 1 .. Len(stream)
          BY <1>2, <2>2, <3>2, <4>1, <4>3
        <5>. QED BY <3>5, <3>11, <4>1, <5>1 DEF Queued
      <4>. QED BY <4>2, <4>3
    <3>. QED BY <3>4, <3>6, <3>8, <3>9, <3>10, <3>11
  <2>. QED BY <2>1, <2>2 DEF Push
<1>5. status'[l] = "sent" /\ \A m \in Logs \ {l} : status'[m] = status[m]
  BY <1>1, <1>2 DEF TypeOK
<1>6. \A w \in Workers, m \in Logs : Has(w, m)' <=> Has(w, m)
  BY <1>1 DEF Has
<1>7. \A w \in Workers : ~Has(w, l)
  BY <1>1, <1>2 DEF Places
<1>8. Places'
  <2>1. \A i \in 1 .. Len(stream') : status'[stream'[i]] = "sent"
    <3>1. ASSUME NEW j \in 1 .. Len(stream) PROVE status'[stream[j]] = "sent"
      BY <1>2, <1>5, StreamTypes DEF Places
    <3>. QED BY <1>4, <1>5, <3>1
  <2>2. \A w \in Workers : Distinct(batch[w])'
    BY <1>1, <1>2 DEF Places, Distinct
  <2>3. \A w \in Workers, m \in Logs : Has(w, m)' =>
          /\ status'[m] = "sent" /\ ~Queued(m)'
          /\ \A v \in Workers : Has(v, m)' => v = w
    BY <1>2, <1>4, <1>5, <1>6, <1>7 DEF Places
  <2>4. Distinct(stream)'
    BY <1>4 DEF Distinct
  <2>. QED BY <2>1, <2>2, <2>3, <2>4 DEF Places
<1>9. ASSUME NEW m \in Logs PROVE Bill(m)'
  <2>1. Bill(m) /\ rows'[m] = rows[m] /\ charges'[m] = charges[m]
    BY <1>1, <1>2 DEF Bills
  <2>2. status'[m] # "sent" \/ Queued(m)' => Untouched(m)
    BY <1>1, <1>4, <1>5, <2>1 DEF Bill
  <2>3. ASSUME NEW w \in Workers, Has(w, m)
        PROVE  IF m = Current(w)' THEN Stage(w, m)' ELSE Untouched(m)'
    <3>1. IF m = Current(w) THEN Stage(w, m) ELSE Untouched(m)
      BY <2>1, <2>3 DEF Bill
    <3>2. Stage(w, m) => Stage(w, m)'
      BY <1>1, <1>4 DEF Stage, Untouched
    <3>. QED BY <1>1, <3>1, <3>2 DEF Current, Untouched
  <2>4. (m \notin hit' /\ status'[m] = "sent" /\ ~Queued(m)'
          /\ \A w \in Workers : ~Has(w, m)') => rows'[m] = charges'[m]
    BY <1>4, <1>5, <1>6, <2>1 DEF Bill
  <2>. QED BY <1>6, <2>1, <2>2, <2>3, <2>4 DEF Bill, Untouched
<1>10. \A w \in Workers : pc'[w] = "read" => ~found'[w]
  BY <1>1, <1>2 DEF Bills
<1>. QED BY <1>8, <1>9, <1>10 DEF Bills

LEMMA PushFailsBills ==
    ASSUME BillInv, NEW l \in Logs, PushFails(l) PROVE Places' /\ Bills'
<1>1. /\ status[l] = "new" /\ status' = [status EXCEPT ![l] = "dropped"]
      /\ UNCHANGED <<stream, next, pc, batch, found, rows, charges, hit>>
  BY DEF PushFails, workerVars, historyVars
<1>2. TypeOK /\ Places /\ Bills
  BY DEF BillInv
<1>3. status'[l] = "dropped" /\ \A m \in Logs \ {l} : status'[m] = status[m]
  BY <1>1, <1>2 DEF TypeOK
<1>4. /\ \A w \in Workers, m \in Logs : Has(w, m)' <=> Has(w, m)
      /\ \A m \in Logs : Queued(m)' <=> Queued(m)
  BY <1>1 DEF Has, Queued
<1>5. \A w \in Workers : ~Has(w, l)
  BY <1>1, <1>2 DEF Places
<1>6. Places'
  <2>1. \A i \in 1 .. Len(stream) : stream[i] \in Logs /\ stream[i] # l
    BY <1>1, <1>2, StreamTypes DEF Places
  <2>2. \A i \in 1 .. Len(stream') : status'[stream'[i]] = "sent"
    BY <1>1, <1>2, <1>3, <2>1 DEF Places
  <2>3. /\ Distinct(stream)'
        /\ \A w \in Workers : Distinct(batch[w])'
    BY <1>1, <1>2 DEF Places, Distinct
  <2>4. \A w \in Workers, m \in Logs : Has(w, m)' =>
          /\ status'[m] = "sent" /\ ~Queued(m)'
          /\ \A v \in Workers : Has(v, m)' => v = w
    BY <1>2, <1>3, <1>4, <1>5 DEF Places
  <2>. QED BY <2>2, <2>3, <2>4 DEF Places
<1>7. ASSUME NEW m \in Logs PROVE Bill(m)'
  <2>1. Bill(m)
    BY <1>2 DEF Bills
  <2>2. \A w \in Workers : Has(w, m) =>
          IF m = Current(w)' THEN Stage(w, m)' ELSE Untouched(m)'
    BY <1>1, <2>1 DEF Bill, Current, Stage, Untouched
  <2>3. status'[m] = "sent" => status[m] = "sent"
    BY <1>3
  <2>4. status[m] # "sent" => Untouched(m)
    BY <2>1 DEF Bill
  <2>5. status'[m] # "sent" => Untouched(m)
    BY <1>1, <1>3, <2>4
  <2>. QED BY <1>1, <1>4, <2>1, <2>2, <2>3, <2>5 DEF Bill, Untouched
<1>8. \A w \in Workers : pc'[w] = "read" => ~found'[w]
  BY <1>1, <1>2 DEF Bills
<1>. QED BY <1>6, <1>7, <1>8 DEF Bills

LEMMA ReadBills == ASSUME BillInv, NEW w \in Workers, Read(w)
                   PROVE  Places' /\ Bills'
<1>. DEFINE n == Smallest(Batch, Len(Undelivered))
            part == SubSeq(Undelivered, 1, n)
<1>1. /\ pc[w] = "read" /\ Undelivered # <<>>
      /\ batch' = [batch EXCEPT ![w] = part]
      /\ next' = next + n
      /\ pc' = [pc EXCEPT ![w] = "charge"]
      /\ UNCHANGED <<status, stream, found, rows, charges, hit>>
  BY DEF Read, Deliver, Goto, historyVars
<1>2. /\ TypeOK /\ Places /\ Bills
      /\ stream \in Seq(Logs) /\ Len(stream) \in Nat /\ next \in 0 .. Len(stream)
      /\ \A i \in 1 .. Len(stream) : stream[i] \in Logs
  BY StreamTypes DEF BillInv
<1>3. /\ n \in Nat \ {0} /\ next + n <= Len(stream)
      /\ part \in Seq(Logs) /\ Len(part) = n
      /\ \A i \in 1 .. n : part[i] = stream[next + i]
  BY <1>1, <1>2, FirstOfUndelivered
<1>. HIDE DEF part, n
<1>4. /\ batch'[w] = part /\ pc'[w] = "charge"
      /\ \A v \in Workers \ {w} : pc'[v] = pc[v] /\ batch'[v] = batch[v]
  BY <1>1, <1>2 DEF TypeOK
<1>5. \A i, j \in 1 .. Len(stream) : stream[i] = stream[j] => i = j
  BY <1>2 DEF Places, Distinct
<1>6. ASSUME NEW m \in Logs, Has(w, m)' PROVE Queued(m) /\ ~Queued(m)'
  <2>1. PICK i \in 1 .. n : stream[next + i] = m
    BY <1>3, <1>4, <1>6 DEF Has
  <2>2. next + i \in next + 1 .. Len(stream) /\ next + i \in 1 .. Len(stream)
        /\ next + i <= next + n
    BY <1>2, <1>3
  <2>3. ASSUME NEW j \in next + n + 1 .. Len(stream), stream[j] = m PROVE FALSE
    <3>1. j \in 1 .. Len(stream) /\ j # next + i
      BY <1>2, <1>3, <2>2
    <3>. QED BY <1>5, <2>1, <2>2, <2>3, <3>1
  <2>. QED BY <1>1, <2>1, <2>2, <2>3 DEF Queued
<1>7. ASSUME NEW m \in Logs, Queued(m), ~Queued(m)' PROVE Has(w, m)'
  <2>1. PICK i \in next + 1 .. Len(stream) : stream[i] = m
    BY <1>7 DEF Queued
  <2>2. ~(i \in next + n + 1 .. Len(stream))
    BY <1>1, <1>7, <2>1 DEF Queued
  <2>3. i - next \in 1 .. n /\ next + (i - next) = i
    BY <1>2, <1>3, <2>1, <2>2
  <2>. QED BY <1>3, <1>4, <2>1, <2>3 DEF Has
<1>8. \A m \in Logs : Queued(m)' => Queued(m)
  BY <1>1, <1>2, <1>3 DEF Queued
<1>9. /\ \A m \in Logs : ~Has(w, m)
      /\ \A v \in Workers \ {w}, m \in Logs : Has(v, m)' <=> Has(v, m)
  <2>1. batch[w] = <<>> /\ batch[w] \in Seq(Logs)
    BY <1>1, <1>2 DEF TypeOK
  <2>2. Len(batch[w]) = 0
    BY <2>1, EmptyIffNoLength, Zenon
  <2>. QED BY <1>4, <2>2 DEF Has
<1>10. \A m \in Logs : Queued(m) => status[m] = "sent" /\ \A v \in Workers : ~Has(v, m)
  <2>1. \A m \in Logs : Queued(m) => status[m] = "sent"
    BY <1>2 DEF Queued, Places
  <2>. QED BY <1>2, <2>1 DEF Places
<1>11. Places'
  <2>1. ASSUME NEW i \in 1 .. n, NEW j \in 1 .. n, part[i] = part[j] PROVE i = j
    <3>1. next + i \in 1 .. Len(stream) /\ next + j \in 1 .. Len(stream)
      BY <1>2, <1>3
    <3>2. next + i = next + j
      BY <1>3, <1>5, <2>1, <3>1
    <3>. QED BY <1>2, <3>2
  <2>2. ASSUME NEW v \in Workers PROVE Distinct(batch[v])'
    <3>1. CASE v = w
      BY <1>3, <1>4, <2>1, <3>1 DEF Distinct
    <3>2. CASE v # w
      <4>1. batch'[v] = batch[v] /\ Distinct(batch[v])
        BY <1>2, <1>4, <3>2 DEF Places
      <4>. QED BY <4>1 DEF Distinct
    <3>. QED BY <3>1, <3>2
  <2>3. Distinct(stream)' /\ \A i \in 1 .. Len(stream') : status'[stream'[i]] = "sent"
    BY <1>1, <1>2 DEF Places, Distinct
  <2>4. ASSUME NEW v \in Workers, NEW m \in Logs, Has(v, m)'
        PROVE  /\ status'[m] = "sent" /\ ~Queued(m)'
               /\ \A x \in Workers : Has(x, m)' => x = v
    <3>1. CASE v = w
      BY <1>1, <1>6, <1>9, <1>10, <2>4, <3>1
    <3>2. CASE v # w
      <4>1. Has(v, m) /\ ~Queued(m)
        BY <1>2, <1>9, <2>4, <3>2 DEF Places
      <4>. QED BY <1>1, <1>2, <1>6, <1>8, <1>9, <4>1 DEF Places
    <3>. QED BY <3>1, <3>2
  <2>. QED BY <2>2, <2>3, <2>4 DEF Places
<1>12. ASSUME NEW m \in Logs PROVE Bill(m)'
  <2>1. Bill(m)
    BY <1>2 DEF Bills
  <2>2. ASSUME NEW v \in Workers, Has(v, m)'
        PROVE  IF m = Current(v)' THEN Stage(v, m)' ELSE Untouched(m)'
    <3>1. CASE v = w
      <4>1. Untouched(m) /\ ~found[w]
        BY <1>1, <1>2, <1>6, <2>1, <2>2, <3>1 DEF Bill, Bills
      <4>. QED BY <1>1, <1>4, <3>1, <4>1 DEF Stage, Untouched
    <3>2. CASE v # w
      <4>1. IF m = Current(v) THEN Stage(v, m) ELSE Untouched(m)
        BY <1>9, <2>1, <2>2, <3>2 DEF Bill
      <4>. QED BY <1>1, <1>4, <3>2, <4>1 DEF Stage, Untouched, Current
    <3>. QED BY <3>1, <3>2
  <2>3. (m \notin hit' /\ status'[m] = "sent" /\ ~Queued(m)'
          /\ \A v \in Workers : ~Has(v, m)') => rows'[m] = charges'[m]
    BY <1>1, <1>7, <1>9, <2>1 DEF Bill
  <2>. QED BY <1>1, <1>8, <2>1, <2>2, <2>3 DEF Bill, Untouched
<1>13. \A v \in Workers : pc'[v] = "read" => ~found'[v]
  BY <1>1, <1>2, <1>4 DEF Bills
<1>. QED BY <1>11, <1>12, <1>13 DEF Bills

LEMMA ReadFailsBills == ASSUME BillInv, NEW w \in Workers, ReadFails(w)
                        PROVE  Places' /\ Bills'
<1>. DEFINE n == Smallest(Batch, Len(Undelivered))
            part == SubSeq(Undelivered, 1, n)
<1>1. /\ Undelivered # <<>> /\ next' = next + n
      /\ hit' = hit \union Elements(part)
      /\ UNCHANGED <<status, stream, pc, batch, found, rows, charges>>
  BY DEF ReadFails, Strike, workerVars, historyVars
<1>2. /\ TypeOK /\ Places /\ Bills
      /\ stream \in Seq(Logs) /\ Len(stream) \in Nat /\ next \in 0 .. Len(stream)
  BY StreamTypes DEF BillInv
<1>3. /\ n \in Nat \ {0} /\ next + n <= Len(stream)
      /\ part \in Seq(Logs) /\ Len(part) = n
      /\ \A i \in 1 .. n : part[i] = stream[next + i]
  BY <1>1, <1>2, FirstOfUndelivered
<1>4. DOMAIN part = 1 .. n
  BY <1>3, LenProperties
<1>. HIDE DEF part, n
<1>5. ASSUME NEW m \in Logs, Queued(m), ~Queued(m)' PROVE m \in hit'
  <2>1. PICK i \in next + 1 .. Len(stream) : stream[i] = m
    BY <1>5 DEF Queued
  <2>2. ~(i \in next + n + 1 .. Len(stream))
    BY <1>1, <1>5, <2>1 DEF Queued
  <2>3. i - next \in 1 .. n /\ next + (i - next) = i
    BY <1>2, <1>3, <2>1, <2>2
  <2>4. part[i - next] = m
    BY <1>3, <2>1, <2>3
  <2>. QED BY <1>1, <1>4, <2>3, <2>4 DEF Elements
<1>6. \A m \in Logs : Queued(m)' => Queued(m)
  BY <1>1, <1>2, <1>3 DEF Queued
<1>7. \A v \in Workers, m \in Logs : Has(v, m)' <=> Has(v, m)
  BY <1>1 DEF Has
<1>8. Places'
  BY <1>1, <1>2, <1>6, <1>7 DEF Places, Distinct
<1>9. ASSUME NEW m \in Logs PROVE Bill(m)'
  <2>1. Bill(m)
    BY <1>2 DEF Bills
  <2>2. \A v \in Workers : Has(v, m) =>
          IF m = Current(v)' THEN Stage(v, m)' ELSE Untouched(m)'
    BY <1>1, <2>1 DEF Bill, Current, Stage, Untouched
  <2>3. (m \notin hit' /\ status'[m] = "sent" /\ ~Queued(m)'
          /\ \A v \in Workers : ~Has(v, m)') => rows'[m] = charges'[m]
    BY <1>1, <1>5, <1>7, <2>1 DEF Bill
  <2>. QED BY <1>1, <1>6, <1>7, <2>1, <2>2, <2>3 DEF Bill, Untouched
<1>10. \A v \in Workers : pc'[v] = "read" => ~found'[v]
  BY <1>1, <1>2 DEF Bills
<1>. QED BY <1>8, <1>9, <1>10 DEF Bills

LEMMA CrashBills == ASSUME BillInv, NEW w \in Workers, Crash(w)
                    PROVE  Places' /\ Bills'
<1>1. /\ batch' = [batch EXCEPT ![w] = <<>>]
      /\ pc' = [pc EXCEPT ![w] = "read"]
      /\ found' = [found EXCEPT ![w] = FALSE]
      /\ hit' = hit \union Elements(batch[w])
      /\ UNCHANGED <<status, stream, next, rows, charges>>
  BY DEF Crash, Goto, Strike, streamVars
<1>2. TypeOK /\ Places /\ Bills
  BY DEF BillInv
<1>3. /\ batch'[w] = <<>> /\ pc'[w] = "read" /\ ~found'[w]
      /\ \A v \in Workers \ {w} : /\ pc'[v] = pc[v] /\ batch'[v] = batch[v]
                                  /\ found'[v] = found[v]
  BY <1>1, <1>2 DEF TypeOK
<1>4. Len(batch'[w]) = 0
  BY <1>3, EmptySeq, Zenon
<1>5. /\ \A m \in Logs : ~Has(w, m)'
      /\ \A v \in Workers \ {w}, m \in Logs : Has(v, m)' <=> Has(v, m)
  BY <1>3, <1>4 DEF Has
<1>6. \A m \in Logs : Has(w, m) => m \in hit'
  <2>1. DOMAIN batch[w] = 1 .. Len(batch[w])
    BY <1>2, StreamTypes, LenProperties
  <2>. QED BY <1>1, <2>1 DEF Has, Elements
<1>7. \A m \in Logs : Queued(m)' <=> Queued(m)
  BY <1>1 DEF Queued
<1>8. Places'
  <2>1. ASSUME NEW v \in Workers PROVE Distinct(batch[v])'
    <3>1. CASE v = w
      BY <1>4, <3>1 DEF Distinct
    <3>2. CASE v # w
      <4>1. batch'[v] = batch[v] /\ Distinct(batch[v])
        BY <1>2, <1>3, <3>2 DEF Places
      <4>. QED BY <4>1 DEF Distinct
    <3>. QED BY <3>1, <3>2
  <2>2. \A v \in Workers, m \in Logs : Has(v, m)' =>
          /\ status'[m] = "sent" /\ ~Queued(m)'
          /\ \A x \in Workers : Has(x, m)' => x = v
    BY <1>1, <1>2, <1>5, <1>7 DEF Places
  <2>3. Distinct(stream)' /\ \A i \in 1 .. Len(stream') : status'[stream'[i]] = "sent"
    BY <1>1, <1>2 DEF Places, Distinct
  <2>. QED BY <2>1, <2>2, <2>3 DEF Places
<1>9. ASSUME NEW m \in Logs PROVE Bill(m)'
  <2>1. Bill(m)
    BY <1>2 DEF Bills
  <2>2. ASSUME NEW v \in Workers, Has(v, m)'
        PROVE  IF m = Current(v)' THEN Stage(v, m)' ELSE Untouched(m)'
    <3>1. v # w /\ Has(v, m)
      BY <1>5, <2>2
    <3>2. IF m = Current(v) THEN Stage(v, m) ELSE Untouched(m)
      BY <2>1, <3>1 DEF Bill
    <3>3. Stage(v, m) => Stage(v, m)'
      BY <1>1, <1>3, <3>1 DEF Stage, Untouched
    <3>. QED BY <1>1, <1>3, <3>1, <3>2, <3>3 DEF Untouched, Current
  <2>3. (m \notin hit' /\ status'[m] = "sent" /\ ~Queued(m)'
          /\ \A v \in Workers : ~Has(v, m)') => rows'[m] = charges'[m]
    BY <1>1, <1>5, <1>6, <1>7, <2>1 DEF Bill
  <2>. QED BY <1>1, <1>7, <2>1, <2>2, <2>3 DEF Bill, Untouched
<1>10. \A v \in Workers : pc'[v] = "read" => ~found'[v]
  BY <1>2, <1>3 DEF Bills
<1>. QED BY <1>8, <1>9, <1>10 DEF Bills

-----------------------------------------------------------------------------
(* The theorems *)

THEOREM BillInvariant == Spec => []BillInv
<1>1. Init => BillInv
  <2>. SUFFICES ASSUME Init PROVE Places /\ Bills /\ TypeOK
    BY DEF BillInv
  <2>1. TypeOK
    BY InitFlagInv DEF FlagInv
  <2>2. Len(<<>>) = 0
    BY EmptySeq, Zenon
  <2>3. \A w \in Workers : batch[w] = <<>> /\ pc[w] = "read" /\ ~found[w]
    BY DEF Init
  <2>4. \A w \in Workers : Len(batch[w]) = 0
    BY <2>2, <2>3
  <2>5. Len(stream) = 0
    BY <2>2 DEF Init
  <2>6. Places
    BY <2>4, <2>5 DEF Places, Distinct, Has
  <2>7. Bills
    BY <2>3, <2>4 DEF Init, Bills, Bill, Untouched, Has
  <2>. QED BY <2>1, <2>6, <2>7
<1>2. BillInv /\ FlagInv /\ FlagInv' /\ [Next]_vars => BillInv'
  <2>. SUFFICES ASSUME BillInv, FlagInv', [Next]_vars PROVE Places' /\ Bills'
    BY DEF BillInv, FlagInv
  <2>1. ASSUME NEW w \in Workers, Work(w) \/ ReadFails(w) \/ Crash(w)
        PROVE  Places' /\ Bills'
    BY <2>1, ReadBills, ChargeBills, ChargeNobodyBills, ChargeFailsBills,
       SetFlagBills, InsertBills, InsertFailsBills, AckBills, ReadFailsBills,
       CrashBills DEF Work
  <2>2. ASSUME NEW r \in Routes,
               \/ \E u \in Users : ChangeTier(r, u)
               \/ \E k \in Registered : SyncKey(r, k)
               \/ SyncFails(r)
        PROVE  Places' /\ Bills'
    <3>1. /\ UNCHANGED <<status, stream, next, pc, batch, found, rows, charges>>
          /\ hit \subseteq hit'
      BY <2>2 DEF ChangeTier, SyncKey, SyncFails, streamVars, workerVars,
                  historyVars
    <3>. QED BY <3>1, BillsStay
  <2>3. CASE UNCHANGED vars
    <3>1. /\ UNCHANGED <<status, stream, next, pc, batch, found, rows, charges>>
          /\ hit \subseteq hit'
      BY <2>3 DEF vars
    <3>. QED BY <3>1, BillsStay
  <2>. QED BY <2>1, <2>2, <2>3, PushBills, PushFailsBills DEF Next, Finished
<1>. QED BY <1>1, <1>2, FlagInvariant, PTL DEF Spec

\* No log is charged or recorded twice, and one that nothing struck is charged
\* if and only if it is recorded.
THEOREM BilledOnce == Spec => []BilledAsRecorded
<1>1. BillInv => BilledAsRecorded
  <2>. SUFFICES ASSUME BillInv, NEW l \in Logs
                PROVE  /\ rows[l] <= 1 /\ charges[l] <= 1
                       /\ (l \notin hit /\ Delivered(l) /\ l \notin InProgress)
                              => rows[l] = charges[l]
    BY DEF BilledAsRecorded
  <2>1. Bill(l)
    BY DEF BillInv, Bills
  <2>2. /\ l \in Elements(Undelivered) <=> Queued(l)
        /\ l \in InProgress <=> \E w \in Workers : Has(w, l)
    BY PlacesOfLogs DEF BillInv
  <2>. QED BY <2>1, <2>2 DEF Bill, Delivered
<1>. QED BY <1>1, BillInvariant, PTL

\* A message leaves the pending entries list only with its row in Postgres.
THEOREM AcknowledgedIsRecorded == Spec => AckedMeansRecorded
<1>1. BillInv /\ [Next]_vars => [\A l \in pending \ pending' : rows'[l] >= 1]_vars
  <2>. SUFFICES ASSUME BillInv, [Next]_vars, NEW l \in pending \ pending'
                PROVE  rows'[l] >= 1
    OBVIOUS
  <2>1. CASE \E w \in Workers : Ack(w)
    <3>1. PICK w \in Workers : Ack(w)
      BY <2>1
    <3>2. Stage(w, Current(w)) /\ pc[w] = "ack" /\ l = Current(w) /\ rows' = rows
      BY <3>1, StageOfCurrent DEF Ack
    <3>. QED BY <3>2 DEF Stage
  <2>2. CASE ~\E w \in Workers : Ack(w)
    <3>1. pending \subseteq pending'
      BY <2>2 DEF Next, Work, Push, PushFails, Read, ReadFails, Charge,
         ChargeNobody, ChargeFails, SetFlag, Insert, InsertFails, Crash,
         ChangeTier, SyncKey, SyncFails, Finished, vars, streamVars
    <3>. QED BY <3>1
  <2>. QED BY <2>1, <2>2
<1>. QED BY <1>1, BillInvariant, PTL DEF Spec, AckedMeansRecorded
=============================================================================
