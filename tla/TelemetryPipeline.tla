-------------------------- MODULE TelemetryPipeline --------------------------
(***************************************************************************)
(* Request logs travel from the proxies to Postgres through a Redis stream *)
(* with one consumer group; on the way the owner of the key is charged and *)
(* the key's limit_exceeded flag is set, under which ProxyHandler serves   *)
(* no more L1 and L2 hits.                                                 *)
(* Source: PushTelemetry and ConsumeTelemetryWorker of                     *)
(* proxy/internal/workers/telemetry.go, and the dashboard routes that      *)
(* change a user's tier and reset the flag of all of the user's keys.      *)
(*                                                                         *)
(* One Redis command or SQL statement is one step (the worker's SELECT on  *)
(* ApiKey, which nothing in the model changes, goes with its UPDATE).  A   *)
(* log carries one unit of tokens.                                         *)
(***************************************************************************)
EXTENDS Integers, Sequences, FiniteSets

CONSTANTS
    Logs,           \* request logs, one PushTelemetry each
    Keys,           \* the virtual keys the logs carry
    Registered,     \* those with a row in "ApiKey"; the others are suffixed
                    \*   with the end user's id (isolate_cache_by_user)
    LogKey,         \* [Logs -> Keys]
    Users,          \* the owners of the keys
    Owner,          \* [Registered -> Users]
    Limit,          \* a function from tiers to monthly tokens
    FirstTier,      \* FREE
    Workers,        \* the telemetry workers, one per proxy process
    Routes,         \* calls of a dashboard route that changes a tier
    Batch,          \* Count of the XREADGROUP
    StreamCap,      \* MAXLEN of the stream
    FaultKinds,     \* the faults considered: "redis", "postgres", "crash"
    MaxFaults       \* bound on their number in a behaviour

Tiers == DOMAIN Limit

ASSUME ConstantsAssumption ==
    /\ Registered \subseteq Keys
    /\ LogKey \in [Logs -> Keys]
    /\ Owner \in [Registered -> Users]
    /\ FirstTier \in Tiers
    /\ \A t \in Tiers : Limit[t] \in Nat
    /\ Batch \in Nat \ {0}
    /\ StreamCap \in Nat \ {0}
    /\ MaxFaults \in Nat

VARIABLES
    status,     \* of each log: "new", "sent" (to the stream) or "dropped"
    stream,     \* synapse:telemetry:logs, oldest entry first
    next,       \* how many of its entries the group has delivered
    pending,    \* the group's pending entries list
    pc,         \* where each worker is
    batch,      \* the delivered logs a worker has not finished with
    exceeded,   \* limitExceeded, between the UPDATE and the HSET
    found,      \* the worker's SELECT found the key
    rows,       \* rows in "RequestLog" per log
    used,       \* currentMonthTokens of each user
    tier,       \* and the tier
    flag,       \* limit_exceeded in synapse:keys:<vk>
    route,      \* where each route is
    todo,       \* the keys whose flag a route has still to reset
    faults,     \* number of faults so far
    charges,    \* history: how often each log was charged
    hit,        \* history: the logs that a fault or the trimming struck
    due,        \* history: the flag that the last write to Postgres calls for
    unsettled   \* history: keys with a flag write lost or overtaken

vars == <<status, stream, next, pending, pc, batch, exceeded, found, rows,
          used, tier, flag, route, todo, faults, charges, hit, due, unsettled>>

streamVars == <<status, stream, next, pending>>
workerVars == <<pc, batch, exceeded, found>>
userVars == <<used, tier, flag>>
routeVars == <<route, todo>>
historyVars == <<charges, due, unsettled>>

Init ==
    /\ status = [l \in Logs |-> "new"]
    /\ stream = <<>>
    /\ next = 0
    /\ pending = {}
    /\ pc = [w \in Workers |-> "read"]
    /\ batch = [w \in Workers |-> <<>>]
    /\ exceeded = [w \in Workers |-> FALSE]
    /\ found = [w \in Workers |-> FALSE]
    /\ rows = [l \in Logs |-> 0]
    /\ used = [u \in Users |-> 0]
    /\ tier = [u \in Users |-> FirstTier]
    /\ flag = [k \in Registered |-> FALSE]
    /\ route = [r \in Routes |-> "new"]
    /\ todo = [r \in Routes |-> {}]
    /\ faults = 0
    /\ charges = [l \in Logs |-> 0]
    /\ hit = {}
    /\ due = [k \in Registered |-> FALSE]
    /\ unsettled = {}

Fault(kind) ==
    /\ kind \in FaultKinds
    /\ faults < MaxFaults
    /\ faults' = faults + 1

NoFault == UNCHANGED faults

Strike(ls) == hit' = hit \union ls

Elements(s) == {s[i] : i \in DOMAIN s}

-----------------------------------------------------------------------------
(* PushTelemetry, in a goroutine of its own after the answer *)

\* XADD MAXLEN ~: at the cap the oldest entry may go, delivered or not.
Push(l) ==
    /\ status[l] = "new"
    /\ status' = [status EXCEPT ![l] = "sent"]
    /\ \/ /\ stream' = Append(stream, l)
          /\ UNCHANGED <<next, hit>>
       \/ /\ Len(stream) >= StreamCap
          /\ stream' = Append(Tail(stream), l)
          /\ next' = IF next = 0 THEN 0 ELSE next - 1
          /\ Strike(IF next = 0 THEN {Head(stream)} ELSE {})
    /\ UNCHANGED <<pending, workerVars, rows, userVars, routeVars, faults,
                   historyVars>>

\* The XADD fails, or the process dies first: the log is gone.
PushFails(l) ==
    /\ status[l] = "new"
    /\ Fault("redis") \/ Fault("crash")
    /\ status' = [status EXCEPT ![l] = "dropped"]
    /\ UNCHANGED <<stream, next, pending, workerVars, rows, userVars, routeVars,
                   hit, historyVars>>

-----------------------------------------------------------------------------
(* ConsumeTelemetryWorker *)

Goto(w, p) == pc' = [pc EXCEPT ![w] = p]

Current(w) == Head(batch[w])
Key(w) == LogKey[Current(w)]

\* Who is between its write to Postgres and its write of the flag of k.
FlagWriters(k) ==
    {w \in Workers : pc[w] = "flag" /\ Key(w) = k}
        \union {r \in Routes : k \in todo[r]}

\* History: the keys ks owe their flag to a new write to Postgres.
Owe(ks, value) ==
    /\ due' = [k \in Registered |-> IF k \in ks THEN value ELSE due[k]]
    /\ unsettled' = {k \in unsettled \union ks :
                        k \in ks => FlagWriters(k) # {}}

\* Mutant: the loop over the messages is left after the first one.
LeaveLoop(w) ==
    /\ batch' = [batch EXCEPT ![w] = <<>>]
    /\ Goto(w, "read")
    /\ found' = [found EXCEPT ![w] = FALSE]

\* The loop over the messages goes on to the next one.
NextMessage(w) ==
    /\ batch' = [batch EXCEPT ![w] = Tail(@)]
    /\ Goto(w, IF Len(batch[w]) = 1 THEN "read" ELSE "charge")
    /\ found' = [found EXCEPT ![w] = FALSE]

Smallest(a, b) == IF a <= b THEN a ELSE b

\* The entries that no XREADGROUP has delivered yet.
Undelivered == SubSeq(stream, next + 1, Len(stream))

\* Mutant: a read starts over from the first entry of the stream.
DeliverFromTheStart(w) ==
    /\ stream # <<>>
    /\ LET n == Smallest(Batch, Len(stream)) IN
       /\ batch' = [batch EXCEPT ![w] = SubSeq(stream, 1, n)]
       /\ next' = n

\* Mutant: the group advances by what was asked for, not by what it got.
DeliverOvershooting(w) ==
    /\ Undelivered # <<>>
    /\ batch' = [batch EXCEPT ![w] =
                    SubSeq(Undelivered, 1, Smallest(Batch, Len(Undelivered)))]
    /\ next' = next + Batch

\* XREADGROUP with ">": only what was never delivered to the group.
Deliver(w) ==
    /\ Undelivered # <<>>
    /\ LET n == Smallest(Batch, Len(Undelivered)) IN
       /\ batch' = [batch EXCEPT ![w] = SubSeq(Undelivered, 1, n)]
       /\ next' = next + n

Read(w) ==
    /\ pc[w] = "read"
    /\ Deliver(w)
    /\ pending' = pending \union Elements(batch'[w])
    /\ Goto(w, "charge")
    /\ UNCHANGED <<status, stream, exceeded, found, rows, userVars, routeVars,
                   faults, hit, historyVars>>

\* Redis delivers but the reply is lost; the worker asks for newer entries.
ReadFails(w) ==
    /\ pc[w] = "read"
    /\ Undelivered # <<>>
    /\ Fault("redis")
    /\ LET n == Smallest(Batch, Len(Undelivered))
           lost == Elements(SubSeq(Undelivered, 1, n)) IN
       /\ next' = next + n
       /\ pending' = pending \union lost
       /\ Strike(lost)
    /\ UNCHANGED <<status, stream, workerVars, rows, userVars, routeVars,
                   historyVars>>

\* SELECT the key's owner, then UPDATE ... RETURNING the new total and tier.
Charge(w) ==
    /\ pc[w] = "charge"
    /\ Key(w) \in Registered
    /\ LET u == Owner[Key(w)]
           over == used[u] + 1 >= Limit[tier[u]] IN
       /\ used' = [used EXCEPT ![u] = @ + 1]
       /\ exceeded' = [exceeded EXCEPT ![w] = over]
       /\ Owe({Key(w)}, over)
    /\ charges' = [charges EXCEPT ![Current(w)] = @ + 1]
    /\ found' = [found EXCEPT ![w] = TRUE]
    /\ Goto(w, "flag")
    /\ UNCHANGED <<streamVars, batch, rows, tier, flag, routeVars, faults, hit>>

\* The key is not in "ApiKey", or the SELECT fails: the key itself stands in
\* for the ApiKey id, and the UPDATE of user "unknown" returns no row.
ChargeNobody(w) ==
    /\ pc[w] = "charge"
    /\ \/ Key(w) \notin Registered /\ NoFault /\ UNCHANGED hit
       \/ Key(w) \in Registered /\ Fault("postgres") /\ Strike({Current(w)})
    /\ Goto(w, "insert")
    /\ UNCHANGED <<streamVars, batch, exceeded, found, rows, userVars,
                   routeVars, historyVars>>

\* The UPDATE fails: no charge and no flag, but the row is still written.
ChargeFails(w) ==
    /\ pc[w] = "charge"
    /\ Key(w) \in Registered
    /\ Fault("postgres")
    /\ Strike({Current(w)})
    /\ found' = [found EXCEPT ![w] = TRUE]
    /\ Goto(w, "insert")
    /\ UNCHANGED <<streamVars, batch, exceeded, rows, userVars, routeVars,
                   historyVars>>

\* HSET limit_exceeded, whose error is only logged.
SetFlag(w) ==
    /\ pc[w] = "flag"
    /\ \/ /\ NoFault
          /\ flag' = [flag EXCEPT ![Key(w)] = exceeded[w]]
          /\ UNCHANGED unsettled
       \/ /\ Fault("redis")
          /\ unsettled' = unsettled \union {Key(w)}
          /\ UNCHANGED flag
    /\ exceeded' = [exceeded EXCEPT ![w] = FALSE]
    /\ Goto(w, "insert")
    /\ UNCHANGED <<streamVars, batch, found, rows, used, tier, routeVars, hit,
                   charges, due>>

\* INSERT into "RequestLog" under the id that the SELECT found.
Insert(w) ==
    /\ pc[w] = "insert"
    /\ found[w]
    /\ rows' = [rows EXCEPT ![Current(w)] = @ + 1]
    /\ Goto(w, "ack")
    /\ UNCHANGED <<streamVars, batch, exceeded, found, userVars, routeVars,
                   faults, hit, historyVars>>

\* Mutant: the message is acknowledged whatever became of the INSERT.
InsertFailsButAcks(w) ==
    /\ pc[w] = "insert"
    /\ \/ ~found[w] /\ NoFault /\ UNCHANGED hit
       \/ found[w] /\ Fault("postgres") /\ Strike({Current(w)})
    /\ Goto(w, "ack")
    /\ UNCHANGED <<streamVars, batch, exceeded, found, rows, userVars,
                   routeVars, historyVars>>

\* The INSERT fails: always when the id is not one of "ApiKey" (the foreign
\* key), else by a fault, before or after the commit.  The message stays
\* pending and the worker moves on.
InsertFails(w) ==
    /\ pc[w] = "insert"
    /\ \/ ~found[w] /\ NoFault /\ UNCHANGED <<rows, hit>>
       \/ /\ found[w] /\ Fault("postgres") /\ Strike({Current(w)})
          /\ \/ UNCHANGED rows
             \/ rows' = [rows EXCEPT ![Current(w)] = @ + 1]
    /\ NextMessage(w)
    /\ UNCHANGED <<streamVars, exceeded, userVars, routeVars, historyVars>>

\* XACK, whose error is ignored.
Ack(w) ==
    /\ pc[w] = "ack"
    /\ \/ NoFault /\ pending' = pending \ {Current(w)}
       \/ Fault("redis") /\ UNCHANGED pending
    /\ NextMessage(w)
    /\ UNCHANGED <<status, stream, next, exceeded, rows, userVars, routeVars,
                   hit, historyVars>>

\* The process dies and starts again: the group exists already, what was
\* delivered stays pending, and nothing ever reads the pending list.
Crash(w) ==
    /\ pc[w] # "read"
    /\ Fault("crash")
    /\ Goto(w, "read")
    /\ Strike(Elements(batch[w]))
    /\ unsettled' = IF pc[w] = "flag" THEN unsettled \union {Key(w)}
                    ELSE unsettled
    /\ batch' = [batch EXCEPT ![w] = <<>>]
    /\ exceeded' = [exceeded EXCEPT ![w] = FALSE]
    /\ found' = [found EXCEPT ![w] = FALSE]
    /\ UNCHANGED <<streamVars, rows, userVars, routeVars, charges, due>>

-----------------------------------------------------------------------------
(* The dashboard: the Stripe webhook and the superadmin's tier route *)

KeysOf(u) == {k \in Registered : Owner[k] = u}

\* UPDATE the user's tier and read the user's keys.
ChangeTier(r, u) ==
    /\ route[r] = "new"
    /\ \E t \in Tiers \ {tier[u]} : tier' = [tier EXCEPT ![u] = t]
    /\ route' = [route EXCEPT ![r] = "sync"]
    /\ todo' = [todo EXCEPT ![r] = KeysOf(u)]
    /\ Owe(KeysOf(u), FALSE)
    /\ UNCHANGED <<streamVars, workerVars, rows, used, flag, faults, charges,
                   hit>>

\* Mutant: the route writes the tier to Redis but not the flag.
LeaveFlag(k) == UNCHANGED flag

\* HSET limit_exceeded "false", whatever was used and whatever the new tier.
ClearFlag(k) == flag' = [flag EXCEPT ![k] = FALSE]

SyncKey(r, k) ==
    /\ k \in todo[r]
    /\ ClearFlag(k)
    /\ todo' = [todo EXCEPT ![r] = @ \ {k}]
    /\ UNCHANGED <<streamVars, workerVars, rows, used, tier, route, faults, hit,
                   historyVars>>

\* Redis is out of reach: the route answers 500, and the tier stays changed.
SyncFails(r) ==
    /\ todo[r] # {}
    /\ Fault("redis") \/ Fault("crash")
    /\ unsettled' = unsettled \union todo[r]
    /\ todo' = [todo EXCEPT ![r] = {}]
    /\ UNCHANGED <<streamVars, workerVars, rows, userVars, route, charges, hit,
                   due>>

\* Every log was pushed and read: the model, not the system, stops here.
Finished ==
    /\ \A l \in Logs : status[l] # "new"
    /\ Undelivered = <<>>
    /\ \A w \in Workers : pc[w] = "read"
    /\ \A r \in Routes : route[r] = "sync" /\ todo[r] = {}
    /\ UNCHANGED vars

Work(w) ==
    \/ Read(w) \/ Charge(w) \/ ChargeNobody(w) \/ ChargeFails(w) \/ SetFlag(w)
    \/ Insert(w) \/ InsertFails(w) \/ Ack(w)

Next ==
    \/ \E l \in Logs : Push(l) \/ PushFails(l)
    \/ \E w \in Workers : Work(w) \/ ReadFails(w) \/ Crash(w)
    \/ \E r \in Routes, u \in Users : ChangeTier(r, u)
    \/ \E r \in Routes, k \in Registered : SyncKey(r, k)
    \/ \E r \in Routes : SyncFails(r)
    \/ Finished

Spec == Init /\ [][Next]_vars

\* A worker's commands come back and its goroutine is scheduled.
Fairness == \A w \in Workers : WF_vars(Work(w))

FairSpec == Spec /\ Fairness

-----------------------------------------------------------------------------
(* Properties *)

\* The type invariant.
TypeOK ==
    /\ status \in [Logs -> {"new", "sent", "dropped"}]
    /\ stream \in Seq(Logs)
    /\ next \in 0 .. Len(stream)
    /\ pending \subseteq Logs
    /\ pc \in [Workers -> {"read", "charge", "flag", "insert", "ack"}]
    /\ batch \in [Workers -> Seq(Logs)]
    /\ \A w \in Workers :
          Len(batch[w]) <= Batch /\ (pc[w] = "read" <=> batch[w] = <<>>)
    /\ exceeded \in [Workers -> BOOLEAN]
    /\ found \in [Workers -> BOOLEAN]
    /\ rows \in [Logs -> Nat]
    /\ used \in [Users -> Nat]
    /\ tier \in [Users -> Tiers]
    /\ flag \in [Registered -> BOOLEAN]
    /\ route \in [Routes -> {"new", "sync"}]
    /\ todo \in [Routes -> SUBSET Registered]
    /\ faults \in 0 .. MaxFaults
    /\ charges \in [Logs -> Nat]
    /\ hit \subseteq Logs
    /\ due \in [Registered -> BOOLEAN]
    /\ unsettled \subseteq Registered

InProgress == UNION {Elements(batch[w]) : w \in Workers}

Delivered(l) ==
    status[l] = "sent" /\ l \notin Elements(Undelivered)

\* However many workers read, crash and fail: no log is charged or recorded
\* twice, and one that no fault struck is charged if and only if it is
\* recorded.  Nothing in the code detects a second delivery.
BilledAsRecorded ==
    \A l \in Logs :
        /\ rows[l] <= 1
        /\ charges[l] <= 1
        /\ (l \notin hit /\ Delivered(l) /\ l \notin InProgress)
               => rows[l] = charges[l]

\* A log leaves the pending entries list, the only place it could be
\* recovered from, no earlier than its row is in Postgres.
AckedMeansRecorded ==
    [][\A l \in pending \ pending' : rows'[l] >= 1]_vars

\* The flag of a key is the one the last write to Postgres calls for, and a
\* flagged key's owner really is over the limit of the tier, unless the flag
\* is being written or a write of it was lost or overtaken since.  The next
\* write that nothing overlaps heals the flag.
FlagFollowsPostgres ==
    \A k \in Registered \ unsettled :
        FlagWriters(k) = {} =>
            /\ flag[k] = due[k]
            /\ flag[k] => used[Owner[k]] >= Limit[tier[Owner[k]]]

\* Every log of a registered key that reaches the stream gets its row, unless
\* a fault strikes it or the stream is trimmed.
EveryLogIsRecorded ==
    \A l \in Logs :
        (status[l] = "sent" /\ LogKey[l] \in Registered)
            ~> (rows[l] >= 1 \/ l \in hit)

\* What a comment says of the code, refuted by the code (README, findings).
\* telemetry.go, on a key that is not in "ApiKey": "Use the VK itself as a
\* fallback ID so the row still gets written."
FallbackRowIsWritten ==
    \A l \in Logs :
        (Delivered(l) /\ l \notin InProgress /\ l \notin hit) => rows[l] = 1
=============================================================================
