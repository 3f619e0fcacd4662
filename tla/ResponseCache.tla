----------------------------- MODULE ResponseCache -----------------------------
(***************************************************************************)
(* The answer caches of the proxy: L1 (one Redis string per tenant and     *)
(* payload hash) and L2 (one Redis hash per tenant and payload, found by a *)
(* nearest-neighbour search), as ProxyHandler reads them                   *)
(* (internal/handlers/proxy.go), streamResponse writes them (stream.go)    *)
(* and CachePurgeHandler empties them (purge.go).  Every Redis command is  *)
(* a step of its own: between two of them the requests interleave, entries *)
(* expire and a purge runs.  A command that fails is logged or ignored, as *)
(* in the code.                                                            *)
(***************************************************************************)
EXTENDS Naturals

CONSTANTS
    Requests,      \* request goroutines
    Tenants,       \* virtual keys, with the user's name behind the colon
    Callers,       \* those of them that send requests
    Tag,           \* a tenant as a search asks for it: one TAG, in lower case
    Tags,          \* a tenant as the index has it: split at the commas of its
                   \* name, in lower case
    Scopes,        \* what a purge may cover: the tenants of a virtual key, or all
    Payloads,
    Near,          \* pairs whose distance is below the tolerance
    ToolPayloads,  \* payloads with tool calls
    LeftOver,      \* keys that may be there from the start, with their TTL
    AgeLimits,     \* how old an answer the tools of a payload allow
    NoLimit,
    Ttls,          \* values the cacheTtl setting takes
    None,
    MaxTime,       \* bound on the clock
    Pause,         \* seconds that pass at a time
    MaxArrivals    \* bound on the requests

ASSUME ToolsAreSent == ToolPayloads \subseteq Payloads
ASSUME CallersAreTenants == Callers \subseteq Tenants
ASSUME ScopesAreTenants == Scopes \subseteq SUBSET Tenants
ASSUME LeftOverAreKeys ==
    LeftOver \subseteq [keys : SUBSET ({"L1", "L2"} \X Tenants \X Payloads),
                        ttl : Nat \ {0}]
ASSUME TtlsAreTimes == Ttls \subseteq Nat
ASSUME LimitsAreTimes == AgeLimits \subseteq Nat \cup {NoLimit}
ASSUME LimitIsNoTime == NoLimit \notin Nat
ASSUME BoundsAreNaturals == {MaxTime, MaxArrivals, Pause} \subseteq Nat

VARIABLES
    clock,
    cache,     \* the Redis keys synapse:l1cache:* and synapse:l2cache:*
    lost,      \* history: keys whose EXPIRE was lost
    req,
    purge,
    arrivals

vars == <<clock, cache, lost, req, purge, arrivals>>

Levels == {"L1", "L2"}
Keys == Levels \X Tenants \X Payloads

\* "poor" answers pass isValidResponse and fail IsCachedResponseAnError.
Answers == [by : Tenants, of : Payloads, poor : BOOLEAN]

\* An entry holds an answer since "set"; it dies at "dies", or never (0).
\* "fresh" is history: it was stored after the purge began.
Entries == [answer : Answers, set : Nat, dies : Nat, fresh : BOOLEAN]
Absent == [answer |-> None, set |-> 0, dies |-> 0, fresh |-> FALSE]
Present(k) == cache[k] # Absent

Steps == {"idle", "get", "age", "search", "drop", "upstream", "hset", "expire",
          "served"}
Idle == [at |-> "idle", tenant |-> None, payload |-> None, ttl |-> 0,
         limit |-> NoLimit, seen |-> Absent, level |-> None, answer |-> None,
         vector |-> FALSE, checked |-> 0, raced |-> FALSE]

RequestStates ==
    [at : Steps, tenant : Tenants \cup {None}, payload : Payloads \cup {None},
     ttl : Nat, limit : Nat \cup {NoLimit}, seen : Entries \cup {Absent},
     level : Levels \cup {None}, answer : Answers \cup {None},
     vector : BOOLEAN, checked : Nat, raced : BOOLEAN]

NoPurge == [at |-> "idle", scope |-> {}, failed |-> FALSE]

Nothing == [k \in Keys |-> Absent]

\* What requests before the last start of the proxy may have left in Redis.
Leftovers ==
    {[k \in Keys |->
        IF k \in old.keys
        THEN [answer |-> [by |-> k[2], of |-> k[3], poor |-> FALSE], set |-> 1,
              dies |-> 1 + old.ttl, fresh |-> FALSE]
        ELSE Absent] : old \in LeftOver}

Init ==
    /\ clock = 1
    /\ cache \in Leftovers \cup {Nothing}
    /\ lost = {}
    /\ req = [r \in Requests |-> Idle]
    /\ purge = NoPurge
    /\ arrivals = 0

Key(r, level) == <<level, req[r].tenant, req[r].payload>>
Go(r, step) == req' = [req EXCEPT ![r].at = step]
Finish(r) == req' = [req EXCEPT ![r] = Idle]

\* What a request that goes to the provider takes along.
Ask(r, vector) ==
    req' = [req EXCEPT ![r] =
              [Idle EXCEPT !.at = "upstream", !.tenant = req[r].tenant,
                           !.payload = req[r].payload, !.ttl = req[r].ttl,
                           !.vector = vector]]

-----------------------------------------------------------------------------
(* The request reads the caches. *)

\* A request, with the settings its key and its tools have now.
Arrive(r) ==
    /\ req[r].at \in {"idle", "served"} /\ arrivals < MaxArrivals
    /\ \E t \in Callers, p \in Payloads, ttl \in Ttls,
          limit \in AgeLimits \cup {NoLimit} :
        /\ p \notin ToolPayloads => limit = NoLimit
        /\ req' = [req EXCEPT ![r] =
                [Idle EXCEPT !.at = "get", !.tenant = t, !.payload = p,
                             !.ttl = ttl, !.limit = limit]]
    /\ arrivals' = arrivals + 1
    /\ UNCHANGED <<clock, cache, lost, purge>>

\* Mutant: whatever the cache held is replayed.
AfterHit_ReplayAll(e) == "served"

\* IsCachedResponseAnError, the safety net before an answer is replayed.
AfterHit(e) == IF e.answer.poor THEN "drop" ELSE "served"

\* GET finds an answer.  Only one whose tools limit its age is looked at again.
GetL1(r) ==
    /\ req[r].at = "get" /\ Present(Key(r, "L1"))
    /\ LET e == cache[Key(r, "L1")] IN
        req' = [req EXCEPT ![r].seen = e, ![r].level = "L1",
                    ![r].at = IF req[r].limit = NoLimit THEN AfterHit(e)
                              ELSE "age"]
    /\ UNCHANGED <<clock, cache, lost, purge, arrivals>>

\* Nothing there, L1 is off, GET failed, the key is over its limit, or a tool
\* forbids all reuse.
MissL1(r) ==
    /\ req[r].at = "get" /\ Go(r, "search")
    /\ UNCHANGED <<clock, cache, lost, purge, arrivals>>

\* Mutant: the time an entry has left is taken for its age.
WithinLimit_TimeLeft(r, e) == e.dies > clock /\ e.dies <= clock + req[r].limit

\* ShouldReuseCache: the age is the TTL the key's setting has now, less the time
\* the entry has left.
WithinLimit(r, e) ==
    e.dies > clock /\ clock + req[r].ttl <= e.dies + req[r].limit

\* TTL is asked after GET, of the entry that is there now.
CheckAge(r) ==
    /\ req[r].at = "age" /\ WithinLimit(r, cache[Key(r, "L1")])
    /\ req' = [req EXCEPT ![r].checked = clock,
                          ![r].raced = cache[Key(r, "L1")] # req[r].seen,
                          ![r].at = AfterHit(req[r].seen)]
    /\ UNCHANGED <<clock, cache, lost, purge, arrivals>>

\* Too old, without a TTL, gone, or TTL failed.
TooOld(r) ==
    /\ req[r].at = "age"
    /\ req' = [req EXCEPT ![r].at = "search", ![r].seen = Absent]
    /\ UNCHANGED <<clock, cache, lost, purge, arrivals>>

\* Mutant: the search is not filtered by the tenant.
Neighbours_AnyTenant(r) ==
    {k \in Keys : /\ k[1] = "L2" /\ Present(k)
                  /\ <<req[r].payload, k[3]>> \in Near}

\* vk is a TAG field without CASESENSITIVE, with the comma as its separator, and
\* the query escapes the comma: the filter lets the entries of tenant u through
\* when one part of u's name is t's whole name, whatever the case.
Admits(t, u) == Tag[t] \in Tags[u]

\* The nearest neighbour is one of the entries the filter admits that is near
\* enough, if any is.
Neighbours(r) ==
    {k \in Keys : /\ k[1] = "L2" /\ Admits(req[r].tenant, k[2]) /\ Present(k)
                  /\ <<req[r].payload, k[3]>> \in Near}

\* A tool loop makes no semantic match; a session makes none either.
SemanticMatch(r) == req[r].at = "search" /\ req[r].payload \notin ToolPayloads

SearchL2(r) ==
    /\ SemanticMatch(r)
    /\ \E k \in Neighbours(r) :
        req' = [req EXCEPT ![r].at = AfterHit(cache[k]), ![r].seen = cache[k],
                           ![r].level = "L2", ![r].vector = TRUE]
    /\ UNCHANGED <<clock, cache, lost, purge, arrivals>>

\* No neighbour, a search that failed, or a key over its limit: the embedding
\* stays with the request.
MissL2(r) ==
    /\ SemanticMatch(r) /\ Ask(r, TRUE)
    /\ UNCHANGED <<clock, cache, lost, purge, arrivals>>

\* L2 is off, an image, no embedding, a session or a tool loop.
SkipL2(r) ==
    /\ req[r].at = "search" /\ Ask(r, FALSE)
    /\ UNCHANGED <<clock, cache, lost, purge, arrivals>>

\* The entries of this payload go, whichever entry the answer came from.
DropPoisoned(r) ==
    /\ req[r].at = "drop" /\ Ask(r, req[r].vector)
    /\ LET own == {Key(r, "L1"), Key(r, "L2")} IN
        \/ /\ cache' = [k \in Keys |-> IF k \in own THEN Absent ELSE cache[k]]
           /\ lost' = lost \ own
        \/ UNCHANGED <<cache, lost>>     \* DEL failed
    /\ UNCHANGED <<clock, purge, arrivals>>

-----------------------------------------------------------------------------
(* The request asks the provider and stores what it answers. *)

Entry(answer, dies) == [answer |-> answer, set |-> clock, dies |-> dies,
                        fresh |-> purge.at # "idle"]
Death(r) == IF req[r].ttl = 0 THEN 0 ELSE clock + req[r].ttl

\* Mutant: the semantic entry is written without the answer.
Stored_NoAnswer(r, answer) ==
    IF req[r].vector THEN [req[r] EXCEPT !.at = "hset"] ELSE Idle

\* With an embedding the answer goes to L2 too.
Stored(r, answer) ==
    IF req[r].vector THEN [req[r] EXCEPT !.at = "hset", !.answer = answer]
    ELSE Idle

\* A valid answer: SET with the TTL, where a TTL of 0 sets none.  An error that
\* isValidResponse does not know is stored too.
StoreL1(r) ==
    /\ req[r].at = "upstream"
    /\ \E poor \in BOOLEAN :
        LET answer == [by |-> req[r].tenant, of |-> req[r].payload,
                       poor |-> poor]
        IN  /\ \/ cache' = [cache EXCEPT ![Key(r, "L1")] =
                                            Entry(answer, Death(r))]
               \/ UNCHANGED cache       \* SET failed
            /\ req' = [req EXCEPT ![r] = Stored(r, answer)]
    /\ UNCHANGED <<clock, lost, purge, arrivals>>

\* The provider fails, or nothing may be kept (zero-log).
NotKept(r) ==
    /\ req[r].at = "upstream" /\ Finish(r)
    /\ UNCHANGED <<clock, cache, lost, purge, arrivals>>

\* Mutant: a request sets no TTL on what it stores in L2.
StoreL2_NoExpire(r) ==
    /\ req[r].at = "hset" /\ Finish(r)
    /\ cache' = [cache EXCEPT ![Key(r, "L2")] =
                                Entry(req[r].answer, @.dies)]
    /\ UNCHANGED <<clock, lost, purge, arrivals>>

\* HSET leaves the TTL of an entry that is there, and a new one without any.
StoreL2(r) ==
    /\ req[r].at = "hset" /\ Go(r, "expire")
    /\ cache' = [cache EXCEPT ![Key(r, "L2")] =
                                Entry(req[r].answer, @.dies)]
    /\ UNCHANGED <<clock, lost, purge, arrivals>>

\* A failed HSET does not keep EXPIRE from being sent.
StoreL2Fails(r) ==
    /\ req[r].at = "hset" /\ Go(r, "expire")
    /\ UNCHANGED <<clock, cache, lost, purge, arrivals>>

\* EXPIRE; one of 0 seconds deletes the entry.
ExpireL2(r) ==
    /\ req[r].at = "expire" /\ Finish(r)
    /\ LET k == Key(r, "L2") IN
        /\ cache' = [cache EXCEPT ![k] =
                IF @ = Absent \/ req[r].ttl = 0 THEN Absent
                ELSE [@ EXCEPT !.dies = Death(r)]]
        /\ lost' = lost \ {k}
    /\ UNCHANGED <<clock, purge, arrivals>>

NeverExpiring(ks) == {k \in ks : Present(k) /\ cache[k].dies = 0}

ExpireL2Fails(r) ==
    /\ req[r].at = "expire" /\ Finish(r)
    /\ lost' = lost \cup NeverExpiring({Key(r, "L2")})
    /\ UNCHANGED <<clock, cache, purge, arrivals>>

-----------------------------------------------------------------------------
(* The purge walks the keyspace with SCAN and deletes with UNLINK: L1, then  *)
(* L2.  It keeps nothing of a page once that is unlinked.                    *)

StartPurge ==
    /\ purge.at = "idle"
    /\ \E scope \in Scopes :
        purge' = [at |-> "L1", scope |-> scope, failed |-> FALSE]
    /\ UNCHANGED <<clock, cache, lost, req, arrivals>>

Matching == {k \in Keys : k[1] = purge.at /\ k[2] \in purge.scope /\ Present(k)}
AfterLevel == IF purge.at = "L1" THEN "L2" ELSE "done"

Unlink(batch) ==
    /\ cache' = [k \in Keys |-> IF k \in batch THEN Absent ELSE cache[k]]
    /\ lost' = lost \ batch

\* A full batch on the way.
UnlinkBatch ==
    /\ purge.at \in Levels
    /\ \E batch \in SUBSET Matching \ {{}} : Unlink(batch)
    /\ UNCHANGED <<clock, req, purge, arrivals>>

\* Mutant: the batch that is left at the end of the walk is not deleted.
LastBatches_None == {{}}

\* A whole walk returns every key that was there throughout; of those that came
\* meanwhile some.
LastBatches ==
    {batch \in SUBSET Matching : \A k \in Matching \ batch : cache[k].fresh}

UnlinkLast ==
    /\ purge.at \in Levels
    /\ \E batch \in LastBatches : Unlink(batch)
    /\ purge' = [purge EXCEPT !.at = AfterLevel]
    /\ UNCHANGED <<clock, req, arrivals>>

\* SCAN fails and ends its level, or UNLINK fails and is only logged: what is
\* left of the level may stay.
PurgeStepFails ==
    /\ purge.at \in Levels
    /\ purge' = [purge EXCEPT !.at = AfterLevel, !.failed = TRUE]
    /\ UNCHANGED <<clock, cache, lost, req, arrivals>>

-----------------------------------------------------------------------------
\* Time passes; Redis removes what has expired.
Tick ==
    /\ clock < MaxTime
    /\ clock' = clock + Pause
    /\ Unlink({k \in Keys : cache[k].dies \in 1 .. clock'})
    /\ UNCHANGED <<req, purge, arrivals>>

\* The proxy is killed: its requests end between two commands, and so does the
\* purge.
Crash ==
    /\ req' = [r \in Requests |-> Idle]
    /\ lost' = lost \cup NeverExpiring({Key(r, "L2") :
                       r \in {q \in Requests : req[q].at = "expire"}})
    /\ purge' = IF purge.at \in Levels
                THEN [purge EXCEPT !.at = "done", !.failed = TRUE] ELSE purge
    /\ UNCHANGED <<clock, cache, arrivals>>

Lookup(r) ==
    \/ Arrive(r) \/ GetL1(r) \/ MissL1(r) \/ CheckAge(r) \/ TooOld(r)
    \/ SearchL2(r) \/ MissL2(r) \/ SkipL2(r) \/ DropPoisoned(r)
Store(r) ==
    \/ StoreL1(r) \/ NotKept(r) \/ StoreL2(r) \/ StoreL2Fails(r)
    \/ ExpireL2(r) \/ ExpireL2Fails(r)
Purge == StartPurge \/ UnlinkBatch \/ UnlinkLast \/ PurgeStepFails

Next == (\E r \in Requests : Lookup(r) \/ Store(r)) \/ Purge \/ Tick \/ Crash

Spec == Init /\ [][Next]_vars

-----------------------------------------------------------------------------
\* The state has the shape the code gives it.
TypeOK ==
    /\ clock \in Nat
    /\ cache \in [Keys -> Entries \cup {Absent}]
    /\ lost \subseteq Keys
    /\ req \in [Requests -> RequestStates]
    /\ purge \in [at : {"idle", "done"} \cup Levels, scope : SUBSET Tenants,
                  failed : BOOLEAN]
    /\ arrivals \in Nat

\* Served from a cache: the answer of a question of the same tenant, or, from L2,
\* of one whose name the filter does not tell from it ...
Served(r) == req[r].at = "served"
SameTenant(r) ==
    IF req[r].level = "L1" THEN req[r].seen.answer.by = req[r].tenant
    ELSE Admits(req[r].tenant, req[r].seen.answer.by)
\* ... of the same payload, or of one that is near enough for L2 ...
SameQuestion(r) ==
    IF req[r].level = "L1" THEN req[r].seen.answer.of = req[r].payload
    ELSE <<req[r].payload, req[r].seen.answer.of>> \in Near
\* ... no older than its tools allow, unless another request replaced the entry
\* between GET and TTL, or the setting was lowered after the entry was written.
YoungEnough(r) ==
    LET e == req[r].seen IN
    \/ req[r].limit = NoLimit
    \/ req[r].checked <= e.set + req[r].limit
    \/ req[r].raced
    \/ e.dies > e.set + req[r].ttl

\* A replayed answer is the tenant's own, or from L2 that of a tenant the TAG
\* filter takes for it; it answers this question, is no error and is as young as
\* its tools ask, however requests, purges and crashes interleave (proxy.go
\* 439-537, db/redis.go 49, tool_fingerprint.go 218-274).
CachedAnswerIsGenuine ==
    \A r \in Requests : Served(r) =>
        /\ SameTenant(r) /\ SameQuestion(r) /\ YoungEnough(r)
        /\ ~req[r].seen.answer.poor

\* After a purge that met no error, what the caches hold for the tenants it
\* covers was stored by requests that were running when it began, or that came
\* later (purge.go 50-51, 63-105).
PurgeForgets ==
    purge.at = "done" /\ ~purge.failed =>
        \A k \in Keys : k[2] \in purge.scope /\ Present(k) => cache[k].fresh

\* An L2 entry lives for ever only when its EXPIRE was lost: every other one
\* without a TTL belongs to a request that is about to set it (stream.go
\* 254-255).
OnlyALostExpireStays ==
    \A k \in Keys : k[1] = "L2" /\ Present(k) /\ cache[k].dies = 0 =>
        \/ k \in lost
        \/ \E r \in Requests : req[r].at = "expire" /\ Key(r, "L2") = k

=============================================================================
