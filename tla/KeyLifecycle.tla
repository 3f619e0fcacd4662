---------------------------- MODULE KeyLifecycle ----------------------------
(***************************************************************************)
(* The virtual keys of one user.  A key lives twice: as a row of ApiKey in *)
(* Postgres, which the dashboard owns, and as the hash synapse:keys:<vk>   *)
(* in Redis, which is all the proxy looks at.  Nothing ties the two writes *)
(* of an operation together, so every handler is a sequence of steps that  *)
(* interleave with those of the others, and each Redis step may fail or    *)
(* land after its handler has given up on it.                              *)
(*                                                                         *)
(* A request is one run of a handler or a script; it answers "ok" or       *)
(* "err" once.  A setting is a Boolean; of a number it says whether it is  *)
(* anything but zero.  A field that is left out of a hash and has a default*)
(* in ValidateVirtualKey counts as written with it.                        *)
(***************************************************************************)
EXTENDS Naturals

CONSTANTS
    Requests,       \* runs of the handlers and scripts
    Keys,           \* virtual keys, those not generated yet included
    Settings,       \* the columns of ApiKey the proxy also reads
    Numbers,        \* those that are numbers: semantic_tolerance, cache_ttl
    Provisioned,    \* the keys that exist at the start
    MaxFaults       \* bound on the number of failed writes

ASSUME ConstantsAssumption ==
    /\ Provisioned \subseteq Keys /\ Provisioned # {}
    /\ "benchmark_mode" \in Settings \ Numbers /\ Numbers \subseteq Settings
    /\ {"real_key", "limit_exceeded"} \cap Settings = {}
    /\ MaxFaults \in Nat

VARIABLES
    rows,       \* the keys with a row in ApiKey
    row,        \* the settings in that row
    hash,       \* the hash of each key, empty if there is none
    used,       \* the keys generated so far
    over,       \* User.currentMonthTokens has reached the limit of the tier
    pc,         \* where each request is
    op,         \* what it does
    key,        \* the key it is at
    write,      \* the fields it is to put in that key's hash
    todo,       \* the keys it has still to visit
    snap,       \* the rows a sync has read
    late,       \* HSETs given up on that Redis may still execute
    faults,     \* number of failed writes
    clean,      \* history: keys of a request no other request was also at
    split,      \* history: keys two requests wrote at once or a write missed
    stranded,   \* history: keys whose row was left without a hash
    orphaned    \* history: keys whose hash was left, or put, without a row

redisVars == <<hash, late>>
dbVars == <<rows, row, used, over>>
history == <<clean, split, stranded, orphaned>>
vars == <<rows, row, hash, used, over, pc, op, key, write, todo, snap, late,
          faults, clean, split, stranded, orphaned>>

Fields == Settings \union {"real_key", "limit_exceeded"}
Hashes == UNION {[S -> BOOLEAN] : S \in SUBSET Fields}
Empty == [f \in {} |-> FALSE]
Row == [Settings -> BOOLEAN]
Defaults == [s \in Settings |-> s \in Numbers]

Ops == {"none", "create", "put", "delete", "bench", "sync", "bootstrap",
        "limit"}
Places == {"idle", "inserting", "seeding", "rollback", "found", "pushing",
           "deleting", "unhashing", "loop", "syncing", "recreating", "ok", "err"}

\* What the proxy requires of a hash: a real_key it can decrypt.
Accepted(k) == "real_key" \in DOMAIN hash[k]

\* What a sync makes of the settings of a row: it tests a number for truth, so
\* that a zero, which PUT accepts, becomes the default.
Synced(settings) == [s \in Settings |-> s \in Numbers \/ settings[s]]

\* All the fields of a key, as creation and the sync scripts write them.
Seeded(settings, limit) ==
    [f \in Fields |-> IF f = "real_key" THEN TRUE
                      ELSE IF f = "limit_exceeded" THEN limit
                      ELSE settings[f]]

Merge(new, old) ==
    [f \in DOMAIN new \union DOMAIN old |->
        IF f \in DOMAIN new THEN new[f] ELSE old[f]]

\* The keys whose row or hash the request has still to write.
Touches(r) ==
    IF pc[r] \in {"idle", "ok", "err"} \/ op[r] = "limit" THEN {}
    ELSE IF pc[r] \in {"loop", "syncing"} THEN todo[r]
    ELSE todo[r] \union {key[r]}

Init ==
    /\ rows = Provisioned
    /\ row = [k \in Keys |-> Defaults]
    /\ hash = [k \in Keys |-> IF k \in Provisioned
                              THEN Seeded(Defaults, FALSE) ELSE Empty]
    /\ used = Provisioned
    /\ over = FALSE
    /\ pc = [r \in Requests |-> "idle"]
    /\ op = [r \in Requests |-> "none"]
    /\ key \in [Requests -> Provisioned]
    /\ write = [r \in Requests |-> Empty]
    /\ todo = [r \in Requests |-> {}]
    /\ snap = [r \in Requests |-> [k \in Keys |-> Defaults]]
    /\ late = {}
    /\ faults = 0
    /\ clean = [r \in Requests |-> {}]
    /\ split = {} /\ stranded = {} /\ orphaned = {}

-----------------------------------------------------------------------------
\* Steps that the handlers have in common

Goto(r, place) == pc' = [pc EXCEPT ![r] = place]

\* A request of kind o starts at place with the keys K before it.
Begin(r, o, place, K) ==
    /\ pc[r] = "idle"
    /\ Goto(r, place)
    /\ op' = [op EXCEPT ![r] = o]
    /\ clean' = [s \in Requests |->
                    IF s = r
                    THEN K \ UNION {Touches(t) : t \in Requests \ {r}}
                    ELSE clean[s] \ K]

Hset(k, fields) == hash' = [hash EXCEPT ![k] = Merge(fields, hash[k])]

\* The HSET of r was executed: a full write by a request that was alone at
\* the key also brings it back in line.
Agreed(r, k) ==
    split' = IF k \notin clean[r] THEN split \union {k}
             ELSE IF write[r] # Empty /\ "real_key" \notin DOMAIN write[r]
             THEN split ELSE split \ {k}

Fails == faults < MaxFaults /\ faults' = faults + 1

\* The error or the 5 s timeout is reported; Redis may have the command.
GivesUp(r) ==
    /\ Fails
    /\ \/ UNCHANGED late
       \/ late' = late \union {[key |-> key[r], fields |-> write[r]]}
    /\ split' = split \union {key[r]}

-----------------------------------------------------------------------------
\* POST /api/keys

CreateBegins(r) ==
    \E k \in Keys \ used, settings \in {w \in Row : \A s \in Numbers : w[s]} :
        /\ Begin(r, "create", "inserting", {k})
        /\ key' = [key EXCEPT ![r] = k]
        /\ write' = [write EXCEPT ![r] = Seeded(settings, over)]
        /\ used' = used \union {k}
        /\ UNCHANGED <<rows, row, over, redisVars, todo, snap, faults, split,
                       stranded, orphaned>>

CreateInserts(r) ==
    /\ pc[r] = "inserting"
    /\ rows' = rows \union {key[r]}
    /\ row' = [row EXCEPT ![key[r]] = [s \in Settings |-> write[r][s]]]
    /\ Goto(r, "seeding")
    /\ UNCHANGED <<redisVars, used, over, op, key, write, todo, snap, faults,
                   history>>

SeedSucceeds(r) ==
    /\ pc[r] = "seeding"
    /\ Hset(key[r], write[r])
    /\ Agreed(r, key[r])
    /\ orphaned' = orphaned \union ({key[r]} \ rows)
    /\ Goto(r, "ok")
    /\ UNCHANGED <<dbVars, op, key, write, todo, snap, late, faults, clean,
                   stranded>>

SeedFails(r) ==
    /\ pc[r] = "seeding"
    /\ GivesUp(r)
    /\ Goto(r, "rollback")
    /\ UNCHANGED <<dbVars, hash, op, key, write, todo, snap, clean, stranded,
                   orphaned>>

\* Mutants: the error is answered without taking the row back; the failure of
\* the HSET is logged and the key handed out.
RollsBack_NoDelete(r) ==
    /\ pc[r] = "rollback"
    /\ Goto(r, "err")
    /\ UNCHANGED <<dbVars, redisVars, op, key, write, todo, snap, faults,
                   history>>

RollsBack_Ignored(r) ==
    /\ pc[r] = "rollback"
    /\ Goto(r, "ok")
    /\ UNCHANGED <<dbVars, redisVars, op, key, write, todo, snap, faults,
                   history>>

\* A failure of the rollback itself is only logged.
RollsBack(r) ==
    /\ pc[r] = "rollback"
    /\ \/ /\ rows' = rows \ {key[r]}
          /\ UNCHANGED <<faults, stranded>>
          /\ orphaned' = orphaned \union (IF Accepted(key[r])
                                          THEN {key[r]} ELSE {})
       \/ /\ Fails
          /\ stranded' = stranded \union {key[r]}
          /\ UNCHANGED <<rows, orphaned>>
    /\ Goto(r, "err")
    /\ UNCHANGED <<row, used, over, redisVars, op, key, write, todo, snap,
                   clean, split>>

-----------------------------------------------------------------------------
\* PUT /api/keys/[id] and the loop of PUT /api/keys/session-benchmark

UpdateBegins(r, body) ==
    \E k \in rows :
        /\ Begin(r, "put", "found", {k})
        /\ key' = [key EXCEPT ![r] = k]
        /\ write' = [write EXCEPT ![r] = body]
        /\ UNCHANGED <<dbVars, redisVars, todo, snap, faults, split, stranded,
                       orphaned>>

\* prisma throws when the row has been deleted in the meantime.
UpdatesRow(r) ==
    /\ pc[r] = "found"
    /\ IF key[r] \in rows
       THEN /\ row' = [row EXCEPT ![key[r]] = Merge(write[r], @)]
            /\ Goto(r, "pushing")
       ELSE Goto(r, "err") /\ UNCHANGED row
    /\ UNCHANGED <<rows, used, over, redisVars, op, key, write, todo, snap,
                   faults, history>>

\* Mutants: one setting is left out of redisData; a PUT rewrites all fields.
Pushes_Forgets(r) ==
    /\ pc[r] = "pushing"
    /\ Hset(key[r], [f \in DOMAIN write[r] \ {"benchmark_mode"} |-> write[r][f]])
    /\ IF op[r] = "limit" THEN UNCHANGED split ELSE Agreed(r, key[r])
    /\ Goto(r, IF op[r] = "bench" THEN "loop" ELSE "ok")
    /\ UNCHANGED <<dbVars, op, key, write, todo, snap, late, faults, clean,
                   stranded, orphaned>>

Pushes_Everything(r) ==
    /\ pc[r] = "pushing"
    /\ Hset(key[r], Seeded(row[key[r]], over))
    /\ Goto(r, IF op[r] = "bench" THEN "loop" ELSE "ok")
    /\ UNCHANGED <<dbVars, op, key, write, todo, snap, late, faults, history>>

Pushes(r) ==
    /\ pc[r] = "pushing"
    /\ Hset(key[r], write[r])
    /\ IF op[r] = "limit" THEN UNCHANGED split ELSE Agreed(r, key[r])
    /\ orphaned' = IF "real_key" \in DOMAIN write[r]
                   THEN orphaned \union ({key[r]} \ rows) ELSE orphaned
    /\ Goto(r, IF op[r] = "bench" THEN "loop" ELSE "ok")
    /\ UNCHANGED <<dbVars, op, key, write, todo, snap, late, faults, clean,
                   stranded>>

PushFails(r) ==
    /\ pc[r] = "pushing"
    /\ GivesUp(r)
    /\ stranded' = IF op[r] = "bootstrap" THEN stranded \union {key[r]}
                   ELSE stranded
    /\ Goto(r, "err")
    /\ UNCHANGED <<dbVars, hash, op, key, write, todo, snap, clean, orphaned>>

BenchmarkBegins(r) ==
    \E on \in BOOLEAN, keyIds \in SUBSET used :
        LET K == IF on THEN {k \in rows : ~row[k]["benchmark_mode"]}
                       ELSE keyIds
        IN  /\ Begin(r, "bench", "loop", K)
            /\ todo' = [todo EXCEPT ![r] = K]
            /\ write' = [write EXCEPT ![r] =
                            [f \in {"benchmark_mode"} |-> on]]
            /\ UNCHANGED <<dbVars, redisVars, key, snap, faults, split,
                           stranded, orphaned>>

\* Switching off looks each key up again and skips those that are gone.
BenchmarkNext(r) ==
    /\ pc[r] = "loop"
    /\ IF todo[r] = {} THEN Goto(r, "ok") /\ UNCHANGED <<key, todo>>
       ELSE \E k \in todo[r] :
                /\ key' = [key EXCEPT ![r] = k]
                /\ todo' = [todo EXCEPT ![r] = @ \ {k}]
                /\ Goto(r, IF write[r]["benchmark_mode"] \/ k \in rows
                           THEN "found" ELSE "loop")
    /\ UNCHANGED <<dbVars, redisVars, op, write, snap, faults, history>>

-----------------------------------------------------------------------------
\* DELETE /api/keys/[id]

DeleteBegins(r) ==
    \E k \in rows :
        /\ Begin(r, "delete", "deleting", {k})
        /\ key' = [key EXCEPT ![r] = k]
        /\ UNCHANGED <<dbVars, redisVars, write, todo, snap, faults, split,
                       stranded, orphaned>>

DeletesRow(r) ==
    /\ pc[r] = "deleting"
    /\ rows' = rows \ {key[r]}
    /\ Goto(r, IF key[r] \in rows THEN "unhashing" ELSE "err")
    /\ UNCHANGED <<row, used, over, redisVars, op, key, write, todo, snap,
                   faults, history>>

DeletesHash(r) ==
    /\ pc[r] = "unhashing"
    /\ hash' = [hash EXCEPT ![key[r]] = Empty]
    /\ Goto(r, "ok")
    /\ UNCHANGED <<dbVars, op, key, write, todo, snap, late, faults, history>>

DeleteHashFails(r) ==
    /\ pc[r] = "unhashing"
    /\ Fails
    /\ orphaned' = orphaned \union {key[r]}
    /\ Goto(r, "err")
    /\ UNCHANGED <<dbVars, redisVars, op, key, write, todo, snap, clean, split,
                   stranded>>

-----------------------------------------------------------------------------
\* sync_keys.js and sync_keys_with_retry.js, which the container runs at
\* start and an operator at any time

SyncBegins(r) ==
    /\ Begin(r, "sync", "syncing", rows)
    /\ todo' = [todo EXCEPT ![r] = rows]
    /\ snap' = [snap EXCEPT ![r] = row]
    /\ UNCHANGED <<dbVars, redisVars, key, write, faults, split, stranded,
                   orphaned>>

\* limit_exceeded is written as "false", whatever the user has used.
SyncsKey(r) ==
    /\ pc[r] = "syncing"
    /\ \E k \in todo[r] :
        /\ Hset(k, Seeded(Synced(snap[r][k]), FALSE))
        /\ todo' = [todo EXCEPT ![r] = @ \ {k}]
        /\ Agreed(r, k)
        /\ orphaned' = orphaned \union ({k} \ rows)
    /\ UNCHANGED <<dbVars, pc, op, key, write, snap, late, faults, clean,
                   stranded>>

SyncEnds(r) ==
    /\ pc[r] = "syncing"
    /\ \/ /\ todo[r] = {}
          /\ Goto(r, "ok")
          /\ UNCHANGED <<todo, faults>>
       \/ /\ todo[r] # {} /\ Fails
          /\ Goto(r, "err")
          /\ todo' = [todo EXCEPT ![r] = {}]
    /\ UNCHANGED <<dbVars, redisVars, op, key, write, snap, history>>

-----------------------------------------------------------------------------
\* bootstrap-key.js

\* deleteMany removes the rows of the user and leaves their hashes.
BootstrapWipes(r) ==
    /\ Begin(r, "bootstrap", "recreating", rows)
    /\ rows' = {}
    /\ orphaned' = orphaned \union {k \in rows : Accepted(k)}
    /\ UNCHANGED <<row, used, over, redisVars, key, write, todo, snap, faults,
                   split, stranded>>

BootstrapCreates(r) ==
    /\ pc[r] = "recreating"
    /\ \E k \in Keys \ used :
        /\ rows' = rows \union {k}
        /\ row' = [row EXCEPT ![k] = Defaults]
        /\ used' = used \union {k}
        /\ key' = [key EXCEPT ![r] = k]
        /\ write' = [write EXCEPT ![r] = Seeded(Defaults, FALSE)]
        /\ clean' = [clean EXCEPT ![r] = {k}]
    /\ Goto(r, "pushing")
    /\ UNCHANGED <<over, redisVars, op, todo, snap, faults, split, stranded,
                   orphaned>>

-----------------------------------------------------------------------------
\* The telemetry worker charges the owner of a key it found in ApiKey

LimitBegins(r) ==
    \E k \in rows, exceeded \in {over, TRUE} :
        /\ Begin(r, "limit", "pushing", {})
        /\ over' = exceeded
        /\ key' = [key EXCEPT ![r] = k]
        /\ write' = [write EXCEPT ![r] = [f \in {"limit_exceeded"} |-> exceeded]]
        /\ UNCHANGED <<rows, row, used, redisVars, todo, snap, faults, split,
                       stranded, orphaned>>

-----------------------------------------------------------------------------
\* Redis executes, or never executes, a command its sender gave up on.

LateLands(w) ==
    /\ Hset(w.key, w.fields)
    /\ late' = late \ {w}
    /\ split' = split \union {w.key}
    /\ orphaned' = IF "real_key" \in DOMAIN w.fields
                   THEN orphaned \union ({w.key} \ rows) ELSE orphaned
    /\ UNCHANGED <<dbVars, pc, op, key, write, todo, snap, faults, clean,
                   stranded>>

LateIsLost(w) ==
    /\ late' = late \ {w}
    /\ UNCHANGED <<dbVars, hash, pc, op, key, write, todo, snap, faults,
                   history>>

\* Mutant: the body is not reduced to the columns a client may set.
Bodies_Unfiltered == {[f \in {"real_key"} |-> FALSE]}

\* The settings a PUT body defines.
Bodies == {b \in UNION {[S -> BOOLEAN] : S \in SUBSET Settings} : b # Empty}

Handle(r) ==
    \/ CreateBegins(r) \/ CreateInserts(r) \/ SeedSucceeds(r) \/ SeedFails(r)
    \/ RollsBack(r)
    \/ \E body \in Bodies : UpdateBegins(r, body)
    \/ UpdatesRow(r) \/ Pushes(r) \/ PushFails(r)
    \/ BenchmarkBegins(r) \/ BenchmarkNext(r)
    \/ DeleteBegins(r) \/ DeletesRow(r) \/ DeletesHash(r) \/ DeleteHashFails(r)
    \/ SyncBegins(r) \/ SyncsKey(r) \/ SyncEnds(r)
    \/ BootstrapWipes(r) \/ BootstrapCreates(r)
    \/ LimitBegins(r)

Next ==
    \/ \E r \in Requests : Handle(r)
    \/ \E w \in late : LateLands(w) \/ LateIsLost(w)

Spec == Init /\ [][Next]_vars

-----------------------------------------------------------------------------
TypeOK ==
    /\ rows \subseteq used /\ used \subseteq Keys
    /\ row \in [Keys -> Row]
    /\ hash \in [Keys -> Hashes]
    /\ over \in BOOLEAN
    /\ pc \in [Requests -> Places]
    /\ op \in [Requests -> Ops]
    /\ key \in [Requests -> Keys]
    /\ write \in [Requests -> Hashes]
    /\ todo \in [Requests -> SUBSET Keys]
    /\ snap \in [Requests -> [Keys -> Row]]
    /\ late \subseteq [key : Keys, fields : Hashes]
    /\ faults \in 0 .. MaxFaults
    /\ clean \in [Requests -> SUBSET Keys]
    /\ split \subseteq Keys
    /\ stranded \subseteq Keys
    /\ orphaned \subseteq Keys

Creating(k) ==
    \E r \in Requests : /\ op[r] \in {"create", "bootstrap"}
                        /\ key[r] = k
                        /\ pc[r] \in {"seeding", "rollback", "pushing"}

\* A key the dashboard lists is accepted by the proxy, unless it is still
\* being created or its creation failed twice (the silent 401 the comment in
\* POST /api/keys is about).
EveryRowIsUsable ==
    \A k \in rows : Accepted(k) \/ Creating(k) \/ k \in stranded

\* Once nobody is at a key, the settings the proxy reads are those the
\* dashboard shows, unless two requests overlapped at the key or a write
\* failed; a sync that was alone repairs both.  The exception is a number that
\* is zero in the row: a sync leaves the default in its place, until the next
\* PUT of that number.
SettingsAgree ==
    \A k \in rows \ split :
        (\A r \in Requests : k \notin Touches(r)) =>
            \A s \in Settings : /\ s \in DOMAIN hash[k]
                                /\ hash[k][s] \in {row[k][s], Synced(row[k])[s]}

\* The proxy accepts a key without a row only while its DELETE is under way,
\* or through one of the leaks: a DEL that failed, the bootstrap script, and
\* full writes of a row read before it was deleted (a sync, a seeding that
\* was given up on).  A PUT, the benchmark toggle and the telemetry worker
\* may leave a hash behind, but never one that opens the proxy.
NoKeyWithoutRow ==
    \A k \in Keys \ rows :
        Accepted(k) => \/ k \in orphaned
                       \/ \E r \in Requests : pc[r] = "unhashing" /\ key[r] = k

\* POST answered with an error: there is no row, unless the rollback failed.
RefusedCreationIsUndone ==
    \A r \in Requests :
        op[r] = "create" /\ pc[r] = "err" /\ key[r] \in rows
            => key[r] \in stranded
=============================================================================
