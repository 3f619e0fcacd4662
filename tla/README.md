# A verification development for Synapse Proxy

TLA+ modules of the proxy's protocols and of the dashboard's pages, TLC configurations
that check them on small instances, and TLAPS proofs about the proxy's protocols:
coalescing, loop firewall, response caches, upstream calls, telemetry and keys. All line
numbers refer to the repository; paths without a directory are under `proxy/optiagent`,
`proxy/internal/handlers` or `proxy/internal/workers`, and `app/`, `components/` are
under `dashboard/`.

## 1. Inventory

Synapse Proxy is a Go process (any number of them) between agents and LLM
providers. A request carries a *virtual key*; the processes share everything
they know about it in Redis, and a background worker of each carries request
logs from a Redis stream to Postgres. A Next.js dashboard manages users, keys and
plans in Postgres and writes what the proxy needs to Redis; its pages show live
telemetry, edit keys and content, and send prompts through the proxy.

```
client --> ProxyHandler --> hooks --> L0 --> L1 / L2 --> loop firewall --> upstream
               |             |        |        |             |                |
               |             +--------+--- Redis ------------+       streamResponse
               |                            |                        (hooks, caches)
               +--> PushTelemetry --> synapse:telemetry:logs --> worker --> Postgres
                                       dashboard routes  <--------------------+
```

| Component | State | Operations | What is hard | What makes it correct |
|---|---|---|---|---|
| **L0 coalescing** (`dedup.go`, `proxy.go:364-404`) | lock and response key per (virtual key, payload hash), 30 s TTLs | `L0Acquire` (SETNX), `L0Wait` (poll), `L0Release` (Lua DEL, SET) | leader and followers interleave command by command; TTL expiry in the middle of a call; Redis errors; client disconnect; process death | one leader per lease; followers outwait the lock; an answer shared is a genuine one; everyone is answered; locks go away |
| **Loop firewall** (`hook_loop_detection.go`, `loop_detect.go`) | sorted set of calls and `:first` response per (virtual key, payload hash) | evict, count, record, decide; reuse; store the first response | two detectors over the same keys, four commands each; window and TTL boundaries; failed commands | no call of the window forgotten; only repeats blocked; a run of identical calls is stopped; the reused response is genuine |
| **Telemetry and limits** (`telemetry.go`, tier routes) | stream, consumer group, `RequestLog`, `User.currentMonthTokens`, `limit_exceeded` | push, read, charge, flag, insert, ack; tier change and reset | several workers; crash between steps; lost replies; trimming; races of two writers of the flag | charged and recorded once and together; acknowledged only when recorded; recorded in the end; flag agrees with Postgres |
| **Request handler** (`proxy.go`, `stream.go`) | one request's progress | stages of the pipeline, retry, fallback provider, tool-call interception | ways out of each stage; deferred release; panics | each stage sees what the former left; no error is cached |
| **L1/L2 caches** (`proxy.go:439-537`, `stream.go:218-259`, `purge.go`, `tool_fingerprint.go`) | one string per tenant and payload (L1), one hash per tenant and payload found by vector search (L2), both with TTLs | lookup, age check, semantic match, dropping of poisoned entries, store, `DELETE /cache` | every lookup and store is several commands; TTL setting may change; purge and stores race | a replay is the tenant's own answer to this question, no error, young enough; a purge forgets; entries expire |
| **Hook pipeline** (`hooks.go`) | the payload and the short-circuit fields of one request | `RunBeforeHooks`, `RunAfterHooks` | failures and panics half-way; order | fail-open; the first short circuit wins |
| **Session budget, fingerprints** | counters per session and per tool call | increment, compare | increments by two places; no rollback; INCR and EXPIRE apart | a budget is never exceeded silently |
| **CCR** (`hook_ccr_*.go`) | a third cache level inside the hook chain, `ccr:<hash>`, SET NX with a TTL of 1 h | compress (hook 740) sets the hash, retrieve (750) answers or deletes an error entry, store (850) | the key has no tenant part | a hit answers the same canonical payload |
| **Model radar** (`model_radar.go`) | entry per model, set of known models, samples | flag, sample, promote | read-modify-write races | a known model does not fall back |
| **Metrics** (`metrics/persistent`) | counters in memory, deltas in a channel, totals in Redis | submit, flush, hydrate | full channel; lost flush; restart | totals neither shrink nor count twice |
| **Keys** (`services/auth.go`, `app/api/keys`, sync and bootstrap scripts) | row in Postgres and hash in Redis | create, update, delete, benchmark toggle, sync, bootstrap, limit flag; `ValidateVirtualKey` | two stores, no transaction; timeout and rollback; a command given up on may still land; scripts write what they read long before | every listed key works and no other does; settings agree once nobody is at the key |
| **Settings page** (`app/settings/page.tsx`, `FirewallModal.tsx`) | key list, form, dialog, toasts | reload, create, toggle, delete, purge, checkout, poll, deny | handlers that reload the whole list, unordered answers | shows what the server holds; no spinner for good; honest toasts |
| **Home page** (`app/page.tsx`, `LiveTelemetryGrouped.tsx`, stream and record routes) | live rows, counters, recording, groups, snapshot | stream, poll, filter, start, snapshot, stop | rows arrive on two ways, commit late, connections break; two pages of one user | every row once, none skipped, tags removed |
| **Playground** (`app/playground/page.tsx`) | two panels of bubbles, keys and models | send, stream, fork, clear, link | streams outlive clicks | an answer stays below its prompt |
| **Content editor, explorer, log console, alert rules** | form; list and drawer; ring buffer; rules and events | load, edit, upload, save; page, open, close; stream, pause; change, poll | answers that nobody cancels or orders | what arrives late lands where it was asked for |
| Other workers, MCP, other pages, SDKs, embedders, local client, compressors | see `PROJECT.json` | | | not modelled, with reasons there |

### Interactions that the models rest on

* `ProxyHandler` runs the hooks *before* L0 (`proxy.go:277-305`), so a hook that
  short-circuits never takes the lock, and what L0 and the inline loop detector
  hash is the payload the hooks produced.
* `L0Release` is deferred: it runs on every way out of the handler, panics
  included, but with the context of the request (`proxy.go:49, 397-403`).
* `RunAfterHooks` runs on every response that `isValidResponse` accepts, before
  the Zero-Log test (`stream.go:203-208, 229`).
* `PushTelemetry` is started with `go` from eight places and its errors are only
  logged. The key it carries has the end user's id appended when the key
  isolates its cache by user (`proxy.go:106-110`).
* The proxy looks at Redis only: `ValidateVirtualKey` accepts a key when its hash
  has a `real_key`. Creation, update, deletion, scripts and the telemetry worker
  write that hash without knowing of each other.
* Requests check L1, then L2, then ask upstream, and store in both afterwards;
  nothing is held between the lookup and the store, so a purge may fall between.
* A recording tags the user's keys in Redis; the proxy stamps the tag on every
  request it logs, and the board groups by it.

## 2. Modules

| Module | Models | Extends |
|---|---|---|
| `CoalescedCall` | abstract: what coalescing promises to clients, with no Redis and no time | |
| `L0Coalescing` | the L0 protocol around one handler invocation per request | instance of `CoalescedCall` |
| `L0Coalescing_proofs` | theorems about it | `L0Coalescing`, `TLAPS` |
| `LoopFirewall` | both loop detectors on the calls of one virtual key | |
| `LoopFirewall_proofs` | theorems about it | `LoopFirewall`, `FiniteSetTheorems`, `TLAPS` |
| `TelemetryPipeline` | producers, workers and tier routes around one stream | |
| `TelemetryPipeline_proofs` | theorems about the flag, charging and acknowledging | `TelemetryPipeline`, `TLAPS` |
| `KeyLifecycle` | handlers and scripts over rows and hashes of one user's keys | |
| `KeyLifecycle_proofs` | theorems about which keys are accepted and with which settings | `KeyLifecycle`, `TLAPS` |
| `ResponseCache` | L1 and L2 with requests, purge and expiry | |
| `ResponseCache_proofs` | theorems about it | `ResponseCache`, `TLAPS` |
| `UpstreamCall` | one request from the miss in the caches to its answer: retry, failover, tool-call interception | |
| `UpstreamCall_proofs` | theorems about it | `UpstreamCall`, `TLAPS` |
| `SettingsPage`, `ModelPicker`, `FirewallModal` | the settings page, its model field and its dialog | |
| `LiveFeed`, `Recording`, `TelemetryBoard`, `PayloadDiff` | the home page: rows, recording, groups, comparison | |
| `Playground`, `PanelModels` | the playground and the header of its panels | |
| `ContentEditor`, `RequestExplorer`, `LineDiff`, `LogConsole`, `AlertRules` | the other pages with state of their own | |
| `Enumeration` | ORDER BY and filter, as functions the provers can expand, and the few list operators the pages need | |
| `Dashboard` | composition: the router and all fourteen of them | instances |
| `Pages_proofs` | the inductive invariants of the pages with requests of their own | instances of the pages, `TLAPS` |
| `Dashboard_proofs` | rows, comparisons and rules, and theorems about the composition | `Dashboard`, `Enumeration`, `FiniteSetTheorems`, `SequenceTheorems`, instance of `Pages_proofs` |
| `MC...` | constants of the runs | |

### L0Coalescing

One Redis command is one step. `pc[r]` is where the handler of request `r` is:
`new` (before SETNX), `waiting`/`missed` (the two halves of one poll of
`L0Wait`), `run` (the rest of the pipeline), `upstream`, `unlock` and `publish`
(the two commands of `L0Release`), `done`, `crashed`. `lock`/`resp` with
`lockLeft`/`respLeft` are the Redis keys with their remaining TTLs; `wait` is
what is left of `L0Wait`'s deadline. `Tick` takes one unit off every timer, so
the model needs no clock and its state space no time bound. `leads[r]` is
`l0WorkerID # ""`: a SETNX that fails with an error makes a leader too (the code
fails open), whether or not Redis applied it, and a follower that times out is
*no* leader. The value of the lock is the request itself (a random worker id in
the code).

The history variables `lease` (time left on the lease a SETNX granted) and
`lostTo` (the holder a follower lost to) say what the properties are about and
are read by no guard.

`outcome` has three results: `good`, `bad`, and `appErr` for a JSON body with a
`base_resp.status_code # 0` and no `error` field, because the capture for the
followers and the validity test of the caches tell them apart.

### LoopFirewall

A call goes through the hook's detector (`site = "hook"`), the caches, the inline
detector (`"inline"`), upstream, and the two ways of storing `:first`. `HookHash` is the
payload hash that the hook sees, `SentHash` the one after all hooks; a bypass call has
an empty hash in the inline detector. Sorted-set entries are records of call, detector
and time. The code keeps only the *number* of entries it counted; the model keeps the
set, `counted`, so that a property can say who was counted. ZADD (`Record`) and the
EXPIRE behind it (`Decide`) are two commands and two steps, each of which can fail by
itself with its error ignored, and so are GET and EXPIRE of `:first` (`ReadFirst`,
`TouchFirst`): a set may have a new entry and an old TTL, or none. `recorded` and
`prior` are history: an entry is `recorded` once an EXPIRE has found it in its set.
Eviction's inclusive bound and the errors that fail open (the hook's ZREMRANGEBYSCORE
and ZCARD) or count as zero (the inline ZCARD) are as in the code. The hook's telemetry
and metrics are left out.

### TelemetryPipeline

One Redis command or SQL statement is one step; a worker is at `read`,
`charge`, `flag`, `insert` or `ack` of the head of its `batch`. The group is
the stream, the number of delivered entries and the pending list. A log stands
for one unit of tokens; tiers are a function to limits. `limit_exceeded` and
the total have two writers: the worker (UPDATE, then HSET) and the tier routes
(UPDATE, then one HSET per key of the user). The histories `due` and
`unsettled` record which value the last UPDATE calls for and for which keys a
flag write was overtaken or lost. Postgres is one atomic store with the foreign
key `RequestLog.apiKeyId -> ApiKey.id` of `dashboard/prisma/schema.prisma:92-93`.

### KeyLifecycle

A request is one run of a handler (POST, PUT, DELETE of a key, the benchmark
toggle of a recording), of a script (sync, bootstrap) or of the worker's limit
update. Each SQL statement and each Redis command is a step; a Redis write may
fail, and a command given up on is put in `late`, from where it may land at any
time or never. `rows`/`row` are Postgres, `hash` is Redis; `Accepted` is what
`ValidateVirtualKey` asks for. Settings are Booleans; for `Numbers` (`cacheTtl`,
`semanticTolerance`) the Boolean says "is not zero". A sync does not copy those:
its `cacheTtl ? ... : '86400'` and `semanticTolerance ? ... : '0.15'`
(`sync_keys.js:91-92`, `sync_keys_with_retry.js:80-81`) make the default of a zero,
which `Synced` does to the row it has read. The histories say when a
property makes no promise: `split` (two requests at a key at once, or a write
that failed), `stranded` (a rollback that failed too), `orphaned` (a hash left or
put without a row). A full write by a request alone at the key takes the key out
of `split`, as a sync does in the code.

### ResponseCache

One Redis command is one step of `ProxyHandler`, `streamResponse` or the purge. An entry
carries its answer, when it was set and when it dies (0: never); `clock` advances by
`Pause`. A tenant is a virtual key and, if the key isolates by user, the `user` of the
payload (`proxy.go:106-109`). L1 compares it as a whole. L2 filters by it
(`proxy.go:463`) as a TAG, which RediSearch compares without regard to case and splits
at commas in what is stored, because `idx:l2cache` declares the field without
CASESENSITIVE and SEPARATOR (`db/redis.go:49`): `Admits` says that the tag asked for
(`Tag`) is among those of the entry's tenant (`Tags`). `Near` stands for embeddings
below the tolerance: what an embedding is does not matter, that two payloads may match
does. `ToolPayloads` have an age limit from `tool_fingerprint.go`; the age is computed,
as in the code, from the remaining TTL and the *present* TTL setting. A request may die
at any point, an EXPIRE may be lost, and `LeftOver` puts entries of earlier processes in
the initial states, with the TTL they have left. The purge is SCAN and UNLINK per
pattern; `Scopes` are what it may cover, the tenants of a virtual key or all. `fresh` is
history: stored by a request that the purge could not have seen the end of.

### UpstreamCall

What `ProxyHandler` does when no cache answered. One exchange with a provider is
one step, and so is one lookup of the tool cache (`tool_dedup.go`). A request is at
`call` (the retry loop), `failover`, `judge` (error or not), `read` (the body of a
reply), `check` and `gather` (the two rounds of lookups), or `send`. A reply has a
status class, may be cut short, may be an error with status 200 and may ask for
tool calls; what else it says does not matter. `kind` is what the request asks for
and its key allows. `final` is `finalResponse`, by the number of the exchange it
comes from, and `stored` what L1 keeps. Requests share the tool cache per virtual
key: `Remember` is any request bringing a result, `Expire` an entry whose 24 h are
over or whose lookup fails (Redis, the embedder, or the client has left, whose
context the lookups use). `Near` is the semantic search, and `Admits` its filter on
the virtual key and the tool's name, two TAG fields of `idx:toolcache`
(`db/redis.go:57`, `tool_dedup.go:383-387`) that fold case and split at commas like
the one of L2. `Fits` is what may answer a call: its own entry, or one the search
takes for it. Two histories: `sent`, the
exchanges of a request, and `lapsed`, the entries it lost between its lookups.

### The pages of the dashboard

A page module has two variables, `view` (the component's React state, refs and
timers) and `net` (the server behind its routes and the requests in flight). A
click, a timer, a handler's next `await`, a route's work and the arrival of an
answer are actions; a call may fail once or twice per visit. A purge can fail without
an error: `PurgesInPart` is a SCAN or UNLINK that failed, which the proxy answers 200
with a count (`purge.go:77-104`) and the page shows as a success. State setters that
take a function see the latest state, closures see what they captured: `view`
keeps captured values in the slot of the call. `Dashboard` shows one page at a
time, because navigation unmounts the former one with its state; it gives every
page its bounds and states the properties once for all pages. The two
comparisons (`PayloadDiff`, `LineDiff`) are loops over a table, one turn per step;
the table is a recursive function, the reference definition that both results
spell out both inputs.

## 3. Runs

| Run | Checks | Instance |
|---|---|---|
| `l0_coalescing` | type invariant, single flight, wait, genuine answers, no stolen lock, refinement, two liveness properties | 3 requests, 2 tenants, one payload, TTLs 2 and 1, one fault of any kind |
| `l0_disconnect` | *violated*: a finished handler has freed its lock | one disconnect |
| `l0_app_error` | *violated*: no upstream error is shared | no fault |
| `loop_firewall` | type invariant, window, only repeats, genuine reuse, runaway stopped | 3 calls, two at a time, threshold 3, window and TTL 2, clock to 2, one failed command; 2.9 million states; the third call is rewritten by a later hook, bypasses the caches and has the kill switch |
| `loop_second_call` | *violated*: the second identical call is let through | no fault |
| `loop_zero_log` | *violated*: Zero-Log stores no loop response | no fault |
| `telemetry` | type invariant, billing, flag, acknowledgement, liveness | 2 workers, 3 logs, 3 keys, one tier change, batch 2, cap 2, one fault of any kind |
| `telemetry_fallback` | *violated*: the fallback row is written | one worker, no fault |
| `key_lifecycle` | type invariant, accepted keys both ways, rollback, settings | 3 requests of any kind, 1 key and 1 to be generated, 2 settings, one of them a number, 2 failed writes; 1.09 million states |
| `response_cache` | type invariant, genuine replays, purge, expiry | 2 requests of user `Bob` over three payloads (two wordings of a question, one with a tool call), entries of the user `bob,eve` of the same key and of another key, TTLs 0, 2 and 3, age limit 1, clock to 3 in steps of 2, one purge; 1.58 million states |
| `upstream_call` | type invariant, order of the exchanges, last answer, tenants' results, everyone is answered | one request of 4 kinds; 3 tenants, two of which differ in case; 2 tool calls alike, of tools that differ in case; one retry, at most 2 rounds of calls; 297,000 states |
| `dashboard` | type invariant, six safety properties of the pages, two liveness properties in one | one visit to one page with the bounds of that page; 812,000 states |

**Bounds and why they are enough.** In L0, three requests are a leader, a
follower and either a second follower or a second leader after the TTL; two of
them share a tenant so that tenant confusion would show; a TTL of 2 lets a
lease be granted, partly used and expire, and differs from the response's TTL.
Timers count down, so behaviours are of any length. In the firewall three calls
are what it takes to reach the threshold with one detector failing, and both
detectors count, so up to five entries come before the last count. Window and TTL are
both 2, with no slack: a set whose TTL is not refreshed then expires while a later
entry is in the window. Two calls at a time are what two detectors need to get in
each other's way. The kill switch is on for one
call so that the killing and the reusing branch occur in one run. In the
telemetry run a batch holds two logs, two workers overlap, the cap trims with
the third log, and the first tier's limit falls with the first log and the
second one's with the second. One fault at a time is the bound on all of them:
every step can be the one that fails, but coincidences of two are not covered
by TLC (for L0 they are, by the proofs).

For the keys, three requests are what it takes for a script to read a row, a second
request to change it and a third to finish in between; a rollback needs two failures.
The settings are `benchmark_mode`, which has a toggle of its own, and `cache_ttl`, a
number that may be zero. In the caches the question that a purge must forget needs a
lookup, a purge and a store, and the question of tenants needs the other tenant's entry
nearby, once of a tenant the filter lets through and once of one that it does not; TTL 0
is a value the dashboard accepts; a TTL that is lowered while an entry lives needs two
TTLs. In the upstream call one request is enough, because requests meet only in the tool
cache and `Remember` and `Expire` do to it all that others can; one retry has a first
and a last attempt; two rounds are one resolution after a reply and one after a
resolution, and two calls alike, with those of another tenant and of one whose name
differs in case, are what the search may confuse. On a page, two overlapping calls of a
kind, one click between and one failure are the bounds; lists have as many rows as it
takes to fill a page and overflow a buffer.

`CHECK_DEADLOCK` is on where the modelled process never stops: there a `Finished`
step stutters once everything has been done, and any other halt would be
reported. It is off for `key_lifecycle`, `response_cache` and `dashboard`:
their requests and clicks are used up at different points, and each page or
handler may rightly be idle for good. In `upstream_call` the tool cache can always
change, so a stuck handler would show as a violation of `EveryRequestIsAnswered`.

**Fairness.** `L0Coalescing`: weak fairness of each handler's next step, since
goroutines are scheduled, Redis calls return and the HTTP client gives up after 600 s,
and of `Tick`, since time passes. Nothing is assumed of faults. No strong fairness is
needed: a poll is retried until its deadline, and the deadline passes.
`TelemetryPipeline`: weak fairness of each worker, whose loop never ends; nothing is
assumed of producers, routes or faults. `UpstreamCall`: weak fairness of each handler,
for the reasons given for L0; nothing is assumed of the tool cache. `Dashboard`: weak
fairness of the poll timer of the firewall dialog, of its serving, and of the stream's
connecting, scanning and sending, each while its page is shown, since browsers reconnect
an `EventSource` and timers fire; nothing is assumed of clicks, faults or other users.

### What the excuses in the properties mean

Several properties name the cases in which the code makes no promise, and each of them
is reachable in its run. `WindowIsRemembered` speaks of the calls that an EXPIRE found
in their set; a call whose own EXPIRE fails, or comes after the set expired, may be
forgotten before its window is over. `SettingsAgree` lets a number that is zero in the
row be the default in the hash, which is what a sync leaves there.
`CachedAnswerIsGenuine` takes for the tenant's an L2 answer of a tenant that the TAG
filter lets through, and `ResultsAreTheTenants` a tool result that it lets through; of
L1, and of a tool call's own entry, they ask for the tenant itself.
`CachedAnswerIsGenuine` does not speak of the age of an answer that was replaced between
its GET and the TTL command (`raced`), nor of one stored under a longer TTL than the key
has now: both compute an age that is not the entry's. `PurgeForgets` speaks of purges
that met no error, and does not count what requests in flight write back.
`ShownIsCurrent` excepts, page by page, answers that overtook each other: an older list
that arrives after a newer one (`overtaken`, `crossed`), or a change whose answer was
lost. `FeedbackIsHonest` lets a purge that could not delete all it should, or anything,
be told as a success. `EveryRowOnce` asks of the summary of a session that each row
carries its id, and that the rows of the bucket that do are among them, but not the rows
that the bucket has by their signature alone. `RecordingIsTagged` excepts pages that
took a snapshot of a group (`unsure`) and sessions that another start replaced.
`ExchangesInOrder` excepts the key of a resolution after a failover: the code sends the
primary's key to the fallback provider (`proxy.go:970`). `ResultsAreTheTenants` allows
an empty tool result when an entry was lost between the two lookups (`lapsed`).
`EveryRowIsUsable` and `NoKeyWithoutRow` except `stranded` and `orphaned` keys; what
leads there is listed above.

### What the liveness properties mean

`EveryRequestIsAnswered` of L0: no leader, whatever it does, can hold up a follower for
good. `EveryRequestIsAnswered` of `UpstreamCall`: retry, failover and interception come
to an end, for a model that asks for cached tool calls at most `MaxRounds` times in a
row; the code has no such bound (`proxy.go:858-977`). `LocksAreFreedInTheEnd`: the locks
of the modelled requests end up free and stay so, even when nobody released them.
`EveryLogIsRecorded`: a log that reached the stream gets its row unless a fault struck
it (a lost reply, a failed statement, a crash) or the cap trimmed it; those logs really
are lost, because nothing reads the pending list. `ViewsCatchUp` has two conjuncts.
`DialogCatchesUp`: the dialog shows the denied tools of the server again and again,
whatever overlapped. `FeedCatchesUp`: every committed row of the selected key that the
stream did not pass over is shown in the end.

## 4. Proofs

### L0Coalescing

`L0Coalescing_proofs` proves, for any set of requests, any tenants and payloads,
any positive TTLs and any number of faults:

| Theorem | Statement |
|---|---|
| `TypeCorrect` | `Spec => []TypeOK` |
| `LockInvariant` | `Spec => []LockInv` |
| `SingleFlight` | `Spec => []SingleFlightWithinLease` |
| `FollowersOutwait` | `Spec => []FollowerOutwaitsLeader` |
| `LockNeverStolen` | `Spec => LockIsNeverStolen` |
| `AnswerInvariant` | `Spec => []AnswerInv` |
| `CoalescedAnswersAreGenuine` | `Spec => []CoalescedAnswerIsGenuine` |
| `KeepsPromise` | `Spec => ImplementsPromise` |

They rest on `ConstantsAssumption`: positive TTLs, a natural fault bound, and
distinct values for "none" and "answered locally".

*The lock.* `SingleFlightWithinLease` is not inductive: it does not say what a
running lease has to do with Redis. `LockInv` adds that a running lease *is* the
lock, with exactly as much time left (`LeaseHeld`); a SETNX then succeeds only
when no lease runs. For the followers it adds `WaitCovers`: as long as the lock
a follower lost to is still held, it has at most as much time left as the
follower's deadline. That holds at the start because both are `L0LockTTLSec`
and a lock is never extended, and `Tick` takes one unit off both. It also needs
that every held lock has a TTL (`LockHasTTL`) and that no request that has not
started holds one (`HolderHasStarted`): else a request could take the lock a
second time after a follower lost to it.

*The answers.* `AnswerInv` follows a result from the leader to the follower:
`Stages` says what each position of a handler implies about its own result,
`Published` that the response key holds the captured result of a finished
leader with that very key, `Shared` that every coalesced answer is one.

*The refinement* maps `called` and `shareable` to sets of requests by
`outcome`; only `CallUpstream`, `UpstreamReturns`, `ServeLocally` and `WaitHit`
map to steps of `CoalescedCall`, all others stutter.

### LoopFirewall

`LoopFirewall_proofs` proves every property of the run `loop_firewall`, for any
set of calls, any payload hashes, any window and any number of faults:

| Theorem | Statement |
|---|---|
| `TypeCorrect` | `Spec => []TypeOK` |
| `WindowInvariant` | `Spec => []WindowInv` |
| `WindowRemembered` | `Spec => []WindowIsRemembered` |
| `FirstInvariant` | `Spec => []FirstInv` |
| `ReusedGenuine` | `Spec => []ReusedResponseIsGenuine` |
| `CountInvariant` | `Spec => []CountInv` |
| `BlockedForARepeat` | `Spec => []BlockedOnlyForARepeat` |
| `GateInvariant` | `Spec => []GateInv` |
| `RunawayStopped` | `Spec => RunawayIsStopped` |

The assumptions: `KeyTTL >= Window` (`loopKeyTTL` adds slack to the window),
`Threshold >= 3` (both constants of the code are 3; with 2 a call's entry as
seen by the hook would block it in the inline detector), no payload hash is the
empty one, and the calls with the kill switch are calls.

*The window.* `recorded` grows in the EXPIRE, by what the set holds then; a ZADD
alone promises nothing, because a failed EXPIRE leaves the set with its old TTL, or
with none. That a recorded entry is in its set says nothing of the key's
expiry, so it is not inductive: `WindowInv` adds that the key expires no earlier
than `KeyTTL` after the entry, and that a detector's clock reading (`began`) is
never ahead of the clock. An EXPIRE that fails keeps what an earlier one gave, one
that works gives more; eviction keeps the entry because the cutoff and the
window are the same, `Tick` keeps the key because `KeyTTL >= Window`.

*The counts.* A detector must not count itself. `SetsAreGenuine` says that a set
holds one entry per call and detector, of the set's own payload, and only of
calls already past that detector's record; a call never goes back
(`RecordedForGood`). What a detector counts then holds at most one entry of its
own call, the hook's, and two others' or more are needed to reach 3.

*The kill switch.* `RunawayIsStopped` compares a step that goes upstream from the
inline detector with what preceded the call, but the inline detector may look
under another key than the hook. `GateInv` carries the hook's verdict over: the
hook counted all that is left in the window of what preceded the call
(`CountCoversPrior`, from the window invariant), let it pass below the threshold,
and what is left only shrinks.

*The stored responses.* `FirstInv` says whose response a `:first` key holds and that a
call has a good verdict when it stores.

### ResponseCache

For any requests, tenants, payloads, TTLs, age limits and left-over entries:

| Theorem | Statement |
|---|---|
| `CacheInvariant` | `Spec => []CacheInv` |
| `TypeCorrect` | `Spec => []TypeOK` |
| `ReplaysAreGenuine` | `Spec => []CachedAnswerIsGenuine` |
| `PurgesForget` | `Spec => []PurgeForgets` |
| `EntriesExpire` | `Spec => []OnlyALostExpireStays` |

`CacheInv` is `TypeOK`, `OwnEntries` (an entry's answer belongs to the tenant and
the payload of its key, exactly) and `Asking` (what a request has read, at each of
its places, answers its question, up to nearness, and is the tenant's, or from L2 that
of a tenant the TAG filter lets through). The
assumptions are those of the module: TTLs, limits and bounds are naturals, the
callers and what a purge covers are tenants, left-over entries have keys of the
caches. Nothing is assumed of `Tag` and `Tags`.

### TelemetryPipeline

For any logs, keys, users, tiers, workers, routes, batch size, cap and faults:

| Theorem | Statement |
|---|---|
| `FlagInvariant` | `Spec => []FlagInv` |
| `TypeCorrect` | `Spec => []TypeOK` |
| `FlagsFollow` | `Spec => []FlagFollowsPostgres` |
| `BillInvariant` | `Spec => []BillInv` |
| `BilledOnce` | `Spec => []BilledAsRecorded` |
| `AcknowledgedIsRecorded` | `Spec => AckedMeansRecorded` |

*The flag.* `FlagInv` adds to the types `DueMeansOver` (the last UPDATE and
Postgres agree on what the flag should be) and `Writing` (a writer on its way to
the HSET still carries that value, or the key is already unsettled).
*The bill.* `BillInv` rests on `Places`: a log is in one place at a time, the
undelivered part of the stream, one worker's batch, or the pending list for good.
What has been charged and recorded follows from the place (`Bills`), and a second
charge would need a second place.

### KeyLifecycle

For any requests, keys, settings and number of failed writes:

| Theorem | Statement |
|---|---|
| `BaseInvariant` | `Spec => []Base` |
| `TypeCorrect` | `Spec => []TypeOK` |
| `RowInvariant` | `Spec => []RowInv` |
| `ListedKeysWork` | `Spec => []EveryRowIsUsable` |
| `NoOtherKeysWork` | `Spec => []NoKeyWithoutRow` |
| `RefusalsUndo` | `Spec => []RefusedCreationIsUndone` |
| `AloneInvariant` | `Spec => []Alone` |
| `AgreeInvariant` | `Spec => []Agrees` |
| `SettingsFollowRows` | `Spec => []SettingsAgree` |

`Base` says what a request does at each place and which fields it is to write
(`Role`), and that a key being created is in no other creation or deletion
(`Apart`, from freshly generated keys). Relative to it the three properties about
rows are inductive together: each needs the others where a rollback follows a
failed seeding. `SettingsAgree` needs more, because a request may have read or
written the row long before its HSET. `Alone`: a request that found its key free
has it to itself until it is done, since whoever comes later loses the key from
`clean`. `Agrees` then ties row, hash and writes under way: a key that is not
split and to which nobody is writing is in line (`Settled`: each setting is the row's,
or what a sync makes of it), an HSET under way
carries the row's values (`Carries`) and the hash has the others (`Completes`), a
sync alone at a key has read the row as it still is (`Fresh`), and a creation that
gave up on its write counts as split (`GaveUp`).

### UpstreamCall

For any requests, tenants, tool calls, nearness and number of retries:

| Theorem | Statement |
|---|---|
| `TypeInvariant`, `TypeCorrect` | `Spec => []TypeInv`, `Spec => []TypeOK` |
| `OrderInvariant` | `Spec => [](TypeInv /\ OrderInv)` |
| `OrderOfExchanges` | `Spec => []ExchangesInOrder` |
| `AnswerInvariant` | `Spec => []AnswerInv` |
| `LastAnswerWins` | `Spec => []AnswerIsTheLast` |
| `CoverInvariant` | `Spec => []CoverInv` |
| `ResultsOfTheTenant` | `Spec => []ResultsAreTheTenants` |

A request disturbs nothing of another one (`OthersStay`), so each invariant speaks
of one request. `Counts`: how many attempts are left. `Course` ties the exchanges
made to the place: up to `failover` all of them are failed tries, as many as were
counted, and from `judge` on `used` says whether a failover is among them; without
it nothing would relate a resolution to the exchange before it. `Stage` ties the
last reply to the place: `AnswerIsTheLast` speaks of `done` only, and what it says
there must be known where the body was read or closed. `Covers`: a call the first
round of lookups found either still has an entry that fits it or has lapsed,
since only `Expire` takes entries away. As for the caches, nothing is assumed of the
tags.

### Dashboard

`Dashboard_proofs` proves, for any keys, tabs, tools, queries, rules and pages and any
bounds on clicks, calls and failures:

| Theorem | Statement |
|---|---|
| `PagesHold` | `Spec => []PagesInv` |
| `RecordingTagged` | `Spec => []RecordingIsTagged` |
| `ShownCurrent` | `Spec => []ShownIsCurrent` |
| `FeedbackHonest` | `Spec => []FeedbackIsHonest` |
| `AnswersInPlace` | `Spec => []AnswersFindTheirPlace` |
| `RowsHold` | `Spec => [](PagesInv /\ RowsInv)` |
| `RowsOnce` | `Spec => []EveryRowOnce` |
| `DiffsComplete` | `Spec => []DiffLosesNothing` |
| `TypeCorrect` | `Spec => []TypeOK` |

The assumption is `ConstantsAssumption` of `Dashboard`: `None` is told apart from what
it stands beside, there is a key and the user's tier is one, bounds are naturals, and
those of pages, loads, lists, rows, page sizes and answers are not zero.
`PagesInv` has one conjunct per page, and a page that is left keeps nothing, so each
is inductive by itself. They are shown in `Pages_proofs`, where the names of several
pages do not meet, and carried over by one `Same...` lemma per page. An instance puts
all that its module extends into the context of every step behind it: hence
`Enumeration` has its own `Last` and `Reverse`, and `Pages_proofs` is instantiated only
where the first of its facts is needed. What each
property lacks to be inductive is what is on its way:

* *Settings*: whoever changed a row still has to reload the list (`Due`), an outdated
  list on its way will be followed by a newer one (`Brings`), and `ver` orders lists. A
  purge has nothing on its way: what its toast may say follows from how it was answered.
* *Playground*: a running stream writes into the last bubble of its panel, which is
  below its own prompt (`PlayPanel`).
* *Content*: one load at a time, each of the selected page (`ContentOrder`), so that
  what is saved was loaded from there; the section of an upload has not moved.
* *Recording*: the session of a start is known to its own call alone until it is served,
  and nobody records the session of a stop (`RecordTag`, `RecordCallsOK`).
* *Model picker, panels, explorer, alert rules*: an answer that has not been overtaken is
  for the selection; for the rules, what a request has read is what the server holds
  unless a change came after it.

`RowsInv` has one conjunct for each page that lists or compares, and one for the data
of the alert rules, which only their types need. Sorting and filtering are functions of
`Enumeration` there (`Ascending`, `At`), whose lemmas say that every element comes once
and in order. What had to be known beyond the properties:

* *Live rows* (`FeedRows`): the list is free of repetition and within `seen`
  (`FeedMerge`), and each row the stream has reached is seen, missed, on the wire or in
  a scan's answer (`FeedReaches`).
* *Board* (`BoardRows`): ranking the groups leaves no gap, so the pages from the first
  to the last are as many as the groups fill; the bucket of a snapshot lies within the
  window that is asked for (`BoardAsks`), so that the answer has all of it that carries
  what the server filters by.
* *Console* (`ConsoleInv`): stamps never fall, the rows sent are among those the stream
  has reached, a poll reads past all of them, and with one connection the buffer
  read backwards and the wire behind it rise (`ConsoleOrder`, `ConsoleRises`).
* *Comparisons* (`DiffInv`, `LinesInv`): each column spells out what the walk has
  passed. For the lines, the table of common subsequences is a recursive function; that
  one exists follows by induction over the rows (`LcsExists`), and what is written
  plus what is left is as short as it says (`LinesShort`). Induction is over a set of
  numbers (`SetInduction`, from the cardinality of the numbers left out), because the
  library's theorem takes an operator.
* *Alert rules* (`RulesTypes`): the data of answers and calls on their way.

Two statements changed because their proofs failed. `SettingsPage` forgot that a
list had overtaken a newer one as soon as the next arrived, though the outdated rows
may still stand; a run with four operations shows it, the proof found it first. The
excuses of `Recording` for a second start and for failed calls turned out not to be
needed and are gone.

### Only model-checked

Liveness under fairness, which is beyond the prover, and the runs marked *violated*.
Every safety property and every action property of the passing runs is proved as well.

## 5. Where the code and its comments disagree

1. **A disconnect keeps the lock** (`l0_disconnect`). `dedup.go:34-35` says the
   lock is freed "even on errors"; the release uses the request's context, and
   go-redis refuses a cancelled one. The lock stays until its TTL, and a retry by
   the same client waits behind it for up to 30 s.
2. **Application errors are shared** (`l0_app_error`). `stream.go:174-175` says
   that upstream errors are not propagated; `base_resp` is not looked at.
3. **The second identical call is blocked** (`loop_second_call`).
   `loop_detect.go:41-42` and `hook_loop_detection.go:7-9` let it through; two
   detectors count it twice.
4. **Zero-Log responses are stored** (`loop_zero_log`). `stream.go:224-228` says
   they are not; the hook's `AfterResponse` does.
5. **The fallback row is never written** (`telemetry_fallback`).
   `telemetry.go:366-369` says it is; the foreign key forbids it, and keys with
   `isolate_cache_by_user` are looked up with the end user's id appended.

Seen while modelling, and part of the models, but with no run of their own:
`StoreLoopFirstResponse` overwrites `:first` with every later response, though the
hook's comment (`hook_loop_detection.go:164-168`) says that it is not clobbered; all
bypass requests of a key share one entry in the inline detector; a leader that is
answered from a cache publishes nothing, so its followers wait out their 30 s; a
follower that times out does not take the lock again; the hook's kill switch answers 400
and the inline one 200; an EXPIRE that fails behind a ZADD that worked leaves the set
its old TTL, so that a call of the window can be forgotten with the set
(`hook_loop_detection.go:108-112`, `loop_detect.go:72-75`); `limit_exceeded` is set only
on the key that was charged and not on the user's other keys; `docs/ARCHITECTURE.md:88`
gives the two commands of the release in the other order.

*Caches.* `db/redis.go:48` calls the field `vk` a "TAG for per-user filtering", but a
TAG without CASESENSITIVE and SEPARATOR tells neither `Bob` from `bob` nor `bob` from
`bob,eve`, and the name is the client's `user`: under a key that isolates by user such
users get each other's semantic matches, not each other's L1 answers. The tool cache
filters by key and tool in the same way (`db/redis.go:57`). A `cacheTtl` of 0, which the
dashboard accepts, makes the SET of L1 write an entry without TTL and the EXPIRE of L2
delete the entry it follows, while the page shows the default. A purge answers 200 with
a count even when SCAN or UNLINK failed, which the settings page shows as a success
(`app/settings/page.tsx:779-792`); it drops every key's `ccr:*` entries when one key is
purged, and never touches `synapse:toolcache:*`. A poisoned L2 entry that was found
through another payload stays: only the request's own keys are deleted.

*Upstream calls.* A request whose reply after an interception is cut short, or is
neither 200 nor an error, panics on the nil `finalResponse` (`proxy.go:981-983`) and
is answered 502 by the recovery (34-47). Without an interception a first reply cut
short is answered 200 with an empty body, and a cut stream becomes an empty answer
that L1 keeps. When every attempt failed and there is no fallback the provider's
error body has been closed and a generic text is sent, though the comment at
`proxy.go:826` speaks of forwarding. A resolution after a failover goes to the
fallback provider with the primary's key (`proxy.go:970`). The second round of
lookups ignores whether it found anything (`proxy.go:953`), so an entry that
expired, or a client that left, makes an empty tool result, and the model's answer
to it may be stored. A model that keeps asking for cached calls is asked again
without bound. `docs/ARCHITECTURE.md:162` has one retry that runs the pipeline
again; the code retries three times and runs none of it again.

*Keys.* A DELETE whose DEL fails leaves a key that works and that no second DELETE
finds; a sync puts back keys deleted since it read them. A zero for `cacheTtl` or
`semanticTolerance` is accepted by PUT (`app/api/keys/[id]/route.ts:65-66`), stored in
the row and pushed to the hash, and a later sync replaces it in the hash by the default
(`sync_keys.js:91-92`, `sync_keys_with_retry.js:80-81`): the page then shows 0 and the
proxy uses 86400 or 0.15.

*Home page.* Stopping a recording removes the tag, says `app/page.tsx:132-134`; a
snapshot of a group taken meanwhile (`app/page.tsx:890`) overwrites the session id, and
the stop then sends none or another one, which the route ignores, so the keys stay
tagged for up to 24 h. The stream asks for rows later than the last one it sent and so
passes over rows that commit late; poll and SWR ask for different page lengths; the
endpoint of a session's summary returns, says `app/page.tsx:894-900`, also the rows with
an empty session id and a matching `convSignature`; it filters by the session id alone
(`app/api/analytics/session/route.ts:53-55`), so the summary of a session lacks rows
that its group on the board has; the session report counts misses under `NONE` and the
page reads `MISS` (`app/page.tsx:1252-1263`). A rejected stop call leaves the tag for 24
h. `PipelineDebugger` shows answers of L0 and of the firewall as cache misses.

*Other pages.* A late load fills the form of the page selected meanwhile, and a
save then stores it under that page; an upload that ends after its section was
deleted creates a section that cannot be rendered. The log stream's own `error`
event makes the console show a broken connection that is not broken. A successful
change of any rule closes whichever form is open. The firewall dialog polls every
15 s where its comment says 5. A chat cleared or forked while streaming sends the
rest of the answer into the last bubble there is.

## 6. What is not modelled

* **Text transformations** (compressors, converters, redaction, token counting,
  embeddings) are sequential functions of one request; to the models they are
  the hash of their result, or a nearness relation.
* **CCR** is a third cache level inside the hook chain. Its key has no tenant part,
  so what `CachedAnswerIsGenuine` says of L1 and L2 does not cover it. One GET, one
  SET NX and one DEL per request leave nothing to interleave beyond one writer.
* **Hook chain, session budget, model radar, metrics mirror**: see the notes in
  `PROJECT.json`. The session budget has two charges in different units and no
  document that says what they should add up to; the metrics mirror drops deltas
  by design (`persistent.go:21-25`) and nothing reads its totals back for a decision.
* **What the request handler does to a payload** and to the telemetry of a request:
  `UpstreamCall` has whom it asks, what it answers and what it stores.
* **Streaming requests** skip L0 (`proxy.go:373`) and are left out there; in
  `ResponseCache` they are requests like any other.
* **Redis and Postgres** are single atomic servers without failover, with one
  exception: commands that were given up on may land late (`KeyLifecycle`). The cost
  of tokens is one unit.
* **Dashboard.** Layout, scrolling, charts, export, artifacts, the clipboard, and
  pages that show one answer (sign-in, mails, marketing, reports). The recorder
  inside `LiveTelemetryGrouped.tsx` (377-414, 597-678) has no caller. Nothing in the
  repository evaluates alert rules, so there are no steps that create events. The
  uploader of a page's main media (`ContentEditor` has those of the sections) and
  failing calls that delete a rule or acknowledge an event are left out. On the board
  by agent, `TelemetryBoard` makes every row without an agent a group of its own; the
  code's key for it is a piece of its time and its model, which two such rows may
  share. One snapshot is asked for at a time and is answered.
* The **MCP server, SDKs, embedders** and the **local client** keep no state that
  these protocols share.

## 7. Plan

Done, in the order of importance: L0 with its refinement and proofs, the loop
firewall, telemetry and billing, keys, response caches, upstream calls with the
tool cache, and the dashboard's pages with their composition.

What is left, most important first:

1. `TenantCache`, an abstract cache without entries' commands, implemented by
   `ResponseCache`; CCR and the tool cache as further levels of it.
2. `RequestPipeline`: `L0Coalescing`, `ResponseCache` and `UpstreamCall` composed
   around one request.
3. `SessionBudget`, once it is decided which of the two charges is meant.
4. `PersistentMetrics` (bounded channel, flush, restart) and `ModelRadar`
   (read-modify-write of entries).
5. Refinements of the pages: an abstract page that shows what the server held at some
   moment since it was asked, implemented by each page that lists.
