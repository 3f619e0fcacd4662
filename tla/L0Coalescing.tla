---------------------------- MODULE L0Coalescing ----------------------------
(***************************************************************************)
(* The L0 cache level: identical in-flight requests are collapsed with a   *)
(* Redis lock (SETNX, TTL 30 s), a response key (TTL 30 s) and a polling   *)
(* wait of 30 s.  Source: src/proxy/optiagent/dedup.go (L0Acquire, L0Wait, *)
(* L0Release) and the L0 section of ProxyHandler in                        *)
(* src/proxy/internal/handlers/proxy.go, which runs the rest of the        *)
(* pipeline and releases in a deferred call.                               *)
(*                                                                         *)
(* One Redis command is one step.  Time is a set of countdowns: Tick takes *)
(* one unit off every running timer, so the model needs no clock.          *)
(***************************************************************************)
EXTENDS Integers

CONSTANTS
    Requests,       \* one handler invocation each; also its lock worker id
    VirtualKey,     \* [Requests -> virtual keys], after the per-user suffix
    PayloadHash,    \* [Requests -> SHA-256 digests of the payloads]
    None,           \* an absent Redis value, an answer not given yet
    Local,          \* answered from L1, L2, the loop cache or the kill switch
    LockTTL,        \* L0LockTTLSec: TTL of the lock AND length of the wait
    RespTTL,        \* L0RespTTLSec
    FaultKinds,     \* the disturbances considered, a set of strings:
                    \*   "redis", "disconnect", "crash"
    MaxFaults       \* bound on the number of disturbances in a behaviour

ASSUME ConstantsAssumption ==
    /\ LockTTL \in Nat \ {0}
    /\ RespTTL \in Nat \ {0}
    /\ MaxFaults \in Nat
    /\ None \notin Requests
    /\ Local \notin Requests
    /\ None # Local

VARIABLES
    pc,         \* where each handler is
    lock,       \* synapse:l0:lock:<vk>:<hash>, the worker id or None
    lockLeft,   \* its remaining TTL
    resp,       \* synapse:l0:resp:<vk>:<hash>, the request it answers or None
    respLeft,   \* its remaining TTL
    wait,       \* time left before the deadline of L0Wait
    gone,       \* the client disconnected: r.Context() is cancelled
    leads,      \* l0WorkerID # "": the release is deferred
    outcome,    \* what the request's own upstream call came to
    answer,     \* whose result the client was sent
    faults,     \* number of disturbances so far
    lostTo,     \* history: the lock holder a follower's SETNX lost to
    lease       \* history: time left on the lease a SETNX granted

vars == <<pc, lock, lockLeft, resp, respLeft, wait, gone, leads, outcome,
          answer, faults, lostTo, lease>>

redisVars == <<lock, lockLeft, resp, respLeft>>

LockKey(r) == <<VirtualKey[r], PayloadHash[r]>>

\* Mutant: the response key forgets the virtual key.
RespKeyWithoutTenant(r) == <<PayloadHash[r]>>

RespKey(r) == <<VirtualKey[r], PayloadHash[r]>>

LockKeys == {LockKey(r) : r \in Requests}
RespKeys == {RespKey(r) : r \in Requests}

Init ==
    /\ pc = [r \in Requests |-> "new"]
    /\ lock = [k \in LockKeys |-> None]
    /\ lockLeft = [k \in LockKeys |-> 0]
    /\ resp = [k \in RespKeys |-> None]
    /\ respLeft = [k \in RespKeys |-> 0]
    /\ wait = [r \in Requests |-> 0]
    /\ gone = [r \in Requests |-> FALSE]
    /\ leads = [r \in Requests |-> FALSE]
    /\ outcome = [r \in Requests |-> "none"]
    /\ answer = [r \in Requests |-> None]
    /\ faults = 0
    /\ lostTo = [r \in Requests |-> None]
    /\ lease = [r \in Requests |-> 0]

Fault(kind) ==
    /\ kind \in FaultKinds
    /\ faults < MaxFaults
    /\ faults' = faults + 1

(***************************************************************************)
(* A Redis command issued with the request's context fails when the client *)
(* is gone, and may fail for a reason of its own while the fault budget    *)
(* lasts.                                                                  *)
(***************************************************************************)
RedisFails(r) ==
    \/ gone[r] /\ UNCHANGED faults
    \/ ~gone[r] /\ Fault("redis")

RedisWorks(r) == ~gone[r] /\ UNCHANGED faults

-----------------------------------------------------------------------------
(* L0Acquire *)

\* Mutant: SET instead of SET NX.
TakeLockBlindly(r) ==
    /\ lock' = [lock EXCEPT ![LockKey(r)] = r]
    /\ lockLeft' = [lockLeft EXCEPT ![LockKey(r)] = LockTTL]
    /\ lease' = [lease EXCEPT ![r] = LockTTL]

\* Mutant: the lock is taken with no TTL (a TTL of 0 means "never expires").
TakeLockForever(r) ==
    /\ lock[LockKey(r)] = None
    /\ lock' = [lock EXCEPT ![LockKey(r)] = r]
    /\ lockLeft' = [lockLeft EXCEPT ![LockKey(r)] = 0]
    /\ lease' = [lease EXCEPT ![r] = LockTTL]

\* The lock is taken in Redis for LockTTL.
TakeLock(r) ==
    /\ lock[LockKey(r)] = None
    /\ lock' = [lock EXCEPT ![LockKey(r)] = r]
    /\ lockLeft' = [lockLeft EXCEPT ![LockKey(r)] = LockTTL]
    /\ lease' = [lease EXCEPT ![r] = LockTTL]

AcquireLock(r) ==
    /\ pc[r] = "new"
    /\ RedisWorks(r)
    /\ TakeLock(r)
    /\ leads' = [leads EXCEPT ![r] = TRUE]
    /\ pc' = [pc EXCEPT ![r] = "run"]
    /\ UNCHANGED <<resp, respLeft, wait, gone, outcome, answer, lostTo>>

\* Mutant: a follower's window is one unit shorter than the lock's TTL.
LoseLockImpatiently(r) ==
    /\ pc[r] = "new"
    /\ RedisWorks(r)
    /\ lock[LockKey(r)] # None
    /\ lostTo' = [lostTo EXCEPT ![r] = lock[LockKey(r)]]
    /\ wait' = [wait EXCEPT ![r] = LockTTL - 1]
    /\ pc' = [pc EXCEPT ![r] = "waiting"]
    /\ UNCHANGED <<redisVars, gone, leads, outcome, answer, lease>>

\* Mutant: a follower's window is counted in the wrong unit.
LoseLockOvershooting(r) ==
    /\ pc[r] = "new"
    /\ RedisWorks(r)
    /\ lock[LockKey(r)] # None
    /\ lostTo' = [lostTo EXCEPT ![r] = lock[LockKey(r)]]
    /\ wait' = [wait EXCEPT ![r] = LockTTL + 1]
    /\ pc' = [pc EXCEPT ![r] = "waiting"]
    /\ UNCHANGED <<redisVars, gone, leads, outcome, answer, lease>>

\* SETNX says the key exists: become a follower, with a deadline.
LoseLock(r) ==
    /\ pc[r] = "new"
    /\ RedisWorks(r)
    /\ lock[LockKey(r)] # None
    /\ lostTo' = [lostTo EXCEPT ![r] = lock[LockKey(r)]]
    /\ wait' = [wait EXCEPT ![r] = LockTTL]
    /\ pc' = [pc EXCEPT ![r] = "waiting"]
    /\ UNCHANGED <<redisVars, gone, leads, outcome, answer, lease>>

\* SETNX returns an error, the command having been applied or not: fail open.
AcquireFailsOpen(r) ==
    /\ pc[r] = "new"
    /\ RedisFails(r)
    /\ \/ UNCHANGED <<lock, lockLeft, lease>>
       \/ ~gone[r] /\ TakeLock(r)
    /\ leads' = [leads EXCEPT ![r] = TRUE]
    /\ pc' = [pc EXCEPT ![r] = "run"]
    /\ UNCHANGED <<resp, respLeft, wait, gone, outcome, answer, lostTo>>

-----------------------------------------------------------------------------
(* L0Wait: one poll is a GET and then a look at the deadline and the context *)

\* L0Wait returns: its deadline goes out of scope (and its history with it).
LeaveWait(r, next) ==
    /\ pc' = [pc EXCEPT ![r] = next]
    /\ wait' = [wait EXCEPT ![r] = 0]
    /\ lostTo' = [lostTo EXCEPT ![r] = None]

WaitHit(r) ==
    /\ pc[r] = "waiting"
    /\ RedisWorks(r)
    /\ resp[RespKey(r)] # None
    /\ answer' = [answer EXCEPT ![r] = resp[RespKey(r)]]
    /\ LeaveWait(r, "done")
    /\ UNCHANGED <<redisVars, gone, leads, outcome, lease>>

WaitMiss(r) ==
    /\ pc[r] = "waiting"
    /\ \/ RedisWorks(r) /\ resp[RespKey(r)] = None
       \/ RedisFails(r)
    /\ pc' = [pc EXCEPT ![r] = "missed"]
    /\ UNCHANGED <<redisVars, wait, gone, leads, outcome, answer, lostTo, lease>>

KeepPolling(r) ==
    /\ pc[r] = "missed"
    /\ wait[r] > 0
    /\ ~gone[r]
    /\ pc' = [pc EXCEPT ![r] = "waiting"]
    /\ UNCHANGED <<redisVars, wait, gone, leads, outcome, answer, faults,
                   lostTo, lease>>

\* Mutant: the only way out of the wait is the client's disconnect.
GiveUpOnlyIfGone(r) ==
    /\ pc[r] = "missed"
    /\ gone[r]
    /\ LeaveWait(r, "run")
    /\ UNCHANGED <<redisVars, gone, leads, outcome, answer, faults, lease>>

\* Timed out or cancelled: the follower runs the pipeline itself, without
\* trying to take the lock again and so with no release to defer.
GiveUpWaiting(r) ==
    /\ pc[r] = "missed"
    /\ wait[r] = 0 \/ gone[r]
    /\ LeaveWait(r, "run")
    /\ UNCHANGED <<redisVars, gone, leads, outcome, answer, faults, lease>>

-----------------------------------------------------------------------------
(* The rest of ProxyHandler, as far as L0 can tell *)

\* The deferred L0Release runs on every way out of the handler, panics
\* included, if and only if l0WorkerID was set.
WayOut(r) == IF leads[r] THEN "unlock" ELSE "done"

\* L1 or L2 hit, loop reply or kill switch: answered with no upstream call
\* and with nothing captured for the followers.
ServeLocally(r) ==
    /\ pc[r] = "run"
    /\ ~gone[r]
    /\ answer' = [answer EXCEPT ![r] = Local]
    /\ pc' = [pc EXCEPT ![r] = WayOut(r)]
    /\ UNCHANGED <<redisVars, wait, gone, leads, outcome, faults, lostTo, lease>>

CallUpstream(r) ==
    /\ pc[r] = "run"
    /\ outcome' = [outcome EXCEPT ![r] = "called"]
    /\ pc' = [pc EXCEPT ![r] = "upstream"]
    /\ UNCHANGED <<redisVars, wait, gone, leads, answer, faults, lostTo, lease>>

\* "good":   a JSON object with neither an error nor a failed base_resp;
\* "appErr": a JSON object with base_resp.status_code # 0 and no error field;
\* "bad":    anything else (transport error, status >= 400, an error object,
\*           a body that is not JSON, a panic on the way).
\* The call itself ignores the client's context and ends within its own
\* timeout and its retries.
UpstreamReturns(r) ==
    /\ pc[r] = "upstream"
    /\ \E o \in {"good", "appErr", "bad"} : outcome' = [outcome EXCEPT ![r] = o]
    /\ answer' = [answer EXCEPT ![r] = r]
    /\ pc' = [pc EXCEPT ![r] = WayOut(r)]
    /\ UNCHANGED <<redisVars, wait, gone, leads, faults, lostTo, lease>>

-----------------------------------------------------------------------------
(* L0Release *)

\* Mutant: whatever upstream answered is captured.
CapturedAlways(r) == outcome[r] # "none"

\* streamResponse hands over a body that parses as a JSON object without an
\* "error" field; it does not look at base_resp.
Captured(r) == outcome[r] \in {"good", "appErr"}

\* Mutant: DEL without comparing the worker id.
DeleteLockBlindly(r) ==
    /\ lock' = [lock EXCEPT ![LockKey(r)] = None]
    /\ lockLeft' = [lockLeft EXCEPT ![LockKey(r)] = 0]

\* The Lua script: DEL only a lock that still holds this worker's id.
DeleteOwnLock(r) ==
    IF lock[LockKey(r)] = r
    THEN /\ lock' = [lock EXCEPT ![LockKey(r)] = None]
         /\ lockLeft' = [lockLeft EXCEPT ![LockKey(r)] = 0]
    ELSE UNCHANGED <<lock, lockLeft>>

Unlock(r) ==
    /\ pc[r] = "unlock"
    /\ \/ RedisWorks(r) /\ DeleteOwnLock(r)
       \/ RedisFails(r) /\ UNCHANGED <<lock, lockLeft>>
    /\ pc' = [pc EXCEPT ![r] = IF Captured(r) THEN "publish" ELSE "done"]
    /\ lease' = [lease EXCEPT ![r] = 0]
    /\ UNCHANGED <<resp, respLeft, wait, gone, leads, outcome, answer, lostTo>>

Publish(r) ==
    /\ pc[r] = "publish"
    /\ \/ /\ RedisWorks(r)
          /\ resp' = [resp EXCEPT ![RespKey(r)] = r]
          /\ respLeft' = [respLeft EXCEPT ![RespKey(r)] = RespTTL]
       \/ RedisFails(r) /\ UNCHANGED <<resp, respLeft>>
    /\ pc' = [pc EXCEPT ![r] = "done"]
    /\ UNCHANGED <<lock, lockLeft, wait, gone, leads, outcome, answer, lostTo,
                   lease>>

-----------------------------------------------------------------------------
(* The environment *)

Running(r) == pc[r] \notin {"done", "crashed"}

\* net/http cancels the request's context when the client hangs up.
Disconnect(r) ==
    /\ Running(r)
    /\ ~gone[r]
    /\ Fault("disconnect")
    /\ gone' = [gone EXCEPT ![r] = TRUE]
    /\ UNCHANGED <<pc, redisVars, wait, leads, outcome, answer, lostTo, lease>>

\* The process serving r dies: nothing deferred runs.
Crash(r) ==
    /\ Running(r)
    /\ Fault("crash")
    /\ LeaveWait(r, "crashed")
    /\ lease' = [lease EXCEPT ![r] = 0]
    /\ UNCHANGED <<redisVars, gone, leads, outcome, answer>>

Dec(n) == IF n > 0 THEN n - 1 ELSE 0

\* One unit of time: Redis drops the keys whose TTL runs out.
Tick ==
    /\ \/ \E k \in LockKeys : lockLeft[k] > 0
       \/ \E k \in RespKeys : respLeft[k] > 0
       \/ \E r \in Requests : wait[r] > 0 \/ lease[r] > 0
    /\ lock' = [k \in LockKeys |-> IF lockLeft[k] = 1 THEN None ELSE lock[k]]
    /\ lockLeft' = [k \in LockKeys |-> Dec(lockLeft[k])]
    /\ resp' = [k \in RespKeys |-> IF respLeft[k] = 1 THEN None ELSE resp[k]]
    /\ respLeft' = [k \in RespKeys |-> Dec(respLeft[k])]
    /\ wait' = [r \in Requests |-> Dec(wait[r])]
    /\ lease' = [r \in Requests |-> Dec(lease[r])]
    /\ UNCHANGED <<pc, gone, leads, outcome, answer, faults, lostTo>>

\* Every handler has returned: the model, not the server, stops here.
Finished ==
    /\ \A r \in Requests : ~Running(r)
    /\ UNCHANGED vars

Handle(r) ==
    \/ AcquireLock(r) \/ LoseLock(r) \/ AcquireFailsOpen(r)
    \/ WaitHit(r) \/ WaitMiss(r) \/ KeepPolling(r) \/ GiveUpWaiting(r)
    \/ ServeLocally(r) \/ CallUpstream(r) \/ UpstreamReturns(r)
    \/ Unlock(r) \/ Publish(r)

Next ==
    \/ \E r \in Requests : Handle(r) \/ Disconnect(r) \/ Crash(r)
    \/ Tick
    \/ Finished

Spec == Init /\ [][Next]_vars

\* Goroutines are scheduled, Redis and the upstream (600 s client timeout)
\* come back with something, and time passes.
Fairness ==
    /\ \A r \in Requests : WF_vars(Handle(r))
    /\ WF_vars(Tick)

FairSpec == Spec /\ Fairness

-----------------------------------------------------------------------------
(* Properties *)

Positions == {"new", "run", "waiting", "missed", "upstream", "unlock",
              "publish", "done", "crashed"}
Outcomes == {"none", "called", "good", "appErr", "bad"}

\* The type invariant.
TypeOK ==
    /\ pc \in [Requests -> Positions]
    /\ lock \in [LockKeys -> Requests \union {None}]
    /\ lockLeft \in [LockKeys -> 0 .. LockTTL]
    /\ resp \in [RespKeys -> Requests \union {None}]
    /\ respLeft \in [RespKeys -> 0 .. RespTTL]
    /\ wait \in [Requests -> 0 .. LockTTL]
    /\ gone \in [Requests -> BOOLEAN]
    /\ leads \in [Requests -> BOOLEAN]
    /\ outcome \in [Requests -> Outcomes]
    /\ answer \in [Requests -> Requests \union {None, Local}]
    /\ faults \in 0 .. MaxFaults
    /\ lostTo \in [Requests -> Requests \union {None}]
    /\ lease \in [Requests -> 0 .. LockTTL]

\* A handler between its L0Acquire and its L0Release.
InFlight(r) == pc[r] \in {"run", "upstream", "unlock"}

\* While the lease a SETNX granted runs, no identical request holds a lease
\* too: two leaders work on one payload only after one has outlived its TTL
\* (dedup.go: "the first one acquires the L0 lock and does the work").
SingleFlightWithinLease ==
    \A r, s \in Requests :
        (/\ LockKey(r) = LockKey(s)
         /\ InFlight(r) /\ lease[r] > 0
         /\ InFlight(s) /\ lease[s] > 0) => r = s

\* A follower whose wait is over never abandons the leader it was waiting
\* for while that leader still holds the lock: the 30 s of L0Wait cover
\* whatever was left of the 30 s of the lock.
FollowerOutwaitsLeader ==
    \A r \in Requests :
        (pc[r] \in {"waiting", "missed"} /\ wait[r] = 0)
            => lock[LockKey(r)] # lostTo[r]

\* A coalesced answer is the captured result of a finished leader for the
\* same virtual key and the same payload, and the follower made no call.
CoalescedAnswerIsGenuine ==
    \A r \in Requests :
        answer[r] \notin {None, Local, r} =>
            LET s == answer[r] IN
            /\ VirtualKey[s] = VirtualKey[r]
            /\ PayloadHash[s] = PayloadHash[r]
            /\ outcome[s] \in {"good", "appErr"}
            /\ leads[s] /\ pc[s] \in {"done", "crashed"}
            /\ outcome[r] = "none"

\* A held lock disappears only because its TTL ran out or because its own
\* holder is releasing it (the reason given for the Lua script).
LockIsNeverStolen ==
    [][\A k \in LockKeys :
         (lock[k] # None /\ lock'[k] # lock[k]) =>
            \/ lockLeft[k] = 1 /\ lock'[k] = None
            \/ /\ pc[lock[k]] = "unlock"
               /\ pc'[lock[k]] # "unlock"
               /\ lock'[k] = None]_vars

\* Every request is answered unless its process dies: the leader publishing
\* nothing, vanishing or losing Redis only delays its followers.
EveryRequestIsAnswered ==
    <>(\A r \in Requests : answer[r] # None \/ pc[r] = "crashed")

\* No lock stays for good, whatever becomes of its holder: once the last
\* request has come in, the locks end up free and stay free.
LocksAreFreedInTheEnd == <>[](\A k \in LockKeys : lock[k] = None)

\* The coalescer keeps the promise of CoalescedCall.
Promise ==
    INSTANCE CoalescedCall WITH
        called    <- {r \in Requests : outcome[r] # "none"},
        shareable <- {r \in Requests : outcome[r] \in {"good", "appErr"}},
        answer    <- answer

ImplementsPromise == Promise!Spec

\* What comments say of the code, refuted by the code (see README, findings).

\* dedup.go: "The proxy must call ReleaseL0 after the upstream call completes
\* (success OR failure) so the lock is freed even on errors."
FinishedMeansUnlocked ==
    \A r \in Requests : pc[r] = "done" => lock[LockKey(r)] # r

\* stream.go: "Only valid JSON (not upstream errors) is propagated."
NoUpstreamErrorIsShared ==
    \A r \in Requests :
        answer[r] \notin {None, Local, r} => outcome[answer[r]] = "good"
=============================================================================
