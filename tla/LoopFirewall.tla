---------------------------- MODULE LoopFirewall ----------------------------
(***************************************************************************)
(* The loop firewall: identical calls of one virtual key are counted in a  *)
(* Redis sorted set over a rolling window, and from the third on they are  *)
(* killed (kill switch) or answered with a stored response.                *)
(*                                                                         *)
(* Two detectors run on every request and share their Redis keys: the      *)
(* LoopDetectionHook (optiagent/hook_loop_detection.go), on the payload as *)
(* the hooks of priority < 150 left it, and DetectLoop                     *)
(* (optiagent/loop_detect.go), which ProxyHandler still calls inline on    *)
(* the payload it is about to send.  Each is up to six Redis commands,     *)
(* interleaved with those of every other request; one command is one step, *)
(* and each can fail by itself.                                            *)
(***************************************************************************)
EXTENDS Integers, FiniteSets

CONSTANTS
    Calls,          \* requests of one virtual key
    HookHash,       \* [Calls -> hashes]: the payload the hook sees
    SentHash,       \* [Calls -> hashes]: the payload after every hook
    NoHash,         \* the empty PayloadHash of a bypass request
    Bypass,         \* the calls with X-Bypass-Cache: true
    KillSwitch,     \* the calls whose key has the kill switch on
    ZeroLog,        \* the calls whose key is in Zero-Log Mode
    None,           \* an absent Redis string
    Threshold,      \* LOOP_THRESHOLD, loopThreshold
    Window,         \* LOOP_WINDOW_SECS, loopWindowSecs
    KeyTTL,         \* loopKeyTTL: the window and some slack
    MaxInFlight,    \* bound on the calls served at the same time
    MaxTime,        \* bound on the clock
    MaxFaults       \* bound on the number of failed Redis commands

ASSUME ConstantsAssumption ==
    /\ Threshold \in Nat /\ Threshold >= 3
    /\ Window \in Nat \ {0}
    /\ KeyTTL \in Nat /\ KeyTTL >= Window
    /\ MaxInFlight \in Nat \ {0}
    /\ MaxTime \in Nat
    /\ MaxFaults \in Nat
    /\ None \notin Calls
    /\ KillSwitch \subseteq Calls
    /\ \A c \in Calls : HookHash[c] # NoHash /\ SentHash[c] # NoHash

VARIABLES
    now,        \* the clock of the proxies and of Redis
    zset,       \* synapse:loops:<vk>:<hash>, a set of entries per key
    zExpiry,    \* when that key expires, 0 if never or it does not exist
    first,      \* synapse:loops:<vk>:<hash>:first, whose response it holds
    firstExpiry,\* when that key expires, 0 if it does not exist
    pc,         \* where each call is
    site,       \* the detector it is in, or was in last
    began,      \* time.Now() at the start of DetectLoop
    counted,    \* the entries its ZCARD counted (the code keeps the number)
    verdict,    \* how the call was answered
    source,     \* whose response it was answered with
    faults,     \* number of Redis commands that failed
    recorded,   \* history: the <<key, entry>> pairs of the last window that
                \* were in their set when an EXPIRE of it worked
    prior       \* history: those recorded before a call with the kill switch
                \* arrived

vars == <<now, zset, zExpiry, first, firstExpiry, pc, site, began, counted,
          verdict, source, faults, recorded, prior>>

redisVars == <<zset, zExpiry, first, firstExpiry>>

\* What the inline detector and the response cache are keyed with.
InlineHash(c) == IF c \in Bypass THEN NoHash ELSE SentHash[c]

KeyOf(c, s) == IF s = "hook" THEN HookHash[c] ELSE InlineHash(c)

Key(c) == KeyOf(c, site[c])

Keys == {HookHash[c] : c \in Calls} \union {SentHash[c] : c \in Calls}
            \union {NoHash}

Sites == {"hook", "inline"}
Entries == [call : Calls, site : Sites, at : 0 .. MaxTime]

Init ==
    /\ now = 0
    /\ zset = [k \in Keys |-> {}]
    /\ zExpiry = [k \in Keys |-> 0]
    /\ first = [k \in Keys |-> None]
    /\ firstExpiry = [k \in Keys |-> 0]
    /\ pc = [c \in Calls |-> "new"]
    /\ site = [c \in Calls |-> "hook"]
    /\ began = [c \in Calls |-> 0]
    /\ counted = [c \in Calls |-> {}]
    /\ verdict = [c \in Calls |-> "none"]
    /\ source = [c \in Calls |-> None]
    /\ faults = 0
    /\ recorded = {}
    /\ prior = [c \in Calls |-> {}]

-----------------------------------------------------------------------------
(* The detectors *)

\* A Redis command fails, by an error or because the context is cancelled.
CommandFails ==
    /\ faults < MaxFaults
    /\ faults' = faults + 1

CommandWorks == UNCHANGED faults

Goto(c, p) == pc' = [pc EXCEPT ![c] = p]

Forget(c) == prior' = [prior EXCEPT ![c] = {}]

\* A detector that does not block the call passes it on.
PassOn(c) ==
    /\ counted' = [counted EXCEPT ![c] = {}]
    /\ IF site[c] = "hook"
       THEN Goto(c, "cache") /\ UNCHANGED prior
       ELSE Goto(c, "upstream") /\ Forget(c)

Answer(c, how) ==
    /\ verdict' = [verdict EXCEPT ![c] = how]
    /\ Goto(c, "done")
    /\ Forget(c)

\* Mutant: the cutoff is one unit too late.
ExpiredTooEarly(e) == e.at <= now - Window + 1

\* The ZREMRANGEBYSCORE -inf (now - window) bound is inclusive.
Expired(e) == e.at <= now - Window

\* A detector reads the clock and sends ZREMRANGEBYSCORE.
EvictFrom(c, s) ==
    LET k == KeyOf(c, s)
        kept == {e \in zset[k] : ~Expired(e)} IN
    /\ zset' = [zset EXCEPT ![k] = kept]
    /\ zExpiry' = [zExpiry EXCEPT ![k] = IF kept = {} THEN 0 ELSE @]

\* The request reaches the loop hook, which gives up if its eviction fails.
StartHook(c) ==
    /\ pc[c] = "new"
    /\ Cardinality({d \in Calls : pc[d] \notin {"new", "done"}}) < MaxInFlight
    /\ \/ CommandWorks /\ EvictFrom(c, "hook") /\ Goto(c, "count")
       \/ CommandFails /\ Goto(c, "cache") /\ UNCHANGED <<zset, zExpiry>>
    /\ prior' = [prior EXCEPT ![c] =
                    {e \in Entries : /\ c \in KillSwitch
                                     /\ <<HookHash[c], e>> \in recorded}]
    /\ UNCHANGED <<now, first, firstExpiry, site, began, counted, verdict,
                   source, recorded>>

\* Nothing has answered so far: ProxyHandler calls DetectLoop, which goes on
\* if its eviction fails.
StartInline(c) ==
    /\ pc[c] = "cache"
    /\ \/ CommandWorks /\ EvictFrom(c, "inline")
       \/ CommandFails /\ UNCHANGED <<zset, zExpiry>>
    /\ site' = [site EXCEPT ![c] = "inline"]
    /\ began' = [began EXCEPT ![c] = now]
    /\ Goto(c, "count")
    /\ UNCHANGED <<now, first, firstExpiry, counted, verdict, source, recorded,
                   prior>>

\* ZCARD; on an error the hook gives up, the inline detector counts 0.
Count(c) ==
    /\ pc[c] = "count"
    /\ \/ /\ CommandWorks
          /\ counted' = [counted EXCEPT ![c] = zset[Key(c)]]
          /\ Goto(c, "record")
          /\ UNCHANGED prior
       \/ /\ CommandFails
          /\ site[c] = "hook"
          /\ PassOn(c)
       \/ /\ CommandFails
          /\ site[c] = "inline"
          /\ Goto(c, "record")
          /\ UNCHANGED <<counted, prior>>
    /\ UNCHANGED <<now, redisVars, site, began, verdict, source, recorded>>

\* The score of a record: the hook reads the clock again, DetectLoop does not.
NewEntry(c) ==
    [call |-> c, site |-> site[c],
     at |-> IF site[c] = "hook" THEN now ELSE began[c]]

\* ZADD.  A set that is there keeps its TTL, a new one has none.
AddEntry(c) ==
    zset' = [zset EXCEPT ![Key(c)] = @ \union {NewEntry(c)}]

\* The entries of one set, as the history keeps them.
Pairs(k) == {k} \X zset[k]

\* EXPIRE, which does nothing to a key that is gone.
RefreshTTL(k) ==
    /\ zExpiry' = [zExpiry EXCEPT ![k] =
                      IF zset[k] = {} THEN 0 ELSE now + KeyTTL]
    /\ recorded' = recorded \union Pairs(k)

\* Mutant: one call too many goes through.
LoopDetectedLate(c) == Cardinality(counted[c]) >= Threshold

\* Mutant: the count is compared with a threshold of one call only.
LoopDetectedEarly(c) == Cardinality(counted[c]) + 1 >= Threshold - 1

\* loopCount = count + 1
LoopDetected(c) == Cardinality(counted[c]) + 1 >= Threshold

\* ZADD, whose error is ignored.
Record(c) ==
    /\ pc[c] = "record"
    /\ \/ CommandWorks /\ AddEntry(c)
       \/ CommandFails /\ UNCHANGED zset
    /\ began' = [began EXCEPT ![c] = 0]
    /\ Goto(c, "expire")
    /\ UNCHANGED <<now, zExpiry, first, firstExpiry, site, counted, verdict,
                   source, recorded, prior>>

\* EXPIRE, whose error is ignored too, and the decision on the count.
Decide(c) ==
    /\ pc[c] = "expire"
    /\ \/ CommandWorks /\ RefreshTTL(Key(c))
       \/ CommandFails /\ UNCHANGED <<zExpiry, recorded>>
    /\ \/ /\ ~LoopDetected(c)
          /\ PassOn(c)
          /\ UNCHANGED verdict
       \/ /\ LoopDetected(c) /\ c \in KillSwitch
          /\ Answer(c, "killed")
          /\ UNCHANGED counted
       \/ /\ LoopDetected(c) /\ c \notin KillSwitch
          /\ Goto(c, "read")
          /\ UNCHANGED <<verdict, counted, prior>>
    /\ UNCHANGED <<now, zset, first, firstExpiry, site, began, source>>

\* GET :first.
ReadFirst(c) ==
    /\ pc[c] = "read"
    /\ \/ /\ CommandWorks
          /\ first[Key(c)] # None
          /\ source' = [source EXCEPT ![c] = first[Key(c)]]
          /\ Goto(c, "touch")
          /\ UNCHANGED <<counted, prior>>
       \/ /\ \/ first[Key(c)] = None /\ CommandWorks
             \/ CommandFails
          /\ PassOn(c)
          /\ UNCHANGED source
    /\ UNCHANGED <<now, redisVars, site, began, verdict, recorded>>

\* EXPIRE of :first when it was there, whose error is ignored.
TouchFirst(c) ==
    /\ pc[c] = "touch"
    /\ \/ /\ CommandWorks
          /\ firstExpiry' = [firstExpiry EXCEPT ![Key(c)] =
                                IF first[Key(c)] = None THEN 0 ELSE now + KeyTTL]
       \/ CommandFails /\ UNCHANGED firstExpiry
    /\ Answer(c, "reused")
    /\ UNCHANGED <<now, zset, zExpiry, first, site, began, counted, source,
                   recorded>>

-----------------------------------------------------------------------------
(* Between the detectors and after them *)

\* A later hook, the session budget, L0, L1 or L2 answers.
AnsweredElsewhere(c) ==
    /\ pc[c] = "cache"
    /\ Answer(c, "other")
    /\ UNCHANGED <<now, redisVars, site, began, counted, source, faults,
                   recorded>>

\* Mutant: the error body is kept as the loop's first response.
UpstreamFailsButStores(c) ==
    /\ pc[c] = "upstream"
    /\ verdict' = [verdict EXCEPT ![c] = "other"]
    /\ Goto(c, "store")
    /\ UNCHANGED <<now, redisVars, site, began, counted, source, faults,
                   recorded, prior>>

\* The body is stored (and the hooks run on it) only if isValidResponse.
UpstreamFails(c) ==
    /\ pc[c] = "upstream"
    /\ Answer(c, "other")
    /\ UNCHANGED <<now, redisVars, site, began, counted, source, faults,
                   recorded>>

\* AfterResponse of the hook: ZCARD of the key of the payload as it is now,
\* which later hooks may have changed since BeforeRequest; stale entries count.
UpstreamSucceeds(c) ==
    /\ pc[c] = "upstream"
    /\ verdict' = [verdict EXCEPT ![c] = "good"]
    /\ \/ /\ CommandWorks
          /\ Goto(c, IF Cardinality(zset[SentHash[c]]) > 1 THEN "store" ELSE "set")
       \/ CommandFails /\ Goto(c, "store")
    /\ UNCHANGED <<now, redisVars, site, began, counted, source, recorded, prior>>

\* Mutant: the window is added to a TTL that includes it.
SetFirstForTooLong(c, k) ==
    /\ first' = [first EXCEPT ![k] = c]
    /\ firstExpiry' = [firstExpiry EXCEPT ![k] = now + Window + KeyTTL]

SetFirst(c, k) ==
    /\ first' = [first EXCEPT ![k] = c]
    /\ firstExpiry' = [firstExpiry EXCEPT ![k] = now + KeyTTL]

\* The hook's SET of :first, under the key of the payload as it was sent.
AfterSet(c) ==
    /\ pc[c] = "set"
    /\ \/ CommandWorks /\ SetFirst(c, SentHash[c])
       \/ CommandFails /\ UNCHANGED <<first, firstExpiry>>
    /\ Goto(c, "store")
    /\ UNCHANGED <<now, zset, zExpiry, site, began, counted, verdict, source,
                   recorded, prior>>

\* streamResponse and StoreLoopFirstResponse: whatever is there is
\* overwritten, unless the response looks like an error after all.
StoreFirst(c) ==
    /\ pc[c] = "store"
    /\ \/ /\ InlineHash(c) # NoHash
          /\ c \notin ZeroLog
          /\ SetFirst(c, InlineHash(c))
       \/ UNCHANGED <<first, firstExpiry>>
    /\ Goto(c, "done")
    /\ UNCHANGED <<now, zset, zExpiry, site, began, counted, verdict, source,
                   faults, recorded, prior>>

\* One unit of time passes, and Redis drops the keys that expire.
Tick ==
    /\ now < MaxTime
    /\ now' = now + 1
    /\ LET Dead(expiry) == expiry # 0 /\ expiry <= now' IN
       /\ zset' = [k \in Keys |-> IF Dead(zExpiry[k]) THEN {} ELSE zset[k]]
       /\ zExpiry' = [k \in Keys |-> IF Dead(zExpiry[k]) THEN 0 ELSE zExpiry[k]]
       /\ first' = [k \in Keys |-> IF Dead(firstExpiry[k]) THEN None ELSE first[k]]
       /\ firstExpiry' =
            [k \in Keys |-> IF Dead(firstExpiry[k]) THEN 0 ELSE firstExpiry[k]]
    /\ recorded' = {r \in recorded : r[2].at > now' - Window}
    /\ prior' = [c \in Calls |-> {e \in prior[c] : e.at > now' - Window}]
    /\ UNCHANGED <<pc, site, began, counted, verdict, source, faults>>

\* Every call is answered and the clock is at its bound.
Finished ==
    /\ now = MaxTime
    /\ \A c \in Calls : pc[c] = "done"
    /\ UNCHANGED vars

Detect(c) ==
    \/ StartHook(c) \/ StartInline(c) \/ Count(c) \/ Record(c) \/ Decide(c)
    \/ ReadFirst(c) \/ TouchFirst(c)

Serve(c) ==
    \/ AnsweredElsewhere(c) \/ UpstreamFails(c) \/ UpstreamSucceeds(c)
    \/ AfterSet(c) \/ StoreFirst(c)

Next ==
    \/ \E c \in Calls : Detect(c) \/ Serve(c)
    \/ Tick
    \/ Finished

Spec == Init /\ [][Next]_vars

-----------------------------------------------------------------------------
(* Properties *)

Positions == {"new", "count", "record", "expire", "read", "touch", "cache",
              "upstream", "set", "store", "done"}
Verdicts == {"none", "killed", "reused", "other", "good"}
Times == 0 .. MaxTime
Expiries == 0 .. MaxTime + KeyTTL

\* The type invariant.
TypeOK ==
    /\ now \in Times
    /\ zset \in [Keys -> SUBSET Entries]
    /\ zExpiry \in [Keys -> Expiries]
    /\ first \in [Keys -> Calls \union {None}]
    /\ firstExpiry \in [Keys -> Expiries]
    /\ pc \in [Calls -> Positions]
    /\ site \in [Calls -> Sites]
    /\ began \in [Calls -> Times]
    /\ counted \in [Calls -> SUBSET Entries]
    /\ verdict \in [Calls -> Verdicts]
    /\ source \in [Calls -> Calls \union {None}]
    /\ faults \in 0 .. MaxFaults
    /\ recorded \in SUBSET (Keys \X Entries)
    /\ prior \in [Calls -> SUBSET Entries]

\* From the moment an EXPIRE finds it in its sorted set, a call is there for
\* the whole window, however evictions, failing EXPIREs and expiries of
\* concurrent requests fall: the key's TTL (loopKeyTTL) covers the window.
\* A call whose own EXPIRE fails, or comes after the set expired, has no such
\* guarantee: the code ignores those errors and such a call can be forgotten.
WindowIsRemembered ==
    \A r \in recorded : r[2].at > now - Window => r[2] \in zset[r[1]]

\* A call that is killed, or answered with a stored response, is preceded by
\* another call with the same payload (as one of the detectors saw it).  A
\* bypass call is only counted as such by the inline detector and is left out.
\* "Loop" is never diagnosed from a request's own double entry.
BlockedOnlyForARepeat ==
    \A c \in Calls \ Bypass :
        verdict[c] \in {"killed", "reused"} =>
            \E e \in counted[c] :
                /\ e.call # c
                /\ {HookHash[e.call], InlineHash(e.call)}
                     \cap {HookHash[c], SentHash[c]} # {}

\* With the kill switch on and Redis answering, no call goes upstream while
\* Threshold - 1 identical ones, recorded with a TTL before it arrived, are in
\* the window.
RunawayIsStopped ==
    [][\A c \in KillSwitch :
         (pc[c] # "upstream" /\ pc'[c] = "upstream" /\ faults' = 0) =>
            Cardinality({e.call : e \in {x \in prior[c] : x.at > now - Window}})
                < Threshold - 1]_vars

\* A reused response is the valid response another call got from upstream for
\* the payload the detector was looking at.
ReusedResponseIsGenuine ==
    \A c \in Calls :
        verdict[c] = "reused" =>
            LET d == source[c] IN
            /\ d \in Calls \ {c}
            /\ verdict[d] = "good"
            /\ SentHash[d] = Key(c)

\* What comments say of the code, refuted by the code (see README, findings).

\* loop_detect.go: "On the 2nd call (within LOOP_WINDOW_SECS): ... still let
\* it through"; the third call is the first one to be blocked.
SecondCallIsLetThrough ==
    \A c \in Calls :
        verdict[c] \in {"killed", "reused"} =>
            Cardinality({e.call : e \in counted[c]} \ {c}) >= Threshold - 1

\* stream.go, on Zero-Log Mode: "we do NOT store it as a loop response".
ZeroLogStoresNoLoopResponse == \A k \in Keys : first[k] \notin ZeroLog
=============================================================================
