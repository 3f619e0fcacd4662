------------------------- MODULE ResponseCache_proofs -------------------------
(***************************************************************************)
(* Theorems about ResponseCache, for any requests, tenants, payloads, TTLs *)
(* and bounds.  CacheInv is inductive:                                     *)
(*   OwnEntries   an entry holds the answer to its own key's question;     *)
(*   Asking       what each step of a request says of what it has read.    *)
(***************************************************************************)
EXTENDS ResponseCache, TLAPS

OwnEntries ==
    \A k \in Keys : Present(k) =>
        cache[k].answer.by = k[2] /\ cache[k].answer.of = k[3]

\* What request r has read is the tenant's and answers its question.
HasRead(r) == /\ req[r].seen \in Entries
              /\ req[r].level \in Levels
              /\ SameTenant(r)
              /\ SameQuestion(r)

Asked(r) ==
    /\ req[r].at # "idle" =>
         /\ req[r].tenant \in Tenants
         /\ req[r].payload \in Payloads
         /\ req[r].payload \notin ToolPayloads => req[r].limit = NoLimit
    /\ req[r].at = "hset" =>
         /\ req[r].answer \in Answers
         /\ req[r].answer.by = req[r].tenant
         /\ req[r].answer.of = req[r].payload
    /\ req[r].at \in {"age", "drop", "served"} => HasRead(r)
    /\ req[r].at = "age" => req[r].limit \in Nat /\ req[r].level = "L1"
    /\ Served(r) => ~req[r].seen.answer.poor /\ YoungEnough(r)

Asking == \A r \in Requests : Asked(r)

CacheInv == TypeOK /\ OwnEntries /\ Asking

USE ToolsAreSent, TtlsAreTimes, LimitsAreTimes, LimitIsNoTime, BoundsAreNaturals,
    CallersAreTenants, ScopesAreTenants, LeftOverAreKeys

-----------------------------------------------------------------------------
\* A key of the request is a Redis key.
LEMMA KeyIsKey ==
    ASSUME TypeOK, Asking, NEW r \in Requests, NEW l \in Levels,
           req[r].at # "idle"
    PROVE  Key(r, l) \in Keys /\ Key(r, l)[1] = l
           /\ Key(r, l)[2] = req[r].tenant /\ Key(r, l)[3] = req[r].payload
BY DEF Asking, Asked, Key, Keys

\* A step of one request leaves what is known of the others.
LEMMA OthersStay ==
    ASSUME TypeOK, Asking, NEW r \in Requests, NEW x \in RequestStates,
           req' = [req EXCEPT ![r] = x], Asked(r)'
    PROVE  req' \in [Requests -> RequestStates] /\ Asking'
<1>1. req' \in [Requests -> RequestStates]
  BY DEF TypeOK
<1>2. ASSUME NEW s \in Requests PROVE Asked(s)'
  <2>1. CASE s = r
    BY <2>1
  <2>2. CASE s # r
    <3>1. req'[s] = req[s]
      BY <2>2 DEF TypeOK
    <3>2. Asked(s)
      BY DEF Asking
    <3>. QED BY <3>1, <3>2 DEF Asked, HasRead, SameTenant, SameQuestion, Served,
                              YoungEnough
  <2>. QED BY <2>1, <2>2
<1>. QED BY <1>1, <1>2 DEF Asking

\* A step of one request that changes nothing in Redis.
LEMMA ReadStep ==
    ASSUME CacheInv, NEW r \in Requests, NEW x \in RequestStates,
           req' = [req EXCEPT ![r] = x], Asked(r)', arrivals' \in Nat,
           UNCHANGED <<clock, cache, lost, purge>>
    PROVE  CacheInv'
<1>1. req' \in [Requests -> RequestStates] /\ Asking'
  BY OthersStay DEF CacheInv
<1>2. TypeOK'
  BY <1>1 DEF CacheInv, TypeOK
<1>3. OwnEntries'
  BY DEF CacheInv, OwnEntries, Present
<1>. QED BY <1>1, <1>2, <1>3 DEF CacheInv

LEMMA IdleIsAState == Idle \in RequestStates
BY DEF Idle, RequestStates, Steps

\* What the lookup reads from a key of the right tenant is fit to be replayed.
LEMMA EntryOfKey ==
    ASSUME CacheInv, NEW k \in Keys, Present(k)
    PROVE  /\ cache[k] \in Entries
           /\ cache[k].answer.by = k[2] /\ cache[k].answer.of = k[3]
BY DEF CacheInv, TypeOK, OwnEntries, Present

\* Nothing that looks like an error is replayed.
LEMMA ReplayedIsNoError ==
    ASSUME NEW e
    PROVE  /\ AfterHit(e) \in {"drop", "served"}
           /\ AfterHit(e) = "served" => ~e.answer.poor
BY DEF AfterHit

LEMMA ArriveStep == ASSUME CacheInv, NEW r \in Requests, Arrive(r) PROVE CacheInv'
<1>1. PICK t \in Callers, p \in Payloads, ttl \in Ttls,
           limit \in AgeLimits \cup {NoLimit} :
        /\ p \notin ToolPayloads => limit = NoLimit
        /\ req' = [req EXCEPT ![r] =
                [Idle EXCEPT !.at = "get", !.tenant = t, !.payload = p,
                             !.ttl = ttl, !.limit = limit]]
  BY DEF Arrive
<1>. DEFINE x == [Idle EXCEPT !.at = "get", !.tenant = t, !.payload = p,
                              !.ttl = ttl, !.limit = limit]
<1>2. x \in RequestStates
  BY DEF Idle, RequestStates, Steps
<1>3. req'[r] = x
  BY <1>1 DEF CacheInv, TypeOK
<1>4. Asked(r)'
  <2>1. /\ req'[r].at = "get" /\ req'[r].tenant = t /\ req'[r].payload = p
        /\ req'[r].limit = limit
    BY <1>3 DEF Idle
  <2>. QED BY <1>1, <2>1 DEF Asked, Served
<1>5. arrivals' \in Nat
  BY DEF Arrive, CacheInv, TypeOK
<1>. HIDE DEF x
<1>. QED BY <1>1, <1>2, <1>4, <1>5, ReadStep DEF Arrive, x

LEMMA GetL1Step == ASSUME CacheInv, NEW r \in Requests, GetL1(r) PROVE CacheInv'
<1>. DEFINE e == cache[Key(r, "L1")]
            x == [req[r] EXCEPT !.seen = e, !.level = "L1",
                    !.at = IF req[r].limit = NoLimit THEN AfterHit(e) ELSE "age"]
<1>1. req[r] \in RequestStates /\ Asked(r) /\ req[r].at = "get"
  BY DEF CacheInv, TypeOK, Asking, GetL1
<1>2. /\ e \in Entries
      /\ e.answer.by = req[r].tenant /\ e.answer.of = req[r].payload
  BY <1>1, KeyIsKey, EntryOfKey DEF GetL1, CacheInv, Levels
<1>3. x \in RequestStates
  BY ZenonT(60), <1>1, <1>2, ReplayedIsNoError DEF RequestStates, Steps, Levels
<1>4. req' = [req EXCEPT ![r] = x]
  BY DEF GetL1, CacheInv, TypeOK
<1>5. req'[r] = x
  BY <1>4 DEF CacheInv, TypeOK
<1>6. HasRead(r)'
  BY <1>1, <1>2, <1>5 DEF HasRead, SameTenant, SameQuestion, Levels, RequestStates
<1>7. Asked(r)'
  BY <1>1, <1>2, <1>5, <1>6, ReplayedIsNoError
  DEF Asked, Served, YoungEnough, RequestStates
<1>. QED BY <1>3, <1>4, <1>7, ReadStep DEF GetL1, CacheInv, TypeOK

LEMMA MissL1Step == ASSUME CacheInv, NEW r \in Requests, MissL1(r) PROVE CacheInv'
<1>. DEFINE x == [req[r] EXCEPT !.at = "search"]
<1>1. req[r] \in RequestStates /\ Asked(r) /\ req[r].at = "get"
  BY DEF CacheInv, TypeOK, Asking, MissL1
<1>2. x \in RequestStates
  BY <1>1 DEF RequestStates, Steps
<1>3. req' = [req EXCEPT ![r] = x]
  BY DEF MissL1, Go, CacheInv, TypeOK
<1>4. req'[r] = x
  BY <1>3 DEF CacheInv, TypeOK
<1>5. Asked(r)'
  BY <1>1, <1>4 DEF Asked, Served, RequestStates
<1>. QED BY <1>2, <1>3, <1>5, ReadStep DEF MissL1, CacheInv, TypeOK

LEMMA CheckAgeStep ==
    ASSUME CacheInv, NEW r \in Requests, CheckAge(r) PROVE CacheInv'
<1>. DEFINE e == req[r].seen
            k == Key(r, "L1")
            x == [req[r] EXCEPT !.checked = clock, !.raced = cache[k] # e,
                                !.at = AfterHit(e)]
<1>1. /\ req[r] \in RequestStates /\ Asked(r) /\ req[r].at = "age"
      /\ HasRead(r) /\ req[r].limit \in Nat /\ req[r].level = "L1"
  BY DEF CacheInv, TypeOK, Asking, CheckAge, Asked
<1>2. clock \in Nat
  BY DEF CacheInv, TypeOK
<1>3. x \in RequestStates
  BY ZenonT(60), <1>1, <1>2, ReplayedIsNoError DEF RequestStates, Steps
<1>4. req' = [req EXCEPT ![r] = x]
  BY DEF CheckAge, CacheInv, TypeOK
<1>5. req'[r] = x
  BY <1>4 DEF CacheInv, TypeOK
<1>6. HasRead(r)'
  BY <1>1, <1>5 DEF HasRead, SameTenant, SameQuestion, RequestStates
<1>7. cache[k] = e => clock <= e.set + req[r].limit \/ e.dies > e.set + req[r].ttl
  <2>1. cache[k] = e => clock + req[r].ttl <= e.dies + req[r].limit
    BY DEF CheckAge, WithinLimit
  <2>2. e.set \in Nat /\ e.dies \in Nat /\ req[r].ttl \in Nat
    BY <1>1 DEF HasRead, Entries, RequestStates
  <2>. QED BY <1>1, <1>2, <2>1, <2>2
<1>8. YoungEnough(r)'
  BY <1>1, <1>5, <1>7 DEF YoungEnough, RequestStates
<1>9. Asked(r)'
  BY <1>1, <1>5, <1>6, <1>8, ReplayedIsNoError DEF Asked, Served, RequestStates
<1>. QED BY <1>3, <1>4, <1>9, ReadStep DEF CheckAge, CacheInv, TypeOK

LEMMA TooOldStep == ASSUME CacheInv, NEW r \in Requests, TooOld(r) PROVE CacheInv'
<1>. DEFINE x == [req[r] EXCEPT !.at = "search", !.seen = Absent]
<1>1. req[r] \in RequestStates /\ Asked(r) /\ req[r].at = "age"
  BY DEF CacheInv, TypeOK, Asking, TooOld
<1>2. x \in RequestStates
  BY <1>1 DEF RequestStates, Steps
<1>3. req' = [req EXCEPT ![r] = x]
  BY DEF TooOld, CacheInv, TypeOK
<1>4. req'[r] = x
  BY <1>3 DEF CacheInv, TypeOK
<1>5. Asked(r)'
  BY <1>1, <1>4 DEF Asked, Served, RequestStates
<1>. QED BY <1>2, <1>3, <1>5, ReadStep DEF TooOld, CacheInv, TypeOK

LEMMA SearchL2Step ==
    ASSUME CacheInv, NEW r \in Requests, SearchL2(r) PROVE CacheInv'
<1>1. PICK k \in Neighbours(r) :
        req' = [req EXCEPT ![r].at = AfterHit(cache[k]), ![r].seen = cache[k],
                           ![r].level = "L2", ![r].vector = TRUE]
  BY DEF SearchL2
<1>. DEFINE x == [req[r] EXCEPT !.at = AfterHit(cache[k]), !.seen = cache[k],
                                !.level = "L2", !.vector = TRUE]
<1>2. /\ req[r] \in RequestStates /\ Asked(r) /\ req[r].at = "search"
      /\ req[r].limit = NoLimit
  BY DEF CacheInv, TypeOK, Asking, Asked, SearchL2, SemanticMatch
<1>3. /\ cache[k] \in Entries
      /\ Admits(req[r].tenant, cache[k].answer.by)
      /\ <<req[r].payload, cache[k].answer.of>> \in Near
  BY EntryOfKey DEF Neighbours
<1>4. x \in RequestStates
  BY <1>2, <1>3, ReplayedIsNoError DEF RequestStates, Steps, Levels
<1>5. req' = [req EXCEPT ![r] = x]
  BY <1>1 DEF CacheInv, TypeOK
<1>6. req'[r] = x
  BY <1>5 DEF CacheInv, TypeOK
<1>7. HasRead(r)'
  BY <1>2, <1>3, <1>6 DEF HasRead, SameTenant, SameQuestion, Levels, RequestStates
<1>8. Asked(r)'
  BY <1>2, <1>3, <1>6, <1>7, ReplayedIsNoError
  DEF Asked, Served, YoungEnough, RequestStates
<1>. QED BY <1>4, <1>5, <1>8, ReadStep DEF SearchL2, CacheInv, TypeOK

\* A request on its way to the provider keeps its key and its settings only.
LEMMA AskedAfter ==
    ASSUME CacheInv, NEW r \in Requests, NEW v \in BOOLEAN, Ask(r, v),
           req[r].at # "idle"
    PROVE  /\ Asked(r)'
           /\ \E x \in RequestStates : req' = [req EXCEPT ![r] = x]
<1>. DEFINE x == [Idle EXCEPT !.at = "upstream", !.tenant = req[r].tenant,
                      !.payload = req[r].payload, !.ttl = req[r].ttl,
                      !.vector = v]
<1>1. req[r] \in RequestStates /\ Asked(r)
  BY DEF CacheInv, TypeOK, Asking
<1>2. x \in RequestStates
  BY <1>1 DEF Idle, RequestStates, Steps
<1>3. req' = [req EXCEPT ![r] = x]
  BY DEF Ask
<1>4. req'[r] = x
  BY <1>3 DEF CacheInv, TypeOK
<1>5. /\ req'[r].at = "upstream" /\ req'[r].tenant = req[r].tenant
      /\ req'[r].payload = req[r].payload /\ req'[r].limit = NoLimit
  BY <1>4 DEF Idle
<1>6. Asked(r)'
  BY <1>1, <1>5 DEF Asked, Served
<1>. QED BY <1>2, <1>3, <1>6

LEMMA FinishedAfter ==
    ASSUME CacheInv, NEW r \in Requests, Finish(r)
    PROVE  /\ Asked(r)'
           /\ \E x \in RequestStates : req' = [req EXCEPT ![r] = x]
<1>1. req' = [req EXCEPT ![r] = Idle]
  BY DEF Finish
<1>2. req'[r] = Idle
  BY <1>1 DEF CacheInv, TypeOK
<1>3. req'[r].at = "idle"
  BY <1>2 DEF Idle
<1>. QED BY <1>1, <1>3, IdleIsAState DEF Asked, Served

LEMMA MissL2Step == ASSUME CacheInv, NEW r \in Requests, MissL2(r) PROVE CacheInv'
BY AskedAfter, ReadStep DEF MissL2, SemanticMatch, CacheInv, TypeOK

LEMMA SkipL2Step == ASSUME CacheInv, NEW r \in Requests, SkipL2(r) PROVE CacheInv'
BY AskedAfter, ReadStep DEF SkipL2, CacheInv, TypeOK

LEMMA NotKeptStep ==
    ASSUME CacheInv, NEW r \in Requests, NotKept(r) PROVE CacheInv'
BY FinishedAfter, ReadStep DEF NotKept, CacheInv, TypeOK

-----------------------------------------------------------------------------
\* A step of one request that changes the keys in Redis too.
LEMMA WriteStep ==
    ASSUME CacheInv, NEW r \in Requests, NEW x \in RequestStates,
           req' = [req EXCEPT ![r] = x], Asked(r)',
           cache' \in [Keys -> Entries \cup {Absent}], OwnEntries',
           lost' \subseteq Keys, UNCHANGED <<clock, purge, arrivals>>
    PROVE  CacheInv'
<1>1. req' \in [Requests -> RequestStates] /\ Asking'
  BY OthersStay DEF CacheInv
<1>2. TypeOK'
  BY <1>1 DEF CacheInv, TypeOK
<1>. QED BY <1>1, <1>2 DEF CacheInv

\* Deleting keys leaves the entries of the others.
LEMMA UnlinkKeeps ==
    ASSUME CacheInv, NEW batch, Unlink(batch)
    PROVE  /\ cache' \in [Keys -> Entries \cup {Absent}]
           /\ OwnEntries'
           /\ lost' \subseteq Keys
<1>1. cache' = [k \in Keys |-> IF k \in batch THEN Absent ELSE cache[k]]
  BY DEF Unlink
<1>2. cache' \in [Keys -> Entries \cup {Absent}]
  BY <1>1 DEF CacheInv, TypeOK
<1>3. ASSUME NEW k \in Keys, Present(k)'
      PROVE  cache'[k].answer.by = k[2] /\ cache'[k].answer.of = k[3]
  <2>1. cache'[k] = cache[k] /\ Present(k)
    BY <1>1, <1>3 DEF Present
  <2>. QED BY <2>1, EntryOfKey
<1>4. lost' \subseteq Keys
  BY DEF Unlink, CacheInv, TypeOK
<1>. QED BY <1>2, <1>3, <1>4 DEF OwnEntries

\* Writing an entry that answers its key's question leaves the others.
LEMMA WriteKeeps ==
    ASSUME CacheInv, NEW key \in Keys, NEW e \in Entries \cup {Absent},
           e # Absent => e.answer.by = key[2] /\ e.answer.of = key[3],
           cache' = [cache EXCEPT ![key] = e]
    PROVE  /\ cache' \in [Keys -> Entries \cup {Absent}]
           /\ OwnEntries'
<1>1. cache' \in [Keys -> Entries \cup {Absent}]
  BY DEF CacheInv, TypeOK
<1>2. ASSUME NEW k \in Keys, Present(k)'
      PROVE  cache'[k].answer.by = k[2] /\ cache'[k].answer.of = k[3]
  <2>1. CASE k = key
    BY <1>2, <2>1 DEF Present, CacheInv, TypeOK
  <2>2. CASE k # key
    <3>1. cache'[k] = cache[k] /\ Present(k)
      BY <1>2, <2>2 DEF Present, CacheInv, TypeOK
    <3>. QED BY <3>1, EntryOfKey
  <2>. QED BY <2>1, <2>2
<1>. QED BY <1>1, <1>2 DEF OwnEntries

LEMMA StaysOwned == ASSUME CacheInv, UNCHANGED cache PROVE OwnEntries'
BY DEF CacheInv, OwnEntries, Present

LEMMA DropPoisonedStep ==
    ASSUME CacheInv, NEW r \in Requests, DropPoisoned(r) PROVE CacheInv'
<1>. DEFINE own == {Key(r, "L1"), Key(r, "L2")}
<1>1. Ask(r, req[r].vector) /\ req[r].at = "drop"
  BY DEF DropPoisoned
<1>2. req[r].vector \in BOOLEAN
  BY DEF CacheInv, TypeOK, RequestStates
<1>3. /\ Asked(r)'
      /\ \E x \in RequestStates : req' = [req EXCEPT ![r] = x]
  BY <1>1, <1>2, AskedAfter
<1>4. /\ cache' \in [Keys -> Entries \cup {Absent}]
      /\ OwnEntries' /\ lost' \subseteq Keys
  <2>1. CASE Unlink(own)
    BY <2>1, UnlinkKeeps
  <2>2. CASE UNCHANGED <<cache, lost>>
    BY <2>2, StaysOwned DEF CacheInv, TypeOK
  <2>. QED BY <2>1, <2>2 DEF DropPoisoned, Unlink
<1>. QED BY <1>3, <1>4, WriteStep DEF DropPoisoned

LEMMA EntryIsAnEntry ==
    ASSUME CacheInv, NEW answer \in Answers, NEW dies \in Nat
    PROVE  Entry(answer, dies) \in Entries /\ Entry(answer, dies).answer = answer
BY DEF CacheInv, TypeOK, Entry, Entries

LEMMA StoreL1Step ==
    ASSUME CacheInv, NEW r \in Requests, StoreL1(r) PROVE CacheInv'
<1>1. req[r] \in RequestStates /\ Asked(r) /\ req[r].at = "upstream"
  BY DEF CacheInv, TypeOK, Asking, StoreL1
<1>2. req[r].tenant \in Tenants /\ req[r].payload \in Payloads
  BY <1>1 DEF Asked
<1>3. PICK answer \in Answers :
        /\ answer.by = req[r].tenant /\ answer.of = req[r].payload
        /\ \/ cache' = [cache EXCEPT ![Key(r, "L1")] = Entry(answer, Death(r))]
           \/ UNCHANGED cache
        /\ req' = [req EXCEPT ![r] = Stored(r, answer)]
  BY <1>2 DEF StoreL1, Answers
<1>4. Key(r, "L1") \in Keys /\ Key(r, "L1")[2] = req[r].tenant
      /\ Key(r, "L1")[3] = req[r].payload
  BY <1>1, KeyIsKey DEF CacheInv, Levels
<1>5. Death(r) \in Nat
  BY <1>1 DEF Death, CacheInv, TypeOK, RequestStates
<1>6. cache' \in [Keys -> Entries \cup {Absent}] /\ OwnEntries'
  <2>1. CASE cache' = [cache EXCEPT ![Key(r, "L1")] = Entry(answer, Death(r))]
    BY <1>3, <1>4, <1>5, <2>1, EntryIsAnEntry, WriteKeeps
  <2>2. CASE UNCHANGED cache
    BY <2>2, StaysOwned DEF CacheInv, TypeOK
  <2>. QED BY <1>3, <2>1, <2>2
<1>. DEFINE x == [req[r] EXCEPT !.at = "hset", !.answer = answer]
<1>7. Stored(r, answer) \in RequestStates
  <2>1. x \in RequestStates
    BY <1>1, <1>3 DEF RequestStates, Steps
  <2>. QED BY <2>1, IdleIsAState DEF Stored
<1>8. req'[r] = Stored(r, answer)
  BY <1>3 DEF CacheInv, TypeOK
<1>9. Asked(r)'
  <2>1. CASE req[r].vector
    <3>1. req'[r] = x
      BY <1>8, <2>1 DEF Stored
    <3>2. /\ req'[r].at = "hset" /\ req'[r].answer = answer
          /\ req'[r].tenant = req[r].tenant /\ req'[r].payload = req[r].payload
          /\ req'[r].limit = req[r].limit
      BY <1>1, <3>1 DEF RequestStates
    <3>. QED BY <1>1, <1>3, <3>2 DEF Asked, Served
  <2>2. CASE ~req[r].vector
    <3>1. req'[r].at = "idle"
      BY <1>8, <2>2 DEF Stored, Idle
    <3>. QED BY <3>1 DEF Asked, Served
  <2>. QED BY <2>1, <2>2
<1>10. lost' \subseteq Keys
  BY DEF StoreL1, CacheInv, TypeOK
<1>. QED BY <1>3, <1>6, <1>7, <1>9, <1>10, WriteStep DEF StoreL1

\* After HSET, written or not, the request goes on to EXPIRE.
LEMMA ToExpire ==
    ASSUME CacheInv, NEW r \in Requests, req[r].at = "hset", Go(r, "expire")
    PROVE  /\ Asked(r)'
           /\ \E x \in RequestStates : req' = [req EXCEPT ![r] = x]
<1>. DEFINE x == [req[r] EXCEPT !.at = "expire"]
<1>1. req[r] \in RequestStates /\ Asked(r)
  BY DEF CacheInv, TypeOK, Asking
<1>2. x \in RequestStates
  BY <1>1 DEF RequestStates, Steps
<1>3. req' = [req EXCEPT ![r] = x]
  BY DEF Go, CacheInv, TypeOK
<1>4. req'[r] = x
  BY <1>3 DEF CacheInv, TypeOK
<1>5. /\ req'[r].at = "expire" /\ req'[r].tenant = req[r].tenant
      /\ req'[r].payload = req[r].payload /\ req'[r].limit = req[r].limit
  BY <1>1, <1>4 DEF RequestStates
<1>6. Asked(r)'
  BY <1>1, <1>5 DEF Asked, Served
<1>. QED BY <1>2, <1>3, <1>6

LEMMA StoreL2Step ==
    ASSUME CacheInv, NEW r \in Requests, StoreL2(r) PROVE CacheInv'
<1>. DEFINE k == Key(r, "L2")
            e == Entry(req[r].answer, cache[k].dies)
<1>1. req[r] \in RequestStates /\ Asked(r) /\ req[r].at = "hset"
  BY DEF CacheInv, TypeOK, Asking, StoreL2
<1>2. k \in Keys /\ k[2] = req[r].tenant /\ k[3] = req[r].payload
  BY <1>1, KeyIsKey DEF CacheInv, Levels
<1>3. cache[k].dies \in Nat
  <2>1. cache[k] \in Entries \/ cache[k] = Absent
    BY <1>2 DEF CacheInv, TypeOK
  <2>2. CASE cache[k] \in Entries
    BY <2>2 DEF Entries
  <2>3. CASE cache[k] = Absent
    BY <2>3 DEF Absent
  <2>. QED BY <2>1, <2>2, <2>3
<1>4. e \in Entries /\ e.answer.by = k[2] /\ e.answer.of = k[3]
  BY <1>1, <1>2, <1>3, EntryIsAnEntry DEF Asked
<1>5. cache' = [cache EXCEPT ![k] = e]
  BY <1>2 DEF StoreL2, CacheInv, TypeOK
<1>6. cache' \in [Keys -> Entries \cup {Absent}] /\ OwnEntries'
  BY <1>2, <1>4, <1>5, WriteKeeps
<1>7. lost' \subseteq Keys
  BY DEF StoreL2, CacheInv, TypeOK
<1>. QED BY <1>6, <1>7, ToExpire, WriteStep DEF StoreL2

LEMMA StoreL2FailsStep ==
    ASSUME CacheInv, NEW r \in Requests, StoreL2Fails(r) PROVE CacheInv'
BY ToExpire, ReadStep DEF StoreL2Fails, CacheInv, TypeOK

LEMMA ExpireL2Step ==
    ASSUME CacheInv, NEW r \in Requests, ExpireL2(r) PROVE CacheInv'
<1>. DEFINE k == Key(r, "L2")
            gone == cache[k] = Absent \/ req[r].ttl = 0
            e == IF gone THEN Absent ELSE [cache[k] EXCEPT !.dies = Death(r)]
<1>1. req[r] \in RequestStates /\ Asked(r) /\ req[r].at = "expire"
  BY DEF CacheInv, TypeOK, Asking, ExpireL2
<1>2. k \in Keys
  BY <1>1, KeyIsKey DEF CacheInv, Levels
<1>3. Death(r) \in Nat
  BY <1>1 DEF Death, CacheInv, TypeOK, RequestStates
<1>4. ~gone => /\ e \in Entries
               /\ e.answer.by = k[2] /\ e.answer.of = k[3]
  <2>1. ~gone => /\ cache[k] \in Entries
                 /\ cache[k].answer.by = k[2] /\ cache[k].answer.of = k[3]
    BY <1>2, EntryOfKey DEF Present
  <2>. QED BY <1>3, <2>1 DEF Entries
<1>5. cache' = [cache EXCEPT ![k] = e]
  BY <1>2 DEF ExpireL2, CacheInv, TypeOK
<1>6. e \in Entries \cup {Absent}
      /\ (e # Absent => e.answer.by = k[2] /\ e.answer.of = k[3])
  BY <1>4
<1>7. cache' \in [Keys -> Entries \cup {Absent}] /\ OwnEntries'
  <2>. HIDE DEF k, e
  <2>. QED BY <1>2, <1>5, <1>6, WriteKeeps
<1>8. lost' \subseteq Keys
  BY DEF ExpireL2, CacheInv, TypeOK
<1>. QED BY <1>7, <1>8, FinishedAfter, WriteStep DEF ExpireL2

LEMMA ExpireL2FailsStep ==
    ASSUME CacheInv, NEW r \in Requests, ExpireL2Fails(r) PROVE CacheInv'
<1>1. req[r].at = "expire"
  BY DEF ExpireL2Fails
<1>2. Key(r, "L2") \in Keys
  BY <1>1, KeyIsKey DEF CacheInv, Levels
<1>3. lost' \subseteq Keys
  BY <1>2 DEF ExpireL2Fails, NeverExpiring, CacheInv, TypeOK
<1>4. cache' \in [Keys -> Entries \cup {Absent}] /\ OwnEntries'
  BY StaysOwned DEF ExpireL2Fails, CacheInv, TypeOK
<1>. QED BY <1>3, <1>4, FinishedAfter, WriteStep DEF ExpireL2Fails

-----------------------------------------------------------------------------
LEMMA AskingStays == ASSUME Asking, UNCHANGED req PROVE Asking'
BY DEF Asking, Asked, HasRead, SameTenant, SameQuestion, Served, YoungEnough

LEMMA PurgeSteps == ASSUME CacheInv, Purge PROVE CacheInv'
<1>1. UNCHANGED <<req, clock, arrivals>>
  BY DEF Purge, StartPurge, UnlinkBatch, UnlinkLast, PurgeStepFails
<1>2. Asking'
  BY <1>1, AskingStays DEF CacheInv
<1>3. /\ cache' \in [Keys -> Entries \cup {Absent}]
      /\ OwnEntries' /\ lost' \subseteq Keys
  <2>1. CASE UNCHANGED <<cache, lost>>
    BY <2>1, StaysOwned DEF CacheInv, TypeOK
  <2>2. CASE \E batch \in SUBSET Matching : Unlink(batch)
    BY <2>2, UnlinkKeeps
  <2>. QED BY <2>1, <2>2 DEF Purge, StartPurge, UnlinkBatch, UnlinkLast,
                            LastBatches, PurgeStepFails
<1>4. purge' \in [at : {"idle", "done"} \cup Levels, scope : SUBSET Tenants,
                  failed : BOOLEAN]
  <2>1. CASE StartPurge
    BY <2>1 DEF StartPurge, Levels
  <2>2. CASE UnlinkBatch
    BY <2>2 DEF UnlinkBatch, CacheInv, TypeOK
  <2>3. CASE UnlinkLast
    BY <2>3 DEF UnlinkLast, AfterLevel, Levels, CacheInv, TypeOK
  <2>4. CASE PurgeStepFails
    BY <2>4 DEF PurgeStepFails, AfterLevel, Levels, CacheInv, TypeOK
  <2>. QED BY <2>1, <2>2, <2>3, <2>4 DEF Purge
<1>. QED BY <1>1, <1>2, <1>3, <1>4 DEF CacheInv, TypeOK

LEMMA TickStep == ASSUME CacheInv, Tick PROVE CacheInv'
<1>1. /\ cache' \in [Keys -> Entries \cup {Absent}]
      /\ OwnEntries' /\ lost' \subseteq Keys
  BY UnlinkKeeps DEF Tick
<1>2. Asking'
  BY AskingStays DEF Tick, CacheInv
<1>3. clock' \in Nat
  BY DEF Tick, CacheInv, TypeOK
<1>. QED BY <1>1, <1>2, <1>3 DEF Tick, CacheInv, TypeOK

LEMMA CrashStep == ASSUME CacheInv, Crash PROVE CacheInv'
<1>1. req' = [r \in Requests |-> Idle]
  BY DEF Crash
<1>2. req' \in [Requests -> RequestStates]
  BY <1>1, IdleIsAState
<1>3. Asking'
  <2>1. \A r \in Requests : req'[r].at = "idle"
    BY <1>1 DEF Idle
  <2>. QED BY <2>1 DEF Asking, Asked, Served
<1>4. lost' \subseteq Keys
  <2>1. \A r \in Requests : req[r].at = "expire" => Key(r, "L2") \in Keys
    BY KeyIsKey DEF CacheInv, Levels
  <2>. QED BY <2>1 DEF Crash, NeverExpiring, CacheInv, TypeOK
<1>5. purge' \in [at : {"idle", "done"} \cup Levels, scope : SUBSET Tenants,
                  failed : BOOLEAN]
  BY DEF Crash, CacheInv, TypeOK
<1>6. OwnEntries'
  BY StaysOwned DEF Crash
<1>. QED BY <1>2, <1>3, <1>4, <1>5, <1>6 DEF Crash, CacheInv, TypeOK

LEMMA InitHolds == ASSUME Init PROVE CacheInv
<1>1. /\ req \in [Requests -> RequestStates]
      /\ \A r \in Requests : req[r].at = "idle"
  BY IdleIsAState DEF Init, Idle
<1>2. Asking
  BY <1>1 DEF Asking, Asked, Served
<1>3. cache \in [Keys -> Entries \cup {Absent}] /\ OwnEntries
  <2>1. CASE cache = Nothing
    BY <2>1 DEF Nothing, OwnEntries, Present
  <2>2. CASE cache \in Leftovers
    <3>. DEFINE e(k, ttl) ==
           [answer |-> [by |-> k[2], of |-> k[3], poor |-> FALSE],
            set |-> 1, dies |-> 1 + ttl, fresh |-> FALSE]
    <3>1. PICK old \in LeftOver :
            cache = [k \in Keys |-> IF k \in old.keys THEN e(k, old.ttl) ELSE Absent]
      BY <2>2 DEF Leftovers
    <3>2. old.ttl \in Nat
      OBVIOUS
    <3>3. ASSUME NEW k \in Keys
          PROVE  /\ e(k, old.ttl) \in Entries
                 /\ e(k, old.ttl).answer.by = k[2] /\ e(k, old.ttl).answer.of = k[3]
      BY <3>2 DEF Entries, Answers, Keys
    <3>. HIDE DEF e
    <3>. QED BY <3>1, <3>3 DEF OwnEntries, Present
  <2>. QED BY <2>1, <2>2 DEF Init
<1>4. purge \in [at : {"idle", "done"} \cup Levels, scope : SUBSET Tenants,
                 failed : BOOLEAN]
  BY DEF Init, NoPurge
<1>. QED BY <1>1, <1>2, <1>3, <1>4 DEF Init, CacheInv, TypeOK

\* The inductive invariant of the caches: an entry answers its own key's
\* question, and a request has only read what it may replay.
THEOREM CacheInvariant == Spec => []CacheInv
<1>1. Init => CacheInv
  BY InitHolds
<1>2. CacheInv /\ [Next]_vars => CacheInv'
  <2>. SUFFICES ASSUME CacheInv, [Next]_vars PROVE CacheInv'
    OBVIOUS
  <2>1. CASE \E r \in Requests : Lookup(r)
    BY <2>1, ArriveStep, GetL1Step, MissL1Step, CheckAgeStep, TooOldStep,
       SearchL2Step, MissL2Step, SkipL2Step, DropPoisonedStep DEF Lookup
  <2>2. CASE \E r \in Requests : Store(r)
    BY <2>2, StoreL1Step, NotKeptStep, StoreL2Step, StoreL2FailsStep,
       ExpireL2Step, ExpireL2FailsStep DEF Store
  <2>3. CASE Purge
    BY <2>3, PurgeSteps
  <2>4. CASE Tick
    BY <2>4, TickStep
  <2>5. CASE Crash
    BY <2>5, CrashStep
  <2>6. CASE UNCHANGED vars
    <3>1. Asking' /\ OwnEntries'
      BY <2>6, AskingStays, StaysOwned DEF vars, CacheInv
    <3>. QED BY <2>6, <3>1 DEF vars, CacheInv, TypeOK
  <2>. QED BY <2>1, <2>2, <2>3, <2>4, <2>5, <2>6 DEF Next
<1>. QED BY <1>1, <1>2, PTL DEF Spec

\* The state of the caches and of the requests has the shape the code gives it,
\* whatever the tenants, payloads and settings are.
THEOREM TypeCorrect == Spec => []TypeOK
<1>1. CacheInv => TypeOK
  BY DEF CacheInv
<1>. QED BY <1>1, CacheInvariant, PTL

\* No interleaving of requests, purges, expiries and crashes makes the proxy
\* replay another tenant's answer, another question's, an error, or one that is
\* too old for its tools (proxy.go 439-537, tool_fingerprint.go 218-274).
THEOREM ReplaysAreGenuine == Spec => []CachedAnswerIsGenuine
<1>1. CacheInv => CachedAnswerIsGenuine
  BY DEF CacheInv, Asking, Asked, HasRead, Served, CachedAnswerIsGenuine
<1>. QED BY <1>1, CacheInvariant, PTL

-----------------------------------------------------------------------------
(* The purge.                                                              *)

Walked == CASE purge.at = "L2" -> {"L1"} [] purge.at = "done" -> Levels
            [] OTHER -> {}

\* What a walk without an error has left of a level is fresh.
Purged == ~purge.failed =>
    \A k \in Keys : k[1] \in Walked /\ k[2] \in purge.scope /\ Present(k) =>
        cache[k].fresh

\* A key's entry goes, keeps its freshness, or is written now.
Aging(k) == \/ cache'[k] = Absent
            \/ Present(k) /\ cache'[k].fresh = cache[k].fresh
            \/ cache'[k].fresh = (purge.at # "idle")

LEMMA PurgedStays ==
    ASSUME Purged, \A k \in Keys : Aging(k), UNCHANGED purge
    PROVE  Purged'
BY DEF Purged, Aging, Walked, Present

LEMMA UnlinkAges ==
    ASSUME CacheInv, NEW batch, Unlink(batch) PROVE \A k \in Keys : Aging(k)
BY DEF Unlink, Aging, Present

LEMMA WriteAges ==
    ASSUME CacheInv, NEW key \in Keys, NEW answer, NEW dies,
           cache' = [cache EXCEPT ![key] = Entry(answer, dies)]
    PROVE  \A k \in Keys : Aging(k)
BY DEF CacheInv, TypeOK, Aging, Present, Entry

LEMMA SameAges == ASSUME UNCHANGED cache PROVE \A k \in Keys : Aging(k)
BY DEF Aging, Present

LEMMA LookupAges ==
    ASSUME CacheInv, NEW r \in Requests, Lookup(r)
    PROVE  (\A k \in Keys : Aging(k)) /\ UNCHANGED purge
<1>1. UNCHANGED purge
  BY DEF Lookup, Arrive, GetL1, MissL1, CheckAge, TooOld, SearchL2, MissL2, SkipL2,
         DropPoisoned
<1>2. CASE DropPoisoned(r)
  <2>1. UNCHANGED cache \/ Unlink({Key(r, "L1"), Key(r, "L2")})
    BY <1>2 DEF DropPoisoned, Unlink
  <2>. QED BY <1>1, <2>1, UnlinkAges, SameAges
<1>3. CASE ~DropPoisoned(r)
  <2>1. UNCHANGED cache
    BY <1>3 DEF Lookup, Arrive, GetL1, MissL1, CheckAge, TooOld, SearchL2, MissL2,
                SkipL2
  <2>. QED BY <1>1, <2>1, SameAges
<1>. QED BY <1>2, <1>3

LEMMA StoreAges ==
    ASSUME CacheInv, NEW r \in Requests, Store(r)
    PROVE  (\A k \in Keys : Aging(k)) /\ UNCHANGED purge
<1>1. UNCHANGED purge
  BY DEF Store, StoreL1, NotKept, StoreL2, StoreL2Fails, ExpireL2, ExpireL2Fails
<1>2. req[r].at # "idle"
  BY DEF Store, StoreL1, NotKept, StoreL2, StoreL2Fails, ExpireL2, ExpireL2Fails
<1>3. Key(r, "L1") \in Keys /\ Key(r, "L2") \in Keys
  BY <1>2, KeyIsKey DEF CacheInv, Levels
<1>4. CASE StoreL1(r)
  <2>1. \/ UNCHANGED cache
        \/ \E answer : cache' = [cache EXCEPT ![Key(r, "L1")] =
                                                Entry(answer, Death(r))]
    BY <1>4 DEF StoreL1
  <2>. QED BY <1>1, <1>3, <2>1, WriteAges, SameAges
<1>5. CASE StoreL2(r)
  <2>1. cache' = [cache EXCEPT ![Key(r, "L2")] =
                    Entry(req[r].answer, cache[Key(r, "L2")].dies)]
    BY <1>3, <1>5 DEF StoreL2, CacheInv, TypeOK
  <2>. QED BY <1>1, <1>3, <2>1, WriteAges
<1>6. CASE ExpireL2(r)
  <2>. DEFINE k == Key(r, "L2")
              e == IF cache[k] = Absent \/ req[r].ttl = 0 THEN Absent
                   ELSE [cache[k] EXCEPT !.dies = Death(r)]
  <2>1. cache' = [cache EXCEPT ![k] = e]
    BY <1>3, <1>6 DEF ExpireL2, CacheInv, TypeOK
  <2>2. e = Absent \/ (Present(k) /\ e.fresh = cache[k].fresh)
    <3>1. CASE cache[k] = Absent \/ req[r].ttl = 0
      BY <3>1
    <3>2. CASE ~(cache[k] = Absent \/ req[r].ttl = 0)
      <4>1. Present(k) /\ cache[k] \in Entries
        BY <1>3, <3>2, EntryOfKey DEF Present
      <4>. QED BY <3>2, <4>1 DEF Entries
    <3>. QED BY <3>1, <3>2
  <2>. HIDE DEF e, k
  <2>3. ASSUME NEW j \in Keys PROVE Aging(j)
    <3>1. cache' = [cache EXCEPT ![k] = e] /\ k \in Keys
      BY <1>3, <2>1 DEF k
    <3>. QED BY <2>2, <3>1 DEF Aging, Present, CacheInv, TypeOK
  <2>. QED BY <1>1, <2>3
<1>7. CASE NotKept(r) \/ StoreL2Fails(r) \/ ExpireL2Fails(r)
  BY <1>1, <1>7, SameAges DEF NotKept, StoreL2Fails, ExpireL2Fails
<1>. QED BY <1>4, <1>5, <1>6, <1>7 DEF Store

LEMMA PurgeWalks == ASSUME CacheInv, Purged, Purge PROVE Purged'
<1>1. CASE StartPurge
  BY <1>1 DEF StartPurge, Purged, Walked
<1>2. CASE UnlinkBatch
  <2>1. \A k \in Keys : Aging(k)
    BY <1>2, UnlinkAges DEF UnlinkBatch
  <2>. QED BY <1>2, <2>1, PurgedStays DEF UnlinkBatch
<1>3. CASE UnlinkLast
  <2>1. PICK batch \in SUBSET Matching :
            /\ \A k \in Matching \ batch : cache[k].fresh
            /\ cache' = [k \in Keys |-> IF k \in batch THEN Absent ELSE cache[k]]
    BY <1>3 DEF UnlinkLast, LastBatches, Unlink
  <2>2. /\ purge'.failed = purge.failed /\ purge'.scope = purge.scope
        /\ purge'.at = AfterLevel
    BY <1>3 DEF UnlinkLast, CacheInv, TypeOK
  <2>3. Walked' \subseteq Walked \cup {purge.at}
    BY <1>3, <2>2 DEF UnlinkLast, Walked, AfterLevel, Levels
  <2>4. ASSUME ~purge.failed, NEW k \in Keys, k[1] \in Walked',
               k[2] \in purge.scope, Present(k)'
        PROVE  cache'[k].fresh
    <3>1. k \notin batch /\ cache'[k] = cache[k] /\ Present(k)
      BY <2>1, <2>4 DEF Present
    <3>2. CASE k[1] \in Walked
      BY <2>4, <3>1, <3>2 DEF Purged
    <3>3. CASE k[1] = purge.at
      BY <2>1, <2>4, <3>1, <3>3 DEF Matching
    <3>. QED BY <2>3, <2>4, <3>2, <3>3
  <2>. QED BY <2>2, <2>4 DEF Purged
<1>4. CASE PurgeStepFails
  BY <1>4 DEF PurgeStepFails, Purged, CacheInv, TypeOK
<1>. QED BY <1>1, <1>2, <1>3, <1>4 DEF Purge

\* A purge that met no error has left, of the tenants it covers, only what was
\* stored since it began (purge.go 50-51, 63-105).
THEOREM PurgesForget == Spec => []PurgeForgets
<1>1. Init => Purged
  BY DEF Init, NoPurge, Purged, Walked
<1>2. CacheInv /\ Purged /\ [Next]_vars => Purged'
  <2>. SUFFICES ASSUME CacheInv, Purged, [Next]_vars PROVE Purged'
    OBVIOUS
  <2>1. CASE \E r \in Requests : Lookup(r) \/ Store(r)
    BY <2>1, LookupAges, StoreAges, PurgedStays
  <2>2. CASE Purge
    BY <2>2, PurgeWalks
  <2>3. CASE Tick
    <3>1. \A k \in Keys : Aging(k)
      BY <2>3, UnlinkAges DEF Tick
    <3>. QED BY <2>3, <3>1, PurgedStays DEF Tick
  <2>4. CASE Crash
    <3>1. CASE purge.at \in Levels
      BY <2>4, <3>1 DEF Crash, Purged, CacheInv, TypeOK
    <3>2. CASE purge.at \notin Levels
      BY <2>4, <3>2, SameAges, PurgedStays DEF Crash
    <3>. QED BY <3>1, <3>2
  <2>5. CASE UNCHANGED vars
    BY <2>5, SameAges, PurgedStays DEF vars
  <2>. QED BY <2>1, <2>2, <2>3, <2>4, <2>5 DEF Next
<1>3. Purged => PurgeForgets
  BY DEF Purged, Walked, PurgeForgets, Keys
<1>. QED BY <1>1, <1>2, <1>3, CacheInvariant, PTL DEF Spec

-----------------------------------------------------------------------------
(* Entries without a TTL.                                                  *)

\* Request s will set the TTL of k, or its loss is on record.
Excused(k) == k \in lost \/ \E s \in Requests : /\ req[s].at = "expire"
                                              /\ Key(s, "L2") = k
Timeless(k) == k[1] = "L2" /\ Present(k) /\ cache[k].dies = 0

LEMMA ExcusedMeans ==
    OnlyALostExpireStays <=> \A k \in Keys : Timeless(k) => Excused(k)
BY DEF OnlyALostExpireStays, Excused, Timeless

\* An excuse holds while its request waits and the loss is on record.
LEMMA ExcuseStays ==
    ASSUME NEW r \in Requests, NEW k \in Keys, Excused(k),
           \A s \in Requests : s # r => req'[s] = req[s],
           ~(req[r].at = "expire" /\ Key(r, "L2") = k),
           k \in lost => k \in lost'
    PROVE  Excused(k)'
BY DEF Excused, Key

LEMMA TimelessAfterUnlink ==
    ASSUME CacheInv, OnlyALostExpireStays, NEW batch, Unlink(batch),
           UNCHANGED req
    PROVE  OnlyALostExpireStays'
<1>1. ASSUME NEW k \in Keys, Timeless(k)' PROVE Excused(k)'
  <2>1. k \notin batch /\ Timeless(k)
    BY <1>1 DEF Unlink, Timeless, Present
  <2>2. Excused(k)
    BY <2>1, ExcusedMeans
  <2>. QED BY <2>1, <2>2 DEF Excused, Unlink, Key
<1>2. (\A k \in Keys : Timeless(k) => Excused(k))' => OnlyALostExpireStays'
  BY DEF OnlyALostExpireStays, Excused, Timeless
<1>. QED BY <1>1, <1>2

\* What one request does to the entries of other keys is none of their business.
LEMMA TimelessAfterStep ==
    ASSUME CacheInv, OnlyALostExpireStays, NEW r \in Requests,
           req[r].at # "expire",
           \A s \in Requests : s # r => req'[s] = req[s],
           \A k \in Keys : Timeless(k)' =>
               (Timeless(k) /\ (k \in lost => k \in lost')) \/ Excused(k)'
    PROVE  OnlyALostExpireStays'
<1>1. ASSUME NEW k \in Keys, Timeless(k)' PROVE Excused(k)'
  BY <1>1, ExcusedMeans, ExcuseStays
<1>. QED BY <1>1 DEF OnlyALostExpireStays, Excused, Timeless

LEMMA LookupExcused ==
    ASSUME CacheInv, OnlyALostExpireStays, NEW r \in Requests, Lookup(r)
    PROVE  OnlyALostExpireStays'
<1>1. \A s \in Requests : s # r => req'[s] = req[s]
  BY DEF Lookup, Arrive, GetL1, MissL1, CheckAge, TooOld, SearchL2, MissL2, SkipL2,
         DropPoisoned, Ask, Go, CacheInv, TypeOK
<1>2. req[r].at # "expire"
  BY DEF Lookup, Arrive, GetL1, MissL1, CheckAge, TooOld, SearchL2, SemanticMatch,
         MissL2, SkipL2, DropPoisoned
<1>3. UNCHANGED <<cache, lost>> \/ Unlink({Key(r, "L1"), Key(r, "L2")})
  BY DEF Lookup, Arrive, GetL1, MissL1, CheckAge, TooOld, SearchL2, MissL2, SkipL2,
         DropPoisoned, Unlink
<1>4. \A k \in Keys : Timeless(k)' => Timeless(k) /\ (k \in lost => k \in lost')
  BY <1>3 DEF Unlink, Timeless, Present
<1>. QED BY <1>1, <1>2, <1>4, TimelessAfterStep

LEMMA StoreExcused ==
    ASSUME CacheInv, OnlyALostExpireStays, NEW r \in Requests, Store(r)
    PROVE  OnlyALostExpireStays'
<1>1. \A s \in Requests : s # r => req'[s] = req[s]
  BY DEF Store, StoreL1, NotKept, StoreL2, StoreL2Fails, ExpireL2, ExpireL2Fails,
         Finish, Go, CacheInv, TypeOK
<1>2. req[r].at # "idle"
  BY DEF Store, StoreL1, NotKept, StoreL2, StoreL2Fails, ExpireL2, ExpireL2Fails
<1>3. /\ Key(r, "L1") \in Keys /\ Key(r, "L1")[1] = "L1"
      /\ Key(r, "L2") \in Keys
  BY <1>2, KeyIsKey DEF CacheInv, Levels
<1>4. CASE StoreL1(r)
  <2>1. \A k \in Keys : k[1] = "L2" => cache'[k] = cache[k]
    BY <1>3, <1>4 DEF StoreL1, CacheInv, TypeOK
  <2>2. \A k \in Keys : Timeless(k)' => Timeless(k)
    BY <2>1 DEF Timeless, Present
  <2>. QED BY <1>1, <1>4, <2>2, TimelessAfterStep DEF StoreL1
<1>5. CASE StoreL2(r)
  <2>1. \A k \in Keys : k # Key(r, "L2") => cache'[k] = cache[k]
    BY <1>3, <1>5 DEF StoreL2, CacheInv, TypeOK
  <2>2. req'[r].at = "expire" /\ Key(r, "L2")' = Key(r, "L2")
    BY <1>5 DEF StoreL2, Go, Key, CacheInv, TypeOK, RequestStates
  <2>3. Excused(Key(r, "L2"))'
    BY <2>2 DEF Excused
  <2>4. \A k \in Keys : Timeless(k)' => Timeless(k) \/ k = Key(r, "L2")
    BY <2>1 DEF Timeless, Present
  <2>. QED BY <1>1, <1>5, <2>2, <2>3, <2>4, TimelessAfterStep DEF StoreL2, Excused
<1>6. CASE NotKept(r) \/ StoreL2Fails(r)
  <2>1. \A k \in Keys : Timeless(k)' => Timeless(k)
    BY <1>6 DEF NotKept, StoreL2Fails, Timeless, Present
  <2>. QED BY <1>1, <1>6, <2>1, TimelessAfterStep DEF NotKept, StoreL2Fails
<1>7. CASE ExpireL2(r)
  <2>1. ASSUME NEW k \in Keys, Timeless(k)'
        PROVE  k # Key(r, "L2") /\ Timeless(k)
    <3>1. CASE k = Key(r, "L2")
      <4>1. cache'[k] # Absent /\ cache'[k].dies = 0
        BY <2>1 DEF Timeless, Present
      <4>2. /\ cache[k] # Absent /\ req[r].ttl # 0
            /\ cache'[k] = [cache[k] EXCEPT !.dies = Death(r)]
        BY <1>3, <1>7, <3>1, <4>1 DEF ExpireL2, CacheInv, TypeOK
      <4>3. cache[k] \in Entries
        BY <4>2, EntryOfKey DEF Present
      <4>4. clock \in Nat /\ req[r].ttl \in Nat
        BY DEF CacheInv, TypeOK, RequestStates
      <4>5. cache'[k].dies = clock + req[r].ttl
        BY <4>2, <4>3 DEF Entries, Death
      <4>. QED BY <4>1, <4>2, <4>4, <4>5
    <3>2. CASE k # Key(r, "L2")
      <4>1. cache'[k] = cache[k]
        BY <1>3, <1>7, <3>2 DEF ExpireL2, CacheInv, TypeOK
      <4>. QED BY <2>1, <3>2, <4>1 DEF Timeless, Present
    <3>. QED BY <3>1, <3>2
  <2>2. ASSUME NEW k \in Keys, Timeless(k)' PROVE Excused(k)'
    <3>1. k # Key(r, "L2") /\ Excused(k)
      BY <2>1, <2>2, ExcusedMeans
    <3>. QED BY <1>1, <1>7, <3>1, ExcuseStays DEF ExpireL2
  <2>. QED BY <2>2 DEF OnlyALostExpireStays, Excused, Timeless
<1>8. CASE ExpireL2Fails(r)
  <2>1. ASSUME NEW k \in Keys, Timeless(k)' PROVE Excused(k)'
    <3>1. Timeless(k) /\ Excused(k)
      BY <1>8, <2>1, ExcusedMeans DEF ExpireL2Fails, Timeless, Present
    <3>2. CASE k = Key(r, "L2")
      BY <1>8, <3>1, <3>2 DEF ExpireL2Fails, NeverExpiring, Timeless, Excused
    <3>3. CASE k # Key(r, "L2")
      BY <1>1, <1>8, <3>1, <3>3, ExcuseStays DEF ExpireL2Fails
    <3>. QED BY <3>2, <3>3
  <2>. QED BY <2>1 DEF OnlyALostExpireStays, Excused, Timeless
<1>. QED BY <1>4, <1>5, <1>6, <1>7, <1>8 DEF Store

LEMMA CrashExcused ==
    ASSUME CacheInv, OnlyALostExpireStays, Crash PROVE OnlyALostExpireStays'
<1>1. ASSUME NEW k \in Keys, Timeless(k)' PROVE k \in lost'
  <2>1. Timeless(k) /\ Excused(k)
    BY <1>1, ExcusedMeans DEF Crash, Timeless, Present
  <2>. QED BY <2>1 DEF Crash, Excused, NeverExpiring, Timeless
<1>. QED BY <1>1 DEF OnlyALostExpireStays, Timeless

\* No L2 entry stays for ever unless the EXPIRE that belongs to it was lost
\* (stream.go 254-255), in any interleaving of storing requests.
THEOREM EntriesExpire == Spec => []OnlyALostExpireStays
<1>1. Init => OnlyALostExpireStays
  <2>. SUFFICES ASSUME Init, NEW k \in Keys, Present(k) PROVE cache[k].dies # 0
    BY DEF OnlyALostExpireStays
  <2>1. cache # Nothing
    BY DEF Nothing, Present
  <2>2. PICK old \in LeftOver :
          cache = [j \in Keys |->
              IF j \in old.keys
              THEN [answer |-> [by |-> j[2], of |-> j[3], poor |-> FALSE],
                    set |-> 1, dies |-> 1 + old.ttl, fresh |-> FALSE]
              ELSE Absent]
    BY <2>1 DEF Init, Leftovers
  <2>3. cache[k].dies = 1 + old.ttl /\ old.ttl \in Nat
    BY <2>2 DEF Present
  <2>. QED BY <2>3
<1>2. CacheInv /\ OnlyALostExpireStays /\ [Next]_vars => OnlyALostExpireStays'
  <2>. SUFFICES ASSUME CacheInv, OnlyALostExpireStays, [Next]_vars
                PROVE  OnlyALostExpireStays'
    OBVIOUS
  <2>1. CASE \E r \in Requests : Lookup(r) \/ Store(r)
    BY <2>1, LookupExcused, StoreExcused
  <2>2. CASE Purge
    <3>1. UNCHANGED req
      BY <2>2 DEF Purge, StartPurge, UnlinkBatch, UnlinkLast, PurgeStepFails
    <3>2. CASE UNCHANGED <<cache, lost>>
      BY <3>1, <3>2 DEF OnlyALostExpireStays, Present, Key
    <3>3. CASE \E batch \in SUBSET Matching : Unlink(batch)
      BY <3>1, <3>3, TimelessAfterUnlink
    <3>. QED BY <2>2, <3>2, <3>3 DEF Purge, StartPurge, UnlinkBatch, UnlinkLast,
                                    LastBatches, PurgeStepFails
  <2>3. CASE Tick
    BY <2>3, TimelessAfterUnlink DEF Tick
  <2>4. CASE Crash
    BY <2>4, CrashExcused
  <2>5. CASE UNCHANGED vars
    BY <2>5 DEF vars, OnlyALostExpireStays, Present, Key
  <2>. QED BY <2>1, <2>2, <2>3, <2>4, <2>5 DEF Next
<1>. QED BY <1>1, <1>2, CacheInvariant, PTL DEF Spec

=============================================================================
