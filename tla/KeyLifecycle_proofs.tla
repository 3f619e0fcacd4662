-------------------------- MODULE KeyLifecycle_proofs --------------------------
(***************************************************************************)
(* Theorems about KeyLifecycle, for any requests, keys, settings and       *)
(* number of failed writes.                                                *)
(*   Roles      what a request does follows from where it is;              *)
(*   Apart      a key being created is in no other creation or deletion;   *)
(*   RowInv     which keys are accepted, compared with the rows.           *)
(***************************************************************************)
EXTENDS KeyLifecycle, TLAPS

USE ConstantsAssumption

-----------------------------------------------------------------------------
(* Hashes *)

LEMMA HashDef ==
    ASSUME NEW h
    PROVE  h \in Hashes <=> /\ h = [f \in DOMAIN h |-> h[f]]
                            /\ DOMAIN h \subseteq Fields
                            /\ \A f \in DOMAIN h : h[f] \in BOOLEAN
<1>1. ASSUME h \in Hashes
      PROVE  /\ h = [f \in DOMAIN h |-> h[f]]
             /\ DOMAIN h \subseteq Fields
             /\ \A f \in DOMAIN h : h[f] \in BOOLEAN
  <2>1. PICK S \in SUBSET Fields : h \in [S -> BOOLEAN]
    BY <1>1 DEF Hashes
  <2>. QED BY <2>1
<1>2. ASSUME h = [f \in DOMAIN h |-> h[f]],
             DOMAIN h \subseteq Fields,
             \A f \in DOMAIN h : h[f] \in BOOLEAN
      PROVE  h \in Hashes
  <2>1. h \in [DOMAIN h -> BOOLEAN]
    BY <1>2
  <2>. QED BY <1>2, <2>1 DEF Hashes
<1>. QED BY <1>1, <1>2

LEMMA MergeHash ==
    ASSUME NEW h \in Hashes, NEW g \in Hashes
    PROVE  /\ Merge(h, g) \in Hashes
           /\ DOMAIN Merge(h, g) = DOMAIN h \union DOMAIN g
           /\ \A f \in DOMAIN h : Merge(h, g)[f] = h[f]
           /\ \A f \in DOMAIN g \ DOMAIN h : Merge(h, g)[f] = g[f]
<1>1. /\ DOMAIN Merge(h, g) = DOMAIN h \union DOMAIN g
      /\ \A f \in DOMAIN h : Merge(h, g)[f] = h[f]
      /\ \A f \in DOMAIN g \ DOMAIN h : Merge(h, g)[f] = g[f]
      /\ Merge(h, g) = [f \in DOMAIN Merge(h, g) |-> Merge(h, g)[f]]
  BY DEF Merge
<1>2. DOMAIN h \subseteq Fields /\ DOMAIN g \subseteq Fields
  BY HashDef
<1>3. \A f \in DOMAIN Merge(h, g) : Merge(h, g)[f] \in BOOLEAN
  <2>1. /\ \A f \in DOMAIN h : h[f] \in BOOLEAN
        /\ \A f \in DOMAIN g : g[f] \in BOOLEAN
    BY HashDef
  <2>. QED BY <1>1, <2>1
<1>4. Merge(h, g) \in Hashes
  <2>1. DOMAIN Merge(h, g) \subseteq Fields
    BY <1>1, <1>2
  <2>. QED BY <1>1, <1>3, <2>1, HashDef
<1>. QED BY <1>1, <1>4

LEMMA MergeRow ==
    ASSUME NEW h \in Hashes, DOMAIN h \subseteq Settings, NEW g \in Row
    PROVE  /\ Merge(h, g) \in Row
           /\ \A s \in Settings :
                 Merge(h, g)[s] = IF s \in DOMAIN h THEN h[s] ELSE g[s]
<1>1. DOMAIN h \union DOMAIN g = Settings
  BY DEF Row
<1>2. \A f \in DOMAIN h : h[f] \in BOOLEAN
  BY HashDef
<1>3. Merge(h, g) = [s \in Settings |-> IF s \in DOMAIN h THEN h[s] ELSE g[s]]
  BY <1>1 DEF Merge
<1>4. \A s \in Settings : (IF s \in DOMAIN h THEN h[s] ELSE g[s]) \in BOOLEAN
  BY <1>2 DEF Row
<1>. QED BY <1>3, <1>4 DEF Row

LEMMA EmptyHash == Empty \in Hashes /\ DOMAIN Empty = {}
<1>1. Empty \in [{} -> BOOLEAN] /\ {} \in SUBSET Fields
  BY DEF Empty
<1>. QED BY <1>1 DEF Hashes, Empty

LEMMA SmallHash ==
    ASSUME NEW f \in Fields, NEW b \in BOOLEAN
    PROVE  /\ [g \in {f} |-> b] \in Hashes
           /\ DOMAIN [g \in {f} |-> b] = {f}
<1>1. [g \in {f} |-> b] \in [{f} -> BOOLEAN] /\ {f} \in SUBSET Fields
  OBVIOUS
<1>. QED BY <1>1 DEF Hashes

LEMMA SeededHash ==
    ASSUME NEW settings \in Row, NEW limit \in BOOLEAN
    PROVE  /\ Seeded(settings, limit) \in Hashes
           /\ DOMAIN Seeded(settings, limit) = Fields
           /\ "real_key" \in DOMAIN Seeded(settings, limit)
           /\ \A s \in Settings : Seeded(settings, limit)[s] = settings[s]
<1>1. Fields = Settings \union {"real_key", "limit_exceeded"}
  BY DEF Fields
<1>2. /\ DOMAIN Seeded(settings, limit) = Fields
      /\ Seeded(settings, limit) =
            [f \in DOMAIN Seeded(settings, limit) |-> Seeded(settings, limit)[f]]
  BY DEF Seeded
<1>3. \A s \in Settings : Seeded(settings, limit)[s] = settings[s]
  BY <1>1 DEF Seeded
<1>4. \A f \in Fields : Seeded(settings, limit)[f] \in BOOLEAN
  <2>1. \A s \in Settings : settings[s] \in BOOLEAN
    BY DEF Row
  <2>. QED BY <1>1, <2>1 DEF Seeded
<1>5. Seeded(settings, limit) \in Hashes
  BY <1>2, <1>4, HashDef
<1>. QED BY <1>1, <1>2, <1>3, <1>5

LEMMA DefaultsIsRow == Defaults \in Row
BY DEF Defaults, Row

\* A sync keeps every setting, or makes it a number that is not zero.
LEMMA SyncedRow ==
    ASSUME NEW settings \in Row
    PROVE  /\ Synced(settings) \in Row
           /\ \A s \in Settings :
                Synced(settings)[s] = IF s \in Numbers THEN TRUE ELSE settings[s]
<1>1. \A s \in Settings : settings[s] \in BOOLEAN
  BY DEF Row
<1>2. \A s \in Settings :
        Synced(settings)[s] = IF s \in Numbers THEN TRUE ELSE settings[s]
  BY <1>1 DEF Synced
<1>3. Synced(settings) \in [Settings -> BOOLEAN]
  BY <1>1 DEF Synced
<1>. QED BY <1>2, <1>3 DEF Row

\* The body of a PUT.
LEMMA BodyHash ==
    ASSUME NEW b \in Bodies
    PROVE  b \in Hashes /\ DOMAIN b \subseteq Settings /\ b # Empty
<1>1. PICK S \in SUBSET Settings : b \in [S -> BOOLEAN]
  BY DEF Bodies
<1>2. S \in SUBSET Fields /\ DOMAIN b = S
  BY <1>1 DEF Fields
<1>. QED BY <1>1, <1>2 DEF Hashes, Bodies

-----------------------------------------------------------------------------
(* Where the requests are *)

Roles(r) ==
    /\ pc[r] = "idle" => op[r] = "none"
    /\ pc[r] \in {"inserting", "seeding", "rollback"} => op[r] = "create"
    /\ pc[r] = "found" => op[r] \in {"put", "bench"}
    /\ pc[r] = "pushing" => op[r] \in {"put", "bench", "bootstrap", "limit"}
    /\ pc[r] \in {"deleting", "unhashing"} => op[r] = "delete"
    /\ pc[r] = "loop" => op[r] = "bench"
    /\ pc[r] = "syncing" => op[r] = "sync" /\ write[r] = Empty
    /\ pc[r] = "recreating" => op[r] = "bootstrap"

Writes(r) ==
    /\ pc[r] = "idle" => write[r] = Empty
    /\ op[r] = "create" => DOMAIN write[r] = Fields
    /\ op[r] = "bootstrap" /\ pc[r] = "pushing" => DOMAIN write[r] = Fields
    /\ op[r] = "put" => DOMAIN write[r] \subseteq Settings /\ write[r] # Empty
    /\ op[r] = "bench" => DOMAIN write[r] = {"benchmark_mode"}
    /\ op[r] = "limit" => DOMAIN write[r] = {"limit_exceeded"}

Whereabouts(r) ==
    /\ key[r] \in used
    /\ todo[r] \subseteq used
    /\ pc[r] \in {"inserting", "unhashing"} => key[r] \notin rows

\* The key r is about to insert is in no other creation and no deletion.
Apart(r, s) ==
    (/\ r # s
     /\ pc[r] = "inserting"
     /\ op[s] = "create" \/ pc[s] \in {"deleting", "unhashing"})
        => key[r] # key[s]

Role(r) == Roles(r) /\ Writes(r) /\ Whereabouts(r)

Base == /\ TypeOK
        /\ \A r \in Requests : Role(r)
        /\ \A r, s \in Requests : Apart(r, s)

\* A step of one request, seen from the others.
LEMMA OneMoves ==
    ASSUME Base, TypeOK', NEW r \in Requests,
           \A s \in Requests \ {r} : /\ pc'[s] = pc[s] /\ op'[s] = op[s]
                                     /\ key'[s] = key[s] /\ write'[s] = write[s]
                                     /\ todo'[s] = todo[s],
           used \subseteq used', Role(r)',
           \A s \in Requests \ {r} :
              pc[s] \in {"inserting", "unhashing"} => key[s] \notin rows',
           \A s \in Requests \ {r} : Apart(r, s)' /\ Apart(s, r)'
    PROVE  Base'
<1>1. ASSUME NEW s \in Requests PROVE Role(s)'
  <2>1. CASE s = r
    BY <2>1
  <2>2. CASE s # r
    <3>1. Role(s) /\ s \in Requests \ {r}
      BY <2>2 DEF Base
    <3>2. /\ pc'[s] = pc[s] /\ op'[s] = op[s] /\ key'[s] = key[s]
          /\ write'[s] = write[s] /\ todo'[s] = todo[s]
      BY <3>1
    <3>3. Roles(s)' /\ Writes(s)'
      BY <3>1, <3>2 DEF Role, Roles, Writes
    <3>4. Whereabouts(s)'
      BY <3>1, <3>2 DEF Role, Whereabouts
    <3>. QED BY <3>3, <3>4 DEF Role
  <2>. QED BY <2>1, <2>2
<1>2. ASSUME NEW s \in Requests, NEW t \in Requests PROVE Apart(s, t)'
  <2>1. CASE s = t
    BY <2>1 DEF Apart
  <2>2. CASE s # t /\ (s = r \/ t = r)
    BY <2>2
  <2>3. CASE s # r /\ t # r
    <3>1. Apart(s, t)
      BY DEF Base
    <3>. QED BY <2>3, <3>1 DEF Apart
  <2>. QED BY <2>1, <2>2, <2>3
<1>. QED BY <1>1, <1>2 DEF Base

\* A step that stays out of creations and deletions and adds no row.
LEMMA QuietMove ==
    ASSUME Base, TypeOK', NEW r \in Requests,
           \A s \in Requests \ {r} : /\ pc'[s] = pc[s] /\ op'[s] = op[s]
                                     /\ key'[s] = key[s] /\ write'[s] = write[s]
                                     /\ todo'[s] = todo[s],
           used \subseteq used', rows' \subseteq rows, Role(r)',
           pc'[r] \notin {"inserting", "deleting", "unhashing"},
           op'[r] # "create" \/ (op[r] = "create" /\ key'[r] = key[r])
    PROVE  Base'
<1>1. \A s \in Requests \ {r} :
              pc[s] \in {"inserting", "unhashing"} => key[s] \notin rows'
  BY DEF Base, Role, Whereabouts
<1>2. \A s \in Requests \ {r} : Apart(r, s)'
  BY DEF Apart
<1>3. \A s \in Requests \ {r} : Apart(s, r)'
  BY DEF Base, Apart
<1>. QED BY <1>1, <1>2, <1>3, OneMoves

LEMMA BaseInit == ASSUME Init PROVE Base
<1>1. Empty \in Hashes /\ Seeded(Defaults, FALSE) \in Hashes
      /\ Defaults \in Row
  BY EmptyHash, SeededHash, DefaultsIsRow
<1>2. TypeOK
  <2>1. /\ row \in [Keys -> Row] /\ hash \in [Keys -> Hashes]
        /\ write \in [Requests -> Hashes]
        /\ snap \in [Requests -> [Keys -> Row]]
    BY <1>1 DEF Init
  <2>2. /\ pc \in [Requests -> Places] /\ op \in [Requests -> Ops]
        /\ key \in [Requests -> Keys]
    BY DEF Init, Places, Ops
  <2>3. rows \subseteq used /\ used \subseteq Keys /\ over \in BOOLEAN
    BY DEF Init
  <2>5. todo \in [Requests -> SUBSET Keys] /\ clean \in [Requests -> SUBSET Keys]
    BY DEF Init
  <2>6. faults \in 0 .. MaxFaults
    BY DEF Init
  <2>4. /\ late \subseteq [key : Keys, fields : Hashes]
        /\ split \subseteq Keys /\ stranded \subseteq Keys
        /\ orphaned \subseteq Keys
    BY DEF Init
  <2>. QED BY <2>1, <2>2, <2>3, <2>4, <2>5, <2>6 DEF TypeOK
<1>3. \A r \in Requests : Role(r)
  BY DEF Init, Role, Roles, Writes, Whereabouts
<1>4. \A r, s \in Requests : Apart(r, s)
  BY DEF Init, Apart
<1>. QED BY <1>2, <1>3, <1>4 DEF Base

\* What Begin changes.
LEMMA BeginStep ==
    ASSUME TypeOK, NEW r \in Requests, NEW o \in Ops, NEW place \in Places,
           NEW K \in SUBSET Keys, Begin(r, o, place, K)
    PROVE  /\ pc[r] = "idle"
           /\ pc' \in [Requests -> Places] /\ pc'[r] = place
           /\ op' \in [Requests -> Ops] /\ op'[r] = o
           /\ clean' \in [Requests -> SUBSET Keys]
           /\ \A s \in Requests \ {r} : pc'[s] = pc[s] /\ op'[s] = op[s]
           /\ clean'[r] = K \ UNION {Touches(t) : t \in Requests \ {r}}
           /\ \A s \in Requests \ {r} : clean'[s] = clean[s] \ K
<1>1. /\ pc[r] = "idle" /\ pc' = [pc EXCEPT ![r] = place]
      /\ op' = [op EXCEPT ![r] = o]
      /\ clean' = [s \in Requests |->
                    IF s = r
                    THEN K \ UNION {Touches(t) : t \in Requests \ {r}}
                    ELSE clean[s] \ K]
  BY DEF Begin, Goto
<1>2. pc \in [Requests -> Places] /\ op \in [Requests -> Ops]
      /\ clean \in [Requests -> SUBSET Keys]
  BY DEF TypeOK
<1>3. clean' \in [Requests -> SUBSET Keys]
  BY <1>1, <1>2
<1>. QED BY <1>1, <1>2, <1>3

LEMMA GotoStep ==
    ASSUME TypeOK, NEW r \in Requests, NEW place \in Places, Goto(r, place)
    PROVE  /\ pc' \in [Requests -> Places] /\ pc'[r] = place
           /\ \A s \in Requests \ {r} : pc'[s] = pc[s]
BY DEF TypeOK, Goto

LEMMA HsetStep ==
    ASSUME TypeOK, NEW k \in Keys, NEW fields \in Hashes, Hset(k, fields)
    PROVE  /\ hash' \in [Keys -> Hashes]
           /\ hash'[k] = Merge(fields, hash[k])
           /\ \A c \in Keys \ {k} : hash'[c] = hash[c]
           /\ \A c \in Keys : Accepted(c)' <=>
                 Accepted(c) \/ (c = k /\ "real_key" \in DOMAIN fields)
<1>1. hash \in [Keys -> Hashes] /\ hash' = [hash EXCEPT ![k] = Merge(fields, hash[k])]
  BY DEF TypeOK, Hset
<1>2. /\ Merge(fields, hash[k]) \in Hashes
      /\ DOMAIN Merge(fields, hash[k]) = DOMAIN fields \union DOMAIN hash[k]
  BY <1>1, MergeHash
<1>3. /\ hash' \in [Keys -> Hashes]
      /\ hash'[k] = Merge(fields, hash[k])
      /\ \A c \in Keys \ {k} : hash'[c] = hash[c]
  BY <1>1, <1>2
<1>. QED BY <1>2, <1>3 DEF Accepted

LEMMA GivesUpTypes ==
    ASSUME TypeOK, NEW r \in Requests, GivesUp(r)
    PROVE  /\ late' \subseteq [key : Keys, fields : Hashes]
           /\ split' = split \union {key[r]} /\ split' \subseteq Keys
           /\ faults' \in 0 .. MaxFaults
<1>1. key[r] \in Keys /\ write[r] \in Hashes
  BY DEF TypeOK
<1>. QED BY <1>1 DEF GivesUp, Fails, TypeOK

LEMMA AgreedTypes ==
    ASSUME TypeOK, NEW r \in Requests, NEW k \in Keys, Agreed(r, k)
    PROVE  split' \subseteq Keys
BY DEF TypeOK, Agreed

-----------------------------------------------------------------------------
(* Creation *)

LEMMA CreateBeginsBase ==
    ASSUME Base, NEW r \in Requests, CreateBegins(r) PROVE Base'
<1>1. PICK k \in Keys \ used, settings \in Row :
        /\ Begin(r, "create", "inserting", {k})
        /\ key' = [key EXCEPT ![r] = k]
        /\ write' = [write EXCEPT ![r] = Seeded(settings, over)]
        /\ used' = used \union {k}
        /\ UNCHANGED <<rows, row, over, redisVars, todo, snap, faults, split,
                       stranded, orphaned>>
  BY DEF CreateBegins
<1>2. TypeOK
  BY DEF Base
<1>3. "create" \in Ops /\ "inserting" \in Places /\ {k} \in SUBSET Keys
  BY DEF Ops, Places
<1>4. /\ pc[r] = "idle"
      /\ pc' \in [Requests -> Places] /\ pc'[r] = "inserting"
      /\ op' \in [Requests -> Ops] /\ op'[r] = "create"
      /\ clean' \in [Requests -> SUBSET Keys]
      /\ \A s \in Requests \ {r} : pc'[s] = pc[s] /\ op'[s] = op[s]
  BY <1>1, <1>2, <1>3, BeginStep
<1>5. Seeded(settings, over) \in Hashes /\ DOMAIN Seeded(settings, over) = Fields
  BY <1>2, SeededHash DEF TypeOK
<1>6. TypeOK'
  BY <1>1, <1>2, <1>4, <1>5 DEF TypeOK, redisVars
<1>7. Role(r)'
  BY <1>1, <1>2, <1>4, <1>5 DEF Base, Role, Roles, Writes, Whereabouts, TypeOK
<1>8. \A s \in Requests \ {r} : key[s] # k
  BY <1>1 DEF Base, Role, Whereabouts
<1>9. /\ key'[r] = k
      /\ \A s \in Requests \ {r} : key'[s] = key[s] /\ write'[s] = write[s]
                                   /\ todo'[s] = todo[s]
  BY <1>1, <1>2 DEF TypeOK
<1>10. \A s \in Requests \ {r} : Apart(r, s)' /\ Apart(s, r)'
  BY <1>4, <1>8, <1>9 DEF Apart
<1>11. \A s \in Requests \ {r} :
          pc[s] \in {"inserting", "unhashing"} => key[s] \notin rows'
  BY <1>1 DEF Base, Role, Whereabouts
<1>12. used \subseteq used'
  BY <1>1
<1>. QED BY <1>4, <1>6, <1>7, <1>9, <1>10, <1>11, <1>12, OneMoves

\* The steps of r that change nothing of a request but pc.
LEMMA OnlyPc ==
    ASSUME Base, NEW r \in Requests, NEW place \in Places, Goto(r, place),
           UNCHANGED <<op, key, write, todo, used>>
    PROVE  /\ TypeOK /\ Role(r) /\ pc \in [Requests -> Places]
           /\ pc' \in [Requests -> Places] /\ pc'[r] = place
           /\ \A s \in Requests \ {r} : /\ pc'[s] = pc[s] /\ op'[s] = op[s]
                                        /\ key'[s] = key[s] /\ write'[s] = write[s]
                                        /\ todo'[s] = todo[s]
           /\ used \subseteq used'
BY GotoStep DEF Base, TypeOK

LEMMA CreateInsertsBase ==
    ASSUME Base, NEW r \in Requests, CreateInserts(r) PROVE Base'
<1>1. /\ pc[r] = "inserting" /\ Goto(r, "seeding")
      /\ rows' = rows \union {key[r]}
      /\ row' = [row EXCEPT ![key[r]] = [s \in Settings |-> write[r][s]]]
      /\ UNCHANGED <<redisVars, used, over, op, key, write, todo, snap, faults,
                     history>>
  BY DEF CreateInserts
<1>2. "seeding" \in Places
  BY DEF Places
<1>3. /\ TypeOK /\ Role(r) /\ pc'[r] = "seeding"
      /\ pc' \in [Requests -> Places]
      /\ \A s \in Requests \ {r} : /\ pc'[s] = pc[s] /\ op'[s] = op[s]
                                   /\ key'[s] = key[s] /\ write'[s] = write[s]
                                   /\ todo'[s] = todo[s]
      /\ used \subseteq used'
  BY <1>1, <1>2, OnlyPc
<1>4. op[r] = "create" /\ DOMAIN write[r] = Fields /\ key[r] \in used
  BY <1>1, <1>3 DEF Role, Roles, Writes, Whereabouts
<1>5. [s \in Settings |-> write[r][s]] \in Row
  <2>1. write[r] \in Hashes
    BY <1>3 DEF TypeOK
  <2>2. \A s \in Settings : write[r][s] \in BOOLEAN
    BY <1>4, <2>1, HashDef DEF Fields
  <2>. QED BY <2>2 DEF Row
<1>6. TypeOK'
  BY <1>1, <1>3, <1>4, <1>5 DEF TypeOK, redisVars, history
<1>7. Role(r)'
  BY <1>1, <1>3, <1>4 DEF Role, Roles, Writes, Whereabouts
<1>8. ASSUME NEW s \in Requests \ {r}, pc[s] \in {"inserting", "unhashing"}
      PROVE  key[s] \notin rows'
  <2>1. key[s] \notin rows
    BY <1>8 DEF Base, Role, Whereabouts
  <2>2. key[s] # key[r]
    BY <1>1, <1>4, <1>8 DEF Base, Apart
  <2>. QED BY <1>1, <2>1, <2>2
<1>9. \A s \in Requests \ {r} : Apart(r, s)' /\ Apart(s, r)'
  BY <1>1, <1>3, <1>4 DEF Base, Apart
<1>. QED BY <1>3, <1>6, <1>7, <1>8, <1>9, OneMoves

LEMMA SeedSucceedsBase ==
    ASSUME Base, NEW r \in Requests, SeedSucceeds(r) PROVE Base'
<1>1. /\ pc[r] = "seeding" /\ Goto(r, "ok") /\ Hset(key[r], write[r])
      /\ Agreed(r, key[r])
      /\ orphaned' = orphaned \union ({key[r]} \ rows)
      /\ UNCHANGED <<rows, row, used, over, op, key, write, todo, snap, late,
                     faults, clean, stranded>>
  BY DEF SeedSucceeds, dbVars
<1>2. "ok" \in Places
  BY DEF Places
<1>3. /\ TypeOK /\ Role(r) /\ pc'[r] = "ok"
      /\ pc' \in [Requests -> Places]
      /\ \A s \in Requests \ {r} : /\ pc'[s] = pc[s] /\ op'[s] = op[s]
                                   /\ key'[s] = key[s] /\ write'[s] = write[s]
                                   /\ todo'[s] = todo[s]
      /\ used \subseteq used'
  BY <1>1, <1>2, OnlyPc
<1>4. key[r] \in Keys /\ write[r] \in Hashes
  BY <1>3 DEF TypeOK
<1>5. hash' \in [Keys -> Hashes] /\ split' \subseteq Keys
  BY <1>1, <1>3, <1>4, HsetStep, AgreedTypes
<1>6. TypeOK'
  BY <1>1, <1>3, <1>4, <1>5 DEF TypeOK
<1>7. Role(r)'
  BY <1>1, <1>3 DEF Role, Roles, Writes, Whereabouts
<1>8. /\ pc'[r] \notin {"inserting", "deleting", "unhashing"}
      /\ op'[r] # "create" \/ (op[r] = "create" /\ key'[r] = key[r])
      /\ rows' \subseteq rows
  BY <1>1, <1>3
<1>. QED BY <1>3, <1>6, <1>7, <1>8, QuietMove

LEMMA SeedFailsBase ==
    ASSUME Base, NEW r \in Requests, SeedFails(r) PROVE Base'
<1>1. /\ pc[r] = "seeding" /\ Goto(r, "rollback") /\ GivesUp(r)
      /\ UNCHANGED <<rows, row, used, over, hash, op, key, write, todo, snap,
                     clean, stranded, orphaned>>
  BY DEF SeedFails, dbVars
<1>2. "rollback" \in Places
  BY DEF Places
<1>3. /\ TypeOK /\ Role(r) /\ pc'[r] = "rollback"
      /\ pc' \in [Requests -> Places]
      /\ \A s \in Requests \ {r} : /\ pc'[s] = pc[s] /\ op'[s] = op[s]
                                   /\ key'[s] = key[s] /\ write'[s] = write[s]
                                   /\ todo'[s] = todo[s]
      /\ used \subseteq used'
  BY <1>1, <1>2, OnlyPc
<1>4. TypeOK'
  BY <1>1, <1>3, GivesUpTypes DEF TypeOK
<1>5. Role(r)'
  BY <1>1, <1>3 DEF Role, Roles, Writes, Whereabouts
<1>6. /\ pc'[r] \notin {"inserting", "deleting", "unhashing"}
      /\ op'[r] # "create" \/ (op[r] = "create" /\ key'[r] = key[r])
      /\ rows' \subseteq rows
  BY <1>1, <1>3
<1>. QED BY <1>3, <1>4, <1>5, <1>6, QuietMove

LEMMA RollsBackBase ==
    ASSUME Base, NEW r \in Requests, RollsBack(r) PROVE Base'
<1>1. /\ pc[r] = "rollback" /\ Goto(r, "err")
      /\ rows' \subseteq rows
      /\ faults' \in 0 .. MaxFaults
      /\ stranded' \subseteq stranded \union {key[r]}
      /\ orphaned' \subseteq orphaned \union {key[r]}
      /\ UNCHANGED <<row, used, over, hash, late, op, key, write, todo, snap,
                     clean, split>>
  BY DEF RollsBack, Fails, redisVars, Base, TypeOK
<1>2. "err" \in Places
  BY DEF Places
<1>3. /\ TypeOK /\ Role(r) /\ pc'[r] = "err"
      /\ pc' \in [Requests -> Places]
      /\ \A s \in Requests \ {r} : /\ pc'[s] = pc[s] /\ op'[s] = op[s]
                                   /\ key'[s] = key[s] /\ write'[s] = write[s]
                                   /\ todo'[s] = todo[s]
      /\ used \subseteq used'
  BY <1>1, <1>2, OnlyPc
<1>4. TypeOK'
  BY <1>1, <1>3 DEF TypeOK
<1>5. Role(r)'
  BY <1>1, <1>3 DEF Role, Roles, Writes, Whereabouts
<1>6. /\ pc'[r] \notin {"inserting", "deleting", "unhashing"}
      /\ op'[r] # "create" \/ (op[r] = "create" /\ key'[r] = key[r])
  BY <1>1, <1>3
<1>. QED BY <1>1, <1>3, <1>4, <1>5, <1>6, QuietMove

-----------------------------------------------------------------------------
(* Updates *)

\* What every step of a request does not touch elsewhere.
OthersStay(r) ==
    \A s \in Requests \ {r} : /\ pc'[s] = pc[s] /\ op'[s] = op[s]
                              /\ key'[s] = key[s] /\ write'[s] = write[s]
                              /\ todo'[s] = todo[s]

LEMMA UpdateBeginsBase ==
    ASSUME Base, NEW r \in Requests, NEW body \in Bodies, UpdateBegins(r, body)
    PROVE  Base'
<1>1. PICK k \in rows :
        /\ Begin(r, "put", "found", {k})
        /\ key' = [key EXCEPT ![r] = k]
        /\ write' = [write EXCEPT ![r] = body]
        /\ UNCHANGED <<rows, row, used, over, hash, late, todo, snap, faults,
                       split, stranded, orphaned>>
  BY DEF UpdateBegins, dbVars, redisVars
<1>2. TypeOK /\ Role(r) /\ k \in used /\ k \in Keys
  BY DEF Base, TypeOK
<1>3. "put" \in Ops /\ "found" \in Places /\ {k} \in SUBSET Keys
  BY <1>2 DEF Ops, Places
<1>4. /\ pc' \in [Requests -> Places] /\ pc'[r] = "found"
      /\ op' \in [Requests -> Ops] /\ op'[r] = "put"
      /\ clean' \in [Requests -> SUBSET Keys]
      /\ \A s \in Requests \ {r} : pc'[s] = pc[s] /\ op'[s] = op[s]
  BY <1>1, <1>2, <1>3, BeginStep
<1>5. body \in Hashes /\ DOMAIN body \subseteq Settings /\ body # Empty
  BY BodyHash
<1>6. TypeOK'
  BY <1>1, <1>2, <1>4, <1>5 DEF TypeOK
<1>7. Role(r)'
  BY <1>1, <1>2, <1>4, <1>5 DEF Role, Roles, Writes, Whereabouts, TypeOK
<1>8. OthersStay(r)
  BY <1>1, <1>2, <1>4 DEF TypeOK, OthersStay
<1>. QED BY <1>1, <1>4, <1>6, <1>7, <1>8, QuietMove DEF OthersStay

LEMMA UpdatesRowBase ==
    ASSUME Base, NEW r \in Requests, UpdatesRow(r) PROVE Base'
<1>1. /\ pc[r] = "found"
      /\ IF key[r] \in rows
         THEN /\ row' = [row EXCEPT ![key[r]] = Merge(write[r], @)]
              /\ Goto(r, "pushing")
         ELSE Goto(r, "err") /\ UNCHANGED row
      /\ UNCHANGED <<rows, used, over, hash, late, op, key, write, todo, snap,
                     faults, clean, split, stranded, orphaned>>
  BY DEF UpdatesRow, redisVars, history
<1>2. "pushing" \in Places /\ "err" \in Places
  BY DEF Places
<1>3. /\ TypeOK /\ Role(r) /\ OthersStay(r) /\ used \subseteq used'
      /\ pc' \in [Requests -> Places]
      /\ pc'[r] = IF key[r] \in rows THEN "pushing" ELSE "err"
  <2>1. CASE key[r] \in rows
    BY <1>1, <1>2, <2>1, OnlyPc DEF OthersStay
  <2>2. CASE key[r] \notin rows
    BY <1>1, <1>2, <2>2, OnlyPc DEF OthersStay
  <2>. QED BY <2>1, <2>2
<1>4. /\ op[r] \in {"put", "bench"} /\ write[r] \in Hashes
      /\ DOMAIN write[r] \subseteq Settings
  BY <1>1, <1>3 DEF Role, Roles, Writes, TypeOK
<1>5. row' \in [Keys -> Row]
  <2>1. key[r] \in Keys /\ row \in [Keys -> Row]
    BY <1>3 DEF TypeOK
  <2>2. Merge(write[r], row[key[r]]) \in Row
    BY <1>4, <2>1, MergeRow
  <2>. QED BY <1>1, <2>1, <2>2
<1>6. TypeOK'
  BY <1>1, <1>3, <1>5 DEF TypeOK
<1>7. Role(r)'
  BY <1>1, <1>3, <1>4 DEF Role, Roles, Writes, Whereabouts
<1>8. /\ pc'[r] \notin {"inserting", "deleting", "unhashing"}
      /\ op'[r] # "create" /\ rows' \subseteq rows
  BY <1>1, <1>3, <1>4
<1>. QED BY <1>3, <1>6, <1>7, <1>8, QuietMove DEF OthersStay

LEMMA PushesBase ==
    ASSUME Base, NEW r \in Requests, Pushes(r) PROVE Base'
<1>. DEFINE place == IF op[r] = "bench" THEN "loop" ELSE "ok"
<1>1. /\ pc[r] = "pushing" /\ Goto(r, place) /\ Hset(key[r], write[r])
      /\ UNCHANGED split \/ Agreed(r, key[r])
      /\ orphaned' = IF "real_key" \in DOMAIN write[r]
                     THEN orphaned \union ({key[r]} \ rows) ELSE orphaned
      /\ UNCHANGED <<rows, row, used, over, op, key, write, todo, snap, late,
                     faults, clean, stranded>>
  BY DEF Pushes, dbVars
<1>2. place \in Places
  BY DEF Places
<1>3. /\ TypeOK /\ Role(r) /\ OthersStay(r) /\ used \subseteq used'
      /\ pc' \in [Requests -> Places] /\ pc'[r] = place
  BY <1>1, <1>2, OnlyPc DEF OthersStay
<1>4. key[r] \in Keys /\ write[r] \in Hashes
  BY <1>3 DEF TypeOK
<1>5. hash' \in [Keys -> Hashes]
  BY <1>1, <1>3, <1>4, HsetStep
<1>6. split' \subseteq Keys
  BY <1>1, <1>3, <1>4, AgreedTypes DEF TypeOK
<1>7. TypeOK'
  BY <1>1, <1>3, <1>4, <1>5, <1>6 DEF TypeOK
<1>8. Role(r)'
  BY <1>1, <1>3 DEF Role, Roles, Writes, Whereabouts
<1>9. /\ pc'[r] \notin {"inserting", "deleting", "unhashing"}
      /\ op'[r] # "create" /\ rows' \subseteq rows
  BY <1>1, <1>3 DEF Role, Roles
<1>. QED BY <1>3, <1>7, <1>8, <1>9, QuietMove DEF OthersStay

LEMMA PushFailsBase ==
    ASSUME Base, NEW r \in Requests, PushFails(r) PROVE Base'
<1>1. /\ pc[r] = "pushing" /\ Goto(r, "err") /\ GivesUp(r)
      /\ stranded' \subseteq stranded \union {key[r]}
      /\ UNCHANGED <<rows, row, used, over, hash, op, key, write, todo, snap,
                     clean, orphaned>>
  BY DEF PushFails, dbVars
<1>2. "err" \in Places
  BY DEF Places
<1>3. /\ TypeOK /\ Role(r) /\ OthersStay(r) /\ used \subseteq used'
      /\ pc' \in [Requests -> Places] /\ pc'[r] = "err"
  BY <1>1, <1>2, OnlyPc DEF OthersStay
<1>4. TypeOK'
  BY <1>1, <1>3, GivesUpTypes DEF TypeOK
<1>5. Role(r)'
  BY <1>1, <1>3 DEF Role, Roles, Writes, Whereabouts
<1>6. /\ pc'[r] \notin {"inserting", "deleting", "unhashing"}
      /\ op'[r] # "create" /\ rows' \subseteq rows
  BY <1>1, <1>3 DEF Role, Roles
<1>. QED BY <1>3, <1>4, <1>5, <1>6, QuietMove DEF OthersStay

LEMMA BenchmarkBeginsBase ==
    ASSUME Base, NEW r \in Requests, BenchmarkBegins(r) PROVE Base'
<1>1. PICK on \in BOOLEAN, K \in SUBSET used :
        /\ Begin(r, "bench", "loop", K)
        /\ todo' = [todo EXCEPT ![r] = K]
        /\ write' = [write EXCEPT ![r] = [f \in {"benchmark_mode"} |-> on]]
        /\ UNCHANGED <<rows, row, used, over, hash, late, key, snap, faults,
                       split, stranded, orphaned>>
  <2>1. PICK on \in BOOLEAN, keyIds \in SUBSET used :
          LET K == IF on THEN {k \in rows : ~row[k]["benchmark_mode"]} ELSE keyIds
          IN  /\ Begin(r, "bench", "loop", K)
              /\ todo' = [todo EXCEPT ![r] = K]
              /\ write' = [write EXCEPT ![r] = [f \in {"benchmark_mode"} |-> on]]
              /\ UNCHANGED <<dbVars, redisVars, key, snap, faults, split,
                             stranded, orphaned>>
    BY DEF BenchmarkBegins
  <2>. DEFINE K == IF on THEN {k \in rows : ~row[k]["benchmark_mode"]} ELSE keyIds
  <2>2. rows \subseteq used
    BY DEF Base, TypeOK
  <2>3. K \in SUBSET used
    BY <2>2
  <2>4. /\ Begin(r, "bench", "loop", K)
        /\ todo' = [todo EXCEPT ![r] = K]
        /\ write' = [write EXCEPT ![r] = [f \in {"benchmark_mode"} |-> on]]
        /\ UNCHANGED <<rows, row, used, over, hash, late, key, snap, faults,
                       split, stranded, orphaned>>
    BY <2>1 DEF dbVars, redisVars
  <2>. HIDE DEF K
  <2>. QED BY <2>3, <2>4
<1>2. TypeOK /\ Role(r) /\ K \in SUBSET Keys
  BY DEF Base, TypeOK
<1>3. "bench" \in Ops /\ "loop" \in Places
  BY DEF Ops, Places
<1>4. /\ pc' \in [Requests -> Places] /\ pc'[r] = "loop"
      /\ op' \in [Requests -> Ops] /\ op'[r] = "bench"
      /\ clean' \in [Requests -> SUBSET Keys]
      /\ \A s \in Requests \ {r} : pc'[s] = pc[s] /\ op'[s] = op[s]
  BY <1>1, <1>2, <1>3, BeginStep
<1>. DEFINE flip == [f \in {"benchmark_mode"} |-> on]
<1>5. flip \in Hashes /\ DOMAIN flip = {"benchmark_mode"}
  BY SmallHash DEF Fields
<1>. HIDE DEF flip
<1>6. write' = [write EXCEPT ![r] = flip]
  BY <1>1 DEF flip
<1>7. TypeOK'
  BY <1>1, <1>2, <1>4, <1>5, <1>6 DEF TypeOK
<1>8. Role(r)'
  BY <1>1, <1>2, <1>4, <1>5, <1>6 DEF Role, Roles, Writes, Whereabouts, TypeOK
<1>9. OthersStay(r)
  BY <1>1, <1>2, <1>4, <1>6 DEF TypeOK, OthersStay
<1>. QED BY <1>1, <1>4, <1>7, <1>8, <1>9, QuietMove DEF OthersStay

LEMMA BenchmarkNextBase ==
    ASSUME Base, NEW r \in Requests, BenchmarkNext(r) PROVE Base'
<1>1. /\ pc[r] = "loop" /\ TypeOK /\ Role(r)
      /\ UNCHANGED <<rows, row, used, over, hash, late, op, write, snap, faults,
                     clean, split, stranded, orphaned>>
  BY DEF BenchmarkNext, dbVars, redisVars, history, Base
<1>2. PICK place \in {"ok", "found", "loop"} :
        /\ Goto(r, place)
        /\ \/ UNCHANGED <<key, todo>>
           \/ \E k \in todo[r] : /\ key' = [key EXCEPT ![r] = k]
                                 /\ todo' = [todo EXCEPT ![r] = @ \ {k}]
  BY DEF BenchmarkNext
<1>3. /\ pc' \in [Requests -> Places] /\ pc'[r] = place
      /\ \A s \in Requests \ {r} : pc'[s] = pc[s]
  BY <1>1, <1>2, GotoStep DEF Places
<1>4. /\ key' \in [Requests -> Keys] /\ todo' \in [Requests -> SUBSET Keys]
      /\ key'[r] \in used /\ todo'[r] \subseteq used
      /\ \A s \in Requests \ {r} : key'[s] = key[s] /\ todo'[s] = todo[s]
  <2>1. /\ key \in [Requests -> Keys] /\ todo \in [Requests -> SUBSET Keys]
        /\ key[r] \in used /\ todo[r] \subseteq used
    BY <1>1 DEF TypeOK, Role, Whereabouts
  <2>2. CASE UNCHANGED <<key, todo>>
    BY <2>1, <2>2
  <2>3. ASSUME NEW k \in todo[r], key' = [key EXCEPT ![r] = k],
               todo' = [todo EXCEPT ![r] = @ \ {k}]
        PROVE  /\ key' \in [Requests -> Keys] /\ todo' \in [Requests -> SUBSET Keys]
               /\ key'[r] \in used /\ todo'[r] \subseteq used
               /\ \A s \in Requests \ {r} : key'[s] = key[s] /\ todo'[s] = todo[s]
    <3>1. k \in used /\ used \subseteq Keys
      BY <1>1, <2>1 DEF TypeOK
    <3>. QED BY <2>1, <2>3, <3>1
  <2>. QED BY <1>2, <2>2, <2>3
<1>5. TypeOK'
  BY <1>1, <1>3, <1>4 DEF TypeOK
<1>6. Role(r)'
  BY <1>1, <1>3, <1>4 DEF Role, Roles, Writes, Whereabouts
<1>7. op[r] = "bench"
  BY <1>1 DEF Role, Roles
<1>8. OthersStay(r)
  BY <1>1, <1>3, <1>4 DEF OthersStay
<1>. QED BY <1>1, <1>3, <1>5, <1>6, <1>7, <1>8, QuietMove DEF OthersStay

-----------------------------------------------------------------------------
(* Deletion, the sync scripts, the bootstrap script and the worker *)

LEMMA DeleteBeginsBase ==
    ASSUME Base, NEW r \in Requests, DeleteBegins(r) PROVE Base'
<1>1. PICK k \in rows :
        /\ Begin(r, "delete", "deleting", {k})
        /\ key' = [key EXCEPT ![r] = k]
        /\ UNCHANGED <<rows, row, used, over, hash, late, write, todo, snap,
                       faults, split, stranded, orphaned>>
  BY DEF DeleteBegins, dbVars, redisVars
<1>2. TypeOK /\ Role(r) /\ k \in used /\ k \in Keys
  BY DEF Base, TypeOK
<1>3. "delete" \in Ops /\ "deleting" \in Places /\ {k} \in SUBSET Keys
  BY <1>2 DEF Ops, Places
<1>4. /\ pc' \in [Requests -> Places] /\ pc'[r] = "deleting"
      /\ op' \in [Requests -> Ops] /\ op'[r] = "delete"
      /\ clean' \in [Requests -> SUBSET Keys]
      /\ \A s \in Requests \ {r} : pc'[s] = pc[s] /\ op'[s] = op[s]
  BY <1>1, <1>2, <1>3, BeginStep
<1>5. TypeOK'
  BY <1>1, <1>2, <1>4 DEF TypeOK
<1>6. Role(r)'
  BY <1>1, <1>2, <1>4 DEF Role, Roles, Writes, Whereabouts, TypeOK
<1>7. OthersStay(r) /\ key'[r] = k
  BY <1>1, <1>2, <1>4 DEF TypeOK, OthersStay
<1>8. ASSUME NEW s \in Requests \ {r}, pc[s] \in {"inserting", "unhashing"}
      PROVE  key[s] \notin rows' /\ key[s] # k
  BY <1>1, <1>8 DEF Base, Role, Whereabouts
<1>9. \A s \in Requests \ {r} : Apart(r, s)' /\ Apart(s, r)'
  BY <1>4, <1>7, <1>8 DEF Apart, OthersStay
<1>. QED BY <1>1, <1>5, <1>6, <1>7, <1>8, <1>9, OneMoves DEF OthersStay

LEMMA DeletesRowBase ==
    ASSUME Base, NEW r \in Requests, DeletesRow(r) PROVE Base'
<1>. DEFINE place == IF key[r] \in rows THEN "unhashing" ELSE "err"
<1>1. /\ pc[r] = "deleting" /\ rows' = rows \ {key[r]} /\ Goto(r, place)
      /\ UNCHANGED <<row, used, over, hash, late, op, key, write, todo, snap,
                     faults, clean, split, stranded, orphaned>>
  BY DEF DeletesRow, redisVars, history
<1>2. place \in Places
  BY DEF Places
<1>3. /\ TypeOK /\ Role(r) /\ OthersStay(r) /\ used \subseteq used'
      /\ pc' \in [Requests -> Places] /\ pc'[r] = place
  BY <1>1, <1>2, OnlyPc DEF OthersStay
<1>4. TypeOK'
  BY <1>1, <1>3 DEF TypeOK
<1>5. Role(r)'
  BY <1>1, <1>3 DEF Role, Roles, Writes, Whereabouts
<1>6. \A s \in Requests \ {r} :
          pc[s] \in {"inserting", "unhashing"} => key[s] \notin rows'
  BY <1>1 DEF Base, Role, Whereabouts
<1>7. \A s \in Requests \ {r} : Apart(r, s)' /\ Apart(s, r)'
  BY <1>1, <1>3 DEF Base, Apart, OthersStay
<1>. QED BY <1>3, <1>4, <1>5, <1>6, <1>7, OneMoves DEF OthersStay

LEMMA DeletesHashBase ==
    ASSUME Base, NEW r \in Requests, DeletesHash(r) \/ DeleteHashFails(r)
    PROVE  Base'
<1>1. PICK place \in {"ok", "err"} :
        /\ pc[r] = "unhashing" /\ Goto(r, place)
        /\ UNCHANGED hash \/ hash' = [hash EXCEPT ![key[r]] = Empty]
        /\ faults' \in 0 .. MaxFaults
        /\ orphaned' \subseteq orphaned \union {key[r]}
        /\ UNCHANGED <<rows, row, used, over, late, op, key, write, todo, snap,
                       clean, split, stranded>>
  BY DEF DeletesHash, DeleteHashFails, Fails, dbVars, redisVars, history, Base,
         TypeOK
<1>2. place \in Places
  BY DEF Places
<1>3. /\ TypeOK /\ Role(r) /\ OthersStay(r) /\ used \subseteq used'
      /\ pc' \in [Requests -> Places] /\ pc'[r] = place
  BY <1>1, <1>2, OnlyPc DEF OthersStay
<1>4. hash' \in [Keys -> Hashes]
  BY <1>1, <1>3, EmptyHash DEF TypeOK
<1>5. TypeOK'
  BY <1>1, <1>3, <1>4 DEF TypeOK
<1>6. Role(r)'
  BY <1>1, <1>3 DEF Role, Roles, Writes, Whereabouts
<1>7. op'[r] # "create" /\ pc'[r] \notin {"inserting", "deleting", "unhashing"}
      /\ rows' \subseteq rows
  BY <1>1, <1>3 DEF Role, Roles
<1>. QED BY <1>3, <1>5, <1>6, <1>7, QuietMove DEF OthersStay

LEMMA SyncBeginsBase ==
    ASSUME Base, NEW r \in Requests, SyncBegins(r) PROVE Base'
<1>1. /\ Begin(r, "sync", "syncing", rows)
      /\ todo' = [todo EXCEPT ![r] = rows]
      /\ snap' = [snap EXCEPT ![r] = row]
      /\ UNCHANGED <<rows, row, used, over, hash, late, key, write, faults,
                     split, stranded, orphaned>>
  BY DEF SyncBegins, dbVars, redisVars
<1>2. TypeOK /\ Role(r) /\ rows \in SUBSET Keys
  BY DEF Base, TypeOK
<1>3. "sync" \in Ops /\ "syncing" \in Places
  BY DEF Ops, Places
<1>4. /\ pc[r] = "idle"
      /\ pc' \in [Requests -> Places] /\ pc'[r] = "syncing"
      /\ op' \in [Requests -> Ops] /\ op'[r] = "sync"
      /\ clean' \in [Requests -> SUBSET Keys]
      /\ \A s \in Requests \ {r} : pc'[s] = pc[s] /\ op'[s] = op[s]
  BY <1>1, <1>2, <1>3, BeginStep
<1>5. TypeOK'
  BY <1>1, <1>2, <1>4 DEF TypeOK
<1>6. Role(r)'
  BY <1>1, <1>2, <1>4 DEF Role, Roles, Writes, Whereabouts, TypeOK
<1>7. OthersStay(r)
  BY <1>1, <1>2, <1>4 DEF TypeOK, OthersStay
<1>. QED BY <1>1, <1>4, <1>5, <1>6, <1>7, QuietMove DEF OthersStay

LEMMA SyncsKeyBase ==
    ASSUME Base, NEW r \in Requests, SyncsKey(r) PROVE Base'
<1>1. PICK k \in todo[r] :
        /\ pc[r] = "syncing"
        /\ Hset(k, Seeded(Synced(snap[r][k]), FALSE))
        /\ todo' = [todo EXCEPT ![r] = @ \ {k}]
        /\ Agreed(r, k)
        /\ orphaned' = orphaned \union ({k} \ rows)
        /\ UNCHANGED <<rows, row, used, over, pc, op, key, write, snap, late,
                       faults, clean, stranded>>
  BY DEF SyncsKey, dbVars
<1>2. TypeOK /\ Role(r) /\ k \in Keys /\ snap[r][k] \in Row
  BY DEF Base, TypeOK
<1>3. Seeded(Synced(snap[r][k]), FALSE) \in Hashes
  BY <1>2, SyncedRow, SeededHash
<1>4. hash' \in [Keys -> Hashes] /\ split' \subseteq Keys
  BY <1>1, <1>2, <1>3, HsetStep, AgreedTypes
<1>5. TypeOK'
  BY <1>1, <1>2, <1>4 DEF TypeOK
<1>6. todo'[r] \subseteq todo[r] /\ OthersStay(r)
  BY <1>1, <1>2 DEF TypeOK, OthersStay
<1>7. Role(r)'
  BY <1>1, <1>2, <1>6 DEF Role, Roles, Writes, Whereabouts
<1>8. op'[r] # "create" /\ pc'[r] \notin {"inserting", "deleting", "unhashing"}
      /\ rows' \subseteq rows /\ used \subseteq used'
  BY <1>1, <1>2 DEF Role, Roles
<1>. QED BY <1>5, <1>6, <1>7, <1>8, QuietMove DEF OthersStay

LEMMA SyncEndsBase ==
    ASSUME Base, NEW r \in Requests, SyncEnds(r) PROVE Base'
<1>1. PICK place \in {"ok", "err"} :
        /\ pc[r] = "syncing" /\ Goto(r, place)
        /\ UNCHANGED todo \/ todo' = [todo EXCEPT ![r] = {}]
        /\ faults' \in 0 .. MaxFaults
        /\ UNCHANGED <<rows, row, used, over, hash, late, op, key, write, snap,
                       clean, split, stranded, orphaned>>
  BY DEF SyncEnds, Fails, dbVars, redisVars, history, Base, TypeOK
<1>2. /\ TypeOK /\ Role(r) /\ pc' \in [Requests -> Places] /\ pc'[r] = place
      /\ \A s \in Requests \ {r} : pc'[s] = pc[s]
  BY <1>1, GotoStep DEF Base, Places
<1>3. /\ todo' \in [Requests -> SUBSET Keys] /\ todo'[r] \subseteq used
      /\ \A s \in Requests \ {r} : todo'[s] = todo[s]
  BY <1>1, <1>2 DEF TypeOK, Role, Whereabouts
<1>4. TypeOK'
  BY <1>1, <1>2, <1>3 DEF TypeOK
<1>5. Role(r)'
  BY <1>1, <1>2, <1>3 DEF Role, Roles, Writes, Whereabouts
<1>6. op'[r] # "create" /\ pc'[r] \notin {"inserting", "deleting", "unhashing"}
      /\ rows' \subseteq rows /\ used \subseteq used' /\ OthersStay(r)
  BY <1>1, <1>2, <1>3 DEF Role, Roles, OthersStay
<1>. QED BY <1>4, <1>5, <1>6, QuietMove DEF OthersStay

LEMMA BootstrapWipesBase ==
    ASSUME Base, NEW r \in Requests, BootstrapWipes(r) PROVE Base'
<1>1. /\ Begin(r, "bootstrap", "recreating", rows)
      /\ rows' = {}
      /\ orphaned' \subseteq orphaned \union rows
      /\ UNCHANGED <<row, used, over, hash, late, key, write, todo, snap,
                     faults, split, stranded>>
  BY DEF BootstrapWipes, redisVars
<1>2. TypeOK /\ Role(r) /\ rows \in SUBSET Keys
  BY DEF Base, TypeOK
<1>3. "bootstrap" \in Ops /\ "recreating" \in Places
  BY DEF Ops, Places
<1>4. /\ pc[r] = "idle"
      /\ pc' \in [Requests -> Places] /\ pc'[r] = "recreating"
      /\ op' \in [Requests -> Ops] /\ op'[r] = "bootstrap"
      /\ clean' \in [Requests -> SUBSET Keys]
      /\ \A s \in Requests \ {r} : pc'[s] = pc[s] /\ op'[s] = op[s]
  BY <1>1, <1>2, <1>3, BeginStep
<1>5. TypeOK'
  BY <1>1, <1>2, <1>4 DEF TypeOK
<1>6. Role(r)'
  BY <1>1, <1>2, <1>4 DEF Role, Roles, Writes, Whereabouts
<1>7. OthersStay(r)
  BY <1>1, <1>4 DEF OthersStay
<1>8. used \subseteq used' /\ rows' \subseteq rows
  BY <1>1
<1>. QED BY <1>4, <1>5, <1>6, <1>7, <1>8, QuietMove DEF OthersStay

LEMMA BootstrapCreatesBase ==
    ASSUME Base, NEW r \in Requests, BootstrapCreates(r) PROVE Base'
<1>1. PICK k \in Keys \ used :
        /\ pc[r] = "recreating" /\ Goto(r, "pushing")
        /\ rows' = rows \union {k}
        /\ row' = [row EXCEPT ![k] = Defaults]
        /\ used' = used \union {k}
        /\ key' = [key EXCEPT ![r] = k]
        /\ write' = [write EXCEPT ![r] = Seeded(Defaults, FALSE)]
        /\ clean' = [clean EXCEPT ![r] = {k}]
        /\ UNCHANGED <<over, hash, late, op, todo, snap, faults, split,
                       stranded, orphaned>>
  BY DEF BootstrapCreates, redisVars
<1>2. /\ TypeOK /\ Role(r)
      /\ pc' \in [Requests -> Places] /\ pc'[r] = "pushing"
      /\ \A s \in Requests \ {r} : pc'[s] = pc[s]
  BY <1>1, GotoStep DEF Base, Places
<1>3. /\ Seeded(Defaults, FALSE) \in Hashes /\ Defaults \in Row
      /\ DOMAIN Seeded(Defaults, FALSE) = Fields
  BY SeededHash, DefaultsIsRow
<1>4. TypeOK'
  BY <1>1, <1>2, <1>3 DEF TypeOK
<1>5. op[r] = "bootstrap" /\ write'[r] = Seeded(Defaults, FALSE) /\ key'[r] = k
  BY <1>1, <1>2 DEF Role, Roles, TypeOK
<1>6. Role(r)'
  <2>1. DOMAIN write'[r] = Fields
    BY <1>3, <1>5
  <2>2. /\ op'[r] = "bootstrap" /\ pc'[r] = "pushing"
        /\ key'[r] \in used' /\ todo'[r] \subseteq used'
    BY <1>1, <1>2, <1>5 DEF Role, Whereabouts
  <2>. QED BY <2>1, <2>2 DEF Role, Roles, Writes, Whereabouts
<1>7. OthersStay(r)
  BY <1>1, <1>2 DEF TypeOK, OthersStay
<1>8. \A s \in Requests \ {r} :
          pc[s] \in {"inserting", "unhashing"} => key[s] \notin rows'
  BY <1>1 DEF Base, Role, Whereabouts
<1>9. \A s \in Requests \ {r} : Apart(r, s)' /\ Apart(s, r)'
  BY <1>1, <1>2, <1>5 DEF Apart, OthersStay
<1>10. used \subseteq used'
  BY <1>1
<1>. QED BY <1>4, <1>6, <1>7, <1>8, <1>9, <1>10, OneMoves DEF OthersStay

LEMMA LimitBeginsBase ==
    ASSUME Base, NEW r \in Requests, LimitBegins(r) PROVE Base'
<1>1. PICK k \in rows, exceeded \in {over, TRUE} :
        /\ Begin(r, "limit", "pushing", {})
        /\ over' = exceeded
        /\ key' = [key EXCEPT ![r] = k]
        /\ write' = [write EXCEPT ![r] = [f \in {"limit_exceeded"} |-> exceeded]]
        /\ UNCHANGED <<rows, row, used, hash, late, todo, snap, faults, split,
                       stranded, orphaned>>
  BY DEF LimitBegins, redisVars
<1>2. TypeOK /\ Role(r) /\ k \in used /\ k \in Keys /\ exceeded \in BOOLEAN
  BY DEF Base, TypeOK
<1>3. "limit" \in Ops /\ "pushing" \in Places /\ {} \in SUBSET Keys
  BY DEF Ops, Places
<1>4. /\ pc' \in [Requests -> Places] /\ pc'[r] = "pushing"
      /\ op' \in [Requests -> Ops] /\ op'[r] = "limit"
      /\ clean' \in [Requests -> SUBSET Keys]
      /\ \A s \in Requests \ {r} : pc'[s] = pc[s] /\ op'[s] = op[s]
  BY <1>1, <1>2, <1>3, BeginStep
<1>. DEFINE flag == [f \in {"limit_exceeded"} |-> exceeded]
<1>5. flag \in Hashes /\ DOMAIN flag = {"limit_exceeded"}
  BY <1>2, SmallHash DEF Fields
<1>. HIDE DEF flag
<1>6. write' = [write EXCEPT ![r] = flag]
  BY <1>1 DEF flag
<1>7. TypeOK'
  BY <1>1, <1>2, <1>4, <1>5, <1>6 DEF TypeOK
<1>8. Role(r)'
  <2>1. write'[r] = flag /\ key'[r] = k /\ todo'[r] = todo[r]
    BY <1>1, <1>2, <1>6 DEF TypeOK
  <2>. QED BY <1>1, <1>2, <1>4, <1>5, <2>1 DEF Role, Roles, Writes, Whereabouts
<1>9. OthersStay(r)
  BY <1>1, <1>2, <1>4, <1>6 DEF TypeOK, OthersStay
<1>. QED BY <1>1, <1>4, <1>7, <1>8, <1>9, QuietMove DEF OthersStay

\* Redis executes or drops a late command.
LEMMA LateBase ==
    ASSUME Base, NEW w \in late, LateLands(w) \/ LateIsLost(w) PROVE Base'
<1>1. /\ TypeOK /\ w.key \in Keys /\ w.fields \in Hashes
      /\ UNCHANGED <<rows, row, used, over, pc, op, key, write, todo, snap,
                     faults, clean, stranded>>
      /\ late' \subseteq late
      /\ split' \subseteq split \union {w.key}
      /\ orphaned' \subseteq orphaned \union {w.key}
      /\ UNCHANGED hash \/ Hset(w.key, w.fields)
  BY DEF LateLands, LateIsLost, dbVars, history, Base, TypeOK
<1>2. hash' \in [Keys -> Hashes]
  BY <1>1, HsetStep DEF TypeOK
<1>3. TypeOK'
  BY <1>1, <1>2 DEF TypeOK
<1>4. \A r \in Requests : Role(r)'
  BY <1>1 DEF Base, Role, Roles, Writes, Whereabouts
<1>5. \A r, s \in Requests : Apart(r, s)'
  BY <1>1 DEF Base, Apart
<1>. QED BY <1>3, <1>4, <1>5 DEF Base

\* Types and roles, for every value of the constants.
THEOREM BaseInvariant == Spec => []Base
<1>1. Base /\ [Next]_vars => Base'
  <2>. SUFFICES ASSUME Base, [Next]_vars PROVE Base'
    OBVIOUS
  <2>1. ASSUME NEW r \in Requests, Handle(r) PROVE Base'
    BY <2>1, CreateBeginsBase, CreateInsertsBase, SeedSucceedsBase,
       SeedFailsBase, RollsBackBase, UpdateBeginsBase, UpdatesRowBase,
       PushesBase, PushFailsBase, BenchmarkBeginsBase, BenchmarkNextBase,
       DeleteBeginsBase, DeletesRowBase, DeletesHashBase, SyncBeginsBase,
       SyncsKeyBase, SyncEndsBase, BootstrapWipesBase, BootstrapCreatesBase,
       LimitBeginsBase DEF Handle
  <2>2. CASE UNCHANGED vars
    BY <2>2 DEF vars, Base, TypeOK, Role, Roles, Writes, Whereabouts, Apart
  <2>. QED BY <2>1, <2>2, LateBase DEF Next
<1>. QED BY <1>1, BaseInit, PTL DEF Spec

\* The type invariant of the key lifecycle.
THEOREM TypeCorrect == Spec => []TypeOK
BY BaseInvariant, PTL DEF Base

-----------------------------------------------------------------------------
(* Rows and hashes *)

\* Request r is what makes a key without a hash excusable, or one without a row.
Makes(r, k) == /\ op[r] \in {"create", "bootstrap"} /\ key[r] = k
               /\ pc[r] \in {"seeding", "rollback", "pushing"}
Unmakes(r, k) == pc[r] = "unhashing" /\ key[r] = k

RowInv == EveryRowIsUsable /\ NoKeyWithoutRow /\ RefusedCreationIsUndone

\* A step of r that takes no row and no hash away, and excuses what it leaves.
LEMMA RowInvStays ==
    ASSUME Base, RowInv, NEW r \in Requests,
           \A s \in Requests \ {r} : pc'[s] = pc[s] /\ op'[s] = op[s] /\ key'[s] = key[s],
           stranded \subseteq stranded', orphaned \subseteq orphaned',
           \A k \in rows' : Accepted(k)' \/ k \in stranded' \/ Makes(r, k)'
                            \/ (k \in rows /\ ~Makes(r, k) /\ (Accepted(k) => Accepted(k)')),
           \A k \in Keys \ rows' : Accepted(k)' =>
              k \in orphaned' \/ Unmakes(r, k)'
              \/ (k \notin rows /\ Accepted(k) /\ ~Unmakes(r, k)),
           op'[r] = "create" /\ pc'[r] = "err" /\ key'[r] \in rows' => key'[r] \in stranded',
           \A s \in Requests \ {r} : op[s] = "create" /\ pc[s] = "err" /\ key[s] \in rows'
              => key[s] \in rows
    PROVE  RowInv'
<1>1. EveryRowIsUsable'
  <2>. SUFFICES ASSUME NEW k \in rows' PROVE (Accepted(k) \/ Creating(k) \/ k \in stranded)'
    BY DEF EveryRowIsUsable
  <2>1. CASE Accepted(k)' \/ k \in stranded'
    BY <2>1
  <2>2. CASE Makes(r, k)'
    BY <2>2 DEF Makes, Creating
  <2>3. CASE k \in rows /\ ~Makes(r, k) /\ (Accepted(k) => Accepted(k)')
    <3>1. Accepted(k) \/ Creating(k) \/ k \in stranded
      BY <2>3 DEF RowInv, EveryRowIsUsable
    <3>2. ASSUME Creating(k) PROVE Creating(k)'
      <4>1. PICK s \in Requests : Makes(s, k)
        BY <3>2 DEF Creating, Makes
      <4>2. s # r
        BY <2>3, <4>1
      <4>. QED BY <4>1, <4>2 DEF Creating, Makes
    <3>. QED BY <2>3, <3>1, <3>2
  <2>. QED BY <2>1, <2>2, <2>3
<1>2. NoKeyWithoutRow'
  <2>. SUFFICES ASSUME NEW k \in Keys \ rows', Accepted(k)'
                PROVE  k \in orphaned' \/ \E s \in Requests : Unmakes(s, k)'
    BY DEF NoKeyWithoutRow, Unmakes
  <2>1. CASE k \in orphaned' \/ Unmakes(r, k)'
    BY <2>1
  <2>2. CASE k \notin rows /\ Accepted(k) /\ ~Unmakes(r, k)
    <3>1. k \in orphaned \/ \E s \in Requests : Unmakes(s, k)
      BY <2>2 DEF RowInv, NoKeyWithoutRow, Unmakes
    <3>2. ASSUME NEW s \in Requests, Unmakes(s, k) PROVE Unmakes(s, k)'
      BY <2>2, <3>2 DEF Unmakes
    <3>. QED BY <3>1, <3>2
  <2>. QED BY <2>1, <2>2
<1>3. RefusedCreationIsUndone'
  BY DEF RowInv, RefusedCreationIsUndone
<1>. QED BY <1>1, <1>2, <1>3 DEF RowInv

\* A step of a request that is making no key, is not deleting one, and leaves
\* rows and hashes alone.
LEMMA RowInvQuiet ==
    ASSUME Base, RowInv, NEW r \in Requests,
           \A s \in Requests \ {r} : pc'[s] = pc[s] /\ op'[s] = op[s] /\ key'[s] = key[s],
           UNCHANGED <<rows, hash>>,
           stranded \subseteq stranded', orphaned \subseteq orphaned',
           \A k \in Keys : Makes(r, k) => Makes(r, k)' \/ k \in stranded',
           \A k \in Keys : Unmakes(r, k) => Unmakes(r, k)' \/ k \in orphaned',
           op'[r] # "create" \/ pc'[r] # "err"
    PROVE  RowInv'
<1>1. \A k : Accepted(k)' <=> Accepted(k)
  BY DEF Accepted
<1>2. rows \subseteq Keys
  BY DEF Base, TypeOK
<1>3. \A k \in rows' : Accepted(k)' \/ k \in stranded' \/ Makes(r, k)'
                       \/ (k \in rows /\ ~Makes(r, k) /\ (Accepted(k) => Accepted(k)'))
  BY <1>1, <1>2
<1>4. \A k \in Keys \ rows' : Accepted(k)' =>
              k \in orphaned' \/ Unmakes(r, k)'
              \/ (k \notin rows /\ Accepted(k) /\ ~Unmakes(r, k))
  BY <1>1
<1>. QED BY <1>3, <1>4, RowInvStays

\* What the steps have in common.
LEMMA RoleOf ==
    ASSUME Base, NEW r \in Requests
    PROVE  TypeOK /\ Role(r) /\ key[r] \in Keys /\ write[r] \in Hashes
BY DEF Base, TypeOK

LEMMA BeginRowInv ==
    ASSUME Base, RowInv, NEW r \in Requests, NEW o \in Ops, NEW place \in Places,
           NEW K \in SUBSET Keys, Begin(r, o, place, K),
           place \notin {"err", "unhashing"},
           \A s \in Requests \ {r} : key'[s] = key[s],
           UNCHANGED <<rows, hash, stranded, orphaned>>
    PROVE  RowInv'
<1>1. TypeOK
  BY DEF Base
<1>2. /\ pc[r] = "idle" /\ pc'[r] = place
      /\ \A s \in Requests \ {r} : pc'[s] = pc[s] /\ op'[s] = op[s]
  BY <1>1, BeginStep
<1>3. \A k : ~Makes(r, k) /\ ~Unmakes(r, k)
  BY <1>2 DEF Makes, Unmakes
<1>. QED BY <1>2, <1>3, RowInvQuiet

LEMMA BeginningsRowInv ==
    ASSUME Base, RowInv, NEW r \in Requests,
           \/ CreateBegins(r) \/ (\E b \in Bodies : UpdateBegins(r, b))
           \/ BenchmarkBegins(r) \/ DeleteBegins(r) \/ SyncBegins(r)
           \/ LimitBegins(r)
    PROVE  RowInv'
<1>1. PICK o \in Ops, place \in Places, K \in SUBSET Keys :
          Begin(r, o, place, K) /\ place \notin {"err", "unhashing"}
  <2>. USE DEF Ops, Places
  <2>0. rows \subseteq Keys /\ used \subseteq Keys
    BY DEF Base, TypeOK
  <2>1. CASE CreateBegins(r)
    BY <2>1 DEF CreateBegins
  <2>2. CASE \E b \in Bodies : UpdateBegins(r, b)
    BY <2>0, <2>2 DEF UpdateBegins
  <2>3. CASE BenchmarkBegins(r)
    <3>1. PICK on \in BOOLEAN, keyIds \in SUBSET used :
            Begin(r, "bench", "loop",
                  IF on THEN {k \in rows : ~row[k]["benchmark_mode"]} ELSE keyIds)
      BY <2>3 DEF BenchmarkBegins
    <3>2. (IF on THEN {k \in rows : ~row[k]["benchmark_mode"]} ELSE keyIds)
             \in SUBSET Keys
      BY <2>0
    <3>. QED BY <3>1, <3>2
  <2>4. CASE DeleteBegins(r)
    BY <2>0, <2>4 DEF DeleteBegins
  <2>5. CASE SyncBegins(r)
    BY <2>0, <2>5 DEF SyncBegins
  <2>6. CASE LimitBegins(r)
    BY <2>6 DEF LimitBegins
  <2>. QED BY <2>1, <2>2, <2>3, <2>4, <2>5, <2>6
<1>2. /\ \A s \in Requests \ {r} : key'[s] = key[s]
      /\ UNCHANGED <<rows, hash, stranded, orphaned>>
  BY DEF CreateBegins, UpdateBegins, BenchmarkBegins, DeleteBegins, SyncBegins,
         LimitBegins, dbVars, redisVars, Base, TypeOK
<1>. QED BY <1>1, <1>2, BeginRowInv

LEMMA CreateInsertsRowInv ==
    ASSUME Base, RowInv, NEW r \in Requests, CreateInserts(r) PROVE RowInv'
<1>1. /\ pc[r] = "inserting" /\ Goto(r, "seeding")
      /\ rows' = rows \union {key[r]}
      /\ UNCHANGED <<hash, op, key, stranded, orphaned>>
  BY DEF CreateInserts, redisVars, history
<1>2. TypeOK /\ Role(r) /\ op[r] = "create" /\ "seeding" \in Places
  BY <1>1, RoleOf DEF Role, Roles, Places
<1>3. pc'[r] = "seeding" /\ \A s \in Requests \ {r} : pc'[s] = pc[s]
  BY <1>1, <1>2, GotoStep
<1>4. Makes(r, key[r])' /\ \A k : ~Makes(r, k) /\ ~Unmakes(r, k)
  BY <1>1, <1>2, <1>3 DEF Makes, Unmakes
<1>5. \A k : Accepted(k)' <=> Accepted(k)
  BY <1>1 DEF Accepted
<1>6. \A s \in Requests \ {r} : op[s] = "create" => key[s] # key[r]
  BY <1>1 DEF Base, Apart
<1>7. \A k \in rows' : Accepted(k)' \/ k \in stranded' \/ Makes(r, k)'
                       \/ (k \in rows /\ ~Makes(r, k) /\ (Accepted(k) => Accepted(k)'))
  BY <1>1, <1>4, <1>5 DEF Makes
<1>. QED BY <1>1, <1>3, <1>4, <1>5, <1>6, <1>7, RowInvStays

\* A full write makes the key acceptable; without a row it is an orphan.
LEMMA SeedSucceedsRowInv ==
    ASSUME Base, RowInv, NEW r \in Requests, SeedSucceeds(r) PROVE RowInv'
<1>1. /\ pc[r] = "seeding" /\ Goto(r, "ok") /\ Hset(key[r], write[r])
      /\ orphaned' = orphaned \union ({key[r]} \ rows)
      /\ UNCHANGED <<rows, op, key, stranded>>
  BY DEF SeedSucceeds, dbVars
<1>2. /\ TypeOK /\ key[r] \in Keys /\ write[r] \in Hashes
      /\ DOMAIN write[r] = Fields /\ "ok" \in Places
  BY <1>1, RoleOf DEF Role, Roles, Writes, Places
<1>3. pc'[r] = "ok" /\ \A s \in Requests \ {r} : pc'[s] = pc[s]
  BY <1>1, <1>2, GotoStep
<1>4. \A k \in Keys : Accepted(k)' <=> Accepted(k) \/ k = key[r]
  BY <1>1, <1>2, HsetStep DEF Fields
<1>5. \A k \in Keys : (Makes(r, k) => k = key[r]) /\ ~Unmakes(r, k)
  BY <1>1 DEF Makes, Unmakes
<1>6. rows \subseteq Keys
  BY <1>2 DEF TypeOK
<1>7. \A k \in rows' : Accepted(k)' \/ k \in stranded' \/ Makes(r, k)'
                       \/ (k \in rows /\ ~Makes(r, k) /\ (Accepted(k) => Accepted(k)'))
  BY <1>1, <1>4, <1>5, <1>6
<1>8. \A k \in Keys \ rows' : Accepted(k)' =>
              k \in orphaned' \/ Unmakes(r, k)'
              \/ (k \notin rows /\ Accepted(k) /\ ~Unmakes(r, k))
  BY <1>1, <1>4, <1>5
<1>. QED BY <1>1, <1>3, <1>7, <1>8, RowInvStays

LEMMA SeedFailsRowInv ==
    ASSUME Base, RowInv, NEW r \in Requests, SeedFails(r) PROVE RowInv'
<1>1. /\ pc[r] = "seeding" /\ Goto(r, "rollback")
      /\ UNCHANGED <<rows, hash, op, key, stranded, orphaned>>
  BY DEF SeedFails, dbVars
<1>2. TypeOK /\ "rollback" \in Places
  BY DEF Base, Places
<1>3. pc'[r] = "rollback" /\ \A s \in Requests \ {r} : pc'[s] = pc[s]
  BY <1>1, <1>2, GotoStep
<1>4. \A k : (Makes(r, k) => Makes(r, k)') /\ ~Unmakes(r, k)
  BY <1>1, <1>3 DEF Makes, Unmakes
<1>. QED BY <1>1, <1>3, <1>4, RowInvQuiet

LEMMA RollsBackRowInv ==
    ASSUME Base, RowInv, NEW r \in Requests, RollsBack(r) PROVE RowInv'
<1>1. /\ pc[r] = "rollback" /\ Goto(r, "err")
      /\ \/ /\ rows' = rows \ {key[r]} /\ UNCHANGED stranded
            /\ orphaned' = orphaned \union (IF Accepted(key[r])
                                            THEN {key[r]} ELSE {})
         \/ /\ stranded' = stranded \union {key[r]}
            /\ UNCHANGED <<rows, orphaned>>
      /\ UNCHANGED <<hash, op, key>>
  BY DEF RollsBack, redisVars
<1>2. TypeOK /\ "err" \in Places
  BY DEF Base, Places
<1>3. pc'[r] = "err" /\ \A s \in Requests \ {r} : pc'[s] = pc[s]
  BY <1>1, <1>2, GotoStep
<1>4. \A k : Accepted(k)' <=> Accepted(k)
  BY <1>1 DEF Accepted
<1>5. \A k : (Makes(r, k) => k = key[r]) /\ ~Unmakes(r, k)
  BY <1>1 DEF Makes, Unmakes
<1>. QED BY <1>1, <1>3, <1>4, <1>5, RowInvStays

LEMMA PushesRowInv ==
    ASSUME Base, RowInv, NEW r \in Requests, Pushes(r) PROVE RowInv'
<1>. DEFINE place == IF op[r] = "bench" THEN "loop" ELSE "ok"
<1>1. /\ pc[r] = "pushing" /\ Goto(r, place) /\ Hset(key[r], write[r])
      /\ orphaned' = IF "real_key" \in DOMAIN write[r]
                     THEN orphaned \union ({key[r]} \ rows) ELSE orphaned
      /\ UNCHANGED <<rows, op, key, stranded>>
  BY DEF Pushes, dbVars
<1>2. /\ TypeOK /\ Role(r) /\ key[r] \in Keys /\ write[r] \in Hashes
      /\ place \in Places
  BY RoleOf DEF Places
<1>3. pc'[r] = place /\ \A s \in Requests \ {r} : pc'[s] = pc[s]
  BY <1>1, <1>2, GotoStep
<1>4. \A k \in Keys : Accepted(k)' <=>
          Accepted(k) \/ (k = key[r] /\ "real_key" \in DOMAIN write[r])
  BY <1>1, <1>2, HsetStep
<1>5. op[r] # "create" /\ (op[r] = "bootstrap" => "real_key" \in DOMAIN write[r])
  BY <1>1, <1>2 DEF Role, Roles, Writes, Fields
<1>6. \A k \in Keys : /\ Makes(r, k) => k = key[r] /\ "real_key" \in DOMAIN write[r]
                      /\ ~Unmakes(r, k)
  BY <1>1, <1>5 DEF Makes, Unmakes
<1>7. rows \subseteq Keys
  BY <1>2 DEF TypeOK
<1>8. \A k \in rows' : Accepted(k)' \/ k \in stranded' \/ Makes(r, k)'
                       \/ (k \in rows /\ ~Makes(r, k) /\ (Accepted(k) => Accepted(k)'))
  BY <1>1, <1>4, <1>6, <1>7
<1>9. \A k \in Keys \ rows' : Accepted(k)' =>
              k \in orphaned' \/ Unmakes(r, k)'
              \/ (k \notin rows /\ Accepted(k) /\ ~Unmakes(r, k))
  BY <1>1, <1>4, <1>6
<1>10. orphaned \subseteq orphaned'
  BY <1>1
<1>. QED BY <1>1, <1>3, <1>5, <1>8, <1>9, <1>10, RowInvStays

LEMMA PushFailsRowInv ==
    ASSUME Base, RowInv, NEW r \in Requests, PushFails(r) PROVE RowInv'
<1>1. /\ pc[r] = "pushing" /\ Goto(r, "err")
      /\ stranded' = IF op[r] = "bootstrap" THEN stranded \union {key[r]}
                     ELSE stranded
      /\ UNCHANGED <<rows, hash, op, key, orphaned>>
  BY DEF PushFails, dbVars
<1>2. TypeOK /\ Role(r) /\ "err" \in Places /\ op[r] # "create"
  BY <1>1, RoleOf DEF Places, Role, Roles
<1>3. pc'[r] = "err" /\ \A s \in Requests \ {r} : pc'[s] = pc[s]
  BY <1>1, <1>2, GotoStep
<1>4. \A k : (Makes(r, k) => k \in stranded') /\ ~Unmakes(r, k)
  BY <1>1, <1>2 DEF Makes, Unmakes
<1>. QED BY <1>1, <1>2, <1>3, <1>4, RowInvQuiet

\* Steps of requests that neither make nor unmake a key.
LEMMA AsideRowInv ==
    ASSUME Base, RowInv, NEW r \in Requests,
           UpdatesRow(r) \/ BenchmarkNext(r) \/ SyncEnds(r)
    PROVE  RowInv'
<1>1. TypeOK /\ Role(r)
  BY DEF Base
<1>2. PICK place \in {"pushing", "err", "ok", "found", "loop"} : Goto(r, place)
  BY DEF UpdatesRow, BenchmarkNext, SyncEnds
<1>3. /\ pc[r] \in {"found", "loop", "syncing"}
      /\ UNCHANGED <<rows, hash, op, stranded, orphaned>>
      /\ \A s \in Requests \ {r} : key'[s] = key[s]
  BY <1>1 DEF UpdatesRow, BenchmarkNext, SyncEnds, dbVars, redisVars, history, TypeOK
<1>4. pc'[r] = place /\ \A s \in Requests \ {r} : pc'[s] = pc[s]
  BY <1>1, <1>2, GotoStep DEF Places
<1>5. op[r] \in {"put", "bench", "sync"}
  BY <1>1, <1>3 DEF Role, Roles
<1>6. \A k : ~Makes(r, k) /\ ~Unmakes(r, k)
  BY <1>3 DEF Makes, Unmakes
<1>. QED BY <1>3, <1>4, <1>5, <1>6, RowInvQuiet

LEMMA DeletesRowRowInv ==
    ASSUME Base, RowInv, NEW r \in Requests, DeletesRow(r) PROVE RowInv'
<1>. DEFINE place == IF key[r] \in rows THEN "unhashing" ELSE "err"
<1>1. /\ pc[r] = "deleting" /\ rows' = rows \ {key[r]} /\ Goto(r, place)
      /\ UNCHANGED <<hash, op, key, stranded, orphaned>>
  BY DEF DeletesRow, redisVars, history
<1>2. TypeOK /\ place \in Places /\ op[r] = "delete"
  BY <1>1, RoleOf DEF Places, Role, Roles
<1>3. pc'[r] = place /\ \A s \in Requests \ {r} : pc'[s] = pc[s]
  BY <1>1, <1>2, GotoStep
<1>4. \A k : Accepted(k)' <=> Accepted(k)
  BY <1>1 DEF Accepted
<1>5. \A k : /\ ~Makes(r, k) /\ ~Unmakes(r, k)
             /\ Unmakes(r, k)' <=> k = key[r] /\ k \in rows
  BY <1>1, <1>3 DEF Makes, Unmakes
<1>6. op'[r] # "create"
  BY <1>1, <1>2
<1>. QED BY <1>1, <1>3, <1>4, <1>5, <1>6, RowInvStays

\* The row of a hash that is deleted is gone already.
LEMMA DeletesHashRowInv ==
    ASSUME Base, RowInv, NEW r \in Requests, DeletesHash(r) PROVE RowInv'
<1>1. /\ pc[r] = "unhashing" /\ Goto(r, "ok")
      /\ hash' = [hash EXCEPT ![key[r]] = Empty]
      /\ UNCHANGED <<rows, op, key, stranded, orphaned>>
  BY DEF DeletesHash, dbVars, history
<1>2. /\ TypeOK /\ "ok" \in Places /\ key[r] \notin rows /\ key[r] \in Keys
  BY <1>1, RoleOf DEF Places, Role, Whereabouts
<1>3. pc'[r] = "ok" /\ \A s \in Requests \ {r} : pc'[s] = pc[s]
  BY <1>1, <1>2, GotoStep
<1>4. \A k \in Keys : Accepted(k)' <=> Accepted(k) /\ k # key[r]
  <2>1. \A k \in Keys : hash'[k] = IF k = key[r] THEN Empty ELSE hash[k]
    BY <1>1, <1>2 DEF TypeOK
  <2>2. "real_key" \notin DOMAIN Empty
    BY EmptyHash
  <2>. QED BY <2>1, <2>2 DEF Accepted
<1>5. \A k : ~Makes(r, k) /\ (Unmakes(r, k) => k = key[r])
  BY <1>1 DEF Makes, Unmakes
<1>6. rows \subseteq Keys
  BY <1>2 DEF TypeOK
<1>. QED BY <1>1, <1>2, <1>3, <1>4, <1>5, <1>6, RowInvStays

LEMMA DeleteHashFailsRowInv ==
    ASSUME Base, RowInv, NEW r \in Requests, DeleteHashFails(r) PROVE RowInv'
<1>1. /\ pc[r] = "unhashing" /\ Goto(r, "err")
      /\ orphaned' = orphaned \union {key[r]}
      /\ UNCHANGED <<rows, hash, op, key, stranded>>
  BY DEF DeleteHashFails, dbVars, redisVars
<1>2. TypeOK /\ "err" \in Places /\ op[r] = "delete"
  BY <1>1, RoleOf DEF Places, Role, Roles
<1>3. pc'[r] = "err" /\ \A s \in Requests \ {r} : pc'[s] = pc[s]
  BY <1>1, <1>2, GotoStep
<1>4. \A k : ~Makes(r, k) /\ (Unmakes(r, k) => k \in orphaned')
  BY <1>1 DEF Makes, Unmakes
<1>. QED BY <1>1, <1>2, <1>3, <1>4, RowInvQuiet

\* A sync opens a key whose row went after it was read; the key is an orphan.
LEMMA SyncsKeyRowInv ==
    ASSUME Base, RowInv, NEW r \in Requests, SyncsKey(r) PROVE RowInv'
<1>1. PICK c \in todo[r] :
        /\ pc[r] = "syncing"
        /\ Hset(c, Seeded(Synced(snap[r][c]), FALSE))
        /\ orphaned' = orphaned \union ({c} \ rows)
        /\ UNCHANGED <<rows, pc, op, key, stranded>>
  BY DEF SyncsKey, dbVars
<1>2. TypeOK /\ Role(r) /\ c \in Keys /\ snap[r][c] \in Row
  BY DEF Base, TypeOK
<1>3. /\ Seeded(Synced(snap[r][c]), FALSE) \in Hashes
      /\ "real_key" \in DOMAIN Seeded(Synced(snap[r][c]), FALSE)
  BY <1>2, SyncedRow, SeededHash
<1>4. \A k \in Keys : Accepted(k)' <=> Accepted(k) \/ k = c
  BY <1>1, <1>2, <1>3, HsetStep
<1>5. \A k : ~Makes(r, k) /\ ~Unmakes(r, k)
  BY <1>1 DEF Makes, Unmakes
<1>6. rows \subseteq Keys /\ op[r] = "sync"
  BY <1>1, <1>2 DEF TypeOK, Role, Roles
<1>7. \A k \in rows' : Accepted(k)' \/ k \in stranded' \/ Makes(r, k)'
                       \/ (k \in rows /\ ~Makes(r, k) /\ (Accepted(k) => Accepted(k)'))
  BY <1>1, <1>4, <1>5, <1>6
<1>8. \A k \in Keys \ rows' : Accepted(k)' =>
              k \in orphaned' \/ Unmakes(r, k)'
              \/ (k \notin rows /\ Accepted(k) /\ ~Unmakes(r, k))
  BY <1>1, <1>4, <1>5
<1>. QED BY <1>1, <1>6, <1>7, <1>8, RowInvStays

LEMMA BootstrapWipesRowInv ==
    ASSUME Base, RowInv, NEW r \in Requests, BootstrapWipes(r) PROVE RowInv'
<1>1. /\ Begin(r, "bootstrap", "recreating", rows)
      /\ rows' = {}
      /\ orphaned' = orphaned \union {k \in rows : Accepted(k)}
      /\ UNCHANGED <<hash, key, stranded>>
  BY DEF BootstrapWipes, redisVars
<1>2. /\ TypeOK /\ rows \in SUBSET Keys
      /\ "bootstrap" \in Ops /\ "recreating" \in Places
  BY DEF Base, TypeOK, Ops, Places
<1>3. /\ pc[r] = "idle" /\ pc'[r] = "recreating" /\ op'[r] = "bootstrap"
      /\ \A s \in Requests \ {r} : pc'[s] = pc[s] /\ op'[s] = op[s]
  BY <1>1, <1>2, BeginStep
<1>4. \A k : Accepted(k)' <=> Accepted(k)
  BY <1>1 DEF Accepted
<1>5. \A k : ~Makes(r, k) /\ ~Unmakes(r, k)
  BY <1>3 DEF Makes, Unmakes
<1>. QED BY <1>1, <1>3, <1>4, <1>5, RowInvStays

LEMMA BootstrapCreatesRowInv ==
    ASSUME Base, RowInv, NEW r \in Requests, BootstrapCreates(r) PROVE RowInv'
<1>1. PICK c \in Keys \ used :
        /\ pc[r] = "recreating" /\ Goto(r, "pushing")
        /\ rows' = rows \union {c}
        /\ key' = [key EXCEPT ![r] = c]
        /\ UNCHANGED <<hash, op, stranded, orphaned>>
  BY DEF BootstrapCreates, redisVars
<1>2. TypeOK /\ Role(r) /\ op[r] = "bootstrap" /\ "pushing" \in Places
  BY <1>1, RoleOf DEF Places, Role, Roles
<1>3. /\ pc'[r] = "pushing" /\ key'[r] = c
      /\ \A s \in Requests \ {r} : pc'[s] = pc[s] /\ key'[s] = key[s]
  BY <1>1, <1>2, GotoStep DEF TypeOK
<1>4. \A k : Accepted(k)' <=> Accepted(k)
  BY <1>1 DEF Accepted
<1>5. /\ \A k : ~Makes(r, k) /\ ~Unmakes(r, k)
      /\ Makes(r, c)'
  BY <1>1, <1>2, <1>3 DEF Makes, Unmakes
<1>6. \A s \in Requests : key[s] # c
  BY <1>1 DEF Base, Role, Whereabouts
<1>7. \A k \in rows' : Accepted(k)' \/ k \in stranded' \/ Makes(r, k)'
                       \/ (k \in rows /\ ~Makes(r, k) /\ (Accepted(k) => Accepted(k)'))
  BY <1>1, <1>4, <1>5
<1>. QED BY <1>1, <1>2, <1>3, <1>4, <1>5, <1>6, <1>7, RowInvStays

LEMMA LateRowInv ==
    ASSUME Base, RowInv, NEW w \in late, LateLands(w) \/ LateIsLost(w)
    PROVE  RowInv'
<1>1. /\ TypeOK /\ w.key \in Keys /\ w.fields \in Hashes
      /\ UNCHANGED <<rows, pc, op, key, stranded>>
      /\ orphaned \subseteq orphaned'
      /\ \/ UNCHANGED hash
         \/ /\ Hset(w.key, w.fields)
            /\ "real_key" \in DOMAIN w.fields =>
                  orphaned' = orphaned \union ({w.key} \ rows)
  BY DEF LateLands, LateIsLost, dbVars, history, Base, TypeOK
<1>2. \A k \in Keys : /\ Accepted(k) => Accepted(k)'
                      /\ Accepted(k)' => Accepted(k) \/ k \in rows \/ k \in orphaned'
  <2>1. CASE UNCHANGED hash
    BY <2>1 DEF Accepted
  <2>2. CASE /\ Hset(w.key, w.fields)
             /\ "real_key" \in DOMAIN w.fields =>
                  orphaned' = orphaned \union ({w.key} \ rows)
    BY <1>1, <2>2, HsetStep
  <2>. QED BY <1>1, <2>1, <2>2
<1>3. rows \subseteq Keys
  BY <1>1 DEF TypeOK
<1>4. EveryRowIsUsable'
  BY <1>1, <1>2, <1>3 DEF RowInv, EveryRowIsUsable, Creating
<1>5. NoKeyWithoutRow'
  BY <1>1, <1>2 DEF RowInv, NoKeyWithoutRow
<1>6. RefusedCreationIsUndone'
  BY <1>1 DEF RowInv, RefusedCreationIsUndone
<1>. QED BY <1>4, <1>5, <1>6 DEF RowInv

THEOREM RowInvariant == Spec => []RowInv
<1>1. Init => RowInv
  <2>. SUFFICES ASSUME Init PROVE RowInv
    OBVIOUS
  <2>1. /\ "real_key" \in DOMAIN Seeded(Defaults, FALSE)
        /\ DOMAIN Empty = {}
    BY SeededHash, DefaultsIsRow, EmptyHash
  <2>2. \A k \in Keys : Accepted(k) <=> k \in Provisioned
    BY <2>1 DEF Init, Accepted
  <2>. QED BY <2>2 DEF Init, RowInv, EveryRowIsUsable, NoKeyWithoutRow,
                       RefusedCreationIsUndone
<1>2. Base /\ RowInv /\ [Next]_vars => RowInv'
  <2>. SUFFICES ASSUME Base, RowInv, [Next]_vars PROVE RowInv'
    OBVIOUS
  <2>1. ASSUME NEW r \in Requests, Handle(r) PROVE RowInv'
    BY <2>1, BeginningsRowInv, CreateInsertsRowInv, SeedSucceedsRowInv,
       SeedFailsRowInv, RollsBackRowInv, PushesRowInv, PushFailsRowInv,
       AsideRowInv, DeletesRowRowInv, DeletesHashRowInv, DeleteHashFailsRowInv,
       SyncsKeyRowInv, BootstrapWipesRowInv, BootstrapCreatesRowInv DEF Handle
  <2>2. CASE UNCHANGED vars
    BY <2>2 DEF vars, RowInv, EveryRowIsUsable, NoKeyWithoutRow,
                RefusedCreationIsUndone, Accepted, Creating
  <2>. QED BY <2>1, <2>2, LateRowInv DEF Next
<1>. QED BY <1>1, <1>2, BaseInvariant, PTL DEF Spec

\* A key the dashboard lists is accepted by the proxy, unless it is being
\* created or its creation failed twice.
THEOREM ListedKeysWork == Spec => []EveryRowIsUsable
BY RowInvariant, PTL DEF RowInv

\* The proxy accepts no key without a row, but for the leaks the property names.
THEOREM NoOtherKeysWork == Spec => []NoKeyWithoutRow
BY RowInvariant, PTL DEF RowInv

\* A creation that answered with an error has left no row, unless the rollback
\* failed too.
THEOREM RefusalsUndo == Spec => []RefusedCreationIsUndone
BY RowInvariant, PTL DEF RowInv

-----------------------------------------------------------------------------
(***************************************************************************)
(* The settings the proxy reads are those the dashboard shows, for any     *)
(* requests, keys, settings and number of failed writes.                   *)
(*   Alone   a request that found its key free has it for itself until it  *)
(*           is done with it: those that come later are not clean;         *)
(*   Agrees  what the hash and the writes under way have to do with the    *)
(*           row: an HSET under way carries what the hash still lacks.     *)
(***************************************************************************)

(* Who is at a key *)

\* A wiped key is nobody's any more.
At(t, k) == k \in Touches(t) /\ pc[t] # "recreating"

NothingLeft(t) == op[t] \notin {"bench", "sync"} => todo[t] = {}

Single(t, s) == \A k \in clean[t] : t # s /\ At(t, k) => ~At(s, k)

Alone == /\ \A t \in Requests : NothingLeft(t)
         /\ \A t, s \in Requests : Single(t, s)

LEMMA AtElsewhere ==
    ASSUME NEW s, pc'[s] = pc[s], op'[s] = op[s], key'[s] = key[s],
           todo'[s] = todo[s]
    PROVE  \A k : At(s, k)' <=> At(s, k)
BY DEF At, Touches

\* Where a request is at, place by place.
LEMMA AtPlaces ==
    ASSUME NEW t
    PROVE  /\ pc[t] \in {"idle", "ok", "err", "recreating"} => \A k : ~At(t, k)
           /\ op[t] = "limit" => \A k : ~At(t, k)
           /\ pc[t] \in {"loop", "syncing"} /\ op[t] # "limit" =>
                 \A k : At(t, k) <=> k \in todo[t]
           /\ pc[t] \in {"inserting", "seeding", "rollback", "found", "pushing",
                         "deleting", "unhashing"} /\ op[t] # "limit" =>
                 \A k : At(t, k) <=> k = key[t] \/ k \in todo[t]
BY DEF At, Touches

LEMMA AtPlacesNext ==
    ASSUME NEW t
    PROVE  /\ pc'[t] \in {"idle", "ok", "err", "recreating"} => \A k : ~At(t, k)'
           /\ op'[t] = "limit" => \A k : ~At(t, k)'
           /\ pc'[t] \in {"loop", "syncing"} /\ op'[t] # "limit" =>
                 \A k : At(t, k)' <=> k \in todo'[t]
           /\ pc'[t] \in {"inserting", "seeding", "rollback", "found", "pushing",
                         "deleting", "unhashing"} /\ op'[t] # "limit" =>
                 \A k : At(t, k)' <=> k = key'[t] \/ k \in todo'[t]
BY DEF At, Touches

\* A step of r that takes it to no further key.
LEMMA AloneStays ==
    ASSUME Base, Alone, NEW r \in Requests,
           \A s \in Requests \ {r} : /\ pc'[s] = pc[s] /\ op'[s] = op[s]
                                     /\ key'[s] = key[s] /\ todo'[s] = todo[s],
           clean' = clean, NothingLeft(r)',
           \A k : At(r, k)' => At(r, k)
    PROVE  Alone'
<1>1. \A t \in Requests : NothingLeft(t)'
  BY DEF Alone, NothingLeft
<1>2. \A s \in Requests, k \in Keys : At(s, k)' => At(s, k)
  BY AtElsewhere
<1>3. ASSUME NEW t \in Requests, NEW s \in Requests PROVE Single(t, s)'
  <2>1. Single(t, s) /\ clean[t] \subseteq Keys
    BY DEF Alone, Base, TypeOK
  <2>. QED BY <1>2, <2>1 DEF Single
<1>. QED BY <1>1, <1>3 DEF Alone

\* A request that comes to the keys K has only those to itself that it found
\* free, and takes the others from no one.
LEMMA AloneBegins ==
    ASSUME Base, Alone, NEW r \in Requests, NEW o \in Ops, NEW place \in Places,
           NEW K \in SUBSET Keys, Begin(r, o, place, K),
           \A s \in Requests \ {r} : key'[s] = key[s] /\ todo'[s] = todo[s],
           NothingLeft(r)',
           \A k : At(r, k)' => k \in K
    PROVE  Alone'
<1>1. /\ \A s \in Requests \ {r} : pc'[s] = pc[s] /\ op'[s] = op[s]
      /\ clean'[r] = K \ UNION {Touches(t) : t \in Requests \ {r}}
      /\ \A s \in Requests \ {r} : clean'[s] = clean[s] \ K
  BY BeginStep DEF Base
<1>2. \A t \in Requests : NothingLeft(t)'
  BY <1>1 DEF Alone, NothingLeft
<1>3. \A s \in Requests \ {r} : \A k : At(s, k)' <=> At(s, k)
  BY <1>1, AtElsewhere
<1>4. ASSUME NEW t \in Requests, NEW s \in Requests PROVE Single(t, s)'
  <2>1. CASE t = s
    BY <2>1 DEF Single
  <2>2. CASE t = r /\ s # r
    <3>1. \A k \in clean'[r] : k \notin Touches(s)
      BY <1>1, <2>2
    <3>. QED BY <1>3, <2>2, <3>1 DEF Single, At
  <2>3. CASE t # r /\ s = r
    <3>1. \A k \in clean'[t] : k \notin K
      BY <1>1, <2>3
    <3>. QED BY <2>3, <3>1 DEF Single
  <2>4. CASE t # r /\ s # r
    <3>1. Single(t, s) /\ clean'[t] \subseteq clean[t]
      BY <1>1, <2>4 DEF Alone
    <3>. QED BY <1>3, <2>4, <3>1 DEF Single
  <2>. QED BY <2>1, <2>2, <2>3, <2>4
<1>. QED BY <1>2, <1>4 DEF Alone

\* A request that begins at one key, if it is to write settings.
LEMMA OneKeyAlone ==
    ASSUME Base, Alone, NEW r \in Requests, NEW k \in Keys,
           NEW o \in {"create", "put", "delete", "limit"},
           NEW place \in {"inserting", "found", "deleting", "pushing"},
           NEW K \in SUBSET Keys, Begin(r, o, place, K), o = "limit" \/ K = {k},
           key' = [key EXCEPT ![r] = k], todo' = todo
    PROVE  Alone'
<1>1. o \in Ops /\ place \in Places
  BY DEF Ops, Places
<1>2. TypeOK /\ Role(r) /\ NothingLeft(r)
  BY DEF Base, Alone
<1>3. pc[r] = "idle" /\ pc'[r] = place /\ op'[r] = o
  BY <1>1, <1>2, BeginStep
<1>4. todo[r] = {}
  BY <1>2, <1>3 DEF Role, Roles, NothingLeft
<1>5. /\ key'[r] = k /\ todo'[r] = {}
      /\ \A s \in Requests \ {r} : key'[s] = key[s] /\ todo'[s] = todo[s]
  BY <1>2, <1>4 DEF TypeOK
<1>6. \A c : At(r, c)' => c \in K
  <2>1. CASE o = "limit"
    BY <1>3, <2>1, AtPlacesNext
  <2>2. CASE o # "limit"
    BY <1>3, <1>5, <2>2, AtPlacesNext
  <2>. QED BY <2>1, <2>2
<1>7. NothingLeft(r)'
  BY <1>5 DEF NothingLeft
<1>. QED BY <1>1, <1>5, <1>6, <1>7, AloneBegins

LEMMA BeginningsAlone ==
    ASSUME Base, Alone, NEW r \in Requests,
           \/ CreateBegins(r) \/ DeleteBegins(r) \/ LimitBegins(r)
           \/ \E body \in Bodies : UpdateBegins(r, body)
    PROVE  Alone'
<1>1. rows \subseteq Keys
  BY DEF Base, TypeOK
<1>2. ASSUME NEW k \in Keys, Begin(r, "create", "inserting", {k}),
             key' = [key EXCEPT ![r] = k], todo' = todo
      PROVE  Alone'
  <2>1. {k} \in SUBSET Keys /\ {} \in SUBSET Keys
    OBVIOUS
  <2>. QED BY <1>2, <2>1, OneKeyAlone
<1>3. ASSUME NEW k \in Keys, Begin(r, "delete", "deleting", {k}),
             key' = [key EXCEPT ![r] = k], todo' = todo
      PROVE  Alone'
  <2>1. {k} \in SUBSET Keys /\ {} \in SUBSET Keys
    OBVIOUS
  <2>. QED BY <1>3, <2>1, OneKeyAlone
<1>4. ASSUME NEW k \in Keys, Begin(r, "limit", "pushing", {}),
             key' = [key EXCEPT ![r] = k], todo' = todo
      PROVE  Alone'
  <2>1. {k} \in SUBSET Keys /\ {} \in SUBSET Keys
    OBVIOUS
  <2>. QED BY <1>4, <2>1, OneKeyAlone
<1>5. ASSUME NEW k \in Keys, Begin(r, "put", "found", {k}),
             key' = [key EXCEPT ![r] = k], todo' = todo
      PROVE  Alone'
  <2>1. {k} \in SUBSET Keys /\ {} \in SUBSET Keys
    OBVIOUS
  <2>. QED BY <1>5, <2>1, OneKeyAlone
<1>6. CASE CreateBegins(r)
  BY <1>2, <1>6 DEF CreateBegins
<1>7. CASE DeleteBegins(r)
  BY <1>1, <1>3, <1>7 DEF DeleteBegins
<1>8. CASE LimitBegins(r)
  BY <1>1, <1>4, <1>8 DEF LimitBegins
<1>9. CASE \E body \in Bodies : UpdateBegins(r, body)
  BY <1>1, <1>5, <1>9 DEF UpdateBegins
<1>. QED BY <1>6, <1>7, <1>8, <1>9

\* Requests that begin at several keys.
LEMMA ManyKeysAlone ==
    ASSUME Base, Alone, NEW r \in Requests, BenchmarkBegins(r) \/ SyncBegins(r)
    PROVE  Alone'
<1>1. PICK K \in SUBSET used, o \in {"bench", "sync"}, place \in {"loop", "syncing"} :
        /\ Begin(r, o, place, K)
        /\ todo' = [todo EXCEPT ![r] = K] /\ key' = key
  <2>1. rows \subseteq used
    BY DEF Base, TypeOK
  <2>2. CASE SyncBegins(r)
    BY <2>1, <2>2 DEF SyncBegins
  <2>3. CASE BenchmarkBegins(r)
    <3>1. PICK on \in BOOLEAN, keyIds \in SUBSET used :
            LET K == IF on THEN {k \in rows : ~row[k]["benchmark_mode"]} ELSE keyIds
            IN  /\ Begin(r, "bench", "loop", K)
                /\ todo' = [todo EXCEPT ![r] = K] /\ key' = key
      BY <2>3 DEF BenchmarkBegins
    <3>2. (IF on THEN {k \in rows : ~row[k]["benchmark_mode"]} ELSE keyIds)
             \in SUBSET used
      BY <2>1
    <3>. QED BY <3>1, <3>2
  <2>. QED BY <2>2, <2>3
<1>2. o \in Ops /\ place \in Places /\ K \in SUBSET Keys
  BY DEF Ops, Places, Base, TypeOK
<1>3. TypeOK
  BY DEF Base
<1>4. pc'[r] = place /\ op'[r] = o
  BY <1>1, <1>2, <1>3, BeginStep
<1>5. /\ todo'[r] = K
      /\ \A s \in Requests \ {r} : key'[s] = key[s] /\ todo'[s] = todo[s]
  BY <1>1, <1>3 DEF TypeOK
<1>6. \A c : At(r, c)' => c \in K
  BY <1>4, <1>5, AtPlacesNext
<1>7. NothingLeft(r)'
  BY <1>4 DEF NothingLeft
<1>. QED BY <1>1, <1>2, <1>5, <1>6, <1>7, AloneBegins

LEMMA BootstrapWipesAlone ==
    ASSUME Base, Alone, NEW r \in Requests, BootstrapWipes(r) PROVE Alone'
<1>1. Begin(r, "bootstrap", "recreating", rows) /\ UNCHANGED <<key, todo>>
  BY DEF BootstrapWipes
<1>2. /\ TypeOK /\ Role(r) /\ NothingLeft(r) /\ rows \in SUBSET Keys
      /\ "bootstrap" \in Ops /\ "recreating" \in Places
  BY DEF Base, Alone, TypeOK, Ops, Places
<1>3. pc[r] = "idle" /\ pc'[r] = "recreating"
  BY <1>1, <1>2, BeginStep
<1>4. NothingLeft(r)'
  BY <1>1, <1>2, <1>3 DEF NothingLeft, Role, Roles
<1>5. \A c : ~At(r, c)'
  BY <1>3, AtPlacesNext
<1>. QED BY <1>1, <1>2, <1>4, <1>5, AloneBegins

\* The key that is generated is new: nobody can be at it.
LEMMA BootstrapCreatesAlone ==
    ASSUME Base, Alone, NEW r \in Requests, BootstrapCreates(r) PROVE Alone'
<1>1. PICK k \in Keys \ used :
        /\ pc[r] = "recreating" /\ Goto(r, "pushing")
        /\ key' = [key EXCEPT ![r] = k]
        /\ clean' = [clean EXCEPT ![r] = {k}]
        /\ UNCHANGED <<op, todo>>
  BY DEF BootstrapCreates
<1>2. TypeOK /\ Role(r) /\ op[r] = "bootstrap" /\ "pushing" \in Places
      /\ NothingLeft(r)
  BY <1>1, RoleOf DEF Places, Role, Roles, Alone
<1>3. /\ pc'[r] = "pushing" /\ key'[r] = k /\ clean'[r] = {k}
      /\ \A s \in Requests \ {r} : /\ pc'[s] = pc[s] /\ key'[s] = key[s]
                                   /\ clean'[s] = clean[s]
  BY <1>1, <1>2, GotoStep DEF TypeOK
<1>4. todo[r] = {}
  BY <1>2 DEF NothingLeft
<1>5. \A c : At(r, c)' <=> c = k
  BY <1>1, <1>2, <1>3, <1>4, AtPlacesNext
<1>6. \A s \in Requests \ {r} : \A c : At(s, c)' <=> At(s, c)
  BY <1>1, <1>3, AtElsewhere
<1>7. \A s \in Requests : ~At(s, k)
  BY <1>1 DEF Base, Role, Whereabouts, At, Touches
<1>8. ASSUME NEW t \in Requests, NEW s \in Requests PROVE Single(t, s)'
  <2>1. Single(t, s)
    BY DEF Alone
  <2>. QED BY <1>3, <1>5, <1>6, <1>7, <2>1 DEF Single
<1>9. \A t \in Requests : NothingLeft(t)'
  BY <1>1 DEF Alone, NothingLeft
<1>. QED BY <1>8, <1>9 DEF Alone

\* Steps of a request that stays at its key or leaves it.
LEMMA SameKeyAlone ==
    ASSUME Base, Alone, NEW r \in Requests,
           \/ CreateInserts(r) \/ SeedSucceeds(r) \/ SeedFails(r) \/ RollsBack(r)
           \/ UpdatesRow(r) \/ PushFails(r) \/ DeletesRow(r) \/ DeletesHash(r)
           \/ DeleteHashFails(r)
    PROVE  Alone'
<1>1. TypeOK /\ Role(r) /\ NothingLeft(r)
  BY DEF Base, Alone
<1>2. PICK place \in {"seeding", "ok", "rollback", "err", "pushing", "unhashing"} :
        Goto(r, place)
  BY DEF CreateInserts, SeedSucceeds, SeedFails, RollsBack, UpdatesRow,
         PushFails, DeletesRow, DeletesHash, DeleteHashFails
<1>3. /\ pc[r] \in {"inserting", "seeding", "rollback", "found", "pushing",
                    "deleting", "unhashing"}
      /\ UNCHANGED <<op, key, todo, clean>>
  BY DEF CreateInserts, SeedSucceeds, SeedFails, RollsBack, UpdatesRow,
         PushFails, DeletesRow, DeletesHash, DeleteHashFails, history
<1>4. pc'[r] = place /\ \A s \in Requests \ {r} : pc'[s] = pc[s]
  BY <1>1, <1>2, GotoStep DEF Places
<1>5. \A k : At(r, k)' => At(r, k)
  BY <1>3, <1>4, AtPlaces, AtPlacesNext
<1>6. NothingLeft(r)'
  BY <1>1, <1>3 DEF NothingLeft
<1>. QED BY <1>3, <1>4, <1>5, <1>6, AloneStays

LEMMA PushesAlone ==
    ASSUME Base, Alone, NEW r \in Requests, Pushes(r) PROVE Alone'
<1>. DEFINE place == IF op[r] = "bench" THEN "loop" ELSE "ok"
<1>1. pc[r] = "pushing" /\ Goto(r, place) /\ UNCHANGED <<op, key, todo, clean>>
  BY DEF Pushes
<1>2. TypeOK /\ NothingLeft(r) /\ place \in Places
  BY DEF Base, Alone, Places
<1>3. pc'[r] = place /\ \A s \in Requests \ {r} : pc'[s] = pc[s]
  BY <1>1, <1>2, GotoStep
<1>4. \A k : At(r, k)' => At(r, k)
  BY <1>1, <1>3, AtPlaces, AtPlacesNext
<1>5. NothingLeft(r)'
  BY <1>1, <1>2 DEF NothingLeft
<1>. QED BY <1>1, <1>3, <1>4, <1>5, AloneStays

\* The loops: a key leaves todo, and is at hand or done with.
LEMMA LoopAlone ==
    ASSUME Base, Alone, NEW r \in Requests,
           BenchmarkNext(r) \/ SyncsKey(r) \/ SyncEnds(r)
    PROVE  Alone'
<1>1. TypeOK /\ Role(r) /\ op[r] \in {"bench", "sync"}
      /\ pc[r] \in {"loop", "syncing"}
  BY DEF BenchmarkNext, SyncsKey, SyncEnds, Base, Role, Roles
<1>2. UNCHANGED <<op, clean>>
  BY DEF BenchmarkNext, SyncsKey, SyncEnds, history
<1>3. /\ todo'[r] \subseteq todo[r]
      /\ pc'[r] = "found" => key'[r] \in todo[r]
      /\ pc'[r] \in {"ok", "err", "found", "loop", "syncing"}
      /\ \A s \in Requests \ {r} : pc'[s] = pc[s] /\ key'[s] = key[s]
                                   /\ todo'[s] = todo[s]
  <2>1. CASE BenchmarkNext(r)
    BY <1>1, <2>1 DEF BenchmarkNext, TypeOK, Goto
  <2>2. CASE SyncsKey(r)
    BY <1>1, <2>2 DEF SyncsKey, TypeOK, Role, Roles
  <2>3. CASE SyncEnds(r)
    BY <1>1, <2>3 DEF SyncEnds, TypeOK, Goto
  <2>. QED BY <2>1, <2>2, <2>3
<1>4. \A k : At(r, k)' => At(r, k)
  BY <1>1, <1>2, <1>3, AtPlaces, AtPlacesNext
<1>5. NothingLeft(r)'
  BY <1>1, <1>2 DEF NothingLeft
<1>. QED BY <1>2, <1>3, <1>4, <1>5, AloneStays

\* A key that a request found free when it began is written by no other
\* request that still counts it as its own: each Begin takes the keys it comes
\* to away from those that are at them.
THEOREM AloneInvariant == Spec => []Alone
<1>1. Init => Alone
  BY DEF Init, Alone, NothingLeft, Single
<1>2. Base /\ Alone /\ [Next]_vars => Alone'
  <2>. SUFFICES ASSUME Base, Alone, [Next]_vars PROVE Alone'
    OBVIOUS
  <2>1. ASSUME NEW r \in Requests, Handle(r) PROVE Alone'
    BY <2>1, BeginningsAlone, ManyKeysAlone, BootstrapWipesAlone,
       BootstrapCreatesAlone, SameKeyAlone, PushesAlone, LoopAlone DEF Handle
  <2>2. CASE \/ UNCHANGED vars
             \/ \E w \in late : LateLands(w) \/ LateIsLost(w)
    <3>1. UNCHANGED <<pc, op, key, todo, clean>>
      BY <2>2 DEF vars, LateLands, LateIsLost, history
    <3>. QED BY <3>1 DEF Alone, NothingLeft, Single, At, Touches
  <2>. QED BY <2>1, <2>2 DEF Next
<1>. QED BY <1>1, <1>2, BaseInvariant, PTL DEF Spec

-----------------------------------------------------------------------------
(* What the writes under way have to do with the row *)

Same(s, k) ==
    /\ s \in DOMAIN hash[k]
    /\ hash[k][s] = row[k][s] \/ (s \in Numbers /\ hash[k][s] = TRUE)

InLine(k) == \A s \in Settings : Same(s, k)

\* t is about to write settings of k.
Sends(t, k) == key[t] = k /\ op[t] # "limit" /\ pc[t] \in {"pushing", "seeding"}

Settled(k) == (k \in rows \ split /\ \A t \in Requests : ~Sends(t, k)) => InLine(k)

\* What a request that has the key to itself writes is what the row says; what
\* it does not write the hash has already.
Carries(t) ==
    \A k \in clean[t] : Sends(t, k) =>
        \A s \in Settings \cap DOMAIN write[t] : write[t][s] = row[k][s]

Completes(t) ==
    \A k \in clean[t] \cap (rows \ split) : Sends(t, k) =>
        \A s \in Settings \ DOMAIN write[t] : Same(s, k)

\* What a sync has read of such a key is still true.
Fresh(t) ==
    pc[t] = "syncing" => \A k \in clean[t] \cap todo[t] : snap[t][k] = row[k]

GaveUp(t) == pc[t] = "rollback" => key[t] \in split

Going(t) == Carries(t) /\ Completes(t) /\ Fresh(t) /\ GaveUp(t)

Agrees == /\ \A k \in Keys : Settled(k)
          /\ \A t \in Requests : Going(t)

LEMMA SendsAt ==
    ASSUME NEW t, NEW k, Sends(t, k)
    PROVE  At(t, k)
BY AtPlaces DEF Sends

\* A step of r at the key c: whatever it changes about c, it is at c alone or
\* harms nobody who is.
LEMMA AgreesStep ==
    ASSUME Base, Alone, Agrees, NEW r \in Requests, NEW c \in Keys,
           OthersStay(r),
           \A s \in Requests \ {r} : snap'[s] = snap[s] /\ clean'[s] \subseteq clean[s],
           \A k \in Keys \ {c} : /\ hash'[k] = hash[k] /\ row'[k] = row[k]
                                 /\ k \in rows' => k \in rows
                                 /\ k \in split => k \in split'
                                 /\ Sends(r, k) => Sends(r, k)',
           c \in split => c \in split' \/ (c \in clean[r] /\ At(r, c)),
           \/ At(r, c)
           \/ /\ row'[c] = row[c]
              /\ c \in rows' \ split' => c \in rows \ split
              /\ \A s \in Settings : Same(s, c) => Same(s, c)',
           Settled(c)', Going(r)'
    PROVE  Agrees'
<1>1. \A s \in Requests \ {r} : /\ pc'[s] = pc[s] /\ op'[s] = op[s]
                                /\ key'[s] = key[s] /\ write'[s] = write[s]
                                /\ todo'[s] = todo[s]
  BY DEF OthersStay
<1>2. \A s \in Requests \ {r} : \A k : Sends(s, k)' <=> Sends(s, k)
  BY <1>1 DEF Sends
<1>3. ASSUME NEW k \in Keys PROVE Settled(k)'
  <2>1. CASE k = c
    BY <2>1
  <2>2. CASE k # c
    <3>1. k \in rows' \ split' => k \in rows \ split
      BY <2>2
    <3>2. (\A t \in Requests : ~Sends(t, k)') => \A t \in Requests : ~Sends(t, k)
      BY <1>2, <2>2
    <3>3. InLine(k) => InLine(k)'
      BY <2>2 DEF InLine, Same
    <3>. QED BY <3>1, <3>2, <3>3 DEF Settled, Agrees
  <2>. QED BY <2>1, <2>2
<1>4. ASSUME NEW t \in Requests PROVE Going(t)'
  <2>1. CASE t = r
    BY <2>1
  <2>2. CASE t # r
    <3>1. /\ Going(t) /\ clean'[t] \subseteq clean[t] /\ clean[t] \subseteq Keys
          /\ snap'[t] = snap[t] /\ Role(t)
      BY <2>2 DEF Agrees, Base, TypeOK
    <3>2. ASSUME NEW k \in clean[t], At(t, k)
          PROVE  /\ row'[k] = row[k]
                 /\ k \in rows' \ split' => k \in rows \ split
                 /\ \A s \in Settings : Same(s, k) => Same(s, k)'
      <4>1. k \in Keys
        BY <3>1
      <4>2. CASE k # c
        BY <4>1, <4>2 DEF Same
      <4>3. CASE k = c
        <5>1. ~At(r, c)
          BY <2>2, <3>2, <4>3 DEF Alone, Single
        <5>. QED BY <4>3, <5>1
      <4>. QED BY <4>2, <4>3
    <3>3. Carries(t)'
      <4>. SUFFICES ASSUME NEW k \in clean'[t], Sends(t, k)'
                    PROVE  \A s \in Settings \cap DOMAIN write'[t] :
                              write'[t][s] = row'[k][s]
        BY DEF Carries
      <4>1. k \in clean[t] /\ Sends(t, k) /\ At(t, k)
        BY <1>2, <2>2, <3>1, SendsAt
      <4>2. row'[k] = row[k]
        BY <3>2, <4>1
      <4>. QED BY <1>1, <2>2, <3>1, <4>1, <4>2 DEF Going, Carries
    <3>4. Completes(t)'
      <4>. SUFFICES ASSUME NEW k \in clean'[t] \cap (rows' \ split'), Sends(t, k)'
                    PROVE  \A s \in Settings \ DOMAIN write'[t] : Same(s, k)'
        BY DEF Completes
      <4>1. k \in clean[t] /\ Sends(t, k) /\ At(t, k)
        BY <1>2, <2>2, <3>1, SendsAt
      <4>2. k \in rows \ split /\ \A s \in Settings : Same(s, k) => Same(s, k)'
        BY <3>2, <4>1
      <4>. QED BY <1>1, <2>2, <3>1, <4>1, <4>2 DEF Going, Completes
    <3>5. Fresh(t)'
      <4>. SUFFICES ASSUME pc'[t] = "syncing", NEW k \in clean'[t] \cap todo'[t]
                    PROVE  snap'[t][k] = row'[k]
        BY DEF Fresh
      <4>1. pc[t] = "syncing" /\ k \in clean[t] /\ k \in todo[t]
        BY <1>1, <2>2, <3>1
      <4>2. At(t, k)
        BY <3>1, <4>1, AtPlaces DEF Role, Roles
      <4>3. row'[k] = row[k]
        BY <3>2, <4>1, <4>2
      <4>. QED BY <3>1, <4>1, <4>3 DEF Going, Fresh
    <3>6. GaveUp(t)'
      <4>. SUFFICES ASSUME pc'[t] = "rollback" PROVE key'[t] \in split'
        BY DEF GaveUp
      <4>1. pc[t] = "rollback" /\ key[t] \in split /\ key'[t] = key[t]
            /\ key[t] \in Keys
        BY <1>1, <2>2, <3>1 DEF Going, GaveUp, Base, TypeOK
      <4>2. At(t, key[t])
        BY <3>1, <4>1, AtPlaces DEF Role, Roles
      <4>3. CASE key[t] = c
        <5>1. ~(c \in clean[r] /\ At(r, c))
          BY <2>2, <4>2, <4>3 DEF Alone, Single
        <5>. QED BY <4>1, <4>3, <5>1
      <4>. QED BY <4>1, <4>3
    <3>. QED BY <3>3, <3>4, <3>5, <3>6 DEF Going
  <2>. QED BY <2>1, <2>2
<1>. QED BY <1>3, <1>4 DEF Agrees

\* A step of r that changes neither a row nor a hash nor ends in a write.
LEMMA AgreesQuiet ==
    ASSUME Base, Alone, Agrees, NEW r \in Requests,
           OthersStay(r),
           \A s \in Requests \ {r} : snap'[s] = snap[s] /\ clean'[s] \subseteq clean[s],
           hash' = hash, row' = row, rows' \subseteq rows, split \subseteq split',
           \A k : Sends(r, k) => k \in split',
           \A k : ~Sends(r, k)',
           Fresh(r)', GaveUp(r)'
    PROVE  Agrees'
<1>1. \A s \in Requests \ {r} : \A k : Sends(s, k)' <=> Sends(s, k)
  BY DEF OthersStay, Sends
<1>2. \A k \in Keys : Settled(k)'
  BY <1>1 DEF Agrees, Settled, InLine, Same
<1>3. Carries(r)' /\ Completes(r)'
  BY DEF Carries, Completes
<1>4. ASSUME NEW t \in Requests, t # r PROVE Going(t)'
  <2>1. Going(t) /\ clean'[t] \subseteq clean[t] /\ snap'[t] = snap[t]
    BY <1>4 DEF Agrees
  <2>2. /\ pc'[t] = pc[t] /\ key'[t] = key[t] /\ write'[t] = write[t]
        /\ todo'[t] = todo[t] /\ \A k : Sends(t, k)' <=> Sends(t, k)
    BY <1>1, <1>4 DEF OthersStay
  <2>3. \A s, k : Same(s, k)' <=> Same(s, k)
    BY DEF Same
  <2>4. Carries(t)' /\ Completes(t)'
    BY <2>1, <2>2, <2>3 DEF Going, Carries, Completes
  <2>5. Fresh(t)' /\ GaveUp(t)'
    BY <2>1, <2>2 DEF Going, Fresh, GaveUp
  <2>. QED BY <2>4, <2>5 DEF Going
<1>. QED BY <1>2, <1>3, <1>4 DEF Agrees, Going

LEMMA BeginAgrees ==
    ASSUME Base, Alone, Agrees, NEW r \in Requests, NEW o \in Ops,
           NEW place \in Places \ {"seeding", "rollback", "syncing"},
           place = "pushing" => o = "limit",
           NEW K \in SUBSET Keys, Begin(r, o, place, K),
           hash' = hash, row' = row, rows' \subseteq rows, split' = split,
           snap' = snap,
           \A s \in Requests \ {r} : /\ key'[s] = key[s] /\ write'[s] = write[s]
                                     /\ todo'[s] = todo[s]
    PROVE  Agrees'
<1>1. /\ pc[r] = "idle" /\ pc'[r] = place /\ op'[r] = o
      /\ \A s \in Requests \ {r} : /\ pc'[s] = pc[s] /\ op'[s] = op[s]
                                   /\ clean'[s] \subseteq clean[s]
  BY BeginStep DEF Base
<1>2. OthersStay(r)
  BY <1>1 DEF OthersStay
<1>3. \A k : ~Sends(r, k) /\ ~Sends(r, k)'
  BY <1>1 DEF Sends
<1>4. Fresh(r)' /\ GaveUp(r)'
  BY <1>1 DEF Fresh, GaveUp
<1>. QED BY <1>1, <1>2, <1>3, <1>4, AgreesQuiet

LEMMA BeginningsAgree ==
    ASSUME Base, Alone, Agrees, NEW r \in Requests,
           \/ CreateBegins(r) \/ DeleteBegins(r) \/ LimitBegins(r)
           \/ BenchmarkBegins(r) \/ BootstrapWipes(r)
           \/ \E body \in Bodies : UpdateBegins(r, body)
    PROVE  Agrees'
<1>1. TypeOK /\ rows \subseteq Keys /\ rows \subseteq used /\ used \subseteq Keys
  BY DEF Base, TypeOK
<1>2. /\ {"create", "put", "delete", "bench", "bootstrap", "limit"} \subseteq Ops
      /\ {"inserting", "found", "deleting", "loop", "recreating", "pushing"}
            \subseteq Places \ {"seeding", "rollback", "syncing"}
  BY DEF Ops, Places
<1>3. CASE CreateBegins(r)
  <2>1. PICK k \in Keys : /\ Begin(r, "create", "inserting", {k})
                          /\ key' = [key EXCEPT ![r] = k]
    BY <1>3 DEF CreateBegins
  <2>2. /\ hash' = hash /\ row' = row /\ rows' = rows /\ split' = split
        /\ snap' = snap /\ todo' = todo
        /\ \A s \in Requests \ {r} : key'[s] = key[s] /\ write'[s] = write[s]
    BY <1>1, <1>3 DEF CreateBegins, redisVars, TypeOK
  <2>3. {k} \in SUBSET Keys
    OBVIOUS
  <2>. QED BY <1>2, <2>1, <2>2, <2>3, BeginAgrees
<1>4. CASE DeleteBegins(r)
  <2>1. PICK k \in rows : /\ Begin(r, "delete", "deleting", {k})
                          /\ key' = [key EXCEPT ![r] = k]
    BY <1>4 DEF DeleteBegins
  <2>2. /\ hash' = hash /\ row' = row /\ rows' = rows /\ split' = split
        /\ snap' = snap /\ todo' = todo /\ write' = write
        /\ \A s \in Requests \ {r} : key'[s] = key[s]
    BY <1>1, <1>4 DEF DeleteBegins, redisVars, dbVars, TypeOK
  <2>3. {k} \in SUBSET Keys
    BY <1>1
  <2>. QED BY <1>2, <2>1, <2>2, <2>3, BeginAgrees
<1>5. CASE LimitBegins(r)
  <2>1. PICK k \in rows : /\ Begin(r, "limit", "pushing", {})
                          /\ key' = [key EXCEPT ![r] = k]
    BY <1>5 DEF LimitBegins
  <2>2. /\ hash' = hash /\ row' = row /\ rows' = rows /\ split' = split
        /\ snap' = snap /\ todo' = todo
        /\ \A s \in Requests \ {r} : key'[s] = key[s] /\ write'[s] = write[s]
    BY <1>1, <1>5 DEF LimitBegins, redisVars, TypeOK
  <2>3. {} \in SUBSET Keys
    OBVIOUS
  <2>. QED BY <1>2, <2>1, <2>2, <2>3, BeginAgrees
<1>6. CASE \E body \in Bodies : UpdateBegins(r, body)
  <2>1. PICK k \in rows : /\ Begin(r, "put", "found", {k})
                          /\ key' = [key EXCEPT ![r] = k]
    BY <1>6 DEF UpdateBegins
  <2>2. /\ hash' = hash /\ row' = row /\ rows' = rows /\ split' = split
        /\ snap' = snap /\ todo' = todo
        /\ \A s \in Requests \ {r} : key'[s] = key[s] /\ write'[s] = write[s]
    BY <1>1, <1>6 DEF UpdateBegins, redisVars, dbVars, TypeOK
  <2>3. {k} \in SUBSET Keys
    BY <1>1
  <2>. QED BY <1>2, <2>1, <2>2, <2>3, BeginAgrees
<1>7. CASE BenchmarkBegins(r)
  <2>1. PICK on \in BOOLEAN, keyIds \in SUBSET used :
          LET K == IF on THEN {k \in rows : ~row[k]["benchmark_mode"]} ELSE keyIds
          IN  /\ Begin(r, "bench", "loop", K)
              /\ todo' = [todo EXCEPT ![r] = K]
              /\ write' = [write EXCEPT ![r] = [f \in {"benchmark_mode"} |-> on]]
              /\ UNCHANGED <<dbVars, redisVars, key, snap, split>>
    BY <1>7 DEF BenchmarkBegins
  <2>. DEFINE K == IF on THEN {k \in rows : ~row[k]["benchmark_mode"]} ELSE keyIds
  <2>2. /\ hash' = hash /\ row' = row /\ rows' = rows /\ split' = split
        /\ snap' = snap /\ key' = key
        /\ \A s \in Requests \ {r} : todo'[s] = todo[s] /\ write'[s] = write[s]
    BY <1>1, <2>1 DEF redisVars, dbVars, TypeOK
  <2>3. K \in SUBSET Keys /\ Begin(r, "bench", "loop", K)
    BY <1>1, <2>1
  <2>. HIDE DEF K
  <2>. QED BY <1>2, <2>2, <2>3, BeginAgrees
<1>8. CASE BootstrapWipes(r)
  <2>1. Begin(r, "bootstrap", "recreating", rows) /\ rows' \subseteq rows
    BY <1>8 DEF BootstrapWipes
  <2>2. /\ hash' = hash /\ row' = row /\ split' = split
        /\ snap' = snap /\ todo' = todo /\ key' = key /\ write' = write
    BY <1>8 DEF BootstrapWipes, redisVars
  <2>. QED BY <1>1, <1>2, <2>1, <2>2, BeginAgrees
<1>. QED BY <1>3, <1>4, <1>5, <1>6, <1>7, <1>8

\* A sync has read the rows as they are.
LEMMA SyncBeginsAgree ==
    ASSUME Base, Alone, Agrees, NEW r \in Requests, SyncBegins(r) PROVE Agrees'
<1>1. /\ Begin(r, "sync", "syncing", rows)
      /\ snap' = [snap EXCEPT ![r] = row]
      /\ todo' = [todo EXCEPT ![r] = rows]
      /\ hash' = hash /\ row' = row /\ rows' = rows /\ split' = split
      /\ key' = key /\ write' = write
  BY DEF SyncBegins, redisVars, dbVars
<1>2. TypeOK /\ rows \in SUBSET Keys /\ "sync" \in Ops /\ "syncing" \in Places
  BY DEF Base, TypeOK, Ops, Places
<1>3. /\ pc[r] = "idle" /\ pc'[r] = "syncing" /\ op'[r] = "sync"
      /\ \A s \in Requests \ {r} : /\ pc'[s] = pc[s] /\ op'[s] = op[s]
                                   /\ clean'[s] \subseteq clean[s]
  BY <1>1, <1>2, BeginStep
<1>4. /\ snap'[r] = row
      /\ \A s \in Requests \ {r} : snap'[s] = snap[s] /\ todo'[s] = todo[s]
  BY <1>1, <1>2 DEF TypeOK
<1>5. OthersStay(r)
  BY <1>1, <1>3, <1>4 DEF OthersStay
<1>6. \A k : ~Sends(r, k) /\ ~Sends(r, k)'
  BY <1>3 DEF Sends
<1>7. Fresh(r)' /\ GaveUp(r)'
  BY <1>1, <1>3, <1>4 DEF Fresh, GaveUp
<1>. QED BY <1>1, <1>3, <1>4, <1>5, <1>6, <1>7, AgreesQuiet

\* Steps that write nothing, or fail to.
LEMMA NothingWrittenAgrees ==
    ASSUME Base, Alone, Agrees, NEW r \in Requests,
           \/ SeedFails(r) \/ RollsBack(r) \/ PushFails(r) \/ BenchmarkNext(r)
           \/ DeletesRow(r) \/ DeleteHashFails(r) \/ SyncEnds(r)
           \/ UpdatesRow(r) /\ key[r] \notin rows
    PROVE  Agrees'
<1>1. TypeOK /\ Role(r)
  BY DEF Base
<1>2. PICK place \in {"rollback", "err", "ok", "found", "loop", "unhashing"} :
        Goto(r, place)
  BY DEF SeedFails, RollsBack, PushFails, BenchmarkNext, DeletesRow,
         DeleteHashFails, SyncEnds, UpdatesRow
<1>3. pc'[r] = place /\ \A s \in Requests \ {r} : pc'[s] = pc[s]
  BY <1>1, <1>2, GotoStep DEF Places
<1>4. /\ hash' = hash /\ row' = row /\ rows' \subseteq rows
      /\ split \subseteq split'
      /\ op' = op /\ write' = write /\ snap' = snap /\ clean' = clean
      /\ \A s \in Requests \ {r} : key'[s] = key[s] /\ todo'[s] = todo[s]
  <2>1. CASE SeedFails(r) \/ PushFails(r)
    BY <2>1 DEF SeedFails, PushFails, GivesUp, dbVars
  <2>2. CASE RollsBack(r) \/ DeletesRow(r) \/ DeleteHashFails(r)
    BY <2>2 DEF RollsBack, DeletesRow, DeleteHashFails, dbVars, redisVars, history
  <2>3. CASE BenchmarkNext(r)
    BY <1>1, <2>3 DEF BenchmarkNext, dbVars, redisVars, history, TypeOK
  <2>4. CASE SyncEnds(r)
    BY <1>1, <2>4 DEF SyncEnds, dbVars, redisVars, history, TypeOK
  <2>5. CASE UpdatesRow(r) /\ key[r] \notin rows
    BY <2>5 DEF UpdatesRow, redisVars, history
  <2>. QED BY <2>1, <2>2, <2>3, <2>4, <2>5
<1>5. OthersStay(r)
  BY <1>3, <1>4 DEF OthersStay
<1>6. pc[r] \in {"seeding", "pushing"} => key[r] \in split'
  BY DEF SeedFails, RollsBack, PushFails, BenchmarkNext, DeletesRow,
         DeleteHashFails, SyncEnds, UpdatesRow, GivesUp
<1>7. \A k : (Sends(r, k) => k \in split') /\ ~Sends(r, k)'
  BY <1>3, <1>6 DEF Sends
<1>8. Fresh(r)'
  BY <1>3 DEF Fresh
<1>9. GaveUp(r)'
  <2>1. place = "rollback" => key'[r] \in split'
    BY <1>1, <1>2, <1>3 DEF SeedFails, RollsBack, PushFails, BenchmarkNext,
       DeletesRow, DeleteHashFails, SyncEnds, UpdatesRow, GivesUp, Goto, TypeOK
  <2>. QED BY <1>3, <2>1 DEF GaveUp
<1>. QED BY <1>4, <1>5, <1>7, <1>8, <1>9, AgreesQuiet

-----------------------------------------------------------------------------
(* Steps that write rows *)

\* The first settings of a row are those about to be seeded.
LEMMA CreateInsertsAgree ==
    ASSUME Base, Alone, Agrees, NEW r \in Requests, CreateInserts(r)
    PROVE  Agrees'
<1>0. PICK c \in Keys : c = key[r]
  BY DEF Base, TypeOK
<1>1. /\ pc[r] = "inserting" /\ Goto(r, "seeding")
      /\ rows' = rows \union {c}
      /\ row' = [row EXCEPT ![c] = [s \in Settings |-> write[r][s]]]
      /\ UNCHANGED <<op, key, write, todo, snap, hash, clean, split>>
  BY <1>0 DEF CreateInserts, redisVars, history
<1>2. /\ TypeOK /\ Role(r) /\ op[r] = "create" /\ c \in Keys
      /\ "seeding" \in Places
  BY <1>1, RoleOf DEF Places, Role, Roles
<1>3. pc'[r] = "seeding" /\ \A s \in Requests \ {r} : pc'[s] = pc[s]
  BY <1>1, <1>2, GotoStep
<1>4. /\ row'[c] = [s \in Settings |-> write[r][s]]
      /\ \A k \in Keys \ {c} : row'[k] = row[k]
  BY <1>1, <1>2 DEF TypeOK
<1>5. OthersStay(r)
  BY <1>1, <1>3 DEF OthersStay
<1>6. At(r, c) /\ \A k : ~Sends(r, k)
  BY <1>0, <1>1, <1>2, AtPlaces DEF Sends
<1>7. \A k : Sends(r, k)' <=> k = c
  BY <1>0, <1>1, <1>2, <1>3 DEF Sends
<1>8. Settled(c)'
  BY <1>7 DEF Settled
<1>9. Carries(r)'
  BY <1>1, <1>4, <1>7 DEF Carries
<1>10. Completes(r)'
  <2>1. Settings \subseteq DOMAIN write'[r]
    BY <1>1, <1>2 DEF Role, Writes, Fields
  <2>. QED BY <2>1 DEF Completes
<1>11. Fresh(r)' /\ GaveUp(r)'
  BY <1>3 DEF Fresh, GaveUp
<1>12. \A k \in Keys \ {c} : /\ hash'[k] = hash[k] /\ row'[k] = row[k]
                             /\ k \in rows' => k \in rows
                             /\ k \in split => k \in split'
                             /\ Sends(r, k) => Sends(r, k)'
  BY <1>1, <1>4, <1>6
<1>13. Going(r)'
  BY <1>9, <1>10, <1>11 DEF Going
<1>14. /\ \A s \in Requests \ {r} : snap'[s] = snap[s] /\ clean'[s] \subseteq clean[s]
       /\ c \in split => c \in split' \/ (c \in clean[r] /\ At(r, c))
  BY <1>1
<1>. QED BY <1>2, <1>5, <1>6, <1>8, <1>12, <1>13, <1>14, AgreesStep

\* The row and the HSET to come change in the same way.
LEMMA UpdatesRowAgree ==
    ASSUME Base, Alone, Agrees, NEW r \in Requests, UpdatesRow(r),
           key[r] \in rows
    PROVE  Agrees'
<1>0. PICK c \in Keys : c = key[r]
  BY DEF Base, TypeOK
<1>1. /\ pc[r] = "found" /\ Goto(r, "pushing")
      /\ row' = [row EXCEPT ![c] = Merge(write[r], @)]
      /\ UNCHANGED <<rows, op, key, write, todo, snap, hash, clean, split>>
  BY <1>0 DEF UpdatesRow, redisVars, history
<1>2. /\ TypeOK /\ Role(r) /\ op[r] \in {"put", "bench"} /\ c \in Keys
      /\ "pushing" \in Places /\ write[r] \in Hashes
      /\ DOMAIN write[r] \subseteq Settings /\ row[c] \in Row
  <2>1. TypeOK /\ Role(r) /\ "pushing" \in Places
    BY DEF Base, Places
  <2>2. op[r] \in {"put", "bench"} /\ DOMAIN write[r] \subseteq Settings
    BY <1>1, <2>1, ConstantsAssumption DEF Role, Roles, Writes
  <2>3. write[r] \in Hashes /\ row[c] \in Row
    BY <2>1 DEF TypeOK
  <2>. QED BY <2>1, <2>2, <2>3
<1>3. pc'[r] = "pushing" /\ \A s \in Requests \ {r} : pc'[s] = pc[s]
  BY <1>1, <1>2, GotoStep
<1>4. /\ row'[c] = Merge(write[r], row[c])
      /\ \A k \in Keys \ {c} : row'[k] = row[k]
  BY <1>1, <1>2 DEF TypeOK
<1>5. \A s \in Settings :
         row'[c][s] = IF s \in DOMAIN write[r] THEN write[r][s] ELSE row[c][s]
  BY <1>2, <1>4, MergeRow
<1>6. OthersStay(r)
  BY <1>1, <1>3 DEF OthersStay
<1>7. At(r, c) /\ \A k : ~Sends(r, k)
  BY <1>0, <1>1, <1>2, AtPlaces DEF Sends
<1>8. \A k : Sends(r, k)' <=> k = c
  BY <1>0, <1>1, <1>2, <1>3 DEF Sends
<1>9. Settled(c)'
  BY <1>8 DEF Settled
<1>10. Carries(r)'
  BY <1>1, <1>5, <1>8 DEF Carries
<1>11. Completes(r)'
  <2>. SUFFICES ASSUME c \in clean[r], c \in rows \ split
                PROVE  \A s \in Settings \ DOMAIN write[r] : Same(s, c)'
    BY <1>1, <1>8 DEF Completes
  <2>1. \A t \in Requests : ~Sends(t, c)
    BY <1>7, SendsAt DEF Alone, Single
  <2>2. InLine(c)
    BY <1>2, <2>1 DEF Agrees, Settled
  <2>. QED BY <1>1, <1>5, <2>2 DEF InLine, Same
<1>12. Fresh(r)' /\ GaveUp(r)'
  BY <1>3 DEF Fresh, GaveUp
<1>13. \A k \in Keys \ {c} : /\ hash'[k] = hash[k] /\ row'[k] = row[k]
                             /\ k \in rows' => k \in rows
                             /\ k \in split => k \in split'
                             /\ Sends(r, k) => Sends(r, k)'
  BY <1>1, <1>4, <1>7
<1>14. Going(r)'
  BY <1>10, <1>11, <1>12 DEF Going
<1>15. /\ \A s \in Requests \ {r} : snap'[s] = snap[s] /\ clean'[s] \subseteq clean[s]
       /\ c \in split => c \in split' \/ (c \in clean[r] /\ At(r, c))
  BY <1>1
<1>. QED BY <1>2, <1>6, <1>7, <1>9, <1>13, <1>14, <1>15, AgreesStep

LEMMA BootstrapCreatesAgree ==
    ASSUME Base, Alone, Agrees, NEW r \in Requests, BootstrapCreates(r)
    PROVE  Agrees'
<1>1. PICK c \in Keys \ used :
        /\ pc[r] = "recreating" /\ Goto(r, "pushing")
        /\ rows' = rows \union {c}
        /\ row' = [row EXCEPT ![c] = Defaults]
        /\ key' = [key EXCEPT ![r] = c]
        /\ write' = [write EXCEPT ![r] = Seeded(Defaults, FALSE)]
        /\ clean' = [clean EXCEPT ![r] = {c}]
        /\ UNCHANGED <<op, todo, snap, hash, split>>
  BY DEF BootstrapCreates, redisVars
<1>2. /\ TypeOK /\ Role(r) /\ op[r] = "bootstrap" /\ "pushing" \in Places
  BY <1>1, RoleOf DEF Places, Role, Roles
<1>3. /\ pc'[r] = "pushing" /\ key'[r] = c /\ row'[c] = Defaults
      /\ write'[r] = Seeded(Defaults, FALSE)
      /\ \A k \in Keys \ {c} : row'[k] = row[k]
      /\ \A s \in Requests \ {r} : /\ pc'[s] = pc[s] /\ key'[s] = key[s]
                                   /\ write'[s] = write[s] /\ clean'[s] = clean[s]
  BY <1>1, <1>2, GotoStep DEF TypeOK
<1>4. OthersStay(r)
  BY <1>1, <1>3 DEF OthersStay
<1>5. /\ \A k : ~Sends(r, k)
      /\ \A k : Sends(r, k)' <=> k = c
  BY <1>1, <1>2, <1>3 DEF Sends
<1>6. /\ DOMAIN write'[r] = Fields
      /\ \A s \in Settings : write'[r][s] = row'[c][s]
  <2>1. /\ DOMAIN Seeded(Defaults, FALSE) = Fields
        /\ \A s \in Settings : Seeded(Defaults, FALSE)[s] = Defaults[s]
    BY SeededHash, DefaultsIsRow
  <2>. QED BY <1>3, <2>1
<1>7. Carries(r)' /\ Completes(r)'
  BY <1>5, <1>6 DEF Carries, Completes, Fields
<1>8. Fresh(r)' /\ GaveUp(r)'
  BY <1>3 DEF Fresh, GaveUp
<1>9. ASSUME NEW s \in Requests, s # r PROVE ~At(s, c) /\ key[s] # c
  BY <1>1 DEF Base, Role, Whereabouts, At, Touches
<1>10. ASSUME NEW s \in Requests, s # r PROVE Going(s)'
  <2>1. /\ Going(s) /\ ~At(s, c) /\ clean[s] \subseteq Keys /\ Role(s)
        /\ key[s] \in Keys
    BY <1>9, <1>10 DEF Agrees, Base, TypeOK
  <2>2. /\ pc'[s] = pc[s] /\ op'[s] = op[s] /\ key'[s] = key[s]
        /\ write'[s] = write[s] /\ clean'[s] = clean[s]
        /\ todo'[s] = todo[s] /\ snap'[s] = snap[s]
    BY <1>1, <1>3, <1>10
  <2>3. \A k : Sends(s, k)' <=> Sends(s, k)
    BY <2>2 DEF Sends
  <2>4. \A k : Sends(s, k) => k # c
    BY <2>1, SendsAt
  <2>5. \A k \in Keys \ {c} : \A x : Same(x, k)' <=> Same(x, k)
    BY <1>1, <1>3 DEF Same
  <2>6. Carries(s)'
    BY <1>3, <2>1, <2>2, <2>3, <2>4 DEF Going, Carries
  <2>7. Completes(s)'
    BY <1>1, <2>1, <2>2, <2>3, <2>4, <2>5 DEF Going, Completes
  <2>8. Fresh(s)'
    <3>1. pc[s] = "syncing" => c \notin todo[s]
      BY <2>1, AtPlaces DEF Role, Roles
    <3>. QED BY <1>3, <2>1, <2>2, <3>1 DEF Going, Fresh
  <2>9. GaveUp(s)'
    BY <1>1, <2>1, <2>2 DEF Going, GaveUp
  <2>. QED BY <2>6, <2>7, <2>8, <2>9 DEF Going
<1>11. ASSUME NEW k \in Keys PROVE Settled(k)'
  <2>1. CASE k = c
    BY <1>5, <2>1 DEF Settled
  <2>2. CASE k # c
    <3>1. (\A t \in Requests : ~Sends(t, k)') => \A t \in Requests : ~Sends(t, k)
      BY <1>1, <1>3, <1>5 DEF Sends
    <3>2. InLine(k) => InLine(k)'
      BY <1>1, <1>3, <2>2 DEF InLine, Same
    <3>. QED BY <1>1, <2>2, <3>1, <3>2 DEF Agrees, Settled
  <2>. QED BY <2>1, <2>2
<1>. QED BY <1>7, <1>8, <1>10, <1>11 DEF Agrees, Going

-----------------------------------------------------------------------------
(* Steps that write hashes *)

\* What an HSET of fields does to the settings of c.
LEMMA HsetSettings ==
    ASSUME TypeOK, NEW c \in Keys, NEW fields \in Hashes, Hset(c, fields)
    PROVE  /\ \A s \in DOMAIN fields : s \in DOMAIN hash'[c] /\ hash'[c][s] = fields[s]
           /\ \A s \in DOMAIN hash[c] \ DOMAIN fields :
                 s \in DOMAIN hash'[c] /\ hash'[c][s] = hash[c][s]
           /\ \A k \in Keys \ {c} : hash'[k] = hash[k]
<1>1. hash[c] \in Hashes
  BY DEF TypeOK
<1>2. /\ hash'[c] = Merge(fields, hash[c])
      /\ \A k \in Keys \ {c} : hash'[k] = hash[k]
  BY HsetStep
<1>. DEFINE m == Merge(fields, hash[c])
<1>3. /\ DOMAIN m = DOMAIN fields \union DOMAIN hash[c]
      /\ \A s \in DOMAIN fields : m[s] = fields[s]
      /\ \A s \in DOMAIN hash[c] \ DOMAIN fields : m[s] = hash[c][s]
  BY <1>1, MergeHash
<1>4. hash'[c] = m
  BY <1>2
<1>. HIDE DEF m
<1>. QED BY <1>2, <1>3, <1>4

\* r has written to c: if c counts as in line now, r was alone there and wrote
\* what was still missing.
LEMMA WrittenAgrees ==
    ASSUME Base, Alone, Agrees, NEW r \in Requests, NEW c \in Keys,
           OthersStay(r), key'[r] = key[r], op'[r] = op[r], write'[r] = write[r],
           clean' = clean, row' = row, rows' = rows, snap' = snap,
           Sends(r, c), pc'[r] \in {"ok", "loop"},
           Hset(c, write[r]), Agreed(r, c)
    PROVE  Agrees'
<1>1. TypeOK /\ Role(r) /\ write[r] \in Hashes
  BY DEF Base, TypeOK
<1>2. At(r, c)
  BY SendsAt
<1>3. /\ \A k \in Keys \ {c} : k \in split => k \in split'
      /\ c \in split => c \in split' \/ (c \in clean[r] /\ At(r, c))
  BY <1>2 DEF Agreed
<1>4. \A k \in Keys \ {c} : /\ hash'[k] = hash[k] /\ row'[k] = row[k]
                            /\ k \in rows' => k \in rows
                            /\ k \in split => k \in split'
                            /\ Sends(r, k) => Sends(r, k)'
  BY <1>1, <1>3, HsetSettings DEF Sends
<1>5. ASSUME c \in rows \ split' PROVE InLine(c)'
  <2>1. c \in clean[r]
    BY <1>5 DEF Agreed
  <2>2. \A s \in Settings \cap DOMAIN write[r] : write[r][s] = row[c][s]
    BY <2>1 DEF Agrees, Going, Carries
  <2>3. \A s \in Settings \cap DOMAIN write[r] : Same(s, c)'
    BY <1>1, <2>2, HsetSettings DEF Same
  <2>4. ASSUME NEW s \in Settings \ DOMAIN write[r] PROVE Same(s, c)'
    <3>1. "real_key" \notin DOMAIN write[r] /\ write[r] # Empty
      <4>1. Settings \subseteq Fields /\ "real_key" \notin Settings
            /\ "benchmark_mode" # "real_key"
        BY ConstantsAssumption DEF Fields
      <4>2. DOMAIN write[r] # Fields
        BY <2>4, <4>1
      <4>3. op[r] \in {"put", "bench"}
        BY <1>1, <4>2 DEF Role, Roles, Writes, Sends
      <4>4. \/ DOMAIN write[r] \subseteq Settings /\ write[r] # Empty
            \/ DOMAIN write[r] = {"benchmark_mode"}
        BY <1>1, <4>3 DEF Role, Writes
      <4>. QED BY <4>1, <4>4, EmptyHash
    <3>2. c \notin split
      BY <1>5, <2>1, <3>1 DEF Agreed
    <3>3. Same(s, c)
      BY <1>5, <2>1, <2>4, <3>2 DEF Agrees, Going, Completes
    <3>. QED BY <1>1, <2>4, <3>3, HsetSettings DEF Same
  <2>. QED BY <2>3, <2>4 DEF InLine
<1>6. Settled(c)'
  BY <1>5 DEF Settled
<1>7. Going(r)'
  BY DEF Going, Carries, Completes, Fresh, GaveUp, Sends
<1>. QED BY <1>2, <1>3, <1>4, <1>6, <1>7, AgreesStep

LEMMA SeedSucceedsAgree ==
    ASSUME Base, Alone, Agrees, NEW r \in Requests, SeedSucceeds(r)
    PROVE  Agrees'
<1>0. PICK c \in Keys : c = key[r]
  BY DEF Base, TypeOK
<1>1. /\ pc[r] = "seeding" /\ Goto(r, "ok")
      /\ Hset(c, write[r]) /\ Agreed(r, c)
      /\ UNCHANGED <<rows, row, op, key, write, todo, snap, clean>>
  BY <1>0 DEF SeedSucceeds, dbVars
<1>2. TypeOK /\ Role(r) /\ "ok" \in Places
  BY DEF Base, Places
<1>3. pc'[r] = "ok" /\ \A s \in Requests \ {r} : pc'[s] = pc[s]
  BY <1>1, <1>2, GotoStep
<1>4. Sends(r, c)
  BY <1>0, <1>1, <1>2 DEF Sends, Role, Roles
<1>5. OthersStay(r)
  BY <1>1, <1>3 DEF OthersStay
<1>. QED BY <1>1, <1>3, <1>4, <1>5, WrittenAgrees

LEMMA PushesAgree ==
    ASSUME Base, Alone, Agrees, NEW r \in Requests, Pushes(r) PROVE Agrees'
<1>0. PICK c \in Keys : c = key[r]
  BY DEF Base, TypeOK
<1>. DEFINE place == IF op[r] = "bench" THEN "loop" ELSE "ok"
<1>1. /\ pc[r] = "pushing" /\ Goto(r, place) /\ Hset(c, write[r])
      /\ IF op[r] = "limit" THEN UNCHANGED split ELSE Agreed(r, c)
      /\ UNCHANGED <<rows, row, op, key, write, todo, snap, clean>>
  BY <1>0 DEF Pushes, dbVars
<1>2. TypeOK /\ Role(r) /\ place \in Places /\ write[r] \in Hashes
  BY DEF Base, Places, TypeOK
<1>3. pc'[r] = place /\ \A s \in Requests \ {r} : pc'[s] = pc[s]
  BY <1>1, <1>2, GotoStep
<1>4. OthersStay(r)
  BY <1>1, <1>3 DEF OthersStay
<1>5. CASE op[r] # "limit"
  <2>1. Sends(r, c)
    BY <1>0, <1>1, <1>5 DEF Sends
  <2>. QED BY <1>1, <1>3, <1>4, <1>5, <2>1, WrittenAgrees
<1>6. CASE op[r] = "limit"
  <2>1. Settings \cap DOMAIN write[r] = {}
    BY <1>2, <1>6, ConstantsAssumption DEF Role, Writes
  <2>2. /\ \A s \in Settings : Same(s, c) => Same(s, c)'
        /\ \A k \in Keys \ {c} : hash'[k] = hash[k]
    BY <1>1, <1>2, <2>1, HsetSettings DEF Same
  <2>3. \A k : ~Sends(r, k) /\ ~Sends(r, k)'
    BY <1>1, <1>6 DEF Sends
  <2>4. Settled(c)'
    <3>1. (\A t \in Requests : ~Sends(t, c)') => \A t \in Requests : ~Sends(t, c)
      BY <1>4, <2>3 DEF Sends, OthersStay
    <3>. QED BY <1>1, <1>6, <2>2, <3>1 DEF Agrees, Settled, InLine
  <2>5. Going(r)'
    BY <1>3, <2>3 DEF Going, Carries, Completes, Fresh, GaveUp
  <2>6. /\ \A s \in Requests \ {r} : snap'[s] = snap[s] /\ clean'[s] \subseteq clean[s]
        /\ \A k \in Keys \ {c} : /\ hash'[k] = hash[k] /\ row'[k] = row[k]
                                 /\ k \in rows' => k \in rows
                                 /\ k \in split => k \in split'
                                 /\ Sends(r, k) => Sends(r, k)'
        /\ row'[c] = row[c] /\ rows' = rows /\ split' = split
    BY <1>1, <1>6, <2>2, <2>3
  <2>. QED BY <1>4, <2>2, <2>4, <2>5, <2>6, AgreesStep
<1>. QED BY <1>5, <1>6

\* The row of a hash that is deleted is gone already.
LEMMA DeletesHashAgree ==
    ASSUME Base, Alone, Agrees, NEW r \in Requests, DeletesHash(r)
    PROVE  Agrees'
<1>0. PICK c \in Keys : c = key[r]
  BY DEF Base, TypeOK
<1>1. /\ pc[r] = "unhashing" /\ Goto(r, "ok")
      /\ hash' = [hash EXCEPT ![c] = Empty]
      /\ UNCHANGED <<rows, row, op, key, write, todo, snap, clean, split>>
  BY <1>0 DEF DeletesHash, dbVars, history
<1>2. TypeOK /\ Role(r) /\ "ok" \in Places
  BY DEF Base, Places
<1>3. c \notin rows /\ \A k \in Keys \ {c} : hash'[k] = hash[k]
  BY <1>0, <1>1, <1>2 DEF Role, Whereabouts, TypeOK
<1>4. pc'[r] = "ok" /\ \A s \in Requests \ {r} : pc'[s] = pc[s]
  BY <1>1, <1>2, GotoStep
<1>5. OthersStay(r)
  BY <1>1, <1>4 DEF OthersStay
<1>6. /\ At(r, c)
      /\ \A k : ~Sends(r, k) /\ ~Sends(r, k)'
  BY <1>0, <1>1, <1>2, <1>4, AtPlaces DEF Sends, Role, Roles
<1>7. Settled(c)'
  BY <1>1, <1>3 DEF Settled
<1>8. Going(r)'
  BY <1>4, <1>6 DEF Going, Carries, Completes, Fresh, GaveUp
<1>9. /\ \A s \in Requests \ {r} : snap'[s] = snap[s] /\ clean'[s] \subseteq clean[s]
      /\ \A k \in Keys \ {c} : /\ hash'[k] = hash[k] /\ row'[k] = row[k]
                               /\ k \in rows' => k \in rows
                               /\ k \in split => k \in split'
                               /\ Sends(r, k) => Sends(r, k)'
      /\ split' = split
  BY <1>1, <1>3, <1>6
<1>. QED BY <1>5, <1>6, <1>7, <1>8, <1>9, AgreesStep

\* A sync that has the key to itself writes the row as it still is.
LEMMA SyncsKeyAgree ==
    ASSUME Base, Alone, Agrees, NEW r \in Requests, SyncsKey(r) PROVE Agrees'
<1>1. PICK c \in todo[r] :
        /\ pc[r] = "syncing"
        /\ Hset(c, Seeded(Synced(snap[r][c]), FALSE))
        /\ todo' = [todo EXCEPT ![r] = @ \ {c}]
        /\ Agreed(r, c)
        /\ UNCHANGED <<rows, row, pc, op, key, write, snap, clean>>
  BY DEF SyncsKey, dbVars
<1>2. /\ TypeOK /\ Role(r) /\ c \in Keys /\ snap[r][c] \in Row
      /\ todo'[r] = todo[r] \ {c}
      /\ \A s \in Requests \ {r} : todo'[s] = todo[s]
  BY <1>1 DEF Base, TypeOK
<1>. DEFINE full == Seeded(Synced(snap[r][c]), FALSE)
<1>3. /\ full \in Hashes /\ DOMAIN full = Fields
      /\ \A s \in Settings : full[s] = snap[r][c][s] \/ (s \in Numbers /\ full[s] = TRUE)
  <2>1. /\ Synced(snap[r][c]) \in Row
        /\ \A s \in Settings : \/ Synced(snap[r][c])[s] = snap[r][c][s]
                               \/ s \in Numbers /\ Synced(snap[r][c])[s] = TRUE
    BY <1>2, SyncedRow
  <2>2. /\ full \in Hashes /\ DOMAIN full = Fields
        /\ \A s \in Settings : full[s] = Synced(snap[r][c])[s]
    BY <2>1, SeededHash
  <2>. HIDE DEF full
  <2>. QED BY <2>1, <2>2
<1>. HIDE DEF full
<1>4. Hset(c, full)
  BY <1>1 DEF full
<1>5. OthersStay(r)
  BY <1>1, <1>2 DEF OthersStay
<1>6. /\ At(r, c)
      /\ \A k : ~Sends(r, k) /\ ~Sends(r, k)'
  BY <1>1, <1>2, AtPlaces DEF Sends, Role, Roles
<1>7. /\ \A k \in Keys \ {c} : k \in split => k \in split'
      /\ c \in split => c \in split' \/ (c \in clean[r] /\ At(r, c))
  BY <1>1, <1>6 DEF Agreed
<1>8. ASSUME c \in rows \ split' PROVE InLine(c)'
  <2>1. c \in clean[r]
    BY <1>1, <1>8 DEF Agreed
  <2>2. snap[r][c] = row[c]
    BY <1>1, <2>1 DEF Agrees, Going, Fresh
  <2>. QED BY <1>1, <1>2, <1>3, <1>4, <2>2, HsetSettings DEF InLine, Same, Fields
<1>9. Settled(c)'
  BY <1>1, <1>8 DEF Settled
<1>10. Fresh(r)'
  BY <1>1, <1>2 DEF Agrees, Going, Fresh
<1>11. Going(r)'
  BY <1>1, <1>6, <1>10 DEF Going, Carries, Completes, GaveUp
<1>12. /\ \A s \in Requests \ {r} : snap'[s] = snap[s] /\ clean'[s] \subseteq clean[s]
       /\ \A k \in Keys \ {c} : /\ hash'[k] = hash[k] /\ row'[k] = row[k]
                                /\ k \in rows' => k \in rows
                                /\ k \in split => k \in split'
                                /\ Sends(r, k) => Sends(r, k)'
  BY <1>1, <1>2, <1>3, <1>4, <1>6, <1>7, HsetSettings
<1>. QED BY <1>2, <1>5, <1>6, <1>7, <1>9, <1>11, <1>12, AgreesStep

\* A command given up on that lands all the same splits its key.
LEMMA LateAgrees ==
    ASSUME Base, Alone, Agrees, NEW w \in late, LateLands(w) \/ LateIsLost(w)
    PROVE  Agrees'
<1>0. PICK c \in Keys : c = w.key
  BY DEF Base, TypeOK
<1>1. /\ TypeOK /\ w.fields \in Hashes
      /\ UNCHANGED <<rows, row, pc, op, key, write, todo, snap, clean>>
      /\ \/ UNCHANGED <<hash, split>>
         \/ Hset(c, w.fields) /\ split' = split \union {c}
  BY <1>0 DEF LateLands, LateIsLost, dbVars, history, Base, TypeOK
<1>2. \A k \in Keys : k \in rows \ split' => k \in rows \ split /\ hash'[k] = hash[k]
  BY <1>1, HsetSettings
<1>3. \A t, k : Sends(t, k)' <=> Sends(t, k)
  BY <1>1 DEF Sends
<1>4. \A k \in Keys : Settled(k)'
  BY <1>1, <1>2, <1>3 DEF Agrees, Settled, InLine, Same
<1>5. ASSUME NEW t \in Requests PROVE Going(t)'
  <2>1. Going(t) /\ clean[t] \subseteq Keys
    BY DEF Agrees, Base, TypeOK
  <2>2. Carries(t)' /\ Fresh(t)' /\ GaveUp(t)'
    BY <1>1, <1>3, <2>1 DEF Going, Carries, Fresh, GaveUp
  <2>3. Completes(t)'
    BY <1>1, <1>2, <1>3, <2>1 DEF Going, Completes, Same
  <2>. QED BY <2>2, <2>3 DEF Going
<1>. QED BY <1>4, <1>5 DEF Agrees

\* Agrees holds always: a key in line stays so, or a write that brings it in
\* line again is under way, or it counts as split.
THEOREM AgreeInvariant == Spec => []Agrees
<1>1. Init => Agrees
  <2>. SUFFICES ASSUME Init PROVE Agrees
    OBVIOUS
  <2>1. /\ DOMAIN Seeded(Defaults, FALSE) = Fields
        /\ \A s \in Settings : Seeded(Defaults, FALSE)[s] = Defaults[s]
    BY SeededHash, DefaultsIsRow
  <2>2. \A k \in Keys : Settled(k)
    BY <2>1, ConstantsAssumption DEF Init, Settled, InLine, Same, Fields
  <2>3. \A t \in Requests : Going(t)
    BY DEF Init, Going, Carries, Completes, Fresh, GaveUp
  <2>. QED BY <2>2, <2>3 DEF Agrees
<1>2. Base /\ Alone /\ Agrees /\ [Next]_vars => Agrees'
  <2>. SUFFICES ASSUME Base, Alone, Agrees, [Next]_vars PROVE Agrees'
    OBVIOUS
  <2>1. ASSUME NEW r \in Requests, Handle(r) PROVE Agrees'
    BY <2>1, BeginningsAgree, SyncBeginsAgree, NothingWrittenAgrees,
       CreateInsertsAgree, UpdatesRowAgree, BootstrapCreatesAgree,
       SeedSucceedsAgree, PushesAgree, DeletesHashAgree, SyncsKeyAgree
    DEF Handle
  <2>2. CASE UNCHANGED vars
    BY <2>2 DEF vars, Agrees, Settled, InLine, Same, Sends, Going, Carries,
                Completes, Fresh, GaveUp
  <2>. QED BY <2>1, <2>2, LateAgrees DEF Next
<1>. QED BY <1>1, <1>2, BaseInvariant, AloneInvariant, PTL DEF Spec

\* Once nobody is at a key, the proxy reads the settings the dashboard shows,
\* unless requests overlapped at the key or a write to it failed, and but for
\* the zeros a sync replaced by the default.
THEOREM SettingsFollowRows == Spec => []SettingsAgree
<1>1. Base /\ Agrees => SettingsAgree
  <2>. SUFFICES ASSUME Base, Agrees, NEW k \in rows \ split,
                       \A r \in Requests : k \notin Touches(r),
                       NEW s \in Settings
                PROVE  /\ s \in DOMAIN hash[k]
                       /\ hash[k][s] \in {row[k][s], Synced(row[k])[s]}
    BY DEF SettingsAgree
  <2>1. \A t \in Requests : ~Sends(t, k)
    BY SendsAt DEF At
  <2>2. k \in Keys /\ row[k] \in Row
    BY DEF Base, TypeOK
  <2>3. Same(s, k)
    BY <2>1, <2>2 DEF Agrees, Settled, InLine
  <2>. QED BY <2>2, <2>3, SyncedRow DEF Same
<1>. QED BY <1>1, BaseInvariant, AgreeInvariant, PTL
=============================================================================
