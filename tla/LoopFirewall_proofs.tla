------------------------ MODULE LoopFirewall_proofs ------------------------
(***************************************************************************)
(* Theorems about LoopFirewall, for every set of calls, every pair of      *)
(* payload hashes per call, every window, TTL and number of faults.  The   *)
(* invariants, each inductive together with the type invariant:            *)
(*   WindowInv   a call of the last window is in its sorted set, and the   *)
(*               set outlives the call's part of the window;               *)
(*   CountInv    what a sorted set, and a count taken from it, may hold;   *)
(*   FirstInv    whose response a :first key holds;                        *)
(*   GateInv     how many calls were in the window when the hook let a     *)
(*               call with the kill switch pass.                           *)
(***************************************************************************)
EXTENDS LoopFirewall, FiniteSetTheorems, TLAPS

InWindow(e) == e.at > now - Window

\* The set of a recorded call holds it, and outlives its time in the window;
\* no call is recorded ahead of the clock.
WindowInv ==
    /\ TypeOK
    /\ \A c \in Calls : began[c] <= now
    /\ \A k \in Keys : \A e \in zset[k] : e.at <= now
    /\ \A r \in recorded :
         /\ r[2].at <= now
         /\ InWindow(r[2]) =>
              /\ r[2] \in zset[r[1]]
              /\ zExpiry[r[1]] >= r[2].at + KeyTTL

\* Call c is past the record of detector s.
HasRecorded(c, s) ==
    IF s = "hook"
    THEN pc[c] # "new" /\ ~(site[c] = "hook" /\ pc[c] \in {"count", "record"})
    ELSE site[c] = "inline" /\ pc[c] \notin {"count", "record"}

OneEntryPerDetector(S) ==
    \A e, f \in S : e.call = f.call /\ e.site = f.site => e = f

SetsAreGenuine ==
    \A k \in Keys :
        /\ OneEntryPerDetector(zset[k])
        /\ \A e \in zset[k] :
             k = KeyOf(e.call, e.site) /\ HasRecorded(e.call, e.site)

CountsAreGenuine ==
    \A c \in Calls :
        /\ OneEntryPerDetector(counted[c])
        /\ \A e \in counted[c] :
             /\ Key(c) = KeyOf(e.call, e.site)
             /\ e.call = c => site[c] = "inline" /\ e.site = "hook"

Positioned ==
    \A c \in Calls :
        /\ pc[c] \in {"new", "cache"} => site[c] = "hook"
        /\ pc[c] \in {"new", "cache", "count"} => counted[c] = {}
        /\ pc[c] \in {"upstream", "set", "store"} => site[c] = "inline"
        /\ pc[c] \in {"read", "touch"} => LoopDetected(c)
        /\ verdict[c] \in {"killed", "reused"} =>
             pc[c] = "done" /\ LoopDetected(c)

CountInv == TypeOK /\ SetsAreGenuine /\ CountsAreGenuine /\ Positioned

\* The response a call was given is another call's, for the same payload.
SourceIsGenuine(c) ==
    LET d == source[c] IN
    /\ d \in Calls \ {c}
    /\ verdict[d] = "good"
    /\ SentHash[d] = Key(c)

\* Before it is answered a call has no verdict, and it stores a good one.
VerdictFollowsPosition ==
    \A c \in Calls :
        /\ pc[c] \in {"set", "store"} => verdict[c] = "good"
        /\ pc[c] = "touch" => SourceIsGenuine(c)
        /\ pc[c] \notin {"set", "store", "done"} => verdict[c] = "none"

FirstIsGenuine ==
    \A k \in Keys :
        first[k] # None => verdict[first[k]] = "good" /\ SentHash[first[k]] = k

FirstInv ==
    /\ TypeOK
    /\ VerdictFollowsPosition
    /\ FirstIsGenuine
    /\ ReusedResponseIsGenuine

AllFinite ==
    /\ \A k \in Keys : IsFiniteSet(zset[k])
    /\ \A c \in Calls : IsFiniteSet(counted[c])

StillPrior(c) == {e \in prior[c] : InWindow(e)}

\* What preceded a call is recorded; the hook counts all of it; and a call with
\* the kill switch that got past the hook had fewer than Threshold - 1 before it.
Gate(c) ==
    /\ \A e \in prior[c] : <<HookHash[c], e>> \in recorded
    /\ site[c] = "hook" /\ pc[c] \in {"record", "expire"} /\ faults = 0 =>
         StillPrior(c) \subseteq counted[c]
    /\ c \in KillSwitch => pc[c] \notin {"read", "touch"}
    /\ c \in KillSwitch /\ faults = 0
         /\ (pc[c] = "cache" \/ site[c] = "inline") =>
           /\ IsFiniteSet(StillPrior(c))
           /\ Cardinality(StillPrior(c)) < Threshold - 1

GateInv == WindowInv /\ AllFinite /\ \A c \in Calls : Gate(c)

-----------------------------------------------------------------------------
(* The types *)

\* Both detectors of a call use Redis keys of the call's payloads.
LEMMA KeysAreKeys ==
    ASSUME NEW c \in Calls
    PROVE  /\ HookHash[c] \in Keys
           /\ SentHash[c] \in Keys
           /\ InlineHash(c) \in Keys
           /\ \A s : KeyOf(c, s) \in Keys
           /\ Key(c) \in Keys
  BY DEF Keys, InlineHash, KeyOf, Key

\* A command that fails is counted within the bound.
LEMMA FaultsStayTyped ==
    ASSUME TypeOK, CommandWorks \/ CommandFails
    PROVE  faults' \in 0 .. MaxFaults
  BY ConstantsAssumption DEF TypeOK, CommandWorks, CommandFails

\* A record is made at a time of the clock.
LEMMA EntryIsTyped ==
    ASSUME TypeOK, NEW c \in Calls
    PROVE  NewEntry(c) \in Entries
  BY DEF TypeOK, NewEntry, Entries, Times

\* Evicting keeps the sorted sets and their TTLs typed.
LEMMA EvictIsTyped ==
    ASSUME TypeOK, NEW c \in Calls, NEW s \in Sites, EvictFrom(c, s)
    PROVE  /\ zset' \in [Keys -> SUBSET Entries]
           /\ zExpiry' \in [Keys -> Expiries]
  BY KeysAreKeys, ConstantsAssumption DEF TypeOK, EvictFrom, Expiries

\* Recording keeps the sorted sets typed.
LEMMA AddIsTyped ==
    ASSUME TypeOK, NEW c \in Calls, AddEntry(c)
    PROVE  zset' \in [Keys -> SUBSET Entries]
  BY KeysAreKeys, EntryIsTyped DEF TypeOK, AddEntry

\* Refreshing a TTL keeps the TTLs and the history typed.
LEMMA RefreshIsTyped ==
    ASSUME TypeOK, NEW k \in Keys, RefreshTTL(k)
    PROVE  /\ zExpiry' \in [Keys -> Expiries]
           /\ recorded' \in SUBSET (Keys \X Entries)
  <1>1. now + KeyTTL \in Expiries /\ 0 \in Expiries
    BY ConstantsAssumption DEF TypeOK, Expiries, Times
  <1>2. zExpiry' \in [Keys -> Expiries]
    BY <1>1 DEF RefreshTTL, TypeOK
  <1>3. Pairs(k) \in SUBSET (Keys \X Entries)
    BY DEF Pairs, TypeOK
  <1>4. QED
    BY <1>2, <1>3 DEF RefreshTTL, TypeOK

\* Redis starts empty and every call at its beginning.
LEMMA TypeInit == Init => TypeOK
  BY ConstantsAssumption
  DEF Init, TypeOK, Positions, Verdicts, Times, Expiries, Sites

\* No command, answer or tick leads out of the types.
LEMMA TypeStep == TypeOK /\ [Next]_vars => TypeOK'
  <1> SUFFICES ASSUME TypeOK, [Next]_vars PROVE TypeOK'
    OBVIOUS
  <1> USE ConstantsAssumption, KeysAreKeys DEF Positions, Verdicts, Sites
  <1>1. ASSUME NEW c \in Calls, StartHook(c) PROVE TypeOK'
    <2>1. faults' \in 0 .. MaxFaults
      BY <1>1, FaultsStayTyped DEF StartHook
    <2>2. zset' \in [Keys -> SUBSET Entries] /\ zExpiry' \in [Keys -> Expiries]
      BY <1>1, EvictIsTyped DEF StartHook, TypeOK
    <2>3. pc' \in [Calls -> Positions] /\ prior' \in [Calls -> SUBSET Entries]
      BY <1>1 DEF StartHook, TypeOK, Goto
    <2>4. QED
      BY <1>1, <2>1, <2>2, <2>3 DEF StartHook, TypeOK
  <1>2. ASSUME NEW c \in Calls, StartInline(c) PROVE TypeOK'
    <2>1. faults' \in 0 .. MaxFaults
      BY <1>2, FaultsStayTyped DEF StartInline
    <2>2. zset' \in [Keys -> SUBSET Entries] /\ zExpiry' \in [Keys -> Expiries]
      BY <1>2, EvictIsTyped DEF StartInline, TypeOK
    <2>3. QED
      BY <1>2, <2>1, <2>2 DEF StartInline, TypeOK, Goto
  <1>3. ASSUME NEW c \in Calls, Count(c) PROVE TypeOK'
    <2>1. faults' \in 0 .. MaxFaults
      BY <1>3, FaultsStayTyped DEF Count
    <2>2. /\ pc' \in [Calls -> Positions]
          /\ counted' \in [Calls -> SUBSET Entries]
          /\ prior' \in [Calls -> SUBSET Entries]
      BY <1>3 DEF Count, TypeOK, PassOn, Goto, Forget
    <2>3. QED
      BY <1>3, <2>1, <2>2 DEF Count, TypeOK, redisVars
  <1>4. ASSUME NEW c \in Calls, Record(c) PROVE TypeOK'
    <2>1. faults' \in 0 .. MaxFaults
      BY <1>4, FaultsStayTyped DEF Record
    <2>2. zset' \in [Keys -> SUBSET Entries]
      BY <1>4, AddIsTyped DEF Record, TypeOK
    <2>3. pc' \in [Calls -> Positions] /\ began' \in [Calls -> Times]
      BY <1>4 DEF Record, TypeOK, Goto, Times
    <2>4. QED
      BY <1>4, <2>1, <2>2, <2>3 DEF Record, TypeOK
  <1>d. ASSUME NEW c \in Calls, Decide(c) PROVE TypeOK'
    <2>1. faults' \in 0 .. MaxFaults
      BY <1>d, FaultsStayTyped DEF Decide
    <2>2. /\ zExpiry' \in [Keys -> Expiries]
          /\ recorded' \in SUBSET (Keys \X Entries)
      BY <1>d, RefreshIsTyped DEF Decide, TypeOK
    <2>3. /\ pc' \in [Calls -> Positions]
          /\ counted' \in [Calls -> SUBSET Entries]
          /\ prior' \in [Calls -> SUBSET Entries]
          /\ verdict' \in [Calls -> Verdicts]
      BY <1>d DEF Decide, TypeOK, PassOn, Goto, Forget, Answer
    <2>4. QED
      BY <1>d, <2>1, <2>2, <2>3 DEF Decide, TypeOK
  <1>5. ASSUME NEW c \in Calls, ReadFirst(c) PROVE TypeOK'
    <2>1. faults' \in 0 .. MaxFaults
      BY <1>5, FaultsStayTyped DEF ReadFirst
    <2>2. source' \in [Calls -> Calls \union {None}]
      BY <1>5 DEF ReadFirst, TypeOK
    <2>3. /\ pc' \in [Calls -> Positions]
          /\ counted' \in [Calls -> SUBSET Entries]
          /\ prior' \in [Calls -> SUBSET Entries]
      BY <1>5 DEF ReadFirst, TypeOK, PassOn, Goto, Forget
    <2>4. QED
      BY <1>5, <2>1, <2>2, <2>3 DEF ReadFirst, TypeOK, redisVars
  <1>t. ASSUME NEW c \in Calls, TouchFirst(c) PROVE TypeOK'
    <2>1. faults' \in 0 .. MaxFaults
      BY <1>t, FaultsStayTyped DEF TouchFirst
    <2>2. now + KeyTTL \in Expiries /\ 0 \in Expiries
      BY DEF TypeOK, Expiries, Times
    <2>3. firstExpiry' \in [Keys -> Expiries]
      BY <1>t, <2>2 DEF TouchFirst, TypeOK
    <2>4. /\ pc' \in [Calls -> Positions]
          /\ prior' \in [Calls -> SUBSET Entries]
          /\ verdict' \in [Calls -> Verdicts]
      BY <1>t DEF TouchFirst, TypeOK, Goto, Forget, Answer
    <2>5. QED
      BY <1>t, <2>1, <2>3, <2>4 DEF TouchFirst, TypeOK
  <1>6. ASSUME NEW c \in Calls, AnsweredElsewhere(c) \/ UpstreamFails(c)
        PROVE TypeOK'
    BY <1>6 DEF AnsweredElsewhere, UpstreamFails, TypeOK, Answer, Goto, Forget,
                redisVars
  <1>7. ASSUME NEW c \in Calls, UpstreamSucceeds(c) PROVE TypeOK'
    <2>1. faults' \in 0 .. MaxFaults
      BY <1>7, FaultsStayTyped DEF UpstreamSucceeds
    <2>2. QED
      BY <1>7, <2>1 DEF UpstreamSucceeds, TypeOK, Goto, redisVars
  <1>8. ASSUME NEW c \in Calls, AfterSet(c) PROVE TypeOK'
    <2>1. faults' \in 0 .. MaxFaults
      BY <1>8, FaultsStayTyped DEF AfterSet
    <2>2. QED
      BY <1>8, <2>1 DEF AfterSet, TypeOK, SetFirst, Goto, Expiries, Times
  <1>9. ASSUME NEW c \in Calls, StoreFirst(c) PROVE TypeOK'
    BY <1>9 DEF StoreFirst, TypeOK, SetFirst, Goto, Expiries, Times
  <1>10. ASSUME Tick PROVE TypeOK'
    BY <1>10 DEF Tick, TypeOK, Expiries, Times
  <1>11. ASSUME UNCHANGED vars PROVE TypeOK'
    BY <1>11 DEF vars, TypeOK
  <1>12. QED
    BY <1>1, <1>2, <1>3, <1>4, <1>d, <1>5, <1>t, <1>6, <1>7, <1>8, <1>9, <1>10,
       <1>11
    DEF Next, Detect, Serve, Finished

\* The type invariant holds in every state.
THEOREM TypeCorrect == Spec => []TypeOK
  BY TypeInit, TypeStep, PTL DEF Spec

-----------------------------------------------------------------------------
(* The window *)

\* Nothing is recorded at the start.
LEMMA WindowInit == Init => WindowInv
  BY TypeInit, ConstantsAssumption DEF Init, WindowInv, TypeOK, Times

\* An eviction removes entries that left the window, and keeps the TTL of a
\* set that is not empty.
LEMMA EvictKeepsWindow ==
    ASSUME WindowInv, NEW c \in Calls, NEW s \in Sites, EvictFrom(c, s),
           UNCHANGED <<now, recorded>>, NEW r \in recorded, InWindow(r[2])
    PROVE  r[2] \in zset'[r[1]] /\ zExpiry'[r[1]] >= r[2].at + KeyTTL
  <1>1. r[1] \in Keys /\ r[2] \in Entries /\ r[2] \in zset[r[1]]
    BY DEF WindowInv, TypeOK
  <1>2. ~Expired(r[2])
    BY <1>1, ConstantsAssumption
    DEF InWindow, Expired, Entries, WindowInv, TypeOK, Times
  <1>3. QED
    BY <1>1, <1>2, KeysAreKeys DEF EvictFrom, WindowInv, TypeOK

\* A record enters its set at the present time and removes nothing.
LEMMA AddKeepsWindow ==
    ASSUME WindowInv, NEW c \in Calls, AddEntry(c)
    PROVE  \A k \in Keys : /\ zset[k] \subseteq zset'[k]
                           /\ \A e \in zset'[k] : e.at <= now
  <1>1. NewEntry(c).at <= now
    BY DEF NewEntry, WindowInv, TypeOK, Times
  <1>2. QED
    BY <1>1, KeysAreKeys DEF AddEntry, WindowInv, TypeOK

\* A refreshed TTL covers the window of every entry of the set, and of those
\* recorded earlier.
LEMMA RefreshKeepsWindow ==
    ASSUME WindowInv, NEW k \in Keys, RefreshTTL(k), UNCHANGED <<now, zset>>,
           NEW r \in recorded'
    PROVE  /\ r[2].at <= now
           /\ InWindow(r[2]) =>
                r[2] \in zset'[r[1]] /\ zExpiry'[r[1]] >= r[2].at + KeyTTL
  <1>0. r \in recorded \/ r \in Pairs(k)
    BY DEF RefreshTTL
  <1>1. CASE r \in Pairs(k)
    <2>1. r[1] = k /\ r[2] \in zset[k] /\ r[2] \in Entries
      BY <1>1 DEF Pairs, WindowInv, TypeOK
    <2>2. zExpiry'[k] = now + KeyTTL
      BY <2>1 DEF RefreshTTL, WindowInv, TypeOK
    <2>3. r[2].at <= now /\ r[2].at \in Int /\ now \in Int /\ KeyTTL \in Int
      BY <2>1, ConstantsAssumption DEF WindowInv, TypeOK, Entries, Times
    <2>4. zExpiry'[k] >= r[2].at + KeyTTL
      BY <2>2, <2>3
    <2>5. QED
      BY <2>1, <2>3, <2>4
  <1>2. CASE r \in recorded
    <2>1. /\ r[1] \in Keys /\ r[2] \in Entries /\ r[2].at <= now
          /\ InWindow(r[2]) =>
               r[2] \in zset[r[1]] /\ zExpiry[r[1]] >= r[2].at + KeyTTL
      BY <1>2 DEF WindowInv, TypeOK
    <2>2. r[2].at \in Int /\ now \in Int /\ KeyTTL \in Int
      BY <2>1, ConstantsAssumption DEF WindowInv, TypeOK, Entries, Times
    <2>3. CASE r[1] = k
      <3>1. zset[k] # {} => zExpiry'[k] = now + KeyTTL
        BY DEF RefreshTTL, WindowInv, TypeOK
      <3>2. QED
        BY <2>1, <2>2, <2>3, <3>1
    <2>4. CASE r[1] # k
      <3>1. zExpiry'[r[1]] = zExpiry[r[1]]
        BY <2>1, <2>4 DEF RefreshTTL, WindowInv, TypeOK
      <3>2. QED
        BY <2>1, <3>1
    <2>5. QED
      BY <2>3, <2>4
  <1>3. QED
    BY <1>0, <1>1, <1>2

\* Every step keeps the calls of the window in their sets.
LEMMA WindowStep == WindowInv /\ [Next]_vars => WindowInv'
  <1> SUFFICES ASSUME WindowInv, [Next]_vars PROVE WindowInv'
    OBVIOUS
  <1>0. TypeOK /\ TypeOK'
    BY TypeStep DEF WindowInv
  <1> DEFINE Begun == \A c \in Calls : began[c] <= now
             Past == \A k \in Keys : \A e \in zset[k] : e.at <= now
             Held(r) == /\ r[2].at <= now
                        /\ InWindow(r[2]) => /\ r[2] \in zset[r[1]]
                                             /\ zExpiry[r[1]] >= r[2].at + KeyTTL
             Remembered == \A r \in recorded : Held(r)
  <1>h. Begun /\ Past /\ Remembered
    BY DEF WindowInv
  <1>a. ASSUME UNCHANGED <<now, recorded>>, NEW c \in Calls, NEW s \in Sites,
               EvictFrom(c, s)
        PROVE  Past' /\ Remembered'
    <2>1. Remembered'
      BY <1>a, <1>h, EvictKeepsWindow DEF InWindow
    <2>2. \A k \in Keys : zset'[k] \subseteq zset[k]
      BY <1>a, <1>0, KeysAreKeys DEF EvictFrom, TypeOK
    <2>3. Past'
      BY <1>a, <1>h, <2>2
    <2>4. QED
      BY <2>1, <2>3
  <1>c. ASSUME UNCHANGED <<now, zset, zExpiry, recorded>>
        PROVE  Past' /\ Remembered'
    BY <1>c, <1>h DEF InWindow
  <1>1. ASSUME NEW c \in Calls, StartHook(c)
        PROVE  (Begun /\ Past /\ Remembered)'
    BY <1>1, <1>a, <1>c, <1>h DEF StartHook, Sites
  <1>2. ASSUME NEW c \in Calls, StartInline(c)
        PROVE  (Begun /\ Past /\ Remembered)'
    <2>1. Begun'
      BY <1>2, <1>0, <1>h DEF StartInline, TypeOK, Times
    <2>2. QED
      BY <2>1, <1>2, <1>a, <1>c DEF StartInline, Sites
  <1>3. ASSUME NEW c \in Calls, Record(c)
        PROVE  (Begun /\ Past /\ Remembered)'
    <2>1. Begun'
      BY <1>3, <1>0, <1>h DEF Record, TypeOK, Times
    <2>2. CASE AddEntry(c)
      <3>1. now' = now /\ zExpiry' = zExpiry /\ recorded' = recorded
        BY <1>3 DEF Record
      <3>2. \A k \in Keys : /\ zset[k] \subseteq zset'[k]
                            /\ \A e \in zset'[k] : e.at <= now
        BY <2>2, AddKeepsWindow
      <3>3. \A r \in recorded : r[1] \in Keys
        BY <1>0 DEF TypeOK
      <3>4. QED
        BY <1>h, <2>1, <3>1, <3>2, <3>3 DEF InWindow
    <2>3. QED
      BY <2>1, <2>2, <1>3, <1>c DEF Record
  <1>d. ASSUME NEW c \in Calls, Decide(c)
        PROVE  (Begun /\ Past /\ Remembered)'
    <2>1. UNCHANGED <<now, zset, began>> /\ Key(c) \in Keys
      BY <1>d, KeysAreKeys DEF Decide
    <2>2. Begun' /\ Past'
      BY <1>h, <2>1
    <2>3. CASE RefreshTTL(Key(c))
      BY <2>1, <2>2, <2>3, RefreshKeepsWindow DEF InWindow
    <2>4. QED
      BY <2>1, <2>2, <2>3, <1>d, <1>c DEF Decide
  <1>4. ASSUME Tick PROVE (Begun /\ Past /\ Remembered)'
    <2>1. now \in Int /\ now' = now + 1
      BY <1>4, <1>0 DEF Tick, TypeOK, Times
    <2>2. Begun'
      BY <2>1, <1>4, <1>0, <1>h DEF Tick, TypeOK, Times
    <2>p. Past'
      <3>1. \A k \in Keys : zset'[k] \subseteq zset[k]
        BY <1>4 DEF Tick
      <3>2. \A k \in Keys : \A e \in zset[k] : e.at \in Int
        BY <1>0 DEF TypeOK, Entries, Times
      <3>3. QED
        BY <1>h, <2>1, <3>1, <3>2
    <2>3. ASSUME NEW r \in recorded' PROVE Held(r)'
      <3>1. r \in recorded /\ r[2].at > now' - Window
        BY <1>4, <2>3 DEF Tick
      <3>2. r[1] \in Keys /\ r[2].at \in Nat /\ zExpiry[r[1]] \in Nat
        BY <1>0, <3>1, ConstantsAssumption DEF TypeOK, Entries, Expiries
      <3>3. InWindow(r[2]) /\ r[2].at <= now'
        BY <2>1, <3>1, <3>2, <1>h, ConstantsAssumption DEF InWindow
      <3>4. /\ r[2] \in zset[r[1]]
            /\ zExpiry[r[1]] >= r[2].at + KeyTTL
        BY <1>h, <3>1, <3>3
      <3>5. zExpiry[r[1]] > now'
        BY <2>1, <3>1, <3>2, <3>4, ConstantsAssumption
      <3>6. zExpiry'[r[1]] = zExpiry[r[1]] /\ zset'[r[1]] = zset[r[1]]
        BY <1>4, <2>1, <3>2, <3>5 DEF Tick
      <3>7. QED
        BY <3>3, <3>4, <3>6
    <2>4. QED
      BY <2>2, <2>p, <2>3
  <1>5. ASSUME UNCHANGED <<now, zset, zExpiry, began, recorded>>
        PROVE  (Begun /\ Past /\ Remembered)'
    BY <1>5, <1>c, <1>h
  <1>6. (Begun /\ Past /\ Remembered)'
    BY <1>1, <1>2, <1>3, <1>d, <1>4, <1>5
    DEF Next, Detect, Serve, Finished, vars, redisVars, Count, ReadFirst,
        TouchFirst, AnsweredElsewhere, UpstreamFails, UpstreamSucceeds,
        AfterSet, StoreFirst
  <1>7. QED
    BY <1>0, <1>6 DEF WindowInv

\* Once an EXPIRE has found a call in its sorted set, the set is not dropped, by
\* eviction or expiry, while the call is in the window, and it holds that call.
THEOREM WindowInvariant == Spec => []WindowInv
  BY WindowInit, WindowStep, PTL DEF Spec

\* No call that an EXPIRE found in its set is forgotten within the window.
THEOREM WindowRemembered == Spec => []WindowIsRemembered
  <1>1. WindowInv => WindowIsRemembered
    BY DEF WindowInv, WindowIsRemembered, InWindow
  <1>2. QED
    BY <1>1, WindowInvariant, PTL

-----------------------------------------------------------------------------
(* The stored responses *)

\* No response is stored at the start.
LEMMA FirstInit == Init => FirstInv
  BY TypeInit, ConstantsAssumption
  DEF Init, FirstInv, VerdictFollowsPosition, FirstIsGenuine,
      ReusedResponseIsGenuine

\* Every step keeps the stored and the reused responses genuine.
LEMMA FirstStep == FirstInv /\ [Next]_vars => FirstInv'
  <1> SUFFICES ASSUME FirstInv, [Next]_vars PROVE FirstInv'
    OBVIOUS
  <1>0. TypeOK /\ TypeOK'
    BY TypeStep DEF FirstInv
  <1> DEFINE Rest == /\ VerdictFollowsPosition
                     /\ FirstIsGenuine
                     /\ ReusedResponseIsGenuine
  <1> USE <1>0, KeysAreKeys, ConstantsAssumption
      DEF FirstInv, VerdictFollowsPosition, FirstIsGenuine,
          ReusedResponseIsGenuine, SourceIsGenuine, TypeOK, Goto, Answer
  <1>1. ASSUME NEW c \in Calls, StartHook(c) PROVE Rest'
    BY <1>1 DEF StartHook, Key
  <1>2. ASSUME NEW c \in Calls, StartInline(c) PROVE Rest'
    <2>1. VerdictFollowsPosition'
      BY <1>2 DEF StartInline, Key
    <2>2. FirstIsGenuine'
      BY <1>2 DEF StartInline, Key
    <2>3. ReusedResponseIsGenuine'
      BY <1>2 DEF StartInline, Key
    <2> QED
      BY <2>1, <2>2, <2>3
  <1>3. ASSUME NEW c \in Calls, Count(c) PROVE Rest'
    BY <1>3 DEF Count, PassOn, redisVars, Key
  <1>4. ASSUME NEW c \in Calls, Record(c) PROVE Rest'
    <2>1. VerdictFollowsPosition'
      BY <1>4 DEF Record, Key
    <2>2. FirstIsGenuine'
      BY <1>4 DEF Record, Key
    <2>3. ReusedResponseIsGenuine'
      BY <1>4 DEF Record, Key
    <2> QED
      BY <2>1, <2>2, <2>3
  <1>d. ASSUME NEW c \in Calls, Decide(c) PROVE Rest'
    <2>1. VerdictFollowsPosition'
      BY <1>d DEF Decide, PassOn, Key
    <2>2. FirstIsGenuine'
      BY <1>d DEF Decide, PassOn, Key
    <2>3. ReusedResponseIsGenuine'
      BY <1>d DEF Decide, PassOn, Key
    <2> QED
      BY <2>1, <2>2, <2>3
  <1>5. ASSUME NEW c \in Calls, ReadFirst(c) PROVE Rest'
    <2>1. VerdictFollowsPosition'
      BY <1>5 DEF ReadFirst, PassOn, redisVars, Key
    <2>2. FirstIsGenuine'
      BY <1>5 DEF ReadFirst, PassOn, redisVars, Key
    <2>3. ReusedResponseIsGenuine'
      BY <1>5 DEF ReadFirst, PassOn, redisVars, Key
    <2> QED
      BY <2>1, <2>2, <2>3
  <1>t. ASSUME NEW c \in Calls, TouchFirst(c) PROVE Rest'
    <2>1. VerdictFollowsPosition'
      BY <1>t DEF TouchFirst, Key
    <2>2. FirstIsGenuine'
      BY <1>t DEF TouchFirst, Key
    <2>3. ReusedResponseIsGenuine'
      BY <1>t DEF TouchFirst, Key
    <2> QED
      BY <2>1, <2>2, <2>3
  <1>6. ASSUME NEW c \in Calls, AnsweredElsewhere(c) \/ UpstreamFails(c)
        PROVE Rest'
    BY <1>6 DEF AnsweredElsewhere, UpstreamFails, redisVars, Key
  <1>7. ASSUME NEW c \in Calls, UpstreamSucceeds(c) PROVE Rest'
    BY <1>7 DEF UpstreamSucceeds, redisVars, Key
  <1>8. ASSUME NEW c \in Calls, AfterSet(c) PROVE Rest'
    BY <1>8 DEF AfterSet, SetFirst, Key
  <1>9. ASSUME NEW c \in Calls, StoreFirst(c) PROVE Rest'
    BY <1>9 DEF StoreFirst, SetFirst, InlineHash, Key
  <1>10. ASSUME Tick PROVE Rest'
    BY <1>10 DEF Tick, Key
  <1>11. ASSUME UNCHANGED vars PROVE Rest'
    BY <1>11 DEF vars, Key
  <1>12. QED
    BY <1>1, <1>2, <1>3, <1>4, <1>d, <1>5, <1>t, <1>6, <1>7, <1>8, <1>9, <1>10,
       <1>11
    DEF Next, Detect, Serve, Finished

\* A :first key only ever holds a valid response to the payload of that key.
THEOREM FirstInvariant == Spec => []FirstInv
  BY FirstInit, FirstStep, PTL DEF Spec

\* A call answered by the firewall gets another call's valid response to the
\* payload under which the firewall looked.
THEOREM ReusedGenuine == Spec => []ReusedResponseIsGenuine
  BY FirstInvariant, PTL DEF FirstInv

-----------------------------------------------------------------------------
(* The counts *)

\* Nothing is recorded or counted at the start.
LEMMA CountInit == Init => CountInv
  BY TypeInit
  DEF Init, CountInv, SetsAreGenuine, CountsAreGenuine, Positioned,
      OneEntryPerDetector

\* A call never gets back before the record of a detector.
LEMMA RecordedForGood ==
    ASSUME TypeOK, Positioned, [Next]_vars, NEW c \in Calls, NEW s \in Sites,
           HasRecorded(c, s)
    PROVE  HasRecorded(c, s)'
  <1> USE DEF HasRecorded, Positioned, TypeOK, Sites, Goto, Answer
  <1>1. ASSUME NEW d \in Calls, StartHook(d) PROVE HasRecorded(c, s)'
    BY <1>1 DEF StartHook
  <1>2. ASSUME NEW d \in Calls, StartInline(d) PROVE HasRecorded(c, s)'
    BY <1>2 DEF StartInline
  <1>3. ASSUME NEW d \in Calls, Count(d) PROVE HasRecorded(c, s)'
    BY <1>3 DEF Count, PassOn
  <1>4. ASSUME NEW d \in Calls, Record(d) PROVE HasRecorded(c, s)'
    BY <1>4 DEF Record
  <1>d. ASSUME NEW d \in Calls, Decide(d) PROVE HasRecorded(c, s)'
    BY <1>d DEF Decide, PassOn
  <1>5. ASSUME NEW d \in Calls, ReadFirst(d) PROVE HasRecorded(c, s)'
    BY <1>5 DEF ReadFirst, PassOn
  <1>t. ASSUME NEW d \in Calls, TouchFirst(d) PROVE HasRecorded(c, s)'
    BY <1>t DEF TouchFirst
  <1>6. ASSUME NEW d \in Calls, Serve(d) PROVE HasRecorded(c, s)'
    BY <1>6 DEF Serve, AnsweredElsewhere, UpstreamFails, UpstreamSucceeds,
                AfterSet, StoreFirst
  <1>7. ASSUME Tick \/ UNCHANGED vars PROVE HasRecorded(c, s)'
    BY <1>7 DEF Tick, vars
  <1>8. QED
    BY <1>1, <1>2, <1>3, <1>4, <1>d, <1>5, <1>t, <1>6, <1>7
    DEF Next, Detect, Finished

\* Every step keeps to the positions' meaning.
LEMMA PositionStep == CountInv /\ [Next]_vars => Positioned'
  <1> SUFFICES ASSUME CountInv, [Next]_vars PROVE Positioned'
    OBVIOUS
  <1> USE DEF CountInv, TypeOK, Positioned, LoopDetected, Goto, Answer
  <1>1. ASSUME NEW c \in Calls, StartHook(c) PROVE Positioned'
    BY <1>1 DEF StartHook
  <1>2. ASSUME NEW c \in Calls, StartInline(c) PROVE Positioned'
    BY <1>2 DEF StartInline
  <1>3. ASSUME NEW c \in Calls, Count(c) PROVE Positioned'
    BY <1>3 DEF Count, PassOn, Sites
  <1>4. ASSUME NEW c \in Calls, Record(c) PROVE Positioned'
    BY <1>4 DEF Record
  <1>d. ASSUME NEW c \in Calls, Decide(c) PROVE Positioned'
    BY <1>d DEF Decide, PassOn, Sites
  <1>5. ASSUME NEW c \in Calls, ReadFirst(c) PROVE Positioned'
    BY <1>5 DEF ReadFirst, PassOn, Sites
  <1>t. ASSUME NEW c \in Calls, TouchFirst(c) PROVE Positioned'
    BY <1>t DEF TouchFirst
  <1>6. ASSUME NEW c \in Calls, Serve(c) PROVE Positioned'
    BY <1>6 DEF Serve, AnsweredElsewhere, UpstreamFails, UpstreamSucceeds,
                AfterSet, StoreFirst
  <1>7. ASSUME Tick \/ UNCHANGED vars PROVE Positioned'
    BY <1>7 DEF Tick, vars
  <1>8. QED
    BY <1>1, <1>2, <1>3, <1>4, <1>d, <1>5, <1>t, <1>6, <1>7
    DEF Next, Detect, Finished

\* Dropping entries, by eviction or expiry, keeps the sets genuine.
LEMMA FewerEntriesAreGenuine ==
    ASSUME CountInv, [Next]_vars, \A k \in Keys : zset'[k] \subseteq zset[k]
    PROVE  SetsAreGenuine'
  <1> SUFFICES ASSUME NEW k \in Keys
               PROVE  /\ OneEntryPerDetector(zset[k])'
                      /\ \A e \in zset'[k] : /\ k = KeyOf(e.call, e.site)
                                             /\ HasRecorded(e.call, e.site)'
    BY DEF SetsAreGenuine
  <1>1. OneEntryPerDetector(zset[k])'
    BY DEF CountInv, SetsAreGenuine, OneEntryPerDetector
  <1>2. ASSUME NEW e \in zset'[k]
        PROVE  k = KeyOf(e.call, e.site) /\ HasRecorded(e.call, e.site)'
    <2>1. e \in zset[k] /\ e.call \in Calls /\ e.site \in Sites
      BY DEF CountInv, TypeOK, Entries
    <2>2. k = KeyOf(e.call, e.site) /\ HasRecorded(e.call, e.site)
      BY <2>1 DEF CountInv, SetsAreGenuine
    <2>3. QED
      BY <2>1, <2>2, RecordedForGood DEF CountInv
  <1>3. QED
    BY <1>1, <1>2

\* A detector records a call once.
LEMMA NewEntryIsGenuine ==
    ASSUME CountInv, NEW c \in Calls, Record(c), AddEntry(c)
    PROVE  SetsAreGenuine'
  <1> PICK n : n = NewEntry(c)
    OBVIOUS
  <1>0. [Next]_vars /\ Key(c) \in Keys /\ n \in Entries
    BY KeysAreKeys, EntryIsTyped DEF Next, Detect, CountInv
  <1>1. n.call = c /\ n.site = site[c] /\ site[c] \in Sites
    BY DEF NewEntry, CountInv, TypeOK
  <1>2. ~HasRecorded(c, site[c])
    BY <1>1 DEF HasRecorded, Record, Sites
  <1>3. HasRecorded(n.call, n.site)'
    BY <1>1
    DEF HasRecorded, Record, Goto, CountInv, TypeOK, Sites
  <1>4. SUFFICES ASSUME NEW k \in Keys
                 PROVE  /\ OneEntryPerDetector(zset[k])'
                        /\ \A e \in zset'[k] : /\ k = KeyOf(e.call, e.site)
                                               /\ HasRecorded(e.call, e.site)'
    BY DEF SetsAreGenuine
  <1>5. \A e \in zset[k] : /\ e.call \in Calls /\ e.site \in Sites
                           /\ k = KeyOf(e.call, e.site)
                           /\ HasRecorded(e.call, e.site)
                           /\ HasRecorded(e.call, e.site)'
    <2>1. ASSUME NEW e \in zset[k]
          PROVE  /\ e.call \in Calls /\ e.site \in Sites
                 /\ k = KeyOf(e.call, e.site)
                 /\ HasRecorded(e.call, e.site)
      BY DEF CountInv, TypeOK, Entries, SetsAreGenuine
    <2>2. QED
      BY <2>1, <1>0, RecordedForGood DEF CountInv
  <1>6. CASE k # Key(c)
    <2>1. zset'[k] = zset[k]
      BY <1>6 DEF AddEntry, CountInv, TypeOK
    <2>2. QED
      BY <2>1, <1>5 DEF CountInv, SetsAreGenuine, OneEntryPerDetector
  <1>7. CASE k = Key(c)
    <2>1. zset'[k] = zset[k] \union {n}
      BY <1>7 DEF AddEntry, CountInv, TypeOK
    <2>2. \A e \in zset[k] : ~(e.call = n.call /\ e.site = n.site)
      BY <1>1, <1>2, <1>5
    <2>3. OneEntryPerDetector(zset[k])'
      <3>1. OneEntryPerDetector(zset[k])
        BY DEF CountInv, SetsAreGenuine
      <3>2. QED
        BY <2>1, <2>2, <3>1 DEF OneEntryPerDetector
    <2>4. k = KeyOf(n.call, n.site) /\ HasRecorded(n.call, n.site)'
      BY <1>1, <1>3, <1>7 DEF Key
    <2>5. QED
      BY <1>5, <2>1, <2>3, <2>4
  <1>8. QED
    BY <1>6, <1>7

\* Every step keeps the sorted sets genuine.
LEMMA SetsStep == CountInv /\ [Next]_vars => SetsAreGenuine'
  <1> SUFFICES ASSUME CountInv, [Next]_vars PROVE SetsAreGenuine'
    OBVIOUS
  <1>0. TypeOK
    BY DEF CountInv
  <1>1. ASSUME NEW c \in Calls, NEW s \in Sites, EvictFrom(c, s)
        PROVE  SetsAreGenuine'
    BY <1>1, <1>0, KeysAreKeys, FewerEntriesAreGenuine DEF EvictFrom, TypeOK
  <1>2. ASSUME UNCHANGED zset PROVE SetsAreGenuine'
    BY <1>2, FewerEntriesAreGenuine
  <1>3. ASSUME NEW c \in Calls, StartHook(c) \/ StartInline(c)
        PROVE  SetsAreGenuine'
    BY <1>1, <1>2, <1>3 DEF StartHook, StartInline, Sites
  <1>4. ASSUME NEW c \in Calls, Record(c) PROVE SetsAreGenuine'
    BY <1>2, <1>4, NewEntryIsGenuine DEF Record
  <1>5. ASSUME Tick PROVE SetsAreGenuine'
    BY <1>0, <1>5, FewerEntriesAreGenuine DEF Tick, TypeOK
  <1>6. QED
    BY <1>2, <1>3, <1>4, <1>5
    DEF Next, Detect, Serve, Finished, vars, redisVars, Count, Decide, ReadFirst,
        TouchFirst, AnsweredElsewhere, UpstreamFails, UpstreamSucceeds,
        AfterSet, StoreFirst

\* What holds of a sorted set holds of the count a detector takes of it, and
\* a detector forgets its count when it passes the call on.
LEMMA CountsStep == CountInv /\ [Next]_vars => CountsAreGenuine'
  <1> SUFFICES ASSUME CountInv, [Next]_vars PROVE CountsAreGenuine'
    OBVIOUS
  <1> USE DEF CountInv, TypeOK, CountsAreGenuine, OneEntryPerDetector, Key
  <1>1. ASSUME UNCHANGED <<counted, site>> PROVE CountsAreGenuine'
    BY <1>1
  <1>2. ASSUME NEW c \in Calls, PassOn(c), UNCHANGED site
        PROVE  CountsAreGenuine'
    BY <1>2 DEF PassOn
  <1>3. ASSUME NEW c \in Calls, StartInline(c) PROVE CountsAreGenuine'
    BY <1>3 DEF StartInline, Positioned
  <1>4. ASSUME NEW c \in Calls, Count(c), UNCHANGED site,
               counted' = [counted EXCEPT ![c] = zset[Key(c)]]
        PROVE  CountsAreGenuine'
    <2>1. Key(c) \in Keys
      BY KeysAreKeys
    <2>2. \A e \in zset[Key(c)] : /\ Key(c) = KeyOf(e.call, e.site)
                                  /\ HasRecorded(e.call, e.site)
                                  /\ e.site \in Sites
      BY <2>1 DEF SetsAreGenuine, Entries
    <2>3. \A e \in zset[Key(c)] :
             e.call = c => site[c] = "inline" /\ e.site = "hook"
      BY <1>4, <2>2 DEF Count, HasRecorded, Sites
    <2>4. OneEntryPerDetector(zset[Key(c)])
      BY <2>1 DEF SetsAreGenuine
    <2>5. QED
      BY <1>4, <2>2, <2>3, <2>4
  <1>5. ASSUME NEW c \in Calls, Count(c) PROVE CountsAreGenuine'
    BY <1>1, <1>2, <1>4, <1>5 DEF Count
  <1>6. ASSUME NEW c \in Calls,
               Record(c) \/ Decide(c) \/ ReadFirst(c) \/ TouchFirst(c)
        PROVE  CountsAreGenuine'
    BY <1>1, <1>2, <1>6 DEF Record, Decide, ReadFirst, TouchFirst
  <1>7. QED
    BY <1>1, <1>3, <1>5, <1>6
    DEF Next, Detect, Serve, Finished, vars, StartHook, AnsweredElsewhere,
        UpstreamFails, UpstreamSucceeds, AfterSet, StoreFirst, Tick

\* A sorted set, and a count of it, holds at most one entry per call and
\* detector, all of its own payload; a detector never counts the entry it is
\* about to add.
THEOREM CountInvariant == Spec => []CountInv
  <1>1. CountInv /\ [Next]_vars => CountInv'
    BY TypeStep, PositionStep, SetsStep, CountsStep DEF CountInv
  <1>2. QED
    BY <1>1, CountInit, PTL DEF Spec

\* The firewall never blocks a call that no other call with its payload
\* preceded: a call's own double entry is one below the threshold.
THEOREM BlockedForARepeat == Spec => []BlockedOnlyForARepeat
  <1>1. ASSUME CountInv, NEW c \in Calls \ Bypass,
               verdict[c] \in {"killed", "reused"}
        PROVE  \E e \in counted[c] :
                  /\ e.call # c
                  /\ {HookHash[e.call], InlineHash(e.call)}
                       \cap {HookHash[c], SentHash[c]} # {}
    <2>1. LoopDetected(c)
      BY <1>1 DEF CountInv, Positioned
    <2>2. \E e \in counted[c] : e.call # c
      <3> SUFFICES ASSUME \A e \in counted[c] : e.call = c PROVE FALSE
        OBVIOUS
      <3>1. \A e, f \in counted[c] : e = f
        BY <1>1 DEF CountInv, CountsAreGenuine, OneEntryPerDetector
      <3>2. counted[c] = {} \/ \E e : counted[c] = {e}
        BY <3>1
      <3>3. Cardinality(counted[c]) \in {0, 1}
        BY <3>2, FS_EmptySet, FS_Singleton
      <3>4. QED
        BY <2>1, <3>3, ConstantsAssumption DEF LoopDetected
    <2>3. PICK e \in counted[c] : e.call # c
      BY <2>2
    <2>4. KeyOf(c, site[c]) = KeyOf(e.call, e.site)
      BY <1>1, <2>3 DEF CountInv, CountsAreGenuine, Key
    <2>5. QED
      BY <2>3, <2>4, <1>1 DEF KeyOf, InlineHash
  <1>2. CountInv => BlockedOnlyForARepeat
    BY <1>1 DEF BlockedOnlyForARepeat
  <1>3. QED
    BY <1>2, CountInvariant, PTL

-----------------------------------------------------------------------------
(* The kill switch *)

\* Sorted sets and counts are finite: they grow by one entry at a time.
LEMMA FiniteStep == TypeOK /\ AllFinite /\ [Next]_vars => AllFinite'
  <1> SUFFICES ASSUME TypeOK, AllFinite, [Next]_vars PROVE AllFinite'
    OBVIOUS
  <1> DEFINE SetsFinite == \A k \in Keys : IsFiniteSet(zset[k])
             CountsFinite == \A c \in Calls : IsFiniteSet(counted[c])
  <1>1. ASSUME \A k \in Keys : zset'[k] \subseteq zset[k] PROVE SetsFinite'
    BY <1>1, FS_Subset DEF AllFinite
  <1>2. ASSUME UNCHANGED zset PROVE SetsFinite'
    BY <1>2 DEF AllFinite
  <1>3. ASSUME NEW c \in Calls, AddEntry(c) PROVE SetsFinite'
    <2>1. \A k \in Keys : IsFiniteSet(zset[k] \union {NewEntry(c)})
      BY FS_AddElement DEF AllFinite
    <2>2. \A k \in Keys : \/ zset'[k] = zset[k]
                          \/ zset'[k] = zset[k] \union {NewEntry(c)}
      BY <1>3 DEF AddEntry, TypeOK
    <2>3. QED
      BY <2>1, <2>2 DEF AllFinite
  <1>4. ASSUME NEW c \in Calls, NEW s \in Sites, EvictFrom(c, s)
        PROVE  SetsFinite'
    BY <1>1, <1>4 DEF EvictFrom, TypeOK
  <1>5. ASSUME Tick PROVE SetsFinite'
    BY <1>1, <1>5 DEF Tick, TypeOK
  <1>6. SetsFinite'
    BY <1>2, <1>3, <1>4, <1>5
    DEF Next, Detect, Serve, Finished, vars, redisVars, StartHook, StartInline,
        Count, Record, Decide, ReadFirst, TouchFirst, AnsweredElsewhere,
        UpstreamFails, UpstreamSucceeds, AfterSet, StoreFirst, Sites
  <1>7. ASSUME UNCHANGED counted PROVE CountsFinite'
    BY <1>7 DEF AllFinite
  <1>8. ASSUME NEW c \in Calls, PassOn(c) PROVE CountsFinite'
    BY <1>8, FS_EmptySet DEF PassOn, AllFinite, TypeOK
  <1>9. ASSUME NEW c \in Calls, counted' = [counted EXCEPT ![c] = zset[Key(c)]]
        PROVE  CountsFinite'
    BY <1>9, KeysAreKeys DEF AllFinite, TypeOK
  <1>10. CountsFinite'
    BY <1>7, <1>8, <1>9
    DEF Next, Detect, Serve, Finished, vars, StartHook, StartInline, Count,
        Record, Decide, ReadFirst, TouchFirst, AnsweredElsewhere,
        UpstreamFails, UpstreamSucceeds, AfterSet, StoreFirst, Tick
  <1>11. QED
    BY <1>6, <1>10 DEF AllFinite

\* Nothing is recorded before the first call.
LEMMA GateInit == Init => GateInv
  BY WindowInit, FS_EmptySet DEF Init, GateInv, AllFinite, Gate, StillPrior

\* Fewer calls of the window are fewer.
LEMMA FewerStillPrior ==
    ASSUME NEW S, NEW T, T \subseteq S, IsFiniteSet(S),
           Cardinality(S) < Threshold - 1
    PROVE  IsFiniteSet(T) /\ Cardinality(T) < Threshold - 1
  <1>1. IsFiniteSet(T) /\ Cardinality(T) <= Cardinality(S)
    BY FS_Subset
  <1>2. Cardinality(T) \in Nat /\ Cardinality(S) \in Nat
    BY <1>1, FS_CardinalityType
  <1>3. QED
    BY <1>1, <1>2, ConstantsAssumption

\* What the hook counts covers the calls of the window that preceded it.
LEMMA CountCoversPrior ==
    ASSUME GateInv, NEW c \in Calls, site[c] = "hook"
    PROVE  StillPrior(c) \subseteq zset[Key(c)]
  <1>1. \A e \in StillPrior(c) : <<HookHash[c], e>> \in recorded /\ InWindow(e)
    BY DEF GateInv, Gate, StillPrior
  <1>2. \A e \in StillPrior(c) : e \in zset[HookHash[c]]
    BY <1>1 DEF GateInv, WindowInv
  <1>3. QED
    BY <1>2 DEF Key, KeyOf

\* A step that leaves a call where it is keeps what its gate established.
LEMMA GateOfTheOthers ==
    ASSUME GateInv, [Next]_vars, NEW c \in Calls,
           pc'[c] = pc[c], site'[c] = site[c], counted'[c] = counted[c],
           prior'[c] \subseteq prior[c], now' >= now,
           \A e \in prior'[c] : <<HookHash[c], e>> \in recorded',
           faults' = 0 => faults = 0
    PROVE  Gate(c)'
  <1>1. StillPrior(c)' \subseteq StillPrior(c)
    <2>1. prior[c] \subseteq Entries /\ now \in Int /\ now' \in Int
      BY TypeStep DEF GateInv, WindowInv, TypeOK, Times
    <2>2. QED
      BY <2>1, ConstantsAssumption DEF StillPrior, InWindow, Entries
  <1>2. Gate(c)
    BY DEF GateInv
  <1>3. QED
    BY <1>1, <1>2, FewerStillPrior DEF Gate

\* A failed command is never forgotten.
LEMMA FaultsOnlyRise ==
    ASSUME TypeOK, [Next]_vars, faults' = 0
    PROVE  faults = 0
  <1>1. \/ UNCHANGED faults
        \/ CommandFails
    BY DEF Next, Detect, Serve, Finished, vars, StartHook, StartInline, Count,
           Record, Decide, ReadFirst, TouchFirst, AnsweredElsewhere,
           UpstreamFails, UpstreamSucceeds, AfterSet, StoreFirst, Tick,
           CommandWorks
  <1>2. QED
    BY <1>1 DEF CommandFails, TypeOK

\* The calls that preceded a call are recorded for as long as they are in the
\* window.
LEMMA PriorIsRecorded ==
    ASSUME GateInv, [Next]_vars, NEW c \in Calls, NEW e \in prior'[c]
    PROVE  <<HookHash[c], e>> \in recorded'
  <1>0. /\ TypeOK
        /\ \A x \in prior[c] : <<HookHash[c], x>> \in recorded
    BY DEF GateInv, WindowInv, Gate
  <1>1. CASE prior'[c] \subseteq prior[c] /\ recorded \subseteq recorded'
    BY <1>0, <1>1
  <1>2. ASSUME NEW d \in Calls, StartHook(d) PROVE <<HookHash[c], e>> \in recorded'
    <2>1. recorded' = recorded
      BY <1>2 DEF StartHook
    <2>2. CASE c = d
      BY <1>0, <1>2, <2>1, <2>2 DEF StartHook, TypeOK
    <2>3. CASE c # d
      BY <1>0, <1>1, <1>2, <2>1, <2>3 DEF StartHook, TypeOK
    <2>4. QED
      BY <2>2, <2>3
  <1>3. ASSUME Tick PROVE <<HookHash[c], e>> \in recorded'
    BY <1>0, <1>3 DEF Tick
  <1>4. ASSUME NEW d \in Calls,
               \/ PassOn(d) \/ Forget(d) \/ UNCHANGED prior,
               recorded \subseteq recorded'
        PROVE  <<HookHash[c], e>> \in recorded'
    BY <1>0, <1>1, <1>4 DEF PassOn, Forget, TypeOK
  <1>5. ASSUME NEW d \in Calls, StartInline(d) \/ Count(d) \/ ReadFirst(d)
        PROVE  <<HookHash[c], e>> \in recorded'
    BY <1>4, <1>5 DEF StartInline, Count, ReadFirst, Answer
  <1>6. ASSUME NEW d \in Calls, Record(d) \/ Decide(d) \/ TouchFirst(d)
        PROVE  <<HookHash[c], e>> \in recorded'
    <2>1. recorded \subseteq recorded'
      BY <1>6 DEF Record, Decide, TouchFirst, RefreshTTL
    <2>2. QED
      BY <1>4, <1>6, <2>1 DEF Record, Decide, TouchFirst, Answer
  <1>7. ASSUME NEW d \in Calls, Serve(d) PROVE <<HookHash[c], e>> \in recorded'
    BY <1>4, <1>7 DEF Serve, AnsweredElsewhere, UpstreamFails, UpstreamSucceeds,
                      AfterSet, StoreFirst, Answer
  <1>8. ASSUME UNCHANGED vars PROVE <<HookHash[c], e>> \in recorded'
    BY <1>1, <1>8 DEF vars
  <1>9. QED
    BY <1>2, <1>3, <1>5, <1>6, <1>7, <1>8 DEF Next, Detect, Finished

\* The hook lets a call with the kill switch pass only if it counted fewer
\* than Threshold - 1 calls, and it counted all that preceded the call.
LEMMA HookGates ==
    ASSUME GateInv, NEW c \in KillSwitch \cap Calls, site[c] = "hook",
           pc[c] = "expire", faults = 0, ~LoopDetected(c)
    PROVE  /\ IsFiniteSet(StillPrior(c))
           /\ Cardinality(StillPrior(c)) < Threshold - 1
  <1>1. StillPrior(c) \subseteq counted[c] /\ IsFiniteSet(counted[c])
    BY DEF GateInv, Gate, AllFinite
  <1>2. Cardinality(counted[c]) \in Nat
    BY <1>1, FS_CardinalityType
  <1>3. Cardinality(counted[c]) < Threshold - 1
    BY <1>2, ConstantsAssumption DEF LoopDetected
  <1>4. QED
    BY <1>1, <1>3, FewerStillPrior

\* Every step of a call, and of the others, keeps the gates shut.
LEMMA GateStep == GateInv /\ Positioned /\ [Next]_vars => GateInv'
  <1> SUFFICES ASSUME GateInv, Positioned, [Next]_vars PROVE GateInv'
    OBVIOUS
  <1>0. TypeOK /\ WindowInv' /\ AllFinite'
    BY WindowStep, FiniteStep DEF GateInv, WindowInv
  <1> SUFFICES ASSUME NEW c \in Calls PROVE Gate(c)'
    BY <1>0 DEF GateInv
  <1>g. Gate(c)
    BY DEF GateInv
  <1>f. faults' = 0 => faults = 0
    BY <1>0, FaultsOnlyRise
  <1>p. \A e \in prior'[c] : <<HookHash[c], e>> \in recorded'
    BY PriorIsRecorded
  <1>o. ASSUME pc'[c] = pc[c], site'[c] = site[c], counted'[c] = counted[c],
               prior'[c] \subseteq prior[c], now' >= now
        PROVE  Gate(c)'
    BY <1>o, <1>f, <1>p, GateOfTheOthers
  <1>s. now \in Int
    BY <1>0 DEF TypeOK, Times
  <1>1. ASSUME NEW d \in Calls, d # c, Detect(d) \/ Serve(d) PROVE Gate(c)'
    <2>1. /\ pc'[c] = pc[c] /\ site'[c] = site[c] /\ counted'[c] = counted[c]
          /\ prior'[c] = prior[c] /\ now' = now
      BY <1>0, <1>1
      DEF Detect, Serve, TypeOK, StartHook, StartInline, Count, Record, Decide,
          ReadFirst, TouchFirst, AnsweredElsewhere, UpstreamFails,
          UpstreamSucceeds, AfterSet, StoreFirst, Goto, PassOn, Answer, Forget
    <2>2. QED
      BY <1>s, <2>1, <1>o
  <1>2. CASE StartHook(c)
    <2>1. pc'[c] \in {"count", "cache"} /\ site'[c] = site[c] /\ site[c] = "hook"
      BY <1>0, <1>2 DEF StartHook, TypeOK, Goto, Positioned
    <2>2. pc'[c] = "cache" => faults' # 0
      BY <1>0, <1>2 DEF StartHook, TypeOK, Goto, CommandFails
    <2>3. QED
      BY <2>1, <2>2, <1>p DEF Gate
  <1>3. CASE StartInline(c)
    <2>1. /\ pc[c] = "cache" /\ pc'[c] = "count" /\ site'[c] = "inline"
          /\ prior' = prior /\ now' = now
      BY <1>0, <1>3 DEF StartInline, TypeOK, Goto
    <2>2. QED
      BY <1>f, <1>g, <1>p, <2>1 DEF Gate, StillPrior, InWindow
  <1>4. CASE Count(c)
    <2>1. /\ pc[c] = "count" /\ pc'[c] \in {"record", "cache", "upstream"}
          /\ now' = now /\ site' = site
          /\ site[c] \in Sites
      BY <1>0, <1>4 DEF Count, PassOn, Goto, TypeOK
    <2>2. CASE site[c] = "inline"
      <3>1. prior' = prior
        BY <2>2, <1>4 DEF Count
      <3>2. QED
        BY <1>f, <1>g, <1>p, <2>1, <2>2, <3>1 DEF Gate, StillPrior, InWindow
    <2>3. CASE site[c] = "hook"
      <3>1. CASE /\ counted' = [counted EXCEPT ![c] = zset[Key(c)]]
                 /\ Goto(c, "record") /\ UNCHANGED prior
        <4>1. StillPrior(c)' \subseteq counted'[c] /\ pc'[c] = "record"
          BY <1>0, <2>1, <2>3, <3>1, CountCoversPrior
          DEF StillPrior, InWindow, TypeOK, Goto
        <4>2. QED
          BY <1>p, <2>1, <2>3, <4>1 DEF Gate
      <3>2. CASE CommandFails /\ PassOn(c)
        <4>1. faults' # 0 /\ pc'[c] = "cache"
          BY <1>0, <2>3, <3>2 DEF CommandFails, PassOn, Goto, TypeOK
        <4>2. QED
          BY <1>p, <2>1, <2>3, <4>1 DEF Gate
      <3>3. QED
        BY <2>3, <3>1, <3>2, <1>4 DEF Count
    <2>4. QED
      BY <2>1, <2>2, <2>3 DEF Sites
  <1>r. CASE Record(c)
    <2>1. /\ pc[c] = "record" /\ pc'[c] = "expire"
          /\ now' = now /\ site' = site /\ counted' = counted /\ prior' = prior
          /\ site[c] \in Sites
      BY <1>0, <1>r DEF Record, Goto, TypeOK
    <2>2. StillPrior(c)' = StillPrior(c)
      BY <2>1 DEF StillPrior, InWindow
    <2>3. QED
      BY <1>f, <1>g, <1>p, <2>1, <2>2 DEF Gate
  <1>5. CASE Decide(c)
    <2>1. /\ pc[c] = "expire" /\ now' = now /\ site' = site
          /\ site[c] \in Sites
          /\ pc'[c] \in {"cache", "upstream", "done", "read"}
      BY <1>0, <1>5 DEF Decide, PassOn, Answer, Goto, TypeOK
    <2>2. c \in KillSwitch => pc'[c] \notin {"read", "touch"}
      BY <1>0, <1>5 DEF Decide, PassOn, Answer, Goto, TypeOK
    <2>3. prior'[c] \subseteq prior[c]
      BY <1>0, <1>5 DEF Decide, PassOn, Answer, Forget, TypeOK
    <2>4. StillPrior(c)' \subseteq StillPrior(c)
      BY <2>1, <2>3 DEF StillPrior, InWindow
    <2>5. CASE site[c] = "inline"
      BY <1>f, <1>g, <1>p, <2>1, <2>2, <2>4, <2>5, FewerStillPrior DEF Gate
    <2>6. CASE site[c] = "hook"
      <3>1. pc'[c] = "cache" => ~LoopDetected(c)
        BY <1>0, <1>5 DEF Decide, Answer, Goto, TypeOK
      <3>2. c \in KillSwitch /\ faults' = 0 /\ pc'[c] = "cache" =>
              IsFiniteSet(StillPrior(c)') /\ Cardinality(StillPrior(c)') < Threshold - 1
        BY <1>f, <2>1, <2>4, <2>6, <3>1, HookGates, FewerStillPrior
      <3>3. QED
        BY <1>p, <2>1, <2>2, <2>6, <3>2 DEF Gate
    <2>7. QED
      BY <2>1, <2>5, <2>6 DEF Sites
  <1>6. CASE ReadFirst(c) \/ TouchFirst(c)
    <2>1. /\ pc[c] \in {"read", "touch"}
          /\ pc'[c] \in {"touch", "cache", "upstream", "done"}
          /\ now' = now /\ site' = site
      BY <1>0, <1>6 DEF ReadFirst, TouchFirst, PassOn, Answer, Goto, TypeOK
    <2>2. c \notin KillSwitch
      BY <1>g, <2>1 DEF Gate
    <2>3. QED
      BY <1>p, <2>1, <2>2 DEF Gate
  <1>7. CASE Serve(c)
    <2>1. /\ pc[c] \in {"cache", "upstream", "set", "store"}
          /\ pc'[c] \in {"set", "store", "done"}
          /\ now' = now /\ site' = site
          /\ prior'[c] \subseteq prior[c]
      BY <1>0, <1>7
      DEF Serve, AnsweredElsewhere, UpstreamFails, UpstreamSucceeds, AfterSet,
          StoreFirst, Answer, Goto, Forget, TypeOK
    <2>2. StillPrior(c)' \subseteq StillPrior(c)
      BY <2>1 DEF StillPrior, InWindow
    <2>3. QED
      BY <1>f, <1>g, <1>p, <2>1, <2>2, FewerStillPrior DEF Gate
  <1>8. CASE Tick
    <2>1. /\ now' >= now /\ prior'[c] \subseteq prior[c]
          /\ UNCHANGED <<pc, site, counted>>
      BY <1>0, <1>s, <1>8 DEF Tick
    <2>2. QED
      BY <1>o, <2>1
  <1>9. CASE UNCHANGED vars
    BY <1>9, <1>o, <1>s DEF vars
  <1>10. QED
    BY <1>1, <1>2, <1>3, <1>4, <1>r, <1>5, <1>6, <1>7, <1>8, <1>9
    DEF Next, Detect, Finished

\* A call with the kill switch that got past the hook with no fault has fewer
\* than Threshold - 1 entries of the window before it.
THEOREM GateInvariant == Spec => []GateInv
  <1>1. CountInv => Positioned
    BY DEF CountInv
  <1>2. QED
    BY <1>1, CountInvariant, GateInit, GateStep, PTL DEF Spec

\* With the kill switch on and Redis answering, no call goes upstream after
\* Threshold - 1 identical calls of the window.
THEOREM RunawayStopped == Spec => RunawayIsStopped
  <1> DEFINE Before(c) == {x \in prior[c] : x.at > now - Window}
             Blocked(c) ==
               (pc[c] # "upstream" /\ pc'[c] = "upstream" /\ faults' = 0) =>
                  Cardinality({e.call : e \in Before(c)}) < Threshold - 1
  <1>1. ASSUME GateInv, Positioned, [Next]_vars,
               NEW c \in KillSwitch
        PROVE  Blocked(c)
    <2> SUFFICES ASSUME pc[c] # "upstream", pc'[c] = "upstream", faults' = 0
                 PROVE  Cardinality({e.call : e \in Before(c)}) < Threshold - 1
      OBVIOUS
    <2>0. c \in Calls /\ TypeOK /\ faults = 0 /\ Gate(c)
      BY <1>1, FaultsOnlyRise, ConstantsAssumption DEF GateInv, WindowInv
    <2>1. site[c] = "inline"
      <3>1. ASSUME NEW d \in Calls, Goto(d, "cache") \/ Goto(d, "done") \/
                   Goto(d, "count") \/ Goto(d, "record") \/ Goto(d, "expire") \/
                   Goto(d, "read") \/ Goto(d, "touch") \/ Goto(d, "set") \/
                   Goto(d, "store") \/ UNCHANGED pc
            PROVE  FALSE
        BY <2>0, <3>1 DEF Goto, TypeOK
      <3>2. ASSUME NEW d \in Calls, PassOn(d) PROVE site[c] = "inline"
        <4>1. site[d] # "hook"
          BY <3>1, <3>2 DEF PassOn
        <4>2. Goto(d, "upstream")
          BY <3>2, <4>1 DEF PassOn
        <4>3. d = c
          BY <2>0, <4>2 DEF Goto, TypeOK
        <4>4. QED
          BY <2>0, <4>1, <4>3 DEF TypeOK, Sites
      <3>3. ASSUME NEW d \in Calls, Detect(d) PROVE site[c] = "inline"
        BY <3>1, <3>2, <3>3 DEF Detect, StartHook, StartInline, Count, Record,
          Decide, ReadFirst, TouchFirst, Answer
      <3>4. ASSUME NEW d \in Calls, Serve(d) PROVE FALSE
        BY <3>1, <3>4 DEF Serve, AnsweredElsewhere, UpstreamFails,
          UpstreamSucceeds, AfterSet, StoreFirst, Answer
      <3>5. ~(Tick \/ Finished \/ UNCHANGED vars)
        BY <2>0 DEF Tick, Finished, vars
      <3>6. QED
        BY <1>1, <3>3, <3>4, <3>5 DEF Next
    <2>2. IsFiniteSet(Before(c)) /\ Cardinality(Before(c)) < Threshold - 1
      BY <1>1, <2>0, <2>1 DEF Gate, StillPrior, InWindow
    <2> DEFINE D == {e.call : e \in Before(c)}
               f == [e \in Before(c) |-> e.call]
    <2>3. f \in Surjection(Before(c), D)
      BY DEF Surjection
    <2>4. IsFiniteSet(D) /\ Cardinality(D) <= Cardinality(Before(c))
      BY <2>2, <2>3, FS_Surjection
    <2>5. Cardinality(D) \in Nat /\ Cardinality(Before(c)) \in Nat
      BY <2>2, <2>4, FS_CardinalityType
    <2>6. QED
      BY <2>2, <2>4, <2>5, ConstantsAssumption
  <1>2. GateInv /\ CountInv /\ [Next]_vars => [\A c \in KillSwitch : Blocked(c)]_vars
    BY <1>1 DEF CountInv
  <1>3. QED
    BY <1>2, GateInvariant, CountInvariant, PTL DEF Spec, RunawayIsStopped
=============================================================================
