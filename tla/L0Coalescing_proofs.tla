------------------------ MODULE L0Coalescing_proofs ------------------------
(***************************************************************************)
(* Theorems about L0Coalescing, for every set of requests, every TTL and   *)
(* every number of faults.  The argument has four parts, each inductive    *)
(* together with the type invariant:                                       *)
(*   LeaseHeld     a running lease is the lock in Redis, with its TTL;     *)
(*   WaitCovers    a follower's deadline is no earlier than the expiry of  *)
(*                 the lock it lost to;                                    *)
(*   Stages        what each position of a handler says about its result;  *)
(*   Published     what the response key holds.                            *)
(***************************************************************************)
EXTENDS L0Coalescing, TLAPS

Waiting(r) == pc[r] \in {"waiting", "missed"}

LeaseHeld ==
    \A r \in Requests :
        /\ InFlight(r) /\ lease[r] > 0 =>
             /\ lock[LockKey(r)] = r
             /\ lockLeft[LockKey(r)] = lease[r]
        /\ pc[r] = "new" \/ Waiting(r) => lease[r] = 0

LockHasTTL == \A k \in LockKeys : lock[k] # None => lockLeft[k] > 0

HolderHasStarted == \A k \in LockKeys : \A s \in Requests :
    lock[k] = s => pc[s] # "new"

WaitCovers ==
    \A r \in Requests :
        Waiting(r) =>
            /\ lostTo[r] \in Requests
            /\ pc[lostTo[r]] # "new"
            /\ lock[LockKey(r)] = lostTo[r] => lockLeft[LockKey(r)] <= wait[r]

Stages ==
    \A r \in Requests :
        /\ pc[r] \in {"new", "waiting", "missed", "run"} =>
             outcome[r] = "none" /\ answer[r] = None
        /\ pc[r] = "upstream" => outcome[r] = "called" /\ answer[r] = None
        /\ pc[r] \in {"unlock", "publish"} => leads[r]
        /\ pc[r] = "publish" => Captured(r)

\* Request s is finished and its captured result may be handed out under k.
Settled(s, k) ==
    /\ s \in Requests
    /\ k = RespKey(s)
    /\ Captured(s)
    /\ leads[s]
    /\ pc[s] = "done"

Published == \A k \in RespKeys : resp[k] # None => Settled(resp[k], k)

Shared ==
    \A r \in Requests :
        answer[r] \notin {None, Local, r} =>
            /\ Settled(answer[r], RespKey(r))
            /\ outcome[r] = "none"

LockInv == TypeOK /\ LeaseHeld /\ LockHasTTL /\ HolderHasStarted /\ WaitCovers
AnswerInv == TypeOK /\ Stages /\ Published /\ Shared

-----------------------------------------------------------------------------
\* The keys of a request are keys of the two Redis tables.
LEMMA KeysAreKeys ==
    ASSUME NEW r \in Requests
    PROVE  LockKey(r) \in LockKeys /\ RespKey(r) \in RespKeys
  BY DEF LockKeys, RespKeys

\* Redis starts empty and every handler at its beginning.
LEMMA TypeInit == Init => TypeOK
  BY ConstantsAssumption DEF Init, TypeOK, Positions, Outcomes

\* No command, timer or fault leads out of the types.
LEMMA TypeStep == TypeOK /\ [Next]_vars => TypeOK'
  <1> SUFFICES ASSUME TypeOK, [Next]_vars PROVE TypeOK'
    OBVIOUS
  <1> USE ConstantsAssumption DEF TypeOK, Positions, Outcomes
  <1>1. ASSUME NEW r \in Requests, AcquireLock(r) PROVE TypeOK'
    BY <1>1, KeysAreKeys DEF AcquireLock, TakeLock, RedisWorks
  <1>2. ASSUME NEW r \in Requests, LoseLock(r) PROVE TypeOK'
    BY <1>2, KeysAreKeys DEF LoseLock, RedisWorks, redisVars
  <1>3. ASSUME NEW r \in Requests, AcquireFailsOpen(r) PROVE TypeOK'
    <2>1. faults' \in 0 .. MaxFaults
      BY <1>3 DEF AcquireFailsOpen, RedisFails, Fault
    <2>2. QED
      BY SMTT(30), <2>1, <1>3, KeysAreKeys DEF AcquireFailsOpen, TakeLock
  <1>4. ASSUME NEW r \in Requests, WaitHit(r) PROVE TypeOK'
    BY <1>4, KeysAreKeys DEF WaitHit, RedisWorks, LeaveWait, redisVars
  <1>5. ASSUME NEW r \in Requests, WaitMiss(r) PROVE TypeOK'
    BY <1>5 DEF WaitMiss, RedisWorks, RedisFails, Fault, redisVars
  <1>6. ASSUME NEW r \in Requests, KeepPolling(r) PROVE TypeOK'
    BY <1>6 DEF KeepPolling, redisVars
  <1>7. ASSUME NEW r \in Requests, GiveUpWaiting(r) PROVE TypeOK'
    BY <1>7 DEF GiveUpWaiting, LeaveWait, redisVars
  <1>8. ASSUME NEW r \in Requests, ServeLocally(r) PROVE TypeOK'
    BY <1>8 DEF ServeLocally, WayOut, redisVars
  <1>9. ASSUME NEW r \in Requests, CallUpstream(r) PROVE TypeOK'
    BY <1>9 DEF CallUpstream, redisVars
  <1>10. ASSUME NEW r \in Requests, UpstreamReturns(r) PROVE TypeOK'
    BY <1>10 DEF UpstreamReturns, WayOut, redisVars
  <1>11. ASSUME NEW r \in Requests, Unlock(r) PROVE TypeOK'
    <2>1. faults' \in 0 .. MaxFaults
      BY <1>11 DEF Unlock, RedisWorks, RedisFails, Fault
    <2>2. /\ lock' \in [LockKeys -> Requests \union {None}]
          /\ lockLeft' \in [LockKeys -> 0 .. LockTTL]
      BY <1>11, KeysAreKeys DEF Unlock, DeleteOwnLock
    <2>3. QED
      BY <2>1, <2>2, <1>11 DEF Unlock
  <1>12. ASSUME NEW r \in Requests, Publish(r) PROVE TypeOK'
    <2>1. faults' \in 0 .. MaxFaults
      BY <1>12 DEF Publish, RedisWorks, RedisFails, Fault
    <2>2. QED
      BY <2>1, <1>12, KeysAreKeys DEF Publish
  <1>13. ASSUME NEW r \in Requests, Disconnect(r) PROVE TypeOK'
    BY <1>13 DEF Disconnect, Fault, redisVars
  <1>14. ASSUME NEW r \in Requests, Crash(r) PROVE TypeOK'
    BY <1>14 DEF Crash, Fault, LeaveWait, redisVars
  <1>15. ASSUME Tick PROVE TypeOK'
    BY <1>15 DEF Tick, Dec
  <1>16. ASSUME UNCHANGED vars PROVE TypeOK'
    BY <1>16 DEF vars
  <1>17. QED
    BY <1>1, <1>2, <1>3, <1>4, <1>5, <1>6, <1>7, <1>8, <1>9, <1>10, <1>11,
       <1>12, <1>13, <1>14, <1>15, <1>16 DEF Next, Handle, Finished

\* The type invariant holds in every state.
THEOREM TypeCorrect == Spec => []TypeOK
  BY TypeInit, TypeStep, PTL DEF Spec

-----------------------------------------------------------------------------
(* The lock *)

\* No lock is held and no lease runs at the start.
LEMMA LockInit == Init => LockInv
  BY TypeInit, ConstantsAssumption
  DEF Init, LockInv, LeaseHeld, LockHasTTL, HolderHasStarted, WaitCovers,
      InFlight, Waiting

\* Every step of a handler, the clock or the environment keeps the leases,
\* the locks and the followers' deadlines tied together.
LEMMA LockStep == LockInv /\ [Next]_vars => LockInv'
  <1> SUFFICES ASSUME LockInv, [Next]_vars PROVE LockInv'
    OBVIOUS
  <1>0. TypeOK /\ TypeOK'
    BY TypeStep DEF LockInv
  <1> DEFINE Rest == LeaseHeld /\ LockHasTTL /\ HolderHasStarted /\ WaitCovers
  <1> USE <1>0, KeysAreKeys, ConstantsAssumption
      DEF LockInv, LeaseHeld, LockHasTTL, HolderHasStarted, WaitCovers,
          TypeOK, InFlight, Waiting
  <1>1. ASSUME NEW r \in Requests, AcquireLock(r) PROVE Rest'
    BY <1>1 DEF AcquireLock, TakeLock
  <1>2. ASSUME NEW r \in Requests, LoseLock(r) PROVE Rest'
    BY <1>2 DEF LoseLock, redisVars
  <1>3. ASSUME NEW r \in Requests, AcquireFailsOpen(r) PROVE Rest'
    <2>1. CASE TakeLock(r)
      BY <2>1, <1>3 DEF AcquireFailsOpen, TakeLock
    <2>2. CASE UNCHANGED <<lock, lockLeft, lease>>
      BY <2>2, <1>3 DEF AcquireFailsOpen
    <2>3. QED
      BY <2>1, <2>2, <1>3 DEF AcquireFailsOpen
  <1>4. ASSUME NEW r \in Requests, WaitHit(r) PROVE Rest'
    BY <1>4 DEF WaitHit, LeaveWait, redisVars
  <1>5. ASSUME NEW r \in Requests, WaitMiss(r) PROVE Rest'
    BY <1>5 DEF WaitMiss, redisVars
  <1>6. ASSUME NEW r \in Requests, KeepPolling(r) PROVE Rest'
    BY <1>6 DEF KeepPolling, redisVars
  <1>7. ASSUME NEW r \in Requests, GiveUpWaiting(r) PROVE Rest'
    BY <1>7 DEF GiveUpWaiting, LeaveWait, redisVars
  <1>8. ASSUME NEW r \in Requests, ServeLocally(r) PROVE Rest'
    BY <1>8 DEF ServeLocally, WayOut, redisVars
  <1>9. ASSUME NEW r \in Requests, CallUpstream(r) PROVE Rest'
    BY <1>9 DEF CallUpstream, redisVars
  <1>10. ASSUME NEW r \in Requests, UpstreamReturns(r) PROVE Rest'
    BY <1>10 DEF UpstreamReturns, WayOut, redisVars
  <1>11. ASSUME NEW r \in Requests, Unlock(r) PROVE Rest'
    BY <1>11 DEF Unlock, DeleteOwnLock
  <1>12. ASSUME NEW r \in Requests, Publish(r) PROVE Rest'
    BY <1>12 DEF Publish
  <1>13. ASSUME NEW r \in Requests, Disconnect(r) PROVE Rest'
    BY <1>13 DEF Disconnect, redisVars
  <1>14. ASSUME NEW r \in Requests, Crash(r) PROVE Rest'
    BY <1>14 DEF Crash, LeaveWait, redisVars
  <1>15. ASSUME Tick PROVE Rest'
    BY <1>15 DEF Tick, Dec
  <1>16. ASSUME UNCHANGED vars PROVE Rest'
    BY <1>16 DEF vars
  <1>17. QED
    BY <1>1, <1>2, <1>3, <1>4, <1>5, <1>6, <1>7, <1>8, <1>9, <1>10, <1>11,
       <1>12, <1>13, <1>14, <1>15, <1>16 DEF Next, Handle, Finished

\* A running lease is a held lock with as much time left, every held lock
\* has a TTL and a holder that has started, and a follower's deadline covers
\* what is left of the lock it lost to.
THEOREM LockInvariant == Spec => []LockInv
  BY LockInit, LockStep, PTL DEF Spec

\* No two identical requests work under a running lease.
THEOREM SingleFlight == Spec => []SingleFlightWithinLease
  <1>1. LockInv => SingleFlightWithinLease
    BY DEF LockInv, LeaseHeld, SingleFlightWithinLease
  <1>2. QED
    BY <1>1, LockInvariant, PTL

\* A follower that times out has outlasted the lock it was waiting behind:
\* the deadline of L0Wait is never earlier than that lock's expiry.
THEOREM FollowersOutwait == Spec => []FollowerOutwaitsLeader
  <1>1. LockInv => FollowerOutwaitsLeader
    BY KeysAreKeys, ConstantsAssumption
    DEF LockInv, TypeOK, WaitCovers, LockHasTTL, Waiting, FollowerOutwaitsLeader
  <1>2. QED
    BY <1>1, LockInvariant, PTL

\* A held lock goes away only by expiry or by its holder's own release.
THEOREM LockNeverStolen == Spec => LockIsNeverStolen
  <1> DEFINE Kept(k) ==
        (lock[k] # None /\ lock'[k] # lock[k]) =>
            \/ lockLeft[k] = 1 /\ lock'[k] = None
            \/ /\ pc[lock[k]] = "unlock"
               /\ pc'[lock[k]] # "unlock"
               /\ lock'[k] = None
  <1>1. TypeOK /\ [Next]_vars => [\A k \in LockKeys : Kept(k)]_vars
    <2> SUFFICES ASSUME TypeOK, [Next]_vars, NEW k \in LockKeys PROVE Kept(k)
      OBVIOUS
    <2> USE KeysAreKeys DEF TypeOK
    <2>1. ASSUME NEW r \in Requests, AcquireLock(r) PROVE Kept(k)
      BY <2>1 DEF AcquireLock, TakeLock
    <2>2. ASSUME NEW r \in Requests, AcquireFailsOpen(r) PROVE Kept(k)
      BY <2>2 DEF AcquireFailsOpen, TakeLock
    <2>3. ASSUME NEW r \in Requests, Unlock(r) PROVE Kept(k)
      BY <2>3 DEF Unlock, DeleteOwnLock
    <2>4. ASSUME Tick PROVE Kept(k)
      BY <2>4 DEF Tick
    <2>5. ASSUME UNCHANGED lock PROVE Kept(k)
      BY <2>5
    <2>6. QED
      BY <2>1, <2>2, <2>3, <2>4, <2>5
      DEF Next, Handle, Finished, vars, redisVars, LoseLock, WaitHit, WaitMiss,
          KeepPolling, GiveUpWaiting, ServeLocally, CallUpstream,
          UpstreamReturns, Publish, Disconnect, Crash
  <1>2. QED
    BY <1>1, TypeCorrect, PTL DEF Spec, LockIsNeverStolen

-----------------------------------------------------------------------------
(* The answers *)

\* Nothing is published or answered at the start.
LEMMA AnswerInit == Init => AnswerInv
  BY TypeInit, ConstantsAssumption
  DEF Init, AnswerInv, Stages, Published, Shared

\* Every step keeps the published responses and the answers genuine.
LEMMA AnswerStep == AnswerInv /\ [Next]_vars => AnswerInv'
  <1> SUFFICES ASSUME AnswerInv, [Next]_vars PROVE AnswerInv'
    OBVIOUS
  <1>0. TypeOK /\ TypeOK'
    BY TypeStep DEF AnswerInv
  <1> DEFINE Rest == Stages /\ Published /\ Shared
  <1> USE <1>0, KeysAreKeys, ConstantsAssumption
      DEF AnswerInv, Stages, Published, Shared, Settled, Captured, TypeOK
  <1>1. ASSUME NEW r \in Requests, AcquireLock(r) PROVE Rest'
    BY <1>1 DEF AcquireLock, TakeLock
  <1>2. ASSUME NEW r \in Requests, LoseLock(r) PROVE Rest'
    BY <1>2 DEF LoseLock, redisVars
  <1>3. ASSUME NEW r \in Requests, AcquireFailsOpen(r) PROVE Rest'
    BY <1>3 DEF AcquireFailsOpen
  <1>4. ASSUME NEW r \in Requests, WaitHit(r) PROVE Rest'
    BY <1>4 DEF WaitHit, LeaveWait, redisVars
  <1>5. ASSUME NEW r \in Requests, WaitMiss(r) PROVE Rest'
    BY <1>5 DEF WaitMiss, redisVars
  <1>6. ASSUME NEW r \in Requests, KeepPolling(r) PROVE Rest'
    BY <1>6 DEF KeepPolling, redisVars
  <1>7. ASSUME NEW r \in Requests, GiveUpWaiting(r) PROVE Rest'
    BY <1>7 DEF GiveUpWaiting, LeaveWait, redisVars
  <1>8. ASSUME NEW r \in Requests, ServeLocally(r) PROVE Rest'
    BY <1>8 DEF ServeLocally, WayOut, redisVars
  <1>9. ASSUME NEW r \in Requests, CallUpstream(r) PROVE Rest'
    BY <1>9 DEF CallUpstream, redisVars
  <1>10. ASSUME NEW r \in Requests, UpstreamReturns(r) PROVE Rest'
    BY <1>10 DEF UpstreamReturns, WayOut, redisVars
  <1>11. ASSUME NEW r \in Requests, Unlock(r) PROVE Rest'
    BY <1>11 DEF Unlock
  <1>12. ASSUME NEW r \in Requests, Publish(r) PROVE Rest'
    BY <1>12 DEF Publish
  <1>13. ASSUME NEW r \in Requests, Disconnect(r) PROVE Rest'
    BY <1>13 DEF Disconnect, redisVars
  <1>14. ASSUME NEW r \in Requests, Crash(r) PROVE Rest'
    BY <1>14 DEF Crash, Running, LeaveWait, redisVars
  <1>15. ASSUME Tick PROVE Rest'
    BY <1>15 DEF Tick, Dec
  <1>16. ASSUME UNCHANGED vars PROVE Rest'
    BY <1>16 DEF vars
  <1>17. QED
    BY <1>1, <1>2, <1>3, <1>4, <1>5, <1>6, <1>7, <1>8, <1>9, <1>10, <1>11,
       <1>12, <1>13, <1>14, <1>15, <1>16 DEF Next, Handle, Finished

\* What is published in Redis, and what was handed out from there, is the
\* captured result of a leader that has finished its upstream call.
THEOREM AnswerInvariant == Spec => []AnswerInv
  BY AnswerInit, AnswerStep, PTL DEF Spec

\* A coalesced answer is the captured result of a finished leader with the
\* same virtual key and payload hash, and its reader made no upstream call.
THEOREM CoalescedAnswersAreGenuine == Spec => []CoalescedAnswerIsGenuine
  <1>1. AnswerInv => CoalescedAnswerIsGenuine
    BY DEF AnswerInv, Shared, Settled, Captured, RespKey, CoalescedAnswerIsGenuine
  <1>2. QED
    BY <1>1, AnswerInvariant, PTL

-----------------------------------------------------------------------------
(* Refinement of CoalescedCall *)

Called == {r \in Requests : outcome[r] # "none"}
Shareable == {r \in Requests : outcome[r] \in {"good", "appErr"}}

\* A step of one handler that gives no answer and ends no call stutters.
LEMMA Stutters ==
    ASSUME UNCHANGED <<outcome, answer>>
    PROVE  UNCHANGED Promise!promiseVars
  BY DEF Promise!promiseVars

\* A step of the protocol is a step of CoalescedCall or changes nothing there.
LEMMA PromiseStep == AnswerInv /\ [Next]_vars => [Promise!Next]_Promise!promiseVars
  <1> SUFFICES ASSUME AnswerInv, [Next]_vars
               PROVE  [Promise!Next]_Promise!promiseVars
    OBVIOUS
  <1> USE DEF AnswerInv, TypeOK, Stages
  <1>1. ASSUME NEW r \in Requests, CallUpstream(r) PROVE Promise!Call(r)
    <2>1. /\ outcome[r] = "none" /\ answer[r] = None
          /\ outcome' = [outcome EXCEPT ![r] = "called"]
          /\ UNCHANGED answer
      BY <1>1 DEF CallUpstream
    <2>2. Called' = Called \union {r} /\ Shareable' = Shareable /\ r \notin Called
      BY <2>1 DEF Called, Shareable
    <2>3. QED
      BY <2>1, <2>2 DEF Promise!Call, Called, Shareable
  <1>2. ASSUME NEW r \in Requests, UpstreamReturns(r) PROVE Promise!Return(r)
    <2>1. /\ outcome[r] = "called" /\ answer[r] = None
          /\ answer' = [answer EXCEPT ![r] = r]
      BY <1>2 DEF UpstreamReturns
    <2>2. PICK o \in {"good", "appErr", "bad"} :
            outcome' = [outcome EXCEPT ![r] = o]
      BY <1>2 DEF UpstreamReturns
    <2>3. Called' = Called /\ r \in Called
      BY <2>1, <2>2 DEF Called
    <2>4. Shareable' = Shareable \union {r} \/ Shareable' = Shareable
      <3>1. CASE o = "bad"
        BY <3>1, <2>1, <2>2 DEF Shareable
      <3>2. CASE o # "bad"
        BY <3>2, <2>1, <2>2 DEF Shareable
      <3>3. QED
        BY <3>1, <3>2
    <2>5. QED
      BY <2>1, <2>3, <2>4 DEF Promise!Return, Called, Shareable
  <1>3. ASSUME NEW r \in Requests, ServeLocally(r) PROVE Promise!AnswerLocally(r)
    BY <1>3 DEF ServeLocally, Promise!AnswerLocally
  <1>4. ASSUME NEW r \in Requests, WaitHit(r) PROVE Promise!Share(r)
    <2>1. Settled(resp[RespKey(r)], RespKey(r))
      BY <1>4, KeysAreKeys DEF WaitHit, Published
    <2>2. Promise!Interchangeable(r, resp[RespKey(r)])
      BY <2>1 DEF Settled, RespKey, Promise!Interchangeable
    <2>3. QED
      BY <1>4, <2>1, <2>2 DEF WaitHit, Settled, Captured, Promise!Share
  <1>5. ASSUME UNCHANGED <<outcome, answer>> PROVE UNCHANGED Promise!promiseVars
    BY <1>5, Stutters
  <1>6. QED
    BY <1>1, <1>2, <1>3, <1>4, <1>5
    DEF Next, Handle, Finished, vars, redisVars, AcquireLock, LoseLock,
        AcquireFailsOpen, WaitMiss, KeepPolling, GiveUpWaiting, Unlock, Publish,
        Disconnect, Crash, Tick, Promise!Next

\* The lock protocol implements the promise of CoalescedCall.
THEOREM KeepsPromise == Spec => ImplementsPromise
  <1>1. Init => Promise!Init
    BY DEF Init, Promise!Init
  <1>2. QED
    BY <1>1, PromiseStep, AnswerInvariant, PTL
    DEF Spec, ImplementsPromise, Promise!Spec
=============================================================================
