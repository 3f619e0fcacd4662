--------------------------- MODULE CoalescedCall ---------------------------
(***************************************************************************)
(* What in-flight coalescing promises to the clients of the proxy, with    *)
(* no lock, no polling and no time in it: every request is answered at     *)
(* most once, either out of a cache, or by its own upstream call, or with  *)
(* the shareable result of ANOTHER call for the same virtual key and the   *)
(* same payload.  A request that shares an answer never pays for a call.   *)
(***************************************************************************)

CONSTANTS
    Requests,       \* identities of the requests (one handler invocation each)
    VirtualKey,     \* [Requests -> virtual keys], after the per-user suffix
    PayloadHash,    \* [Requests -> SHA-256 digests of the payloads]
    None,           \* no answer yet
    Local           \* answered from L1, L2 or the loop cache

VARIABLES
    called,         \* the requests that made an upstream call
    shareable,      \* the calls whose result may be handed to others
    answer          \* [Requests -> Requests \union {None, Local}]

promiseVars == <<called, shareable, answer>>

Interchangeable(r, s) ==
    /\ VirtualKey[r] = VirtualKey[s]
    /\ PayloadHash[r] = PayloadHash[s]

Init ==
    /\ called = {}
    /\ shareable = {}
    /\ answer = [r \in Requests |-> None]

Call(r) ==
    /\ answer[r] = None
    /\ r \notin called
    /\ called' = called \union {r}
    /\ UNCHANGED <<shareable, answer>>

Return(r) ==
    /\ answer[r] = None
    /\ r \in called
    /\ answer' = [answer EXCEPT ![r] = r]
    /\ \/ shareable' = shareable \union {r}
       \/ UNCHANGED shareable
    /\ UNCHANGED called

AnswerLocally(r) ==
    /\ answer[r] = None
    /\ r \notin called
    /\ answer' = [answer EXCEPT ![r] = Local]
    /\ UNCHANGED <<called, shareable>>

Share(r) ==
    /\ answer[r] = None
    /\ r \notin called
    /\ \E s \in shareable :
         /\ Interchangeable(r, s)
         /\ answer' = [answer EXCEPT ![r] = s]
    /\ UNCHANGED <<called, shareable>>

Next ==
    \E r \in Requests : Call(r) \/ Return(r) \/ AnswerLocally(r) \/ Share(r)

Spec == Init /\ [][Next]_promiseVars
=============================================================================
