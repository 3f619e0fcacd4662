---------------------------- MODULE UpstreamCall ----------------------------
(***************************************************************************)
(* What ProxyHandler does once no cache has answered a request             *)
(* (internal/handlers/proxy.go): it asks the primary provider and retries, *)
(* fails over to the fallback provider, resolves tool calls of the model   *)
(* from the tool cache instead of handing them to the client, asks again   *)
(* with their results, and sends and stores the answer (stream.go).        *)
(*                                                                         *)
(* One exchange with a provider is one step, and so is one lookup of the   *)
(* tool cache (optiagent/tool_dedup.go).  Requests meet nowhere but there: *)
(* those of a virtual key share its entries, which any request may add and *)
(* which expire.                                                           *)
(***************************************************************************)
EXTENDS Naturals, Sequences

CONSTANTS
    Requests,
    Kinds,          \* stream: isStream; fallback: the key has a fallback
                    \* provider; unkept: X-Bypass-Cache or a Zero-Log key
    Tenants, VirtualKey,
    Calls, Tool,    \* tool calls, and the tool of each
    Near,           \* pairs of calls whose arguments are within the tolerance
    Tag,            \* a name, of a tenant or a tool, as a search asks for it:
                    \* one TAG, in lower case
    Tags,           \* a name as the index has it: split at its commas, in
                    \* lower case
    Entries,        \* results that agents bring: a tenant and a call
    Asks,           \* sets of calls a model makes at once
    None,
    MaxRetries,     \* 3 in the code
    MaxRounds       \* how often a model asks for calls; the code has no bound

ASSUME ConstantsAssumption ==
    /\ Kinds \subseteq [stream : BOOLEAN, fallback : BOOLEAN, unkept : BOOLEAN]
    /\ VirtualKey \in [Requests -> Tenants]
    /\ Entries \subseteq Tenants \X Calls
    /\ Asks \subseteq SUBSET Calls
    /\ None \notin Calls
    /\ MaxRetries \in Nat /\ MaxRounds \in Nat

VARIABLES
    kind,       \* what a request asks for and what its key allows
    at,         \* where each handler is
    used,       \* usedProvider
    reply,      \* resp and reqErr, with the number of the exchange
    tried,      \* attempts made by the retry loop
    rounds,     \* resolutions made; isResponseIntercepted if not 0
    todo,       \* tool calls still to look up
    results,    \* tool messages to be sent with the next exchange
    final,      \* finalResponse: the exchange it is from, 0 if nil
    answer,     \* what the client was sent
    stored,     \* the exchange stored in L1, None if nothing was
    memory,     \* the tool cache: the calls of each tenant that have a result
    sent,       \* history: the exchanges of each request
    lapsed      \* history: the entries requests lost while resolving calls

vars == <<kind, at, used, reply, tried, rounds, todo, results, final, answer,
          stored, memory, sent, lapsed>>
course == <<used, tried, rounds>>
lookups == <<todo, results>>
outcome == <<final, answer, stored>>
cache == <<memory, lapsed>>

Places == {"new", "call", "failover", "judge", "read", "check", "gather",
           "send", "done"}
Providers == {"primary", "fallback"}

\* none: no response; busy: 429 and above, or 408; refused: the other 4xx;
\* odd: below 400 but not 200.  sick: an error in a body with status 200,
\* of a stream in its first event;
\* whole: the body can be read to its end; open: it has not been closed.
Replies == [status : {"none", "busy", "refused", "odd", "ok"},
            whole : BOOLEAN, sick : BOOLEAN, tools : {{}} \union Asks,
            open : BOOLEAN]
NoReply == [status |-> "none", whole |-> FALSE, sick |-> FALSE, tools |-> {},
            open |-> FALSE]

\* What a provider may send when it is asked again for the nth time; what a
\* body says counts only if it can be read.
Possible(n) ==
    {x \in Replies :
        /\ x.status = "none" => x = NoReply
        /\ x.status # "none" => x.open
        /\ x.status = "odd" => x.whole
        /\ x.status # "ok" \/ ~x.whole => x.tools = {} /\ ~x.sick
        /\ x.sick \/ n >= MaxRounds => x.tools = {}}

Exchange == [to : Providers, key : Providers, again : BOOLEAN,
             stage : {"try", "failover", "resolve"}]
Messages == [for : Calls, holds : Entries \union {None}]
Answers == {"none", "answer", "empty", "own", "generic", "apperror", "gaveup",
            "panic"}

Init ==
    /\ kind \in [Requests -> Kinds]
    /\ at = [r \in Requests |-> "new"]
    /\ used = [r \in Requests |-> "primary"]
    /\ reply = [r \in Requests |-> NoReply]
    /\ tried = [r \in Requests |-> 0]
    /\ rounds = [r \in Requests |-> 0]
    /\ todo = [r \in Requests |-> {}]
    /\ results = [r \in Requests |-> {}]
    /\ final = [r \in Requests |-> 0]
    /\ answer = [r \in Requests |-> "none"]
    /\ stored = [r \in Requests |-> None]
    /\ memory \in SUBSET Entries
    /\ sent = [r \in Requests |-> <<>>]
    /\ lapsed = {}

-----------------------------------------------------------------------------
Goto(r, place) == at' = [at EXCEPT ![r] = place]

Retriable(x) == x.status \in {"none", "busy"}
Failed(x) == x.status \in {"none", "busy", "refused"}

\* executeRequest: a provider is asked with a key and answers x.
Ask(r, to, key, stage, x) ==
    /\ x \in Possible(IF stage = "resolve" THEN rounds[r] + 1 ELSE 0)
    /\ sent' = [sent EXCEPT ![r] = Append(@,
                    [to |-> to, key |-> key, stage |-> stage,
                     again |-> Retriable(x)])]

\* vk and tool are TAG fields without CASESENSITIVE, with the comma as their
\* separator, and the query escapes the comma: what is stored under name n passes
\* for m when one part of n is the whole of m, whatever the case.
Admits(m, n) == Tag[m] \in Tags[n]

\* What the semantic search takes for call c of request r.
Alike(r, c) ==
    {e \in Entries : /\ Admits(VirtualKey[r], e[1]) /\ Admits(Tool[c], Tool[e[2]])
                     /\ <<c, e[2]>> \in Near}

\* Mutant of Found: the search does not filter on the virtual key.
Found_AnyTenant(r, c) ==
    LET own == memory \intersect {<<VirtualKey[r], c>>}
    IN  IF own # {} THEN own
        ELSE {e \in memory : Admits(Tool[c], Tool[e[2]]) /\ <<c, e[2]>> \in Near}

\* What a lookup of call c may find: the entry of c itself under the tenant's own
\* key, else one the search takes for it.
Found(r, c) ==
    LET own == memory \intersect {<<VirtualKey[r], c>>}
    IN  IF own # {} THEN own ELSE memory \intersect Alike(r, c)

\* The entries that can answer call c of request r.
Fits(r, c) == {<<VirtualKey[r], c>>} \union Alike(r, c)

Closed(x) == [NoReply EXCEPT !.status = x.status]
Reply(r, x) == reply' = [reply EXCEPT ![r] = x]
Answer(r, what) == answer' = [answer EXCEPT ![r] = what]

-----------------------------------------------------------------------------
\* StoreCompletedToolCalls: a request, one of these or another, brings the
\* result of a tool call its agent has run.
Remember ==
    /\ \E e \in Entries : memory' = memory \union {e}
    /\ UNCHANGED <<kind, at, course, reply, lookups, outcome, sent, lapsed>>

Begin(r) ==
    /\ at[r] = "new"
    /\ Goto(r, "call")
    /\ UNCHANGED <<kind, course, reply, lookups, outcome, cache, sent>>

\* Mutant of Attempt: one attempt too many.
Attempt_TooMany(r) ==
    /\ at[r] = "call"
    /\ \E x \in Replies :
        /\ Ask(r, "primary", "primary", "try", x)
        /\ IF Retriable(x)
           THEN /\ Reply(r, Closed(x))
                /\ tried' = [tried EXCEPT ![r] = @ + 1]
                /\ Goto(r, IF tried[r] <= MaxRetries THEN "call" ELSE "failover")
           ELSE Reply(r, x) /\ Goto(r, "judge") /\ UNCHANGED tried
    /\ UNCHANGED <<kind, used, rounds, lookups, outcome, cache>>

\* An attempt of the retry loop; the body of a reply to be retried is closed,
\* that of the last one, too.
Attempt(r) ==
    /\ at[r] = "call"
    /\ \E x \in Replies :
        /\ Ask(r, "primary", "primary", "try", x)
        /\ IF Retriable(x)
           THEN /\ Reply(r, Closed(x))
                /\ tried' = [tried EXCEPT ![r] = @ + 1]
                /\ Goto(r, IF tried[r] < MaxRetries THEN "call" ELSE "failover")
           ELSE Reply(r, x) /\ Goto(r, "judge") /\ UNCHANGED tried
    /\ UNCHANGED <<kind, used, rounds, lookups, outcome, cache>>

\* Mutant of FailOver: with the primary's key, as resolutions do.
FailOver_SameKey(r) ==
    /\ at[r] = "failover" /\ kind[r].fallback
    /\ \E x \in Replies :
        Ask(r, "fallback", "primary", "failover", x) /\ Reply(r, x)
    /\ used' = [used EXCEPT ![r] = "fallback"]
    /\ Goto(r, "judge")
    /\ UNCHANGED <<kind, tried, rounds, lookups, outcome, cache>>

FailOver(r) ==
    /\ at[r] = "failover" /\ kind[r].fallback
    /\ \E x \in Replies :
        Ask(r, "fallback", "fallback", "failover", x) /\ Reply(r, x)
    /\ used' = [used EXCEPT ![r] = "fallback"]
    /\ Goto(r, "judge")
    /\ UNCHANGED <<kind, tried, rounds, lookups, outcome, cache>>

NoFallback(r) ==
    /\ at[r] = "failover" /\ ~kind[r].fallback
    /\ Goto(r, "judge")
    /\ UNCHANGED <<kind, course, reply, lookups, outcome, cache, sent>>

\* An error is forwarded with the provider's own words if its body can still
\* be read.
Refuse(r) ==
    /\ at[r] = "judge" /\ Failed(reply[r])
    /\ Answer(r, IF reply[r].open /\ reply[r].whole THEN "own" ELSE "generic")
    /\ Goto(r, "done")
    /\ UNCHANGED <<kind, course, reply, lookups, final, stored, cache, sent>>

Accept(r) ==
    /\ at[r] = "judge" /\ ~Failed(reply[r])
    /\ Goto(r, "read")
    /\ UNCHANGED <<kind, course, reply, lookups, outcome, cache, sent>>

-----------------------------------------------------------------------------
\* The loop that intercepts tool calls.

\* Mutant of LeaveLoop: a body cut short does not end the loop.
LeaveLoop_Continues(r) ==
    /\ at[r] = "read" /\ reply[r].status = "odd"
    /\ Goto(r, "send")
    /\ UNCHANGED <<kind, course, reply, lookups, outcome, cache, sent>>

\* A reply that is not 200, or is cut short, leaves the loop without a final
\* response.
LeaveLoop(r) ==
    /\ at[r] = "read" /\ (reply[r].status = "odd" \/ ~reply[r].whole)
    /\ Reply(r, IF reply[r].status = "odd" THEN reply[r] ELSE Closed(reply[r]))
    /\ Goto(r, "send")
    /\ UNCHANGED <<kind, course, lookups, outcome, cache, sent>>

TakeFinal(r) == final' = [final EXCEPT ![r] = Len(sent[r])] /\ Goto(r, "send")

ReadText(r) ==
    /\ at[r] = "read" /\ reply[r].status = "ok" /\ reply[r].whole
    /\ reply[r].tools = {}
    /\ TakeFinal(r)
    /\ UNCHANGED <<kind, course, reply, lookups, answer, stored, cache, sent>>

\* Mutant of ReadTools: the answer with the calls is kept as the final one.
ReadTools_Saves(r) ==
    /\ at[r] = "read" /\ reply[r].status = "ok" /\ reply[r].whole
    /\ reply[r].tools # {}
    /\ todo' = [todo EXCEPT ![r] = reply[r].tools]
    /\ final' = [final EXCEPT ![r] = Len(sent[r])]
    /\ Goto(r, "check")
    /\ UNCHANGED <<kind, course, reply, results, answer, stored, cache, sent>>

ReadTools(r) ==
    /\ at[r] = "read" /\ reply[r].status = "ok" /\ reply[r].whole
    /\ reply[r].tools # {}
    /\ todo' = [todo EXCEPT ![r] = reply[r].tools]
    /\ Goto(r, "check")
    /\ UNCHANGED <<kind, course, reply, results, outcome, cache, sent>>

\* The first round of lookups only asks whether everything is there.
CheckTool(r) ==
    /\ at[r] = "check"
    /\ \E c \in todo[r] :
        IF Found(r, c) # {}
        THEN todo' = [todo EXCEPT ![r] = @ \ {c}] /\ UNCHANGED <<at, final>>
        ELSE todo' = [todo EXCEPT ![r] = {}] /\ TakeFinal(r)
    /\ UNCHANGED <<kind, course, reply, results, answer, stored, cache, sent>>

AllCached(r) ==
    /\ at[r] = "check" /\ todo[r] = {}
    /\ todo' = [todo EXCEPT ![r] = reply[r].tools]
    /\ Goto(r, "gather")
    /\ UNCHANGED <<kind, course, reply, results, outcome, cache, sent>>

\* The second round fetches; whether the lookup found anything is ignored.
GatherTool(r) ==
    /\ at[r] = "gather"
    /\ \E c \in todo[r] :
        /\ \E e \in IF Found(r, c) = {} THEN {None} ELSE Found(r, c) :
            results' = [results EXCEPT ![r] =
                            @ \union {[for |-> c, holds |-> e]}]
        /\ todo' = [todo EXCEPT ![r] = @ \ {c}]
    /\ UNCHANGED <<kind, at, course, reply, outcome, cache, sent>>

\* The provider that answered is asked again, with the primary's key.
Resolve(r) ==
    /\ at[r] = "gather" /\ todo[r] = {}
    /\ rounds' = [rounds EXCEPT ![r] = @ + 1]
    /\ \E x \in Replies :
        /\ Ask(r, used[r], "primary", "resolve", x)
        /\ IF Failed(x)
           THEN /\ Reply(r, Closed(x))
                /\ Answer(r, "gaveup") /\ Goto(r, "done")
           ELSE Reply(r, x) /\ Goto(r, "read") /\ UNCHANGED answer
    /\ UNCHANGED <<kind, used, tried, lookups, final, stored, cache>>

-----------------------------------------------------------------------------
\* streamResponse.  A stream is reconstructed before it is stored, and an
\* empty one becomes a valid answer without content.
Keep(r) ==
    stored' = [stored EXCEPT ![r] =
        IF kind[r].unkept THEN None ELSE Len(sent[r])]

\* finalResponse is nil after an interception; ProxyHandler recovers.
Panic(r) ==
    /\ at[r] = "send" /\ final[r] = 0 /\ rounds[r] > 0
    /\ Answer(r, "panic") /\ Goto(r, "done")
    /\ UNCHANGED <<kind, course, reply, lookups, final, stored, cache, sent>>

\* The closed body of a reply that was cut yields nothing.
SendNothing(r) ==
    /\ at[r] = "send" /\ final[r] = 0 /\ rounds[r] = 0 /\ reply[r].status = "ok"
    /\ Answer(r, "empty") /\ Goto(r, "done")
    /\ IF kind[r].stream THEN Keep(r) ELSE UNCHANGED stored
    /\ UNCHANGED <<kind, course, reply, lookups, final, cache, sent>>

SendOdd(r) ==
    /\ at[r] = "send" /\ final[r] = 0 /\ rounds[r] = 0
    /\ reply[r].status = "odd"
    /\ Answer(r, "answer") /\ Goto(r, "done")
    /\ UNCHANGED <<kind, course, reply, lookups, final, stored, cache, sent>>

\* Mutant of SendFinal: what has status 200 is stored.
SendFinal_StoresErrors(r) ==
    /\ at[r] = "send" /\ final[r] # 0
    /\ Answer(r, IF reply[r].sick /\ kind[r].stream
                 THEN "apperror" ELSE "answer")
    /\ Keep(r)
    /\ Goto(r, "done")
    /\ UNCHANGED <<kind, course, reply, lookups, final, cache, sent>>

\* An error inside a body with status 200 is detected in streams only.
SendFinal(r) ==
    /\ at[r] = "send" /\ final[r] # 0
    /\ Answer(r, IF reply[r].sick /\ kind[r].stream
                 THEN "apperror" ELSE "answer")
    /\ IF reply[r].sick THEN UNCHANGED stored ELSE Keep(r)
    /\ Goto(r, "done")
    /\ UNCHANGED <<kind, course, reply, lookups, final, cache, sent>>

\* The 24 hours of an entry are over, or it cannot be looked up: Redis or the
\* embedder fails, or the client has left, whose context the lookups use.
Expire ==
    /\ \E e \in memory :
        /\ memory' = memory \ {e}
        /\ lapsed' = lapsed \union
               {<<r, e>> : r \in {q \in Requests :
                    /\ at[q] \in {"check", "gather"}
                    /\ \E c \in Calls : e \in Fits(q, c)}}
    /\ UNCHANGED <<kind, at, course, reply, lookups, outcome, sent>>

Handle(r) ==
    \/ Begin(r) \/ Attempt(r) \/ FailOver(r) \/ NoFallback(r)
    \/ Refuse(r) \/ Accept(r)
    \/ LeaveLoop(r) \/ ReadText(r) \/ ReadTools(r)
    \/ CheckTool(r) \/ AllCached(r) \/ GatherTool(r) \/ Resolve(r)
    \/ Panic(r) \/ SendNothing(r) \/ SendOdd(r) \/ SendFinal(r)

Next == \/ \E r \in Requests : Handle(r)
        \/ Remember \/ Expire

Spec == Init /\ [][Next]_vars

\* A provider answers or the HTTP client gives up after 600 s; Redis answers.
FairSpec == Spec /\ \A r \in Requests : WF_vars(Handle(r))

-----------------------------------------------------------------------------
TypeOK ==
    /\ kind \in [Requests -> Kinds]
    /\ at \in [Requests -> Places]
    /\ used \in [Requests -> Providers]
    /\ reply \in [Requests -> Replies]
    /\ tried \in [Requests -> 0 .. MaxRetries + 1]
    /\ rounds \in [Requests -> Nat]
    /\ todo \in [Requests -> SUBSET Calls]
    /\ results \in [Requests -> SUBSET Messages]
    /\ final \in [Requests -> Nat]
    /\ answer \in [Requests -> Answers]
    /\ stored \in [Requests -> Nat \union {None}]
    /\ memory \subseteq Entries
    /\ sent \in [Requests -> Seq(Exchange)]
    /\ lapsed \subseteq Requests \X Entries

\* A provider's own words reach the client unless there were none, or the
\* retry loop had closed them.
AnswerFits(r) ==
    LET last == reply[r] IN
    /\ answer[r] # "none"
    /\ answer[r] = "answer" =>
          \/ last.status = "odd" /\ rounds[r] = 0
          \/ last.status = "ok" /\ last.whole /\ final[r] = Len(sent[r])
    /\ answer[r] = "apperror" => last.sick /\ kind[r].stream
    /\ answer[r] = "empty" => ~last.whole /\ rounds[r] = 0
    /\ answer[r] = "own" => Failed(last) /\ last.open /\ rounds[r] = 0
    /\ answer[r] = "generic" =>
          /\ Failed(last) /\ rounds[r] = 0
          /\ last.open => ~last.whole
          /\ ~last.open => \/ last.status = "none"
                           \/ tried[r] = MaxRetries + 1 /\ ~kind[r].fallback
    /\ answer[r] = "gaveup" => Failed(last) /\ rounds[r] > 0
    /\ answer[r] = "panic" =>
          rounds[r] > 0 /\ (last.status = "odd" \/ ~last.whole)

\* What is stored under the payload of the request is the last answer of a
\* provider, which the client got too; or, for a stream that was cut, an
\* answer without content.
StoresTheAnswer(r) ==
    stored[r] # None =>
        /\ ~kind[r].unkept /\ stored[r] = Len(sent[r])
        /\ reply[r].status = "ok" /\ ~reply[r].sick
        /\ \/ answer[r] = "answer" /\ reply[r].whole
           \/ answer[r] = "empty" /\ kind[r].stream

\* Whatever failed, was retried, failed over or resolved on the way, the
\* client's answer and the entry of L1 come from the last exchange, and the
\* proxy speaks for itself only when that gave it nothing to forward
\* (proxy.go 797-843, 858-1001, stream.go 173-259).
AnswerIsTheLast ==
    \A r \in Requests : at[r] = "done" => AnswerFits(r) /\ StoresTheAnswer(r)

\* The primary provider is tried until it answers, at most MaxRetries + 1
\* times; the fallback is asked only when it never did; resolutions go to
\* whichever answered.  Each is asked with its own key, except that a
\* resolution after a failover sends the primary's key to the fallback
\* (proxy.go 772-794, 970).
ExchangesInOrder ==
    \A r \in Requests : \A i \in DOMAIN sent[r] :
        LET x == sent[r][i]
            before == {sent[r][j] : j \in 1 .. (i - 1)}
            inVain == \A y \in before : y.stage = "try" /\ y.again
            failedOver == \E y \in before : y.stage = "failover"
        IN  /\ x.stage = "try" =>
                  x.to = "primary" /\ i <= MaxRetries + 1 /\ inVain
            /\ x.stage = "failover" =>
                  x.to = "fallback" /\ i = MaxRetries + 2 /\ inVain
            /\ x.stage = "resolve" =>
                  /\ i > 1 /\ ~sent[r][i - 1].again
                  /\ x.to = IF failedOver THEN "fallback" ELSE "primary"
            /\ x.key = x.to \/ (x.stage = "resolve" /\ failedOver)

\* A model is told the result its own tenant has for this very call, or one the
\* semantic search takes for it, which may be that of a tenant, and of a tool, the
\* TAG filter does not tell from its own; it is told nothing, as if the tool had
\* returned nothing, only when an entry was lost between the two lookups (proxy.go
\* 902-959, tool_dedup.go 348-425, db/redis.go 57).
ResultsAreTheTenants ==
    \A r \in Requests : \A m \in results[r] :
        \/ m.holds \in Fits(r, m.for)
        \/ m.holds = None /\ \E e \in Fits(r, m.for) : <<r, e>> \in lapsed

\* Retrying, failing over and resolving come to an end for a model that asks
\* for tool calls no more than MaxRounds times; nothing ends them for one that
\* never stops asking for calls the cache holds (proxy.go 772-977).
EveryRequestIsAnswered == \A r \in Requests : <>(at[r] = "done")
=============================================================================
