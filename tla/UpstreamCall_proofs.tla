------------------------- MODULE UpstreamCall_proofs -------------------------
(***************************************************************************)
(* Theorems about UpstreamCall, for any requests, tenants, tool calls and  *)
(* number of retries.  A request disturbs nothing of another one but the   *)
(* tool cache, so what is inductive is said of one request at a time:      *)
(*   Counts   how many attempts are left;                                  *)
(*   Course   which exchanges lead to each place;                          *)
(*   Stage    what each place says of the last reply and of the answer;    *)
(*   Covers   a call looked up with success has a result, or lost it.      *)
(***************************************************************************)
EXTENDS UpstreamCall, TLAPS

USE ConstantsAssumption

Counts(r) ==
    /\ at[r] = "new" => tried[r] = 0
    /\ at[r] = "call" => tried[r] <= MaxRetries
    /\ at[r] = "failover" => tried[r] = MaxRetries + 1

TypeInv == TypeOK /\ \A r \in Requests : Counts(r)

\* A step leaves everything of request s as it is.
Same(s) ==
    /\ kind'[s] = kind[s] /\ at'[s] = at[s] /\ used'[s] = used[s]
    /\ reply'[s] = reply[s] /\ tried'[s] = tried[s] /\ rounds'[s] = rounds[s]
    /\ todo'[s] = todo[s] /\ results'[s] = results[s] /\ final'[s] = final[s]
    /\ answer'[s] = answer[s] /\ stored'[s] = stored[s] /\ sent'[s] = sent[s]

-----------------------------------------------------------------------------
\* An exchange is appended to those of its request.
LEMMA Appended ==
    ASSUME TypeOK, NEW r \in Requests, NEW to \in Providers, NEW key \in Providers,
           NEW stage \in {"try", "failover", "resolve"}, NEW x \in Replies,
           Ask(r, to, key, stage, x)
    PROVE  /\ sent' \in [Requests -> Seq(Exchange)]
           /\ Len(sent[r]) \in Nat
           /\ Len(sent'[r]) = Len(sent[r]) + 1
           /\ sent'[r][Len(sent[r]) + 1] =
                 [to |-> to, key |-> key, stage |-> stage, again |-> Retriable(x)]
           /\ \A i \in 1 .. Len(sent[r]) : sent'[r][i] = sent[r][i]
<1> DEFINE e == [to |-> to, key |-> key, stage |-> stage, again |-> Retriable(x)]
<1>1. e \in Exchange
  BY DEF Exchange, Retriable
<1>2. sent[r] \in Seq(Exchange) /\ sent \in [Requests -> Seq(Exchange)]
  BY DEF TypeOK
<1>3. sent' = [sent EXCEPT ![r] = Append(@, e)]
  BY DEF Ask
<1> HIDE DEF e
<1>4. sent'[r] = Append(sent[r], e)
  BY <1>2, <1>3
<1>5. Append(sent[r], e) \in Seq(Exchange)
  BY <1>1, <1>2
<1>6. sent' \in [Requests -> Seq(Exchange)]
  BY <1>2, <1>3, <1>5
<1>7. Len(sent'[r]) = Len(sent[r]) + 1 /\ sent'[r][Len(sent[r]) + 1] = e
      /\ \A i \in 1 .. Len(sent[r]) : sent'[r][i] = sent[r][i]
  BY <1>1, <1>2, <1>4
<1>. QED
  BY <1>2, <1>6, <1>7 DEF e

LEMMA ClosedIsReply ==
    ASSUME NEW x \in Replies
    PROVE  /\ Closed(x) \in Replies /\ NoReply \in Replies
           /\ Closed(x).status = x.status /\ Closed(x).tools = {}
           /\ ~Closed(x).open /\ ~Closed(x).whole /\ ~Closed(x).sick
BY DEF Closed, NoReply, Replies

LEMMA ToolsAreCalls ==
    ASSUME NEW x \in Replies
    PROVE  x.tools \subseteq Calls
BY DEF Replies

\* What a lookup finds is there and fits.
LEMMA FoundFits ==
    ASSUME NEW r \in Requests, NEW c \in Calls, NEW e \in Found(r, c)
    PROVE  e \in memory /\ e \in Fits(r, c)
BY DEF Found, Fits

\* A step of one request leaves the others alone.
LEMMA OthersStay ==
    ASSUME TypeOK, NEW r \in Requests, NEW s \in Requests, s # r, Handle(r)
    PROVE  Same(s)
<1> USE DEF TypeOK, Same, Goto, Reply, Answer, course, lookups, outcome, cache
<1>1. ASSUME Begin(r) PROVE Same(s)
  BY <1>1 DEF Begin
<1>2. ASSUME Attempt(r) PROVE Same(s)
  BY <1>2 DEF Attempt, Ask
<1>3. ASSUME FailOver(r) PROVE Same(s)
  BY <1>3 DEF FailOver, Ask
<1>4. ASSUME NoFallback(r) PROVE Same(s)
  BY <1>4 DEF NoFallback
<1>5. ASSUME Refuse(r) PROVE Same(s)
  BY <1>5 DEF Refuse
<1>6. ASSUME Accept(r) PROVE Same(s)
  BY <1>6 DEF Accept
<1>7. ASSUME LeaveLoop(r) PROVE Same(s)
  BY <1>7 DEF LeaveLoop
<1>8. ASSUME ReadText(r) PROVE Same(s)
  BY <1>8 DEF ReadText, TakeFinal
<1>9. ASSUME ReadTools(r) PROVE Same(s)
  BY <1>9 DEF ReadTools
<1>10. ASSUME CheckTool(r) PROVE Same(s)
  BY <1>10 DEF CheckTool, TakeFinal
<1>11. ASSUME AllCached(r) PROVE Same(s)
  BY <1>11 DEF AllCached
<1>12. ASSUME GatherTool(r) PROVE Same(s)
  BY <1>12 DEF GatherTool
<1>13. ASSUME Resolve(r) PROVE Same(s)
  BY <1>13 DEF Resolve, Ask
<1>14. ASSUME Panic(r) PROVE Same(s)
  BY <1>14 DEF Panic
<1>15. ASSUME SendNothing(r) PROVE Same(s)
  BY <1>15 DEF SendNothing, Keep
<1>16. ASSUME SendOdd(r) PROVE Same(s)
  BY <1>16 DEF SendOdd
<1>17. ASSUME SendFinal(r) PROVE Same(s)
  BY <1>17 DEF SendFinal, Keep
<1>. QED
  BY <1>1, <1>2, <1>3, <1>4, <1>5, <1>6, <1>7, <1>8, <1>9, <1>10, <1>11, <1>12,
     <1>13, <1>14, <1>15, <1>16, <1>17 DEF Handle

-----------------------------------------------------------------------------
THEOREM TypeInvariant == Spec => []TypeInv
<1>1. Init => TypeInv
  BY DEF Init, TypeInv, TypeOK, Counts, Places, Providers, Answers, Replies,
         NoReply
<1>2. TypeInv /\ [Next]_vars => TypeInv'
  <2> SUFFICES ASSUME TypeInv, [Next]_vars PROVE TypeInv'
    OBVIOUS
  <2> USE DEF TypeInv
  <2>1. ASSUME NEW r \in Requests, Handle(r) PROVE TypeInv'
    <3>1. TypeOK'
      <4>91. at \in [Requests -> Places]
        BY DEF TypeOK
      <4>92. used \in [Requests -> Providers]
        BY DEF TypeOK
      <4>93. reply \in [Requests -> Replies] /\ reply[r] \in Replies
        BY DEF TypeOK
      <4>94. tried \in [Requests -> 0 .. MaxRetries + 1]
        BY DEF TypeOK
      <4>95. rounds \in [Requests -> Nat]
        BY DEF TypeOK
      <4>96. todo \in [Requests -> SUBSET Calls]
        BY DEF TypeOK
      <4>97. final \in [Requests -> Nat] /\ Len(sent[r]) \in Nat
        BY DEF TypeOK
      <4>98. answer \in [Requests -> Answers]
        BY DEF TypeOK
      <4>99. stored \in [Requests -> Nat \union {None}] /\ Len(sent[r]) \in Nat
        BY DEF TypeOK
      <4>1. CASE Begin(r)
        <5>1. at' \in [Requests -> Places]
          BY <4>91, <4>1 DEF Begin, Goto, Places
        <5>. QED
          BY <4>1, <5>1 DEF Begin, TypeOK, course, lookups, outcome, cache
      <4>2. CASE Attempt(r)
        <5>1. PICK x \in Replies :
                 /\ Ask(r, "primary", "primary", "try", x)
                 /\ IF Retriable(x)
                    THEN /\ Reply(r, Closed(x))
                         /\ tried' = [tried EXCEPT ![r] = @ + 1]
                         /\ Goto(r, IF tried[r] < MaxRetries THEN "call"
                                    ELSE "failover")
                    ELSE Reply(r, x) /\ Goto(r, "judge") /\ UNCHANGED tried
          BY <4>2 DEF Attempt
        <5>2. "primary" \in Providers
          BY <4>92 DEF Providers
        <5>3. sent' \in [Requests -> Seq(Exchange)]
          BY <5>1, <5>2, Appended
        <5>4. Closed(x) \in Replies
          BY ClosedIsReply
        <5>5. at' \in [Requests -> Places]
          BY <4>91, <5>1 DEF Goto, Places
        <5>6. reply' \in [Requests -> Replies]
          <6>1. CASE Retriable(x)
            BY <4>93, <5>1, <6>1, <5>4 DEF Reply
          <6>2. CASE ~Retriable(x)
            BY <4>93, <5>1, <6>2, <5>4 DEF Reply
          <6>. QED
            BY <6>1, <6>2
        <5>7. tried[r] <= MaxRetries
          BY <4>2 DEF Attempt, Counts
        <5>8. tried' \in [Requests -> 0 .. MaxRetries + 1]
          <6>1. CASE Retriable(x)
            BY <4>94, <5>1, <6>1, <5>7
          <6>2. CASE ~Retriable(x)
            BY <4>94, <5>1, <6>2, <5>7
          <6>. QED
            BY <6>1, <6>2
        <5>. QED
          BY <4>2, <5>3, <5>5, <5>6, <5>8 DEF Attempt, TypeOK, course, lookups,
             outcome, cache
      <4>3. CASE FailOver(r)
        <5>1. PICK x \in Replies :
                 Ask(r, "fallback", "fallback", "failover", x) /\ Reply(r, x)
          BY <4>3 DEF FailOver
        <5>2. "fallback" \in Providers
          BY <4>92 DEF Providers
        <5>3. sent' \in [Requests -> Seq(Exchange)]
          BY <5>1, <5>2, Appended
        <5>4. Closed(x) \in Replies
          BY ClosedIsReply
        <5>5. reply' \in [Requests -> Replies]
          BY <4>93, <5>1, <5>4 DEF Reply
        <5>6. at' \in [Requests -> Places] /\ used' \in [Requests -> Providers]
          BY <4>91, <4>92, <4>3, <5>2 DEF FailOver, Goto, Places
        <5>. QED
          BY <4>3, <5>3, <5>5, <5>6 DEF FailOver, TypeOK, course, lookups,
             outcome, cache
      <4>4. CASE NoFallback(r)
        <5>1. at' \in [Requests -> Places]
          BY <4>91, <4>4 DEF NoFallback, Goto, Places
        <5>. QED
          BY <4>4, <5>1 DEF NoFallback, TypeOK, course, lookups, outcome, cache
      <4>5. CASE Refuse(r)
        <5>1. at' \in [Requests -> Places]
          BY <4>91, <4>5 DEF Refuse, Goto, Places
        <5>2. answer' \in [Requests -> Answers]
          BY <4>98, <4>5 DEF Refuse, Answer, Answers
        <5>. QED
          BY <4>5, <5>1, <5>2 DEF Refuse, TypeOK, course, lookups, outcome,
             cache
      <4>6. CASE Accept(r)
        <5>1. at' \in [Requests -> Places]
          BY <4>91, <4>6 DEF Accept, Goto, Places
        <5>. QED
          BY <4>6, <5>1 DEF Accept, TypeOK, course, lookups, outcome, cache
      <4>7. CASE LeaveLoop(r)
        <5>1. at' \in [Requests -> Places]
          BY <4>91, <4>7 DEF LeaveLoop, Goto, Places
        <5>2. reply' \in [Requests -> Replies]
          BY <4>93, <4>7, ClosedIsReply DEF LeaveLoop, Reply
        <5>. QED
          BY <4>7, <5>1, <5>2 DEF LeaveLoop, TypeOK, course, lookups, outcome,
             cache
      <4>8. CASE ReadText(r)
        <5>1. at' \in [Requests -> Places]
          BY <4>91, <4>8 DEF ReadText, Goto, Places, TakeFinal
        <5>2. final' \in [Requests -> Nat]
          BY <4>97, <4>8 DEF ReadText, TakeFinal
        <5>. QED
          BY <4>8, <5>1, <5>2 DEF ReadText, TypeOK, course, lookups, outcome,
             cache
      <4>9. CASE ReadTools(r)
        <5>1. at' \in [Requests -> Places]
          BY <4>91, <4>9 DEF ReadTools, Goto, Places
        <5>2. reply[r].tools \in SUBSET Calls
          BY <4>93, ToolsAreCalls
        <5>3. todo' \in [Requests -> SUBSET Calls]
          BY <4>96, <4>9, <5>2 DEF ReadTools
        <5>. QED
          BY <4>9, <5>1, <5>3 DEF ReadTools, TypeOK, course, lookups, outcome,
             cache
      <4>10. CASE CheckTool(r)
        <5>1. at' \in [Requests -> Places]
          BY <4>91, <4>10 DEF CheckTool, Goto, Places, TakeFinal
        <5>2. todo' \in [Requests -> SUBSET Calls]
          BY <4>96, <4>10 DEF CheckTool
        <5>3. final' \in [Requests -> Nat]
          BY <4>97, <4>10 DEF CheckTool, TakeFinal
        <5>. QED
          BY <4>10, <5>1, <5>2, <5>3 DEF CheckTool, TypeOK, course, lookups,
             outcome, cache
      <4>11. CASE AllCached(r)
        <5>1. at' \in [Requests -> Places]
          BY <4>91, <4>11 DEF AllCached, Goto, Places
        <5>2. reply[r].tools \in SUBSET Calls
          BY <4>93, ToolsAreCalls
        <5>3. todo' \in [Requests -> SUBSET Calls]
          BY <4>96, <4>11, <5>2 DEF AllCached
        <5>. QED
          BY <4>11, <5>1, <5>3 DEF AllCached, TypeOK, course, lookups, outcome,
             cache
      <4>12. CASE GatherTool(r)
        <5>1. PICK c \in todo[r] :
                 /\ \E e \in IF Found(r, c) = {} THEN {None} ELSE Found(r, c) :
                      results' = [results EXCEPT ![r] =
                                    @ \union {[for |-> c, holds |-> e]}]
                 /\ todo' = [todo EXCEPT ![r] = @ \ {c}]
          BY <4>12 DEF GatherTool
        <5>2. PICK e \in IF Found(r, c) = {} THEN {None} ELSE Found(r, c) :
                 results' = [results EXCEPT ![r] =
                               @ \union {[for |-> c, holds |-> e]}]
          BY <5>1
        <5>3. c \in Calls /\ e \in Entries \union {None}
          BY <4>96, <5>1, <5>2, FoundFits DEF TypeOK
        <5>4. [for |-> c, holds |-> e] \in Messages
          BY <5>3 DEF Messages
        <5>5. results' \in [Requests -> SUBSET Messages]
          BY <5>2, <5>4 DEF TypeOK
        <5>6. todo' \in [Requests -> SUBSET Calls]
          BY <4>96, <5>1
        <5>. QED
          BY <4>12, <5>5, <5>6 DEF GatherTool, TypeOK, course, outcome, cache
      <4>13. CASE Resolve(r)
        <5>1. PICK x \in Replies :
                 /\ Ask(r, used[r], "primary", "resolve", x)
                 /\ IF Failed(x)
                    THEN /\ Reply(r, Closed(x))
                         /\ Answer(r, "gaveup") /\ Goto(r, "done")
                    ELSE Reply(r, x) /\ Goto(r, "read") /\ UNCHANGED answer
          BY <4>13 DEF Resolve
        <5>2. used[r] \in Providers /\ "primary" \in Providers
          BY <4>92 DEF Providers
        <5>3. sent' \in [Requests -> Seq(Exchange)]
          BY <5>1, <5>2, Appended
        <5>4. Closed(x) \in Replies
          BY ClosedIsReply
        <5>5. at' \in [Requests -> Places]
          BY <4>91, <5>1 DEF Goto, Places
        <5>6. reply' \in [Requests -> Replies]
          <6>1. CASE Failed(x)
            BY <4>93, <5>1, <6>1, <5>4 DEF Reply
          <6>2. CASE ~Failed(x)
            BY <4>93, <5>1, <6>2, <5>4 DEF Reply
          <6>. QED
            BY <6>1, <6>2
        <5>7. answer' \in [Requests -> Answers]
          BY <4>98, <5>1 DEF Answer, Answers
        <5>8. rounds' \in [Requests -> Nat]
          BY <4>95, <4>13 DEF Resolve
        <5>. QED
          BY <4>13, <5>3, <5>5, <5>6, <5>7, <5>8 DEF Resolve, TypeOK, course,
             lookups, outcome, cache
      <4>14. CASE Panic(r)
        <5>1. at' \in [Requests -> Places]
          BY <4>91, <4>14 DEF Panic, Goto, Places
        <5>2. answer' \in [Requests -> Answers]
          BY <4>98, <4>14 DEF Panic, Answer, Answers
        <5>. QED
          BY <4>14, <5>1, <5>2 DEF Panic, TypeOK, course, lookups, outcome,
             cache
      <4>15. CASE SendNothing(r)
        <5>1. at' \in [Requests -> Places]
          BY <4>91, <4>15 DEF SendNothing, Goto, Places
        <5>2. answer' \in [Requests -> Answers]
          BY <4>98, <4>15 DEF SendNothing, Answer, Answers
        <5>3. Keep(r) => stored' \in [Requests -> Nat \union {None}]
          <6>1. CASE kind[r].unkept
            BY <4>99, <6>1 DEF Keep
          <6>2. CASE ~kind[r].unkept
            BY <4>99, <6>2 DEF Keep
          <6>. QED
            BY <6>1, <6>2
        <5>4. stored' \in [Requests -> Nat \union {None}]
          BY <4>99, <4>15, <5>3 DEF SendNothing
        <5>. QED
          BY <4>15, <5>1, <5>2, <5>4 DEF SendNothing, TypeOK, course, lookups,
             outcome, cache
      <4>16. CASE SendOdd(r)
        <5>1. at' \in [Requests -> Places]
          BY <4>91, <4>16 DEF SendOdd, Goto, Places
        <5>2. answer' \in [Requests -> Answers]
          BY <4>98, <4>16 DEF SendOdd, Answer, Answers
        <5>. QED
          BY <4>16, <5>1, <5>2 DEF SendOdd, TypeOK, course, lookups, outcome,
             cache
      <4>17. CASE SendFinal(r)
        <5>1. at' \in [Requests -> Places]
          BY <4>91, <4>17 DEF SendFinal, Goto, Places
        <5>2. answer' \in [Requests -> Answers]
          BY <4>98, <4>17 DEF SendFinal, Answer, Answers
        <5>3. Keep(r) => stored' \in [Requests -> Nat \union {None}]
          <6>1. CASE kind[r].unkept
            BY <4>99, <6>1 DEF Keep
          <6>2. CASE ~kind[r].unkept
            BY <4>99, <6>2 DEF Keep
          <6>. QED
            BY <6>1, <6>2
        <5>4. stored' \in [Requests -> Nat \union {None}]
          BY <4>99, <4>17, <5>3 DEF SendFinal
        <5>. QED
          BY <4>17, <5>1, <5>2, <5>4 DEF SendFinal, TypeOK, course, lookups,
             outcome, cache
      <4>. QED
        BY <2>1, <4>1, <4>2, <4>3, <4>4, <4>5, <4>6, <4>7, <4>8, <4>9, <4>10,
           <4>11, <4>12, <4>13, <4>14, <4>15, <4>16, <4>17 DEF Handle
    <3>2. ASSUME NEW s \in Requests PROVE Counts(s)'
      <4>1. CASE s # r
        BY <2>1, <4>1, OthersStay DEF Same, Counts
      <4>2. CASE s = r
        <5> USE DEF TypeOK, Goto, course
        <5>1. CASE Attempt(r)
          BY <4>2, <5>1 DEF Attempt, Counts
        <5>2. CASE ~Attempt(r)
          BY <2>1, <4>2, <5>2 DEF Handle, Counts, Begin, FailOver, NoFallback,
             Refuse, Accept, LeaveLoop, ReadText, ReadTools, CheckTool, AllCached,
             GatherTool, Resolve, Panic, SendNothing, SendOdd, SendFinal, TakeFinal
        <5>. QED
          BY <5>1, <5>2
      <4>. QED
        BY <4>1, <4>2
    <3>. QED
      BY <3>1, <3>2
  <2>2. CASE Remember \/ Expire
    BY <2>2 DEF Remember, Expire, TypeOK, Counts, course, lookups,
       outcome
  <2>3. CASE UNCHANGED vars
    BY <2>3 DEF vars, TypeOK, Counts
  <2>. QED
    BY <2>1, <2>2, <2>3 DEF Next
<1>. QED
  BY <1>1, <1>2, PTL DEF Spec

\* The state of every request has its type.
THEOREM TypeCorrect == Spec => []TypeOK
BY TypeInvariant, PTL DEF TypeInv

-----------------------------------------------------------------------------
\* What ExchangesInOrder says of the ith exchange.
InOrder(s, i) ==
    /\ s[i].stage = "try" =>
          /\ s[i].to = "primary" /\ i <= MaxRetries + 1
          /\ \A j \in 1 .. (i - 1) : s[j].stage = "try" /\ s[j].again
    /\ s[i].stage = "failover" =>
          /\ s[i].to = "fallback" /\ i = MaxRetries + 2
          /\ \A j \in 1 .. (i - 1) : s[j].stage = "try" /\ s[j].again
    /\ s[i].stage = "resolve" =>
          /\ i > 1 /\ ~s[i - 1].again
          /\ (\E j \in 1 .. (i - 1) : s[j].stage = "failover")
                => s[i].to = "fallback"
          /\ ~(\E j \in 1 .. (i - 1) : s[j].stage = "failover")
                => s[i].to = "primary"
    /\ \/ s[i].key = s[i].to
       \/ /\ s[i].stage = "resolve"
          /\ \E j \in 1 .. (i - 1) : s[j].stage = "failover"

Ordered(s) == \A i \in 1 .. Len(s) : InOrder(s, i)
AllTried(s) == \A i \in 1 .. Len(s) : s[i].stage = "try" /\ s[i].again
FailedOver(s) == \E i \in 1 .. Len(s) : s[i].stage = "failover"

Course(r) ==
    /\ at[r] \in {"new", "call", "failover"} =>
          Len(sent[r]) = tried[r] /\ AllTried(sent[r]) /\ used[r] = "primary"
    /\ at[r] \in {"failover", "judge", "read", "check", "gather", "send", "done"} =>
          Len(sent[r]) > 0
    /\ at[r] \in {"judge", "read", "check", "gather", "send", "done"} =>
          (used[r] = "fallback" <=> FailedOver(sent[r]))
    /\ at[r] \in {"failover", "judge"} =>
          (sent[r][Len(sent[r])].again <=> Retriable(reply[r]))
    /\ at[r] \in {"read", "check", "gather", "send"} =>
          ~sent[r][Len(sent[r])].again

OrderInv == \A r \in Requests : Ordered(sent[r]) /\ Course(r)

LEMMA OrderedMeans ==
    ASSUME TypeOK, \A r \in Requests : Ordered(sent[r])
    PROVE  ExchangesInOrder
<1>1. ASSUME NEW r \in Requests, NEW i \in DOMAIN sent[r]
      PROVE  InOrder(sent[r], i)
  BY <1>1 DEF TypeOK, Ordered
<1>. QED
  BY <1>1 DEF ExchangesInOrder, InOrder

\* The exchanges there are stay in order when one is appended.
LEMMA OldInOrder ==
    ASSUME NEW s, NEW t, Len(s) \in Nat, Len(t) = Len(s) + 1,
           \A i \in 1 .. Len(s) : t[i] = s[i],
           Ordered(s), InOrder(t, Len(t))
    PROVE  Ordered(t)
<1> SUFFICES ASSUME NEW i \in 1 .. Len(t), i # Len(t) PROVE InOrder(t, i)
  BY DEF Ordered
<1>1. i \in 1 .. Len(s) /\ InOrder(s, i)
  BY DEF Ordered
<1>2. \A j \in 1 .. (i - 1) : t[j] = s[j]
  BY <1>1
<1>3. t[i] = s[i] /\ (i > 1 => t[i - 1] = s[i - 1])
  BY <1>1
<1>. QED
  BY <1>1, <1>2, <1>3 DEF InOrder

\* The exchanges of a request are those of the code, in its order.
THEOREM OrderInvariant == Spec => [](TypeInv /\ OrderInv)
<1>1. Init => OrderInv
  <2> SUFFICES ASSUME Init, NEW r \in Requests PROVE Ordered(sent[r]) /\ Course(r)
    BY DEF OrderInv
  <2>1. sent[r] = <<>> /\ Len(sent[r]) = 0 /\ at[r] = "new" /\ tried[r] = 0
        /\ used[r] = "primary"
    BY DEF Init
  <2>. QED
    BY <2>1 DEF Ordered, Course, AllTried
<1>2. TypeInv /\ OrderInv /\ [Next]_vars => OrderInv'
  <2> SUFFICES ASSUME TypeInv, OrderInv, [Next]_vars PROVE OrderInv'
    OBVIOUS
  <2>1. ASSUME NEW r \in Requests, Handle(r),
               NEW s \in Requests
        PROVE  (Ordered(sent[s]) /\ Course(s))'
    <3>0. TypeOK /\ Counts(r)
      BY DEF TypeInv
    <3>1. CASE s # r
      <4>1. Same(s)
        BY <2>1, <3>0, <3>1, OthersStay
      <4>. QED
        BY <4>1 DEF OrderInv, Same, Course, Retriable
    <3>2. CASE s = r
      <4>1. Ordered(sent[r]) /\ Course(r) /\ Len(sent[r]) \in Nat
        BY <3>0 DEF OrderInv, TypeOK
      <4>2. at \in [Requests -> Places] /\ used \in [Requests -> Providers]
            /\ tried \in [Requests -> 0 .. MaxRetries + 1]
            /\ reply \in [Requests -> Replies]
        BY <3>0 DEF TypeOK
      <4>3. CASE Attempt(r)
        <5>1. PICK x \in Replies :
                 /\ Ask(r, "primary", "primary", "try", x)
                 /\ IF Retriable(x)
                    THEN /\ Reply(r, Closed(x))
                         /\ tried' = [tried EXCEPT ![r] = @ + 1]
                         /\ Goto(r, IF tried[r] < MaxRetries THEN "call"
                                    ELSE "failover")
                    ELSE Reply(r, x) /\ Goto(r, "judge") /\ UNCHANGED tried
          BY <4>3 DEF Attempt
        <5>2. /\ Len(sent'[r]) = Len(sent[r]) + 1
              /\ sent'[r][Len(sent[r]) + 1] =
                    [to |-> "primary", key |-> "primary", stage |-> "try",
                     again |-> Retriable(x)]
              /\ \A i \in 1 .. Len(sent[r]) : sent'[r][i] = sent[r][i]
          BY <3>0, <5>1, Appended DEF Providers
        <5>3. at[r] = "call" /\ used' = used /\ tried[r] <= MaxRetries
              /\ Len(sent[r]) = tried[r] /\ AllTried(sent[r]) /\ used[r] = "primary"
          BY <3>0, <4>1, <4>3 DEF Attempt, Counts, Course
        <5>9. \A i \in 1 .. Len(sent[r]) :
                 sent'[r][i].stage = "try" /\ sent'[r][i].again
          BY <5>2, <5>3 DEF AllTried
        <5>4. InOrder(sent'[r], Len(sent'[r]))
          <6>1. /\ sent'[r][Len(sent'[r])].stage = "try"
                /\ sent'[r][Len(sent'[r])].to = "primary"
                /\ sent'[r][Len(sent'[r])].key = "primary"
            BY <5>2
          <6>2. Len(sent'[r]) <= MaxRetries + 1 /\ Len(sent'[r]) - 1 = Len(sent[r])
            BY <4>1, <4>2, <5>2, <5>3
          <6>. QED
            BY <5>9, <6>1, <6>2 DEF InOrder
        <5>5. Ordered(sent'[r])
          BY <4>1, <5>2, <5>4, OldInOrder
        <5>6. ~FailedOver(sent'[r])
          <6>1. \A i \in 1 .. Len(sent'[r]) : sent'[r][i].stage = "try"
            BY <4>1, <5>2, <5>9
          <6>. QED
            BY <6>1 DEF FailedOver
        <5>7. CASE Retriable(x)
          <6>1. AllTried(sent'[r])
            <7>1. sent'[r][Len(sent'[r])].stage = "try" /\ sent'[r][Len(sent'[r])].again
              BY <5>2, <5>7
            <7>. QED
              BY <4>1, <5>2, <5>9, <7>1 DEF AllTried
          <6>2. /\ tried'[r] = tried[r] + 1 /\ at'[r] \in {"call", "failover"}
                /\ Retriable(reply'[r])
            BY <4>2, <5>1, <5>7, ClosedIsReply DEF Goto, Reply, Retriable
          <6>. QED
            BY <3>2, <4>1, <4>2, <5>2, <5>3, <5>5, <5>7, <6>1, <6>2 DEF Course
        <5>8. CASE ~Retriable(x)
          <6>1. at'[r] = "judge" /\ reply'[r] = x
            BY <4>2, <5>1, <5>8 DEF Goto, Reply
          <6>. QED
            BY <3>2, <4>1, <5>2, <5>3, <5>5, <5>6, <5>8, <6>1 DEF Course
        <5>. QED
          BY <5>7, <5>8
      <4>4. CASE FailOver(r)
        <5>1. PICK x \in Replies :
                 Ask(r, "fallback", "fallback", "failover", x) /\ Reply(r, x)
          BY <4>4 DEF FailOver
        <5>2. /\ Len(sent'[r]) = Len(sent[r]) + 1
              /\ sent'[r][Len(sent[r]) + 1] =
                    [to |-> "fallback", key |-> "fallback", stage |-> "failover",
                     again |-> Retriable(x)]
              /\ \A i \in 1 .. Len(sent[r]) : sent'[r][i] = sent[r][i]
          BY <3>0, <5>1, Appended DEF Providers
        <5>3. at[r] = "failover" /\ Len(sent[r]) = MaxRetries + 1 /\ AllTried(sent[r])
          BY <3>0, <4>1, <4>4 DEF FailOver, Counts, Course
        <5>4. InOrder(sent'[r], Len(sent'[r]))
          BY <4>1, <5>2, <5>3 DEF InOrder, AllTried
        <5>5. Ordered(sent'[r])
          BY <4>1, <5>2, <5>4, OldInOrder
        <5>6. FailedOver(sent'[r])
          BY <4>1, <5>2 DEF FailedOver
        <5>7. at'[r] = "judge" /\ used'[r] = "fallback" /\ reply'[r] = x
          BY <4>2, <4>4, <5>1 DEF FailOver, Goto, Reply
        <5>. QED
          BY <3>2, <4>1, <5>2, <5>5, <5>6, <5>7 DEF Course
      <4>5. CASE Resolve(r)
        <5>1. PICK x \in Replies :
                 /\ Ask(r, used[r], "primary", "resolve", x)
                 /\ IF Failed(x)
                    THEN /\ Reply(r, Closed(x))
                         /\ Answer(r, "gaveup") /\ Goto(r, "done")
                    ELSE Reply(r, x) /\ Goto(r, "read") /\ UNCHANGED answer
          BY <4>5 DEF Resolve
        <5>2. used[r] \in Providers /\ "primary" \in Providers
          BY <4>2 DEF Providers
        <5>3. /\ Len(sent'[r]) = Len(sent[r]) + 1
              /\ sent'[r][Len(sent[r]) + 1] =
                    [to |-> used[r], key |-> "primary", stage |-> "resolve",
                     again |-> Retriable(x)]
              /\ \A i \in 1 .. Len(sent[r]) : sent'[r][i] = sent[r][i]
          BY <3>0, <5>1, <5>2, Appended
        <5>4. /\ at[r] = "gather" /\ used' = used /\ Len(sent[r]) > 0
              /\ ~sent[r][Len(sent[r])].again
              /\ used[r] = "fallback" <=> FailedOver(sent[r])
          BY <4>1, <4>5 DEF Resolve, Course
        <5>5. InOrder(sent'[r], Len(sent'[r]))
          <6>1. /\ Len(sent[r]) \in Nat /\ Len(sent'[r]) > 1
                /\ Len(sent'[r]) - 1 = Len(sent[r])
            BY <4>1, <5>3, <5>4
          <6>2. /\ sent'[r][Len(sent'[r])].to = used[r]
                /\ sent'[r][Len(sent'[r])].key = "primary"
                /\ sent'[r][Len(sent'[r])].stage = "resolve"
            BY <5>3
          <6>3. ~sent'[r][Len(sent'[r]) - 1].again
            BY <5>3, <5>4, <6>1
          <6>4. (\E j \in 1 .. (Len(sent'[r]) - 1) :
                    sent'[r][j].stage = "failover") <=> FailedOver(sent[r])
            BY <5>3, <6>1 DEF FailedOver
          <6>5. used[r] = IF FailedOver(sent[r]) THEN "fallback" ELSE "primary"
            BY <5>2, <5>4 DEF Providers
          <6>. QED
            BY <6>1, <6>2, <6>3, <6>4, <6>5 DEF InOrder
        <5>6. Ordered(sent'[r])
          BY <4>1, <5>3, <5>5, OldInOrder
        <5>7. FailedOver(sent'[r]) <=> FailedOver(sent[r])
          <6>1. ASSUME FailedOver(sent[r]) PROVE FailedOver(sent'[r])
            <7>1. PICK i \in 1 .. Len(sent[r]) : sent[r][i].stage = "failover"
              BY <6>1 DEF FailedOver
            <7>2. i \in 1 .. Len(sent'[r]) /\ sent'[r][i].stage = "failover"
              BY <4>1, <5>3, <7>1
            <7>. QED
              BY <7>2 DEF FailedOver
          <6>2. ASSUME FailedOver(sent'[r]) PROVE FailedOver(sent[r])
            <7>1. PICK i \in 1 .. Len(sent'[r]) : sent'[r][i].stage = "failover"
              BY <6>2 DEF FailedOver
            <7>2. i # Len(sent[r]) + 1
              BY <5>3, <7>1
            <7>3. i \in 1 .. Len(sent[r]) /\ sent[r][i].stage = "failover"
              BY <4>1, <5>3, <7>1, <7>2
            <7>. QED
              BY <7>3 DEF FailedOver
          <6>. QED
            BY <6>1, <6>2
        <5>8. at'[r] = "done" \/ (at'[r] = "read" /\ ~Retriable(x))
          BY <4>2, <5>1 DEF Goto, Failed, Retriable
        <5>. QED
          BY <3>2, <4>1, <5>3, <5>4, <5>6, <5>7, <5>8 DEF Course
      <4>6. CASE Begin(r)
        BY <3>0, <3>2, <4>1, <4>2, <4>6 DEF Begin, Goto, Course, Counts,
           Retriable, course
      <4>7. CASE NoFallback(r)
        <5>1. at[r] = "failover" /\ at'[r] = "judge"
              /\ UNCHANGED <<sent, used, reply>>
          BY <4>2, <4>7 DEF NoFallback, Goto, course
        <5>2. ~FailedOver(sent[r]) /\ used[r] = "primary"
          BY <4>1, <5>1 DEF Course, AllTried, FailedOver
        <5>. QED
          BY <3>2, <4>1, <5>1, <5>2 DEF Course, Retriable
      <4>8. CASE Refuse(r)
        BY <3>0, <3>2, <4>1, <4>2, <4>8 DEF Refuse, Goto, Course, Counts,
           Retriable, course
      <4>9. CASE Accept(r)
        BY <3>0, <3>2, <4>1, <4>2, <4>9 DEF Accept, Goto, Course, Counts,
           Failed, Retriable, course
      <4>10. CASE LeaveLoop(r)
        BY <3>0, <3>2, <4>1, <4>2, <4>10 DEF LeaveLoop, Goto, Course, Counts,
           Reply, Retriable, course
      <4>11. CASE ReadText(r)
        BY <3>0, <3>2, <4>1, <4>2, <4>11 DEF ReadText, TakeFinal, Goto, Course,
           Counts, Retriable, course
      <4>12. CASE ReadTools(r)
        BY <3>0, <3>2, <4>1, <4>2, <4>12 DEF ReadTools, Goto, Course, Counts,
           Retriable, course
      <4>13. CASE CheckTool(r)
        BY <3>0, <3>2, <4>1, <4>2, <4>13 DEF CheckTool, TakeFinal, Goto,
           Course, Counts, Retriable, course
      <4>14. CASE AllCached(r)
        BY <3>0, <3>2, <4>1, <4>2, <4>14 DEF AllCached, Goto, Course, Counts,
           Retriable, course
      <4>15. CASE GatherTool(r)
        BY <3>0, <3>2, <4>1, <4>2, <4>15 DEF GatherTool, Goto, Course, Counts,
           Retriable, course
      <4>16. CASE Panic(r)
        BY <3>0, <3>2, <4>1, <4>2, <4>16 DEF Panic, Goto, Course, Counts,
           Retriable, course
      <4>17. CASE SendNothing(r)
        BY <3>0, <3>2, <4>1, <4>2, <4>17 DEF SendNothing, Goto, Course, Counts,
           Retriable, course
      <4>18. CASE SendOdd(r)
        BY <3>0, <3>2, <4>1, <4>2, <4>18 DEF SendOdd, Goto, Course, Counts,
           Retriable, course
      <4>19. CASE SendFinal(r)
        BY <3>0, <3>2, <4>1, <4>2, <4>19 DEF SendFinal, Goto, Course, Counts,
           Retriable, course
      <4>. QED
        BY <2>1, <4>3, <4>4, <4>5, <4>6, <4>7, <4>8, <4>9, <4>10, <4>11, <4>12,
           <4>13, <4>14, <4>15, <4>16, <4>17, <4>18, <4>19 DEF Handle
    <3>. QED
      BY <3>1, <3>2
  <2>2. CASE Remember \/ Expire \/ UNCHANGED vars
    <3>1. UNCHANGED <<at, sent, tried, used, reply>>
      BY <2>2 DEF Remember, Expire, vars, course
    <3>. QED
      BY <3>1 DEF OrderInv, Course, Retriable
  <2>. QED
    BY <2>1, <2>2 DEF Next, OrderInv
<1>. QED
  BY <1>1, <1>2, TypeInvariant, PTL DEF Spec

\* The primary provider first, at most MaxRetries + 1 times, then the fallback
\* once, and resolutions of whichever answered, each with its own key but for
\* resolutions after a failover (proxy.go 772-794, 970).
THEOREM OrderOfExchanges == Spec => []ExchangesInOrder
<1>1. TypeInv /\ OrderInv => ExchangesInOrder
  BY OrderedMeans DEF TypeInv, OrderInv
<1>. QED
  BY <1>1, OrderInvariant, PTL

-----------------------------------------------------------------------------
Unanswered(r) == stored[r] = None /\ final[r] = 0

Stage(r) ==
    /\ at[r] \in {"new", "call", "failover", "judge"} =>
          rounds[r] = 0 /\ Unanswered(r)
    /\ at[r] = "failover" => ~reply[r].open
    /\ at[r] = "judge" /\ ~reply[r].open =>
          \/ reply[r].status = "none"
          \/ tried[r] = MaxRetries + 1 /\ ~kind[r].fallback
    /\ at[r] = "read" => Unanswered(r) /\ reply[r].status \in {"odd", "ok"}
    /\ at[r] \in {"check", "gather"} =>
          Unanswered(r) /\ reply[r].status = "ok" /\ reply[r].whole
    /\ at[r] = "send" =>
          /\ stored[r] = None
          /\ final[r] = 0 =>
                \/ reply[r].status = "odd"
                \/ reply[r].status = "ok" /\ ~reply[r].whole /\ ~reply[r].sick
          /\ final[r] # 0 =>
                /\ reply[r].status = "ok" /\ reply[r].whole
                /\ final[r] = Len(sent[r])
    /\ at[r] = "done" => AnswerFits(r) /\ StoresTheAnswer(r)

AnswerInv == \A r \in Requests : Stage(r)

\* What a request has come to know of its replies and answers.
THEOREM AnswerInvariant == Spec => []AnswerInv
<1>1. Init => AnswerInv
  <2> SUFFICES ASSUME Init, NEW r \in Requests PROVE Stage(r)
    BY DEF AnswerInv
  <2>1. /\ at[r] = "new" /\ rounds[r] = 0
        /\ stored[r] = None /\ final[r] = 0
    BY DEF Init
  <2>. QED
    BY <2>1 DEF Stage, Unanswered
<1>2. TypeInv /\ OrderInv /\ AnswerInv /\ [Next]_vars => AnswerInv'
  <2> SUFFICES ASSUME TypeInv, OrderInv, AnswerInv, [Next]_vars PROVE AnswerInv'
    OBVIOUS
  <2>1. ASSUME NEW r \in Requests, Handle(r), NEW s \in Requests
        PROVE  Stage(s)'
    <3>0. TypeOK /\ Counts(r) /\ Stage(r) /\ Course(r)
      BY DEF TypeInv, AnswerInv, OrderInv
    <3>1. CASE s # r
      <4>1. Same(s) /\ Stage(s)
        BY <2>1, <3>0, <3>1, OthersStay DEF AnswerInv
      <4>. QED
        BY <4>1 DEF Same, Stage, Unanswered, AnswerFits, StoresTheAnswer, Failed
    <3>2. CASE s = r
      <4>1. at \in [Requests -> Places] /\ reply \in [Requests -> Replies]
            /\ tried \in [Requests -> 0 .. MaxRetries + 1]
            /\ rounds \in [Requests -> Nat] /\ final \in [Requests -> Nat]
            /\ answer \in [Requests -> Answers]
            /\ stored \in [Requests -> Nat \union {None}]
        BY <3>0 DEF TypeOK
      <4>2. reply[r] \in Replies /\ Len(sent[r]) \in Nat
        BY <3>0, <4>1 DEF TypeOK
      <4>3. CASE Begin(r)
        BY <3>0, <3>2, <4>1, <4>2, <4>3 DEF Begin, Goto, Stage, Unanswered,
           Course, course, outcome
      <4>4. CASE Attempt(r)
        <5>1. PICK x \in Replies :
                 /\ Ask(r, "primary", "primary", "try", x)
                 /\ IF Retriable(x)
                    THEN /\ Reply(r, Closed(x))
                         /\ tried' = [tried EXCEPT ![r] = @ + 1]
                         /\ Goto(r, IF tried[r] < MaxRetries THEN "call"
                                    ELSE "failover")
                    ELSE Reply(r, x) /\ Goto(r, "judge") /\ UNCHANGED tried
          BY <4>4 DEF Attempt
        <5>2. x.status # "none" => x.open
          BY <5>1 DEF Ask, Possible
        <5>3. at[r] = "call" /\ UNCHANGED <<kind, rounds, final, stored>>
          BY <4>4 DEF Attempt, outcome
        <5>4. \/ at'[r] = "call"
              \/ at'[r] = "failover" /\ ~reply'[r].open
              \/ at'[r] = "judge" /\ reply'[r] = x
          BY <4>1, <5>1, ClosedIsReply DEF Goto, Reply
        <5>. QED
          BY <3>0, <3>2, <5>2, <5>3, <5>4 DEF Stage, Unanswered
      <4>5. CASE FailOver(r)
        <5>1. PICK x \in Replies :
                 Ask(r, "fallback", "fallback", "failover", x) /\ Reply(r, x)
          BY <4>5 DEF FailOver
        <5>2. x.status # "none" => x.open
          BY <5>1 DEF Ask, Possible
        <5>3. at[r] = "failover" /\ UNCHANGED <<rounds, final, stored>>
              /\ at'[r] = "judge" /\ reply'[r] = x
          BY <4>1, <4>5, <5>1 DEF FailOver, outcome, Goto, Reply
        <5>. QED
          BY <3>0, <3>2, <5>2, <5>3 DEF Stage, Unanswered
      <4>6. CASE NoFallback(r)
        <5>1. at[r] = "failover" /\ at'[r] = "judge" /\ ~kind[r].fallback
              /\ UNCHANGED <<kind, tried, reply, rounds, final, stored>>
          BY <4>1, <4>6 DEF NoFallback, course, outcome, Goto
        <5>. QED
          BY <3>0, <3>2, <5>1 DEF Stage, Counts, Unanswered
      <4>7. CASE Refuse(r)
        <5>1. at[r] = "judge" /\ Failed(reply[r])
          BY <4>7 DEF Refuse
        <5>2. UNCHANGED <<kind, reply, tried, rounds, final, sent>>
          BY <4>7 DEF Refuse, course
        <5>3. at'[r] = "done"
          BY <4>1, <4>7 DEF Refuse, Goto
        <5>4. answer'[r] = IF reply[r].open /\ reply[r].whole THEN "own" ELSE "generic"
          BY <4>1, <4>7 DEF Refuse, Answer
        <5>5. /\ stored[r] = None /\ rounds[r] = 0
              /\ ~reply[r].open => \/ reply[r].status = "none"
                                   \/ tried[r] = MaxRetries + 1 /\ ~kind[r].fallback
          BY <3>0, <5>1 DEF Stage, Unanswered
        <5>6. stored' = stored
          BY <4>7 DEF Refuse
        <5>8. AnswerFits(r)'
          BY <5>1, <5>2, <5>4, <5>5 DEF AnswerFits
        <5>9. StoresTheAnswer(r)'
          BY <5>1, <5>2, <5>4, <5>5, <5>6 DEF StoresTheAnswer
        <5>. QED
          BY <3>2, <5>3, <5>8, <5>9 DEF Stage
      <4>8. CASE Accept(r)
        BY <3>0, <3>2, <4>1, <4>2, <4>8 DEF Accept, Failed, Replies, Goto,
           Stage, Unanswered,
           Course, course, outcome
      <4>9. CASE LeaveLoop(r)
        BY <3>0, <3>2, <4>1, <4>2, <4>9, ClosedIsReply DEF LeaveLoop, Reply,
           Goto, Stage, Unanswered,
           Course, course, outcome
      <4>10. CASE ReadText(r)
        BY <3>0, <3>2, <4>1, <4>2, <4>10 DEF ReadText, TakeFinal, Goto, Stage,
           Unanswered,
           Course, course, outcome
      <4>11. CASE ReadTools(r)
        BY <3>0, <3>2, <4>1, <4>2, <4>11 DEF ReadTools, Goto, Stage, Unanswered,
           Course, course, outcome
      <4>12. CASE CheckTool(r)
        BY <3>0, <3>2, <4>1, <4>2, <4>12 DEF CheckTool, TakeFinal, Goto, Stage,
           Unanswered,
           Course, course, outcome
      <4>13. CASE AllCached(r)
        BY <3>0, <3>2, <4>1, <4>2, <4>13 DEF AllCached, Goto, Stage, Unanswered,
           Course, course, outcome
      <4>14. CASE GatherTool(r)
        BY <3>0, <3>2, <4>1, <4>2, <4>14 DEF GatherTool, Goto, Stage,
           Unanswered,
           Course, course, outcome
      <4>15. CASE Resolve(r)
        <5>1. PICK x \in Replies :
                 /\ Ask(r, used[r], "primary", "resolve", x)
                 /\ IF Failed(x)
                    THEN /\ Reply(r, Closed(x))
                         /\ Answer(r, "gaveup") /\ Goto(r, "done")
                    ELSE Reply(r, x) /\ Goto(r, "read") /\ UNCHANGED answer
          BY <4>15 DEF Resolve
        <5>2. at[r] = "gather" /\ UNCHANGED <<final, stored>> /\ rounds'[r] > 0
          BY <4>1, <4>15 DEF Resolve
        <5>3. CASE Failed(x)
          <6>1. at'[r] = "done" /\ answer'[r] = "gaveup" /\ Failed(reply'[r])
            BY <4>1, <5>1, <5>3, ClosedIsReply DEF Goto, Answer, Reply, Failed
          <6>2. AnswerFits(r)'
            BY <5>2, <6>1 DEF AnswerFits, Failed
          <6>3. StoresTheAnswer(r)'
            BY <3>0, <5>2 DEF Stage, Unanswered, StoresTheAnswer
          <6>. QED
            BY <3>2, <6>1, <6>2, <6>3 DEF Stage
        <5>4. CASE ~Failed(x)
          <6>1. at'[r] = "read" /\ reply'[r] = x /\ x.status \in {"odd", "ok"}
            BY <4>1, <5>1, <5>4 DEF Goto, Reply, Failed, Replies
          <6>. QED
            BY <3>0, <3>2, <5>2, <6>1 DEF Stage, Unanswered
        <5>. QED
          BY <5>3, <5>4
      <4>16. CASE Panic(r)
        <5>1. at[r] = "send" /\ final[r] = 0 /\ rounds[r] > 0
          BY <4>16 DEF Panic
        <5>2. UNCHANGED <<kind, reply, tried, rounds, final, sent>>
          BY <4>16 DEF Panic, course
        <5>3. at'[r] = "done"
          BY <4>1, <4>16 DEF Panic, Goto
        <5>4. answer'[r] = "panic"
          BY <4>1, <4>16 DEF Panic, Answer
        <5>5. stored[r] = None /\ (reply[r].status = "odd" \/ ~reply[r].whole)
          BY <3>0, <5>1 DEF Stage, Unanswered
        <5>6. stored' = stored
          BY <4>16 DEF Panic
        <5>8. AnswerFits(r)'
          BY <5>1, <5>2, <5>4, <5>5 DEF AnswerFits
        <5>9. StoresTheAnswer(r)'
          BY <5>1, <5>2, <5>4, <5>5, <5>6 DEF StoresTheAnswer
        <5>. QED
          BY <3>2, <5>3, <5>8, <5>9 DEF Stage
      <4>17. CASE SendNothing(r)
        <5>1. at[r] = "send" /\ final[r] = 0 /\ rounds[r] = 0 /\ reply[r].status = "ok"
          BY <4>17 DEF SendNothing
        <5>2. UNCHANGED <<kind, reply, tried, rounds, final, sent>>
          BY <4>17 DEF SendNothing, course
        <5>3. at'[r] = "done"
          BY <4>1, <4>17 DEF SendNothing, Goto
        <5>4. answer'[r] = "empty"
          BY <4>1, <4>17 DEF SendNothing, Answer
        <5>5. stored[r] = None /\ ~reply[r].whole /\ ~reply[r].sick
          BY <3>0, <5>1 DEF Stage, Unanswered
        <5>6. kind[r].stream =>
                \/ stored'[r] = None
                \/ stored'[r] = Len(sent[r]) /\ ~kind[r].unkept
          <6>1. kind[r].stream => Keep(r)
            BY <4>17 DEF SendNothing
          <6>. QED
            BY <4>1, <6>1 DEF Keep
        <5>7. ~(kind[r].stream) => stored' = stored
          BY <4>17 DEF SendNothing
        <5>8. AnswerFits(r)'
          BY <5>1, <5>2, <5>4, <5>5 DEF AnswerFits
        <5>9. StoresTheAnswer(r)'
          BY <5>1, <5>2, <5>4, <5>5, <5>6, <5>7 DEF StoresTheAnswer
        <5>. QED
          BY <3>2, <5>3, <5>8, <5>9 DEF Stage
      <4>18. CASE SendOdd(r)
        <5>1. at[r] = "send" /\ final[r] = 0 /\ rounds[r] = 0 /\ reply[r].status = "odd"
          BY <4>18 DEF SendOdd
        <5>2. UNCHANGED <<kind, reply, tried, rounds, final, sent>>
          BY <4>18 DEF SendOdd, course
        <5>3. at'[r] = "done"
          BY <4>1, <4>18 DEF SendOdd, Goto
        <5>4. answer'[r] = "answer"
          BY <4>1, <4>18 DEF SendOdd, Answer
        <5>5. stored[r] = None
          BY <3>0, <5>1 DEF Stage, Unanswered
        <5>6. stored' = stored
          BY <4>18 DEF SendOdd
        <5>8. AnswerFits(r)'
          BY <5>1, <5>2, <5>4, <5>5 DEF AnswerFits
        <5>9. StoresTheAnswer(r)'
          BY <5>1, <5>2, <5>4, <5>5, <5>6 DEF StoresTheAnswer
        <5>. QED
          BY <3>2, <5>3, <5>8, <5>9 DEF Stage
      <4>19. CASE SendFinal(r)
        <5>1. at[r] = "send" /\ final[r] # 0
          BY <4>19 DEF SendFinal
        <5>2. UNCHANGED <<kind, reply, tried, rounds, final, sent>>
          BY <4>19 DEF SendFinal, course
        <5>3. at'[r] = "done"
          BY <4>1, <4>19 DEF SendFinal, Goto
        <5>4. answer'[r] = IF reply[r].sick /\ kind[r].stream THEN "apperror" ELSE "answer"
          BY <4>1, <4>19 DEF SendFinal, Answer
        <5>5. /\ stored[r] = None /\ reply[r].status = "ok" /\ reply[r].whole
              /\ final[r] = Len(sent[r])
          BY <3>0, <5>1 DEF Stage, Unanswered
        <5>6. ~reply[r].sick =>
                \/ stored'[r] = None
                \/ stored'[r] = Len(sent[r]) /\ ~kind[r].unkept
          <6>1. ~reply[r].sick => Keep(r)
            BY <4>19 DEF SendFinal
          <6>. QED
            BY <4>1, <6>1 DEF Keep
        <5>7. reply[r].sick => stored' = stored
          BY <4>19 DEF SendFinal
        <5>8. AnswerFits(r)'
          BY <5>1, <5>2, <5>4, <5>5 DEF AnswerFits
        <5>9. StoresTheAnswer(r)'
          BY <5>1, <5>2, <5>4, <5>5, <5>6, <5>7 DEF StoresTheAnswer
        <5>. QED
          BY <3>2, <5>3, <5>8, <5>9 DEF Stage
      <4>. QED
        BY <2>1, <4>3, <4>4, <4>5, <4>6, <4>7, <4>8, <4>9, <4>10, <4>11, <4>12,
           <4>13, <4>14, <4>15, <4>16, <4>17, <4>18, <4>19 DEF Handle
    <3>. QED
      BY <3>1, <3>2
  <2>2. CASE Remember \/ Expire \/ UNCHANGED vars
    <3>1. UNCHANGED <<kind, at, tried, reply, rounds, final, answer, stored, sent>>
      BY <2>2 DEF Remember, Expire, vars, course, outcome
    <3>. QED
      BY <3>1 DEF AnswerInv, Stage, Unanswered, AnswerFits, StoresTheAnswer,
         Failed
  <2>. QED
    BY <2>1, <2>2 DEF Next, AnswerInv
<1>. QED
  BY <1>1, <1>2, OrderInvariant, PTL DEF Spec

\* Whatever failed, was retried, failed over or resolved: the client's answer and
\* the entry of L1 are those of the last exchange (proxy.go 795-1001, stream.go
\* 187-259).
THEOREM LastAnswerWins == Spec => []AnswerIsTheLast
<1>1. AnswerInv => AnswerIsTheLast
  BY DEF AnswerInv, Stage, AnswerIsTheLast
<1>. QED
  BY <1>1, AnswerInvariant, PTL

-----------------------------------------------------------------------------
\* A call that was looked up with success has a result that fits, or the request
\* has lost it since.
Has(r, c) == \E e \in Fits(r, c) : e \in memory \/ <<r, e>> \in lapsed

Honest(r, m) ==
    \/ m.holds \in Fits(r, m.for)
    \/ m.holds = None /\ \E e \in Fits(r, m.for) : <<r, e>> \in lapsed

Covers(r) ==
    /\ at[r] = "check" => \A c \in reply[r].tools : c \in todo[r] \/ Has(r, c)
    /\ at[r] = "gather" => \A c \in todo[r] : Has(r, c)
    /\ \A m \in results[r] : Honest(r, m)

CoverInv == \A r \in Requests : Covers(r)

\* A lookup fails only if no entry that is there fits the call.
LEMMA NothingFound ==
    ASSUME NEW r \in Requests, NEW c \in Calls, Found(r, c) = {},
           NEW e \in Fits(r, c)
    PROVE  e \notin memory
BY DEF Found, Fits

\* Handlers read the tool cache and never write it (proxy.go 893-959).
LEMMA HandlersOnlyRead ==
    ASSUME NEW r \in Requests, Handle(r)
    PROVE  UNCHANGED <<memory, lapsed>>
<1> USE DEF cache
<1>1. CASE Begin(r) \/ Attempt(r) \/ FailOver(r) \/ NoFallback(r) \/ Refuse(r)
           \/ Accept(r)
  BY <1>1 DEF Begin, Attempt, FailOver, NoFallback, Refuse, Accept
<1>2. CASE LeaveLoop(r) \/ ReadText(r) \/ ReadTools(r) \/ CheckTool(r)
           \/ AllCached(r) \/ GatherTool(r) \/ Resolve(r)
  BY <1>2 DEF LeaveLoop, ReadText, ReadTools, CheckTool, AllCached, GatherTool,
              Resolve
<1>3. CASE Panic(r) \/ SendNothing(r) \/ SendOdd(r) \/ SendFinal(r)
  BY <1>3 DEF Panic, SendNothing, SendOdd, SendFinal
<1>. QED
  BY <1>1, <1>2, <1>3 DEF Handle

\* What the second lookup needs is there or known to be lost: the first one
\* saw it, and only Expire takes an entry away.
THEOREM CoverInvariant == Spec => []CoverInv
<1>1. Init => CoverInv
  BY DEF Init, CoverInv, Covers
<1>2. TypeInv /\ CoverInv /\ [Next]_vars => CoverInv'
  <2> SUFFICES ASSUME TypeInv, CoverInv, [Next]_vars PROVE CoverInv'
    OBVIOUS
  <2>1. ASSUME NEW r \in Requests, Handle(r) PROVE CoverInv'
    <3>0. TypeOK /\ Covers(r) /\ UNCHANGED <<memory, lapsed>>
      BY <2>1, HandlersOnlyRead DEF TypeInv, CoverInv
    <3>1. ASSUME NEW s \in Requests, s # r PROVE Covers(s)'
      <4>1. Same(s) /\ Covers(s)
        BY <2>1, <3>0, <3>1, OthersStay DEF CoverInv
      <4>. QED
        BY <3>0, <4>1 DEF Same, Covers, Has, Honest
    <3>2. Covers(r)'
      <4>1. /\ at \in [Requests -> Places] /\ reply \in [Requests -> Replies]
            /\ todo \in [Requests -> SUBSET Calls]
            /\ results \in [Requests -> SUBSET Messages]
        BY <3>0 DEF TypeOK
      <4>2. \A c : Has(r, c)' <=> Has(r, c)
        BY <3>0 DEF Has
      <4>3. \A m : Honest(r, m)' <=> Honest(r, m)
        BY <3>0 DEF Honest
      <4> SUFFICES
            /\ at'[r] = "check" =>
                  \A c \in reply'[r].tools : c \in todo'[r] \/ Has(r, c)
            /\ at'[r] = "gather" => \A c \in todo'[r] : Has(r, c)
            /\ \A m \in results'[r] : Honest(r, m)
        BY <4>2, <4>3 DEF Covers
      <4>4. CASE at'[r] \notin {"check", "gather"} /\ results' = results
        BY <3>0, <4>4 DEF Covers
      <4>5. CASE Begin(r) \/ Attempt(r) \/ FailOver(r) \/ NoFallback(r)
                 \/ Refuse(r) \/ Accept(r) \/ LeaveLoop(r) \/ ReadText(r)
        <5>1. at'[r] \notin {"check", "gather"}
          <6>1. CASE Begin(r) \/ FailOver(r) \/ NoFallback(r) \/ Refuse(r)
                     \/ Accept(r) \/ LeaveLoop(r) \/ ReadText(r)
            BY <4>1, <6>1 DEF Begin, FailOver, NoFallback, Refuse, Accept,
                              LeaveLoop, ReadText, TakeFinal, Goto
          <6>2. CASE Attempt(r)
            BY <4>1, <6>2 DEF Attempt, Goto
          <6>. QED
            BY <4>5, <6>1, <6>2
        <5>2. results' = results
          BY <4>5 DEF Begin, Attempt, FailOver, NoFallback, Refuse, Accept,
                      LeaveLoop, ReadText, lookups
        <5>. QED
          BY <4>4, <5>1, <5>2
      <4>6. CASE ReadTools(r)
        <5>1. reply' = reply /\ results' = results
          BY <4>6 DEF ReadTools
        <5>2. todo'[r] = reply[r].tools /\ at'[r] = "check"
          BY <4>1, <4>6 DEF ReadTools, Goto
        <5>. QED
          BY <3>0, <5>1, <5>2 DEF Covers
      <4>7. CASE CheckTool(r)
        <5>1. at[r] = "check" /\ reply' = reply /\ results' = results
          BY <4>7 DEF CheckTool
        <5>2. PICK c \in todo[r] :
                IF Found(r, c) # {}
                THEN todo' = [todo EXCEPT ![r] = @ \ {c}] /\ UNCHANGED <<at, final>>
                ELSE todo' = [todo EXCEPT ![r] = {}] /\ TakeFinal(r)
          BY <4>7 DEF CheckTool
        <5>3. c \in Calls
          BY <4>1
        <5>4. CASE Found(r, c) # {}
          <6>1. todo'[r] = todo[r] \ {c} /\ at' = at
            BY <4>1, <5>2, <5>4
          <6>2. Has(r, c)
            BY <5>3, <5>4, FoundFits DEF Has
          <6>. QED
            BY <3>0, <5>1, <6>1, <6>2 DEF Covers
        <5>5. CASE Found(r, c) = {}
          <6>1. at'[r] = "send"
            BY <4>1, <5>2, <5>5 DEF TakeFinal, Goto
          <6>. QED
            BY <4>4, <5>1, <6>1
        <5>. QED
          BY <5>4, <5>5
      <4>8. CASE AllCached(r)
        <5>1. /\ at[r] = "check" /\ todo[r] = {}
              /\ reply' = reply /\ results' = results
          BY <4>8 DEF AllCached
        <5>2. todo'[r] = reply[r].tools /\ at'[r] = "gather"
          BY <4>1, <4>8 DEF AllCached, Goto
        <5>. QED
          BY <3>0, <5>1, <5>2 DEF Covers
      <4>9. CASE GatherTool(r)
        <5>1. at[r] = "gather" /\ at' = at /\ reply' = reply
          BY <4>9 DEF GatherTool
        <5>2. PICK c \in todo[r] :
                /\ \E e \in IF Found(r, c) = {} THEN {None} ELSE Found(r, c) :
                     results' = [results EXCEPT ![r] =
                                     @ \union {[for |-> c, holds |-> e]}]
                /\ todo' = [todo EXCEPT ![r] = @ \ {c}]
          BY <4>9 DEF GatherTool
        <5>3. PICK e \in IF Found(r, c) = {} THEN {None} ELSE Found(r, c) :
                results' = [results EXCEPT ![r] =
                                @ \union {[for |-> c, holds |-> e]}]
          BY <5>2
        <5>4. /\ c \in Calls /\ Has(r, c)
              /\ todo'[r] = todo[r] \ {c}
              /\ results'[r] = results[r] \union {[for |-> c, holds |-> e]}
          BY <3>0, <4>1, <5>1, <5>2, <5>3 DEF Covers
        <5>5. Honest(r, [for |-> c, holds |-> e])
          <6>1. CASE Found(r, c) = {}
            <7>1. \E d \in Fits(r, c) : <<r, d>> \in lapsed
              BY <5>4, <6>1, NothingFound DEF Has
            <7>. QED
              BY <5>3, <6>1, <7>1 DEF Honest
          <6>2. CASE Found(r, c) # {}
            <7>1. e \in Found(r, c)
              BY <5>3, <6>2
            <7>. QED
              BY <5>4, <7>1, FoundFits DEF Honest
          <6>. QED
            BY <6>1, <6>2
        <5>. QED
          BY <3>0, <5>1, <5>4, <5>5 DEF Covers
      <4>10. CASE Resolve(r)
        <5>1. at'[r] \in {"done", "read"} /\ results' = results
          BY <4>1, <4>10 DEF Resolve, Goto, lookups
        <5>. QED
          BY <4>4, <5>1
      <4>11. CASE Panic(r) \/ SendNothing(r) \/ SendOdd(r) \/ SendFinal(r)
        <5>1. at'[r] = "done" /\ results' = results
          BY <4>1, <4>11 DEF Panic, SendNothing, SendOdd, SendFinal, Goto,
             lookups
        <5>. QED
          BY <4>4, <5>1
      <4>. QED
        BY <2>1, <4>5, <4>6, <4>7, <4>8, <4>9, <4>10, <4>11 DEF Handle
    <3>. QED
      BY <3>1, <3>2 DEF CoverInv
  <2>2. CASE Remember
    <3>1. UNCHANGED <<at, reply, todo, results, lapsed>> /\ memory \subseteq memory'
      BY <2>2 DEF Remember, lookups
    <3>. QED
      BY <3>1 DEF CoverInv, Covers, Has, Honest
  <2>3. CASE Expire
    <3>1. UNCHANGED <<at, reply, todo, results>>
      BY <2>3 DEF Expire, lookups
    <3>2. PICK e \in memory :
            /\ memory' = memory \ {e}
            /\ lapsed' = lapsed \union
                   {<<r, e>> : r \in {q \in Requests :
                        /\ at[q] \in {"check", "gather"}
                        /\ \E c \in Calls : e \in Fits(q, c)}}
      BY <2>3 DEF Expire
    <3>3. ASSUME NEW r \in Requests PROVE Covers(r)'
      <4>1. Covers(r)
        BY DEF CoverInv
      <4>2. \A m : Honest(r, m) => Honest(r, m)'
        BY <3>2 DEF Honest
      <4>3. ASSUME NEW c \in Calls, Has(r, c), at[r] \in {"check", "gather"}
            PROVE  Has(r, c)'
        <5>1. PICK d \in Fits(r, c) : d \in memory \/ <<r, d>> \in lapsed
          BY <4>3 DEF Has
        <5>2. CASE d = e
          <6>1. <<r, d>> \in lapsed'
            BY <3>2, <4>3, <5>1, <5>2
          <6>. QED
            BY <5>1, <6>1 DEF Has
        <5>3. CASE d # e
          BY <3>2, <5>1, <5>3 DEF Has
        <5>. QED
          BY <5>2, <5>3
      <4>4. todo[r] \subseteq Calls /\ reply[r].tools \subseteq Calls
        BY ToolsAreCalls DEF TypeInv, TypeOK
      <4>. QED
        BY <3>1, <4>1, <4>2, <4>3, <4>4 DEF Covers
    <3>. QED
      BY <3>3 DEF CoverInv
  <2>4. CASE UNCHANGED vars
    BY <2>4 DEF vars, CoverInv, Covers, Has, Honest, lookups, cache
  <2>. QED
    BY <2>1, <2>2, <2>3, <2>4 DEF Next
<1>. QED
  BY <1>1, <1>2, TypeInvariant, PTL DEF Spec

\* A model is told what its own tenant's tool calls returned, and told nothing
\* only when an entry was lost between the two lookups (proxy.go 902-959).
THEOREM ResultsOfTheTenant == Spec => []ResultsAreTheTenants
<1>1. CoverInv => ResultsAreTheTenants
  BY DEF CoverInv, Covers, Honest, ResultsAreTheTenants
<1>. QED
  BY <1>1, CoverInvariant, PTL
=============================================================================
