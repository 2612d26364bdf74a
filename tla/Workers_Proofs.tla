--------------------------- MODULE Workers_Proofs ---------------------------
(***************************************************************************)
(* Proofs about the workers: the ServiceNow poller (ServiceNowPoll), the   *)
(* tokens counted for a task (TokenUsage) and the runtime of a session     *)
(* (SessionRuntime) with its trace (SessionTrace).                         *)
(***************************************************************************)
EXTENDS ServiceNowPoll, TokenUsage, SessionRuntime, SumTheorems, TLAPS

-----------------------------------------------------------------------------
(* The ServiceNow poller. *)

(* A capped counter moves by one below its cap. *)
LEMMA Counting ==
    ASSUME NEW n \in Nat, NEW cap \in Nat
    PROVE  CountedTo(n, cap) \in Nat /\ CountedTo(n, cap) <= cap
           /\ (n < cap => CountedTo(n, cap) = n + 1) /\ (n >= cap => CountedTo(n, cap) = cap)
  BY DEF CountedTo

(* Losing the memory raises the bound by one for every record. *)
LEMMA ForgetStep ==
    ASSUME PollTypeOK, PollInv, Forgets, created' = created
    PROVE  seen' \subseteq Records /\ forgotten' \in 0..MaxForgotten /\ PollInv'
<1>0. MaxForgotten \in Nat /\ forgotten \in Nat /\ forgotten <= MaxForgotten
      /\ created \in [Records -> Nat]
  BY PollAssumptions DEF PollTypeOK
<1>1. seen' = {} /\ forgotten' \in Nat /\ forgotten' <= MaxForgotten
      /\ (forgotten < MaxForgotten => forgotten' = forgotten + 1)
      /\ (forgotten >= MaxForgotten => forgotten' = MaxForgotten)
  BY <1>0, Counting DEF Forgets
<1>2. ASSUME forgotten' < MaxForgotten, NEW r \in Records PROVE created'[r] <= forgotten'
  <2>1. forgotten < MaxForgotten
    BY <1>0, <1>1, <1>2
  <2>2. created[r] <= forgotten + (IF r \in seen THEN 1 ELSE 0) /\ created[r] \in Nat
    BY <1>0, <2>1 DEF PollInv
  <2> QED
    BY <1>0, <1>1, <2>1, <2>2
<1> QED
  BY <1>0, <1>1, <1>2 DEF PollInv

(* Every step of the poller, and of ServiceNow. *)
LEMMA PollStepInv == ASSUME PollTypeOK, PollInv, PollNext PROVE PollTypeOK' /\ PollInv'
<1>0. /\ MaxForgotten \in Nat /\ forgotten \in 0..MaxForgotten /\ created \in [Records -> Nat]
      /\ seen \subseteq Records /\ page \subseteq Records /\ matching \subseteq Records
  BY PollAssumptions DEF PollTypeOK
<1>1. CASE Poll
  <2>1. page' \subseteq Records
    BY <1>0, <1>1 DEF Poll, Answer
  <2> QED
    BY <1>1, <2>1 DEF Poll, PollTypeOK, PollInv
<1>2. CASE PageDone
  <2>1. UNCHANGED <<created, page, matching>>
    BY <1>2 DEF PageDone
  <2>2. CASE Forgets
    BY <1>0, <2>1, <2>2, ForgetStep DEF PollTypeOK
  <2>3. CASE UNCHANGED <<seen, forgotten>>
    BY <1>0, <2>1, <2>3 DEF PollTypeOK, PollInv
  <2> QED
    BY <1>2, <2>2, <2>3 DEF PageDone
<1>3. ASSUME NEW r \in Records, SkipSeen(r) PROVE PollTypeOK' /\ PollInv'
  BY <1>0, <1>3 DEF SkipSeen, PollTypeOK, PollInv
<1>4. ASSUME NEW r \in Records, Create(r) PROVE PollTypeOK' /\ PollInv'
  <2> DEFINE y == CountedTo(created[r], MaxForgotten + 2)
  <2>1. /\ seen' = seen \cup {r} /\ r \notin seen /\ page' \subseteq page
        /\ created' = [created EXCEPT ![r] = y] /\ UNCHANGED <<matching, forgotten>>
    BY <1>0, <1>4 DEF Create, Marked
  <2>2. y \in Nat /\ (created[r] < MaxForgotten + 2 => y = created[r] + 1)
    BY <1>0, Counting
  <2> HIDE DEF y
  <2>3. created' \in [Records -> Nat] /\ created'[r] = y
        /\ \A q \in Records : q # r => created'[q] = created[q]
    BY <1>0, <2>1, <2>2
  <2>4. ASSUME forgotten < MaxForgotten, NEW q \in Records
        PROVE  created'[q] <= forgotten + (IF q \in seen' THEN 1 ELSE 0)
    <3>1. created[q] <= forgotten + (IF q \in seen THEN 1 ELSE 0) /\ created[q] \in Nat
      BY <1>0, <2>4 DEF PollInv
    <3>2. CASE q = r
      BY <1>0, <2>1, <2>2, <2>3, <2>4, <3>1, <3>2
    <3>3. CASE q # r
      BY <2>1, <2>3, <3>1, <3>3
    <3> QED
      BY <3>2, <3>3
  <2> QED
    BY <1>0, <2>1, <2>3, <2>4 DEF PollTypeOK, PollInv
<1>5. CASE PollFails
  BY <1>5 DEF PollFails, PollTypeOK, PollInv
<1>6. CASE RestartPoller
  <2>1. Forgets /\ page' = {} /\ UNCHANGED <<created, matching>>
    BY <1>6 DEF RestartPoller
  <2> QED
    BY <1>0, <2>1, ForgetStep DEF PollTypeOK
<1>7. ASSUME NEW on \in BOOLEAN, SetHalted(on) PROVE PollTypeOK' /\ PollInv'
  BY <1>7 DEF SetHalted, PollTypeOK, PollInv
<1>8. ASSUME NEW r \in Records, TableChanges(r) PROVE PollTypeOK' /\ PollInv'
  BY <1>0, <1>8 DEF TableChanges, PollTypeOK, PollInv
<1>9. ASSUME NEW r \in Records, CreateFails(r) PROVE PollTypeOK' /\ PollInv'
  <2>1. seen' = seen \cup {r} /\ page' = {} /\ UNCHANGED <<created, matching, forgotten>>
    BY <1>9 DEF CreateFails, MarkedOnError
  <2>2. ASSUME forgotten < MaxForgotten, NEW q \in Records
        PROVE  created[q] <= forgotten + (IF q \in seen' THEN 1 ELSE 0)
    <3>1. created[q] <= forgotten + (IF q \in seen THEN 1 ELSE 0) /\ created[q] \in Nat
      BY <1>0, <2>2 DEF PollInv
    <3> QED
      BY <1>0, <2>1, <3>1
  <2> QED
    BY <1>0, <2>1, <2>2 DEF PollTypeOK, PollInv
<1> QED
  BY <1>1, <1>2, <1>3, <1>4, <1>5, <1>6, <1>7, <1>8, <1>9 DEF PollNext, PollStep

(* The poller creates one task for a record it remembers: a second one     *)
(* needs a restart or the clearing of seen_sys_ids, and each of these      *)
(* costs one task at most.                                                 *)
THEOREM RecordsBecomeOneTask == PollSpec => []OneTaskPerRecord
<1>1. PollInit => PollTypeOK /\ PollInv
  BY PollAssumptions DEF PollInit, PollTypeOK, PollInv
<1>2. PollTypeOK /\ PollInv /\ [PollNext]_pollVars => (PollTypeOK /\ PollInv)'
  <2>1. ASSUME PollTypeOK, PollInv, UNCHANGED pollVars PROVE (PollTypeOK /\ PollInv)'
    BY <2>1 DEF pollVars, PollTypeOK, PollInv
  <2> QED
    BY <2>1, PollStepInv
<1>3. PollTypeOK /\ PollInv => OneTaskPerRecord
  <2> SUFFICES ASSUME PollTypeOK, PollInv, forgotten < MaxForgotten, NEW r \in Records
               PROVE  created[r] <= 1 + forgotten
    BY DEF OneTaskPerRecord
  <2>1. created[r] <= forgotten + (IF r \in seen THEN 1 ELSE 0)
    BY DEF PollInv
  <2>2. created[r] \in Nat /\ forgotten \in Nat
    BY PollAssumptions DEF PollTypeOK
  <2> QED
    BY <2>1, <2>2
<1> QED
  BY <1>1, <1>2, <1>3, PTL DEF PollSpec

-----------------------------------------------------------------------------
(* The tokens of a task. *)

(* What the usage messages of an attempt say is at most its usage. *)
LEMMA UsageBounds ==
    ASSUME TokTypeOK, NEW a \in Attempts
    PROVE  Usage(a) \in Nat /\ \A i \in 1..Len(usages[a]) : usages[a][i] <= Usage(a)
<1> DEFINE sum == SumFunction(subTotals[a])
           S == {sum} \cup {usages[a][i] : i \in 1..Len(usages[a])}
<1>1. sum \in Nat
  <2>1. DOMAIN subTotals[a] = Subagents /\ \A k \in Subagents : subTotals[a][k] \in Nat
    BY DEF TokTypeOK
  <2>2. SumFunctionOnSet(subTotals[a], Subagents) \in Nat
    BY <2>1, TokenAssumptions, SumNat
  <2> QED
    BY <2>1, <2>2 DEF SumFunction
<1> HIDE DEF sum
<1>2. usages[a] \in Seq(Nat)
  BY DEF TokTypeOK
<1>3. PICK b \in Nat : \A i \in 1..Len(usages[a]) : usages[a][i] <= b
  BY <1>2, SequenceBounded
<1>4. S \in SUBSET Nat /\ \A x \in S : x <= b + sum
  BY <1>1, <1>2, <1>3
<1>5. S # {} /\ b + sum \in Nat
  BY <1>1
<1>6. Max(S) \in S /\ \A x \in S : x <= Max(S)
  BY <1>4, <1>5, Greatest
<1>7. Usage(a) = Max(S)
  BY DEF Usage, sum
<1> QED
  BY <1>4, <1>6, <1>7

(* The latest event of a kind, if there is one. *)
LEMMA LatestIs ==
    ASSUME TokTypeOK, NEW kind
    PROVE  \/ Latest(kind) = <<>> /\ \A i \in 1..Len(lifecycle) : lifecycle[i].kind # kind
           \/ \E i \in 1..Len(lifecycle) : LastOf(kind, i) /\ Latest(kind) = <<lifecycle[i]>>
<1> DEFINE at == {i \in 1..Len(lifecycle) : lifecycle[i].kind = kind}
<1>1. CASE at = {}
  BY <1>1 DEF Latest
<1>2. CASE at # {}
  <2>1. Len(lifecycle) \in Nat /\ at \in SUBSET Nat /\ \A i \in at : i <= Len(lifecycle)
    BY DEF TokTypeOK
  <2>2. Max(at) \in at /\ \A i \in at : i <= Max(at)
    BY <1>2, <2>1, Greatest
  <2>3. Latest(kind) = <<lifecycle[Max(at)]>>
    BY <1>2 DEF Latest
  <2>4. LastOf(kind, Max(at))
    <3> SUFFICES ASSUME NEW j \in (Max(at) + 1)..Len(lifecycle) PROVE lifecycle[j].kind # kind
      BY <2>2 DEF LastOf
    <3>1. Max(at) \in Nat /\ j \in 1..Len(lifecycle) /\ j > Max(at)
      BY <2>1, <2>2
    <3> QED
      BY <2>2, <3>1
  <2> QED
    BY <2>2, <2>3, <2>4
<1> QED
  BY <1>1, <1>2

(* The invariant says what TokensCounted says. *)
LEMMA InvCounts == TokInv => TokensCounted
<1> SUFFICES ASSUME TokInv PROVE TokensCounted
  OBVIOUS
<1>1. TokTypeOK /\ SaidInv /\ CompletionInv
  BY DEF TokInv
<1>2. \E a \in Attempts : tokens <= Usage(a)
  <2>0. tokens \in Nat /\ attempt \in Attempts
    BY <1>1 DEF TokTypeOK
  <2>1. CASE tokens = 0
    <3>1. Usage(attempt) \in Nat
      BY <1>1, <2>0, UsageBounds
    <3> QED
      BY <2>0, <2>1, <3>1
  <2>2. CASE tokens > 0
    <3>1. PICK a \in Attempts : \E i \in 1..Len(usages[a]) : tokens <= usages[a][i]
      BY <1>1, <2>2 DEF SaidInv, Said
    <3>2. PICK i \in 1..Len(usages[a]) : tokens <= usages[a][i]
      BY <3>1
    <3>3. usages[a][i] <= Usage(a) /\ Usage(a) \in Nat
      BY <1>1, UsageBounds
    <3>4. usages[a][i] \in Nat
      BY <1>1 DEF TokTypeOK
    <3> QED
      BY <2>0, <3>2, <3>3, <3>4
  <2> QED
    BY <2>0, <2>1, <2>2
<1>3. ASSUME Latest("complete") # <<>>, Latest("complete")[1].applied
      PROVE  tokens >= Latest("complete")[1].total
  <2>1. PICK i \in 1..Len(lifecycle) :
           LastOf("complete", i) /\ Latest("complete") = <<lifecycle[i]>>
    BY <1>1, <1>3, LatestIs
  <2>2. Latest("complete")[1] = lifecycle[i]
    BY <2>1
  <2> QED
    BY <1>1, <1>3, <2>1, <2>2 DEF CompletionInv
<1> QED
  BY <1>2, <1>3 DEF TokensCounted

(* The sum of an attempt's subagents is a number. *)
LEMMA SubagentSum ==
    ASSUME NEW f \in [Subagents -> Nat]
    PROVE  SumFunction(f) \in Nat
<1>1. DOMAIN f = Subagents /\ \A k \in Subagents : f[k] \in Nat
  OBVIOUS
<1>2. SumFunctionOnSet(f, Subagents) \in Nat
  BY <1>1, TokenAssumptions, SumNat
<1> QED
  BY <1>1, <1>2 DEF SumFunction

(* What a usage message of an attempt adds to its transcript. *)
LEMMA UsageStep ==
    ASSUME TokTypeOK, NEW a \in Attempts, NEW n \in 1..MaxTokens,
           ResultUsage(a, n) \/ \E k \in Subagents : SubagentUsage(a, k, n)
    PROVE  /\ subTotals' \in [Attempts -> [Subagents -> Nat]]
           /\ resultUse' \in [Attempts -> Nat]
           /\ \E total \in Nat : /\ usages' = [usages EXCEPT ![a] = Append(usages[a], total)]
                                 /\ resultUse' = resultUse \/ resultUse' = [resultUse EXCEPT ![a] = total]
           /\ UNCHANGED <<sentTo, over, taskUse, tokFaults>>
<1>0. n \in Nat /\ subTotals \in [Attempts -> [Subagents -> Nat]] /\ resultUse \in [Attempts -> Nat]
  BY DEF TokTypeOK
<1>1. CASE ResultUsage(a, n)
  BY <1>0, <1>1 DEF ResultUsage, Says
<1>2. CASE \E k \in Subagents : SubagentUsage(a, k, n)
  <2>1. PICK k \in Subagents : SubagentUsage(a, k, n)
    BY <1>2
  <2> DEFINE next == [subTotals[a] EXCEPT ![k] = Max({subTotals[a][k], n})]
  <2>2. subTotals' = [subTotals EXCEPT ![a] = next]
    BY <2>1 DEF SubagentUsage, annotate_workflow_usage
  <2>3. next \in [Subagents -> Nat]
    <3>1. subTotals[a] \in [Subagents -> Nat] /\ subTotals[a][k] \in Nat
      BY <1>0
    <3>2. Max({subTotals[a][k], n}) \in Nat
      BY <1>0, <3>1, MaxOfTwo
    <3> QED
      BY <3>1, <3>2
  <2> HIDE DEF next
  <2>4. subTotals' \in [Attempts -> [Subagents -> Nat]] /\ subTotals'[a] = next
    BY <1>0, <2>2, <2>3
  <2>5. SumFunction(subTotals'[a]) \in Nat
    BY <2>3, <2>4, SubagentSum
  <2>6. /\ usages' = [usages EXCEPT ![a] = Append(usages[a], SumFunction(subTotals'[a]))]
        /\ resultUse' = resultUse /\ UNCHANGED <<sentTo, over, taskUse, tokFaults>>
    BY <2>1 DEF SubagentUsage, Says
  <2> QED
    BY <1>0, <2>4, <2>5, <2>6
<1> QED
  BY <1>1, <1>2

(* What is observed is counted at most once, and nothing counted is lost. *)
LEMMA Monotonic ==
    ASSUME NEW m \in Nat, NEW n \in Nat
    PROVE  /\ monotonic_token_total(m, n) \in {m, n}
           /\ m <= monotonic_token_total(m, n) /\ n <= monotonic_token_total(m, n)
  BY MaxOfTwo DEF monotonic_token_total

(* A slice ends with the last of its elements. *)
LEMMA SliceEnd ==
    ASSUME NEW s \in Seq(Nat), NEW from \in Nat, NEW to \in 1..Len(s), to >= from + 1
    PROVE  SubSeq(s, from + 1, to)[Len(SubSeq(s, from + 1, to))] = s[to]
<1>0. PICK n : n = to - from /\ n \in Nat /\ n >= 1
  OBVIOUS
<1>1. Len(SubSeq(s, from + 1, to)) = n
  BY <1>0
<1>2. n \in 1..n /\ (from + 1) + n - 1 = to
  BY <1>0
<1>3. \A i \in 1..n : SubSeq(s, from + 1, to)[i] = s[(from + 1) + i - 1]
  BY <1>0
<1> QED
  BY <1>1, <1>2, <1>3

(* A batch ends with a usage message of its attempt. *)
LEMMA BatchStep ==
    ASSUME TokTypeOK, NEW a \in Attempts, NEW to \in 1..Len(usages[a]), Batch(a, to)
    PROVE  /\ tokens' = tokens \/ tokens' = monotonic_token_total(tokens, usages[a][to])
           /\ usages[a][to] \in Nat
           /\ sentTo' \in [Attempts -> Nat]
           /\ UNCHANGED <<subTotals, resultUse, usages, over, attempt, outcome, lifecycle>>
<1> DEFINE batch == SubSeq(usages[a], sentTo[a] + 1, to)
<1>0. usages[a] \in Seq(Nat) /\ sentTo \in [Attempts -> Nat] /\ sentTo[a] \in Nat /\ to \in Nat
  BY DEF TokTypeOK
<1>1. batch # <<>>
  BY DEF Batch
<1>2. to >= sentTo[a] + 1
  BY <1>0, <1>1
<1>3. batch[Len(batch)] = usages[a][to]
  BY <1>0, <1>2, SliceEnd
<1>4. usages[a][to] \in Nat
  BY <1>0
<1>5. tokens' = tokens \/ tokens' = monotonic_token_total(tokens, batch[Len(batch)])
  BY DEF Batch, extract_incremental_tokens
<1>6. sentTo' = sentTo \/ sentTo' = [sentTo EXCEPT ![a] = to]
  BY DEF Batch
<1>7. UNCHANGED <<subTotals, resultUse, usages, over, attempt, outcome, lifecycle>>
  BY DEF Batch
<1> HIDE DEF batch
<1> QED
  BY <1>0, <1>3, <1>4, <1>5, <1>6, <1>7

(* The end of a runtime: its total is counted with the event, or nothing   *)
(* of it arrives, or the event alone.                                      *)
LEMMA EndStep ==
    ASSUME TokTypeOK, NEW a \in Attempts, SessionComplete(a) \/ SessionError(a)
    PROVE  /\ over' \in [Attempts -> {"no", "ok", "failed", "gone"}]
           /\ UNCHANGED <<subTotals, resultUse, usages, sentTo, attempt>>
           /\ \/ UNCHANGED <<tokens, lifecycle>>
              \/ \E kind \in {"complete", "error"}, applied \in BOOLEAN :
                    /\ lifecycle' = Append(lifecycle, Event(kind, a, applied))
                    /\ \/ tokens' = tokens /\ (kind = "complete" => ~applied)
                       \/ tokens' = monotonic_token_total(tokens, resultUse[a])
<1>0. over \in [Attempts -> {"no", "ok", "failed", "gone"}]
  BY DEF TokTypeOK
<1>1. CASE SessionComplete(a)
  BY <1>0, <1>1 DEF SessionComplete
<1>2. CASE SessionError(a)
  BY <1>0, <1>2 DEF SessionError
<1> QED
  BY <1>1, <1>2

(* What the monitor counts is the total of an event on record, or nothing. *)
LEMMA MonitorStep ==
    ASSUME TokTypeOK, NEW a \in Attempts, Monitor(a)
    PROVE  /\ over' \in [Attempts -> {"no", "ok", "failed", "gone"}]
           /\ UNCHANGED <<subTotals, resultUse, usages, sentTo, attempt, lifecycle>>
           /\ \/ tokens' = 0 /\ \A i \in 1..Len(lifecycle) : lifecycle[i].kind # "complete"
              \/ \E i \in 1..Len(lifecycle) :
                    /\ tokens' = lifecycle[i].total
                    /\ LastOf("complete", i) \/ \A j \in 1..Len(lifecycle) : lifecycle[j].kind # "complete"
<1>1. /\ over' \in [Attempts -> {"no", "ok", "failed", "gone"}]
      /\ UNCHANGED <<subTotals, resultUse, usages, sentTo, attempt, lifecycle>>
      /\ tokens' = IF lifecycle_data = <<>> THEN 0 ELSE lifecycle_data[1].total
  BY DEF Monitor, TokTypeOK
<1>2. CASE Latest("complete") = <<>>
  <2>1. \A i \in 1..Len(lifecycle) : lifecycle[i].kind # "complete"
    <3>1. ASSUME NEW i \in 1..Len(lifecycle), Latest("complete") = <<lifecycle[i]>> PROVE FALSE
      BY <1>2, <3>1
    <3> QED
      BY <3>1, LatestIs
  <2>2. lifecycle_data = Latest("error")
    BY <1>2 DEF lifecycle_data
  <2>3. CASE Latest("error") = <<>>
    BY <1>1, <2>1, <2>2, <2>3
  <2>4. CASE Latest("error") # <<>>
    <3>1. PICK i \in 1..Len(lifecycle) : Latest("error") = <<lifecycle[i]>>
      BY <2>4, LatestIs
    <3>2. tokens' = lifecycle[i].total
      BY <1>1, <2>2, <2>4, <3>1
    <3> QED
      BY <1>1, <2>1, <3>2
  <2> QED
    BY <2>3, <2>4
<1>3. CASE Latest("complete") # <<>>
  <2>1. PICK i \in 1..Len(lifecycle) :
           LastOf("complete", i) /\ Latest("complete") = <<lifecycle[i]>>
    BY <1>3, LatestIs
  <2>2. tokens' = lifecycle[i].total
    BY <1>1, <1>3, <2>1 DEF lifecycle_data
  <2> QED
    BY <1>1, <2>1, <2>2
<1> QED
  BY <1>2, <1>3

(* The other steps take no total into account. *)
LEMMA OtherTokStep ==
    ASSUME TokTypeOK, NEW a \in Attempts,
           RuntimeKilled(a) \/ GiveUpTask \/ RerunTask \/ UNCHANGED tokVars
    PROVE  /\ over' \in [Attempts -> {"no", "ok", "failed", "gone"}] /\ attempt' \in Attempts
           /\ UNCHANGED <<subTotals, resultUse, usages, sentTo>>
           /\ UNCHANGED <<tokens, lifecycle>> \/ (tokens' = 0 /\ lifecycle' = <<>>)
<1>0. over \in [Attempts -> {"no", "ok", "failed", "gone"}] /\ attempt \in Attempts
  BY DEF TokTypeOK
<1>1. CASE RuntimeKilled(a)
  BY <1>0, <1>1 DEF RuntimeKilled, taskUse
<1>2. CASE GiveUpTask
  BY <1>0, <1>2 DEF GiveUpTask, runtimeUse
<1>3. CASE RerunTask
  <2>1. attempt + 1 \in Attempts
    BY <1>0, <1>3, TokenAssumptions DEF RerunTask, Attempts
  <2> QED
    BY <1>0, <1>3, <2>1 DEF RerunTask, runtimeUse
<1>4. CASE UNCHANGED tokVars
  BY <1>0, <1>4 DEF tokVars, runtimeUse, taskUse
<1> QED
  BY <1>1, <1>2, <1>3, <1>4

(* What the steps can be. *)
LEMMA TokSteps ==
    ASSUME TokTypeOK, [TokNext]_tokVars
    PROVE  \E a \in Attempts :
              \/ \E n \in 1..MaxTokens :
                    ResultUsage(a, n) \/ \E k \in Subagents : SubagentUsage(a, k, n)
              \/ \E to \in 1..Len(usages[a]) : Batch(a, to)
              \/ SessionComplete(a) \/ SessionError(a)
              \/ Monitor(a)
              \/ RuntimeKilled(a) \/ GiveUpTask \/ RerunTask \/ UNCHANGED tokVars
<1>1. attempt \in Attempts
  BY DEF TokTypeOK
<1>2. CASE TokNext
  <2>1. CASE GiveUpTask \/ RerunTask
    BY <1>1, <2>1
  <2> QED
    BY <1>2, <2>1 DEF TokNext
<1>3. CASE UNCHANGED tokVars
  BY <1>1, <1>3
<1> QED
  BY <1>2, <1>3

(* What was said stays said, and a usage message says its total. *)
LEMMA SaidGrows ==
    ASSUME TokTypeOK, NEW a \in Attempts, NEW total \in Nat,
           usages' = [usages EXCEPT ![a] = Append(usages[a], total)]
    PROVE  /\ usages' \in [Attempts -> Seq(Nat)]
           /\ \A n \in Nat : Said(usages, n) => Said(usages', n)
           /\ Said(usages', total)
<1>0. usages \in [Attempts -> Seq(Nat)] /\ usages[a] \in Seq(Nat) /\ Len(usages[a]) \in Nat
  BY DEF TokTypeOK
<1>1. usages' \in [Attempts -> Seq(Nat)]
  <2>1. Append(usages[a], total) \in Seq(Nat)
    BY <1>0
  <2> QED
    BY <1>0, <2>1
<1>2. /\ Len(usages'[a]) = Len(usages[a]) + 1
      /\ usages'[a][Len(usages[a]) + 1] = total
      /\ \A i \in 1..Len(usages[a]) : usages'[a][i] = usages[a][i]
      /\ \A b \in Attempts : b # a => usages'[b] = usages[b]
  BY <1>0
<1>3. ASSUME NEW n \in Nat, Said(usages, n), n > 0 PROVE Said(usages', n)
  <2>1. PICK b \in Attempts : \E i \in 1..Len(usages[b]) : n <= usages[b][i]
    BY <1>3 DEF Said
  <2>2. PICK i \in 1..Len(usages[b]) : n <= usages[b][i]
    BY <2>1
  <2>3. i \in 1..Len(usages'[b]) /\ usages'[b][i] = usages[b][i]
    BY <1>0, <1>2
  <2> QED
    BY <2>2, <2>3 DEF Said
<1>4. Said(usages', total)
  <2>1. Len(usages[a]) + 1 \in 1..Len(usages'[a]) /\ total <= usages'[a][Len(usages[a]) + 1]
    BY <1>0, <1>2
  <2> QED
    BY <2>1 DEF Said
<1> QED
  BY <1>1, <1>3, <1>4 DEF Said

(* What another event means for the events on record. *)
LEMMA EventAdded ==
    ASSUME TokTypeOK, NEW e \in Events, lifecycle' = Append(lifecycle, e)
    PROVE  /\ lifecycle' \in Seq(Events)
           /\ \A i \in 1..Len(lifecycle') :
                 \/ i \in 1..Len(lifecycle) /\ lifecycle'[i] = lifecycle[i]
                    /\ (LastOf("complete", i)' => LastOf("complete", i) /\ e.kind # "complete")
                 \/ lifecycle'[i] = e
<1>0. lifecycle \in Seq(Events) /\ Len(lifecycle) \in Nat
  BY DEF TokTypeOK
<1>1. /\ lifecycle' \in Seq(Events) /\ Len(lifecycle') = Len(lifecycle) + 1
      /\ lifecycle'[Len(lifecycle) + 1] = e
      /\ \A i \in 1..Len(lifecycle) : lifecycle'[i] = lifecycle[i]
  BY <1>0
<1>2. ASSUME NEW i \in 1..Len(lifecycle), LastOf("complete", i)'
      PROVE  LastOf("complete", i) /\ e.kind # "complete"
  <2>1. /\ lifecycle'[i].kind = "complete"
        /\ \A j \in (i + 1)..Len(lifecycle') : lifecycle'[j].kind # "complete"
    BY <1>2 DEF LastOf
  <2>2. Len(lifecycle) + 1 \in (i + 1)..Len(lifecycle')
    BY <1>0, <1>1
  <2>3. ASSUME NEW j \in (i + 1)..Len(lifecycle) PROVE lifecycle[j].kind # "complete"
    <3>1. j \in (i + 1)..Len(lifecycle') /\ j \in 1..Len(lifecycle)
      BY <1>0, <1>1
    <3> QED
      BY <1>1, <2>1, <3>1
  <2> QED
    BY <1>1, <2>1, <2>2, <2>3 DEF LastOf
<1>3. ASSUME NEW i \in 1..Len(lifecycle'), i \notin 1..Len(lifecycle) PROVE lifecycle'[i] = e
  BY <1>0, <1>1, <1>3
<1> QED
  BY <1>1, <1>2, <1>3

(* The totals go on being said and counted while nothing is put on record. *)
LEMMA CountRises ==
    ASSUME TokInv, NEW n \in Nat, Said(usages, n),
           tokens' = tokens \/ tokens' = monotonic_token_total(tokens, n)
    PROVE  tokens' \in Nat /\ Said(usages, tokens') /\ tokens <= tokens' /\ tokens \in Nat
<1>1. tokens \in Nat /\ Said(usages, tokens)
  BY DEF TokInv, TokTypeOK, SaidInv
<1>2. CASE tokens' = tokens
  BY <1>1, <1>2
<1>3. CASE tokens' = monotonic_token_total(tokens, n)
  <2>1. tokens' \in {tokens, n} /\ tokens <= tokens'
    BY <1>1, <1>3, Monotonic
  <2> QED
    BY <1>1, <2>1
<1> QED
  BY <1>2, <1>3

(* Every step keeps the invariant. *)
LEMMA TokStep == TokInv /\ [TokNext]_tokVars => TokInv'
<1> SUFFICES ASSUME TokInv, [TokNext]_tokVars PROVE TokInv'
  OBVIOUS
<1>0. TokTypeOK /\ SaidInv /\ CompletionInv
  BY DEF TokInv
<1>t. /\ subTotals \in [Attempts -> [Subagents -> Nat]]
      /\ resultUse \in [Attempts -> Nat] /\ usages \in [Attempts -> Seq(Nat)]
      /\ sentTo \in [Attempts -> Nat] /\ over \in [Attempts -> {"no", "ok", "failed", "gone"}]
      /\ attempt \in Attempts /\ tokens \in Nat /\ lifecycle \in Seq(Events)
  BY <1>0 DEF TokTypeOK
<1>e. \A i \in 1..Len(lifecycle) : lifecycle[i].total \in Nat
  <2> SUFFICES ASSUME NEW i \in 1..Len(lifecycle) PROVE lifecycle[i].total \in Nat
    OBVIOUS
  <2>1. lifecycle[i] \in Events
    BY <1>t
  <2> QED
    BY <2>1 DEF Events
<1>1. PICK a \in Attempts :
              \/ \E n \in 1..MaxTokens :
                    ResultUsage(a, n) \/ \E k \in Subagents : SubagentUsage(a, k, n)
              \/ \E to \in 1..Len(usages[a]) : Batch(a, to)
              \/ SessionComplete(a) \/ SessionError(a)
              \/ Monitor(a)
              \/ RuntimeKilled(a) \/ GiveUpTask \/ RerunTask \/ UNCHANGED tokVars
  BY <1>0, TokSteps
<1>2. ASSUME NEW n \in 1..MaxTokens,
             ResultUsage(a, n) \/ \E k \in Subagents : SubagentUsage(a, k, n)
      PROVE  TokInv'
  <2>1. /\ subTotals' \in [Attempts -> [Subagents -> Nat]]
        /\ resultUse' \in [Attempts -> Nat]
        /\ UNCHANGED <<sentTo, over, attempt, tokens, lifecycle>>
    BY <1>0, <1>2, UsageStep DEF taskUse
  <2>2. PICK total \in Nat :
           /\ usages' = [usages EXCEPT ![a] = Append(usages[a], total)]
           /\ resultUse' = resultUse \/ resultUse' = [resultUse EXCEPT ![a] = total]
    BY <1>0, <1>2, UsageStep
  <2>3. /\ usages' \in [Attempts -> Seq(Nat)] /\ \A m \in Nat : Said(usages, m) => Said(usages', m)
        /\ Said(usages', total)
    BY <1>0, <2>2, SaidGrows
  <2>4. TokTypeOK'
    BY <1>t, <1>e, <2>1, <2>3 DEF TokTypeOK
  <2>5. SaidInv'
    <3>1. Said(usages', tokens') /\ \A i \in 1..Len(lifecycle') : Said(usages', lifecycle'[i].total)
      BY <1>0, <1>t, <1>e, <2>1, <2>3 DEF SaidInv
    <3>2. ASSUME NEW b \in Attempts PROVE Said(usages', resultUse'[b])
      <4>1. resultUse'[b] = resultUse[b] \/ resultUse'[b] = total
        BY <1>t, <1>e, <2>2
      <4> QED
        BY <1>0, <1>t, <1>e, <2>3, <4>1 DEF SaidInv
    <3> QED
      BY <3>1, <3>2 DEF SaidInv
  <2>6. CompletionInv'
    BY <1>0, <2>1 DEF CompletionInv, LastOf
  <2> QED
    BY <2>4, <2>5, <2>6 DEF TokInv
<1>3. ASSUME NEW to \in 1..Len(usages[a]), Batch(a, to) PROVE TokInv'
  <2>1. /\ tokens' = tokens \/ tokens' = monotonic_token_total(tokens, usages[a][to])
        /\ usages[a][to] \in Nat
        /\ sentTo' \in [Attempts -> Nat]
        /\ UNCHANGED <<subTotals, resultUse, usages, over, attempt, outcome, lifecycle>>
    BY <1>0, <1>3, BatchStep
  <2>2. Said(usages, usages[a][to])
    BY <2>1 DEF Said
  <2>3. tokens' \in Nat /\ Said(usages, tokens') /\ tokens <= tokens'
    BY <2>1, <2>2, CountRises
  <2>4. TokTypeOK'
    BY <1>t, <1>e, <2>1, <2>3 DEF TokTypeOK
  <2>5. SaidInv'
    BY <1>0, <2>1, <2>3 DEF SaidInv, Said
  <2>6. CompletionInv'
    <3> SUFFICES ASSUME NEW i \in 1..Len(lifecycle), LastOf("complete", i), lifecycle[i].applied
                 PROVE  tokens' >= lifecycle[i].total
      BY <2>1 DEF CompletionInv, LastOf
    <3>1. tokens >= lifecycle[i].total
      BY <1>0 DEF CompletionInv
    <3>2. lifecycle[i].total \in Nat /\ tokens \in Nat
      BY <1>t, <1>e
    <3> QED
      BY <2>3, <3>1, <3>2
  <2> QED
    BY <2>4, <2>5, <2>6 DEF TokInv
<1>4. CASE SessionComplete(a) \/ SessionError(a)
  <2>1. /\ over' \in [Attempts -> {"no", "ok", "failed", "gone"}]
        /\ UNCHANGED <<subTotals, resultUse, usages, sentTo, attempt>>
    BY <1>0, <1>4, EndStep
  <2>2. CASE UNCHANGED <<tokens, lifecycle>>
    BY <1>0, <1>t, <1>e, <2>1, <2>2 DEF TokInv, TokTypeOK, SaidInv, Said, CompletionInv, LastOf
  <2>3. ASSUME NEW kind \in {"complete", "error"}, NEW applied \in BOOLEAN,
               lifecycle' = Append(lifecycle, Event(kind, a, applied)),
               \/ tokens' = tokens /\ (kind = "complete" => ~applied)
               \/ tokens' = monotonic_token_total(tokens, resultUse[a])
        PROVE  TokInv'
    <3> DEFINE e == Event(kind, a, applied)
    <3>1. e \in Events /\ e.kind = kind /\ e.total = resultUse[a] /\ e.applied = applied
      BY <1>t, <1>e DEF Event, Events
    <3> HIDE DEF e
    <3>2. Said(usages, resultUse[a]) /\ resultUse[a] \in Nat
      BY <1>0, <1>t, <1>e DEF SaidInv
    <3>3. tokens' \in Nat /\ Said(usages, tokens') /\ tokens <= tokens'
      BY <2>3, <3>2, CountRises
    <3>4. /\ lifecycle' \in Seq(Events)
          /\ \A i \in 1..Len(lifecycle') :
                 \/ i \in 1..Len(lifecycle) /\ lifecycle'[i] = lifecycle[i]
                    /\ (LastOf("complete", i)' => LastOf("complete", i) /\ e.kind # "complete")
                 \/ lifecycle'[i] = e
      <4>1. lifecycle' = Append(lifecycle, e)
        BY <2>3 DEF e
      <4> QED
        BY <1>0, <3>1, <4>1, EventAdded
    <3>5. TokTypeOK'
      BY <1>t, <1>e, <2>1, <3>3, <3>4 DEF TokTypeOK
    <3>6. SaidInv'
      <4>1. \A m \in Nat : Said(usages, m) => Said(usages', m)
        BY <2>1 DEF Said
      <4>2. ASSUME NEW i \in 1..Len(lifecycle') PROVE Said(usages', lifecycle'[i].total)
        <5>1. CASE lifecycle'[i] = e
          BY <3>1, <3>2, <4>1, <5>1
        <5>2. CASE i \in 1..Len(lifecycle) /\ lifecycle'[i] = lifecycle[i]
          BY <1>0, <1>t, <1>e, <4>1, <5>2 DEF SaidInv
        <5> QED
          BY <3>4, <5>1, <5>2
      <4>3. Said(usages', tokens') /\ \A b \in Attempts : Said(usages', resultUse'[b])
        BY <1>0, <1>t, <1>e, <2>1, <3>3, <4>1 DEF SaidInv, Said
      <4> QED
        BY <4>2, <4>3 DEF SaidInv
    <3>7. CompletionInv'
      <4> SUFFICES ASSUME NEW i \in 1..Len(lifecycle'), LastOf("complete", i)', lifecycle'[i].applied
                   PROVE  tokens' >= lifecycle'[i].total
        BY DEF CompletionInv
      <4>1. CASE lifecycle'[i] = e
        <5>1. kind = "complete" /\ applied
          BY <3>1, <4>1 DEF LastOf
        <5>2. tokens' = monotonic_token_total(tokens, resultUse[a])
          BY <2>3, <5>1
        <5>3. resultUse[a] <= tokens'
          BY <1>t, <1>e, <3>2, <5>2, Monotonic
        <5> QED
          BY <3>1, <3>2, <3>3, <4>1, <5>3
      <4>2. CASE i \in 1..Len(lifecycle) /\ lifecycle'[i] = lifecycle[i] /\ LastOf("complete", i)
        <5>1. tokens >= lifecycle[i].total
          BY <1>0, <4>2 DEF CompletionInv
        <5> QED
          BY <1>t, <1>e, <3>3, <4>2, <5>1
      <4> QED
        BY <3>4, <4>1, <4>2
    <3> QED
      BY <3>5, <3>6, <3>7 DEF TokInv
  <2> QED
    BY <1>0, <1>4, <2>2, <2>3, EndStep
<1>5. CASE Monitor(a)
  <2>1. /\ over' \in [Attempts -> {"no", "ok", "failed", "gone"}]
        /\ UNCHANGED <<subTotals, resultUse, usages, sentTo, attempt, lifecycle>>
        /\ \/ tokens' = 0 /\ \A i \in 1..Len(lifecycle) : lifecycle[i].kind # "complete"
           \/ \E i \in 1..Len(lifecycle) :
                 /\ tokens' = lifecycle[i].total
                 /\ LastOf("complete", i) \/ \A j \in 1..Len(lifecycle) : lifecycle[j].kind # "complete"
    BY <1>0, <1>5, MonitorStep
  <2>2. tokens' \in Nat /\ Said(usages, tokens')
    <3>1. CASE tokens' = 0
      <4>1. tokens' \in Nat /\ ~(tokens' > 0)
        BY <3>1
      <4> QED
        BY <4>1 DEF Said
    <3>2. ASSUME NEW i \in 1..Len(lifecycle), tokens' = lifecycle[i].total
          PROVE  tokens' \in Nat /\ Said(usages, tokens')
      BY <1>0, <1>e, <3>2 DEF SaidInv
    <3> QED
      BY <2>1, <3>1, <3>2
  <2>3. TokTypeOK'
    BY <1>t, <1>e, <2>1, <2>2 DEF TokTypeOK
  <2>4. SaidInv'
    BY <1>0, <2>1, <2>2 DEF SaidInv, Said
  <2>5. CompletionInv'
    <3> SUFFICES ASSUME NEW j \in 1..Len(lifecycle), LastOf("complete", j)
                 PROVE  tokens' >= lifecycle[j].total
      BY <2>1 DEF CompletionInv, LastOf
    <3>1. lifecycle[j].kind = "complete"
      BY DEF LastOf
    <3>2. PICK i \in 1..Len(lifecycle) : tokens' = lifecycle[i].total /\ LastOf("complete", i)
      BY <2>1, <3>1
    <3>3. i = j
      <4>1. Len(lifecycle) \in Nat /\ i \in Nat /\ j \in Nat
        BY <1>t, <1>e
      <4>2. ~(j > i) /\ ~(i > j)
        BY <3>2, <4>1 DEF LastOf
      <4> QED
        BY <4>1, <4>2
    <3> QED
      BY <1>t, <1>e, <3>2, <3>3
  <2> QED
    BY <2>3, <2>4, <2>5 DEF TokInv
<1>6. CASE RuntimeKilled(a) \/ GiveUpTask \/ RerunTask \/ UNCHANGED tokVars
  <2>1. /\ over' \in [Attempts -> {"no", "ok", "failed", "gone"}] /\ attempt' \in Attempts
        /\ UNCHANGED <<subTotals, resultUse, usages, sentTo>>
        /\ UNCHANGED <<tokens, lifecycle>> \/ (tokens' = 0 /\ lifecycle' = <<>>)
    BY <1>0, <1>6, OtherTokStep
  <2>2. CASE UNCHANGED <<tokens, lifecycle>>
    BY <1>0, <1>t, <1>e, <2>1, <2>2 DEF TokInv, TokTypeOK, SaidInv, Said, CompletionInv, LastOf
  <2>3. CASE tokens' = 0 /\ lifecycle' = <<>>
    BY <1>0, <1>t, <1>e, <2>1, <2>3 DEF TokInv, TokTypeOK, SaidInv, Said, CompletionInv
  <2> QED
    BY <2>1, <2>2, <2>3
<1> QED
  BY <1>1, <1>2, <1>3, <1>4, <1>5, <1>6

(* tasks.tokens_used never exceeds what one attempt has said it used, and  *)
(* is at least the total of the completion on record: whatever is reported *)
(* twice, by two runtimes or replaced by the monitor.                      *)
THEOREM TokensAreCounted == TokSpec => []TokensCounted
<1>1. TokInit => TokInv
  <2> SUFFICES ASSUME TokInit PROVE TokInv
    OBVIOUS
  <2>1. TokTypeOK
    BY TokenAssumptions DEF TokInit, TokTypeOK, Attempts
  <2>2. SaidInv /\ CompletionInv
    BY DEF TokInit, SaidInv, CompletionInv, Said
  <2> QED
    BY <2>1, <2>2 DEF TokInv
<1> QED
  BY <1>1, TokStep, InvCounts, PTL DEF TokSpec

-----------------------------------------------------------------------------
(* The runtime of a session: the messages of the CLI. *)

(* Tool ids name their child. *)
LEMMA ToolFacts ==
    /\ \A k \in Children : ToolsOf(k) \subseteq ToolIds /\ Spawn(k) \in ToolsOf(k) /\ Resume(k) \in ToolsOf(k)
    /\ \A k, l \in Children : k # l => ToolsOf(k) \cap ToolsOf(l) = {}
    /\ \A k \in Children : Tool(k) \in ToolsOf(k)
    /\ Root \notin ToolIds
<1>1. \A k, l \in Children : k # l => ToolsOf(k) \cap ToolsOf(l) = {}
  BY DEF ToolsOf, Spawn, Resume
<1>2. \A k \in Children : Root \notin ToolsOf(k)
  BY DEF ToolsOf, Spawn, Resume, Root
<1>3. \A k \in Children : Tool(k) \in ToolsOf(k) /\ Spawn(k) \in ToolsOf(k) /\ Resume(k) \in ToolsOf(k)
  BY DEF ToolsOf, Tool
<1>4. \A k \in Children : ToolsOf(k) \subseteq ToolIds
  BY DEF ToolIds
<1>5. Root \notin ToolIds
  BY <1>2 DEF ToolIds
<1> QED
  BY <1>1, <1>3, <1>4, <1>5

(* The messages the CLI emits. *)
LEMMA MsgFacts ==
    ASSUME NEW kind \in Kinds, NEW c \in Children \cup {NoChild}, NEW tool \in ToolIds \cup {Root}
    PROVE  /\ Msg(kind, c, tool) \in Message
           /\ Msg(kind, c, tool).kind = kind /\ Msg(kind, c, tool).child = c
           /\ Msg(kind, c, tool).tool = tool /\ Msg(kind, c, tool).busy = {}
           /\ Msg(kind, c, tool).parent = Root
  BY DEF Msg, Message

(* A result names the children that are busy. *)
LEMMA MsgBusy ==
    ASSUME NEW S \in SUBSET Children, NEW m, m = [Msg("result", NoChild, Root) EXCEPT !.busy = S]
    PROVE  m \in Message /\ m.kind = "result" /\ m.busy = S
  BY DEF Msg, Message, Kinds

(* A child changes its state. *)
Turns(k, before, after) == child[k] = before /\ child' = [child EXCEPT ![k] = after]

(* What a message says of the CLI that emits it. *)
Tells(m) ==
    \/ \E k \in Children :
          /\ m.child = k /\ turn /\ turn' = turn
          /\ \/ m.kind = "use" /\ Turns(k, "none", "called") /\ resumed' = resumed /\ m.tool = Spawn(k)
             \/ m.kind = "send" /\ Turns(k, "finished", "called") /\ resumed' = resumed \cup {k}
    \/ \E k \in Children :
          /\ m.child = k /\ resumed' = resumed /\ k \in Busy
          /\ \/ m.kind = "started" /\ Turns(k, "called", "running") /\ turn' = turn
             \/ m.kind = "err" /\ Turns(k, "called", "refused") /\ turn' = turn /\ k \notin resumed
             \/ m.kind = "note" /\ Turns(k, "running", "finished") /\ turn' = TRUE
             \/ m.kind \in {"said", "updated", "empty"} /\ child' = child /\ turn' = turn
                /\ child[k] = "running" /\ m.parent = Spawn(k)
    \/ /\ UNCHANGED <<child, resumed>>
       /\ \/ m.kind = "said" /\ m.parent = Root /\ turn /\ turn' = turn
          \/ m.kind = "result" /\ m.busy = Busy /\ turn /\ turn' = FALSE
          \/ m.kind \in {"done", "error"} /\ turn' = turn

(* A step of the CLI reads a prompt or emits one message. *)
LEMMA CliEffect ==
    ASSUME SesTypeOK, CliStep
    PROVE  /\ UNCHANGED <<loopVars, waits, conv, flushVars>>
           /\ \/ /\ UNCHANGED <<child, resumed, out>> /\ prompts > 0 /\ prompts' = prompts - 1
              \/ \E m \in Message : /\ NamesChild(m) /\ out' = Append(out, m) /\ prompts' = prompts
                                    /\ Tells(m)
<1>0. child \in [Children -> {"none", "called", "running", "finished", "refused"}] /\ Busy \in SUBSET Children
  BY DEF SesTypeOK, CliType, Busy
<1>k. ASSUME NEW k \in Children
      PROVE  /\ k \in Children \cup {NoChild} /\ Spawn(k) \in ToolIds \cup {Root}
             /\ Resume(k) \in ToolIds \cup {Root} /\ Tool(k) \in ToolIds \cup {Root}
             /\ Spawn(k) \in ToolsOf(k) /\ Resume(k) \in ToolsOf(k) /\ Tool(k) \in ToolsOf(k)
  BY ToolFacts
<1> DEFINE Goal == \E m \in Message : /\ NamesChild(m) /\ out' = Append(out, m) /\ prompts' = prompts
                                      /\ Tells(m)
<1>1. CASE ReadPrompt
  BY <1>1 DEF ReadPrompt, Quietly
<1>2. CASE CoordinatorSays
  <2> DEFINE m == Msg("said", NoChild, Root)
  <2>1. m \in Message /\ m.kind = "said" /\ m.parent = Root
    BY MsgFacts DEF Kinds
  <2>2. out' = Append(out, m) /\ UNCHANGED <<child, resumed, turn, prompts>> /\ Quietly /\ turn
    BY <1>2 DEF CoordinatorSays, Emit
  <2> HIDE DEF m
  <2>3. NamesChild(m) /\ Tells(m)
    BY <2>1, <2>2 DEF NamesChild, Opens, Shuts, Tells
  <2> QED
    BY <2>1, <2>2, <2>3 DEF Quietly
<1>3. CASE CoordinatorResult
  <2>1. PICK m : m = [Msg("result", NoChild, Root) EXCEPT !.busy = Busy]
    OBVIOUS
  <2>2. m \in Message /\ m.kind = "result" /\ m.busy = Busy
    BY <1>0, <2>1, MsgBusy
  <2>3. out' = Append(out, m) /\ UNCHANGED <<child, resumed, prompts>> /\ Quietly /\ turn /\ turn' = FALSE
    BY <1>3, <2>1 DEF CoordinatorResult, Emit
  <2>4. NamesChild(m) /\ Tells(m)
    BY <2>2, <2>3 DEF NamesChild, Opens, Shuts, Tells
  <2> QED
    BY <2>2, <2>3, <2>4 DEF Quietly
<1>4. CASE CliDone \/ CliFails
  <2>1. PICK kind \in {"done", "error"} : out' = Append(out, Msg(kind, NoChild, Root))
    BY <1>4 DEF CliDone, CliFails, Emit
  <2> DEFINE m == Msg(kind, NoChild, Root)
  <2>2. m \in Message /\ m.kind = kind
    BY MsgFacts DEF Kinds
  <2>3. out' = Append(out, m) /\ UNCHANGED <<child, resumed, turn, prompts>> /\ Quietly
    BY <1>4, <2>1 DEF CliDone, CliFails
  <2> HIDE DEF m
  <2>4. NamesChild(m) /\ Tells(m)
    BY <2>2, <2>3 DEF NamesChild, Opens, Shuts, Tells
  <2> QED
    BY <2>2, <2>3, <2>4 DEF Quietly
<1>5. ASSUME NEW k \in Children, CallChild(k) PROVE Goal /\ Quietly
  <2> DEFINE m == Msg("use", k, Spawn(k))
  <2>1. m \in Message /\ m.kind = "use" /\ m.child = k /\ m.tool = Spawn(k)
    BY <1>k, MsgFacts DEF Kinds
  <2>2. out' = Append(out, m) /\ UNCHANGED <<resumed, turn, prompts>> /\ Quietly /\ turn
        /\ Turns(k, "none", "called")
    BY <1>5 DEF CallChild, Emit, Turns
  <2> HIDE DEF m
  <2>3. NamesChild(m)
    BY <1>k, <2>1 DEF NamesChild
  <2>4. Tells(m)
    BY <2>1, <2>2 DEF Tells
  <2> QED
    BY <2>1, <2>2, <2>3, <2>4
<1>6. ASSUME NEW k \in Children, ResumeChild(k) PROVE Goal /\ Quietly
  <2> DEFINE m == Msg("send", k, Resume(k))
  <2>1. m \in Message /\ m.kind = "send" /\ m.child = k /\ m.tool = Resume(k)
    BY <1>k, MsgFacts DEF Kinds
  <2>2. out' = Append(out, m) /\ UNCHANGED <<turn, prompts>> /\ Quietly /\ turn
        /\ Turns(k, "finished", "called") /\ resumed' = resumed \cup {k}
    BY <1>6 DEF ResumeChild, Emit, Turns
  <2> HIDE DEF m
  <2>3. NamesChild(m)
    BY <1>k, <2>1 DEF NamesChild
  <2>4. Tells(m)
    BY <2>1, <2>2 DEF Tells
  <2> QED
    BY <2>1, <2>2, <2>3, <2>4
<1>7. ASSUME NEW k \in Children, ChildStarts(k) PROVE Goal /\ Quietly
  <2> DEFINE m == Msg("started", k, Tool(k))
  <2>1. m \in Message /\ m.kind = "started" /\ m.child = k /\ m.tool = Tool(k)
    BY <1>k, MsgFacts DEF Kinds
  <2>2. out' = Append(out, m) /\ UNCHANGED <<resumed, turn, prompts>> /\ Quietly
        /\ Turns(k, "called", "running") /\ k \in Busy
    BY <1>7 DEF ChildStarts, Emit, Turns, Busy
  <2> HIDE DEF m
  <2>3. NamesChild(m)
    BY <1>k, <2>1 DEF NamesChild
  <2>4. Tells(m)
    BY <2>1, <2>2 DEF Tells
  <2> QED
    BY <2>1, <2>2, <2>3, <2>4
<1>8. ASSUME NEW k \in Children, ChildRefused(k) PROVE Goal /\ Quietly
  <2> DEFINE m == Msg("err", k, Spawn(k))
  <2>1. m \in Message /\ m.kind = "err" /\ m.child = k /\ m.tool = Spawn(k)
    BY <1>k, MsgFacts DEF Kinds
  <2>2. out' = Append(out, m) /\ UNCHANGED <<resumed, turn, prompts>> /\ Quietly
        /\ Turns(k, "called", "refused") /\ k \in Busy /\ k \notin resumed
    BY <1>8 DEF ChildRefused, Emit, Turns, Busy
  <2> HIDE DEF m
  <2>3. NamesChild(m)
    BY <1>k, <2>1 DEF NamesChild
  <2>4. Tells(m)
    BY <2>1, <2>2 DEF Tells
  <2> QED
    BY <2>1, <2>2, <2>3, <2>4
<1>9. ASSUME NEW k \in Children, NEW kind \in {"said", "updated", "empty"}, ChildSays(k, kind)
      PROVE  Goal /\ Quietly
  <2>1. PICK tool \in {Spawn(k), Tool(k)} :
           out' = Append(out, [Msg(kind, k, tool) EXCEPT !.parent = Spawn(k)])
    BY <1>9 DEF ChildSays, Emit
  <2>2. PICK m : m = [Msg(kind, k, tool) EXCEPT !.parent = Spawn(k)]
    OBVIOUS
  <2>3. m \in Message /\ m.kind = kind /\ m.child = k /\ m.parent = Spawn(k)
    <3>1. kind \in Kinds /\ tool \in ToolIds \cup {Root}
      BY <1>k DEF Kinds
    <3>2. Spawn(k) \in ToolIds
      BY ToolFacts
    <3> QED
      BY <2>2, <3>1, <3>2 DEF Msg, Message
  <2>4. out' = Append(out, m) /\ UNCHANGED <<child, resumed, turn, prompts>> /\ Quietly /\ k \in Busy
        /\ child[k] = "running"
    BY <1>9, <2>1, <2>2 DEF ChildSays, Busy
  <2>5. NamesChild(m)
    BY <2>3 DEF NamesChild, Opens, Shuts
  <2>6. Tells(m)
    BY <2>3, <2>4 DEF Tells
  <2> QED
    BY <2>3, <2>4, <2>5, <2>6
<1>10. ASSUME NEW k \in Children, NEW tool \in {Root, Tool(k)}, ChildEnds(k, tool) PROVE Goal /\ Quietly
  <2> DEFINE m == Msg("note", k, tool)
  <2>1. m \in Message /\ m.kind = "note" /\ m.child = k /\ m.tool = tool
    BY <1>k, MsgFacts DEF Kinds
  <2>2. out' = Append(out, m) /\ UNCHANGED <<resumed, prompts>> /\ Quietly
        /\ Turns(k, "running", "finished") /\ turn' = TRUE /\ k \in Busy
    BY <1>10 DEF ChildEnds, Emit, Turns, Busy
  <2> HIDE DEF m
  <2>3. NamesChild(m)
    BY <1>k, <2>1 DEF NamesChild
  <2>4. Tells(m)
    BY <2>1, <2>2 DEF Tells
  <2> QED
    BY <2>1, <2>2, <2>3, <2>4
<1> QED
  BY <1>1, <1>2, <1>3, <1>4, <1>5, <1>6, <1>7, <1>8, <1>9, <1>10 DEF CliStep, Quietly

-----------------------------------------------------------------------------
(* The transcript and its flushes. *)

(* The transcript only grows. *)
Grows == /\ conv' \in Seq(Message) /\ Len(conv') \in Nat /\ Len(conv') >= Len(conv)
         /\ \A i \in 1..Len(conv) : conv'[i] = conv[i]

(* Appending is growing. *)
LEMMA Growing ==
    ASSUME SesTypeOK, conv' = conv \/ \E m \in Message : conv' = Append(conv, m)
    PROVE  Grows
<1>0. conv \in Seq(Message) /\ Len(conv) \in Nat
  BY DEF SesTypeOK, FlushType
<1>1. CASE conv' = conv
  BY <1>0, <1>1 DEF Grows
<1>2. ASSUME NEW m \in Message, conv' = Append(conv, m) PROVE Grows
  <2>1. /\ conv' \in Seq(Message) /\ Len(conv') = Len(conv) + 1
        /\ \A i \in 1..Len(conv) : conv'[i] = conv[i]
    BY <1>0, <1>2
  <2> QED
    BY <1>0, <2>1 DEF Grows
<1> QED
  BY <1>1, <1>2

(* A flusher changes what it does. *)
LEMMA SetFlusher ==
    ASSUME SesTypeOK, NEW f \in Flushers, NEW y \in Flush, flusher' = [flusher EXCEPT ![f] = y]
    PROVE  /\ flusher' \in [Flushers -> Flush] /\ flusher'[f] = y
           /\ \A g \in Flushers : g # f => flusher'[g] = flusher[g]
  BY DEF SesTypeOK, FlushType

(* The two states in which a flusher does not hold the lock. *)
LEMMA WantFacts ==
    /\ NotFlushing \in Flush /\ NotFlushing.at = "idle"
    /\ \A force \in BOOLEAN : Want(force) \in Flush /\ Want(force).at = "want"
<1>1. NotFlushing \in Flush /\ NotFlushing.at = "idle"
  BY DEF NotFlushing, Flush
<1>2. ASSUME NEW force \in BOOLEAN PROVE Want(force) \in Flush /\ Want(force).at = "want"
  BY <1>1, <1>2 DEF Want, Flush
<1> QED
  BY <1>1, <1>2

(* A flush is requested. *)
LEMMA WantsEffect ==
    ASSUME SesTypeOK, NEW f \in Flushers, NEW force \in BOOLEAN, Wants(f, force)
    PROVE  /\ flusher' \in [Flushers -> Flush] /\ flusher'[f].at = "want"
           /\ \A g \in Flushers : g # f => flusher'[g] = flusher[g]
<1>1. Want(force) \in Flush /\ Want(force).at = "want"
  BY WantFacts
<1>2. flusher' = [flusher EXCEPT ![f] = Want(force)]
  BY DEF Wants
<1> QED
  BY <1>1, <1>2, SetFlusher

(* A step that neither takes the lock nor sends. *)
Calm ==
    /\ Grows /\ UNCHANGED <<flushed, lock, reported, resent>>
    /\ flusher' \in [Flushers -> Flush]
    /\ \A f \in Flushers : flusher'[f] = flusher[f] \/ flusher'[f].at \in {"idle", "want"}
    /\ pc' \in {"next", "after", "cancel"} => flusher'["main"].at = "idle"
    /\ ~reminded' => flusher'["reminder"].at = "idle"

(* Such a step keeps the slices in order. *)
LEMMA CalmStep ==
    ASSUME SesTypeOK, HolderInv, SentInv, Calm
    PROVE  FlushType' /\ HolderInv' /\ SentInv'
<1>0. /\ conv \in Seq(Message) /\ Len(conv) \in Nat /\ flushed \in 0..Len(conv)
      /\ lock \in Flushers \cup {NoOne} /\ reported \in Seq(Nat \X Nat)
      /\ flusher \in [Flushers -> Flush]
  BY DEF SesTypeOK, FlushType
<1>1. FlushType'
  BY <1>0 DEF Calm, Grows, FlushType
<1>2. \A f \in Flushers : flusher'[f].at \in {"look", "send"} => flusher'[f] = flusher[f]
  BY DEF Calm
<1>3. (\A f \in Flushers : flusher[f].at \in {"look", "send"} => lock = f)'
  BY <1>2 DEF Calm, HolderInv
<1>4. ASSUME NEW f \in Flushers, flusher'[f].at = "send"
      PROVE  flusher'[f].from = flushed' /\ flusher'[f].from < flusher'[f].to /\ flusher'[f].to <= Len(conv')
  <2>1. flusher'[f] = flusher[f] /\ flushed' = flushed
    BY <1>2, <1>4 DEF Calm
  <2>2. flusher[f].from = flushed /\ flusher[f].from < flusher[f].to /\ flusher[f].to <= Len(conv)
    BY <1>4, <2>1 DEF HolderInv
  <2>3. flusher[f].to \in Nat
    BY <1>0 DEF Flush
  <2> QED
    BY <1>0, <2>1, <2>2, <2>3 DEF Calm, Grows
<1>5. HolderInv'
  BY <1>3, <1>4 DEF Calm, HolderInv, FlushDone
<1>6. SentInv'
  BY DEF Calm, SentInv, BatchesInOrder
<1> QED
  BY <1>1, <1>5, <1>6

(* The lock is taken. *)
LEMMA LockStep ==
    ASSUME SesTypeOK, HolderInv, SentInv, NEW f \in Flushers, FlushLock(f)
    PROVE  FlushType' /\ HolderInv' /\ SentInv'
<1>0. /\ conv \in Seq(Message) /\ Len(conv) \in Nat /\ flushed \in 0..Len(conv)
      /\ lock \in Flushers \cup {NoOne} /\ reported \in Seq(Nat \X Nat)
      /\ flusher \in [Flushers -> Flush] /\ flusher[f] \in Flush
  BY DEF SesTypeOK, FlushType
<1>1. /\ flusher[f].at = "want" /\ lock = NoOne /\ lock' = f
      /\ UNCHANGED <<conv, flushed, reported, resent, pc, reminded>>
  BY DEF FlushLock, Lockable, loopVars
<1> DEFINE y == [flusher[f] EXCEPT !.at = "look"]
<1>2. y \in Flush /\ y.at = "look"
  BY <1>0 DEF Flush
<1>3. flusher' = [flusher EXCEPT ![f] = y]
  BY <1>0 DEF FlushLock
<1> HIDE DEF y
<1>4. flusher' \in [Flushers -> Flush] /\ flusher'[f] = y /\ \A g \in Flushers : g # f => flusher'[g] = flusher[g]
  BY <1>2, <1>3, SetFlusher
<1>5. \A g \in Flushers : flusher[g].at \notin {"look", "send"}
  BY <1>1 DEF HolderInv, Flushers, NoOne
<1>6. FlushType'
  BY <1>0, <1>1, <1>4 DEF FlushType
<1>7. HolderInv'
  BY <1>1, <1>2, <1>4, <1>5 DEF HolderInv, FlushDone, Flushers
<1>8. SentInv'
  BY <1>1 DEF SentInv, BatchesInOrder
<1> QED
  BY <1>6, <1>7, <1>8

(* The slice is cut, or there is nothing to send. *)
LEMMA CutStep ==
    ASSUME SesTypeOK, HolderInv, SentInv, NEW f \in Flushers, FlushCut(f)
    PROVE  FlushType' /\ HolderInv' /\ SentInv'
<1>0. /\ conv \in Seq(Message) /\ Len(conv) \in Nat /\ flushed \in 0..Len(conv)
      /\ lock \in Flushers \cup {NoOne} /\ reported \in Seq(Nat \X Nat)
      /\ flusher \in [Flushers -> Flush] /\ flusher[f] \in Flush /\ BatchSize \in Nat \ {0}
  BY RuntimeAssumptions DEF SesTypeOK, FlushType
<1>1. /\ flusher[f].at = "look" /\ lock = f
      /\ UNCHANGED <<conv, flushed, reported, resent, pc, reminded>>
  BY DEF FlushCut, HolderInv, loopVars
<1>2. \A g \in Flushers : g # f => flusher[g].at \notin {"look", "send"}
  BY <1>1 DEF HolderInv
<1>3. SentInv'
  BY <1>1 DEF SentInv, BatchesInOrder
<1> DEFINE to == IF Unflushed >= BatchSize THEN flushed + BatchSize
                 ELSE IF flusher[f].force THEN Len(conv) ELSE flushed
<1>4. to \in Nat /\ to <= Len(conv)
  BY <1>0 DEF Unflushed
<1>5. CASE to > flushed
  <2> DEFINE y == [flusher[f] EXCEPT !.at = "send", !.from = flushed, !.to = to]
  <2>1. flusher' = [flusher EXCEPT ![f] = y] /\ lock' = lock
    BY <1>0, <1>5 DEF FlushCut
  <2> HIDE DEF to
  <2>2. y \in Flush /\ y.at = "send" /\ y.from = flushed /\ y.to = to
    <3>1. flushed \in Nat /\ to \in Nat
      BY <1>0, <1>4
    <3> QED
      BY <1>0, <3>1 DEF Flush
  <2> HIDE DEF y
  <2>3. flusher' \in [Flushers -> Flush] /\ flusher'[f] = y /\ \A g \in Flushers : g # f => flusher'[g] = flusher[g]
    BY <2>1, <2>2, SetFlusher
  <2>4. FlushType'
    BY <1>0, <1>1, <2>1, <2>3 DEF FlushType
  <2>5. HolderInv'
    BY <1>1, <1>2, <1>4, <1>5, <2>1, <2>2, <2>3, <1>0 DEF HolderInv, FlushDone, Flushers
  <2> QED
    BY <1>3, <2>4, <2>5
<1>6. CASE ~(to > flushed)
  <2>1. flusher' = [flusher EXCEPT ![f] = NotFlushing] /\ lock' = NoOne
    BY <1>6 DEF FlushCut
  <2>2. /\ flusher' \in [Flushers -> Flush] /\ flusher'[f].at = "idle"
        /\ \A g \in Flushers : g # f => flusher'[g] = flusher[g]
    BY <2>1, WantFacts, SetFlusher
  <2>3. FlushType'
    BY <1>0, <1>1, <2>1, <2>2 DEF FlushType
  <2>4. HolderInv'
    BY <1>1, <1>2, <2>1, <2>2 DEF HolderInv, FlushDone, Flushers
  <2> QED
    BY <1>3, <2>3, <2>4
<1> QED
  BY <1>5, <1>6

(* A slice is reported. *)
LEMMA SentStep ==
    ASSUME SesTypeOK, HolderInv, SentInv, NEW f \in Flushers, FlushSent(f)
    PROVE  FlushType' /\ HolderInv' /\ SentInv'
<1>0. /\ conv \in Seq(Message) /\ Len(conv) \in Nat /\ flushed \in 0..Len(conv)
      /\ lock \in Flushers \cup {NoOne} /\ reported \in Seq(Nat \X Nat)
      /\ flusher \in [Flushers -> Flush] /\ flusher[f] \in Flush
      /\ flusher[f].from \in Nat /\ flusher[f].to \in Nat
  BY DEF SesTypeOK, FlushType, Flush
<1>1. /\ flusher[f].at = "send" /\ lock = f /\ lock' = lock
      /\ UNCHANGED <<conv, resent, pc, reminded>>
      /\ reported' = Append(reported, <<flusher[f].from, flusher[f].to>>)
      /\ flushed' = IF flusher[f].to = flusher[f].from + BatchSize THEN flusher[f].to ELSE Len(conv)
  BY DEF FlushSent, Report, Slice, HolderInv, loopVars
<1>2. /\ flusher[f].from = flushed /\ flusher[f].from < flusher[f].to /\ flusher[f].to <= Len(conv)
      /\ \A g \in Flushers : g # f => flusher[g].at \notin {"look", "send"}
  BY <1>1 DEF HolderInv
<1>3. flushed' \in 0..Len(conv) /\ flushed' >= flusher[f].to /\ flushed' >= flushed
  BY <1>0, <1>1, <1>2
<1> DEFINE y == [flusher[f] EXCEPT !.at = "look"]
           r == <<flusher[f].from, flusher[f].to>>
<1>4. y \in Flush /\ y.at = "look" /\ r \in Nat \X Nat /\ r[1] = flushed /\ r[2] = flusher[f].to
  BY <1>0, <1>2 DEF Flush
<1>5. flusher' = [flusher EXCEPT ![f] = y]
  BY <1>0 DEF FlushSent
<1>6. reported' = Append(reported, r)
  BY <1>1
<1> HIDE DEF y, r
<1>7. flusher' \in [Flushers -> Flush] /\ flusher'[f] = y /\ \A g \in Flushers : g # f => flusher'[g] = flusher[g]
  BY <1>4, <1>5, SetFlusher
<1>8. /\ reported' \in Seq(Nat \X Nat) /\ Len(reported') = Len(reported) + 1
      /\ reported'[Len(reported) + 1] = r
      /\ \A i \in 1..Len(reported) : reported'[i] = reported[i]
  BY <1>0, <1>4, <1>6
<1>9. FlushType'
  BY <1>0, <1>1, <1>3, <1>7, <1>8 DEF FlushType
<1>10. HolderInv'
  BY <1>1, <1>2, <1>4, <1>7 DEF HolderInv, FlushDone, Flushers
<1>11. SentInv'
  <2> SUFFICES ASSUME ~resent PROVE (BatchesInOrder /\ \A i \in 1..Len(reported) : reported[i][2] <= flushed)'
    BY <1>1 DEF SentInv
  <2>0. Len(reported) \in Nat /\ \A i \in 1..Len(reported) : reported[i][2] \in Nat
    BY <1>0
  <2>1. /\ \A i \in 1..(Len(reported) - 1) : reported[i][2] <= reported[i + 1][1]
        /\ \A i \in 1..Len(reported) : reported[i][2] <= flushed
    BY DEF SentInv, BatchesInOrder
  <2>2. ASSUME NEW i \in 1..Len(reported') PROVE reported'[i][2] <= flushed'
    <3>1. CASE i = Len(reported) + 1
      BY <1>3, <1>4, <1>8, <3>1
    <3>2. CASE i \in 1..Len(reported)
      <4>1. reported'[i] = reported[i] /\ reported[i][2] \in Nat /\ reported[i][2] <= flushed
        BY <1>8, <2>0, <2>1, <3>2
      <4>2. flushed \in Nat /\ flushed' \in Nat
        BY <1>0, <1>3
      <4> QED
        BY <1>3, <4>1, <4>2
    <3> QED
      BY <1>8, <2>0, <3>1, <3>2
  <2>3. ASSUME NEW i \in 1..(Len(reported') - 1) PROVE reported'[i][2] <= reported'[i + 1][1]
    <3>1. CASE i = Len(reported)
      <4>1. i \in 1..Len(reported) /\ i + 1 = Len(reported) + 1
        BY <2>0, <2>3, <3>1, <1>8
      <4>2. reported'[i] = reported[i] /\ reported'[i + 1] = r
        BY <1>8, <4>1
      <4> QED
        BY <1>4, <2>1, <4>1, <4>2
    <3>2. CASE i \in 1..(Len(reported) - 1)
      <4>1. i \in 1..Len(reported) /\ i + 1 \in 1..Len(reported)
        BY <2>0, <3>2
      <4> QED
        BY <1>8, <2>1, <3>2, <4>1
    <3> QED
      BY <1>8, <2>0, <3>1, <3>2
  <2> QED
    BY <2>2, <2>3 DEF BatchesInOrder
<1> QED
  BY <1>9, <1>10, <1>11

(* The finally clause cancels the tasks. *)
LEMMA CancelStep ==
    ASSUME SesTypeOK, HolderInv, SentInv, CancelTasks
    PROVE  FlushType' /\ HolderInv' /\ SentInv'
<1>0. /\ conv \in Seq(Message) /\ Len(conv) \in Nat /\ flushed \in 0..Len(conv)
      /\ lock \in Flushers \cup {NoOne} /\ reported \in Seq(Nat \X Nat)
      /\ flusher \in [Flushers -> Flush]
      /\ \A f \in Flushers : flusher[f].from \in Nat /\ flusher[f].to \in Nat
  BY DEF SesTypeOK, FlushType, Flush
<1>1. /\ pc' = "final" /\ UNCHANGED <<conv, flushed, reminded>>
      /\ lock' = IF lock \in Cancelled THEN NoOne ELSE lock
      /\ flusher' = [f \in Flushers |-> IF f = "main" THEN Want(TRUE)
                                        ELSE IF f \in Cancelled THEN NotFlushing ELSE flusher[f]]
  BY DEF CancelTasks
<1>2. \/ UNCHANGED <<reported, resent>>
      \/ resent' = TRUE /\ \E f \in Flushers : reported' = Append(reported, <<flusher[f].from, flusher[f].to>>)
  BY DEF CancelTasks, Report, Slice, Cancelled, Flushers
<1>3. reported' \in Seq(Nat \X Nat)
  <2>1. \A f \in Flushers : <<flusher[f].from, flusher[f].to>> \in Nat \X Nat
    BY <1>0
  <2>2. ASSUME NEW r \in Nat \X Nat PROVE Append(reported, r) \in Seq(Nat \X Nat)
    BY <1>0, <2>2
  <2> QED
    BY <1>0, <1>2, <2>1, <2>2
<1>4. Want(TRUE) \in Flush /\ Want(TRUE).at = "want" /\ NotFlushing \in Flush /\ NotFlushing.at = "idle"
  BY WantFacts
<1>5. /\ flusher' \in [Flushers -> Flush] /\ flusher'["main"].at = "want"
      /\ flusher'["hook"] = flusher["hook"]
      /\ flusher'["timer"].at = "idle" /\ flusher'["reminder"].at = "idle"
  BY <1>0, <1>1, <1>4 DEF Flushers, Cancelled
<1>6. FlushType'
  BY <1>0, <1>1, <1>3, <1>5 DEF FlushType
<1>7. HolderInv'
  BY <1>1, <1>5 DEF HolderInv, FlushDone, Flushers, Cancelled
<1>8. SentInv'
  BY <1>1, <1>2 DEF SentInv, BatchesInOrder
<1> QED
  BY <1>6, <1>7, <1>8

-----------------------------------------------------------------------------
(* The children. *)

(* The message at the head of the queue. *)
LEMMA HeadFacts ==
    ASSUME SesTypeOK, out # <<>>
    PROVE  /\ Head(out) = out[1] /\ Head(out) \in Message /\ NamesChild(Head(out))
           /\ Len(out) \in Nat /\ Len(out) >= 1
           /\ Tail(out) \in Seq(Message) /\ Len(Tail(out)) = Len(out) - 1
           /\ \A i \in 1..(Len(out) - 1) : Tail(out)[i] = out[i + 1]
<1>1. out \in Seq(Message) /\ Len(out) \in Nat /\ \A i \in 1..Len(out) : NamesChild(out[i])
  BY DEF SesTypeOK, CliType
<1>2. Len(out) >= 1
  BY <1>1
<1>3. Head(out) = out[1] /\ Head(out) \in Message
  BY <1>1, <1>2
<1>4. NamesChild(Head(out))
  BY <1>1, <1>2, <1>3
<1> QED
  BY <1>1, <1>2, <1>3, <1>4

(* What the lifecycle messages do to pending_async_subagent_tool_ids and   *)
(* async_subagent_task_ids.                                                *)
LEMMA TakeChildren ==
    ASSUME SesTypeOK, NEW m \in Message, NamesChild(m),
           pending' = PendingAfter(m), owner' = OwnerAfter(m),
           m.kind = "send" => m.child \in DOMAIN owner
    PROVE  /\ \A k \in Children : Held(k) /\ ~(m.child = k /\ Shuts(m)) => Held(k)'
           /\ \A k \in Children : m.child = k /\ Opens(m) => Held(k)'
           /\ DOMAIN owner \subseteq DOMAIN owner' /\ DOMAIN owner' \subseteq Children
           /\ \A k \in DOMAIN owner' : owner'[k] \in ToolsOf(k)
           /\ m.kind = "started" => m.child \in DOMAIN owner'
           /\ m.kind \notin {"use", "started", "note"} /\ DOMAIN owner = {} => owner' = owner /\ pending' = pending
<1>0. DOMAIN owner \subseteq Children /\ \A k \in DOMAIN owner : owner[k] \in ToolsOf(k)
  BY DEF SesTypeOK, LoopType
<1>1. /\ \A k, l \in Children : k # l => ToolsOf(k) \cap ToolsOf(l) = {}
      /\ \A k \in Children : Root \notin ToolsOf(k)
  BY ToolFacts
<1>2. ASSUME NEW k \in Children, NEW t \in ToolsOf(k)
      PROVE  /\ DOMAIN Extend(owner, k, t) = DOMAIN owner \cup {k}
             /\ Extend(owner, k, t)[k] = t
             /\ \A l \in DOMAIN owner : l # k => Extend(owner, k, t)[l] = owner[l]
  BY DEF Extend
<1>3. ASSUME NEW k \in Children, NEW t \in ToolsOf(k), owner' = Extend(owner, k, t)
      PROVE  /\ DOMAIN owner \subseteq DOMAIN owner' /\ DOMAIN owner' \subseteq Children /\ k \in DOMAIN owner'
             /\ \A l \in DOMAIN owner' : owner'[l] \in ToolsOf(l)
  <2>1. DOMAIN owner' = DOMAIN owner \cup {k} /\ owner'[k] = t
        /\ \A l \in DOMAIN owner : l # k => owner'[l] = owner[l]
    <3> DEFINE e == Extend(owner, k, t)
    <3>1. DOMAIN e = DOMAIN owner \cup {k} /\ e[k] = t /\ \A l \in DOMAIN owner : l # k => e[l] = owner[l]
      BY <1>2
    <3>2. owner' = e
      BY <1>3
    <3> HIDE DEF e
    <3> QED
      BY <3>1, <3>2
  <2> QED
    BY <1>0, <2>1
<1>4. CASE m.kind = "use"
  <2>1. m.child \in Children /\ m.tool \in ToolsOf(m.child)
    BY <1>4 DEF NamesChild, Opens
  <2>2. pending' = pending \cup {m.tool} /\ owner' = owner
    BY <1>4 DEF PendingAfter, OwnerAfter, IsResume, Terminal
  <2> QED
    BY <1>0, <1>4, <2>1, <2>2 DEF Held
<1>5. CASE m.kind = "send"
  <2>1. m.child \in Children /\ m.tool \in ToolsOf(m.child) /\ m.child \in DOMAIN owner
    BY <1>5 DEF NamesChild, Opens
  <2>2. CASE owner[m.child] \notin pending
    <3>1. IsResume(m)
      BY <1>5, <2>1, <2>2 DEF IsResume
    <3>2. pending' = pending \cup {m.tool} /\ owner' = Extend(owner, m.child, m.tool)
      BY <1>5, <3>1 DEF PendingAfter, OwnerAfter, Terminal
    <3>3. /\ DOMAIN owner \subseteq DOMAIN owner' /\ DOMAIN owner' \subseteq Children
          /\ \A l \in DOMAIN owner' : owner'[l] \in ToolsOf(l)
      BY <1>3, <2>1, <3>2
    <3> QED
      BY <1>5, <2>1, <3>2, <3>3 DEF Held
  <2>3. CASE owner[m.child] \in pending
    <3>1. ~IsResume(m)
      BY <2>3 DEF IsResume
    <3>2. pending' = pending /\ owner' = owner
      BY <1>5, <3>1 DEF PendingAfter, OwnerAfter, Terminal
    <3>3. Held(m.child)
      BY <1>0, <2>1, <2>3 DEF Held
    <3> QED
      BY <1>0, <1>5, <3>2, <3>3 DEF Held
  <2> QED
    BY <2>2, <2>3
<1>6. CASE m.kind = "started"
  <2>1. m.child \in Children /\ m.tool \in ToolsOf(m.child)
    BY <1>6 DEF NamesChild, Opens
  <2>2. pending' = (pending \ {Lookup(owner, m.child, m.tool)}) \cup {m.tool}
        /\ owner' = Extend(owner, m.child, m.tool)
    BY <1>6 DEF PendingAfter, OwnerAfter, IsResume, Terminal
  <2>3. Lookup(owner, m.child, m.tool) \in ToolsOf(m.child)
    BY <1>0, <2>1 DEF Lookup
  <2>4. /\ DOMAIN owner \subseteq DOMAIN owner' /\ DOMAIN owner' \subseteq Children
        /\ m.child \in DOMAIN owner' /\ \A l \in DOMAIN owner' : owner'[l] \in ToolsOf(l)
    BY <1>3, <2>1, <2>2
  <2>5. \A k \in Children : Held(k) => Held(k)'
    <3> SUFFICES ASSUME NEW k \in Children, Held(k) PROVE Held(k)'
      OBVIOUS
    <3>1. CASE k = m.child
      BY <2>1, <2>2, <3>1 DEF Held
    <3>2. CASE k # m.child
      <4>1. ToolsOf(k) \cap ToolsOf(m.child) = {}
        BY <1>1, <2>1, <3>2
      <4> QED
        BY <2>2, <2>3, <4>1 DEF Held
    <3> QED
      BY <3>1, <3>2
  <2>6. Held(m.child)'
    BY <2>1, <2>2 DEF Held
  <2> QED
    BY <1>6, <2>4, <2>5, <2>6
<1>7. CASE m.kind = "note"
  <2>1. m.child \in Children /\ m.tool \in ToolsOf(m.child) \cup {Root}
    BY <1>7 DEF NamesChild, Shuts
  <2>2. pending' = pending \ {NoteTool(m)}
    BY <1>7 DEF PendingAfter, IsResume, Terminal
  <2>3. NoteTool(m) \in ToolsOf(m.child) \cup {Root}
    BY <1>0, <2>1 DEF NoteTool, Lookup
  <2>4. \A k \in Children : Held(k) /\ k # m.child => Held(k)'
    <3> SUFFICES ASSUME NEW k \in Children, Held(k), k # m.child PROVE Held(k)'
      OBVIOUS
    <3>1. ToolsOf(k) \cap ToolsOf(m.child) = {} /\ Root \notin ToolsOf(k)
      BY <1>1, <2>1
    <3> QED
      BY <2>2, <2>3, <3>1 DEF Held
  <2>5. /\ DOMAIN owner \subseteq DOMAIN owner' /\ DOMAIN owner' \subseteq Children
        /\ \A l \in DOMAIN owner' : owner'[l] \in ToolsOf(l)
    <3>1. CASE NoteTool(m) # Root
      <4>1. owner' = Extend(owner, m.child, NoteTool(m)) /\ NoteTool(m) \in ToolsOf(m.child)
        BY <1>7, <2>3, <3>1 DEF OwnerAfter, IsResume
      <4> QED
        BY <1>3, <2>1, <4>1
    <3>2. CASE NoteTool(m) = Root
      <4>1. owner' = owner
        BY <1>7, <3>2 DEF OwnerAfter, IsResume
      <4> QED
        BY <1>0, <4>1
    <3> QED
      BY <3>1, <3>2
  <2> QED
    BY <1>7, <2>4, <2>5 DEF Opens, Shuts
<1>8. CASE m.kind \notin {"use", "send", "started", "note"}
  <2>1. pending' = pending /\ owner' = owner
    BY <1>8 DEF PendingAfter, OwnerAfter, IsResume, Terminal
  <2> QED
    BY <1>0, <1>8, <2>1 DEF Held, Opens
<1> QED
  BY <1>4, <1>5, <1>6, <1>7, <1>8

(* A message is appended to the queue. *)
LEMMA AppendAwaited ==
    ASSUME SesTypeOK, NEW m \in Message, out' = Append(out, m), pending' = pending,
           NEW n \in Nat, n = Len(out)
    PROVE  /\ Len(out') = n + 1 /\ out'[n + 1] = m /\ \A i \in 1..n : out'[i] = out[i]
           /\ \A k, i : i \in 1..(n + 1) => (Awaited(k, i)' <=> Awaited(k, i))
           /\ \A k : Awaited(k, n + 1) /\ ~(m.child = k /\ Shuts(m)) => Awaited(k, n + 2)'
           /\ \A k : m.child = k /\ Opens(m) => Awaited(k, n + 2)'
<1>1. Len(out') = n + 1 /\ out'[n + 1] = m /\ \A i \in 1..n : out'[i] = out[i]
  BY DEF SesTypeOK, CliType
<1>2. \A k : (Held(k)' <=> Held(k)) /\ \A j \in 1..n : About(k, j)' <=> About(k, j)
  BY <1>1 DEF Held, About
<1>3. ASSUME NEW k, NEW a \in 1..(n + 2), NEW b \in 0..n
      PROVE  StopIn(k, a, b)' <=> StopIn(k, a, b)
  <2>1. \A j \in a..b : j \in 1..n
    OBVIOUS
  <2> QED
    BY <1>1, <1>2, <2>1 DEF StopIn
<1>4. ASSUME NEW k, NEW i \in 1..(n + 1) PROVE Awaited(k, i)' <=> Awaited(k, i)
  <2>1. i - 1 \in 0..n /\ \A j \in 1..(i - 1) : j \in 1..n /\ j + 1 \in 1..(n + 2)
    OBVIOUS
  <2>2. StopIn(k, 1, i - 1)' <=> StopIn(k, 1, i - 1)
    BY <1>3, <2>1
  <2>3. \A j \in 1..(i - 1) : StopIn(k, j + 1, i - 1)' <=> StopIn(k, j + 1, i - 1)
    BY <1>3, <2>1
  <2> QED
    BY <1>1, <1>2, <2>1, <2>2, <2>3 DEF Awaited
<1>5. ASSUME NEW k, NEW a \in 1..(n + 1), StopIn(k, a, n + 1)'
      PROVE  StopIn(k, a, n) \/ (m.child = k /\ Shuts(m))
  <2>1. PICK j \in a..(n + 1) : About(k, j)' /\ Shuts(out'[j])
    BY <1>5 DEF StopIn
  <2>2. CASE j = n + 1
    BY <1>1, <2>1, <2>2 DEF About
  <2>3. CASE j \in a..n
    <3>1. j \in 1..n
      BY <2>3
    <3>2. About(k, j) /\ Shuts(out[j])
      BY <1>1, <1>2, <2>1, <3>1
    <3> QED
      BY <2>3, <3>2 DEF StopIn
  <2>4. j = n + 1 \/ j \in a..n
    BY <2>1
  <2> QED
    BY <2>2, <2>3, <2>4
<1>6. ASSUME NEW k, Awaited(k, n + 1), ~(m.child = k /\ Shuts(m)) PROVE Awaited(k, n + 2)'
  <2>0. (n + 1) - 1 = n /\ (n + 2) - 1 = n + 1
    OBVIOUS
  <2>1. CASE Held(k) /\ ~StopIn(k, 1, n)
    <3>1. ~StopIn(k, 1, n + 1)'
      BY <1>5, <1>6, <2>1
    <3> QED
      BY <1>2, <2>0, <2>1, <3>1 DEF Awaited
  <2>2. ASSUME NEW j \in 1..n, About(k, j), Opens(out[j]), ~StopIn(k, j + 1, n) PROVE Awaited(k, n + 2)'
    <3>1. ~StopIn(k, j + 1, n + 1)'
      BY <1>5, <1>6, <2>2
    <3>2. j \in 1..(n + 1) /\ About(k, j)' /\ Opens(out'[j])
      BY <1>1, <1>2, <2>2
    <3> QED
      BY <2>0, <3>1, <3>2 DEF Awaited
  <2> QED
    BY <1>6, <2>0, <2>1, <2>2 DEF Awaited
<1>7. ASSUME NEW k, m.child = k, Opens(m) PROVE Awaited(k, n + 2)'
  <2>0. (n + 2) - 1 = n + 1 /\ n + 1 \in 1..(n + 1)
    OBVIOUS
  <2>1. About(k, n + 1)' /\ Opens(out'[n + 1])
    BY <1>1, <1>7 DEF About
  <2>2. ~StopIn(k, (n + 1) + 1, n + 1)'
    BY DEF StopIn
  <2> QED
    BY <2>0, <2>1, <2>2 DEF Awaited
<1> QED
  BY <1>1, <1>4, <1>6, <1>7

(* The head of the queue is taken. *)
LEMMA TailAwaited ==
    ASSUME SesTypeOK, out # <<>>, out' = Tail(out), NEW m, m = Head(out), NEW k,
           Held(k) /\ ~(m.child = k /\ Shuts(m)) => Held(k)',
           m.child = k /\ Opens(m) => Held(k)',
           NEW i \in 2..(Len(out) + 1), Awaited(k, i)
    PROVE  Awaited(k, i - 1)'
<1>1. /\ m = out[1] /\ Len(out) \in Nat /\ Len(out) >= 1 /\ Len(out') = Len(out) - 1
      /\ \A j \in 1..(Len(out) - 1) : out'[j] = out[j + 1]
  BY HeadFacts
<1>2. PICK n \in Nat : n = Len(out)
  BY <1>1
<1>3. ASSUME NEW a \in 1..(n + 1), NEW b \in 0..(n - 1), StopIn(k, a, b)' PROVE StopIn(k, a + 1, b + 1)
  <2>1. PICK j \in a..b : About(k, j)' /\ Shuts(out'[j])
    BY <1>3 DEF StopIn
  <2>2. out'[j] = out[j + 1] /\ j + 1 \in (a + 1)..(b + 1)
    BY <1>1, <1>2
  <2> QED
    BY <2>1, <2>2 DEF StopIn, About
<1>4. i - 1 - 1 \in 0..(n - 1) /\ (i - 1 - 1) + 1 = i - 1 /\ 1 \in 1..(i - 1)
  BY <1>1, <1>2
<1>5. CASE Held(k) /\ ~StopIn(k, 1, i - 1)
  <2>1. ~(m.child = k /\ Shuts(m))
    BY <1>1, <1>4, <1>5 DEF StopIn, About
  <2>2. ~StopIn(k, 2, i - 1)
    BY <1>4, <1>5 DEF StopIn
  <2>3. ~StopIn(k, 1, i - 1 - 1)'
    <3>1. 1 \in 1..(n + 1) /\ 1 + 1 = 2
      OBVIOUS
    <3> QED
      BY <1>3, <1>4, <2>2, <3>1
  <2> QED
    BY <1>5, <2>1, <2>3 DEF Awaited
<1>6. ASSUME NEW j \in 1..(i - 1), About(k, j), Opens(out[j]), ~StopIn(k, j + 1, i - 1)
      PROVE  Awaited(k, i - 1)'
  <2>1. CASE j = 1
    <3>1. m.child = k /\ Opens(m)
      BY <1>1, <1>6, <2>1 DEF About
    <3>2. ~StopIn(k, 1, i - 1 - 1)'
      <4>1. 1 \in 1..(n + 1) /\ 1 + 1 = j + 1
        BY <2>1
      <4> QED
        BY <1>3, <1>4, <1>6, <4>1
    <3> QED
      BY <3>1, <3>2 DEF Awaited
  <2>2. CASE j # 1
    <3>1. PICK h \in 1..(i - 1 - 1) : j = h + 1 /\ h \in 1..(n - 1)
      BY <1>1, <1>2, <1>6, <2>2
    <3>2. out'[h] = out[j]
      BY <1>1, <1>2, <3>1
    <3>3. About(k, h)' /\ Opens(out'[h])
      BY <1>6, <3>2 DEF About
    <3>4. ~StopIn(k, h + 1, i - 1 - 1)'
      <4>1. h + 1 \in 1..(n + 1) /\ (h + 1) + 1 = j + 1
        BY <3>1
      <4> QED
        BY <1>3, <1>4, <1>6, <4>1
    <3> QED
      BY <3>1, <3>3, <3>4 DEF Awaited
  <2> QED
    BY <2>1, <2>2
<1> QED
  BY <1>5, <1>6 DEF Awaited

-----------------------------------------------------------------------------
(* Types. *)

(* The entry a hook, a retry or the reminder appends. *)
LEMMA UserEntry == Msg("user", NoChild, Root) \in Message /\ NoMsg \in Message
                   /\ NoMsg.kind = "none" /\ NamesChild(NoMsg)
<1>1. Msg("user", NoChild, Root) \in Message
  BY MsgFacts DEF Kinds
<1>2. NoMsg \in Message /\ NoMsg.kind = "none"
  BY MsgFacts DEF Kinds, NoMsg
<1> QED
  BY <1>1, <1>2 DEF NamesChild, Opens, Shuts

(* No step takes anything out of the transcript. *)
LEMMA ConvStep ==
    ASSUME SesTypeOK, SesNext
    PROVE  Grows
<1>1. CASE TakeMessage
  <2>1. Head(out) \in Message /\ conv' = Append(conv, Head(out))
    BY <1>1, HeadFacts DEF TakeMessage
  <2> QED
    BY <2>1, Growing
<1>2. CASE CliStep
  BY <1>2, CliEffect, Growing
<1>3. CASE HookWaits \/ Remind
  <2>1. conv' = Append(conv, Msg("user", NoChild, Root))
    BY <1>3 DEF HookWaits, Remind
  <2> QED
    BY <2>1, Growing, UserEntry
<1>4. CASE AgentResult
  <2>1. conv' = conv \/ conv' = Append(conv, Msg("user", NoChild, Root))
    BY <1>4 DEF AgentResult
  <2> QED
    BY <2>1, Growing, UserEntry
<1>5. CASE FlushStep \/ TimerFlush \/ HookAnswered \/ AfterFlush \/ QueryEnds \/ CancelTasks \/ Complete
  <2>1. conv' = conv
    BY <1>5 DEF FlushStep, FlushLock, FlushCut, FlushSent, TimerFlush, HookAnswered, AfterFlush, QueryEnds,
                CancelTasks, Complete
  <2> QED
    BY <2>1, Growing
<1> QED
  BY <1>1, <1>2, <1>3, <1>4, <1>5 DEF SesNext, LoopStep

(* Only the holder of the lock and the finally clause do anything to the   *)
(* reported transcript.                                                    *)
LEMMA CalmSteps ==
    ASSUME SesTypeOK, HolderInv, SesNext, ~FlushStep, ~CancelTasks
    PROVE  Calm
<1>0. Grows
  BY ConvStep
<1>1. /\ "main" \in Flushers /\ "timer" \in Flushers /\ "hook" \in Flushers /\ "reminder" \in Flushers
      /\ flusher \in [Flushers -> Flush]
  BY DEF Flushers, SesTypeOK, FlushType
<1>2. CASE CliStep
  <2>1. UNCHANGED <<loopVars, flushVars>>
    BY <1>2, CliEffect
  <2> QED
    BY <1>0, <1>1, <2>1 DEF Calm, HolderInv, loopVars, flushVars, FlushDone
<1>3. CASE HookAnswered \/ AfterFlush \/ QueryEnds
  <2>1. UNCHANGED <<flushVars, reminded>>
        /\ (pc' \in {"next", "after", "cancel"} => FlushDone("main"))
    BY <1>3 DEF HookAnswered, AfterFlush, QueryEnds, loopVars, HolderInv
  <2> QED
    BY <1>0, <1>1, <2>1 DEF Calm, HolderInv, flushVars, FlushDone
<1>4. CASE Complete
  <2>1. UNCHANGED <<flushed, lock, flusher, reported, resent, reminded>> /\ pc' = "ok"
    BY <1>4 DEF Complete
  <2> QED
    BY <1>0, <1>1, <2>1 DEF Calm, HolderInv, FlushDone
<1>5. CASE TimerFlush
  <2>1. Wants("timer", TRUE) /\ UNCHANGED <<flushed, lock, reported, resent, reminded, pc>>
    BY <1>5 DEF TimerFlush, loopVars
  <2>2. /\ flusher' \in [Flushers -> Flush] /\ flusher'["timer"].at = "want"
        /\ \A g \in Flushers : g # "timer" => flusher'[g] = flusher[g]
    BY <1>1, <2>1, WantsEffect
  <2> QED
    BY <1>0, <1>1, <2>1, <2>2 DEF Calm, HolderInv, FlushDone
<1>6. CASE HookWaits
  <2>1. Wants("hook", FALSE) /\ UNCHANGED <<flushed, lock, reported, resent, reminded, pc>>
    BY <1>6 DEF HookWaits, loopVars
  <2>2. /\ flusher' \in [Flushers -> Flush] /\ flusher'["hook"].at = "want"
        /\ \A g \in Flushers : g # "hook" => flusher'[g] = flusher[g]
    BY <1>1, <2>1, WantsEffect
  <2> QED
    BY <1>0, <1>1, <2>1, <2>2 DEF Calm, HolderInv, FlushDone
<1>7. CASE Remind
  <2>1. Wants("reminder", FALSE) /\ UNCHANGED <<flushed, lock, reported, resent, pc>> /\ reminded' = TRUE
    BY <1>7 DEF Remind
  <2>2. /\ flusher' \in [Flushers -> Flush] /\ flusher'["reminder"].at = "want"
        /\ \A g \in Flushers : g # "reminder" => flusher'[g] = flusher[g]
    BY <1>1, <2>1, WantsEffect
  <2> QED
    BY <1>0, <1>1, <2>1, <2>2 DEF Calm, HolderInv, FlushDone
<1>8. ASSUME Wants("main", FALSE), pc' = "flush", UNCHANGED <<flushed, lock, reported, resent, reminded>>
      PROVE  Calm
  <2>2. /\ flusher' \in [Flushers -> Flush] /\ flusher'["main"].at = "want"
        /\ \A g \in Flushers : g # "main" => flusher'[g] = flusher[g]
    BY <1>1, <1>8, WantsEffect
  <2> QED
    BY <1>0, <1>1, <1>8, <2>2 DEF Calm, HolderInv, FlushDone
<1>9. CASE TakeMessage
  BY <1>8, <1>9 DEF TakeMessage
<1>10. CASE AgentResult
  <2>1. CASE Wants("main", FALSE) /\ pc' = "flush"
    BY <1>8, <1>10, <2>1 DEF AgentResult, flushVars
  <2>2. CASE UNCHANGED flushVars /\ pc' = "next"
    <3>1. pc = "after" /\ reminded' = reminded
      BY <1>10 DEF AgentResult
    <3> QED
      BY <1>0, <1>1, <2>2, <3>1 DEF Calm, HolderInv, FlushDone, flushVars
  <2> QED
    BY <1>10, <2>1, <2>2 DEF AgentResult
<1> QED
  BY <1>2, <1>3, <1>4, <1>5, <1>6, <1>7, <1>9, <1>10 DEF SesNext, LoopStep

(* The reported transcript, step by step. *)
LEMMA FlushInvStep ==
    ASSUME SesTypeOK, HolderInv, SentInv, [SesNext]_sesVars
    PROVE  FlushType' /\ HolderInv' /\ SentInv'
<1>1. CASE SesNext /\ ~FlushStep /\ ~CancelTasks
  BY <1>1, CalmSteps, CalmStep
<1>2. CASE FlushStep
  BY <1>2, LockStep, CutStep, SentStep DEF FlushStep
<1>3. CASE CancelTasks
  BY <1>3, CancelStep
<1>4. CASE UNCHANGED sesVars
  <2>1. UNCHANGED <<conv, flushed, lock, flusher, reported, resent, pc, reminded>>
    BY <1>4 DEF sesVars, flushVars, loopVars
  <2> QED
    BY <2>1 DEF SesTypeOK, FlushType, HolderInv, SentInv, BatchesInOrder, FlushDone
<1> QED
  BY <1>1, <1>2, <1>3, <1>4

(* The state of the CLI keeps its type. *)
LEMMA CliTypeStep ==
    ASSUME SesTypeOK, [SesNext]_sesVars
    PROVE  CliType'
<1>0. /\ child \in [Children -> {"none", "called", "running", "finished", "refused"}]
      /\ resumed \subseteq Children /\ prompts \in Nat /\ out \in Seq(Message) /\ Len(out) \in Nat
      /\ \A i \in 1..Len(out) : NamesChild(out[i])
  BY DEF SesTypeOK, CliType
<1>1. CASE CliStep
  <2>1. CASE UNCHANGED <<child, resumed, out>> /\ prompts > 0 /\ prompts' = prompts - 1
    BY <1>0, <2>1 DEF CliType
  <2>2. ASSUME NEW m \in Message, NamesChild(m), out' = Append(out, m), prompts' = prompts, Tells(m)
        PROVE  CliType'
    <3>1. /\ child' \in [Children -> {"none", "called", "running", "finished", "refused"}]
          /\ resumed' \subseteq Children
      BY <1>0, <2>2 DEF Tells, Turns
    <3>2. out' \in Seq(Message) /\ Len(out') = Len(out) + 1 /\ out'[Len(out) + 1] = m
          /\ \A i \in 1..Len(out) : out'[i] = out[i]
      BY <1>0, <2>2
    <3>3. \A i \in 1..Len(out') : NamesChild(out'[i])
      BY <1>0, <2>2, <3>2
    <3> QED
      BY <1>0, <2>2, <3>1, <3>2, <3>3 DEF CliType, NamesChild, Opens, Shuts
  <2> QED
    BY <1>1, <2>1, <2>2, CliEffect
<1>2. CASE TakeMessage
  <2>1. UNCHANGED <<child, resumed, prompts>> /\ out' = Tail(out) /\ out # <<>>
    BY <1>2 DEF TakeMessage, cliVars
  <2>2. Tail(out) \in Seq(Message) /\ Len(Tail(out)) = Len(out) - 1
        /\ \A i \in 1..(Len(out) - 1) : Tail(out)[i] = out[i + 1]
    BY <2>1, HeadFacts
  <2>3. \A i \in 1..Len(out') : NamesChild(out'[i])
    BY <1>0, <2>1, <2>2
  <2> QED
    BY <1>0, <2>1, <2>2, <2>3 DEF CliType, NamesChild, Opens, Shuts
<1>3. CASE AgentResult \/ Remind
  <2>1. UNCHANGED <<child, resumed, out>> /\ prompts' \in {prompts, prompts + 1}
    BY <1>3 DEF AgentResult, Remind
  <2> QED
    BY <1>0, <2>1 DEF CliType
<1>4. CASE \/ FlushStep \/ TimerFlush \/ HookWaits \/ HookAnswered \/ AfterFlush \/ QueryEnds \/ CancelTasks
           \/ Complete \/ UNCHANGED sesVars
  <2>1. UNCHANGED <<child, resumed, out, prompts>>
    BY <1>4 DEF FlushStep, FlushLock, FlushCut, FlushSent, TimerFlush, HookWaits, HookAnswered, AfterFlush,
                QueryEnds, CancelTasks, Complete, cliVars, sesVars
  <2> QED
    BY <1>0, <2>1 DEF CliType
<1> QED
  BY <1>1, <1>2, <1>3, <1>4 DEF SesNext, LoopStep

(* So does that of the main loop. *)
LEMMA LoopTypeStep ==
    ASSUME SesTypeOK, TasksKnown, [SesNext]_sesVars
    PROVE  LoopType'
<1>0. /\ taken \in Message /\ NamesChild(taken) /\ final \in 0..Len(conv) /\ Len(conv) \in Nat
      /\ DOMAIN owner \subseteq Children /\ \A k \in DOMAIN owner : owner[k] \in ToolsOf(k)
  BY DEF SesTypeOK, LoopType, FlushType
<1>1. CASE TakeMessage
  <2> DEFINE m == Head(out)
  <2>1. /\ taken' = m /\ pending' = PendingAfter(m) /\ owner' = OwnerAfter(m)
        /\ conv' = Append(conv, m) /\ (final' = Len(conv) + 1 \/ final' = final) /\ out # <<>>
    BY <1>1 DEF TakeMessage
  <2>2. m \in Message /\ NamesChild(m) /\ m = out[1] /\ 1 \in 1..Len(out)
    BY <2>1, HeadFacts
  <2>3. m.kind = "send" => m.child \in DOMAIN owner
    BY <2>2 DEF TasksKnown, KnownBefore
  <2> HIDE DEF m
  <2>4. DOMAIN owner' \subseteq Children /\ \A k \in DOMAIN owner' : owner'[k] \in ToolsOf(k)
    BY <2>1, <2>2, <2>3, TakeChildren
  <2>5. Len(conv') = Len(conv) + 1
    BY <2>1, <2>2 DEF SesTypeOK, FlushType
  <2>6. final' \in 0..Len(conv')
    BY <1>0, <2>1, <2>5
  <2>7. taken' \in Message /\ NamesChild(taken)'
    BY <2>1, <2>2 DEF NamesChild, Opens, Shuts
  <2> QED
    BY <2>4, <2>6, <2>7 DEF LoopType
<1>2. CASE SesNext /\ ~TakeMessage
  <2>1. UNCHANGED <<owner, final>> /\ (taken' = taken \/ taken' = NoMsg)
    <3>1. CASE CliStep
      BY <3>1, CliEffect DEF loopVars
    <3>2. CASE AgentResult
      BY <3>2 DEF AgentResult
    <3> QED
      BY <1>2, <3>1, <3>2 DEF SesNext, LoopStep, FlushStep, FlushLock, FlushCut, FlushSent, TimerFlush, HookWaits,
                 HookAnswered, AfterFlush, QueryEnds, CancelTasks, Complete, Remind, loopVars
  <2>2. Len(conv') \in Nat /\ Len(conv') >= Len(conv)
    BY <1>2, ConvStep DEF Grows
  <2>3. final' \in 0..Len(conv')
    BY <1>0, <2>1, <2>2
  <2>4. taken' \in Message /\ NamesChild(taken)'
    BY <1>0, <2>1, UserEntry DEF NamesChild, Opens, Shuts
  <2> QED
    BY <1>0, <2>1, <2>3, <2>4 DEF LoopType
<1>3. CASE UNCHANGED sesVars
  <2>1. UNCHANGED <<taken, final, owner, conv>>
    BY <1>3 DEF sesVars, loopVars
  <2> QED
    BY <1>0, <2>1 DEF LoopType
<1> QED
  BY <1>1, <1>2, <1>3

-----------------------------------------------------------------------------
(* A step that says nothing of the children. *)
LEMMA StillChildren ==
    ASSUME SesTypeOK, ChildrenInv, Grows, UNCHANGED <<child, resumed, out, pending, owner, had, final>>,
           taken' = taken \/ taken'.kind # "err",
           pc' \in {"flush", "after"} => pc \in {"flush", "after"}
    PROVE  ChildrenInv'
<1>1. \A k, i : /\ Awaited(k, i)' <=> Awaited(k, i)
                /\ BusyLater(k, i)' <=> BusyLater(k, i)
                /\ KnownBefore(k, i)' <=> KnownBefore(k, i)
  BY DEF Awaited, Held, About, StopIn, BusyLater, KnownBefore
<1>2. \A i : CallBefore(i)' <=> CallBefore(i)
  BY DEF CallBefore
<1>3. Busy' = Busy /\ \A k : Began(k)' <=> Began(k)
  BY DEF Busy, Began
<1>4. BusyAwaited' /\ ResultsAwaited'
  BY <1>1, <1>3 DEF ChildrenInv, BusyAwaited, ResultsAwaited
<1>5. TasksKnown'
  BY <1>1, <1>3 DEF ChildrenInv, TasksKnown
<1>6. RefusedOver'
  BY <1>1 DEF ChildrenInv, RefusedOver
<1>7. HadKnown'
  BY <1>2 DEF ChildrenInv, HadKnown
<1>8. FinalAfterChildren'
  <2> SUFFICES ASSUME final # 0 PROVE conv'[final].busy = {}
    BY DEF FinalAfterChildren
  <2>1. final \in 1..Len(conv)
    BY DEF SesTypeOK, LoopType, FlushType
  <2> QED
    BY <2>1 DEF Grows, ChildrenInv, FinalAfterChildren
<1> QED
  BY <1>4, <1>5, <1>6, <1>7, <1>8 DEF ChildrenInv

(* The CLI emits a message. *)
LEMMA EmitChildren ==
    ASSUME SesTypeOK, ChildrenInv, UNCHANGED <<loopVars, conv>>,
           NEW m \in Message, NamesChild(m), out' = Append(out, m), Tells(m)
    PROVE  ChildrenInv'
<1>0. /\ child \in [Children -> {"none", "called", "running", "finished", "refused"}]
      /\ resumed \subseteq Children /\ out \in Seq(Message) /\ Len(out) \in Nat
      /\ \A i \in 1..Len(out) : NamesChild(out[i])
  BY DEF SesTypeOK, CliType
<1>n. PICK n \in Nat : n = Len(out)
  BY <1>0
<1>u. UNCHANGED <<pc, taken, pending, owner, had, final, conv>>
  BY DEF loopVars
<1>1. /\ Len(out') = n + 1 /\ out'[n + 1] = m /\ \A i \in 1..n : out'[i] = out[i]
      /\ \A k, i : i \in 1..(n + 1) => (Awaited(k, i)' <=> Awaited(k, i))
      /\ \A k : Awaited(k, n + 1) /\ ~(m.child = k /\ Shuts(m)) => Awaited(k, n + 2)'
      /\ \A k : m.child = k /\ Opens(m) => Awaited(k, n + 2)'
  BY <1>n, <1>u, AppendAwaited
<1>2. \A k \in Children : k \in Busy' =>
         (m.child = k /\ Opens(m)) \/ (k \in Busy /\ ~(m.child = k /\ Shuts(m)))
  BY <1>0 DEF Tells, Turns, Busy, Opens, Shuts
<1>3. BusyAwaited'
  <2> SUFFICES ASSUME NEW k \in Children, k \in Busy' PROVE Awaited(k, n + 2)'
    <3>1. Busy' \subseteq Children
      BY DEF Busy
    <3>2. ASSUME NEW k \in Children, Awaited(k, n + 2)' PROVE Awaited(k, Len(out) + 1)'
      <4>1. Len(out') + 1 = n + 2
        BY <1>1
      <4> QED
        BY <3>2, <4>1 DEF Awaited, StopIn, About, Held
    <3> QED
      BY <3>1, <3>2 DEF BusyAwaited
  <2>1. CASE m.child = k /\ Opens(m)
    BY <1>1, <2>1
  <2>2. CASE k \in Busy /\ ~(m.child = k /\ Shuts(m))
    <3>1. Awaited(k, n + 1)
      BY <1>n, <2>2 DEF ChildrenInv, BusyAwaited
    <3> QED
      BY <1>1, <2>2, <3>1
  <2> QED
    BY <1>2, <2>1, <2>2
<1>4. ResultsAwaited'
  <2> SUFFICES ASSUME NEW i \in 1..(n + 1), out'[i].kind = "result", NEW k \in out'[i].busy
               PROVE  Awaited(k, i)'
    BY <1>1 DEF ResultsAwaited
  <2>1. CASE i \in 1..n
    BY <1>1, <1>n, <2>1 DEF ChildrenInv, ResultsAwaited
  <2>2. CASE i = n + 1
    <3>1. k \in Busy
      BY <1>1, <2>2 DEF Tells
    <3>2. Awaited(k, i)
      BY <1>n, <2>2, <3>1 DEF ChildrenInv, BusyAwaited
    <3> QED
      BY <1>1, <3>2
  <2> QED
    BY <2>1, <2>2
<1>5. \A k, i : i \in 1..(n + 1) /\ KnownBefore(k, i) => KnownBefore(k, i)' /\ KnownBefore(k, n + 2)'
  <2> SUFFICES ASSUME NEW k, NEW i \in 1..(n + 1), KnownBefore(k, i)
               PROVE  KnownBefore(k, i)' /\ KnownBefore(k, n + 2)'
    OBVIOUS
  <2>1. CASE k \in DOMAIN owner
    BY <1>u, <2>1 DEF KnownBefore
  <2>2. ASSUME NEW j \in 1..(i - 1), About(k, j), out[j].kind = "started"
        PROVE  KnownBefore(k, i)' /\ KnownBefore(k, n + 2)'
    <3>1. j \in 1..n /\ j \in 1..((n + 2) - 1)
      OBVIOUS
    <3>2. out'[j] = out[j]
      BY <1>1, <3>1
    <3>3. About(k, j)' /\ out'[j].kind = "started"
      BY <2>2, <3>2 DEF About
    <3> QED
      BY <3>1, <3>3 DEF KnownBefore
  <2> QED
    BY <2>1, <2>2 DEF KnownBefore
<1>6. TasksKnown'
  <2>1. ASSUME NEW k \in Children, Began(k)' PROVE KnownBefore(k, n + 2)'
    <3>1. Began(k) \/ (m.kind = "started" /\ m.child = k)
      BY <1>0, <2>1 DEF Began, Tells, Turns
    <3>2. CASE Began(k)
      BY <1>5, <1>n, <3>2 DEF ChildrenInv, TasksKnown
    <3>3. CASE m.kind = "started" /\ m.child = k
      <4>1. About(k, n + 1)' /\ out'[n + 1].kind = "started" /\ n + 1 \in 1..((n + 2) - 1)
        BY <1>1, <3>3 DEF About
      <4> QED
        BY <4>1 DEF KnownBefore
    <3> QED
      BY <3>1, <3>2, <3>3
  <2>2. ASSUME NEW i \in 1..(n + 1), out'[i].kind = "send", NEW c, c = out'[i].child PROVE KnownBefore(c, i)'
    <3>1. KnownBefore(c, i)
      <4>1. CASE i \in 1..n
        BY <1>1, <1>n, <2>2, <4>1 DEF ChildrenInv, TasksKnown
      <4>2. CASE i = n + 1
        <5>1. m.kind = "send" /\ c = m.child
          BY <1>1, <2>2, <4>2
        <5>2. m.child \in Children /\ Began(m.child)
          BY <5>1 DEF Tells, Turns, Began
        <5> QED
          BY <1>n, <4>2, <5>1, <5>2 DEF ChildrenInv, TasksKnown
      <4> QED
        BY <4>1, <4>2
    <3> QED
      BY <1>5, <3>1
  <2>3. Len(out') = n + 1 /\ (n + 1) + 1 = n + 2
    BY <1>1
  <2>4. ASSUME NEW k \in Children, KnownBefore(k, n + 2)' PROVE KnownBefore(k, Len(out) + 1)'
    BY <2>3, <2>4 DEF KnownBefore, About
  <2>5. ASSUME NEW i \in 1..(n + 1), NEW c, c = out'[i].child, KnownBefore(c, i)'
        PROVE  KnownBefore(out[i].child, i)'
    BY <2>5 DEF KnownBefore, About
  <2> QED
    BY <2>1, <2>2, <2>3, <2>4, <2>5 DEF TasksKnown
<1>7. ASSUME NEW c \in Children, NEW i \in 1..(n + 1), child[c] = "refused", ~BusyLater(c, i)
      PROVE  child'[c] = "refused" /\ ~BusyLater(c, i)'
  <2>1. child'[c] = "refused" /\ c \notin Busy
    BY <1>0, <1>7 DEF Tells, Turns, Busy
  <2>2. m.kind = "result" => c \notin m.busy
    BY <2>1 DEF Tells
  <2>3. ASSUME NEW j \in i..(n + 1), out'[j].kind = "result", c \in out'[j].busy PROVE FALSE
    <3>1. j # n + 1
      BY <1>1, <2>2, <2>3
    <3>2. j \in i..n /\ j \in 1..n
      BY <3>1
    <3> QED
      BY <1>1, <1>7, <1>n, <2>3, <3>2 DEF BusyLater
  <2> QED
    BY <1>1, <2>1, <2>3 DEF BusyLater
<1>8. RefusedOver'
  <2>1. ASSUME NEW i \in 1..(n + 1), out'[i].kind = "err"
        PROVE  (child[out[i].child] = "refused" /\ ~BusyLater(out[i].child, i + 1))'
    <3>1. CASE i \in 1..n
      <4>1. out'[i] = out[i] /\ i + 1 \in 1..(n + 1)
        BY <1>1, <3>1
      <4>2. child[out[i].child] = "refused" /\ ~BusyLater(out[i].child, i + 1)
        BY <1>n, <2>1, <3>1, <4>1 DEF ChildrenInv, RefusedOver
      <4>3. out[i].child \in Children
        BY <1>0, <1>n, <2>1, <3>1, <4>1 DEF NamesChild, Shuts
      <4>4. PICK c \in Children : c = out[i].child
        BY <4>3
      <4>5. child'[c] = "refused" /\ ~BusyLater(c, i + 1)'
        BY <1>7, <4>1, <4>2, <4>4
      <4> QED
        BY <4>1, <4>4, <4>5 DEF BusyLater
    <3>2. CASE i = n + 1
      <4>1. m.kind = "err" /\ out'[i] = m
        BY <1>1, <2>1, <3>2
      <4>2. child'[m.child] = "refused"
        BY <1>0, <4>1 DEF Tells, Turns
      <4>3. (i + 1)..(n + 1) = {}
        BY <3>2
      <4> QED
        BY <1>1, <4>1, <4>2, <4>3 DEF BusyLater
    <3>3. i \in 1..n \/ i = n + 1
      OBVIOUS
    <3> QED
      BY <3>1, <3>2, <3>3
  <2>2. ASSUME pc \in {"flush", "after"}, taken.kind = "err"
        PROVE  (child[taken.child] = "refused" /\ ~BusyLater(taken.child, 1))'
    <3>1. child[taken.child] = "refused" /\ ~BusyLater(taken.child, 1)
      BY <2>2 DEF ChildrenInv, RefusedOver
    <3>2. taken.child \in Children
      BY <2>2 DEF SesTypeOK, LoopType, NamesChild, Shuts
    <3>3. PICK c \in Children : c = taken.child
      BY <3>2
    <3>4. child'[c] = "refused" /\ ~BusyLater(c, 1)'
      BY <1>7, <3>1, <3>3
    <3> QED
      BY <1>u, <3>3, <3>4 DEF BusyLater
  <2> QED
    BY <1>1, <1>u, <2>1, <2>2 DEF RefusedOver
<1>9. HadKnown'
  <2> SUFFICES ASSUME ~had
               PROVE  /\ pending = {} /\ DOMAIN owner = {}
                      /\ \A i \in 1..(n + 1) : out'[i].kind \in {"send", "note"} => CallBefore(i)'
                      /\ \A k \in Children : child'[k] # "none" => CallBefore(n + 2)'
    <3>1. Len(out') = n + 1
      BY <1>1
    <3>2. ASSUME CallBefore(n + 2)' PROVE CallBefore(Len(out) + 1)'
      <4>1. Len(out') + 1 = n + 2
        BY <1>1
      <4> QED
        BY <3>2, <4>1 DEF CallBefore
    <3> QED
      BY <1>u, <3>1, <3>2 DEF HadKnown
  <2>1. /\ pending = {} /\ DOMAIN owner = {}
        /\ \A i \in 1..n : out[i].kind \in {"send", "note"} => CallBefore(i)
        /\ \A k \in Children : child[k] # "none" => CallBefore(n + 1)
    BY <1>n DEF ChildrenInv, HadKnown
  <2>2. ASSUME NEW i \in 1..(n + 1), CallBefore(i) PROVE CallBefore(i)' /\ CallBefore(n + 2)'
    <3>1. PICK j \in 1..(i - 1) : out[j].kind \in {"use", "started"}
      BY <2>2 DEF CallBefore
    <3>2. j \in 1..n /\ j \in 1..((n + 2) - 1)
      OBVIOUS
    <3>3. out'[j] = out[j]
      BY <1>1, <3>2
    <3> QED
      BY <3>1, <3>2, <3>3 DEF CallBefore
  <2>3. ASSUME NEW i \in 1..(n + 1), out'[i].kind \in {"send", "note"} PROVE CallBefore(i)'
    <3>1. CASE i \in 1..n
      <4>1. out'[i] = out[i]
        BY <1>1, <3>1
      <4> QED
        BY <2>1, <2>2, <2>3, <3>1, <4>1
    <3>2. CASE i = n + 1
      <4>1. m.kind \in {"send", "note"}
        BY <1>1, <2>3, <3>2
      <4>2. \E k \in Children : child[k] # "none"
        BY <4>1 DEF Tells, Turns
      <4> QED
        BY <2>1, <2>2, <3>2, <4>2
    <3> QED
      BY <3>1, <3>2
  <2>4. ASSUME NEW k \in Children, child'[k] # "none" PROVE CallBefore(n + 2)'
    <3>1. child[k] # "none" \/ m.kind = "use"
      BY <1>0, <2>4 DEF Tells, Turns
    <3>2. CASE child[k] # "none"
      BY <2>1, <2>2, <3>2
    <3>3. CASE m.kind = "use"
      <4>1. n + 1 \in 1..((n + 2) - 1) /\ out'[n + 1].kind = "use"
        BY <1>1, <3>3
      <4> QED
        BY <4>1 DEF CallBefore
    <3> QED
      BY <3>1, <3>2, <3>3
  <2> QED
    BY <2>1, <2>3, <2>4
<1>10. FinalAfterChildren'
  BY <1>u DEF ChildrenInv, FinalAfterChildren
<1> QED
  BY <1>3, <1>4, <1>6, <1>8, <1>9, <1>10 DEF ChildrenInv

(* An error took a refused child out of pending_async_subagent_tool_ids. *)
LEMMA ErrorChildren ==
    ASSUME SesTypeOK, ChildrenInv, Grows, UNCHANGED <<child, resumed, out, owner, had, final, taken>>,
           pc = "after", taken.kind = "err", pc' = "next", pending' = pending \ {taken.tool}
    PROVE  ChildrenInv'
<1>1. PICK c \in Children : c = taken.child /\ taken.tool \in ToolsOf(c)
  BY DEF SesTypeOK, LoopType, NamesChild, Shuts
<1>2. child[c] = "refused" /\ ~BusyLater(c, 1)
  BY <1>1 DEF ChildrenInv, RefusedOver
<1>3. ASSUME NEW k \in Children, k # c PROVE Held(k)' <=> Held(k)
  <2>1. ToolsOf(k) \cap ToolsOf(c) = {}
    BY <1>3, ToolFacts
  <2> QED
    BY <1>1, <2>1 DEF Held
<1>4. ASSUME NEW k \in Children, k # c, NEW i, Awaited(k, i) PROVE Awaited(k, i)'
  <2>1. Held(k)' <=> Held(k)
    BY <1>3, <1>4
  <2>2. \A j : About(k, j)' <=> About(k, j)
    BY DEF About
  <2>3. \A a, b : StopIn(k, a, b)' <=> StopIn(k, a, b)
    BY <2>2 DEF StopIn
  <2> QED
    BY <1>4, <2>1, <2>2, <2>3 DEF Awaited
<1>5. \A k, i : /\ BusyLater(k, i)' <=> BusyLater(k, i)
                /\ KnownBefore(k, i)' <=> KnownBefore(k, i)
  BY DEF About, BusyLater, KnownBefore
<1>6. \A i : CallBefore(i)' <=> CallBefore(i)
  BY DEF CallBefore
<1>7. Busy' = Busy /\ Busy \subseteq Children \ {c} /\ \A k : Began(k)' <=> Began(k)
  BY <1>2 DEF Busy, Began
<1>8. BusyAwaited'
  <2> SUFFICES ASSUME NEW k \in Busy PROVE Awaited(k, Len(out) + 1)'
    BY <1>7 DEF BusyAwaited
  <2>1. PICK i : i = Len(out) + 1
    OBVIOUS
  <2>2. Awaited(k, i)
    BY <2>1 DEF ChildrenInv, BusyAwaited
  <2>3. Awaited(k, i)'
    BY <1>4, <1>7, <2>2
  <2> QED
    BY <2>1, <2>3 DEF Awaited, StopIn, About, Held
<1>9. ResultsAwaited'
  <2> SUFFICES ASSUME NEW i \in 1..Len(out), out[i].kind = "result", NEW k \in out[i].busy
               PROVE  Awaited(k, i)'
    BY DEF ResultsAwaited
  <2>1. Awaited(k, i) /\ BusyLater(k, 1)
    <3>1. Len(out) \in Nat
      BY DEF SesTypeOK, CliType
    <3> QED
      BY <3>1 DEF ChildrenInv, ResultsAwaited, BusyLater
  <2>2. k \in Children
    <3>1. out[i] \in Message
      BY DEF SesTypeOK, CliType
    <3> QED
      BY <3>1 DEF Message
  <2>3. k # c
    BY <1>2, <2>1
  <2> QED
    BY <1>4, <2>1, <2>2, <2>3
<1>10. TasksKnown'
  BY <1>5, <1>7 DEF ChildrenInv, TasksKnown
<1>11. RefusedOver'
  BY <1>5 DEF ChildrenInv, RefusedOver
<1>12. HadKnown'
  BY <1>6 DEF ChildrenInv, HadKnown
<1>13. FinalAfterChildren'
  <2> SUFFICES ASSUME final # 0 PROVE conv'[final].busy = {}
    BY DEF FinalAfterChildren
  <2>1. final \in 1..Len(conv)
    BY DEF SesTypeOK, LoopType, FlushType
  <2> QED
    BY <2>1 DEF Grows, ChildrenInv, FinalAfterChildren
<1> QED
  BY <1>8, <1>9, <1>10, <1>11, <1>12, <1>13 DEF ChildrenInv

(* The main loop takes a message. *)
LEMMA TakeChildrenInv ==
    ASSUME SesTypeOK, ChildrenInv, TakeMessage
    PROVE  ChildrenInv'
<1>0. /\ out # <<>> /\ out' = Tail(out) /\ UNCHANGED <<child, resumed>> /\ pc' = "flush"
      /\ conv \in Seq(Message) /\ Len(conv) \in Nat /\ final \in 0..Len(conv)
  BY DEF TakeMessage, cliVars, SesTypeOK, FlushType, LoopType
<1>m. PICK m \in Message : m = Head(out)
  BY <1>0, HeadFacts
<1>n. PICK n \in Nat : n = Len(out)
  BY <1>0, HeadFacts
<1>1. /\ m = out[1] /\ n >= 1 /\ Len(out') = n - 1 /\ NamesChild(m)
      /\ \A i \in 1..(n - 1) : out'[i] = out[i + 1]
  BY <1>0, <1>m, <1>n, HeadFacts
<1>2. /\ taken' = m /\ pending' = PendingAfter(m) /\ owner' = OwnerAfter(m)
      /\ had' = (had \/ m.kind \in {"use", "started"})
      /\ final' = (IF m.kind = "result" /\ (had => pending = {}) THEN Len(conv) + 1 ELSE final)
      /\ conv' = Append(conv, m)
  BY <1>m DEF TakeMessage
<1>3. m.kind = "send" => m.child \in DOMAIN owner
  <2>1. 1 \in 1..n
    BY <1>1
  <2> QED
    BY <1>1, <1>n, <2>1 DEF ChildrenInv, TasksKnown, KnownBefore
<1>4. /\ \A k \in Children : Held(k) /\ ~(m.child = k /\ Shuts(m)) => Held(k)'
      /\ \A k \in Children : m.child = k /\ Opens(m) => Held(k)'
      /\ DOMAIN owner \subseteq DOMAIN owner'
      /\ m.kind = "started" => m.child \in DOMAIN owner'
      /\ m.kind \notin {"use", "started", "note"} /\ DOMAIN owner = {} => owner' = owner /\ pending' = pending
  BY <1>1, <1>2, <1>3, TakeChildren
<1>5. ASSUME NEW k \in Children, NEW i \in 1..n, Awaited(k, i + 1) PROVE Awaited(k, i)'
  <2>1. i + 1 \in 2..(Len(out) + 1) /\ (i + 1) - 1 = i
    BY <1>n
  <2>2. Awaited(k, (i + 1) - 1)'
    BY <1>0, <1>4, <1>5, <1>m, <2>1, TailAwaited
  <2> QED
    BY <2>1, <2>2
<1>6. Busy' = Busy /\ Busy \subseteq Children /\ \A k : Began(k)' <=> Began(k)
  BY <1>0 DEF Busy, Began
<1>7. BusyAwaited'
  <2> SUFFICES ASSUME NEW k \in Busy PROVE Awaited(k, Len(out) + 1)'
    BY <1>6 DEF BusyAwaited
  <2>1. Awaited(k, n + 1)
    BY <1>n DEF ChildrenInv, BusyAwaited
  <2>2. Awaited(k, n)'
    BY <1>1, <1>5, <1>6, <2>1
  <2>3. Len(out') + 1 = n
    BY <1>1
  <2> QED
    BY <2>2, <2>3 DEF Awaited, StopIn, About, Held
<1>8. ResultsAwaited'
  <2> SUFFICES ASSUME NEW i \in 1..(n - 1), out'[i].kind = "result", NEW k \in out'[i].busy
               PROVE  Awaited(k, i)'
    BY <1>1 DEF ResultsAwaited
  <2>1. out'[i] = out[i + 1] /\ i + 1 \in 1..n /\ i \in 1..n
    BY <1>1
  <2>2. out[i + 1] \in Message
    BY <1>n, <2>1 DEF SesTypeOK, CliType
  <2>3. k \in Children
    BY <2>1, <2>2 DEF Message
  <2>4. Awaited(k, i + 1)
    BY <1>n, <2>1 DEF ChildrenInv, ResultsAwaited
  <2> QED
    BY <1>5, <2>1, <2>3, <2>4
<1>9. ASSUME NEW k, NEW i \in 1..n, KnownBefore(k, i + 1) PROVE KnownBefore(k, i)'
  <2>1. CASE k \in DOMAIN owner
    BY <1>4, <2>1 DEF KnownBefore
  <2>2. ASSUME NEW j \in 1..i, About(k, j), out[j].kind = "started" PROVE KnownBefore(k, i)'
    <3>1. CASE j = 1
      BY <1>1, <1>4, <2>2, <3>1 DEF KnownBefore, About
    <3>2. CASE j # 1
      <4>0. j - 1 \in 1..(i - 1) /\ j = (j - 1) + 1 /\ j - 1 \in 1..(n - 1)
        BY <1>1, <2>2, <3>2
      <4>1. PICK h \in 1..(i - 1) : j = h + 1 /\ h \in 1..(n - 1)
        BY <4>0
      <4>2. About(k, h)' /\ out'[h].kind = "started"
        BY <1>1, <2>2, <4>1 DEF About
      <4> QED
        BY <4>1, <4>2 DEF KnownBefore
    <3> QED
      BY <3>1, <3>2
  <2>3. (i + 1) - 1 = i
    OBVIOUS
  <2> QED
    BY <1>9, <2>1, <2>2, <2>3 DEF KnownBefore
<1>10. TasksKnown'
  <2>1. ASSUME NEW k \in Children, Began(k)' PROVE KnownBefore(k, Len(out) + 1)'
    <3>1. KnownBefore(k, n + 1)
      BY <1>6, <1>n, <2>1 DEF ChildrenInv, TasksKnown
    <3>2. KnownBefore(k, n)'
      BY <1>1, <1>9, <3>1
    <3>3. Len(out') + 1 = n
      BY <1>1
    <3> QED
      BY <3>2, <3>3 DEF KnownBefore, About
  <2>2. ASSUME NEW i \in 1..(n - 1), out'[i].kind = "send" PROVE KnownBefore(out[i].child, i)'
    <3>1. out'[i] = out[i + 1] /\ i + 1 \in 1..n /\ i \in 1..n
      BY <1>1
    <3>2. PICK c : c = out[i + 1].child
      OBVIOUS
    <3>3. KnownBefore(c, i + 1)
      BY <1>n, <2>2, <3>1, <3>2 DEF ChildrenInv, TasksKnown
    <3>4. KnownBefore(c, i)'
      BY <1>9, <3>1, <3>3
    <3> QED
      BY <3>1, <3>2, <3>4 DEF KnownBefore, About
  <2> QED
    BY <1>1, <2>1, <2>2 DEF TasksKnown
<1>11. ASSUME NEW c, NEW i \in 1..n, ~BusyLater(c, i + 1) PROVE ~BusyLater(c, i)'
  <2>1. ASSUME NEW j \in i..(n - 1), out'[j].kind = "result", c \in out'[j].busy PROVE FALSE
    <3>1. out'[j] = out[j + 1] /\ j + 1 \in (i + 1)..n
      BY <1>1
    <3> QED
      BY <1>11, <1>n, <2>1, <3>1 DEF BusyLater
  <2> QED
    BY <1>1, <2>1 DEF BusyLater
<1>12. RefusedOver'
  <2>1. ASSUME NEW i \in 1..(n - 1), out'[i].kind = "err"
        PROVE  (child[out[i].child] = "refused" /\ ~BusyLater(out[i].child, i + 1))'
    <3>1. out'[i] = out[i + 1] /\ i + 1 \in 1..n
      BY <1>1
    <3>2. PICK c : c = out[i + 1].child
      OBVIOUS
    <3>3. child[c] = "refused" /\ ~BusyLater(c, (i + 1) + 1)
      BY <1>n, <2>1, <3>1, <3>2 DEF ChildrenInv, RefusedOver
    <3>4. ~BusyLater(c, i + 1)'
      BY <1>11, <3>1, <3>3
    <3> QED
      BY <1>0, <3>1, <3>2, <3>3, <3>4 DEF BusyLater
  <2>2. ASSUME m.kind = "err" PROVE (child[taken.child] = "refused" /\ ~BusyLater(taken.child, 1))'
    <3>1. 1 \in 1..n /\ 1 + 1 = 2
      BY <1>1
    <3>2. PICK c : c = m.child
      OBVIOUS
    <3>3. child[c] = "refused" /\ ~BusyLater(c, 1 + 1)
      BY <1>1, <1>n, <2>2, <3>1, <3>2 DEF ChildrenInv, RefusedOver
    <3>4. ~BusyLater(c, 1)'
      BY <1>11, <3>1, <3>3
    <3> QED
      BY <1>0, <1>2, <3>2, <3>3, <3>4 DEF BusyLater
  <2> QED
    BY <1>1, <1>2, <2>1, <2>2 DEF RefusedOver
<1>13. HadKnown'
  <2>0. CASE had'
    BY <2>0 DEF HadKnown
  <2>1. CASE ~had'
    <3>1. ~had /\ m.kind \notin {"use", "started"}
      BY <1>2, <2>1
    <3>2. /\ pending = {} /\ DOMAIN owner = {}
          /\ \A i \in 1..n : out[i].kind \in {"send", "note"} => CallBefore(i)
          /\ \A k \in Children : child[k] # "none" => CallBefore(n + 1)
      BY <1>n, <3>1 DEF ChildrenInv, HadKnown
    <3>3. m.kind \notin {"send", "note"}
      <4>1. 1 \in 1..n /\ ~CallBefore(1)
        BY <1>1 DEF CallBefore
      <4> QED
        BY <1>1, <3>2, <4>1
    <3>4. pending' = {} /\ DOMAIN owner' = {}
      BY <1>4, <3>1, <3>2, <3>3
    <3>5. ASSUME NEW i \in 1..n, CallBefore(i + 1) PROVE CallBefore(i)'
      <4>1. PICK j \in 1..i : out[j].kind \in {"use", "started"}
        <5>1. (i + 1) - 1 = i
          OBVIOUS
        <5> QED
          BY <3>5, <5>1 DEF CallBefore
      <4>2. j # 1
        BY <1>1, <3>1, <4>1
      <4>3. PICK h \in 1..(i - 1) : j = h + 1 /\ h \in 1..(n - 1)
        BY <4>2
      <4>4. out'[h].kind \in {"use", "started"}
        BY <1>1, <4>1, <4>3
      <4> QED
        BY <4>4 DEF CallBefore
    <3>6. ASSUME NEW i \in 1..(n - 1), out'[i].kind \in {"send", "note"} PROVE CallBefore(i)'
      <4>1. out'[i] = out[i + 1] /\ i + 1 \in 1..n /\ i \in 1..n
        BY <1>1
      <4> QED
        BY <3>2, <3>5, <3>6, <4>1
    <3>7. ASSUME NEW k \in Children, child'[k] # "none" PROVE CallBefore(Len(out) + 1)'
      <4>1. CallBefore(n)'
        BY <1>0, <1>1, <3>2, <3>5, <3>7
      <4>2. Len(out') + 1 = n
        BY <1>1
      <4> QED
        BY <4>1, <4>2 DEF CallBefore
    <3> QED
      BY <1>1, <3>4, <3>6, <3>7 DEF HadKnown
  <2> QED
    BY <2>0, <2>1
<1>14. FinalAfterChildren'
  <2>0. conv'[Len(conv) + 1] = m /\ \A i \in 1..Len(conv) : conv'[i] = conv[i]
    BY <1>0, <1>2
  <2>1. CASE m.kind = "result" /\ (had => pending = {})
    <3>1. final' = Len(conv) + 1
      BY <1>2, <2>1
    <3>2. pending = {}
      BY <2>1 DEF ChildrenInv, HadKnown
    <3>3. ASSUME NEW k \in m.busy PROVE FALSE
      <4>1. 1 \in 1..n
        BY <1>1
      <4>2. Awaited(k, 1)
        BY <1>1, <1>n, <2>1, <3>3, <4>1 DEF ChildrenInv, ResultsAwaited
      <4> QED
        BY <3>2, <4>2 DEF Awaited, Held
    <3>4. m.busy = {}
      BY <3>3
    <3> QED
      BY <2>0, <3>1, <3>4 DEF FinalAfterChildren
  <2>2. CASE ~(m.kind = "result" /\ (had => pending = {}))
    <3>1. final' = final
      BY <1>2, <2>2
    <3>2. final # 0 => conv'[final] = conv[final]
      BY <1>0, <2>0
    <3> QED
      BY <3>1, <3>2 DEF ChildrenInv, FinalAfterChildren
  <2> QED
    BY <2>1, <2>2
<1> QED
  BY <1>7, <1>8, <1>10, <1>12, <1>13, <1>14 DEF ChildrenInv

(* The runtime knows of every child that is busy, step by step. *)
LEMMA ChildrenStep ==
    ASSUME SesTypeOK, ChildrenInv, [SesNext]_sesVars
    PROVE  ChildrenInv'
<1>1. CASE TakeMessage
  BY <1>1, TakeChildrenInv
<1>2. CASE CliStep
  <2>0. UNCHANGED <<loopVars, conv>>
    BY <1>2, CliEffect
  <2>1. CASE UNCHANGED <<child, resumed, out>>
    <3>1. Grows
      BY <2>0, Growing
    <3> QED
      BY <2>0, <2>1, <3>1, StillChildren DEF loopVars
  <2>2. ASSUME NEW m \in Message, NamesChild(m), out' = Append(out, m), Tells(m) PROVE ChildrenInv'
    BY <2>0, <2>2, EmitChildren
  <2> QED
    BY <1>2, <2>1, <2>2, CliEffect
<1>3. CASE AgentResult
  <2>0. Grows
    BY <1>3, ConvStep DEF SesNext, LoopStep
  <2>1. CASE taken.kind = "err"
    <3>1. /\ UNCHANGED <<child, resumed, out, owner, had, final, taken>>
          /\ pc = "after" /\ pc' = "next" /\ pending' = pending \ {taken.tool}
      BY <1>3, <2>1 DEF AgentResult, Discard
    <3> QED
      BY <2>0, <2>1, <3>1, ErrorChildren
  <2>2. CASE taken.kind # "err"
    <3>1. /\ UNCHANGED <<child, resumed, out, pending, owner, had, final>>
          /\ (taken' = taken \/ taken' = NoMsg) /\ pc = "after"
      BY <1>3, <2>2 DEF AgentResult
    <3>2. taken' = taken \/ taken'.kind # "err"
      BY <3>1, UserEntry
    <3> QED
      BY <2>0, <3>1, <3>2, StillChildren
  <2> QED
    BY <2>1, <2>2
<1>4. CASE FlushStep \/ TimerFlush \/ HookWaits \/ HookAnswered \/ AfterFlush \/ QueryEnds \/ CancelTasks
           \/ Complete \/ Remind
  <2>0. Grows
    BY <1>4, ConvStep DEF SesNext, LoopStep
  <2>1. /\ UNCHANGED <<child, resumed, out, pending, owner, had, final, taken>>
        /\ pc' \in {"flush", "after"} => pc \in {"flush", "after"}
    BY <1>4 DEF FlushStep, FlushLock, FlushCut, FlushSent, TimerFlush, HookWaits, HookAnswered, AfterFlush,
                QueryEnds, CancelTasks, Complete, Remind, cliVars, loopVars
  <2> QED
    BY <2>0, <2>1, StillChildren
<1>5. CASE UNCHANGED sesVars
  <2>1. UNCHANGED <<child, resumed, out, pending, owner, had, final, taken, pc, conv>>
    BY <1>5 DEF sesVars, cliVars, loopVars
  <2>2. Grows
    BY <2>1, Growing
  <2> QED
    BY <2>1, <2>2, StillChildren
<1> QED
  BY <1>1, <1>2, <1>3, <1>4, <1>5 DEF SesNext, LoopStep

(* Closing the stream in time leaves the CLI nothing to do. *)
LEMMA ClosedStep ==
    ASSUME SesTypeOK, ChildrenInv, ClosedInv, [SesNext]_sesVars
    PROVE  ClosedInv'
<1>0. /\ Busy \subseteq Children /\ prompts \in Nat /\ Len(out) \in Nat /\ out \in Seq(Message)
      /\ Len(conv) \in Nat
  BY DEF Busy, SesTypeOK, CliType, FlushType
<1>1. CASE TakeMessage
  <2>m. PICK m \in Message : m = Head(out)
    BY <1>1, HeadFacts DEF TakeMessage
  <2>1. /\ out # <<>> /\ out' = Tail(out) /\ m.kind \notin {"done", "error"}
        /\ UNCHANGED <<child, turn, prompts>> /\ taken' = m /\ pc' = "flush"
        /\ closed' = (closed \/ Closes(m))
        /\ early' = (early \/ (Closes(m) /\ (prompts > 0 \/ turn \/ Len(out) > 1)))
    BY <1>1, <2>m DEF TakeMessage, cliVars
  <2>2. m = out[1] /\ Len(out) >= 1 /\ Len(out') = Len(out) - 1
    BY <2>1, <2>m, HeadFacts
  <2> SUFFICES ASSUME closed', ~early'
               PROVE  (/\ ~turn /\ prompts = 0 /\ Busy = {} /\ final # 0
                       /\ \A i \in 1..Len(out) : out[i].kind \in {"done", "error"}
                       /\ ~(pc \in {"flush", "after"} /\ taken.kind = "empty"))'
    BY <2>1 DEF ClosedInv
  <2>3. ~(closed /\ ~early)
    <3>1. 1 \in 1..Len(out)
      BY <1>0, <2>2
    <3> QED
      BY <2>1, <2>2, <3>1 DEF ClosedInv
  <2>4. Closes(m) /\ ~(prompts > 0) /\ ~turn /\ ~(Len(out) > 1)
    BY <2>1, <2>3
  <2>5. m.kind = "result" /\ ~had /\ pending = {}
    BY <2>4 DEF Closes
  <2>6. final' # 0
    BY <1>0, <1>1, <2>5, <2>m DEF TakeMessage
  <2>7. Len(out) = 1 /\ Len(out') = 0
    BY <1>0, <2>2, <2>4
  <2>8. ASSUME NEW k \in Busy PROVE FALSE
    <3>1. Awaited(k, 2)
      BY <2>7 DEF ChildrenInv, BusyAwaited
    <3>2. ~Held(k)
      BY <2>5 DEF Held
    <3>3. PICK j \in 1..(2 - 1) : Opens(out[j])
      BY <3>1, <3>2 DEF Awaited
    <3>4. out[j] = m
      BY <2>2, <3>3
    <3> QED
      BY <2>5, <3>3, <3>4 DEF Opens
  <2>9. Busy' = {}
    <3>1. Busy = {}
      BY <2>8
    <3> QED
      BY <2>1, <3>1 DEF Busy
  <2>10. prompts = 0
    BY <1>0, <2>4
  <2>11. \A i \in 1..Len(out') : out'[i].kind \in {"done", "error"}
    BY <2>7
  <2> QED
    BY <2>1, <2>4, <2>5, <2>6, <2>9, <2>10, <2>11
<1>2. CASE CliStep
  <2>0. UNCHANGED <<pc, taken, final, closed, early>>
    BY <1>2, CliEffect DEF loopVars
  <2> SUFFICES ASSUME closed, ~early
               PROVE  (/\ ~turn /\ prompts = 0 /\ Busy = {}
                       /\ \A i \in 1..Len(out) : out[i].kind \in {"done", "error"})'
    BY <2>0 DEF ClosedInv
  <2>1. ~turn /\ prompts = 0 /\ Busy = {} /\ \A i \in 1..Len(out) : out[i].kind \in {"done", "error"}
    BY DEF ClosedInv
  <2>2. PICK m \in Message : out' = Append(out, m) /\ prompts' = prompts /\ Tells(m)
    BY <1>2, <2>1, CliEffect
  <2>3. m.kind \in {"done", "error"} /\ UNCHANGED <<child, turn>>
    BY <2>1, <2>2 DEF Tells
  <2>4. Len(out') = Len(out) + 1 /\ out'[Len(out) + 1] = m /\ \A i \in 1..Len(out) : out'[i] = out[i]
    BY <1>0, <2>2
  <2>5. \A i \in 1..Len(out') : out'[i].kind \in {"done", "error"}
    BY <1>0, <2>1, <2>3, <2>4
  <2>6. Busy' = Busy
    BY <2>3 DEF Busy
  <2> QED
    BY <2>1, <2>2, <2>3, <2>5, <2>6
<1>3. CASE AgentResult
  <2>1. /\ UNCHANGED <<child, turn, out, closed, early, final>> /\ pc = "after"
        /\ \/ taken.kind = "err" /\ pc' = "next" /\ UNCHANGED <<prompts, taken>>
           \/ taken.kind # "err" /\ pc' \in {"next", "flush"}
    BY <1>3 DEF AgentResult
  <2>2. taken.kind = "empty" \/ (taken.kind = "err" /\ pc' = "next" /\ UNCHANGED <<prompts, taken>>)
    BY <2>1 DEF ClosedInv
  <2>3. Busy' = Busy
    BY <2>1 DEF Busy
  <2>4. CASE taken.kind = "empty"
    BY <2>1, <2>4 DEF ClosedInv
  <2>5. CASE taken.kind = "err" /\ pc' = "next" /\ UNCHANGED <<prompts, taken>>
    BY <2>1, <2>3, <2>5 DEF ClosedInv
  <2> QED
    BY <2>2, <2>4, <2>5
<1>4. CASE Remind
  BY <1>4 DEF Remind, RemindDue, ClosedInv
<1>5. CASE FlushStep \/ TimerFlush \/ HookWaits \/ HookAnswered \/ AfterFlush \/ QueryEnds \/ CancelTasks
           \/ Complete \/ UNCHANGED sesVars
  <2>1. /\ UNCHANGED <<child, turn, prompts, out, closed, early, final, taken>>
        /\ pc' \in {"flush", "after"} => pc \in {"flush", "after"}
        /\ pc' = "after" => pc = "after" \/ taken.kind \in {"err", "empty"}
    BY <1>5 DEF FlushStep, FlushLock, FlushCut, FlushSent, TimerFlush, HookWaits, HookAnswered, AfterFlush,
                QueryEnds, CancelTasks, Complete, cliVars, loopVars, sesVars
  <2>2. Busy' = Busy
    BY <2>1 DEF Busy
  <2> QED
    BY <2>1, <2>2 DEF ClosedInv
<1> QED
  BY <1>1, <1>2, <1>3, <1>4, <1>5 DEF SesNext, LoopStep

-----------------------------------------------------------------------------
(* The whole inductive invariant of a session. *)
SesInv == SesTypeOK /\ HolderInv /\ SentInv /\ ChildrenInv /\ ClosedInv

(* A session starts with nothing said and nothing reported. *)
LEMMA InitSession ==
    ASSUME SesInit
    PROVE  SesInv
<1>1. CliType
  BY DEF SesInit, CliType
<1>2. LoopType
  <2>1. taken \in Message /\ NamesChild(taken)
    BY UserEntry DEF SesInit
  <2>2. DOMAIN owner = {}
    BY DEF SesInit
  <2>3. final \in 0..Len(conv)
    BY DEF SesInit
  <2> QED
    BY <2>1, <2>2, <2>3 DEF LoopType
<1>3. FlushType /\ \A f \in Flushers : flusher[f].at = "idle"
  BY WantFacts DEF SesInit, FlushType
<1>4. HolderInv
  BY <1>3 DEF HolderInv, FlushDone, Flushers
<1>5. SentInv
  BY DEF SesInit, SentInv, BatchesInOrder
<1>6. Busy = {} /\ out = <<>> /\ Len(out) = 0 /\ pending = {} /\ DOMAIN owner = {} /\ final = 0
  BY DEF SesInit, Busy
<1>7. BusyAwaited /\ ResultsAwaited /\ FinalAfterChildren
  BY <1>6 DEF BusyAwaited, ResultsAwaited, FinalAfterChildren
<1>8. TasksKnown /\ RefusedOver /\ HadKnown
  <2>1. \A k \in Children : ~Began(k) /\ child[k] = "none"
    BY DEF SesInit, Began
  <2>2. pc = "next"
    BY DEF SesInit
  <2> QED
    BY <1>6, <2>1, <2>2 DEF TasksKnown, RefusedOver, HadKnown
<1>9. ClosedInv
  BY DEF SesInit, ClosedInv
<1> QED
  BY <1>1, <1>2, <1>3, <1>4, <1>5, <1>7, <1>8, <1>9 DEF SesInv, SesTypeOK, ChildrenInv

(* The invariant of a session, whatever the order of its messages. *)
LEMMA SessionStep ==
    ASSUME SesInv, [SesNext]_sesVars
    PROVE  SesInv'
<1>1. SesTypeOK /\ HolderInv /\ SentInv /\ ChildrenInv /\ ClosedInv /\ TasksKnown
  BY DEF SesInv, ChildrenInv
<1>2. FlushType' /\ HolderInv' /\ SentInv'
  BY <1>1, FlushInvStep
<1>3. CliType' /\ LoopType'
  BY <1>1, CliTypeStep, LoopTypeStep
<1>4. ChildrenInv' /\ ClosedInv'
  BY <1>1, ChildrenStep, ClosedStep
<1> QED
  BY <1>2, <1>3, <1>4 DEF SesInv, SesTypeOK

(* It holds throughout every session. *)
LEMMA SessionInvariant == SesSpec => []SesInv
  BY InitSession, SessionStep, PTL DEF SesSpec

(* The result a session completes with was emitted when no subagent ran    *)
(* any more (coordinator_result_after_subagents,                           *)
(* pending_async_subagent_tool_ids), for any number of subagents, resumed  *)
(* or refused, and any order of their lifecycle messages.                  *)
THEOREM FinalIsAfterChildren == SesSpec => []FinalAfterChildren
<1>1. SesInv => FinalAfterChildren
  BY DEF SesInv, ChildrenInv
<1> QED
  BY <1>1, SessionInvariant, PTL

(* close_prompt_stream_when_idle never closes stdin under a subagent,      *)
(* unless a prompt was unread or a turn under way at that moment.          *)
THEOREM StdinStaysOpen == SesSpec => []StdinOpen
<1>1. SesInv => StdinOpen
  BY DEF SesInv, ClosedInv, StdinOpen
<1> QED
  BY <1>1, SessionInvariant, PTL

(* The main loop, the timer, the hooks and the reminder report slices of   *)
(* the transcript that follow each other (flush_lock, flushed_messages).   *)
THEOREM SlicesFollow == SesSpec => []BatchesInOrder
<1>1. SesInv => BatchesInOrder
  BY DEF SesInv, SentInv, BatchesInOrder
<1> QED
  BY <1>1, SessionInvariant, PTL

-----------------------------------------------------------------------------
(* The trace of a session: build_trace_tree message by message. *)

(* g is the recursive function behind build_trace_tree(s), on the          *)
(* positions S.                                                            *)
Traces(g, s, S) ==
    g = [d \in SUBSET S |-> IF d = {} THEN EmptyTree ELSE TraceStep(g[d \ {Max(d)}], s[Max(d)])]

(* The trace of the messages at some positions. *)
TraceOf(s, S) == (CHOOSE g : Traces(g, s, S))[S]

(* The library's fold is the value of that function. *)
LEMMA TraceChosen ==
    ASSUME NEW s
    PROVE  build_trace_tree(s) = TraceOf(s, DOMAIN s)
  BY Zenon DEF build_trace_tree, FoldLeft, MapThenFoldSet, Traces, TraceOf

(* The latest of some positions is one of them. *)
LEMMA LatestPosition ==
    ASSUME NEW n \in Nat, NEW d \in SUBSET (1..n), d # {}
    PROVE  Max(d) \in d
<1>1. d \in SUBSET Nat /\ \A x \in d : x <= n
  OBVIOUS
<1> QED
  BY <1>1, Greatest

(* The equation has one solution, the traces. *)
LEMMA TracesSolved ==
    ASSUME NEW s, NEW n \in Nat
    PROVE  \A T \in SUBSET (1..n) : \A g : Traces(g, s, T) <=> g = [d \in SUBSET T |-> TraceOf(s, d)]
<1> DEFINE F(d) == TraceOf(s, d)
           Solved(T) == \A g : Traces(g, s, T) <=> g = [d \in SUBSET T |-> F(d)]
           S == 1..n
           P == {T \in SUBSET S : Solved(T)}
<1>0. IsFiniteSet(S) /\ \A d \in SUBSET S : d # {} => Max(d) \in d
  <2>1. IsFiniteSet(1..n)
    BY FS_Interval
  <2>2. \A d \in SUBSET (1..n) : d # {} => Max(d) \in d
    BY LatestPosition
  <2> QED
    BY <2>1, <2>2
<1> HIDE DEF S
<1>1. ASSUME NEW T \in SUBSET S, \A U \in SUBSET T : U # T => U \in P
      PROVE  T \in P
  <2> DEFINE Total(d) == IF d = {} THEN EmptyTree ELSE TraceStep(F(d \ {Max(d)}), s[Max(d)])
             H == [d \in SUBSET T |-> Total(d)]
  <2>0. ASSUME NEW d \in SUBSET T, d # {}
        PROVE  d \ {Max(d)} \in SUBSET T /\ d \ {Max(d)} # T
    BY <1>0, <2>0
  <2>1. ASSUME NEW U \in SUBSET T, U # T PROVE F(U) = Total(U)
    <3>1. Traces([d \in SUBSET U |-> F(d)], s, U)
      BY <1>1, <2>1
    <3>2. ASSUME U # {} PROVE U \ {Max(U)} \in SUBSET U
      OBVIOUS
    <3> HIDE DEF F
    <3> QED
      BY <3>1, <3>2 DEF Traces
  <2> HIDE DEF F
  <2>2. ASSUME NEW g, Traces(g, s, T), NEW U \in SUBSET T, U # T PROVE g[U] = F(U)
    <3>1. Traces([d \in SUBSET U |-> g[d]], s, U)
      BY <2>2 DEF Traces
    <3>2. [d \in SUBSET U |-> g[d]] = [d \in SUBSET U |-> F(d)]
      BY <1>1, <2>2, <3>1
    <3> QED
      BY <3>2
  <2>3. Traces(H, s, T)
    <3>1. ASSUME NEW d \in SUBSET T, d # {} PROVE F(d \ {Max(d)}) = H[d \ {Max(d)}]
      BY <2>0, <2>1, <3>1
    <3> QED
      BY <3>1 DEF Traces
  <2>4. ASSUME NEW g, Traces(g, s, T) PROVE g = H
    <3>1. ASSUME NEW d \in SUBSET T, d # {} PROVE g[d \ {Max(d)}] = F(d \ {Max(d)})
      BY <2>0, <2>2, <2>4, <3>1
    <3> QED
      BY <2>4, <3>1 DEF Traces
  <2>5. F(T) = H[T]
    <3>1. (CHOOSE g : Traces(g, s, T)) = H
      BY <2>3, <2>4
    <3> QED
      BY <3>1 DEF F, TraceOf
  <2>6. H = [d \in SUBSET T |-> F(d)]
    BY <2>1, <2>5
  <2> QED
    BY <2>3, <2>4, <2>6
<1> HIDE DEF P
<1>2. \A T \in SUBSET S : T \in P
  BY <1>0, <1>1, SubsetInduction
<1> QED
  BY <1>2 DEF P, S

(* A trace is empty, or the latest message added to the trace of the rest. *)
LEMMA TraceUnfold ==
    ASSUME NEW s, NEW n \in Nat, NEW T \in SUBSET (1..n)
    PROVE  TraceOf(s, T) = IF T = {} THEN EmptyTree
                           ELSE TraceStep(TraceOf(s, T \ {Max(T)}), s[Max(T)])
<1> DEFINE F(d) == TraceOf(s, d)
<1>1. Traces([d \in SUBSET T |-> F(d)], s, T)
  BY TracesSolved
<1>2. T \ {Max(T)} \in SUBSET T /\ T \in SUBSET T
  OBVIOUS
<1> HIDE DEF F
<1>3. F(T) = IF T = {} THEN EmptyTree ELSE TraceStep(F(T \ {Max(T)}), s[Max(T)])
  BY <1>1, <1>2 DEF Traces
<1> QED
  BY <1>3 DEF F

(* A trace depends on the messages it is of only. *)
LEMMA TraceSame ==
    ASSUME NEW s, NEW t, NEW n \in Nat, \A i \in 1..n : s[i] = t[i]
    PROVE  \A T \in SUBSET (1..n) : TraceOf(s, T) = TraceOf(t, T)
<1> DEFINE S == 1..n
           P == {T \in SUBSET S : TraceOf(s, T) = TraceOf(t, T)}
<1>1. ASSUME NEW T \in SUBSET S, \A U \in SUBSET T : U # T => U \in P
      PROVE  T \in P
  <2>1. CASE T = {}
    <3>1. TraceOf(s, T) = EmptyTree /\ TraceOf(t, T) = EmptyTree
      BY <2>1, TraceUnfold
    <3> QED
      BY <3>1
  <2>2. CASE T # {}
    <3>1. Max(T) \in T
      BY <2>2, LatestPosition
    <3>2. /\ TraceOf(s, T) = TraceStep(TraceOf(s, T \ {Max(T)}), s[Max(T)])
          /\ TraceOf(t, T) = TraceStep(TraceOf(t, T \ {Max(T)}), t[Max(T)])
      BY <2>2, TraceUnfold
    <3>3. T \ {Max(T)} \in P
      BY <1>1, <3>1
    <3>4. TraceOf(s, T \ {Max(T)}) = TraceOf(t, T \ {Max(T)}) /\ s[Max(T)] = t[Max(T)]
      BY <3>1, <3>3
    <3> QED
      BY <3>2, <3>4
  <2> QED
    BY <2>1, <2>2
<1>2. IsFiniteSet(S)
  BY FS_Interval
<1> HIDE DEF P, S
<1>3. \A T \in SUBSET S : T \in P
  BY <1>1, <1>2, SubsetInduction
<1> QED
  BY <1>3 DEF P, S

(* No messages have the empty trace. *)
LEMMA TraceEmpty == build_trace_tree(<<>>) = EmptyTree
<1>1. DOMAIN <<>> = {} /\ {} \in SUBSET (1..0) /\ 0 \in Nat
  OBVIOUS
<1>2. TraceOf(<<>>, {}) = EmptyTree
  BY <1>1, TraceUnfold
<1> QED
  BY <1>1, <1>2, TraceChosen

(* A message that arrives last is added to the trace of the others. *)
LEMMA TraceAppend ==
    ASSUME NEW M, NEW s \in Seq(M), NEW m \in M
    PROVE  build_trace_tree(Append(s, m)) = TraceStep(build_trace_tree(s), m)
<1> DEFINE n == Len(s) + 1
           t == Append(s, m)
           T == 1..n
<1>1. n \in Nat /\ Len(s) \in Nat /\ DOMAIN s = 1..Len(s) /\ DOMAIN t = 1..n /\ t[n] = m
      /\ \A i \in 1..Len(s) : s[i] = t[i]
  OBVIOUS
<1>2. T \in SUBSET (1..n) /\ T # {} /\ T \in SUBSET Nat /\ n \in T /\ \A x \in T : x <= n
  BY <1>1
<1>3. Max(T) \in T /\ \A x \in T : x <= Max(T)
  BY <1>1, <1>2, Greatest
<1>4. Max(T) = n
  BY <1>1, <1>2, <1>3
<1>5. T \ {n} = 1..Len(s)
  BY <1>1
<1> HIDE DEF t
<1>6. TraceOf(t, T) = TraceStep(TraceOf(t, T \ {Max(T)}), t[Max(T)])
  BY <1>1, <1>2, TraceUnfold
<1>7. TraceOf(t, T \ {n}) = TraceOf(s, 1..Len(s))
  <2>1. \A U \in SUBSET (1..Len(s)) : TraceOf(s, U) = TraceOf(t, U)
    BY <1>1, TraceSame
  <2> QED
    BY <1>5, <2>1
<1>8. TraceOf(t, T) = TraceStep(TraceOf(s, 1..Len(s)), m)
  BY <1>1, <1>4, <1>6, <1>7
<1> QED
  BY <1>1, <1>8, TraceChosen DEF t

(* The branch a notification is put in. *)
NotedAt(t, m) == Lookup(t.byTask, m.child, IF m.tool \in t.branches THEN m.tool ELSE Root)

(* What a message does to the trace, part by part. *)
Adds(t, m, u) ==
    /\ TreeShape(u) /\ u.n = t.n + 1 /\ u.final = t.final
    /\ u.branches = IF m.kind = "use" THEN t.branches \cup {m.tool} ELSE t.branches
    /\ u.results = IF m.kind = "result" THEN Append(t.results, t.n + 1) ELSE t.results
    /\ u.finding = IF m.kind = "note" /\ NotedAt(t, m) # Root
                   THEN Extend(t.finding, NotedAt(t, m), t.n + 1) ELSE t.finding
    /\ u.byTask = IF m.kind = "note" /\ NotedAt(t, m) # Root
                  THEN Extend(t.byTask, m.child, NotedAt(t, m))
                  ELSE IF m.kind = "started" /\ m.tool \in t.branches
                  THEN Extend(t.byTask, m.child, m.tool) ELSE t.byTask
    /\ u.parent = t.parent \/ \E at : u.parent = Extend(t.parent, t.n + 1, at)
    /\ m.kind = "said" => u.parent = Extend(t.parent, t.n + 1, resolve_msg_parent(t, m))

(* The step of the fold does that, whatever the message. *)
LEMMA TraceStepIs ==
    ASSUME NEW t, TreeShape(t), NEW m, NEW u, u = TraceStep(t, m), m.kind \in Kinds
    PROVE  Adds(t, m, u)
<1> DEFINE at == resolve_msg_parent(t, m)
<1>1. CASE m.kind = "use"
  <2>1. u = [[t EXCEPT !.branches = @ \cup {m.tool}, !.active = m.tool,
                       !.parent = Extend(@, t.n + 1, at)] EXCEPT !.n = @ + 1]
    BY <1>1 DEF TraceStep, TraceAssistant
  <2> HIDE DEF at
  <2> QED
    BY <1>1, <2>1 DEF TreeShape, Adds
<1>2. CASE m.kind \in {"send", "said", "user"}
  <2>1. u = [[t EXCEPT !.parent = Extend(@, t.n + 1, at)] EXCEPT !.n = @ + 1]
    BY <1>2 DEF TraceStep, TraceAssistant
  <2>2. /\ TreeShape(u) /\ u.n = t.n + 1 /\ u.final = t.final /\ u.branches = t.branches
        /\ u.results = t.results /\ u.finding = t.finding /\ u.byTask = t.byTask
        /\ u.parent = Extend(t.parent, t.n + 1, at)
    <3> HIDE DEF at
    <3> QED
      BY <2>1 DEF TreeShape
  <2> QED
    BY <1>2, <2>2 DEF Adds
<1>3. CASE m.kind = "started"
  <2>1. CASE m.tool \in t.branches
    <3>1. u = [[t EXCEPT !.byTask = Extend(@, m.child, m.tool), !.active = m.tool] EXCEPT !.n = @ + 1]
      BY <1>3, <2>1 DEF TraceStep, TraceStarted
    <3> QED
      BY <1>3, <2>1, <3>1 DEF TreeShape, Adds
  <2>2. CASE m.tool \notin t.branches
    <3>1. u = [t EXCEPT !.n = @ + 1]
      BY <1>3, <2>2 DEF TraceStep, TraceStarted
    <3> QED
      BY <1>3, <2>2, <3>1 DEF TreeShape, Adds
  <2> QED
    BY <2>1, <2>2
<1>4. CASE m.kind = "note"
  <2> DEFINE b == NotedAt(t, m)
  <2>1. CASE b # Root
    <3>1. u = [[t EXCEPT !.byTask = Extend(@, m.child, b), !.finding = Extend(@, b, t.n + 1)] EXCEPT !.n = @ + 1]
      BY <1>4, <2>1 DEF TraceStep, TraceNotification, NotedAt
    <3> HIDE DEF b
    <3>2. /\ TreeShape(u) /\ u.n = t.n + 1 /\ u.final = t.final /\ u.branches = t.branches
          /\ u.results = t.results /\ u.finding = Extend(t.finding, b, t.n + 1)
          /\ u.byTask = Extend(t.byTask, m.child, b) /\ u.parent = t.parent
      BY <3>1 DEF TreeShape
    <3> QED
      BY <1>4, <2>1, <3>2 DEF b, Adds
  <2>2. CASE b = Root
    <3>1. u = [t EXCEPT !.n = @ + 1]
      BY <1>4, <2>2 DEF TraceStep, TraceNotification, NotedAt
    <3> QED
      BY <1>4, <2>2, <3>1 DEF TreeShape, Adds
  <2> QED
    BY <2>1, <2>2
<1>5. CASE m.kind \in {"err", "empty"}
  <2>1. \/ u = [t EXCEPT !.n = @ + 1]
        \/ \E x \in {Root, m.tool} : u = [[t EXCEPT !.parent = Extend(@, t.n + 1, x)] EXCEPT !.n = @ + 1]
    BY <1>5 DEF TraceStep, TraceToolResult
  <2>2. CASE u = [t EXCEPT !.n = @ + 1]
    BY <1>5, <2>2 DEF TreeShape, Adds
  <2>3. ASSUME NEW x, u = [[t EXCEPT !.parent = Extend(@, t.n + 1, x)] EXCEPT !.n = @ + 1]
        PROVE  /\ TreeShape(u) /\ u.n = t.n + 1 /\ u.final = t.final /\ u.branches = t.branches
               /\ u.results = t.results /\ u.finding = t.finding /\ u.byTask = t.byTask
               /\ u.parent = Extend(t.parent, t.n + 1, x)
    BY <2>3 DEF TreeShape
  <2> QED
    BY <1>5, <2>1, <2>2, <2>3 DEF Adds
<1>6. CASE m.kind = "result"
  <2>1. u = [[t EXCEPT !.results = Append(@, t.n + 1), !.parent = Extend(@, t.n + 1, Root)] EXCEPT !.n = @ + 1]
    BY <1>6 DEF TraceStep, TraceResult
  <2> QED
    BY <1>6, <2>1 DEF TreeShape, Adds
<1>7. CASE m.kind \in {"none", "updated", "done", "error"}
  <2>1. u = [t EXCEPT !.n = @ + 1]
    BY <1>7 DEF TraceStep
  <2> QED
    BY <1>7, <2>1 DEF TreeShape, Adds
<1> QED
  BY <1>1, <1>2, <1>3, <1>4, <1>5, <1>6, <1>7 DEF Kinds

(* What session_complete does to it. *)
LEMMA TraceEnds ==
    ASSUME NEW t, TreeShape(t), NEW m, NEW u, u = TraceStep(t, m), m.kind \in {"blank", "complete"}
    PROVE  /\ u.finding = t.finding /\ u.parent = t.parent
           /\ u.final = IF m.kind = "blank" THEN t.final
                        ELSE IF t.results = <<>> THEN t.n + 1 ELSE Last(t.results)
<1>1. CASE m.kind = "blank"
  <2>1. u = [t EXCEPT !.n = @ + 1]
    BY <1>1 DEF TraceStep
  <2> QED
    BY <1>1, <2>1 DEF TreeShape
<1>2. CASE m.kind = "complete"
  <2> DEFINE x == IF t.results = <<>> THEN t.n + 1 ELSE Last(t.results)
  <2>1. u = [[t EXCEPT !.final = x] EXCEPT !.n = @ + 1]
    BY <1>2 DEF TraceStep, TraceComplete
  <2> HIDE DEF x
  <2>2. u.finding = t.finding /\ u.parent = t.parent /\ u.final = x
    BY <2>1 DEF TreeShape
  <2> QED
    BY <1>2, <2>2 DEF x
<1> QED
  BY <1>1, <1>2

(* The spawning calls of two children differ, and none is the root. *)
LEMMA SpawnFacts ==
    /\ \A k, l : Spawn(k) = Spawn(l) => k = l
    /\ \A k : Spawn(k) # Root /\ Spawn(k) # Resume(k)
<1>1. \A k, l : Spawn(k) = Spawn(l) => k = l
  BY DEF Spawn
<1>2. \A k : Spawn(k) # Root
  BY DEF Spawn, Root
<1>3. \A k : Spawn(k) # Resume(k)
  BY DEF Spawn, Resume
<1> QED
  BY <1>1, <1>2, <1>3

(* The transcript gets the message m, which the CLI or the runtime may say *)
(* now.                                                                    *)
Gets(m) ==
    /\ conv' = Append(conv, m) /\ NamesChild(m)
    /\ m.kind = "use" => m.tool = Spawn(m.child)
    /\ m.kind = "said" /\ m.parent # Root => m.parent \in Tree.branches

(* Its effect on the trace. *)
LEMMA TreeGets ==
    ASSUME SesTypeOK, BranchInv, NEW m \in Message, Gets(m), NEW t, t = Tree, NEW u, u = Tree'
    PROVE  Adds(t, m, u) /\ t.n = Len(conv)
           /\ conv \in Seq(Message) /\ Len(conv) \in Nat /\ Len(conv') = Len(conv) + 1
           /\ conv'[Len(conv) + 1] = m /\ \A i \in 1..Len(conv) : conv'[i] = conv[i]
<1>1. conv \in Seq(Message) /\ Len(conv) \in Nat
  BY DEF SesTypeOK, FlushType
<1>2. conv' = Append(conv, m)
  BY DEF Gets
<1>3. u = TraceStep(t, m)
  BY <1>1, <1>2, TraceAppend DEF Tree
<1>4. m.kind \in Kinds
  BY DEF Message
<1>5. Len(conv') = Len(conv) + 1 /\ conv'[Len(conv) + 1] = m /\ \A i \in 1..Len(conv) : conv'[i] = conv[i]
  BY <1>1, <1>2
<1>6. TreeShape(t) /\ t.n = Len(conv)
  BY DEF BranchInv
<1>7. Adds(t, m, u)
  BY <1>3, <1>4, <1>6, TraceStepIs
<1> QED
  BY <1>1, <1>5, <1>6, <1>7

(* The branches are those of the spawning calls. *)
LEMMA BranchGets ==
    ASSUME SesTypeOK, BranchInv, NEW m \in Message, Gets(m)
    PROVE  /\ BranchInv' /\ Tree.branches \subseteq Tree'.branches
           /\ m.kind = "use" => Spawn(m.child) \in Tree'.branches
<1>1. PICK t, u : t = Tree /\ u = Tree'
  OBVIOUS
<1>2. /\ Adds(t, m, u) /\ t.n = Len(conv)
      /\ Len(conv') = Len(conv) + 1
  BY <1>1, TreeGets
<1>3. /\ TreeShape(u) /\ u.n = t.n + 1
      /\ u.branches = IF m.kind = "use" THEN t.branches \cup {m.tool} ELSE t.branches
      /\ u.byTask = IF m.kind = "note" /\ NotedAt(t, m) # Root
                    THEN Extend(t.byTask, m.child, NotedAt(t, m))
                    ELSE IF m.kind = "started" /\ m.tool \in t.branches
                    THEN Extend(t.byTask, m.child, m.tool) ELSE t.byTask
  BY <1>2 DEF Adds
<1>4. /\ t.branches \subseteq {Spawn(k) : k \in Children}
      /\ \A k \in DOMAIN t.byTask : k \in Children /\ t.byTask[k] = Spawn(k)
  BY <1>1 DEF BranchInv
<1>5. m.kind \in {"use", "started", "note"} => m.child \in Children
  BY DEF Gets, NamesChild, Opens, Shuts
<1>6. u.branches \subseteq {Spawn(k) : k \in Children}
  BY <1>3, <1>4, <1>5 DEF Gets
<1>7. ASSUME m.kind \in {"started", "note"}, m.tool \in t.branches PROVE m.tool = Spawn(m.child)
  <2>1. PICK k \in Children : m.tool = Spawn(k)
    BY <1>4, <1>7
  <2>2. m.child \in Children /\ m.tool \in ToolsOf(m.child)
    BY <1>7, <2>1, SpawnFacts DEF Gets, NamesChild, Opens, Shuts
  <2>3. Spawn(k) \in ToolsOf(k) /\ (k # m.child => ToolsOf(k) \cap ToolsOf(m.child) = {})
    BY <2>1, <2>2, ToolFacts
  <2> QED
    BY <2>1, <2>2, <2>3
<1>8. ASSUME m.kind = "note", NotedAt(t, m) # Root PROVE NotedAt(t, m) = Spawn(m.child)
  BY <1>4, <1>7, <1>8 DEF NotedAt, Lookup
<1>9. u.byTask = t.byTask \/ (u.byTask = Extend(t.byTask, m.child, Spawn(m.child)) /\ m.child \in Children)
  BY <1>3, <1>5, <1>7, <1>8
<1>10. \A k \in DOMAIN u.byTask : k \in Children /\ u.byTask[k] = Spawn(k)
  <2>1. CASE u.byTask = t.byTask
    BY <1>4, <2>1
  <2>2. CASE u.byTask = Extend(t.byTask, m.child, Spawn(m.child)) /\ m.child \in Children
    BY <1>4, <2>2 DEF Extend
  <2> QED
    BY <1>9, <2>1, <2>2
<1>11. BranchInv'
  BY <1>1, <1>2, <1>3, <1>6, <1>10 DEF BranchInv
<1> QED
  BY <1>1, <1>3, <1>11 DEF Gets

(* Each message of a subagent is in the branch of its call. *)
LEMMA ParentGets ==
    ASSUME SesTypeOK, BranchInv, ParentInv, NEW m \in Message, Gets(m)
    PROVE  ParentInv'
<1>1. PICK t, u : t = Tree /\ u = Tree'
  OBVIOUS
<1>2. /\ Adds(t, m, u) /\ t.n = Len(conv)
      /\ Len(conv) \in Nat /\ Len(conv') = Len(conv) + 1
      /\ conv'[Len(conv) + 1] = m /\ \A i \in 1..Len(conv) : conv'[i] = conv[i]
  BY <1>1, TreeGets
<1>3. /\ u.parent = t.parent \/ \E at : u.parent = Extend(t.parent, t.n + 1, at)
      /\ m.kind = "said" => u.parent = Extend(t.parent, t.n + 1, resolve_msg_parent(t, m))
  BY <1>2 DEF Adds
<1>4. m.kind = "said" => resolve_msg_parent(t, m) = m.parent
  BY <1>1 DEF Gets, resolve_msg_parent
<1>5. ASSUME NEW i \in 1..Len(conv'), conv'[i].kind = "said"
      PROVE  i \in DOMAIN u.parent /\ u.parent[i] = conv'[i].parent
  <2>1. CASE i = Len(conv) + 1
    <3>1. m.kind = "said" /\ u.parent = Extend(t.parent, i, m.parent)
      BY <1>2, <1>3, <1>4, <1>5, <2>1
    <3> QED
      BY <1>2, <2>1, <3>1 DEF Extend
  <2>2. CASE i \in 1..Len(conv)
    <3>1. i \in DOMAIN t.parent /\ t.parent[i] = conv'[i].parent
      BY <1>1, <1>2, <1>5, <2>2 DEF ParentInv
    <3>2. i # t.n + 1
      BY <1>2, <2>2
    <3> QED
      BY <1>3, <3>1, <3>2 DEF Extend
  <2> QED
    BY <1>2, <2>1, <2>2
<1> QED
  BY <1>1, <1>5 DEF ParentInv

(* The finding of a branch is its last notification. *)
LEMMA FindingGets ==
    ASSUME SesTypeOK, BranchInv, FindingInv, NEW m \in Message, Gets(m)
    PROVE  FindingInv'
<1>1. PICK t, u : t = Tree /\ u = Tree'
  OBVIOUS
<1>2. /\ Adds(t, m, u) /\ t.n = Len(conv)
      /\ Len(conv) \in Nat /\ Len(conv') = Len(conv) + 1
      /\ conv'[Len(conv) + 1] = m /\ \A i \in 1..Len(conv) : conv'[i] = conv[i]
  BY <1>1, TreeGets
<1>3. /\ u.finding = IF m.kind = "note" /\ NotedAt(t, m) # Root
                     THEN Extend(t.finding, NotedAt(t, m), t.n + 1) ELSE t.finding
      /\ u.byTask = IF m.kind = "note" /\ NotedAt(t, m) # Root
                    THEN Extend(t.byTask, m.child, NotedAt(t, m))
                    ELSE IF m.kind = "started" /\ m.tool \in t.branches
                    THEN Extend(t.byTask, m.child, m.tool) ELSE t.byTask
  BY <1>2 DEF Adds
<1>4. \A k \in DOMAIN t.byTask : t.byTask[k] = Spawn(k) /\ Spawn(k) # Root
  BY <1>1, SpawnFacts DEF BranchInv
<1>5. DOMAIN t.byTask \subseteq DOMAIN u.byTask
  BY <1>3 DEF Extend
<1>6. ASSUME m.kind = "note" PROVE NotedAt(t, m) = Root \/ NotedAt(t, m) = Spawn(m.child)
  <2>1. ASSUME m.tool \in t.branches PROVE m.tool = Spawn(m.child)
    <3>1. PICK k \in Children : m.tool = Spawn(k)
      BY <1>1, <2>1 DEF BranchInv
    <3>2. m.child \in Children /\ m.tool \in ToolsOf(m.child)
      BY <1>6, <3>1, SpawnFacts DEF Gets, NamesChild, Opens, Shuts
    <3>3. Spawn(k) \in ToolsOf(k) /\ (k # m.child => ToolsOf(k) \cap ToolsOf(m.child) = {})
      BY <3>1, <3>2, ToolFacts
    <3> QED
      BY <3>1, <3>2, <3>3
  <2> QED
    BY <1>4, <2>1 DEF NotedAt, Lookup
<1>7. ASSUME m.kind = "note", NotedAt(t, m) = Root PROVE m.child \notin DOMAIN t.byTask
  BY <1>4, <1>7 DEF NotedAt, Lookup
<1> DEFINE Own(b, i, s, tree) ==
             /\ i \in 1..Len(s) /\ s[i].kind = "note" /\ Spawn(s[i].child) = b
             /\ s[i].child \in DOMAIN tree.byTask
             /\ \A j \in (i + 1)..Len(s) : s[j].kind = "note" => s[j].child # s[i].child
<1>8. \A b \in DOMAIN t.finding : Own(b, t.finding[b], conv, t)
  BY <1>1 DEF FindingInv
<1>9. ASSUME NEW b \in DOMAIN t.finding, m.kind = "note" => Spawn(m.child) # b \/ NotedAt(t, m) = Root
      PROVE  Own(b, t.finding[b], conv', u)
  <2>1. PICK i : i = t.finding[b] /\ i \in 1..Len(conv)
    BY <1>8
  <2>2. Own(b, i, conv, t)
    BY <1>8, <2>1
  <2>3. m.kind = "note" => m.child # conv[i].child
    BY <1>7, <1>9, <2>2
  <2>4. i \in 1..Len(conv') /\ conv'[i] = conv[i]
    BY <1>2, <2>1
  <2>5. ASSUME NEW j \in (i + 1)..Len(conv'), conv'[j].kind = "note" PROVE conv'[j].child # conv'[i].child
    <3>1. CASE j = Len(conv) + 1
      BY <1>2, <2>3, <2>4, <2>5, <3>1
    <3>2. CASE j \in (i + 1)..Len(conv)
      <4>1. conv'[j] = conv[j]
        BY <1>2, <2>1, <3>2
      <4> QED
        BY <2>2, <2>4, <2>5, <3>2, <4>1
    <3> QED
      BY <1>2, <2>1, <2>5, <3>1, <3>2
  <2> QED
    BY <1>5, <2>1, <2>2, <2>4, <2>5
<1>10. ASSUME NEW b \in DOMAIN u.finding PROVE Own(b, u.finding[b], conv', u)
  <2>1. CASE m.kind = "note" /\ NotedAt(t, m) # Root
    <3>1. NotedAt(t, m) = Spawn(m.child) /\ u.finding = Extend(t.finding, Spawn(m.child), t.n + 1)
          /\ m.child \in DOMAIN u.byTask
      BY <1>3, <1>6, <2>1 DEF Extend
    <3>2. CASE b = Spawn(m.child)
      <4>1. u.finding[b] = Len(conv')
        BY <1>2, <3>1, <3>2 DEF Extend
      <4>2. Len(conv') \in 1..Len(conv') /\ conv'[Len(conv')] = m /\ (Len(conv') + 1)..Len(conv') = {}
        BY <1>2
      <4> QED
        BY <2>1, <3>1, <3>2, <4>1, <4>2
    <3>3. CASE b # Spawn(m.child)
      <4>1. b \in DOMAIN t.finding /\ u.finding[b] = t.finding[b]
        BY <1>10, <3>1, <3>3 DEF Extend
      <4>2. Own(b, t.finding[b], conv', u)
        BY <1>9, <3>3, <4>1
      <4> QED
        BY <4>1, <4>2
    <3> QED
      BY <3>2, <3>3
  <2>2. CASE ~(m.kind = "note" /\ NotedAt(t, m) # Root)
    <3>1. u.finding = t.finding /\ b \in DOMAIN t.finding
      BY <1>3, <2>2
    <3>2. Own(b, t.finding[b], conv', u)
      BY <1>9, <2>2, <3>1
    <3> QED
      BY <3>1, <3>2
  <2> QED
    BY <2>1, <2>2
<1> QED
  BY <1>1, <1>10 DEF FindingInv

(* The results, in order; session_complete is not in the transcript. *)
LEMMA ResultGets ==
    ASSUME SesTypeOK, BranchInv, FinalInv, NEW m \in Message, Gets(m)
    PROVE  /\ Tree'.results \in Seq(Nat \ {0}) /\ Tree'.final = 0
           /\ LastResult' = IF m.kind = "result" THEN Len(conv) + 1 ELSE LastResult
<1>1. PICK t, u : t = Tree /\ u = Tree'
  OBVIOUS
<1>2. Adds(t, m, u) /\ t.n = Len(conv) /\ Len(conv) \in Nat
  BY <1>1, TreeGets
<1>3. /\ u.final = t.final
      /\ u.results = IF m.kind = "result" THEN Append(t.results, t.n + 1) ELSE t.results
  BY <1>2 DEF Adds
<1>4. t.results \in Seq(Nat \ {0}) /\ t.final = 0
  BY <1>1 DEF FinalInv
<1>5. CASE m.kind = "result"
  <2> DEFINE x == t.n + 1
  <2>1. x \in Nat \ {0} /\ x = Len(conv) + 1 /\ u.results = Append(t.results, x)
    BY <1>2, <1>3, <1>5
  <2> HIDE DEF x
  <2>2. u.results \in Seq(Nat \ {0}) /\ Len(u.results) = Len(t.results) + 1 /\ Len(t.results) \in Nat
        /\ u.results[Len(t.results) + 1] = x
    BY <1>4, <2>1
  <2>3. u.results # <<>> /\ Last(u.results) = x
    BY <2>2 DEF Last
  <2> QED
    BY <1>1, <1>3, <1>4, <1>5, <2>1, <2>2, <2>3 DEF LastResult
<1>6. CASE m.kind # "result"
  BY <1>1, <1>3, <1>4, <1>6 DEF LastResult
<1> QED
  BY <1>5, <1>6

-----------------------------------------------------------------------------
(* The calls of the children, in the trace and in the queue. *)

(* A step that leaves the CLI and its queue alone. *)
LEMMA CallsKept ==
    ASSUME CallsInv, UNCHANGED <<child, out>>, Tree.branches \subseteq Tree'.branches
    PROVE  CallsInv'
<1>1. PICK b, c, q : b = Tree.branches /\ c = Tree'.branches /\ q = out
  OBVIOUS
<1>2. \A k, i : CalledBefore(b, q, k, i) => CalledBefore(c, q, k, i)
  BY <1>1 DEF CalledBefore
<1>3. \A i : SaidAfterCall(b, q, i) => SaidAfterCall(c, q, i)
  BY <1>2 DEF SaidAfterCall
<1> QED
  BY <1>1, <1>2, <1>3 DEF CallsInv

(* More is called when the queue gets longer. *)
LEMMA QueueGrows ==
    ASSUME NEW b, NEW q \in Seq(Message), NEW m \in Message, NEW r, r = Append(q, m), NEW k,
           NEW i \in 1..(Len(q) + 1), CalledBefore(b, q, k, i), NEW j \in i..(Len(q) + 2)
    PROVE  CalledBefore(b, r, k, j)
<1>1. Len(q) \in Nat /\ \A l \in 1..Len(q) : r[l] = q[l]
  OBVIOUS
<1>2. CASE Spawn(k) \in b
  BY <1>2 DEF CalledBefore
<1>3. CASE Spawn(k) \notin b
  <2>1. PICK l \in 1..(i - 1) : q[l].child = k /\ q[l].kind = "use"
    BY <1>3 DEF CalledBefore
  <2>2. l \in 1..Len(q) /\ l \in 1..(j - 1)
    BY <1>1, <2>1
  <2> QED
    BY <1>1, <2>1, <2>2 DEF CalledBefore
<1> QED
  BY <1>2, <1>3

(* The CLI emits a message. *)
LEMMA CallsEmit ==
    ASSUME SesTypeOK, CallsInv, conv' = conv,
           NEW m \in Message, NamesChild(m), out' = Append(out, m), Tells(m)
    PROVE  CallsInv'
<1>0. /\ child \in [Children -> {"none", "called", "running", "finished", "refused"}]
      /\ out \in Seq(Message) /\ Len(out) \in Nat
  BY DEF SesTypeOK, CliType
<1>p. PICK b, q, r : b = Tree.branches /\ q = out /\ r = out' /\ q \in Seq(Message)
  BY <1>0
<1>1. /\ Len(q) \in Nat /\ r = Append(q, m) /\ Len(r) = Len(q) + 1 /\ r[Len(q) + 1] = m
      /\ \A i \in 1..Len(q) : r[i] = q[i]
  BY <1>p
<1>2. Tree' = Tree
  BY DEF Tree
<1>3. \A k, i : i \in 1..(Len(q) + 1) /\ CalledBefore(b, q, k, i) =>
                \A j \in i..(Len(q) + 2) : CalledBefore(b, r, k, j)
  BY <1>p, <1>1, QueueGrows
<1>4. ASSUME NEW k \in Children, child'[k] # "none" PROVE CalledBefore(b, r, k, Len(q) + 2)
  <2>1. CASE child[k] # "none"
    <3>1. CalledBefore(b, q, k, Len(q) + 1)
      BY <1>p, <2>1 DEF CallsInv
    <3>2. Len(q) + 1 \in 1..(Len(q) + 1) /\ Len(q) + 2 \in (Len(q) + 1)..(Len(q) + 2)
      BY <1>1
    <3> QED
      BY <1>3, <3>1, <3>2
  <2>2. CASE child[k] = "none"
    <3>1. m.kind = "use" /\ m.child = k
      BY <1>0, <1>4, <2>2 DEF Tells, Turns
    <3>2. Len(q) + 1 \in 1..((Len(q) + 2) - 1)
      BY <1>1
    <3> QED
      BY <1>1, <3>1, <3>2 DEF CalledBefore
  <2> QED
    BY <2>1, <2>2
<1>5. ASSUME NEW i \in 1..Len(r) PROVE SaidAfterCall(b, r, i)
  <2>1. CASE i \in 1..Len(q)
    <3>1. r[i] = q[i] /\ i \in 1..(Len(q) + 1) /\ i \in i..(Len(q) + 2)
      BY <1>1, <2>1
    <3>2. SaidAfterCall(b, q, i)
      BY <1>p, <2>1 DEF CallsInv
    <3> QED
      BY <1>3, <3>1, <3>2 DEF SaidAfterCall
  <2>2. CASE i = Len(q) + 1
    <3>1. r[i] = m
      BY <1>1, <2>2
    <3>2. m.kind = "use" => m.tool = Spawn(m.child)
      BY DEF Tells
    <3>3. ASSUME m.kind = "said", m.parent # Root
          PROVE  m.child \in Children /\ m.parent = Spawn(m.child) /\ child[m.child] = "running"
      BY <3>3 DEF Tells
    <3>4. ASSUME m.kind = "said", m.parent # Root PROVE CalledBefore(b, r, m.child, i)
      <4>1. CalledBefore(b, q, m.child, Len(q) + 1)
        BY <1>p, <3>3, <3>4 DEF CallsInv
      <4>2. i \in 1..(Len(q) + 1) /\ i \in i..(Len(q) + 2)
        BY <1>1, <2>2
      <4> QED
        BY <1>3, <2>2, <4>1, <4>2
    <3> QED
      BY <3>1, <3>2, <3>3, <3>4 DEF SaidAfterCall
  <2> QED
    BY <1>1, <2>1, <2>2
<1>6. Len(r) + 1 = Len(q) + 2
  BY <1>1
<1> QED
  BY <1>p, <1>2, <1>4, <1>5, <1>6 DEF CallsInv

(* The message at the head of the queue may be said now. *)
LEMMA HeadGets ==
    ASSUME SesTypeOK, CallsInv, TakeMessage
    PROVE  Gets(Head(out)) /\ Head(out) \in Message
<1>1. out # <<>> /\ conv' = Append(conv, Head(out))
  BY DEF TakeMessage
<1>2. PICK m \in Message : m = Head(out) /\ m = out[1] /\ NamesChild(m) /\ 1 \in 1..Len(out)
  BY <1>1, HeadFacts
<1>3. SaidAfterCall(Tree.branches, out, 1)
  BY <1>2 DEF CallsInv
<1>4. ASSUME m.kind = "said", m.parent # Root PROVE m.parent \in Tree.branches
  <2>1. m.parent = Spawn(m.child) /\ CalledBefore(Tree.branches, out, m.child, 1)
    BY <1>2, <1>3, <1>4 DEF SaidAfterCall
  <2>2. 1..(1 - 1) = {}
    OBVIOUS
  <2> QED
    BY <2>1, <2>2 DEF CalledBefore
<1> QED
  BY <1>1, <1>2, <1>3, <1>4 DEF Gets, SaidAfterCall

(* A message is taken from the queue. *)
LEMMA CallsTake ==
    ASSUME SesTypeOK, BranchInv, CallsInv, TakeMessage
    PROVE  CallsInv'
<1>1. Gets(Head(out)) /\ Head(out) \in Message
  BY HeadGets
<1>2. /\ Tree.branches \subseteq Tree'.branches
      /\ Head(out).kind = "use" => Spawn(Head(out).child) \in Tree'.branches
  BY <1>1, BranchGets
<1>3. out # <<>> /\ out' = Tail(out) /\ child' = child
  BY DEF TakeMessage, cliVars
<1>4. /\ Head(out) = out[1] /\ Len(out) \in Nat /\ Len(out) >= 1 /\ Len(out') = Len(out) - 1
      /\ \A i \in 1..(Len(out) - 1) : out'[i] = out[i + 1]
  BY <1>3, HeadFacts
<1>p. PICK b, c, q, r : b = Tree.branches /\ c = Tree'.branches /\ q = out /\ r = out'
  OBVIOUS
<1>q. /\ Len(q) \in Nat /\ Len(q) >= 1 /\ Len(r) = Len(q) - 1 /\ \A i \in 1..(Len(q) - 1) : r[i] = q[i + 1]
      /\ b \subseteq c /\ (q[1].kind = "use" => Spawn(q[1].child) \in c)
  BY <1>2, <1>4, <1>p
<1>5. ASSUME NEW k, NEW i \in 1..Len(q), CalledBefore(b, q, k, i + 1) PROVE CalledBefore(c, r, k, i)
  <2>1. CASE Spawn(k) \in b
    BY <1>q, <2>1 DEF CalledBefore
  <2>2. CASE Spawn(k) \notin b
    <3>1. PICK l \in 1..((i + 1) - 1) : q[l].child = k /\ q[l].kind = "use"
      BY <1>5, <2>2 DEF CalledBefore
    <3>2. CASE l = 1
      BY <1>q, <3>1, <3>2 DEF CalledBefore
    <3>3. CASE l # 1
      <4>1. l - 1 \in 1..(i - 1) /\ l - 1 \in 1..(Len(q) - 1) /\ (l - 1) + 1 = l
        BY <1>q, <3>1, <3>3
      <4>2. r[l - 1] = q[l]
        BY <1>q, <4>1
      <4> QED
        BY <3>1, <4>1, <4>2 DEF CalledBefore
    <3> QED
      BY <3>2, <3>3
  <2> QED
    BY <2>1, <2>2
<1>6. ASSUME NEW k \in Children, child'[k] # "none" PROVE CalledBefore(c, r, k, Len(r) + 1)
  <2>1. CalledBefore(b, q, k, Len(q) + 1) /\ Len(r) + 1 = Len(q) /\ Len(q) \in 1..Len(q)
    BY <1>3, <1>p, <1>q, <1>6 DEF CallsInv
  <2> QED
    BY <1>5, <2>1
<1>7. ASSUME NEW i \in 1..Len(r) PROVE SaidAfterCall(c, r, i)
  <2>1. r[i] = q[i + 1] /\ i \in 1..Len(q) /\ i + 1 \in 1..Len(q)
    BY <1>q
  <2>2. SaidAfterCall(b, q, i + 1)
    BY <1>p, <2>1 DEF CallsInv
  <2> QED
    BY <1>5, <2>1, <2>2 DEF SaidAfterCall
<1> QED
  BY <1>p, <1>6, <1>7 DEF CallsInv

-----------------------------------------------------------------------------
(* The trace of the transcript, step by step. *)

(* The entry of a hook, a retry or the reminder may be added at any time. *)
LEMMA UserGets ==
    ASSUME conv' = Append(conv, Msg("user", NoChild, Root))
    PROVE  \E m \in Message : Gets(m) /\ m.kind = "user"
<1>1. PICK m : m = Msg("user", NoChild, Root)
  OBVIOUS
<1>2. m \in Message /\ m.kind = "user"
  BY <1>1, UserEntry DEF Msg
<1> QED
  BY <1>1, <1>2 DEF Gets, NamesChild, Opens, Shuts

(* The transcript changes when a message is taken and when the runtime     *)
(* adds an entry, before the end of the loop.                              *)
LEMMA TranscriptSteps ==
    ASSUME SesTypeOK, [SesNext]_sesVars, ~TakeMessage
    PROVE  \/ conv' = conv
           \/ /\ \E m \in Message : Gets(m) /\ m.kind = "user"
              /\ UNCHANGED <<child, out>> /\ pc \in {"next", "flush", "after"}
<1>1. CASE CliStep
  BY <1>1, CliEffect
<1>2. CASE HookWaits \/ Remind
  <2>1. /\ conv' = Append(conv, Msg("user", NoChild, Root)) /\ UNCHANGED <<child, out>>
        /\ pc \in {"next", "flush", "after"}
    BY <1>2 DEF HookWaits, Remind, cliVars
  <2> QED
    BY <2>1, UserGets
<1>3. CASE AgentResult
  <2>1. /\ conv' = conv \/ conv' = Append(conv, Msg("user", NoChild, Root))
        /\ UNCHANGED <<child, out>> /\ pc = "after"
    BY <1>3 DEF AgentResult
  <2> QED
    BY <2>1, UserGets
<1>4. CASE \/ FlushStep \/ TimerFlush \/ HookAnswered \/ AfterFlush \/ QueryEnds \/ CancelTasks \/ Complete
           \/ UNCHANGED sesVars
  BY <1>4 DEF FlushStep, FlushLock, FlushCut, FlushSent, TimerFlush, HookAnswered, AfterFlush, QueryEnds,
              CancelTasks, Complete, sesVars
<1> QED
  BY <1>1, <1>2, <1>3, <1>4 DEF SesNext, LoopStep

(* The trace that the transcript has so far. *)
TreeInv == BranchInv /\ ParentInv /\ FindingInv

LEMMA TreeGetsAll ==
    ASSUME SesTypeOK, TreeInv, NEW m \in Message, Gets(m)
    PROVE  TreeInv'
  BY BranchGets, ParentGets, FindingGets DEF TreeInv

LEMMA TreeKept ==
    ASSUME TreeInv, conv' = conv
    PROVE  TreeInv' /\ Tree' = Tree /\ LastResult' = LastResult
<1>1. Tree' = Tree
  BY DEF Tree
<1> QED
  BY <1>1 DEF TreeInv, BranchInv, ParentInv, FindingInv, LastResult

(* The trace and the calls in it. *)
LEMMA TreeStep ==
    ASSUME SesTypeOK, TreeInv, CallsInv, [SesNext]_sesVars
    PROVE  TreeInv' /\ CallsInv'
<1>1. CASE TakeMessage
  <2>1. TreeInv'
    BY <1>1, HeadGets, TreeGetsAll
  <2>2. CallsInv'
    BY <1>1, CallsTake DEF TreeInv
  <2> QED
    BY <2>1, <2>2
<1>2. CASE ~TakeMessage /\ conv' # conv
  <2>1. PICK m \in Message : Gets(m) /\ UNCHANGED <<child, out>>
    BY <1>2, TranscriptSteps
  <2>2. TreeInv' /\ Tree.branches \subseteq Tree'.branches
    BY <2>1, TreeGetsAll, BranchGets DEF TreeInv
  <2> QED
    BY <2>1, <2>2, CallsKept
<1>3. CASE conv' = conv /\ CliStep
  <2>1. TreeInv' /\ Tree' = Tree
    BY <1>3, TreeKept
  <2>2. CASE UNCHANGED <<child, out>>
    BY <2>1, <2>2, CallsKept
  <2>3. ASSUME NEW m \in Message, NamesChild(m), out' = Append(out, m), Tells(m)
        PROVE  CallsInv'
    BY <1>3, <2>3, CallsEmit
  <2> QED
    BY <1>3, <2>1, <2>2, <2>3, CliEffect
<1>4. CASE ~TakeMessage /\ conv' = conv /\ ~CliStep
  <2>1. TreeInv' /\ Tree' = Tree
    BY <1>4, TreeKept
  <2>2. UNCHANGED <<child, out>>
    BY <1>4 DEF SesNext, LoopStep, FlushStep, FlushLock, FlushCut, FlushSent, TimerFlush, HookWaits, HookAnswered,
                AfterFlush, AgentResult, Remind, QueryEnds, CancelTasks, Complete, cliVars, sesVars
  <2> QED
    BY <2>1, <2>2, CallsKept
<1> QED
  BY <1>1, <1>2, <1>3, <1>4

(* The last result of the trace is the one the session completes with. *)
LEMMA FinalStep ==
    ASSUME SesTypeOK, TreeInv, CallsInv, FinalInv, [SesNext]_sesVars
    PROVE  FinalInv'
<1>0. BranchInv
  BY DEF TreeInv
<1>1. CASE TakeMessage
  <2>1. PICK m \in Message : m = Head(out) /\ Gets(m)
    BY <1>1, HeadGets
  <2>2. /\ pc = "next" /\ taken' = m /\ had' = (had \/ m.kind \in {"use", "started"})
        /\ settled' = (settled \/ Settles(m)) /\ pc' = "flush"
        /\ final' = IF m.kind = "result" /\ (had => pending = {}) THEN Len(conv) + 1 ELSE final
    BY <1>1, <2>1 DEF TakeMessage
  <2>3. /\ Tree'.results \in Seq(Nat \ {0}) /\ Tree'.final = 0
        /\ LastResult' = IF m.kind = "result" THEN Len(conv) + 1 ELSE LastResult
    BY <1>0, <2>1, ResultGets
  <2>4. ~settled /\ (~had => final = LastResult)
    BY <2>2 DEF FinalInv
  <2>5. settled' => m.kind = "result" /\ had /\ pending = {}
    BY <2>2, <2>4 DEF Settles
  <2>6. ~had' => ~had
    BY <2>2
  <2>7. ~had' \/ settled' => final' = LastResult'
    BY <2>2, <2>3, <2>4, <2>5, <2>6
  <2>8. settled' => had'
    BY <2>2, <2>5
  <2> QED
    BY <2>2, <2>3, <2>5, <2>7, <2>8 DEF FinalInv
<1>2. CASE ~TakeMessage
  <2>1. /\ Tree'.results \in Seq(Nat \ {0}) /\ Tree'.final = 0 /\ LastResult' = LastResult
    <3>1. CASE conv' = conv
      BY <3>1, TreeKept DEF FinalInv
    <3>2. CASE conv' # conv
      <4>1. PICK m \in Message : Gets(m) /\ m.kind = "user"
        BY <1>2, <3>2, TranscriptSteps
      <4> QED
        BY <1>0, <4>1, ResultGets
    <3> QED
      BY <3>1, <3>2
  <2>2. UNCHANGED <<had, settled, final>>
    <3>1. CASE CliStep
      BY <3>1, CliEffect DEF loopVars
    <3> QED
      BY <1>2, <3>1 DEF SesNext, LoopStep, FlushStep, FlushLock, FlushCut, FlushSent, TimerFlush, HookWaits,
                        HookAnswered, AfterFlush, AgentResult, Remind, QueryEnds, CancelTasks, Complete, loopVars,
                        sesVars
  <2>3. \/ UNCHANGED <<pc, taken>>
        \/ AfterFlush \/ AgentResult \/ QueryEnds \/ CancelTasks \/ Complete
    <3>1. CASE CliStep
      BY <3>1, CliEffect DEF loopVars
    <3> QED
      BY <1>2, <3>1 DEF SesNext, LoopStep, FlushStep, FlushLock, FlushCut, FlushSent, TimerFlush, HookWaits,
                        HookAnswered, Remind, loopVars, sesVars
  <2> DEFINE Ends == /\ settled => had /\ (pc \in {"next", "flush", "after"} => pc = "flush" /\ taken.kind = "result")
                     /\ pc \in {"cancel", "final", "ok"} /\ had => settled
  <2>4. Ends
    BY DEF FinalInv
  <2>5. CASE UNCHANGED <<pc, taken>>
    BY <2>1, <2>2, <2>5 DEF FinalInv
  <2>6. CASE AfterFlush
    <3>1. /\ pc = "flush" /\ taken' = taken
          /\ pc' = IF taken.kind = "result" /\ settled THEN "cancel"
                   ELSE IF taken.kind \in {"err", "empty"} THEN "after" ELSE "next"
      BY <2>6 DEF AfterFlush
    <3>2. Ends'
      BY <2>2, <2>4, <3>1
    <3> QED
      BY <2>1, <2>2, <3>2 DEF FinalInv
  <2>7. CASE AgentResult
    <3>1. pc = "after" /\ pc' \in {"next", "flush"}
      BY <2>7 DEF AgentResult
    <3>2. Ends'
      BY <2>2, <2>4, <3>1
    <3> QED
      BY <2>1, <2>2, <3>2 DEF FinalInv
  <2>8. CASE QueryEnds
    <3>1. pc = "next" /\ (pc' = "failed" \/ (pc' = "cancel" /\ (had => settled)))
      BY <2>8 DEF QueryEnds
    <3>2. Ends'
      BY <2>2, <2>4, <3>1
    <3> QED
      BY <2>1, <2>2, <3>2 DEF FinalInv
  <2>9. CASE CancelTasks \/ Complete
    <3>1. pc \in {"cancel", "final"} /\ pc' \in {"final", "ok"}
      BY <2>9 DEF CancelTasks, Complete
    <3>2. Ends'
      BY <2>2, <2>4, <3>1
    <3> QED
      BY <2>1, <2>2, <3>2 DEF FinalInv
  <2> QED
    BY <2>3, <2>5, <2>6, <2>7, <2>8, <2>9
<1> QED
  BY <1>1, <1>2

-----------------------------------------------------------------------------
(* What the gateway has. *)

(* No more is stored than was flushed, until the last event. *)
NotMore ==
    ~resent => \/ Len(stored) <= flushed
               \/ pc = "ok" /\ Len(stored) = flushed + 1 /\ stored[flushed + 1] = Ending

(* When the loop is over and the last flush done, all is flushed. *)
AllFlushed ==
    /\ pc = "final" => FlushDone("main") \/ flusher["main"].force
    /\ pc = "ok" => FlushDone("main")
    /\ pc \in {"final", "ok"} /\ FlushDone("main") => flushed = Len(conv)

(* A step before the end of the loop, or one that changes nothing of it. *)
LEMMA StoredKept ==
    ASSUME SesTypeOK, StoredInv, UNCHANGED <<stored, flushed, resent>>, pc # "ok" \/ UNCHANGED <<pc, final>>,
           \/ pc' \notin {"final", "ok"}
           \/ UNCHANGED <<pc, conv>> /\ flusher'["main"] = flusher["main"]
    PROVE  StoredInv'
<1>1. NotMore'
  BY DEF StoredInv, NotMore, Ending
<1>2. AllFlushed'
  BY DEF StoredInv, AllFlushed, FlushDone
<1> QED
  BY <1>1, <1>2 DEF StoredInv, NotMore, AllFlushed

(* A slice of the transcript. *)
LEMMA SliceFacts ==
    ASSUME NEW M, NEW s \in Seq(M), NEW from \in Nat, NEW to \in Nat, from <= to, to <= Len(s)
    PROVE  SubSeq(s, from + 1, to) \in Seq(M) /\ Len(SubSeq(s, from + 1, to)) = to - from
<1>1. Len(SubSeq(s, from + 1, to)) = to - from
  OBVIOUS
<1>2. \A i \in (from + 1)..to : s[i] \in M
  OBVIOUS
<1>3. SubSeq(s, from + 1, to) \in Seq(M)
  BY <1>2
<1> QED
  BY <1>1, <1>3

(* A report stores its slice, or nothing. *)
LEMMA ReportStores ==
    ASSUME SesTypeOK, HolderInv, stored \in Seq(Message \cup Endings), NEW f \in Flushers,
           flusher[f].at = "send", Report(f)
    PROVE  /\ stored' \in Seq(Message \cup Endings)
           /\ flusher[f].to \in Nat /\ flushed \in Nat /\ flushed < flusher[f].to /\ flusher[f].to <= Len(conv)
           /\ Len(stored) <= flushed => Len(stored') <= flusher[f].to
<1>0. /\ conv \in Seq(Message) /\ Len(conv) \in Nat /\ flushed \in Nat
      /\ flusher[f].from \in Nat /\ flusher[f].to \in Nat
      /\ flusher[f].from = flushed /\ flusher[f].from < flusher[f].to /\ flusher[f].to <= Len(conv)
      /\ Len(stored) \in Nat
  BY DEF SesTypeOK, FlushType, Flush, HolderInv
<1>1. PICK from, to, s : /\ from \in Nat /\ to \in Nat /\ from = flusher[f].from /\ to = flusher[f].to
                         /\ s = SubSeq(conv, from + 1, to)
  BY <1>0
<1>2. s \in Seq(Message) /\ Len(s) = to - from
  BY <1>0, <1>1, SliceFacts
<1>3. stored' = stored \/ stored' = stored \o s
  BY <1>1 DEF Report
<1>4. s \in Seq(Message \cup Endings)
  BY <1>2
<1>5. stored \o s \in Seq(Message \cup Endings) /\ Len(stored \o s) = Len(stored) + Len(s)
  BY <1>4
<1>6. stored' \in Seq(Message \cup Endings)
  BY <1>3, <1>5
<1>7. ASSUME Len(stored) <= flushed PROVE Len(stored') <= to
  <2>1. from = flushed /\ from < to
    BY <1>0, <1>1
  <2>2. Len(stored') = Len(stored) \/ Len(stored') = Len(stored) + (to - from)
    BY <1>2, <1>3, <1>5
  <2> QED
    BY <1>0, <1>1, <1>7, <2>1, <2>2
<1> QED
  BY <1>0, <1>1, <1>6, <1>7

(* What is stored, step by step. *)
LEMMA StoredStep ==
    ASSUME SesTypeOK, HolderInv, StoredInv, [SesNext]_sesVars
    PROVE  StoredInv'
<1>0. /\ conv \in Seq(Message) /\ Len(conv) \in Nat /\ flushed \in 0..Len(conv)
      /\ flusher \in [Flushers -> Flush] /\ BatchSize \in Nat \ {0} /\ "main" \in Flushers
      /\ stored \in Seq(Message \cup Endings) /\ Len(stored) \in Nat
  BY RuntimeAssumptions DEF SesTypeOK, FlushType, Flushers, StoredInv
<1>i. NotMore /\ AllFlushed
  BY DEF StoredInv, NotMore, AllFlushed
<1>1. CASE \/ TakeMessage \/ AfterFlush \/ AgentResult \/ QueryEnds \/ Remind \/ TimerFlush \/ HookWaits
  <2>1. UNCHANGED <<stored, flushed, resent>> /\ pc # "ok" /\ pc' \notin {"final", "ok"}
    BY <1>1 DEF TakeMessage, AfterFlush, AgentResult, QueryEnds, Remind, TimerFlush, HookWaits, flushVars, loopVars
  <2> QED
    BY <2>1, StoredKept
<1>2. CASE CliStep \/ HookAnswered \/ UNCHANGED sesVars
  <2>1. UNCHANGED <<stored, flushed, resent, pc, final, conv, flusher>>
    BY <1>2, CliEffect DEF HookAnswered, flushVars, loopVars, sesVars
  <2> QED
    BY <2>1, StoredKept
<1>3. ASSUME NEW f \in Flushers, FlushLock(f) PROVE StoredInv'
  <2>1. /\ flusher[f].at = "want" /\ flusher' = [flusher EXCEPT ![f].at = "look"]
        /\ UNCHANGED <<stored, flushed, resent, pc, final, conv>>
    BY <1>3 DEF FlushLock, Lockable, loopVars
  <2>2. CASE f # "main"
    <3>1. flusher'["main"] = flusher["main"]
      BY <1>0, <2>1, <2>2
    <3> QED
      BY <2>1, <3>1, StoredKept
  <2>3. CASE f = "main"
    <3>1. flusher'["main"].at = "look" /\ flusher'["main"].force = flusher["main"].force
      BY <1>0, <2>1, <2>3 DEF Flush
    <3>2. pc # "ok" /\ (pc = "final" => flusher["main"].force)
      BY <1>i, <2>1, <2>3 DEF AllFlushed, FlushDone
    <3>3. AllFlushed'
      BY <2>1, <3>1, <3>2 DEF AllFlushed, FlushDone
    <3>4. NotMore'
      BY <1>i, <2>1 DEF NotMore, Ending
    <3> QED
      BY <1>0, <2>1, <3>3, <3>4 DEF StoredInv, AllFlushed, NotMore
  <2> QED
    BY <2>2, <2>3
<1>4. ASSUME NEW f \in Flushers, FlushCut(f) PROVE StoredInv'
  <2> DEFINE to == IF Unflushed >= BatchSize THEN flushed + BatchSize
                   ELSE IF flusher[f].force THEN Len(conv) ELSE flushed
  <2>1. /\ flusher[f].at = "look" /\ UNCHANGED <<stored, flushed, resent, pc, final, conv>>
        /\ flusher' = IF to > flushed
                      THEN [flusher EXCEPT ![f].at = "send", ![f].from = flushed, ![f].to = to]
                      ELSE [flusher EXCEPT ![f] = NotFlushing]
    BY <1>4 DEF FlushCut, loopVars
  <2>2. CASE f # "main"
    <3> HIDE DEF to
    <3>1. flusher'["main"] = flusher["main"]
      BY <1>0, <2>1, <2>2
    <3> QED
      BY <2>1, <3>1, StoredKept
  <2>3. CASE f = "main"
    <3>1. pc # "ok" /\ (pc = "final" => flusher["main"].force)
      BY <1>i, <2>1, <2>3 DEF AllFlushed, FlushDone
    <3>2. NotMore'
      BY <1>i, <2>1 DEF NotMore, Ending
    <3>3. CASE to > flushed
      <4> HIDE DEF to
      <4>1. flusher'["main"].at = "send" /\ flusher'["main"].force = flusher["main"].force
        BY <1>0, <2>1, <2>3, <3>3 DEF Flush
      <4>2. AllFlushed'
        BY <2>1, <3>1, <4>1 DEF AllFlushed, FlushDone
      <4> QED
        BY <1>0, <2>1, <3>2, <4>2 DEF StoredInv, AllFlushed, NotMore
    <3>4. CASE ~(to > flushed)
      <4>1. ASSUME pc = "final" PROVE flushed = Len(conv)
        BY <1>0, <2>3, <3>1, <3>4, <4>1 DEF Unflushed
      <4>2. flusher'["main"].at = "idle"
        <5> HIDE DEF to
        <5> QED
          BY <1>0, <2>1, <2>3, <3>4, WantFacts
      <4>3. AllFlushed'
        BY <2>1, <3>1, <4>1, <4>2 DEF AllFlushed, FlushDone
      <4> QED
        BY <1>0, <2>1, <3>2, <4>3 DEF StoredInv, AllFlushed, NotMore
    <3> QED
      BY <3>3, <3>4
  <2> QED
    BY <2>2, <2>3
<1>5. ASSUME NEW f \in Flushers, FlushSent(f) PROVE StoredInv'
  <2>1. /\ flusher[f].at = "send" /\ Report(f) /\ UNCHANGED <<pc, conv, resent, final>>
        /\ flushed' = IF flusher[f].to = flusher[f].from + BatchSize THEN flusher[f].to ELSE Len(conv)
        /\ flusher' = [flusher EXCEPT ![f].at = "look"]
    BY <1>5 DEF FlushSent, loopVars
  <2>2. /\ stored' \in Seq(Message \cup Endings)
        /\ flusher[f].to \in Nat /\ flushed \in Nat /\ flushed < flusher[f].to /\ flusher[f].to <= Len(conv)
        /\ Len(stored) <= flushed => Len(stored') <= flusher[f].to
    BY <1>0, <2>1, ReportStores
  <2>3. flusher[f].to <= flushed' /\ flushed' \in Nat /\ Len(stored') \in Nat
    BY <1>0, <2>1, <2>2
  <2>4. flushed # Len(conv)
    BY <1>0, <2>2
  <2>5. pc # "ok" /\ (pc = "final" => ~FlushDone("main") /\ flusher["main"].force)
    BY <1>i, <2>4 DEF AllFlushed
  <2>6. NotMore'
    BY <1>i, <2>1, <2>2, <2>3, <2>5, <1>0 DEF NotMore
  <2>7. flusher'["main"].force = flusher["main"].force
        /\ (flusher'["main"].at = flusher["main"].at \/ flusher'["main"].at = "look")
    BY <1>0, <2>1 DEF Flush
  <2>8. AllFlushed'
    BY <2>1, <2>5, <2>7 DEF AllFlushed, FlushDone
  <2> QED
    BY <2>2, <2>6, <2>8 DEF StoredInv, AllFlushed, NotMore
<1>6. CASE CancelTasks
  <2>1. /\ pc = "cancel" /\ pc' = "final" /\ UNCHANGED <<conv, flushed>>
        /\ flusher'["main"] = Want(TRUE)
    BY <1>0, <1>6 DEF CancelTasks
  <2>2. \/ \E f \in Flushers : flusher[f].at = "send" /\ Report(f) /\ resent' = TRUE
        \/ UNCHANGED <<stored, resent>>
    BY <1>6 DEF CancelTasks, Cancelled, Flushers
  <2>3. stored' \in Seq(Message \cup Endings)
    BY <1>0, <2>2, ReportStores
  <2>4. NotMore'
    BY <1>i, <2>1, <2>2 DEF NotMore
  <2>5. Want(TRUE).at = "want" /\ Want(TRUE).force = TRUE
    BY DEF Want, NotFlushing
  <2>6. AllFlushed'
    BY <2>1, <2>5 DEF AllFlushed, FlushDone
  <2> QED
    BY <2>3, <2>4, <2>6 DEF StoredInv, AllFlushed, NotMore
<1>7. CASE Complete
  <2>1. /\ pc = "final" /\ FlushDone("main") /\ pc' = "ok" /\ UNCHANGED <<conv, flushed, flusher, final, resent>>
        /\ stored' = stored \/ stored' = Append(stored, Ending)
    BY <1>7 DEF Complete, Ending
  <2>2. Ending \in Message \cup Endings /\ Ending' = Ending
    BY <2>1 DEF Ending, Endings
  <2>3. AllFlushed'
    BY <1>i, <2>1 DEF AllFlushed, FlushDone
  <2>4. flushed \in Nat
    BY <1>0
  <2>5. stored' \in Seq(Message \cup Endings) /\ NotMore'
    <3>1. CASE stored' = stored
      BY <1>0, <1>i, <2>1, <3>1 DEF NotMore
    <3>2. CASE stored' = Append(stored, Ending)
      <4>1. /\ stored' \in Seq(Message \cup Endings) /\ Len(stored') = Len(stored) + 1
            /\ stored'[Len(stored) + 1] = Ending
        BY <1>0, <2>2, <3>2
      <4>2. ~resent => Len(stored) <= flushed
        BY <1>i, <2>1 DEF NotMore
      <4>3. NotMore'
        BY <1>0, <2>1, <2>2, <2>4, <4>1, <4>2 DEF NotMore
      <4> QED
        BY <4>1, <4>3
    <3> QED
      BY <2>1, <3>1, <3>2
  <2> QED
    BY <2>3, <2>5 DEF StoredInv, AllFlushed, NotMore
<1> QED
  BY <1>1, <1>2, <1>3, <1>4, <1>5, <1>6, <1>7 DEF SesNext, LoopStep, FlushStep

-----------------------------------------------------------------------------
(* A transcript that arrived whole. *)

(* The stored messages are the transcript, or the transcript and the last  *)
(* event.                                                                  *)
LEMMA StoredWhole ==
    ASSUME SesTypeOK, StoredInv, pc = "ok", ~resent, IsPrefix(conv, stored)
    PROVE  /\ stored = conv \/ stored = Append(conv, Ending)
           /\ Len(stored) > Len(conv) => stored = Append(conv, Ending)
<1>1. /\ conv \in Seq(Message) /\ Len(conv) \in Nat /\ flushed = Len(conv)
      /\ stored \in Seq(Message \cup Endings) /\ Len(stored) \in Nat
      /\ Len(stored) <= Len(conv) \/ (Len(stored) = Len(conv) + 1 /\ stored[Len(conv) + 1] = Ending)
  BY DEF SesTypeOK, FlushType, StoredInv
<1>2. Len(conv) <= Len(stored) /\ \A i \in 1..Len(conv) : stored[i] = conv[i]
  BY <1>1 DEF IsPrefix
<1>3. CASE Len(stored) = Len(conv)
  BY <1>1, <1>2, <1>3
<1>4. CASE Len(stored) = Len(conv) + 1 /\ stored[Len(conv) + 1] = Ending
  <2>1. PICK s \in Seq(Message \cup Endings), e \in Message \cup Endings : s = conv /\ e = Ending
    BY <1>1 DEF Ending, Endings
  <2>2. stored = Append(s, e)
    BY <1>1, <1>2, <1>4, <2>1
  <2> QED
    BY <2>1, <2>2
<1> QED
  BY <1>1, <1>2, <1>3, <1>4

(* The trace of what is stored is that of the transcript, with its end. *)
LEMMA TraceInvFaithful ==
    ASSUME SesTypeOK, TreeInv, FinalInv, StoredInv
    PROVE  TraceFaithful
<1> SUFFICES ASSUME pc = "ok", ~resent, IsPrefix(conv, stored)
             PROVE  LET tree == build_trace_tree(stored) IN
                    /\ \A i \in 1..Len(conv) : conv[i].kind = "said" => tree.parent[i] = conv[i].parent
                    /\ \A b \in DOMAIN tree.finding :
                          LET i == tree.finding[b] IN
                          /\ conv[i].kind = "note" /\ Spawn(conv[i].child) = b
                          /\ \A j \in (i + 1)..Len(conv) : conv[j].kind = "note" => conv[j].child # conv[i].child
                    /\ Len(stored) > Len(conv) => tree.final = final
  BY DEF TraceFaithful
<1>0. conv \in Seq(Message) /\ conv \in Seq(Message \cup Endings)
  BY DEF SesTypeOK, FlushType
<1>1. PICK t, u : t = Tree /\ u = build_trace_tree(stored)
  OBVIOUS
<1>2. stored = conv \/ (stored = Append(conv, Ending) /\ u = TraceStep(t, Ending))
  <2>1. PICK e \in Message \cup Endings : e = Ending
    BY DEF Ending, Endings
  <2>2. build_trace_tree(Append(conv, e)) = TraceStep(build_trace_tree(conv), e)
    BY <1>0, TraceAppend
  <2> QED
    BY <1>1, <2>1, <2>2, StoredWhole DEF Tree
<1>3. Ending.kind = IF final = 0 THEN "blank" ELSE "complete"
  BY DEF Ending, Msg
<1>4. TreeShape(t) /\ t.results \in Seq(Nat \ {0}) /\ t.final = 0
  BY <1>1 DEF TreeInv, BranchInv, FinalInv
<1>5. u.finding = t.finding /\ u.parent = t.parent
  <2>1. CASE stored = conv
    BY <1>1, <2>1 DEF Tree
  <2>2. CASE u = TraceStep(t, Ending)
    BY <1>3, <1>4, <2>2, TraceEnds
  <2> QED
    BY <1>2, <2>1, <2>2
<1>6. ASSUME Len(stored) > Len(conv) PROVE u.final = final
  <2>1. u = TraceStep(t, Ending)
    BY <1>0, <1>2, <1>6
  <2>2. u.final = IF Ending.kind = "blank" THEN t.final
                  ELSE IF t.results = <<>> THEN t.n + 1 ELSE Last(t.results)
    BY <1>3, <1>4, <2>1, TraceEnds
  <2>3. final = IF t.results = <<>> THEN 0 ELSE Last(t.results)
    BY <1>1 DEF FinalInv, LastResult
  <2> QED
    BY <1>3, <1>4, <2>2, <2>3
<1>7. \A i \in 1..Len(conv) : conv[i].kind = "said" => t.parent[i] = conv[i].parent
  BY <1>1 DEF TreeInv, ParentInv
<1>8. \A b \in DOMAIN t.finding :
         LET i == t.finding[b] IN
         /\ conv[i].kind = "note" /\ Spawn(conv[i].child) = b
         /\ \A j \in (i + 1)..Len(conv) : conv[j].kind = "note" => conv[j].child # conv[i].child
  BY <1>1 DEF TreeInv, FindingInv
<1> QED
  BY <1>1, <1>5, <1>6, <1>7, <1>8

(* A session starts with the empty trace. *)
LEMMA InitTrace == SesInit => TraceInv
<1> SUFFICES ASSUME SesInit PROVE TraceInv
  OBVIOUS
<1>1. PICK t : t = Tree /\ t = EmptyTree
  BY TraceEmpty DEF SesInit, Tree
<1>2. /\ TreeShape(t) /\ t.n = 0 /\ t.branches = {} /\ t.byTask = <<>> /\ t.finding = <<>>
      /\ t.results = <<>> /\ t.final = 0
  BY <1>1 DEF EmptyTree, TreeShape
<1>3. Len(conv) = 0 /\ Len(out) = 0 /\ \A k \in Children : child[k] = "none"
  BY DEF SesInit
<1>4. CallsInv
  BY <1>3 DEF CallsInv
<1>5. DOMAIN t.byTask = {} /\ DOMAIN t.finding = {}
  BY <1>2
<1>6. BranchInv /\ ParentInv /\ FindingInv
  BY <1>1, <1>2, <1>3, <1>5 DEF BranchInv, ParentInv, FindingInv
<1>7. FinalInv
  BY <1>1, <1>2 DEF SesInit, FinalInv, LastResult
<1>8. StoredInv
  BY DEF SesInit, StoredInv
<1> QED
  BY <1>4, <1>6, <1>7, <1>8 DEF TraceInv

(* The trace of a session, step by step. *)
LEMMA TraceInvStep ==
    ASSUME SesInv, TraceInv, [SesNext]_sesVars
    PROVE  TraceInv'
<1>1. SesTypeOK /\ HolderInv /\ TreeInv /\ CallsInv /\ FinalInv /\ StoredInv
  BY DEF SesInv, TraceInv, TreeInv
<1>2. TreeInv' /\ CallsInv'
  BY <1>1, TreeStep
<1>3. FinalInv' /\ StoredInv'
  BY <1>1, FinalStep, StoredStep
<1> QED
  BY <1>2, <1>3 DEF TraceInv, TreeInv

(* build_trace_tree puts every message of a subagent in the branch of the  *)
(* call that spawned it, resumed or not, gives a branch its own last       *)
(* finding, and makes the result the session completed with the final      *)
(* node, whenever the transcript arrived whole: for any number of          *)
(* subagents and messages in any order.                                    *)
THEOREM TraceIsFaithful == SesSpec => []TraceFaithful
<1>1. SesInv /\ TraceInv => TraceFaithful
  BY TraceInvFaithful DEF SesInv, TraceInv, TreeInv
<1>2. SesInv /\ TraceInv /\ [SesNext]_sesVars => TraceInv'
  BY TraceInvStep
<1> QED
  BY <1>1, <1>2, InitTrace, SessionInvariant, PTL DEF SesSpec
=============================================================================
