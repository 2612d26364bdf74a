----------------------------- MODULE TokenUsage -----------------------------
(***************************************************************************)
(* What tasks.tokens_used says: the totals a runtime puts into its         *)
(* transcript and its last event (runtime/session_entrypoint.py), what the *)
(* collector makes of them (gateway/event_collector.py), and the writes of *)
(* the monitor and of a rerun, for one task and all its attempts.          *)
(*                                                                         *)
(* A runtime that was given up as lost may still report beside the one of  *)
(* the next attempt.  Of a transcript only the messages that carry a usage *)
(* are kept, each as the total the collector reads from it.  The rerun is  *)
(* one step here; TaskQueue has its two halves.                            *)
(***************************************************************************)
EXTENDS Naturals, Sequences, Functions, FiniteSetsExt

CONSTANTS
    Subagents,
    MaxTokens,      \* bound: tokens of one usage message
    MaxUsages,      \* bound: usage messages of all attempts
    MaxAttempts,    \* bound: attempts of the task
    MaxTokFaults    \* bound: reports lost, repeated or refused, runtimes killed

ASSUME TokenAssumptions ==
    /\ IsFiniteSet(Subagents) /\ MaxTokens \in Nat /\ MaxUsages \in Nat
    /\ MaxAttempts \in Nat \ {0} /\ MaxTokFaults \in Nat

VARIABLES
    (* the runtime of each attempt *)
    subTotals,  \* subagent_token_totals
    resultUse,  \* total_input_tokens + total_output_tokens
    usages,     \* the totals in its transcript
    sentTo,     \* how many of them were reported
    over,       \* "no", "ok" (exit code 0), "failed", or "gone" once the monitor saw it
    (* the database *)
    attempt,    \* the attempt the task is at
    tokens,     \* tasks.tokens_used
    outcome,    \* tasks.status: "running", "succeeded" or "failed" (lost, timed_out)
    lifecycle,  \* the session_complete, session_error and session_timeout events
    tokFaults

runtimeUse == <<subTotals, resultUse, usages, sentTo, over>>
taskUse    == <<attempt, tokens, outcome, lifecycle>>
tokVars    == <<runtimeUse, taskUse, tokFaults>>

Attempts == 1..MaxAttempts
Working(a) == a <= attempt /\ over[a] = "no"
TokFault == tokFaults < MaxTokFaults /\ tokFaults' = tokFaults + 1

TokInit ==
    /\ subTotals = [a \in Attempts |-> [k \in Subagents |-> 0]]
    /\ resultUse = [a \in Attempts |-> 0] /\ usages = [a \in Attempts |-> <<>>]
    /\ sentTo = [a \in Attempts |-> 0] /\ over = [a \in Attempts |-> "no"]
    /\ attempt = 1 /\ tokens = 0 /\ outcome = "running" /\ lifecycle = <<>>
    /\ tokFaults = 0

-----------------------------------------------------------------------------
(* The runtime. *)

Says(a, total) ==
    /\ Working(a) /\ SumFunction([b \in Attempts |-> Len(usages[b])]) < MaxUsages
    /\ usages' = [usages EXCEPT ![a] = Append(@, total)]

(* _annotate_workflow_usage: a task_progress or task_notification carries  *)
(* the sum of the highest totals seen of every subagent.                   *)
annotate_workflow_usage(a, k, n) == [subTotals[a] EXCEPT ![k] = Max({@, n})]

SubagentUsage(a, k, n) ==
    /\ subTotals' = [subTotals EXCEPT ![a] = annotate_workflow_usage(a, k, n)]
    /\ Says(a, SumFunction(subTotals'[a]))
    /\ UNCHANGED <<resultUse, sentTo, over, taskUse, tokFaults>>

(* A ResultMessage carries the coordinator's own use.                      *)
ResultUsage(a, n) ==
    /\ resultUse' = [resultUse EXCEPT ![a] = n]
    /\ Says(a, n)
    /\ UNCHANGED <<subTotals, sentTo, over, taskUse, tokFaults>>

-----------------------------------------------------------------------------
(* The collector. *)

(* Mutant: what is observed is added.                                      *)
monotonic_token_total_Adds(current, observed) == current + observed

monotonic_token_total(current, observed) == Max({current, observed})

(* _extract_incremental_tokens: the last usage of the batch.               *)
extract_incremental_tokens(batch) == batch[Len(batch)]

(* A conversation_batch: it is stored, or lost; or it was stored and the   *)
(* task that sent it is cancelled, so that it is sent again.               *)
Batch(a, to) ==
    LET batch == SubSeq(usages[a], sentTo[a] + 1, to) IN
    /\ Working(a) /\ batch # <<>>
    /\ \/ /\ tokens' = monotonic_token_total(tokens, extract_incremental_tokens(batch))
          /\ sentTo' = [sentTo EXCEPT ![a] = to]
          /\ UNCHANGED tokFaults
       \/ TokFault /\ sentTo' = [sentTo EXCEPT ![a] = to] /\ UNCHANGED tokens
       \/ /\ TokFault /\ UNCHANGED sentTo
          /\ tokens' = monotonic_token_total(tokens, extract_incremental_tokens(batch))
    /\ UNCHANGED <<subTotals, resultUse, usages, over, attempt, outcome, lifecycle>>

Event(kind, a, applied) == [kind |-> kind, total |-> resultUse[a], applied |-> applied]

(* session_complete, after the last flush: it changes the task unless that *)
(* still waits (the report that ended the wait was lost).                  *)
SessionComplete(a) ==
    /\ Working(a) /\ sentTo[a] = Len(usages[a])
    /\ over' = [over EXCEPT ![a] = "ok"]
    /\ \/ /\ tokens' = monotonic_token_total(tokens, resultUse[a])
          /\ outcome' = "succeeded"
          /\ lifecycle' = Append(lifecycle, Event("complete", a, TRUE))
          /\ UNCHANGED tokFaults
       \/ /\ TokFault
          /\ lifecycle' = Append(lifecycle, Event("complete", a, FALSE))
          /\ UNCHANGED <<tokens, outcome>>
       \/ TokFault /\ UNCHANGED <<tokens, outcome, lifecycle>>
    /\ UNCHANGED <<subTotals, resultUse, usages, sentTo, attempt>>

(* session_error or session_timeout, whatever was flushed; a total of zero *)
(* is not applied.                                                         *)
SessionError(a) ==
    /\ Working(a)
    /\ over' = [over EXCEPT ![a] = "failed"]
    /\ \/ /\ tokens' = IF resultUse[a] = 0 THEN tokens
                       ELSE monotonic_token_total(tokens, resultUse[a])
          /\ outcome' = "failed"
          /\ lifecycle' = Append(lifecycle, Event("error", a, TRUE))
          /\ UNCHANGED tokFaults
       \/ TokFault /\ UNCHANGED <<tokens, outcome, lifecycle>>
    /\ UNCHANGED <<subTotals, resultUse, usages, sentTo, attempt>>

RuntimeKilled(a) ==
    /\ Working(a) /\ TokFault
    /\ over' = [over EXCEPT ![a] = "failed"]
    /\ UNCHANGED <<subTotals, resultUse, usages, sentTo, taskUse>>

-----------------------------------------------------------------------------
(* The session manager and the API. *)

Latest(kind) ==
    LET at == {i \in 1..Len(lifecycle) : lifecycle[i].kind = kind} IN
    IF at = {} THEN <<>> ELSE <<lifecycle[Max(at)]>>

(* The event the monitor takes the totals from.                            *)
lifecycle_data == IF Latest("complete") # <<>> THEN Latest("complete") ELSE Latest("error")

(* monitor_containers for one exited runtime, whichever attempt it is of:  *)
(* without an event the total is zero.                                     *)
Monitor(a) ==
    /\ over[a] \in {"ok", "failed"}
    /\ tokens' = IF lifecycle_data = <<>> THEN 0 ELSE lifecycle_data[1].total
    /\ outcome' = IF Latest("error") = <<>> /\ over[a] = "ok" THEN "succeeded" ELSE "failed"
    /\ over' = [over EXCEPT ![a] = "gone"]
    /\ UNCHANGED <<subTotals, resultUse, usages, sentTo, attempt, lifecycle, tokFaults>>

(* A sweep gives the task up; its runtime may go on.                       *)
GiveUpTask ==
    /\ outcome = "running"
    /\ outcome' = "failed"
    /\ UNCHANGED <<runtimeUse, attempt, tokens, lifecycle, tokFaults>>

RerunTask ==
    /\ outcome = "failed" /\ attempt < MaxAttempts
    /\ attempt' = attempt + 1 /\ tokens' = 0 /\ outcome' = "running" /\ lifecycle' = <<>>
    /\ UNCHANGED <<runtimeUse, tokFaults>>

TokNext ==
    \/ \E a \in Attempts :
          \/ \E n \in 1..MaxTokens : ResultUsage(a, n) \/ \E k \in Subagents : SubagentUsage(a, k, n)
          \/ \E to \in 1..Len(usages[a]) : Batch(a, to)
          \/ SessionComplete(a) \/ SessionError(a) \/ RuntimeKilled(a) \/ Monitor(a)
    \/ GiveUpTask \/ RerunTask

-----------------------------------------------------------------------------
Usage(a) == Max({SumFunction(subTotals[a])} \cup {usages[a][i] : i \in 1..Len(usages[a])})

(* tokens_used never says more than one attempt of the task has used: what *)
(* is reported twice, by two runtimes or both as a batch and as a final    *)
(* total is not counted twice.  And the total of the completion on record  *)
(* is counted, whatever is reported or swept afterwards, in particular     *)
(* after the monitor, which replaces the count, has seen a runtime of any  *)
(* attempt.                                                                *)
TokensCounted ==
    /\ \E a \in Attempts : tokens <= Usage(a)
    /\ Latest("complete") # <<>> /\ Latest("complete")[1].applied =>
          tokens >= Latest("complete")[1].total

-----------------------------------------------------------------------------
TokSpec == TokInit /\ [][TokNext]_tokVars

(* The inductive invariant behind it.                                      *)

Events == [kind : {"complete", "error"}, total : Nat, applied : BOOLEAN]

TokTypeOK ==
    /\ subTotals \in [Attempts -> [Subagents -> Nat]]
    /\ resultUse \in [Attempts -> Nat] /\ usages \in [Attempts -> Seq(Nat)]
    /\ sentTo \in [Attempts -> Nat] /\ over \in [Attempts -> {"no", "ok", "failed", "gone"}]
    /\ attempt \in Attempts /\ tokens \in Nat /\ lifecycle \in Seq(Events)

(* Some usage message says as much: what was counted, and every total that *)
(* may still be counted, was said by a runtime before.                     *)
Said(by, n) == n > 0 => \E a \in Attempts : \E i \in 1..Len(by[a]) : n <= by[a][i]

SaidInv ==
    /\ Said(usages, tokens)
    /\ \A a \in Attempts : Said(usages, resultUse[a])
    /\ \A i \in 1..Len(lifecycle) : Said(usages, lifecycle[i].total)

LastOf(kind, i) ==
    lifecycle[i].kind = kind /\ \A j \in (i + 1)..Len(lifecycle) : lifecycle[j].kind # kind

CompletionInv ==
    \A i \in 1..Len(lifecycle) :
        LastOf("complete", i) /\ lifecycle[i].applied => tokens >= lifecycle[i].total

TokInv == TokTypeOK /\ SaidInv /\ CompletionInv
=============================================================================
