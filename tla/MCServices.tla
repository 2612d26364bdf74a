----------------------------- MODULE MCServices -----------------------------
(***************************************************************************)
(* The services around the queue, side by side: approvals, the message     *)
(* listener, workflow releases, schedules, token counts, the retention     *)
(* pass and agent memory.  They share no state, so a behaviour belongs to  *)
(* one of them: `part` is chosen at the start and the others stay as they  *)
(* begin.  For the retention pass the choice is also what moves beside it: *)
(* the tasks, the Knowledge Source, or the learning bank and the outcome   *)
(* of the pass.                                                            *)
(***************************************************************************)
EXTENDS Approvals, MCMessageIngress, MCWorkflowRelease, Schedules, TokenUsage, MCUpkeep

CONSTANTS j1, j2, y1, y2

VARIABLE part

Parts  == {"approvals", "messages", "releases", "schedules", "tokens", "memory"} \cup PassParts
mcVars == <<vars, ingVars, relVars, schedVars, tokVars, hkVars, memVars, part>>

(* A schedule is declared for an agent of its own; only y2 declares j2,    *)
(* and disabled.                                                           *)
MCAgentOf   == [j \in Jobs |-> j]
MCDeclared  == [v \in Versions |-> IF v = y1 THEN {j1} ELSE {j1, j2}]
MCEnabledIn == [v \in Versions |-> [j \in Jobs |-> j = j1]]

(* Requests, approval ids and clicks are interchangeable until they are    *)
(* used: they are used in this order.                                      *)
InOrder(ids, Used(_)) ==
    \A i, j \in DOMAIN ids :
        i < j /\ ~Used(ids[i]) /\ ~Used(ids[j]) /\ Used(ids[j])' => Used(ids[i])'

Asked(q)   == ask[q] # "idle"
Taken(r)   == row[r].status # "absent" \/ \E q \in Requests : found[q] = r
Clicked(c) == click[c].pc # "idle"

Interchangeable ==
    /\ InOrder(<<"q1", "q2", "q3">>, Asked)
    /\ InOrder(<<"r1", "r2", "r3", "r4">>, Taken)
    /\ InOrder(<<"c1", "c2">>, Clicked)

MCInit ==
    /\ part \in Parts
    /\ Init /\ IngInit /\ RelInit /\ SchedInit /\ TokInit /\ HkInit /\ MemInit
    /\ part # "messages"  => dialog.total = Questions /\ provider = "mattermost"
    /\ part # "releases"  => target = "root"
    /\ part # "schedules" => repo = y1
    /\ part # "memory"    => layout = "volume"

(* Everything but the part p stays. *)
Alone(p) ==
    /\ IF p = "pass" THEN part \in PassParts ELSE part = p
    /\ p # "approvals" => UNCHANGED vars
    /\ p # "messages"  => UNCHANGED ingVars
    /\ p # "releases"  => UNCHANGED relVars
    /\ p # "schedules" => UNCHANGED schedVars
    /\ p # "tokens"    => UNCHANGED tokVars
    /\ p # "memory"    => UNCHANGED memVars
    /\ p # "pass"      => UNCHANGED hkVars

MCNext ==
    /\ UNCHANGED part
    /\ \/ Alone("approvals") /\ Next /\ Interchangeable
       \/ Alone("messages") /\ IngNext
       \/ Alone("releases") /\ RelNext
       \/ Alone("schedules") /\ SchedNext
       \/ Alone("tokens") /\ TokNext
       \/ Alone("memory") /\ MemNext
       \/ Alone("pass") /\ Pass(part)

MCSpec == MCInit /\ [][MCNext]_mcVars
=============================================================================
