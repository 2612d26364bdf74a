----------------------------- MODULE Approvals -----------------------------
(***************************************************************************)
(* The approval broker: can_use_tool and _request_operator_approval of     *)
(* runtime/session_entrypoint.py ask, apply_approval_event and             *)
(* ensure_approval_prompt_posted keep one approvals row per open request,  *)
(* and resolve_approval_action of gateway/message.py applies what an       *)
(* operator clicks.                                                        *)
(*                                                                         *)
(* One task and one tool: every query of the broker is restricted to such  *)
(* a pair.  The requests are the successive or parallel calls of that tool.*)
(* An event is handled under the row lock of the task; a click takes no    *)
(* lock, so it works on what it read.                                      *)
(***************************************************************************)
EXTENDS FiniteSets, Naturals

CONSTANTS
    Requests,     \* approval requests of the runtime: its request_ids
    Rows,         \* ids of approvals rows
    Clicks,       \* calls of resolve_approval_action
    DeliverySaved,\* whether the ORM writes gateway_delivery back
    MaxFaults,    \* bound: events that are lost, prompts that fail to post
    None          \* no row, no request, no holder

ASSUME ApprovalAssumptions ==
    /\ IsFiniteSet(Rows)
    /\ DeliverySaved \in BOOLEAN
    /\ MaxFaults \in Nat
    /\ None \notin Requests \cup Rows \cup Clicks
    /\ Requests \cap Clicks = {}

Resolved == {"approved", "rejected"}
RowType  == [status : {"absent", "pending"} \cup Resolved,
             req    : Requests \cup {None}]   \* metadata.approval_requested

ClickRecord ==
    [pc : {"idle", "read", "found", "done"}, r : Rows \cup {None},
     q : Requests \cup {None}, d : Resolved, found : Rows \cup {None},
     seen : Requests \cup {None}]

VARIABLES
    row,          \* the approvals table
    rowlock,      \* who has an uncommitted UPDATE of the row
    tasklock,     \* the request whose event holds the task row
    ask,          \* where each request is, in the runtime and the gateway
    found,        \* the open row its event found, or the one it inserts
    seen,         \* the request_id in the metadata its event read
    prompts,      \* prompts posted: the row and the request their buttons name
    undelivered,  \* requests whose prompt could not be posted
    click,        \* where each click is, and what it found
    clicked,      \* history: the decisions operators were told were applied
    faults        \* faults so far (bound)

event == <<tasklock, found, seen>>
vars  == <<row, rowlock, event, ask, prompts, undelivered, click, clicked, faults>>

-----------------------------------------------------------------------------
(* _find_open_approval: the pending rows of the task and tool. *)
Open == {r \in Rows : row[r].status = "pending"}

(* Ids nobody has taken yet (uuid4). *)
Fresh == {r \in Rows : row[r].status = "absent" /\ \A q \in Requests : found[q] # r}

(* A call of resolve_approval_action: the row, request and decision of the *)
(* button, then the open row it found and the request_id read with it.     *)
ClickState(pc, r, q, d, f, s) ==
    [pc |-> pc, r |-> r, q |-> q, d |-> d, found |-> f, seen |-> s]
NoClick == ClickState("idle", None, None, "approved", None, None)
Done    == ClickState("done", None, None, "approved", None, None)

Init ==
    /\ row = [r \in Rows |-> [status |-> "absent", req |-> None]]
    /\ rowlock = [r \in Rows |-> None]
    /\ tasklock = None
    /\ ask = [q \in Requests |-> "idle"]
    /\ found = [q \in Requests |-> None]
    /\ seen = [q \in Requests |-> None]
    /\ prompts = {}
    /\ undelivered = {}
    /\ click = [c \in Clicks |-> NoClick]
    /\ clicked = {}
    /\ faults = 0

Fault == faults < MaxFaults /\ faults' = faults + 1

-----------------------------------------------------------------------------
(* Events of the runtime, handled by receive_event *)

(* Mutant: the task row is read without FOR UPDATE.                        *)
FindOpen_Unlocked(q) ==
    /\ \/ /\ Open = {}
          /\ found' = [found EXCEPT ![q] = None]
          /\ seen' = [seen EXCEPT ![q] = None]
       \/ \E r \in Open :
             /\ found' = [found EXCEPT ![q] = r]
             /\ seen' = [seen EXCEPT ![q] = row[r].req]
    /\ UNCHANGED tasklock

(* SELECT the task FOR UPDATE, then the latest pending approval. *)
FindOpen(q) ==
    /\ tasklock = None
    /\ tasklock' = q
    /\ \/ /\ Open = {}
          /\ found' = [found EXCEPT ![q] = None]
          /\ seen' = [seen EXCEPT ![q] = None]
       \/ \E r \in Open :
             /\ found' = [found EXCEPT ![q] = r]
             /\ seen' = [seen EXCEPT ![q] = row[r].req]

(* The transaction of the event of q commits. *)
EndEvent(q) ==
    /\ tasklock' = IF tasklock = q THEN None ELSE tasklock
    /\ found' = [found EXCEPT ![q] = None]
    /\ seen' = [seen EXCEPT ![q] = None]

(* can_use_tool reports permission_callback ...                            *)
CallbackFinds(q) ==
    /\ ask[q] = "idle"
    /\ FindOpen(q)
    /\ ask' = [ask EXCEPT ![q] = "callback"]
    /\ UNCHANGED <<row, rowlock, prompts, undelivered, click, clicked, faults>>

(* ... whose handler inserts a pending row, or writes the metadata it read *)
(* back into the open one.  The status is not among the columns written.   *)
CallbackCommits(q) ==
    /\ ask[q] = "callback"
    /\ \/ /\ found[q] # None /\ rowlock[found[q]] = None
          /\ row' = [row EXCEPT ![found[q]].req = seen[q]]
       \/ /\ found[q] = None
          /\ \E r \in Fresh :
                row' = [row EXCEPT ![r] = [status |-> "pending", req |-> None]]
    /\ EndEvent(q)
    /\ ask' = [ask EXCEPT ![q] = "called"]
    /\ UNCHANGED <<rowlock, prompts, undelivered, click, clicked, faults>>

(* _request_operator_approval reports approval_requested ...               *)
RequestFinds(q) ==
    /\ ask[q] = "called"
    /\ FindOpen(q)
    /\ ask' = [ask EXCEPT ![q] = "request"]
    /\ UNCHANGED <<row, rowlock, prompts, undelivered, click, clicked, faults>>

(* Mutant: the delivery that was recorded is always found again.           *)
NeedsPrompt_Once(r) == \A q \in Requests : <<r, q>> \notin prompts

(* ensure_approval_prompt_posted skips a row whose metadata already holds  *)
(* a post id.  The post id is put into the dictionary the ORM object holds *)
(* and that same dictionary is assigned back: SQLAlchemy compares it with  *)
(* itself, sees no change and leaves the column out of the UPDATE, so a    *)
(* later event does not find it (DeliverySaved = FALSE).                   *)
NeedsPrompt(r) == DeliverySaved => \A q \in Requests : <<r, q>> \notin prompts

(* ... the row is flushed, which locks it, and the prompt is posted before *)
(* the transaction commits.                                                *)
RequestPosts(q) ==
    /\ ask[q] = "request"
    /\ \E r \in IF found[q] = None THEN Fresh ELSE {found[q]} :
          /\ rowlock[r] = None
          /\ rowlock' = [rowlock EXCEPT ![r] = q]
          /\ found' = [found EXCEPT ![q] = r]
          /\ \/ NeedsPrompt(r) /\ prompts' = prompts \cup {<<r, q>>}
                               /\ UNCHANGED <<undelivered, faults>>
             \/ ~NeedsPrompt(r) /\ UNCHANGED <<prompts, undelivered, faults>>
             \/ NeedsPrompt(r) /\ Fault /\ undelivered' = undelivered \cup {q}
                               /\ UNCHANGED prompts
    /\ ask' = [ask EXCEPT ![q] = "posted"]
    /\ UNCHANGED <<row, tasklock, seen, click, clicked>>

RequestCommits(q) ==
    /\ ask[q] = "posted"
    /\ row' = [row EXCEPT ![found[q]] =
          [status |-> IF @.status = "absent" THEN "pending" ELSE @.status, req |-> q]]
    /\ rowlock' = [rowlock EXCEPT ![found[q]] = None]
    /\ EndEvent(q)
    /\ ask' = [ask EXCEPT ![q] = "polling"]
    /\ UNCHANGED <<prompts, undelivered, click, clicked, faults>>

(* report_event gives up on a failed request and the runtime goes on.      *)
EventLost(q) ==
    /\ Fault
    /\ \/ ask[q] = "idle"   /\ ask' = [ask EXCEPT ![q] = "called"]
       \/ ask[q] = "called" /\ ask' = [ask EXCEPT ![q] = "polling"]
    /\ UNCHANGED <<row, rowlock, event, prompts, undelivered, click, clicked>>

-----------------------------------------------------------------------------
(* The runtime polls get_runtime_approval_status *)

(* find_approval_by_request: the row whose metadata names the request.     *)
Answers(q) == {row[r].status : r \in {s \in Rows : row[s].req = q}} \cap Resolved

Poll(q) ==
    /\ ask[q] = "polling"
    /\ \E a \in Answers(q) : ask' = [ask EXCEPT ![q] = a]
    /\ UNCHANGED <<row, rowlock, event, prompts, undelivered, click, clicked, faults>>

(* Mutant: a request nobody answers is let through.                        *)
WaitTimeout_FailsOpen(q) ==
    /\ ask[q] = "polling"
    /\ ask' = [ask EXCEPT ![q] = "approved"]
    /\ UNCHANGED <<row, rowlock, event, prompts, undelivered, click, clicked, faults>>

(* OPERATOR_APPROVAL_TIMEOUT_SEC: the call is denied and the row stays     *)
(* pending, to be found by the next request for the tool.                  *)
WaitTimeout(q) ==
    /\ ask[q] = "polling"
    /\ ask' = [ask EXCEPT ![q] = "timeout"]
    /\ UNCHANGED <<row, rowlock, event, prompts, undelivered, click, clicked, faults>>

-----------------------------------------------------------------------------
(* resolve_approval_action *)

(* The button names the row and the request.  The action is refused when   *)
(* the row does not carry the request, and answered "already resolved"     *)
(* when it is not pending.                                                 *)
Accepts(p) == row[p[1]].req = p[2] /\ row[p[1]].status = "pending"

(* A button is clicked, of Mattermost or of Slack.                         *)
ClickReads(c) ==
    /\ click[c].pc = "idle"
    /\ \E p \in prompts, d \in Resolved :
          click' = [click EXCEPT ![c] =
              IF Accepts(p)
                THEN ClickState("read", p[1], p[2], d, None, None)
                ELSE Done]
    /\ UNCHANGED <<row, rowlock, event, ask, prompts, undelivered, clicked, faults>>

(* record_approval_result goes through apply_approval_event, which looks   *)
(* for the open row once more.  An object already in the session keeps the *)
(* metadata it was read with.                                              *)
ClickFinds(c) ==
    LET k == click[c] IN
    /\ k.pc = "read"
    /\ \/ /\ Open = {}
          /\ click' = [click EXCEPT ![c] = ClickState("found", k.r, k.q, k.d, None, None)]
       \/ \E r \in Open :
             click' = [click EXCEPT ![c] = ClickState("found", k.r, k.q, k.d, r,
                                              IF r = k.r THEN k.q ELSE row[r].req)]
    /\ UNCHANGED <<row, rowlock, event, ask, prompts, undelivered, clicked, faults>>

(* The decision is written into the row that was found, with the metadata  *)
(* that was read, or into a new row that answers no request.               *)
ClickWrites(c) ==
    LET k == click[c] IN
    /\ k.pc = "found"
    /\ \/ /\ k.found # None /\ rowlock[k.found] = None
          /\ row' = [row EXCEPT ![k.found] = [status |-> k.d, req |-> k.seen]]
       \/ /\ k.found = None
          /\ \E r \in Fresh : row' = [row EXCEPT ![r].status = k.d]
    /\ clicked' = clicked \cup {<<k.q, k.d>>}
    /\ click' = [click EXCEPT ![c] = Done]
    /\ UNCHANGED <<rowlock, event, ask, prompts, undelivered, faults>>

-----------------------------------------------------------------------------
Next ==
    \/ \E q \in Requests :
          \/ CallbackFinds(q) \/ CallbackCommits(q)
          \/ RequestFinds(q) \/ RequestPosts(q) \/ RequestCommits(q)
          \/ EventLost(q)
          \/ Poll(q) \/ WaitTimeout(q)
    \/ \E c \in Clicks : ClickReads(c) \/ ClickFinds(c) \/ ClickWrites(c)

Spec == Init /\ [][Next]_vars

-----------------------------------------------------------------------------
(* Properties *)

(* Every variable keeps its domain.                                        *)
TypeOK ==
    /\ row \in [Rows -> RowType]
    /\ rowlock \in [Rows -> Requests \cup {None}]
    /\ tasklock \in Requests \cup {None}
    /\ ask \in [Requests -> {"idle", "callback", "called", "request", "posted",
                             "polling", "timeout"} \cup Resolved]
    /\ found \in [Requests -> Rows \cup {None}]
    /\ seen \in [Requests -> Requests \cup {None}]
    /\ prompts \subseteq Rows \X Requests
    /\ undelivered \subseteq Requests
    /\ click \in [Clicks -> ClickRecord]
    /\ clicked \subseteq (Requests \cup {None}) \X Resolved
    /\ faults \in Nat

(* However the events of parallel tool calls, retries and clicks           *)
(* interleave, a task and tool have at most one pending approval: what     *)
(* _find_open_approval returns is the open request, and a click cannot     *)
(* resolve one of several.                                                 *)
OnePending == \A r, s \in Open : r = s

(* Why: the event that is about to insert a row holds the task row, and    *)
(* since only such an event makes a row pending, it still finds none open. *)
EventInv ==
    \A q \in Requests :
        /\ ask[q] \in {"callback", "request", "posted"} => tasklock = q
        /\ ask[q] \in {"callback", "request"} =>
              IF found[q] = None THEN Open = {} ELSE row[found[q]].status # "absent"
        /\ ask[q] = "posted" =>
              /\ found[q] \in Rows
              /\ row[found[q]].status = "absent" => Open = {}

(* An approved row and a click on its way carry a decision of an operator. *)
DecisionInv ==
    /\ \A c \in Clicks : click[c].pc \in {"read", "found"} => click[c].q \in Requests
    /\ \A r \in Rows : row[r].status = "approved" =>
          \E p \in Requests : <<p, "approved">> \in clicked

(* No chain of merges, lost events, failed prompts and timeouts lets a     *)
(* gated call through unless some operator approved the tool.              *)
NoApprovalWithoutClick ==
    (\E q \in Requests : ask[q] = "approved")
       => \E p \in Requests : <<p, "approved">> \in clicked

(* The two together, as an inductive invariant. *)
BrokerInv ==
    TypeOK /\ EventInv /\ OnePending /\ DecisionInv /\ NoApprovalWithoutClick

(* An open request that is being waited for can be answered: its prompt is *)
(* on the message bus with buttons that name it, unless posting failed.    *)
(* That includes a request merged into a row left by an earlier one.       *)
PromptAnswerable ==
    \A r \in Open : \A q \in Requests :
        row[r].req = q /\ ask[q] = "polling" =>
            <<r, q>> \in prompts \/ q \in undelivered

(* Why: whatever request_id is in the metadata of a row, was read from it  *)
(* or is about to be written into it was offered with that row; prompts    *)
(* and undelivered only grow.                                              *)
OnTheBus(r, q) == <<r, q>> \in prompts \/ q \in undelivered
PromptInv ==
    /\ \A r \in Rows, q \in Requests : row[r].req = q => OnTheBus(r, q)
    /\ \A p \in Requests :
          /\ ask[p] = "callback" /\ found[p] # None /\ seen[p] # None => OnTheBus(found[p], seen[p])
          /\ ask[p] = "posted" => OnTheBus(found[p], p)
    /\ \A c \in Clicks :
          /\ click[c].pc \in {"read", "found"} => <<click[c].r, click[c].q>> \in prompts
          /\ click[c].pc = "found" /\ click[c].found # None /\ click[c].seen # None =>
                OnTheBus(click[c].found, click[c].seen)

(* docs/security.md: the runtime proceeds "based on that decision - the    *)
(* model never has an unmediated path to run a gated action".  Read for    *)
(* each request: a call goes ahead only if an operator approved that call. *)
OwnDecision ==
    \A q \in Requests : ask[q] = "approved" => <<q, "approved">> \in clicked
=============================================================================
