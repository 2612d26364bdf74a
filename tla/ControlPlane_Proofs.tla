------------------------ MODULE ControlPlane_Proofs ------------------------
(***************************************************************************)
(* Proofs about two services of the control plane: the approval broker     *)
(* (Approvals), for any number of requests, rows and clicks, and the       *)
(* releases of workflows (WorkflowRelease), for any number of refs,        *)
(* workflows, syncs and launches.                                          *)
(***************************************************************************)
EXTENDS Approvals, WorkflowRelease, FiniteSetTheorems, TLAPS

-----------------------------------------------------------------------------
(* The approval broker. *)

(* Every initial state satisfies the invariant of the broker. *)
LEMMA InitBroker == Init => BrokerInv
  BY ApprovalAssumptions
     DEF Init, BrokerInv, TypeOK, RowType, Resolved, NoClick, ClickState, ClickRecord, EventInv, OnePending,
         Open, DecisionInv, NoApprovalWithoutClick

(* What an event finds is the open row, with the request it carries. *)
LEMMA FindOpenType ==
    ASSUME TypeOK, NEW q \in Requests, FindOpen(q)
    PROVE  /\ tasklock' \in Requests \cup {None}
           /\ found' \in [Requests -> Rows \cup {None}]
           /\ seen' \in [Requests -> Requests \cup {None}]
  BY DEF FindOpen, Open, TypeOK, RowType

(* Type correctness is preserved by the steps of a request. *)
LEMMA RequestType ==
    ASSUME TypeOK, EventInv, NEW q \in Requests,
           \/ CallbackFinds(q) \/ CallbackCommits(q) \/ RequestFinds(q)
           \/ RequestPosts(q) \/ RequestCommits(q) \/ EventLost(q)
           \/ Poll(q) \/ WaitTimeout(q)
    PROVE  TypeOK'
<1> USE ApprovalAssumptions DEF Resolved
<1>1. CASE CallbackFinds(q)
  BY <1>1, FindOpenType DEF CallbackFinds, TypeOK
<1>2. CASE CallbackCommits(q)
  <2>1. row' \in [Rows -> RowType]
    BY <1>2, SMTT(40) DEF CallbackCommits, Fresh, TypeOK, RowType
  <2> QED
    BY <1>2, <2>1 DEF CallbackCommits, EndEvent, TypeOK
<1>3. CASE RequestFinds(q)
  BY <1>3, FindOpenType DEF RequestFinds, TypeOK
<1>4. CASE RequestPosts(q)
  <2>1. PICK r \in Rows :
          /\ rowlock' = [rowlock EXCEPT ![r] = q]
          /\ found' = [found EXCEPT ![q] = r]
          /\ prompts' = prompts \/ prompts' = prompts \cup {<<r, q>>}
          /\ undelivered' = undelivered \/ undelivered' = undelivered \cup {q}
          /\ faults' = faults \/ faults' = faults + 1
    BY <1>4 DEF RequestPosts, Fresh, Fault, TypeOK
  <2>2. prompts' \subseteq Rows \X Requests /\ undelivered' \subseteq Requests
    BY <2>1 DEF TypeOK
  <2> QED
    BY <1>4, <2>1, <2>2 DEF RequestPosts, TypeOK
<1>5. CASE RequestCommits(q)
  <2>1. found[q] \in Rows
    BY <1>5 DEF RequestCommits, EventInv
  <2>2. row' \in [Rows -> RowType]
    BY <1>5, <2>1 DEF RequestCommits, TypeOK, RowType
  <2> QED
    BY <1>5, <2>2 DEF RequestCommits, EndEvent, TypeOK
<1>6. CASE EventLost(q)
  BY <1>6 DEF EventLost, Fault, TypeOK, event
<1>7. CASE Poll(q)
  BY <1>7 DEF Poll, Answers, TypeOK, event
<1>8. CASE WaitTimeout(q)
  BY <1>8 DEF WaitTimeout, TypeOK, event
<1> QED
  BY <1>1, <1>2, <1>3, <1>4, <1>5, <1>6, <1>7, <1>8

(* A click is described by a record of its type. *)
LEMMA ClickStateType ==
    ASSUME NEW pc \in {"idle", "read", "found", "done"}, NEW r \in Rows \cup {None},
           NEW q \in Requests \cup {None}, NEW d \in Resolved,
           NEW f \in Rows \cup {None}, NEW s \in Requests \cup {None}
    PROVE  ClickState(pc, r, q, d, f, s) \in ClickRecord
  BY DEF ClickState, ClickRecord

(* Type correctness is preserved by the steps of a click. *)
LEMMA ClickType ==
    ASSUME TypeOK, NEW c \in Clicks, ClickReads(c) \/ ClickFinds(c) \/ ClickWrites(c)
    PROVE  TypeOK'
<1> DEFINE k == click[c]
<1>0. /\ k.r \in Rows \cup {None} /\ k.q \in Requests \cup {None}
      /\ k.d \in Resolved /\ k.found \in Rows \cup {None}
      /\ k.seen \in Requests \cup {None}
  BY DEF TypeOK, ClickRecord
<1>D. Done \in ClickRecord
  BY ClickStateType DEF Done, Resolved
<1>1. CASE ClickReads(c)
  <2>1. PICK p \in prompts, d \in Resolved :
          \/ click' = [click EXCEPT ![c] = ClickState("read", p[1], p[2], d, None, None)]
          \/ click' = [click EXCEPT ![c] = Done]
    BY <1>1 DEF ClickReads
  <2>2. p[1] \in Rows /\ p[2] \in Requests
    BY DEF TypeOK
  <2>3. ClickState("read", p[1], p[2], d, None, None) \in ClickRecord
    BY <2>2, ClickStateType
  <2>4. click' \in [Clicks -> ClickRecord]
    BY <2>1, <2>3, <1>D DEF TypeOK
  <2> QED
    BY <1>1, <2>4 DEF ClickReads, TypeOK, event
<1>2. CASE ClickFinds(c)
  <2>1. \/ click' = [click EXCEPT ![c] = ClickState("found", k.r, k.q, k.d, None, None)]
        \/ \E r \in Open : click' = [click EXCEPT ![c] =
               ClickState("found", k.r, k.q, k.d, r, IF r = k.r THEN k.q ELSE row[r].req)]
    BY <1>2 DEF ClickFinds
  <2>2. ClickState("found", k.r, k.q, k.d, None, None) \in ClickRecord
    BY <1>0, ClickStateType
  <2>3. \A r \in Open : r \in Rows /\ row[r].req \in Requests \cup {None}
    BY DEF Open, TypeOK, RowType
  <2>4. \A r \in Open :
          ClickState("found", k.r, k.q, k.d, r, IF r = k.r THEN k.q ELSE row[r].req)
             \in ClickRecord
    BY <1>0, <2>3, ClickStateType
  <2>5. click' \in [Clicks -> ClickRecord]
    BY <2>1, <2>2, <2>4 DEF TypeOK
  <2> QED
    BY <1>2, <2>5 DEF ClickFinds, TypeOK, event
<1>3. CASE ClickWrites(c)
  <2>1. row' \in [Rows -> RowType]
    BY <1>0, <1>3 DEF ClickWrites, Fresh, TypeOK, RowType
  <2>2. clicked' \subseteq (Requests \cup {None}) \X Resolved
    BY <1>0, <1>3 DEF ClickWrites, TypeOK
  <2>3. click' \in [Clicks -> ClickRecord]
    BY <1>D, <1>3 DEF ClickWrites, TypeOK
  <2> QED
    BY <1>3, <2>1, <2>2, <2>3 DEF ClickWrites, TypeOK, event
<1> QED
  BY <1>1, <1>2, <1>3

-----------------------------------------------------------------------------
(* A click resolves one row and touches no other. *)
LEMMA ClickResolves ==
    ASSUME TypeOK, NEW c \in Clicks, ClickWrites(c)
    PROVE  \E r \in Rows : /\ row'[r].status = click[c].d /\ click[c].d \in Resolved
                           /\ \A s \in Rows \ {r} : row'[s] = row[s]
<1>1. click[c].d \in Resolved /\ click[c].found \in Rows \cup {None}
  BY DEF TypeOK, ClickRecord
<1>2. CASE click[c].found # None
  <2>1. row' = [row EXCEPT ![click[c].found] =
                   [status |-> click[c].d, req |-> click[c].seen]]
    BY <1>2 DEF ClickWrites
  <2> QED  BY <1>1, <1>2, <2>1 DEF TypeOK, RowType
<1>3. CASE click[c].found = None
  <2>1. PICK r \in Rows : row' = [row EXCEPT ![r].status = click[c].d]
    BY <1>3 DEF ClickWrites, Fresh
  <2> QED  BY <1>1, <2>1 DEF TypeOK, RowType
<1> QED
  BY <1>2, <1>3

(* No step of a click, of a poll or of a lookup opens a row; the two       *)
(* commits open one only when none was open.                               *)
LEMMA RowsOpened ==
    ASSUME BrokerInv, [Next]_vars
    PROVE  \/ Open' \subseteq Open
           \/ \E q \in Requests : /\ CallbackCommits(q) \/ RequestCommits(q)
                                  /\ Open = {}
                                  /\ \A r, s \in Open' : r = s
<1> USE ApprovalAssumptions DEF BrokerInv, TypeOK, RowType, Resolved
<1>1. ASSUME NEW q \in Requests, CallbackCommits(q)
      PROVE  \/ Open' \subseteq Open
             \/ Open = {} /\ \A r, s \in Open' : r = s
  <2>1. CASE found[q] # None
    BY <1>1, <2>1 DEF CallbackCommits, Open
  <2>2. CASE found[q] = None
    <3>1. Open = {}
      BY <1>1, <2>2 DEF CallbackCommits, EventInv
    <3> QED  BY <1>1, <2>2, <3>1 DEF CallbackCommits, Open, Fresh
  <2> QED  BY <2>1, <2>2
<1>2. ASSUME NEW q \in Requests, RequestCommits(q)
      PROVE  \/ Open' \subseteq Open
             \/ Open = {} /\ \A r, s \in Open' : r = s
  <2>1. found[q] \in Rows /\ (row[found[q]].status = "absent" => Open = {})
    BY <1>2 DEF RequestCommits, EventInv
  <2>2. CASE row[found[q]].status = "absent"
    BY <1>2, <2>1, <2>2 DEF RequestCommits, Open
  <2>3. CASE row[found[q]].status # "absent"
    BY <1>2, <2>1, <2>3 DEF RequestCommits, Open
  <2> QED  BY <2>2, <2>3
<1>3. ASSUME NEW q \in Requests,
             \/ CallbackFinds(q) \/ RequestFinds(q) \/ RequestPosts(q)
             \/ EventLost(q) \/ Poll(q) \/ WaitTimeout(q)
      PROVE  UNCHANGED row
  BY <1>3 DEF CallbackFinds, RequestFinds, RequestPosts, EventLost, Poll, WaitTimeout
<1>4. ASSUME NEW c \in Clicks, ClickReads(c) \/ ClickFinds(c) PROVE UNCHANGED row
  BY <1>4 DEF ClickReads, ClickFinds
<1>5. ASSUME NEW c \in Clicks, ClickWrites(c) PROVE Open' \subseteq Open
  BY <1>5, ClickResolves DEF Open
<1>6. CASE UNCHANGED vars
  BY <1>6 DEF vars, Open
<1> QED
  BY <1>1, <1>2, <1>3, <1>4, <1>5, <1>6 DEF Next, Open

(* The events of a task are serialised by its row lock, and what the       *)
(* holder found stays true until it commits.                               *)
LEMMA EventStep == BrokerInv /\ [Next]_vars => EventInv'
<1> SUFFICES ASSUME BrokerInv, [Next]_vars, NEW p \in Requests
             PROVE  (/\ ask[p] \in {"callback", "request", "posted"} => tasklock = p
                     /\ ask[p] \in {"callback", "request"} =>
                          IF found[p] = None THEN Open = {}
                                             ELSE row[found[p]].status # "absent"
                     /\ ask[p] = "posted" =>
                           /\ found[p] \in Rows
                           /\ row[found[p]].status = "absent" => Open = {})'
  BY DEF EventInv
<1> DEFINE Goal == (/\ ask[p] \in {"callback", "request", "posted"} => tasklock = p
                    /\ ask[p] \in {"callback", "request"} =>
                          IF found[p] = None THEN Open = {}
                                             ELSE row[found[p]].status # "absent"
                    /\ ask[p] = "posted" =>
                          /\ found[p] \in Rows
                          /\ row[found[p]].status = "absent" => Open = {})'
<1> USE ApprovalAssumptions DEF BrokerInv, TypeOK, RowType, EventInv, Resolved
<1>1. ASSUME NEW q \in Requests, CallbackFinds(q) PROVE Goal
  BY <1>1 DEF CallbackFinds, FindOpen, Open
<1>2. ASSUME NEW q \in Requests, CallbackCommits(q) PROVE Goal
  BY <1>2 DEF CallbackCommits, EndEvent
<1>3. ASSUME NEW q \in Requests, RequestFinds(q) PROVE Goal
  BY <1>3 DEF RequestFinds, FindOpen, Open
<1>4. ASSUME NEW q \in Requests, RequestPosts(q) PROVE Goal
  <2>1. CASE p # q
    BY <1>4, <2>1 DEF RequestPosts, Open
  <2>2. CASE p = q
    <3>1. PICK r \in IF found[q] = None THEN Fresh ELSE {found[q]} :
            found' = [found EXCEPT ![q] = r]
      BY <1>4 DEF RequestPosts
    <3>2. CASE found[q] = None
      BY <1>4, <2>2, <3>1, <3>2 DEF RequestPosts, Fresh, Open
    <3>3. CASE found[q] # None
      BY <1>4, <2>2, <3>1, <3>3 DEF RequestPosts
    <3> QED  BY <3>2, <3>3
  <2> QED  BY <2>1, <2>2
<1>5. ASSUME NEW q \in Requests, RequestCommits(q) PROVE Goal
  BY <1>5 DEF RequestCommits, EndEvent
<1>6. ASSUME NEW q \in Requests, EventLost(q) \/ Poll(q) \/ WaitTimeout(q) PROVE Goal
  BY <1>6 DEF EventLost, Poll, Answers, WaitTimeout, event, Open
<1>7. ASSUME NEW c \in Clicks, ClickReads(c) \/ ClickFinds(c) PROVE Goal
  BY <1>7 DEF ClickReads, ClickFinds, event, Open
<1>8. ASSUME NEW c \in Clicks, ClickWrites(c) PROVE Goal
  <2>1. Open' \subseteq Open
    BY <1>8, ClickResolves DEF Open
  <2>2. UNCHANGED <<ask, tasklock, found>>
    BY <1>8 DEF ClickWrites, event
  <2>3. \A r \in Rows : row[r].status # "absent" => row'[r].status # "absent"
    BY <1>8, ClickResolves
  <2>4. ASSUME ask[p] = "posted", row'[found[p]].status = "absent"
        PROVE  row[found[p]].status = "absent"
    BY <2>3, <2>4
  <2> QED  BY <2>1, <2>2, <2>3, <2>4
<1>9. CASE UNCHANGED vars
  BY <1>9 DEF vars, event, Open
<1> QED
  BY <1>1, <1>2, <1>3, <1>4, <1>5, <1>6, <1>7, <1>8, <1>9 DEF Next

-----------------------------------------------------------------------------
(* At most one row is open after a step if it was so before. *)
LEMMA OneStep == BrokerInv /\ [Next]_vars => OnePending'
  BY RowsOpened DEF BrokerInv, OnePending

(* The decisions recorded so far are never forgotten. *)
LEMMA ClickedGrows == [Next]_vars => clicked \subseteq clicked'
  BY DEF Next, CallbackFinds, CallbackCommits, RequestFinds, RequestPosts,
     RequestCommits, EventLost, Poll, WaitTimeout, ClickReads, ClickFinds,
     ClickWrites, vars

(* Only a click of an operator makes a row approved. *)
LEMMA ApprovedByClick ==
    ASSUME BrokerInv, [Next]_vars, NEW r \in Rows, row'[r].status = "approved"
    PROVE  \/ row[r].status = "approved"
           \/ \E c \in Clicks : ClickWrites(c) /\ click[c].d = "approved"
<1> USE ApprovalAssumptions DEF BrokerInv, TypeOK, RowType, Resolved
<1>1. ASSUME NEW q \in Requests, CallbackCommits(q) PROVE row[r].status = "approved"
  BY <1>1 DEF CallbackCommits, Fresh
<1>2. ASSUME NEW q \in Requests, RequestCommits(q) PROVE row[r].status = "approved"
  BY <1>2 DEF RequestCommits, EventInv
<1>3. ASSUME NEW q \in Requests,
             \/ CallbackFinds(q) \/ RequestFinds(q) \/ RequestPosts(q)
             \/ EventLost(q) \/ Poll(q) \/ WaitTimeout(q)
      PROVE  UNCHANGED row
  BY <1>3 DEF CallbackFinds, RequestFinds, RequestPosts, EventLost, Poll, WaitTimeout
<1>4. ASSUME NEW c \in Clicks, ClickReads(c) \/ ClickFinds(c) PROVE UNCHANGED row
  BY <1>4 DEF ClickReads, ClickFinds
<1>5. ASSUME NEW c \in Clicks, ClickWrites(c)
      PROVE  row[r].status = "approved" \/ click[c].d = "approved"
  BY <1>5, ClickResolves
<1>6. CASE UNCHANGED vars
  BY <1>6 DEF vars
<1> QED
  BY <1>1, <1>2, <1>3, <1>4, <1>5, <1>6 DEF Next

(* A click that is under way names a request. *)
LEMMA ClickNames ==
    ASSUME BrokerInv, [Next]_vars, NEW c \in Clicks,
           click'[c].pc \in {"read", "found"}
    PROVE  click'[c].q \in Requests
<1> USE DEF BrokerInv, TypeOK, DecisionInv
<1>1. ASSUME NEW b \in Clicks, ClickReads(b) PROVE click'[c].q \in Requests
  <2>1. PICK p \in prompts, d \in Resolved :
          \/ click' = [click EXCEPT ![b] = ClickState("read", p[1], p[2], d, None, None)]
          \/ click' = [click EXCEPT ![b] = Done]
    BY <1>1 DEF ClickReads
  <2>2. p[2] \in Requests
    OBVIOUS
  <2> QED  BY <2>1, <2>2 DEF ClickState, Done
<1>2. ASSUME NEW b \in Clicks, ClickFinds(b) PROVE click'[c].q \in Requests
  <2>1. click[b].q \in Requests
    BY <1>2 DEF ClickFinds
  <2>2. \E f, s : click' = [click EXCEPT ![b] =
           ClickState("found", click[b].r, click[b].q, click[b].d, f, s)]
    BY <1>2 DEF ClickFinds
  <2> QED  BY <2>1, <2>2 DEF ClickState
<1>3. ASSUME NEW b \in Clicks, ClickWrites(b) PROVE click'[c].q \in Requests
  BY <1>3 DEF ClickWrites, Done, ClickState
<1>4. ASSUME UNCHANGED click PROVE click'[c].q \in Requests
  BY <1>4
<1>5. ASSUME NEW q \in Requests,
             \/ CallbackFinds(q) \/ CallbackCommits(q) \/ RequestFinds(q)
             \/ RequestPosts(q) \/ RequestCommits(q) \/ EventLost(q)
             \/ Poll(q) \/ WaitTimeout(q)
      PROVE  UNCHANGED click
  BY <1>5 DEF CallbackFinds, CallbackCommits, RequestFinds, RequestPosts,
     RequestCommits, EventLost, Poll, WaitTimeout
<1>6. CASE UNCHANGED vars
  BY <1>4, <1>6 DEF vars
<1> QED
  BY <1>1, <1>2, <1>3, <1>4, <1>5, <1>6 DEF Next

(* Approved rows, and approved calls, rest on a click after every step. *)
LEMMA DecisionStep ==
    BrokerInv /\ [Next]_vars => DecisionInv' /\ NoApprovalWithoutClick'
<1> SUFFICES ASSUME BrokerInv, [Next]_vars
             PROVE  DecisionInv' /\ NoApprovalWithoutClick'
  OBVIOUS
<1>1. ASSUME NEW r \in Rows, row'[r].status = "approved"
      PROVE  \E p \in Requests : <<p, "approved">> \in clicked'
  <2>1. CASE row[r].status = "approved"
    BY <2>1, ClickedGrows DEF BrokerInv, DecisionInv
  <2>2. CASE \E c \in Clicks : ClickWrites(c) /\ click[c].d = "approved"
    <3>1. PICK c \in Clicks : ClickWrites(c) /\ click[c].d = "approved"
      BY <2>2
    <3>2. click[c].q \in Requests
      BY <3>1 DEF ClickWrites, BrokerInv, DecisionInv
    <3>3. <<click[c].q, "approved">> \in clicked'
      BY <3>1 DEF ClickWrites
    <3> QED  BY <3>2, <3>3
  <2> QED  BY <1>1, <2>1, <2>2, ApprovedByClick
<1>2. DecisionInv'
  BY <1>1, ClickNames DEF DecisionInv
<1>3. ASSUME NEW q \in Requests, ask'[q] = "approved"
      PROVE  \/ ask[q] = "approved"
             \/ \E r \in Rows : row[r].status = "approved"
  <2> USE DEF BrokerInv, TypeOK
  <2>1. ASSUME NEW p \in Requests, Poll(p)
        PROVE  ask[q] = "approved" \/ \E r \in Rows : row[r].status = "approved"
    BY <1>3, <2>1 DEF Poll, Answers
  <2>2. ASSUME NEW p \in Requests,
               \/ CallbackFinds(p) \/ CallbackCommits(p) \/ RequestFinds(p)
               \/ RequestPosts(p) \/ RequestCommits(p) \/ EventLost(p) \/ WaitTimeout(p)
        PROVE  ask[q] = "approved"
    BY <1>3, <2>2 DEF CallbackFinds, CallbackCommits, RequestFinds, RequestPosts,
       RequestCommits, EventLost, WaitTimeout
  <2>3. ASSUME NEW c \in Clicks, ClickReads(c) \/ ClickFinds(c) \/ ClickWrites(c)
        PROVE  ask[q] = "approved"
    BY <1>3, <2>3 DEF ClickReads, ClickFinds, ClickWrites
  <2>4. CASE UNCHANGED vars
    BY <1>3, <2>4 DEF vars
  <2> QED  BY <2>1, <2>2, <2>3, <2>4 DEF Next
<1>4. NoApprovalWithoutClick'
  BY <1>3, ClickedGrows DEF BrokerInv, DecisionInv, NoApprovalWithoutClick
<1> QED
  BY <1>2, <1>4

(* BrokerInv is inductive and holds in every reachable state. *)
THEOREM Broker == Spec => []BrokerInv
<1>1. BrokerInv /\ [Next]_vars => TypeOK'
  <2> SUFFICES ASSUME BrokerInv, [Next]_vars PROVE TypeOK'
    OBVIOUS
  <2>1. CASE UNCHANGED vars
    BY <2>1 DEF BrokerInv, TypeOK, vars, event
  <2> QED
    BY <2>1, RequestType, ClickType DEF Next, BrokerInv
<1>2. BrokerInv /\ [Next]_vars => BrokerInv'
  BY <1>1, EventStep, OneStep, DecisionStep DEF BrokerInv
<1> QED
  BY InitBroker, <1>2, PTL DEF Spec

(* At most one approval of a task and tool is pending, for any number of   *)
(* parallel calls and operators.                                           *)
THEOREM OnePendingHolds == Spec => []OnePending
<1>1. BrokerInv => OnePending
  BY DEF BrokerInv
<1> QED
  BY <1>1, Broker, PTL

(* No gated call is let through unless an operator approved the tool.      *)
THEOREM NoApprovalWithoutClickHolds == Spec => []NoApprovalWithoutClick
<1>1. BrokerInv => NoApprovalWithoutClick
  BY DEF BrokerInv
<1> QED
  BY <1>1, Broker, PTL

-----------------------------------------------------------------------------
(* What is on the message bus stays there. *)
LEMMA OffersStay ==
    ASSUME [Next]_vars, NEW r, NEW q, OnTheBus(r, q)
    PROVE  OnTheBus(r, q)'
<1>1. prompts \subseteq prompts' /\ undelivered \subseteq undelivered'
  BY DEF Next, CallbackFinds, CallbackCommits, RequestFinds, RequestPosts, RequestCommits, EventLost, Poll,
     WaitTimeout, ClickReads, ClickFinds, ClickWrites, vars
<1> QED
  BY <1>1 DEF OnTheBus

(* An event reads the metadata of a row, or offers its own request.        *)
LEMMA EventOffers ==
    ASSUME ~DeliverySaved, BrokerInv, PromptInv, NEW q \in Requests,
           \/ CallbackFinds(q) \/ CallbackCommits(q) \/ RequestFinds(q) \/ RequestPosts(q)
           \/ RequestCommits(q) \/ EventLost(q) \/ Poll(q) \/ WaitTimeout(q)
    PROVE  PromptInv'
<1>0. [Next]_vars
  BY DEF Next
<1>1. /\ row \in [Rows -> RowType] /\ found \in [Requests -> Rows \cup {None}]
      /\ ask \in [Requests -> {"idle", "callback", "called", "request", "posted", "polling", "timeout"} \cup Resolved]
      /\ seen \in [Requests -> Requests \cup {None}] /\ None \notin Requests /\ None \notin Rows
      /\ \A r \in Rows : row[r].req \in Requests \cup {None}
  BY ApprovalAssumptions DEF BrokerInv, TypeOK, RowType
<1>2. /\ \A r \in Rows, p \in Requests : row[r].req = p => OnTheBus(r, p)'
      /\ \A p \in Requests :
           /\ ask[p] = "callback" /\ found[p] # None /\ seen[p] # None => OnTheBus(found[p], seen[p])
           /\ ask[p] = "posted" => OnTheBus(found[p], p)
  BY <1>0, OffersStay DEF PromptInv
<1>3. \A c \in Clicks :
        /\ click'[c].pc \in {"read", "found"} => <<click'[c].r, click'[c].q>> \in prompts'
        /\ click'[c].pc = "found" /\ click'[c].found # None /\ click'[c].seen # None =>
              OnTheBus(click[c].found, click[c].seen)'
  <2>1. click' = click
    BY DEF CallbackFinds, CallbackCommits, RequestFinds, RequestPosts, RequestCommits, EventLost, Poll, WaitTimeout
  <2>2. prompts \subseteq prompts' /\ undelivered \subseteq undelivered'
    BY DEF CallbackFinds, CallbackCommits, RequestFinds, RequestPosts, RequestCommits, EventLost, Poll, WaitTimeout
  <2> QED
    BY <2>1, <2>2 DEF PromptInv, OnTheBus
<1>4. ASSUME NEW p \in Requests, p # q
      PROVE  UNCHANGED <<ask[p], found[p], seen[p]>>
  BY <1>1, <1>4 DEF CallbackFinds, CallbackCommits, RequestFinds, RequestPosts, RequestCommits, EventLost, Poll,
     WaitTimeout, FindOpen, EndEvent, event
<1>5. ASSUME NEW p \in Requests, p # q
      PROVE  (/\ ask[p] = "callback" /\ found[p] # None /\ seen[p] # None => OnTheBus(found[p], seen[p])
              /\ ask[p] = "posted" => OnTheBus(found[p], p))'
  <2>1. PICK f, s : f = found[p] /\ s = seen[p]
    OBVIOUS
  <2>2. ask[p] = "callback" /\ f # None /\ s # None => OnTheBus(f, s)'
    BY <1>0, <1>2, <2>1, OffersStay
  <2>3. ask[p] = "posted" => OnTheBus(f, p)'
    BY <1>0, <1>2, <2>1, OffersStay
  <2> QED
    BY <1>4, <1>5, <2>1, <2>2, <2>3 DEF OnTheBus
<1>6. SUFFICES ASSUME TRUE
               PROVE  /\ (\A r \in Rows, p \in Requests : row[r].req = p => OnTheBus(r, p))'
                      /\ (/\ ask[q] = "callback" /\ found[q] # None /\ seen[q] # None => OnTheBus(found[q], seen[q])
                          /\ ask[q] = "posted" => OnTheBus(found[q], q))'
  BY <1>3, <1>5 DEF PromptInv
<1>7. CASE CallbackFinds(q)
  <2>1. row' = row /\ ask'[q] = "callback"
    BY <1>1, <1>7 DEF CallbackFinds
  <2>2. \/ found'[q] = None
        \/ found'[q] \in Rows /\ seen'[q] = row[found'[q]].req
    BY <1>1, <1>7 DEF CallbackFinds, FindOpen, Open
  <2>3. PICK f, s : f = found'[q] /\ s = seen'[q] /\ s \in Requests \cup {None}
    BY <1>1, <2>2, <1>7 DEF CallbackFinds, FindOpen, Open
  <2>4. f # None /\ s # None => OnTheBus(f, s)'
    BY <1>1, <1>2, <2>2, <2>3
  <2> QED
    BY <1>2, <2>1, <2>3, <2>4 DEF OnTheBus
<1>8. CASE CallbackCommits(q)
  <2>1. ask[q] = "callback" /\ ask'[q] = "called"
    BY <1>1, <1>8 DEF CallbackCommits
  <2>2. \/ found[q] # None /\ row' = [row EXCEPT ![found[q]].req = seen[q]]
        \/ \E r \in Rows : row' = [row EXCEPT ![r] = [status |-> "pending", req |-> None]]
    BY <1>8 DEF CallbackCommits, Fresh
  <2>3. CASE found[q] # None /\ row' = [row EXCEPT ![found[q]].req = seen[q]]
    <3>1. PICK f, s : f = found[q] /\ s = seen[q] /\ f \in Rows
      BY <1>1, <2>3
    <3>2. s # None => OnTheBus(f, s)'
      BY <1>0, <1>2, <2>1, <2>3, <3>1, OffersStay
    <3>3. \A r \in Rows : row'[r].req = IF r = f THEN s ELSE row[r].req
      BY <1>1, <2>3, <3>1 DEF RowType
    <3>4. \A r \in Rows, p \in Requests : row'[r].req = p => OnTheBus(r, p)'
      BY <1>1, <1>2, <3>2, <3>3
    <3> QED
      BY <2>1, <3>4
  <2>4. ASSUME NEW r \in Rows, row' = [row EXCEPT ![r] = [status |-> "pending", req |-> None]]
        PROVE  \A t \in Rows, p \in Requests : row'[t].req = p => OnTheBus(t, p)'
    BY <1>1, <1>2, <2>4
  <2> QED
    BY <2>1, <2>2, <2>3, <2>4
<1>9. CASE RequestFinds(q)
  <2>1. row' = row /\ ask'[q] = "request"
    BY <1>1, <1>9 DEF RequestFinds
  <2> QED
    BY <1>2, <2>1
<1>10. CASE RequestPosts(q)
  <2>1. row' = row /\ ask'[q] = "posted"
    BY <1>1, <1>10 DEF RequestPosts
  <2>2. PICK r : /\ found' = [found EXCEPT ![q] = r]
                 /\ prompts' = prompts \cup {<<r, q>>} \/ undelivered' = undelivered \cup {q}
    BY <1>10 DEF RequestPosts, NeedsPrompt
  <2>3. OnTheBus(r, q)' /\ found'[q] = r
    BY <1>1, <2>2 DEF OnTheBus
  <2> QED
    BY <1>2, <2>1, <2>3 DEF OnTheBus
<1>11. CASE RequestCommits(q)
  <2>1. ask[q] = "posted" /\ ask'[q] = "polling"
    BY <1>1, <1>11 DEF RequestCommits
  <2>2. PICK f : f = found[q] /\ f \in Rows
    BY <2>1 DEF BrokerInv, EventInv
  <2>3. OnTheBus(f, q)'
    BY <1>0, <1>2, <2>1, <2>2, OffersStay
  <2>4. \A r \in Rows : row'[r].req = IF r = f THEN q ELSE row[r].req
    BY <1>1, <1>11, <2>2 DEF RequestCommits
  <2>5. \A r \in Rows, p \in Requests : row'[r].req = p => OnTheBus(r, p)'
    BY <1>2, <2>3, <2>4
  <2> QED
    BY <2>1, <2>5
<1>12. CASE EventLost(q) \/ Poll(q) \/ WaitTimeout(q)
  <2>1. row' = row /\ ask'[q] \notin {"callback", "posted"}
    BY <1>1, <1>12 DEF EventLost, Poll, WaitTimeout, Answers, Resolved
  <2> QED
    BY <1>2, <2>1
<1> QED
  BY <1>7, <1>8, <1>9, <1>10, <1>11, <1>12

(* A click writes back a request_id that was offered with its row.         *)
LEMMA ClickOffers ==
    ASSUME BrokerInv, PromptInv, NEW c \in Clicks, ClickReads(c) \/ ClickFinds(c) \/ ClickWrites(c)
    PROVE  PromptInv'
<1>0. [Next]_vars
  BY DEF Next
<1>1. /\ row \in [Rows -> RowType] /\ None \notin Requests /\ None \notin Rows
      /\ \A r \in Rows : row[r].req \in Requests \cup {None}
      /\ click \in [Clicks -> ClickRecord] /\ prompts \subseteq Rows \X Requests
      /\ click[c].found \in Rows \cup {None} /\ click[c].seen \in Requests \cup {None}
  BY ApprovalAssumptions DEF BrokerInv, TypeOK, RowType, ClickRecord
<1>2. UNCHANGED <<ask, found, seen, prompts, undelivered>>
  BY DEF ClickReads, ClickFinds, ClickWrites, event
<1>3. \A p \in Requests :
        (/\ ask[p] = "callback" /\ found[p] # None /\ seen[p] # None => OnTheBus(found[p], seen[p])
         /\ ask[p] = "posted" => OnTheBus(found[p], p))'
  BY <1>2 DEF PromptInv, OnTheBus
<1>4. \A r, q : OnTheBus(r, q)' <=> OnTheBus(r, q)
  BY <1>2 DEF OnTheBus
<1>5. ASSUME NEW y, click' = [click EXCEPT ![c] = y],
             y.pc \in {"read", "found"} => <<y.r, y.q>> \in prompts,
             y.pc = "found" /\ y.found # None /\ y.seen # None => OnTheBus(y.found, y.seen)
      PROVE  (\A b \in Clicks :
                /\ click[b].pc \in {"read", "found"} => <<click[b].r, click[b].q>> \in prompts
                /\ click[b].pc = "found" /\ click[b].found # None /\ click[b].seen # None =>
                      OnTheBus(click[b].found, click[b].seen))'
  <2> SUFFICES ASSUME NEW b \in Clicks
               PROVE  (/\ click[b].pc \in {"read", "found"} => <<click[b].r, click[b].q>> \in prompts
                       /\ click[b].pc = "found" /\ click[b].found # None /\ click[b].seen # None =>
                            OnTheBus(click[b].found, click[b].seen))'
    OBVIOUS
  <2>1. CASE b = c
    <3>1. click'[b] = y
      BY <1>1, <1>5, <2>1
    <3> QED
      BY <1>2, <1>5, <3>1 DEF OnTheBus
  <2>2. CASE b # c
    <3>1. click'[b] = click[b]
      BY <1>1, <1>5, <2>2
    <3> QED
      BY <1>2, <3>1 DEF PromptInv, OnTheBus
  <2> QED
    BY <2>1, <2>2
<1>6. CASE ClickReads(c)
  <2>1. PICK p \in prompts, d \in Resolved :
           \/ click' = [click EXCEPT ![c] = ClickState("read", p[1], p[2], d, None, None)]
           \/ click' = [click EXCEPT ![c] = Done]
    BY <1>6 DEF ClickReads
  <2>2. p = <<p[1], p[2]>>
    BY <1>1
  <2>3. row' = row
    BY <1>6 DEF ClickReads
  <2>4. CASE click' = [click EXCEPT ![c] = ClickState("read", p[1], p[2], d, None, None)]
    <3>1. PICK y : y = ClickState("read", p[1], p[2], d, None, None)
      OBVIOUS
    <3>2. y.pc = "read" /\ y.r = p[1] /\ y.q = p[2]
      BY <3>1 DEF ClickState
    <3> QED
      BY <1>3, <1>4, <1>5, <2>2, <2>3, <2>4, <3>1, <3>2 DEF PromptInv
  <2>5. CASE click' = [click EXCEPT ![c] = Done]
    <3>1. Done.pc = "done"
      BY DEF Done, ClickState
    <3> QED
      BY <1>3, <1>4, <1>5, <2>3, <2>5, <3>1 DEF PromptInv
  <2> QED
    BY <2>1, <2>4, <2>5
<1>7. CASE ClickFinds(c)
  <2>0. row' = row /\ <<click[c].r, click[c].q>> \in prompts
    BY <1>7 DEF ClickFinds, PromptInv
  <2>1. PICK f, s : /\ click' = [click EXCEPT ![c] =
                          ClickState("found", click[c].r, click[c].q, click[c].d, f, s)]
                    /\ f = None \/ (f \in Rows /\ s = IF f = click[c].r THEN click[c].q ELSE row[f].req)
    BY <1>7 DEF ClickFinds, Open
  <2>2. f # None /\ s # None => OnTheBus(f, s)
    BY <1>1, <2>0, <2>1 DEF PromptInv, OnTheBus
  <2>3. PICK y : y = ClickState("found", click[c].r, click[c].q, click[c].d, f, s)
    OBVIOUS
  <2>4. y.pc = "found" /\ y.r = click[c].r /\ y.q = click[c].q /\ y.found = f /\ y.seen = s
    BY <2>3 DEF ClickState
  <2> QED
    BY <1>3, <1>4, <1>5, <2>0, <2>1, <2>2, <2>3, <2>4 DEF PromptInv
<1>8. CASE ClickWrites(c)
  <2>1. click[c].pc = "found" /\ click' = [click EXCEPT ![c] = Done]
    BY <1>8 DEF ClickWrites
  <2>2. Done.pc = "done"
    BY DEF Done, ClickState
  <2>3. \/ /\ click[c].found # None
           /\ row' = [row EXCEPT ![click[c].found] = [status |-> click[c].d, req |-> click[c].seen]]
        \/ \E r \in Rows : row' = [row EXCEPT ![r].status = click[c].d]
    BY <1>8 DEF ClickWrites, Fresh
  <2>4. \A r \in Rows : row'[r].req = row[r].req
                        \/ (click[c].found = r /\ row'[r].req = click[c].seen)
    BY <1>1, <2>3 DEF RowType
  <2>5. \A r \in Rows, q \in Requests : row'[r].req = q => OnTheBus(r, q)
    BY <1>1, <2>1, <2>4 DEF PromptInv
  <2> QED
    BY <1>3, <1>4, <1>5, <2>1, <2>2, <2>5 DEF PromptInv
<1> QED
  BY <1>6, <1>7, <1>8

(* A request that is waited for has its prompt on the bus, or posting it   *)
(* failed (ensure_approval_prompt_posted), however requests are merged     *)
(* into an open row.  It rests on the prompt being posted for every        *)
(* request, because the recorded delivery is not written back.             *)
THEOREM PromptAnswerableHolds ==
    ASSUME ~DeliverySaved
    PROVE  Spec => []PromptAnswerable
<1>1. Init => PromptInv
  BY ApprovalAssumptions DEF Init, PromptInv, NoClick, ClickState
<1>2. BrokerInv /\ PromptInv /\ [Next]_vars => PromptInv'
  <2>1. CASE UNCHANGED vars
    BY <2>1 DEF vars, event, PromptInv, OnTheBus
  <2> QED
    BY <2>1, EventOffers, ClickOffers DEF Next
<1>3. PromptInv => PromptAnswerable
  BY DEF PromptInv, PromptAnswerable, OnTheBus, Open
<1> QED
  BY <1>1, <1>2, <1>3, Broker, PTL DEF Spec

-----------------------------------------------------------------------------
(* The releases of workflows. *)

(* A sync that has not begun is a record of its type. *)
LEMMA NoSyncType == NoSync \in SyncRecord /\ Nothing \in [Workflows -> RefOrNone]
  BY ReleaseAssumptions DEF NoSync, SyncRecord, Nothing, RefOrNone

(* Every initial state satisfies the invariant. *)
LEMMA InitRelease == RelInit => ReleaseInv
<1> SUFFICES ASSUME RelInit PROVE ReleaseInv
  OBVIOUS
<1> USE ReleaseAssumptions, NoSyncType
<1>1. RelTypeOK
  <2>1. bucket \in [Rids -> Release]
    BY DEF RelInit, Empty, Release, RefOrNone
  <2>2. launch \in [Tasks -> LaunchRecord]
    BY DEF RelInit, LaunchRecord, RefOrNone
  <2>3. dirs \in [Workflows -> Directories] /\ sync \in [Syncs -> SyncRecord]
    BY DEF RelInit, Nothing, Directories
  <2>4. state \in [ref : RefOrNone, commit : RefOrNone, status : {"none", "ok", "error"},
                   found : SUBSET Workflows]
    BY DEF RelInit, RefOrNone
  <2>5. /\ target \in {"bucket", "root"} /\ checkout \in Refs
        /\ pinned \in RefOrNone /\ snapshot \in RefOrNone /\ torn \in BOOLEAN
    BY Zenon DEF RelInit, RefOrNone
  <2>6. started \in 0..MaxReleases /\ active \in 0..MaxReleases /\ relFaults \in Nat
    BY DEF RelInit
  <2> QED
    BY <2>1, <2>2, <2>3, <2>4, <2>5, <2>6 DEF RelTypeOK
<1>2. RidInv /\ PipelineInv
  BY DEF RelInit, RidInv, PipelineInv, Pipeline, NoSync
<1>3. FrozenInv /\ LaunchInv /\ ActiveComplete /\ LaunchUniform
  BY DEF RelInit, FrozenInv, LaunchInv, OneRelease, ActiveComplete, LaunchUniform, RunsUniform
<1> QED
  BY <1>1, <1>2, <1>3 DEF ReleaseInv

-----------------------------------------------------------------------------
(* Type correctness. *)

(* The steps of a sync that fetch and build keep the types. *)
LEMMA BuildType ==
    ASSUME RelTypeOK, RidInv, PipelineInv, NEW s \in Syncs,
           \/ Trigger(s) \/ Fetch(s) \/ Discover(s) \/ BuildEnd(s)
           \/ \E w \in Workflows : BuildBegin(s, w)
    PROVE  RelTypeOK'
<1> USE ReleaseAssumptions DEF syncs, stores
<1>0. /\ sync \in [Syncs -> SyncRecord] /\ sync[s] \in SyncRecord
      /\ checkout \in Refs /\ dirs \in [Workflows -> Directories]
  BY DEF RelTypeOK
<1>1. CASE Trigger(s)
  <2> DEFINE y == [NoSync EXCEPT !.at = "fetch", !.ref = effective_ref, !.rid = started + 1]
  <2>1. effective_ref \in RefOrNone /\ started + 1 \in 0..MaxReleases
    BY <1>1 DEF Trigger, RelTypeOK, effective_ref, RefOrNone
  <2>2. y \in SyncRecord
    BY <2>1, NoSyncType DEF SyncRecord
  <2>3. sync' \in [Syncs -> SyncRecord] /\ started' \in 0..MaxReleases
    BY <1>0, <1>1, <2>1, <2>2 DEF Trigger
  <2> QED
    BY <1>1, <2>3 DEF Trigger, RelTypeOK
<1>2. CASE Fetch(s)
  <2> DEFINE y == [sync[s] EXCEPT !.at = "discover"]
  <2>1. y \in SyncRecord /\ sync[s].ref \in RefOrNone
    BY <1>0 DEF SyncRecord
  <2>2. sync' \in [Syncs -> SyncRecord] /\ checkout' \in Refs
    BY <1>0, <1>2, <2>1 DEF Fetch, RefOrNone
  <2> QED
    BY <1>2, <2>2 DEF Fetch, RelTypeOK
<1>3. CASE Discover(s)
  <2>1. checkout' \in Refs /\ Packages[checkout'] \in SUBSET Workflows
    BY <1>0, <1>3 DEF Discover, DefaultCheckout
  <2> DEFINE y == [sync[s] EXCEPT !.at = "build", !.commit = checkout',
                                  !.todo = Packages[checkout'], !.found = Packages[checkout']]
  <2>2. y \in SyncRecord
    BY <1>0, <2>1 DEF SyncRecord, RefOrNone
  <2>3. sync' = [sync EXCEPT ![s] = y]
    BY <1>0, <1>3 DEF Discover
  <2>4. sync' \in [Syncs -> SyncRecord]
    BY <1>0, <2>2, <2>3
  <2> QED
    BY <1>3, <2>1, <2>4 DEF Discover, RelTypeOK
<1>4. CASE BuildEnd(s)
  <2> DEFINE w == sync[s].cur
             a == IF target = "bucket" THEN "upload" ELSE "build"
             y == [sync[s] EXCEPT !.at = a, !.built = [@ EXCEPT ![w] = checkout]]
             z == [sync[s] EXCEPT !.at = "build", !.errors = TRUE]
  <2>1. w \in Workflows /\ sync[s].rid \in Rids
    BY <1>4 DEF BuildEnd, PipelineInv, Pipeline, RidInv, RelTypeOK, Rids
  <2>2. <<checkout, sync[s].rid>> \in Directories /\ NoRef \in Directories
    BY <1>0, <2>1 DEF Directories
  <2>3. dirs' \in [Workflows -> Directories]
    BY <1>0, <1>4, <2>2 DEF BuildEnd
  <2>4. y \in SyncRecord /\ z \in SyncRecord
    BY <1>0, <2>1 DEF SyncRecord, RefOrNone
  <2>5. sync' = [sync EXCEPT ![s] = y] \/ sync' = [sync EXCEPT ![s] = z]
    <3>1. CASE Builds(w)
      <4>1. sync' = [sync EXCEPT ![s].at = a, ![s].built[w] = checkout]
        BY <1>4, <3>1 DEF BuildEnd
      <4>2. sync \in [Syncs -> SyncRecord]
        BY <1>0
      <4> HIDE DEF a, w
      <4> QED
        BY ONLY <4>1, <4>2
    <3>2. CASE ~Builds(w)
      BY <1>0, <1>4, <3>2 DEF BuildEnd
    <3> QED
      BY <3>1, <3>2
  <2>6. sync' \in [Syncs -> SyncRecord]
    BY <1>0, <2>4, <2>5
  <2> QED
    BY <1>4, <2>3, <2>6 DEF BuildEnd, RelTypeOK
<1>5. ASSUME NEW w \in Workflows, BuildBegin(s, w) PROVE RelTypeOK'
  <2> DEFINE y == [sync[s] EXCEPT !.at = "fill", !.cur = w, !.todo = @ \ {w}]
  <2>1. checkout' \in Refs
    BY <1>0, <1>5 DEF BuildBegin, DefaultCheckout
  <2>2. dirs' \in [Workflows -> Directories]
    BY <1>0, <1>5 DEF BuildBegin, Directories
  <2>3. y \in SyncRecord
    BY <1>0 DEF SyncRecord
  <2>4. sync' = [sync EXCEPT ![s] = y]
    BY <1>0, <1>5 DEF BuildBegin
  <2>5. sync' \in [Syncs -> SyncRecord]
    BY <1>0, <2>3, <2>4
  <2> QED
    BY <1>5, <2>1, <2>2, <2>5 DEF BuildBegin, RelTypeOK
<1> QED
  BY <1>1, <1>2, <1>3, <1>4, <1>5

(* So do the steps that upload, publish and record. *)
LEMMA PublishType ==
    ASSUME RelTypeOK, RidInv, PipelineInv, NEW s \in Syncs,
           \/ Upload(s) \/ Withhold(s) \/ PublishConfig(s) \/ PublishManifest(s)
           \/ PublishPointer(s) \/ StepFails(s) \/ Record(s)
    PROVE  RelTypeOK'
<1> USE ReleaseAssumptions DEF syncs, stores
<1> DEFINE r == sync[s].rid
           On(where) == [sync[s] EXCEPT !.at = where]
           Err(where) == [sync[s] EXCEPT !.at = where, !.errors = TRUE]
<1>0. /\ sync \in [Syncs -> SyncRecord] /\ sync[s] \in SyncRecord
      /\ checkout \in Refs /\ bucket \in [Rids -> Release]
      /\ sync[s].at # "idle" => r \in Rids /\ bucket[r] \in Release
  BY DEF RelTypeOK, RidInv, Rids
<1>t. /\ \A where \in {"build", "record", "manifest", "pointer"} :
            On(where) \in SyncRecord
      /\ \A where \in {"build", "record"} : Err(where) \in SyncRecord
  BY <1>0 DEF SyncRecord
<1>b. ASSUME NEW b \in Release, bucket' = [bucket EXCEPT ![r] = b]
      PROVE  bucket' \in [Rids -> Release]
  BY <1>0, <1>b
<1>u. ASSUME NEW y \in SyncRecord, sync' = [sync EXCEPT ![s] = y]
      PROVE  sync' \in [Syncs -> SyncRecord]
  BY <1>0, <1>u
<1>1. CASE Upload(s)
  <2> DEFINE w == sync[s].cur
             b == [bucket[r] EXCEPT !.archives = [@ EXCEPT ![w] = sync[s].built[w]]]
  <2>1. w \in Workflows /\ r \in Rids /\ sync[s].built[w] \in RefOrNone
    BY <1>0, <1>1 DEF Upload, PipelineInv, Pipeline, SyncRecord
  <2>2. sync' = [sync EXCEPT ![s] = On("build")] \/ sync' = [sync EXCEPT ![s] = Err("build")]
    BY <1>0, <1>1 DEF Upload
  <2>3. b \in Release
    <3>1. bucket[r] \in Release
      BY <1>0, <2>1
    <3> QED
      BY <2>1, <3>1 DEF Release
  <2>4. bucket' = [bucket EXCEPT ![r] = b] \/ bucket' = bucket
    BY <1>0, <1>1 DEF Upload
  <2>5. bucket' \in [Rids -> Release]
    BY <1>0, <1>b, <2>3, <2>4
  <2>6. sync' \in [Syncs -> SyncRecord]
    BY <1>t, <1>u, <2>2
  <2> QED
    BY <1>1, <2>5, <2>6 DEF Upload, RelTypeOK, RelFault
<1>2. CASE Withhold(s)
  <2>1. sync' \in [Syncs -> SyncRecord]
    BY <1>0, <1>2, <1>t, <1>u DEF Withhold
  <2> QED
    BY <1>2, <2>1 DEF Withhold, RelTypeOK
<1>3. CASE PublishConfig(s)
  <2> DEFINE b == [bucket[r] EXCEPT !.config = checkout]
  <2>1. r \in Rids /\ checkout \in RefOrNone
    BY <1>0, <1>3 DEF PublishConfig, Built, RefOrNone
  <2>2. b \in Release
    <3>1. bucket[r] \in Release
      BY <1>0, <2>1
    <3> QED
      BY <2>1, <3>1 DEF Release
  <2>3. sync' = [sync EXCEPT ![s] = On("record")] \/ sync' = [sync EXCEPT ![s] = On("manifest")]
    BY <1>0, <1>3 DEF PublishConfig
  <2>4. bucket' = [bucket EXCEPT ![r] = b] \/ bucket' = bucket
    BY <1>0, <1>3 DEF PublishConfig
  <2>5. snapshot' \in RefOrNone
    BY <1>3, <2>1 DEF PublishConfig, RelTypeOK
  <2>6. sync' \in [Syncs -> SyncRecord] /\ bucket' \in [Rids -> Release]
    BY <1>0, <1>b, <1>t, <1>u, <2>2, <2>3, <2>4
  <2> QED
    BY <1>3, <2>5, <2>6 DEF PublishConfig, RelTypeOK
<1>4. CASE PublishManifest(s)
  <2> DEFINE b == [bucket[r] EXCEPT !.manifest = TRUE, !.ref = sync[s].ref,
                                    !.bundles = sync[s].built, !.found = sync[s].found]
  <2>1. r \in Rids
    BY <1>0, <1>4 DEF PublishManifest
  <2>2. b \in Release
    <3>1. /\ bucket[r] \in Release /\ sync[s].ref \in RefOrNone
          /\ sync[s].built \in [Workflows -> RefOrNone] /\ sync[s].found \in SUBSET Workflows
      BY <1>0, <2>1 DEF SyncRecord
    <3> QED
      BY <3>1 DEF Release
  <2>3. sync' \in [Syncs -> SyncRecord]
    BY <1>0, <1>4, <1>t, <1>u DEF PublishManifest
  <2>4. bucket' \in [Rids -> Release]
    BY <1>4, <1>b, <2>2 DEF PublishManifest
  <2> QED
    BY <1>4, <2>3, <2>4 DEF PublishManifest, RelTypeOK
<1>5. CASE PublishPointer(s)
  <2>1. sync' \in [Syncs -> SyncRecord]
    BY <1>0, <1>5, <1>t, <1>u DEF PublishPointer
  <2>2. active' \in 0..MaxReleases
    BY <1>0, <1>5 DEF PublishPointer, Rids
  <2> QED
    BY <1>5, <2>1, <2>2 DEF PublishPointer, RelTypeOK
<1>6. CASE StepFails(s)
  <2>1. sync' = [sync EXCEPT ![s] = Err("record")]
    BY <1>0, <1>6 DEF StepFails
  <2>2. sync' \in [Syncs -> SyncRecord]
    BY <1>t, <1>u, <2>1
  <2> QED
    BY <1>6, <2>2 DEF StepFails, RelFault, RelTypeOK
<1>7. CASE Record(s)
  <2>1. sync' \in [Syncs -> SyncRecord]
    BY <1>7, <1>u, NoSyncType DEF Record
  <2>2. state' \in [ref : RefOrNone, commit : RefOrNone, status : {"none", "ok", "error"},
                    found : SUBSET Workflows]
    BY <1>0, <1>7 DEF Record, SyncRecord
  <2> QED
    BY <1>7, <2>1, <2>2 DEF Record, RelTypeOK
<1> QED
  BY <1>1, <1>2, <1>3, <1>4, <1>5, <1>6, <1>7

(* So do the steps of a launch. *)
LEMMA LaunchType ==
    ASSUME RelTypeOK, LaunchInv, NEW t \in Tasks,
           LoadRelease(t) \/ ReadConfig(t) \/ ResolveBundle(t) \/ Stage(t)
    PROVE  RelTypeOK'
<1> USE ReleaseAssumptions DEF OfLaunch, LaunchAt, syncs
<1> DEFINE w == WorkflowOf[t]
<1>0. /\ launch \in [Tasks -> LaunchRecord] /\ launch[t] \in LaunchRecord /\ w \in Workflows
      /\ active \in 0..MaxReleases /\ bucket \in [Rids -> Release] /\ snapshot \in RefOrNone
      /\ dirs \in [Workflows -> Directories] /\ dirs[w] \in Directories
      /\ launch[t].rid # 0 => launch[t].rid \in Rids
  BY DEF RelTypeOK, LaunchRecord, Rids
<1>u. ASSUME NEW y \in LaunchRecord, launch' = [launch EXCEPT ![t] = y]
      PROVE  launch' \in [Tasks -> LaunchRecord]
  BY <1>0, <1>u
<1>1. CASE LoadRelease(t)
  <2> DEFINE r == IF active # 0 /\ bucket[active].manifest THEN active ELSE 0
             y == [launch[t] EXCEPT !.at = "config", !.rid = r]
  <2>1. y \in LaunchRecord
    <3>1. r \in 0..MaxReleases
      BY <1>0
    <3> HIDE DEF r
    <3> QED
      BY <1>0, <3>1 DEF LaunchRecord
  <2>2. launch' \in [Tasks -> LaunchRecord]
    BY <1>1, <1>u, <2>1 DEF LoadRelease
  <2> QED
    BY <1>1, <2>2 DEF LoadRelease, RelTypeOK
<1>2. CASE ReadConfig(t)
  <2> DEFINE c == IF launch[t].rid # 0 THEN bucket[launch[t].rid].config ELSE snapshot
             y == [launch[t] EXCEPT !.at = "bundle", !.config = c]
  <2>1. c \in RefOrNone
    BY <1>0 DEF Release
  <2>2. y \in LaunchRecord
    BY <1>0, <2>1 DEF LaunchRecord
  <2>3. launch' \in [Tasks -> LaunchRecord]
    BY <1>2, <1>u, <2>2 DEF ReadConfig
  <2> QED
    BY <1>2, <2>3 DEF ReadConfig, RelTypeOK
<1>3. CASE ResolveBundle(t)
  <2> DEFINE y(where, sum) == [launch[t] EXCEPT !.at = where, !.sum = sum,
                                  !.rid = IF where = "release" THEN launch[t].rid ELSE 0]
  <2>1. \A where \in {"release", "dir", "mounted", "failed"} :
          \A sum \in RefOrNone \cup Directories : y(where, sum) \in LaunchRecord
    <3> SUFFICES ASSUME NEW where \in {"release", "dir", "mounted", "failed"},
                        NEW sum \in RefOrNone \cup Directories
                 PROVE  y(where, sum) \in LaunchRecord
      OBVIOUS
    <3> DEFINE r == IF where = "release" THEN launch[t].rid ELSE 0
    <3>1. r \in 0..MaxReleases
      BY <1>0 DEF Rids
    <3> HIDE DEF r
    <3>2. [launch[t] EXCEPT !.at = where, !.sum = sum, !.rid = r] \in LaunchRecord
      BY <1>0, <3>1 DEF LaunchRecord
    <3> QED
      BY <3>2 DEF r
  <2>2. Offers(launch[t].rid, w) => bucket[launch[t].rid].bundles[w] \in RefOrNone
    BY <1>0 DEF Offers, Release
  <2>3. <<HeadRef, t>> \in Directories /\ NoRef \in RefOrNone
    BY DEF Directories, RefOrNone
  <2>4. \/ /\ Offers(launch[t].rid, w) /\ dirs' = dirs
           /\ launch' = [launch EXCEPT ![t] = y("release", bucket[launch[t].rid].bundles[w])]
        \/ launch' = [launch EXCEPT ![t] = y("mounted", NoRef)] /\ dirs' = dirs
        \/ launch' = [launch EXCEPT ![t] = y("dir", NoRef)] /\ dirs' = dirs
        \/ launch' = [launch EXCEPT ![t] = y("dir", dirs[w])] /\ dirs' = dirs
        \/ /\ launch' = [launch EXCEPT ![t] = y("dir", <<HeadRef, t>>)]
           /\ dirs' = [dirs EXCEPT ![w] = <<HeadRef, t>>]
        \/ launch' = [launch EXCEPT ![t] = y("failed", NoRef)] /\ dirs' = dirs
    BY <1>3 DEF ResolveBundle, ReleaseOf
  <2> HIDE DEF y
  <2>5. launch' \in [Tasks -> LaunchRecord]
    BY <1>0, <1>u, <2>1, <2>2, <2>3, <2>4
  <2>6. dirs' \in [Workflows -> Directories]
    BY <1>0, <2>3, <2>4
  <2> QED
    BY <1>3, <2>5, <2>6 DEF ResolveBundle, RelTypeOK
<1>4. CASE Stage(t)
  <2> DEFINE y == [launch[t] EXCEPT !.at = IF Verified(t) THEN "running" ELSE "refused",
                                    !.bundle = Source(t)]
  <2>1. Source(t) \in RefOrNone \cup Directories
    BY <1>0, <1>4 DEF Stage, Source, LaunchInv, OneRelease, Release, RefOrNone
  <2>2. y \in LaunchRecord
    BY <1>0, <2>1 DEF LaunchRecord
  <2>3. launch' \in [Tasks -> LaunchRecord]
    BY <1>4, <1>u, <2>2 DEF Stage
  <2> QED
    BY <1>4, <2>3 DEF Stage, RelTypeOK
<1> QED
  BY <1>1, <1>2, <1>3, <1>4

(* Every step keeps the types. *)
LEMMA RelTypeStep == ReleaseInv /\ [RelNext]_relVars => RelTypeOK'
<1> SUFFICES ASSUME ReleaseInv, [RelNext]_relVars PROVE RelTypeOK'
  OBVIOUS
<1> USE DEF ReleaseInv
<1>1. ASSUME NEW ref \in Refs, Pin(ref) PROVE RelTypeOK'
  BY <1>1 DEF Pin, RelTypeOK, RefOrNone, syncs, stores
<1>2. ASSUME NEW s \in Syncs, SyncStep(s) PROVE RelTypeOK'
  BY <1>2, BuildType, PublishType DEF SyncStep
<1>3. CASE SyncCrash
  BY <1>3, NoSyncType, ReleaseAssumptions DEF SyncCrash, RelFault, RelTypeOK, stores
<1>4. ASSUME NEW t \in Tasks, LoadRelease(t) \/ ReadConfig(t) \/ ResolveBundle(t) \/ Stage(t)
      PROVE  RelTypeOK'
  BY <1>4, LaunchType
<1>5. CASE UNCHANGED relVars
  BY <1>5 DEF relVars, syncs, stores, RelTypeOK
<1> QED
  BY <1>1, <1>2, <1>3, <1>4, <1>5 DEF RelNext

-----------------------------------------------------------------------------
(* A release directory is written by its own sync, until it is published. *)

(* What the steps of a sync do to its record: its release stays its own,   *)
(* and nobody else's record is touched.                                    *)
LEMMA SyncEffect ==
    ASSUME RelTypeOK, NEW s \in Syncs, SyncStep(s), ~Trigger(s)
    PROVE  /\ started' = started /\ target' = target /\ launch' = launch
           /\ sync[s].at # "idle"
           /\ \/ sync'[s].rid = sync[s].rid /\ sync'[s].at # "idle"
              \/ sync[s].at = "record" /\ sync'[s] = NoSync
           /\ sync[s].at = "record" => sync'[s] = NoSync
           /\ \A z \in Syncs \ {s} : sync'[z] = sync[z]
<1>0. sync \in [Syncs -> SyncRecord]
  BY DEF RelTypeOK
<1> USE <1>0 DEF syncs, stores
<1>1. CASE Fetch(s)
  BY <1>1 DEF Fetch, SyncRecord
<1>2. CASE Discover(s)
  BY <1>2 DEF Discover, SyncRecord
<1>3. CASE \E w \in Workflows : BuildBegin(s, w)
  BY <1>3 DEF BuildBegin, SyncRecord
<1>4. CASE BuildEnd(s)
  BY <1>4 DEF BuildEnd, SyncRecord
<1>5. CASE Upload(s)
  BY <1>5 DEF Upload, SyncRecord
<1>6. CASE Withhold(s) \/ PublishConfig(s)
  BY <1>6 DEF Withhold, PublishConfig, Built, SyncRecord
<1>7. CASE PublishManifest(s) \/ PublishPointer(s)
  BY <1>7 DEF PublishManifest, PublishPointer, SyncRecord
<1>8. CASE StepFails(s)
  BY <1>8 DEF StepFails, Built, SyncRecord
<1>9. CASE Record(s)
  BY <1>9 DEF Record, SyncRecord
<1> QED
  BY <1>1, <1>2, <1>3, <1>4, <1>5, <1>6, <1>7, <1>8, <1>9 DEF SyncStep

(* A sync writes into its own release only. *)
LEMMA BucketEffect ==
    ASSUME RelTypeOK, NEW s \in Syncs, SyncStep(s)
    PROVE  \A r \in Rids \ {sync[s].rid} : bucket'[r] = bucket[r]
<1>0. bucket \in [Rids -> Release]
  BY DEF RelTypeOK
<1> USE <1>0 DEF syncs, stores
<1>1. CASE Upload(s)
  BY <1>1 DEF Upload
<1>2. CASE PublishConfig(s)
  BY <1>2 DEF PublishConfig
<1>3. CASE PublishManifest(s)
  BY <1>3 DEF PublishManifest
<1>4. CASE ~(Upload(s) \/ PublishConfig(s) \/ PublishManifest(s))
  BY <1>4 DEF SyncStep, Trigger, Fetch, Discover, BuildBegin, BuildEnd, Withhold,
              PublishPointer, StepFails, Record
<1> QED
  BY <1>1, <1>2, <1>3, <1>4

(* A new sync takes a number no release has had. *)
LEMMA TriggerEffect ==
    ASSUME RelTypeOK, NEW s \in Syncs, Trigger(s)
    PROVE  /\ sync'[s].rid = started + 1 /\ sync'[s].at = "fetch" /\ sync[s].at = "idle"
           /\ started' = started + 1 /\ started \in Nat
           /\ bucket' = bucket /\ target' = target /\ launch' = launch /\ active' = active
           /\ \A z \in Syncs \ {s} : sync'[z] = sync[z]
  BY ReleaseAssumptions, NoSyncType DEF Trigger, RelTypeOK, SyncRecord, stores

(* Releases keep belonging to one sync. *)
LEMMA RidStep == ReleaseInv /\ [RelNext]_relVars => RidInv'
<1> SUFFICES ASSUME ReleaseInv, [RelNext]_relVars PROVE RidInv'
  OBVIOUS
<1> USE DEF RidInv
<1>0. RelTypeOK /\ RidInv
  BY DEF ReleaseInv
<1>1. ASSUME NEW s \in Syncs, Trigger(s) PROVE RidInv'
  <2>1. \A z \in Syncs : sync[z].rid <= started /\ sync[z].rid \in Nat
    BY <1>0 DEF RelTypeOK, SyncRecord
  <2> QED
    BY <1>0, <1>1, <2>1, TriggerEffect
<1>2. ASSUME NEW s \in Syncs, SyncStep(s), ~Trigger(s) PROVE RidInv'
  <2>1. NoSync.rid = 0 /\ NoSync.at = "idle"
    BY DEF NoSync
  <2> QED
    BY <1>0, <1>2, <2>1, SyncEffect
<1>3. CASE SyncCrash
  BY <1>0, <1>3 DEF SyncCrash, NoSync
<1>4. CASE UNCHANGED syncs
  BY <1>0, <1>4 DEF syncs
<1>5. ASSUME NEW t \in Tasks, LoadRelease(t) \/ ReadConfig(t) \/ ResolveBundle(t) \/ Stage(t)
      PROVE  UNCHANGED syncs
  BY <1>5 DEF LoadRelease, ReadConfig, ResolveBundle, Stage, OfLaunch
<1> QED
  BY <1>1, <1>2, <1>3, <1>4, <1>5 DEF RelNext, Pin, relVars

(* What the pointer has named is never written again, and stays so. *)
LEMMA FrozenKept ==
    ASSUME ReleaseInv, [RelNext]_relVars, NEW r, Frozen(r)
    PROVE  Frozen(r)' /\ bucket'[r] = bucket[r]
<1> USE DEF Frozen
<1>0. /\ RelTypeOK /\ RidInv /\ r \in Rids /\ r # 0
  BY ReleaseAssumptions DEF ReleaseInv, RelTypeOK, Rids
<1>1. ASSUME NEW s \in Syncs, Trigger(s) PROVE Frozen(r)' /\ bucket'[r] = bucket[r]
  BY <1>0, <1>1, TriggerEffect DEF RelTypeOK
<1>2. ASSUME NEW s \in Syncs, SyncStep(s), ~Trigger(s)
      PROVE  Frozen(r)' /\ bucket'[r] = bucket[r]
  <2>1. NoSync.rid = 0
    BY DEF NoSync
  <2>2. Frozen(r)'
    BY <1>0, <1>2, <2>1, SyncEffect
  <2>3. CASE sync[s].rid # r
    BY <1>0, <1>2, <2>2, <2>3, BucketEffect
  <2>4. CASE sync[s].rid = r
    <3>1. Record(s)
      BY <1>2, <2>4 DEF SyncStep, Fetch, Discover, BuildBegin, BuildEnd, Upload, Withhold,
                        PublishConfig, PublishManifest, PublishPointer, StepFails, Built
    <3> QED
      BY <2>2, <3>1 DEF Record, stores
  <2> QED
    BY <2>3, <2>4
<1>3. CASE SyncCrash
  BY <1>0, <1>3 DEF SyncCrash, NoSync, stores
<1>4. CASE UNCHANGED <<syncs, bucket>>
  BY <1>4 DEF syncs
<1>5. ASSUME NEW t \in Tasks, LoadRelease(t) \/ ReadConfig(t) \/ ResolveBundle(t) \/ Stage(t)
      PROVE  UNCHANGED <<syncs, bucket>>
  BY <1>5 DEF LoadRelease, ReadConfig, ResolveBundle, Stage, OfLaunch
<1> QED
  BY <1>1, <1>2, <1>3, <1>4, <1>5 DEF RelNext, Pin, relVars, stores

-----------------------------------------------------------------------------
(* The pipeline: what is published was shipped. *)

(* A step of one sync leaves what another one has shipped. *)
LEMMA PipelineOther ==
    ASSUME RelTypeOK, RidInv, NEW s \in Syncs, SyncStep(s), NEW z \in Syncs \ {s}, Pipeline(z)
    PROVE  Pipeline(z)'
<1>1. sync'[z] = sync[z] /\ target' = target
  BY SyncEffect, TriggerEffect
<1>2. CASE sync[z].at = "idle"
  BY <1>1, <1>2 DEF Pipeline
<1>3. CASE sync[z].at # "idle"
  <2>1. sync[z].rid # sync[s].rid /\ sync[z].rid \in Rids
    BY <1>3, ReleaseAssumptions DEF RidInv, Rids, RelTypeOK
  <2>2. bucket'[sync[z].rid] = bucket[sync[z].rid]
    BY <2>1, BucketEffect
  <2> QED
    BY <1>1, <2>2 DEF Pipeline, Shipped, StillOut
<1> QED
  BY <1>2, <1>3

(* Each step of a sync keeps its own pipeline in order. *)
LEMMA PipelineOwn ==
    ASSUME RelTypeOK, RidInv, NEW s \in Syncs, SyncStep(s), Pipeline(s)
    PROVE  Pipeline(s)'
<1> DEFINE r == sync[s].rid
<1>0. /\ sync \in [Syncs -> SyncRecord] /\ sync[s] \in SyncRecord
      /\ bucket \in [Rids -> Release] /\ checkout \in Refs
      /\ sync[s].at # "idle" => r \in Rids /\ bucket[r] \in Release
  BY ReleaseAssumptions DEF RelTypeOK, RidInv, Rids
<1> USE DEF syncs, stores
<1>1. CASE Trigger(s)
  BY <1>1, TriggerEffect DEF Pipeline
<1>2. CASE Fetch(s)
  BY <1>0, <1>2 DEF Fetch, Pipeline, SyncRecord
<1>3. CASE Discover(s)
  <2>1. /\ sync'[s].at = "build" /\ sync'[s].todo = sync'[s].found
    BY <1>0, <1>3 DEF Discover, SyncRecord
  <2> QED
    BY <2>1 DEF Pipeline, StillOut
<1>4. ASSUME NEW w \in Workflows, BuildBegin(s, w) PROVE Pipeline(s)'
  <2>1. /\ sync[s].at = "build" /\ w \in sync[s].todo /\ sync'[s].at = "fill"
        /\ sync'[s].cur = w /\ sync'[s].todo = sync[s].todo \ {w}
        /\ sync'[s].found = sync[s].found /\ sync'[s].built = sync[s].built
        /\ sync'[s].errors = sync[s].errors /\ sync'[s].rid = r
        /\ bucket' = bucket /\ target' = target
    BY <1>0, <1>4 DEF BuildBegin, SyncRecord
  <2> QED
    BY <2>1 DEF Pipeline, StillOut, Shipped
<1>5. CASE BuildEnd(s)
  <2> DEFINE w == sync[s].cur
  <2>1. w \in Workflows /\ checkout # NoRef
    BY <1>0, <1>5, ReleaseAssumptions DEF BuildEnd, Pipeline
  <2>2. /\ sync[s].at = "fill" /\ sync'[s].cur = w /\ sync'[s].todo = sync[s].todo
        /\ sync'[s].found = sync[s].found /\ sync'[s].rid = r
        /\ bucket' = bucket /\ target' = target
    BY <1>0, <1>5 DEF BuildEnd, SyncRecord
  <2>3. CASE Builds(w)
    <3>1. /\ sync'[s].at = IF target = "bucket" THEN "upload" ELSE "build"
          /\ sync'[s].built = [sync[s].built EXCEPT ![w] = checkout]
          /\ sync'[s].errors = sync[s].errors
      BY <1>0, <1>5, <2>3 DEF BuildEnd, SyncRecord
    <3>2. sync'[s].built[w] # NoRef /\ \A x \in Workflows \ {w} : sync'[s].built[x] = sync[s].built[x]
      BY <1>0, <2>1, <3>1 DEF SyncRecord
    <3>3. sync[s].found \subseteq Workflows
      BY <1>0 DEF SyncRecord
    <3> QED
      BY <2>1, <2>2, <3>1, <3>2, <3>3 DEF Pipeline, StillOut, Shipped
  <2>4. CASE ~Builds(w)
    <3>1. sync'[s].at = "build" /\ sync'[s].errors
      BY <1>0, <1>5, <2>4 DEF BuildEnd, SyncRecord
    <3> QED
      BY <3>1 DEF Pipeline
  <2> QED
    BY <2>3, <2>4
<1>6. CASE Upload(s)
  <2> DEFINE w == sync[s].cur
  <2>1. /\ sync[s].at = "upload" /\ sync'[s].at = "build" /\ sync'[s].todo = sync[s].todo
        /\ sync'[s].found = sync[s].found /\ sync'[s].built = sync[s].built
        /\ sync'[s].rid = r /\ target' = target
    BY <1>0, <1>6 DEF Upload, SyncRecord
  <2>2. w \in Workflows /\ sync[s].built[w] # NoRef /\ r \in Rids
    BY <1>0, <2>1 DEF Pipeline
  <2>3. CASE sync'[s].errors
    BY <2>1, <2>3 DEF Pipeline
  <2>4. CASE ~sync'[s].errors
    <3>1. /\ bucket' = [bucket EXCEPT ![r].archives[w] = sync[s].built[w]]
          /\ ~sync[s].errors
      BY <1>0, <1>6, <2>4 DEF Upload, SyncRecord
    <3>2. bucket'[r].archives = [bucket[r].archives EXCEPT ![w] = sync[s].built[w]]
      BY <1>0, <2>2, <3>1 DEF Release
    <3>3. /\ bucket'[r].archives[w] = sync[s].built[w]
          /\ \A x \in Workflows \ {w} : bucket'[r].archives[x] = bucket[r].archives[x]
      BY <1>0, <2>2, <3>2 DEF Release
    <3>4. sync[s].found \subseteq Workflows
      BY <1>0 DEF SyncRecord
    <3> QED
      BY <2>1, <2>2, <3>1, <3>3, <3>4 DEF Pipeline, StillOut, Shipped
  <2> QED
    BY <2>3, <2>4
<1>7. CASE PublishConfig(s)
  <2>1. /\ sync[s].at = "build" /\ sync[s].todo = {} /\ ~sync[s].errors
        /\ sync'[s].found = sync[s].found /\ sync'[s].built = sync[s].built
        /\ sync'[s].rid = r /\ r \in Rids
    BY <1>0, <1>7 DEF PublishConfig, Built, SyncRecord
  <2>2. CASE target = "root"
    BY <1>0, <1>7, <2>2 DEF PublishConfig, Pipeline, SyncRecord
  <2>3. CASE target # "root"
    <3>1. target = "bucket"
      BY <2>3 DEF RelTypeOK
    <3>2. /\ sync'[s].at = "manifest" /\ bucket'[r].config = checkout
          /\ bucket'[r].archives = bucket[r].archives
      BY <1>0, <1>7, <2>1, <2>3 DEF PublishConfig, SyncRecord, Release
    <3>3. checkout # NoRef
      BY <1>0, ReleaseAssumptions
    <3> QED
      BY <2>1, <3>1, <3>2, <3>3 DEF Pipeline, StillOut, Shipped
  <2> QED
    BY <2>2, <2>3
<1>8. CASE PublishManifest(s)
  <2>1. /\ sync[s].at = "manifest" /\ sync'[s].at = "pointer"
        /\ sync'[s].found = sync[s].found /\ sync'[s].built = sync[s].built
        /\ sync'[s].rid = r /\ r \in Rids
    BY <1>0, <1>8 DEF PublishManifest, SyncRecord
  <2>2. /\ bucket'[r].manifest /\ bucket'[r].bundles = sync[s].built
        /\ bucket'[r].found = sync[s].found
        /\ bucket'[r].archives = bucket[r].archives /\ bucket'[r].config = bucket[r].config
    BY <1>0, <1>8, <2>1 DEF PublishManifest, Release
  <2> QED
    BY <2>1, <2>2 DEF Pipeline, Shipped
<1>9. CASE Withhold(s) \/ PublishPointer(s) \/ StepFails(s)
  <2>1. sync'[s].at = "record"
    BY <1>0, <1>9 DEF Withhold, PublishPointer, StepFails, SyncRecord
  <2> QED
    BY <2>1 DEF Pipeline
<1>10. CASE Record(s)
  BY <1>0, <1>10 DEF Record, NoSync, Pipeline
<1> QED
  BY <1>1, <1>2, <1>3, <1>4, <1>5, <1>6, <1>7, <1>8, <1>9, <1>10 DEF SyncStep

(* Every step keeps every pipeline in order. *)
LEMMA PipelineStep == ReleaseInv /\ [RelNext]_relVars => PipelineInv'
<1> SUFFICES ASSUME ReleaseInv, [RelNext]_relVars PROVE PipelineInv'
  OBVIOUS
<1>0. RelTypeOK /\ RidInv /\ PipelineInv
  BY DEF ReleaseInv
<1>1. ASSUME NEW s \in Syncs, SyncStep(s) PROVE PipelineInv'
  BY <1>0, <1>1, PipelineOther, PipelineOwn DEF PipelineInv
<1>2. CASE SyncCrash
  BY <1>2 DEF SyncCrash, NoSync, PipelineInv, Pipeline
<1>3. CASE UNCHANGED <<syncs, bucket, target>>
  BY <1>0, <1>3 DEF syncs, PipelineInv, Pipeline, Shipped, StillOut
<1>4. ASSUME NEW t \in Tasks, LoadRelease(t) \/ ReadConfig(t) \/ ResolveBundle(t) \/ Stage(t)
      PROVE  UNCHANGED <<syncs, bucket, target>>
  BY <1>4 DEF LoadRelease, ReadConfig, ResolveBundle, Stage, OfLaunch
<1> QED
  BY <1>1, <1>2, <1>3, <1>4 DEF RelNext, Pin, relVars, stores

-----------------------------------------------------------------------------
(* Publication and launches. *)

(* The pointer names a complete release of its own, or stays. *)
LEMMA PointerEffect ==
    ASSUME ReleaseInv, [RelNext]_relVars
    PROVE  \/ active' = active
           \/ \E s \in Syncs : PublishPointer(s)
<1> USE DEF stores, relVars
<1>1. ASSUME NEW s \in Syncs, SyncStep(s), ~PublishPointer(s) PROVE active' = active
  BY <1>1 DEF SyncStep, Trigger, Fetch, Discover, BuildBegin, BuildEnd, Upload, Withhold,
              PublishConfig, PublishManifest, StepFails, Record
<1>2. CASE SyncCrash
  BY <1>2 DEF SyncCrash
<1>3. ASSUME NEW t \in Tasks, LoadRelease(t) \/ ReadConfig(t) \/ ResolveBundle(t) \/ Stage(t)
      PROVE  active' = active
  BY <1>3 DEF LoadRelease, ReadConfig, ResolveBundle, Stage, OfLaunch
<1> QED
  BY <1>1, <1>2, <1>3 DEF RelNext, Pin

(* The release that is published is complete, and nobody's to write. *)
LEMMA PublishEffect ==
    ASSUME ReleaseInv, NEW s \in Syncs, PublishPointer(s)
    PROVE  /\ active' = sync[s].rid /\ bucket' = bucket /\ Frozen(active)'
           /\ ActiveComplete'
<1>0. /\ RelTypeOK /\ RidInv /\ Pipeline(s) /\ sync \in [Syncs -> SyncRecord]
  BY DEF ReleaseInv, PipelineInv, RelTypeOK
<1>1. /\ sync[s].at = "pointer" /\ active' = sync[s].rid /\ bucket' = bucket
      /\ started' = started
      /\ sync'[s].at = "record" /\ \A z \in Syncs \ {s} : sync'[z] = sync[z]
  BY <1>0 DEF PublishPointer, SyncRecord
<1>2. sync[s].rid \in 1..started /\ sync[s].rid # 0
  BY <1>0, <1>1 DEF RidInv, RelTypeOK
<1>3. \A z \in Syncs \ {s} : sync[z].rid # sync[s].rid
  BY <1>0, <1>2 DEF RidInv
<1>4. Frozen(active)'
  BY <1>1, <1>2, <1>3 DEF Frozen
<1>5. ActiveComplete'
  BY <1>0, <1>1 DEF ActiveComplete, Pipeline, Shipped
<1> QED
  BY <1>1, <1>4, <1>5

(* The active release stays complete. *)
LEMMA ActiveStep == ReleaseInv /\ [RelNext]_relVars => ActiveComplete'
<1> SUFFICES ASSUME ReleaseInv, [RelNext]_relVars PROVE ActiveComplete'
  OBVIOUS
<1>1. ASSUME NEW s \in Syncs, PublishPointer(s) PROVE ActiveComplete'
  BY <1>1, PublishEffect
<1>2. CASE active' = active
  <2>1. active # 0 => bucket'[active] = bucket[active]
    BY FrozenKept DEF ReleaseInv, FrozenInv
  <2> QED
    BY <1>2, <2>1 DEF ReleaseInv, ActiveComplete
<1> QED
  BY <1>1, <1>2, PointerEffect

(* What a step does to a launch: it goes on in one place, or stays. *)
LEMMA LaunchEffect ==
    ASSUME ReleaseInv, [RelNext]_relVars
    PROVE  \/ launch' = launch
           \/ \E t \in Tasks :
                 /\ LoadRelease(t) \/ ReadConfig(t) \/ ResolveBundle(t) \/ Stage(t)
                 /\ \A z \in Tasks \ {t} : launch'[z] = launch[z]
                 /\ bucket' = bucket /\ active' = active /\ UNCHANGED syncs
<1>0. launch \in [Tasks -> LaunchRecord] /\ RelTypeOK
  BY DEF ReleaseInv, RelTypeOK
<1>1. ASSUME NEW t \in Tasks, LoadRelease(t) \/ ReadConfig(t) \/ ResolveBundle(t) \/ Stage(t)
      PROVE  /\ \A z \in Tasks \ {t} : launch'[z] = launch[z]
             /\ bucket' = bucket /\ active' = active /\ UNCHANGED syncs
  BY <1>0, <1>1 DEF LoadRelease, ReadConfig, ResolveBundle, Stage, OfLaunch, LaunchAt
<1>2. ASSUME NEW s \in Syncs, SyncStep(s) PROVE launch' = launch
  BY <1>0, <1>2, SyncEffect, TriggerEffect
<1> QED
  BY <1>1, <1>2 DEF RelNext, Pin, SyncCrash, relVars

(* Whatever a launch may name stays as it was when it was named. *)
LEMMA FrozenStep == ReleaseInv /\ [RelNext]_relVars => FrozenInv'
<1> SUFFICES ASSUME ReleaseInv, [RelNext]_relVars PROVE FrozenInv'
  OBVIOUS
<1>0. FrozenInv /\ launch \in [Tasks -> LaunchRecord]
  BY DEF ReleaseInv, RelTypeOK
<1>1. (active # 0 => Frozen(active))'
  <2>1. CASE active' = active
    BY <1>0, <2>1, FrozenKept DEF FrozenInv
  <2>2. ASSUME NEW s \in Syncs, PublishPointer(s) PROVE Frozen(active)'
    BY <2>2, PublishEffect
  <2> QED
    BY <2>1, <2>2, PointerEffect
<1>2. \A t \in Tasks : launch'[t].rid \in {0, active, launch[t].rid}
  <2>1. ASSUME NEW t \in Tasks, LoadRelease(t) \/ ReadConfig(t) \/ ResolveBundle(t) \/ Stage(t)
        PROVE  launch'[t].rid \in {0, active, launch[t].rid}
    <3> USE <1>0 DEF LaunchAt, LaunchRecord
    <3>1. CASE LoadRelease(t)
      BY <3>1 DEF LoadRelease
    <3>2. CASE ReadConfig(t)
      BY <3>2 DEF ReadConfig
    <3>3. CASE ResolveBundle(t)
      <4>1. PICK at, sum, rid : /\ rid \in {0, launch[t].rid}
                                /\ launch' = [launch EXCEPT ![t] = [launch[t] EXCEPT !.at = at, !.sum = sum, !.rid = rid]]
        BY <3>3 DEF ResolveBundle, ReleaseOf
      <4>2. launch[t] \in LaunchRecord /\ launch \in [Tasks -> LaunchRecord]
        BY <1>0
      <4>3. launch'[t].rid = rid
        BY <4>1, <4>2
      <4> QED
        BY <4>1, <4>3
    <3>4. CASE Stage(t)
      BY <3>4 DEF Stage
    <3> QED
      BY <2>1, <3>1, <3>2, <3>3, <3>4
  <2> QED
    BY <2>1, LaunchEffect
<1>3. \A t \in Tasks : launch'[t].rid # 0 => Frozen(launch'[t].rid)
  BY <1>0, <1>2 DEF FrozenInv
<1>4. \A t \in Tasks : launch'[t].rid # 0 => Frozen(launch[t].rid)'
  BY <1>3, FrozenKept DEF Frozen
<1> QED
  BY <1>1, <1>4 DEF FrozenInv

(* A launch reads its configuration and its bundle from one release. *)
LEMMA LaunchOwn ==
    ASSUME RelTypeOK, LaunchInv, LaunchUniform, NEW t \in Tasks,
           LoadRelease(t) \/ ReadConfig(t) \/ ResolveBundle(t) \/ Stage(t)
    PROVE  OneRelease(t)' /\ RunsUniform(t)'
<1> DEFINE l == launch[t]
           r == l.rid
           w == WorkflowOf[t]
<1>0. /\ launch \in [Tasks -> LaunchRecord] /\ l \in LaunchRecord
      /\ OneRelease(t)
  BY DEF RelTypeOK, LaunchInv
<1> USE DEF LaunchAt, OfLaunch
<1>1. CASE LoadRelease(t)
  <2>1. launch'[t].at = "config"
    BY <1>0, <1>1 DEF LoadRelease, LaunchRecord
  <2> QED
    BY <2>1 DEF OneRelease, RunsUniform
<1>2. CASE ReadConfig(t)
  <2>1. /\ launch'[t].at = "bundle" /\ launch'[t].rid = r /\ bucket' = bucket
        /\ r # 0 => launch'[t].config = bucket[r].config
    BY <1>0, <1>2 DEF ReadConfig, LaunchRecord
  <2> QED
    BY <2>1 DEF OneRelease, RunsUniform
<1>3. CASE ResolveBundle(t)
  <2> DEFINE y(where, sum) == [l EXCEPT !.at = where, !.sum = sum,
                                       !.rid = IF where = "release" THEN r ELSE 0]
  <2>0. l.at = "bundle" /\ bucket' = bucket
    BY <1>3 DEF ResolveBundle
  <2>1. CASE Offers(r, w)
    <3>1. launch' = [launch EXCEPT ![t] = y("release", bucket[r].bundles[w])]
      BY <1>3, <2>1 DEF ResolveBundle, ReleaseOf
    <3>2. /\ launch'[t].at = "release" /\ launch'[t].rid = r /\ launch'[t].config = l.config
          /\ launch'[t].sum = bucket[r].bundles[w]
      BY <1>0, <3>1 DEF LaunchRecord
    <3>3. r # 0 /\ bucket[r].bundles[w] # NoRef
      BY <2>1 DEF Offers
    <3> QED
      BY <1>0, <2>0, <3>2, <3>3 DEF OneRelease, RunsUniform
  <2>2. CASE ~Offers(r, w)
    <3>1. \E where \in {"mounted", "dir", "failed"} : \E sum \in {NoRef, dirs[w], <<HeadRef, t>>} :
             launch' = [launch EXCEPT ![t] = y(where, sum)]
      BY <1>3, <2>2 DEF ResolveBundle, ReleaseOf
    <3>2. launch'[t].at \in {"mounted", "dir", "failed"} /\ launch'[t].rid = 0
      BY <1>0, <3>1 DEF LaunchRecord
    <3> QED
      BY <3>2 DEF OneRelease, RunsUniform
  <2> QED
    BY <2>1, <2>2
<1>4. CASE Stage(t)
  <2>1. /\ l.at \in {"release", "dir", "mounted"} /\ bucket' = bucket
        /\ launch'[t].at \in {"running", "refused"}
        /\ launch'[t].at = "running" => Verified(t)
        /\ launch'[t].bundle = Source(t) /\ launch'[t].rid = r
        /\ launch'[t].config = l.config /\ launch'[t].sum = l.sum
    BY <1>0, <1>4 DEF Stage, LaunchRecord
  <2>2. OneRelease(t)'
    BY <1>0, <2>1 DEF OneRelease
  <2>3. CASE l.at = "release"
    BY <1>0, <2>1, <2>3 DEF OneRelease, RunsUniform, Verified, Source
  <2>4. CASE l.at \in {"dir", "mounted"}
    BY <1>0, <2>1, <2>4 DEF OneRelease, RunsUniform, Verified, Source
  <2> QED
    BY <2>1, <2>2, <2>3, <2>4
<1> QED
  BY <1>1, <1>2, <1>3, <1>4

(* Every step keeps every launch to one release. *)
LEMMA LaunchStep == ReleaseInv /\ [RelNext]_relVars => LaunchInv' /\ LaunchUniform'
<1> SUFFICES ASSUME ReleaseInv, [RelNext]_relVars, NEW t \in Tasks
             PROVE  OneRelease(t)' /\ RunsUniform(t)'
  BY DEF LaunchInv, LaunchUniform
<1>0. RelTypeOK /\ LaunchInv /\ LaunchUniform /\ OneRelease(t) /\ RunsUniform(t)
  BY DEF ReleaseInv, LaunchInv, LaunchUniform
<1>1. CASE LoadRelease(t) \/ ReadConfig(t) \/ ResolveBundle(t) \/ Stage(t)
  BY <1>0, <1>1, LaunchOwn
<1>2. CASE launch'[t] = launch[t]
  <2>1. launch[t].rid # 0 => bucket'[launch[t].rid] = bucket[launch[t].rid]
    BY FrozenKept DEF ReleaseInv, FrozenInv
  <2>2. launch[t].at = "release" => launch[t].rid # 0
    BY <1>0 DEF OneRelease
  <2> QED
    BY <1>0, <1>2, <2>1, <2>2 DEF OneRelease, RunsUniform
<1> QED
  BY <1>1, <1>2, LaunchEffect

(* ReleaseInv holds throughout. *)
LEMMA ReleaseInvariant == RelSpec => []ReleaseInv
<1>1. RelInit => ReleaseInv
  BY InitRelease
<1>2. ReleaseInv /\ [RelNext]_relVars => ReleaseInv'
  BY RelTypeStep, RidStep, PipelineStep, FrozenStep, LaunchStep, ActiveStep DEF ReleaseInv
<1> QED
  BY <1>1, <1>2, PTL DEF RelSpec

(* Publish a complete release before advancing the pointer: whatever       *)
(* active.json names is whole, however many syncs share the checkout, fail *)
(* or are cut off.                                                         *)
THEOREM ActiveIsComplete == RelSpec => []ActiveComplete
<1>1. ReleaseInv => ActiveComplete
  BY DEF ReleaseInv
<1> QED
  BY <1>1, ReleaseInvariant, PTL

(* A launch runs the bundle and configuration of one release, and the      *)
(* build it resolved to, whatever is published or rebuilt meanwhile.       *)
THEOREM LaunchIsUniform == RelSpec => []LaunchUniform
<1>1. ReleaseInv => LaunchUniform
  BY DEF ReleaseInv
<1> QED
  BY <1>1, ReleaseInvariant, PTL

-----------------------------------------------------------------------------
(* One sync at a time. *)

(* A sync begins when no other one is under way. *)
LEMMA TriggerAlone ==
    ASSUME MaxSyncing = 1, NEW s \in Syncs, Trigger(s)
    PROVE  SyncsUnderWay = {}
<1>1. IsFiniteSet(SyncsUnderWay)
  BY ReleaseAssumptions, FS_Subset DEF SyncsUnderWay
<1>2. Cardinality(SyncsUnderWay) \in Nat /\ Cardinality(SyncsUnderWay) < 1
  BY <1>1, FS_CardinalityType DEF Trigger
<1> QED
  BY <1>1, <1>2, FS_EmptySet

(* A sync step keeps the syncs apart, and the checkout where it was found. *)
LEMMA AloneSync ==
    ASSUME MaxSyncing = 1, ReleaseInv, AloneInv, NEW s \in Syncs, SyncStep(s)
    PROVE  AloneInv'
<1>0. /\ RelTypeOK /\ sync \in [Syncs -> SyncRecord]
  BY DEF ReleaseInv, RelTypeOK
<1>1. CASE Trigger(s)
  <2>1. \A z \in Syncs : sync[z].at = "idle"
    BY <1>1, TriggerAlone DEF SyncsUnderWay
  <2>2. /\ sync'[s].at = "fetch" /\ \A z \in Syncs \ {s} : sync'[z].at = "idle"
    BY <1>0, <1>1, <2>1, TriggerEffect
  <2> QED
    BY <2>2 DEF AloneInv, SyncsUnderWay
<1>2. CASE ~Trigger(s)
  <2>1. /\ \A z \in Syncs \ {s} : sync[z].at = "idle" /\ sync'[z] = sync[z]
    BY <1>0, <1>2, SyncEffect DEF AloneInv, SyncsUnderWay
  <2>2. \A x, z \in SyncsUnderWay' : x = z
    BY <2>1 DEF SyncsUnderWay
  <2>3. sync'[s].at \in {"build", "fill", "upload", "manifest", "pointer"} =>
           sync'[s].commit = checkout' /\ DefaultCheckout' = checkout'
    <3> USE <1>0 DEF AloneInv, DefaultCheckout
    <3>1. CASE Fetch(s) \/ Withhold(s) \/ PublishPointer(s) \/ StepFails(s) \/ Record(s)
      BY <3>1 DEF Fetch, Withhold, PublishPointer, StepFails, Record, NoSync, SyncRecord
    <3>2. CASE Discover(s)
      BY <3>2 DEF Discover, SyncRecord
    <3>3. CASE \E w \in Workflows : BuildBegin(s, w)
      BY <3>3 DEF BuildBegin, SyncRecord
    <3>4. CASE BuildEnd(s)
      BY <3>4 DEF BuildEnd, SyncRecord
    <3>5. CASE Upload(s)
      BY <3>5 DEF Upload, SyncRecord
    <3>6. CASE PublishConfig(s) \/ PublishManifest(s)
      BY <3>6 DEF PublishConfig, PublishManifest, Built, SyncRecord
    <3> QED
      BY <1>2, <3>1, <3>2, <3>3, <3>4, <3>5, <3>6 DEF SyncStep
  <2> QED
    BY <2>1, <2>2, <2>3 DEF AloneInv
<1> QED
  BY <1>1, <1>2

(* Each step of the one sync builds at the commit it has found. *)
LEMMA ProgressOwn ==
    ASSUME RelTypeOK, RidInv, PipelineInv, AloneInv, NEW s \in Syncs, SyncStep(s), Progress(s)
    PROVE  Progress(s)'
<1> DEFINE r == sync[s].rid
<1>0. /\ sync \in [Syncs -> SyncRecord] /\ sync[s] \in SyncRecord
      /\ bucket \in [Rids -> Release] /\ checkout \in Refs /\ dirs \in [Workflows -> Directories]
      /\ sync[s].at # "idle" => r \in Rids /\ bucket[r] \in Release
      /\ sync[s].found \subseteq Workflows /\ Pipeline(s)
      /\ sync[s].at \in {"build", "fill", "upload", "manifest", "pointer"} =>
           sync[s].commit = checkout /\ DefaultCheckout = checkout
  BY ReleaseAssumptions DEF RelTypeOK, RidInv, Rids, SyncRecord, PipelineInv, AloneInv
<1> USE DEF syncs, stores
<1>1. CASE Trigger(s)
  BY <1>0, <1>1, TriggerEffect DEF Progress
<1>2. CASE Fetch(s)
  BY <1>0, <1>2 DEF Fetch, Progress, SyncRecord
<1>3. CASE Discover(s)
  <2>1. /\ sync'[s].at = "build" /\ sync'[s].todo = sync'[s].found
    BY <1>0, <1>3 DEF Discover, SyncRecord
  <2> QED
    BY <2>1 DEF Progress, StillOut
<1>4. ASSUME NEW w \in Workflows, BuildBegin(s, w) PROVE Progress(s)'
  <2>1. /\ sync[s].at = "build" /\ w \in sync[s].todo /\ sync'[s].at = "fill"
        /\ sync'[s].cur = w /\ sync'[s].todo = sync[s].todo \ {w}
        /\ sync'[s].found = sync[s].found /\ sync'[s].built = sync[s].built
        /\ sync'[s].errors = sync[s].errors /\ sync'[s].commit = sync[s].commit
        /\ target' = target
    BY <1>0, <1>4 DEF BuildBegin, SyncRecord
  <2>2. \A x \in Workflows \ {w} : dirs'[x] = dirs[x]
    BY <1>0, <1>4 DEF BuildBegin
  <2> QED
    BY <1>0, <2>1, <2>2 DEF Progress, StillOut, HasBuilt
<1>5. CASE BuildEnd(s)
  <2> DEFINE w == sync[s].cur
  <2>1. w \in Workflows /\ r \in Rids
    BY <1>0, <1>5 DEF BuildEnd, Pipeline
  <2>2. /\ sync[s].at = "fill" /\ sync'[s].cur = w /\ sync'[s].todo = sync[s].todo
        /\ sync'[s].found = sync[s].found /\ sync'[s].commit = sync[s].commit
        /\ target' = target
    BY <1>0, <1>5 DEF BuildEnd, SyncRecord
  <2>3. CASE Builds(w)
    <3>1. /\ sync'[s].at = IF target = "bucket" THEN "upload" ELSE "build"
          /\ sync'[s].built = [sync[s].built EXCEPT ![w] = checkout]
          /\ sync'[s].errors = sync[s].errors
      BY <1>0, <1>5, <2>3 DEF BuildEnd, SyncRecord
    <3>2. /\ sync'[s].built[w] = checkout
          /\ \A x \in Workflows \ {w} : sync'[s].built[x] = sync[s].built[x]
      BY <1>0, <2>1, <3>1 DEF SyncRecord
    <3>3. \A x \in Workflows \ {w} : dirs'[x] = dirs[x]
      BY <1>0, <1>5 DEF BuildEnd
    <3>4. target # "bucket" => dirs'[w] = <<checkout, r>>
      BY <1>0, <1>5, <2>1, <2>3 DEF BuildEnd, RelTypeOK
    <3>5. target # "bucket" => dirs'[w] # NoRef /\ dirs'[w][1] = checkout
      <4>1. checkout \in Refs /\ r \in (1..MaxReleases) \cup Tasks
        BY <1>0, <2>1 DEF Rids
      <4>2. <<checkout, r>> # NoRef
        BY <4>1, ReleaseAssumptions
      <4>3. <<checkout, r>>[1] = checkout
        OBVIOUS
      <4> QED
        BY <3>4, <4>2, <4>3
    <3>6. sync[s].commit = checkout
      BY <1>0, <2>2
    <3>7. CASE target = "bucket"
      BY <1>0, <2>1, <2>2, <3>1, <3>2, <3>6, <3>7 DEF Progress, StillOut, HasBuilt
    <3>8. CASE target # "bucket"
      <4>1. StillOut(s)' = sync[s].todo /\ StillOut(s) = sync[s].todo \cup {w}
        BY <2>2, <3>1, <3>8 DEF StillOut
      <4>2. ~sync[s].errors =>
               \A x \in sync[s].found \ sync[s].todo : dirs'[x] # NoRef /\ dirs'[x][1] = checkout
        BY <1>0, <2>2, <3>3, <3>5, <3>6, <3>8, <4>1 DEF Progress, HasBuilt
      <4> QED
        BY <2>2, <3>1, <3>6, <3>8, <4>1, <4>2 DEF Progress, HasBuilt
    <3> QED
      BY <3>7, <3>8
  <2>4. CASE ~Builds(w)
    <3>1. sync'[s].at = "build" /\ sync'[s].errors
      BY <1>0, <1>5, <2>4 DEF BuildEnd, SyncRecord
    <3> QED
      BY <3>1 DEF Progress
  <2> QED
    BY <2>3, <2>4
<1>6. CASE Upload(s)
  <2>1. /\ sync[s].at = "upload" /\ sync'[s].at = "build" /\ sync'[s].todo = sync[s].todo
        /\ sync'[s].found = sync[s].found /\ sync'[s].built = sync[s].built
        /\ sync'[s].commit = sync[s].commit /\ target' = target /\ dirs' = dirs
        /\ ~sync'[s].errors => ~sync[s].errors
    BY <1>0, <1>6 DEF Upload, SyncRecord
  <2>2. target = "bucket"
    BY <1>0, <2>1 DEF Pipeline
  <2> QED
    BY <2>1, <2>2 DEF Progress, StillOut, HasBuilt
<1>7. CASE PublishConfig(s)
  <2>1. /\ sync[s].at = "build" /\ sync[s].todo = {} /\ ~sync[s].errors
        /\ sync'[s].found = sync[s].found /\ sync'[s].built = sync[s].built
        /\ sync'[s].commit = sync[s].commit /\ sync'[s].rid = r /\ r \in Rids
        /\ sync[s].commit = checkout /\ target' = target /\ dirs' = dirs
    BY <1>0, <1>7 DEF PublishConfig, Built, SyncRecord
  <2>2. \A w \in sync[s].found : HasBuilt(s, w)
    BY <2>1 DEF Progress, StillOut
  <2>3. CASE target = "root"
    <3>1. sync'[s].at = "record" /\ snapshot' = checkout
      BY <1>0, <1>7, <2>3 DEF PublishConfig, SyncRecord
    <3> QED
      BY <2>1, <2>2, <2>3, <3>1 DEF Progress, HasBuilt, Offered
  <2>4. CASE target # "root"
    <3>1. target = "bucket"
      BY <2>4 DEF RelTypeOK
    <3>2. sync'[s].at = "manifest" /\ bucket'[r].config = checkout
      BY <1>0, <1>7, <2>1, <2>4 DEF PublishConfig, SyncRecord, Release
    <3> QED
      BY <2>1, <2>2, <3>1, <3>2 DEF Progress, HasBuilt
  <2> QED
    BY <2>3, <2>4
<1>8. CASE PublishManifest(s)
  <2>1. /\ sync[s].at = "manifest" /\ sync'[s].at = "pointer"
        /\ sync'[s].found = sync[s].found /\ sync'[s].built = sync[s].built
        /\ sync'[s].commit = sync[s].commit /\ sync'[s].rid = r /\ r \in Rids
        /\ target' = target
    BY <1>0, <1>8 DEF PublishManifest, SyncRecord
  <2>2. bucket'[r].config = bucket[r].config
    BY <1>0, <1>8, <2>1 DEF PublishManifest, Release
  <2> QED
    BY <2>1, <2>2 DEF Progress, HasBuilt
<1>9. CASE PublishPointer(s)
  <2>1. /\ sync[s].at = "pointer" /\ sync'[s].at = "record" /\ active' = r
        /\ sync'[s].found = sync[s].found /\ sync'[s].commit = sync[s].commit
        /\ target' = target /\ bucket' = bucket
    BY <1>0, <1>9 DEF PublishPointer, SyncRecord
  <2>2. r # 0
    BY <1>0, <2>1 DEF Rids
  <2> QED
    BY <1>0, <2>1, <2>2 DEF Progress, Pipeline, Shipped, HasBuilt, Offered
<1>10. CASE Withhold(s) \/ StepFails(s)
  <2>1. sync'[s].at = "record" /\ sync'[s].errors
    BY <1>0, <1>10 DEF Withhold, StepFails, SyncRecord
  <2> QED
    BY <2>1 DEF Progress
<1>11. CASE Record(s)
  BY <1>0, <1>11 DEF Record, NoSync, Progress
<1> QED
  BY <1>1, <1>2, <1>3, <1>4, <1>5, <1>6, <1>7, <1>8, <1>9, <1>10, <1>11 DEF SyncStep

(* A launch only fills a directory that is missing. *)
LEMMA DirsEffect ==
    ASSUME RelTypeOK, NEW t \in Tasks,
           LoadRelease(t) \/ ReadConfig(t) \/ ResolveBundle(t) \/ Stage(t)
    PROVE  /\ \A w \in Workflows : dirs[w] # NoRef => dirs'[w] = dirs[w]
           /\ UNCHANGED <<target, checkout, syncs, bucket, active, snapshot, state, torn>>
<1>0. dirs \in [Workflows -> Directories]
  BY DEF RelTypeOK
<1>1. CASE ResolveBundle(t)
  BY <1>0, <1>1, ReleaseAssumptions DEF ResolveBundle, OfLaunch
<1>2. CASE LoadRelease(t) \/ ReadConfig(t) \/ Stage(t)
  BY <1>2 DEF LoadRelease, ReadConfig, Stage, OfLaunch
<1> QED
  BY <1>1, <1>2

(* Neither a pin nor a launch takes away what a sync has published. *)
LEMMA QuietStep ==
    ASSUME RelTypeOK, AloneInv, ProgressInv, OkIsPublished,
           \A w \in Workflows : dirs[w] # NoRef => dirs'[w] = dirs[w],
           UNCHANGED <<target, checkout, syncs, bucket, active, snapshot, state, torn>>
    PROVE  AloneInv' /\ ProgressInv' /\ OkIsPublished'
<1>1. AloneInv'
  BY DEF AloneInv, SyncsUnderWay, DefaultCheckout, syncs
<1>2. /\ \A s \in Syncs : sync[s].found \subseteq Workflows
      /\ state.found \subseteq Workflows
  BY DEF RelTypeOK, SyncRecord
<1>3. ASSUME NEW s \in Syncs PROVE Progress(s)'
  <2>1. \A w \in sync[s].found : HasBuilt(s, w) => HasBuilt(s, w)'
    BY <1>2 DEF HasBuilt, syncs
  <2>2. Offered(sync[s].commit, sync[s].found) => Offered(sync[s].commit, sync[s].found)'
    BY <1>2 DEF Offered, syncs
  <2>3. StillOut(s)' = StillOut(s) /\ sync'[s] = sync[s]
    BY DEF StillOut, syncs
  <2>4. Progress(s)
    BY DEF ProgressInv
  <2> QED
    BY <2>1, <2>2, <2>3, <2>4 DEF Progress
<1>4. OkIsPublished'
  BY <1>2 DEF OkIsPublished, SyncsUnderWay, syncs
<1> QED
  BY <1>1, <1>3, <1>4 DEF ProgressInv

(* One sync at a time: every step keeps what a recorded success says. *)
LEMMA SingleStep ==
    ASSUME MaxSyncing = 1, SingleInv, [RelNext]_relVars
    PROVE  AloneInv' /\ ProgressInv' /\ OkIsPublished'
<1>0. /\ ReleaseInv /\ RelTypeOK /\ RidInv /\ PipelineInv /\ AloneInv /\ ProgressInv
      /\ OkIsPublished /\ sync \in [Syncs -> SyncRecord]
  BY DEF SingleInv, ReleaseInv, RelTypeOK
<1>1. ASSUME NEW s \in Syncs, SyncStep(s)
      PROVE  AloneInv' /\ ProgressInv' /\ OkIsPublished'
  <2>1. AloneInv'
    BY <1>0, <1>1, AloneSync
  <2>2. Progress(s)'
    BY <1>0, <1>1, ProgressOwn DEF ProgressInv
  <2>3. \A z \in Syncs \ {s} : sync'[z] = sync[z]
    BY <1>0, <1>1, SyncEffect, TriggerEffect
  <2>4. \A z \in Syncs \ {s} : sync[z].at = "idle"
    <3>1. CASE Trigger(s)
      BY <3>1, TriggerAlone DEF SyncsUnderWay
    <3>2. CASE ~Trigger(s)
      BY <1>0, <1>1, <3>2, SyncEffect DEF AloneInv, SyncsUnderWay
    <3> QED
      BY <3>1, <3>2
  <2>5. ProgressInv'
    BY <2>2, <2>3, <2>4 DEF ProgressInv, Progress
  <2>6. CASE Record(s)
    <3>1. /\ sync[s].at = "record" /\ state'.commit = sync[s].commit
          /\ state'.found = sync[s].found
          /\ state'.status = "ok" => ~sync[s].errors
          /\ UNCHANGED <<target, bucket, active, dirs, snapshot>>
      BY <1>0, <2>6 DEF Record, stores
    <3>2. state'.status = "ok" => Offered(sync[s].commit, sync[s].found)
      BY <1>0, <3>1 DEF ProgressInv, Progress
    <3> QED
      BY <2>1, <2>5, <3>1, <3>2 DEF OkIsPublished, Offered
  <2>7. CASE ~Record(s)
    <3>1. sync'[s].at # "idle"
      <4>1. CASE Trigger(s)
        BY <1>0, <4>1, TriggerEffect
      <4>2. CASE ~Trigger(s)
        <5>1. sync[s].at # "record"
          BY <1>0, <1>1, <2>7, <4>2 DEF SyncStep, Fetch, Discover, BuildBegin, BuildEnd, Upload,
             Withhold, PublishConfig, PublishManifest, PublishPointer, StepFails, Built
        <5> QED
          BY <1>0, <1>1, <4>2, <5>1, SyncEffect
      <4> QED
        BY <4>1, <4>2
    <3>2. SyncsUnderWay' # {}
      BY <3>1 DEF SyncsUnderWay
    <3> QED
      BY <2>1, <2>5, <3>2 DEF OkIsPublished
  <2> QED
    BY <2>6, <2>7
<1>2. CASE SyncCrash
  BY <1>2 DEF SyncCrash, NoSync, AloneInv, ProgressInv, Progress, OkIsPublished, SyncsUnderWay
<1>3. ASSUME NEW t \in Tasks, LoadRelease(t) \/ ReadConfig(t) \/ ResolveBundle(t) \/ Stage(t)
      PROVE  AloneInv' /\ ProgressInv' /\ OkIsPublished'
  <2>1. /\ \A w \in Workflows : dirs[w] # NoRef => dirs'[w] = dirs[w]
        /\ UNCHANGED <<target, checkout, syncs, bucket, active, snapshot, state, torn>>
    BY <1>0, <1>3, DirsEffect
  <2> QED
    BY <1>0, <2>1, QuietStep
<1>4. CASE UNCHANGED relVars \/ \E ref \in Refs : Pin(ref)
  <2>1. /\ \A w \in Workflows : dirs[w] # NoRef => dirs'[w] = dirs[w]
        /\ UNCHANGED <<target, checkout, syncs, bucket, active, snapshot, state, torn>>
    BY <1>4 DEF relVars, Pin, stores
  <2> QED
    BY <1>0, <2>1, QuietStep
<1> QED
  BY <1>1, <1>2, <1>3, <1>4 DEF RelNext

(* As long as syncs are triggered one at a time, a sync that is recorded   *)
(* as a success, with none under way or cut off since, has published every *)
(* workflow it discovered, and the configuration, at the recorded commit.  *)
THEOREM OkMeansPublished == MaxSyncing = 1 => (RelSpec => []OkIsPublished)
<1> SUFFICES ASSUME MaxSyncing = 1 PROVE RelSpec => []OkIsPublished
  OBVIOUS
<1>1. RelInit => SingleInv
  <2> SUFFICES ASSUME RelInit PROVE SingleInv
    OBVIOUS
  <2>1. ReleaseInv
    BY InitRelease
  <2>2. AloneInv /\ ProgressInv /\ OkIsPublished
    BY DEF RelInit, NoSync, AloneInv, ProgressInv, Progress, SyncsUnderWay, OkIsPublished
  <2> QED
    BY <2>1, <2>2 DEF SingleInv
<1>2. SingleInv /\ [RelNext]_relVars => SingleInv'
  <2> SUFFICES ASSUME SingleInv, [RelNext]_relVars PROVE SingleInv'
    OBVIOUS
  <2>1. ReleaseInv
    BY DEF SingleInv
  <2>2. ReleaseInv'
    BY <2>1, RelTypeStep, RidStep, PipelineStep, FrozenStep, LaunchStep, ActiveStep DEF ReleaseInv
  <2> QED
    BY <2>2, SingleStep DEF SingleInv
<1>3. SingleInv => OkIsPublished
  BY DEF SingleInv
<1> QED
  BY <1>1, <1>2, <1>3, PTL DEF RelSpec
=============================================================================
