-------------------------- MODULE Services_Proofs --------------------------
(***************************************************************************)
(* Proofs about the smaller services: the scheduler (Schedules), the       *)
(* message ingress (MessageIngress), the housekeeping sweeps               *)
(* (Housekeeping) and the memory of an agent (AgentMemory).  Each part     *)
(* shows that the inductive invariant its module ends with is preserved by *)
(* every action, and reads the properties off it.                          *)
(***************************************************************************)
EXTENDS Schedules, MessageIngress, Housekeeping, AgentMemory, FiniteSetTheorems, TLAPS

-----------------------------------------------------------------------------
(* Schedules. *)

(* Every initial state satisfies the invariant of the scheduler. *)
LEMMA InitSched == SchedInit => SchedInv
<1> SUFFICES ASSUME SchedInit PROVE SchedInv
  OBVIOUS
<1>1. SchedTypeOK
  <2>1. NoRow \in RowRecord
    BY DEF NoRow, RowRecord
  <2> QED
    BY <2>1, ScheduleAssumptions DEF SchedInit, SchedTypeOK
<1>2. JobsInv /\ LateInv
  BY DEF SchedInit, JobsInv, LateInv
<1> QED
  BY <1>1, <1>2 DEF SchedInv

(* What a scan writes has the types of rows and agents. *)
LEMMA ScanType ==
    ASSUME SchedTypeOK, NEW v \in Versions, run_provisioner_scan(v)
    PROVE  /\ rows' \in [Jobs -> RowRecord]
           /\ agents' \in [Agents -> [provisioned : BOOLEAN, paused : BOOLEAN]]
           /\ budget' \in [updates : Nat, scans : Nat]
<1>1. \A j \in Jobs : [there |-> TRUE, enabled |-> EnabledIn[v][j], text |-> v] \in RowRecord
  BY ScheduleAssumptions DEF RowRecord
<1>2. NoRow \in RowRecord
  BY DEF NoRow, RowRecord
<1>3. rows' \in [Jobs -> RowRecord]
  BY <1>1, <1>2 DEF run_provisioner_scan, sync_schedules
<1>4. agents' \in [Agents -> [provisioned : BOOLEAN, paused : BOOLEAN]]
  <2>1. \A a \in Agents : \A b \in BOOLEAN :
           [agents[a] EXCEPT !.provisioned = b] \in [provisioned : BOOLEAN, paused : BOOLEAN]
    BY DEF SchedTypeOK
  <2> QED
    BY <2>1 DEF run_provisioner_scan
<1>5. budget' \in [updates : Nat, scans : Nat]
  BY DEF run_provisioner_scan, SchedTypeOK
<1> QED
  BY <1>3, <1>4, <1>5

(* Every step keeps the types of the scheduler. *)
LEMMA SchedTypeStep == SchedTypeOK /\ [SchedNext]_schedVars => SchedTypeOK'
<1> SUFFICES ASSUME SchedTypeOK, [SchedNext]_schedVars PROVE SchedTypeOK'
  OBVIOUS
<1> USE ScheduleAssumptions
<1>1. CASE BootScan
  BY <1>1, ScanType DEF BootScan, SchedTypeOK
<1>2. CASE start_scheduler
  <2>1. jobs' \in [Jobs -> Versions \cup {NoVersion}]
    BY <1>2 DEF start_scheduler, SchedTypeOK, RowRecord
  <2> QED
    BY <1>2, <2>1 DEF start_scheduler, SchedTypeOK
<1>3. CASE Stop
  BY <1>3 DEF Stop, SchedTypeOK
<1>4. CASE UpdateJob
  <2>1. update.job \in Jobs /\ JobAfter \in Versions \cup {NoVersion}
    BY <1>4 DEF UpdateJob, JobAfter, SchedTypeOK
  <2> QED
    BY <1>4, <2>1 DEF UpdateJob, SchedTypeOK
<1>5. ASSUME NEW v \in Versions, SyncAndScan(v) PROVE SchedTypeOK'
  BY <1>5, ScanType DEF SyncAndScan, SchedTypeOK
<1>6. ASSUME NEW a \in Agents, NEW off \in BOOLEAN, SetAgentPaused(a, off)
      PROVE  SchedTypeOK'
  BY <1>6 DEF SetAgentPaused, SchedTypeOK
<1>7. ASSUME NEW j \in Jobs, Fire(j) PROVE SchedTypeOK'
  BY <1>7 DEF Fire, SchedTypeOK
<1>8. ASSUME NEW j \in Jobs, FireCreates(j) PROVE SchedTypeOK'
  BY <1>8 DEF FireCreates, SchedTypeOK
<1>9. ASSUME NEW j \in Jobs, NEW on \in BOOLEAN, UpdateRow(j, on) PROVE SchedTypeOK'
  <2>0. /\ rows \in [Jobs -> RowRecord] /\ rows' = [rows EXCEPT ![j].enabled = on]
        /\ budget \in [updates : Nat, scans : Nat]
        /\ budget' = [budget EXCEPT !.updates = @ + 1]
    BY <1>9 DEF UpdateRow, SchedTypeOK
  <2>1. rows' \in [Jobs -> RowRecord]
    <3>1. [rows[j] EXCEPT !.enabled = on] \in RowRecord
      BY <2>0 DEF RowRecord
    <3> QED
      BY <2>0, <3>1
  <2>2. update' \in [job : Jobs, on : BOOLEAN, text : Versions \cup {NoVersion}]
    BY <1>9 DEF UpdateRow, SchedTypeOK, RowRecord
  <2>3. budget' \in [updates : Nat, scans : Nat]
    BY <2>0
  <2> QED
    BY <1>9, <2>1, <2>2, <2>3 DEF UpdateRow, SchedTypeOK
<1>10. CASE UNCHANGED schedVars
  BY <1>10 DEF schedVars, SchedTypeOK
<1> QED
  BY <1>1, <1>2, <1>3, <1>4, <1>5, <1>6, <1>7, <1>8, <1>9, <1>10 DEF SchedNext

(* Every step keeps the jobs and the rows in agreement. *)
LEMMA JobsStep == SchedTypeOK /\ JobsInv /\ [SchedNext]_schedVars => JobsInv'
<1> SUFFICES ASSUME SchedTypeOK, JobsInv, [SchedNext]_schedVars PROVE JobsInv'
  OBVIOUS
<1> USE ScheduleAssumptions DEF JobOf
<1>1. CASE BootScan
  BY <1>1 DEF BootScan, JobsInv
<1>2. CASE start_scheduler
  <2>1. update = NoUpdate /\ update' = update /\ NoUpdate.job = NoVersion
    BY <1>2 DEF start_scheduler, JobsInv, NoUpdate
  <2> QED
    BY <1>2, <2>1 DEF start_scheduler, JobsInv
<1>3. CASE Stop
  BY <1>3 DEF Stop, JobsInv
<1>4. CASE UpdateJob
  <2>1. /\ update.job \in Jobs /\ update'.job \notin Jobs /\ serving = "up"
    BY <1>4 DEF UpdateJob, SchedTypeOK, NoUpdate, JobsInv
  <2>2. /\ jobs'[update.job] = JobAfter /\ rows' = rows /\ serving' = serving
        /\ \A j \in Jobs \ {update.job} : jobs'[j] = jobs[j]
        /\ rescanned' = rescanned \/ rescanned' = rescanned \ {update.job}
    BY <1>4, <2>1 DEF UpdateJob, SchedTypeOK
  <2>3. ASSUME NEW j \in Jobs \ rescanned', j # update.job PROVE jobs'[j] = JobOf(j)
    BY <2>1, <2>2, <2>3 DEF JobsInv
  <2>4. ASSUME update.job \notin rescanned' PROVE jobs'[update.job] = JobOf(update.job)
    <3>1. rows[update.job].enabled = update.on /\ rows[update.job].text = update.text
      BY <1>4, <2>1, <2>4 DEF JobsInv, UpdateJob
    <3> QED
      BY <2>2, <3>1 DEF JobAfter
  <2> QED
    BY <2>1, <2>2, <2>3, <2>4 DEF JobsInv
<1>5. ASSUME NEW v \in Versions, SyncAndScan(v) PROVE JobsInv'
  <2>1. \A j \in Jobs \ rescanned' : j \notin rescanned /\ rows'[j] = rows[j]
    BY <1>5 DEF SyncAndScan
  <2> QED
    BY <1>5, <2>1 DEF SyncAndScan, JobsInv
<1>6. ASSUME NEW j \in Jobs, NEW on \in BOOLEAN, UpdateRow(j, on) PROVE JobsInv'
  <2>1. NoUpdate.job \notin Jobs /\ update = NoUpdate /\ serving = "up"
    BY <1>6 DEF UpdateRow, NoUpdate
  <2>2. /\ update'.job = j /\ update'.on = on /\ update'.text = rows[j].text
        /\ rows'[j].enabled = on /\ rows'[j].text = rows[j].text
        /\ \A k \in Jobs \ {j} : rows'[k] = rows[k]
    BY <1>6 DEF UpdateRow, SchedTypeOK, RowRecord
  <2> QED
    BY <1>6, <2>1, <2>2 DEF UpdateRow, JobsInv
<1>7. CASE UNCHANGED <<rows, jobs, serving, update, rescanned>>
  BY <1>7 DEF JobsInv
<1> QED
  BY <1>1, <1>2, <1>3, <1>4, <1>5, <1>6, <1>7
     DEF SchedNext, SetAgentPaused, Fire, FireCreates, schedVars

(* A handler that has read its row owes at most one late task. *)
LEMMA LateStep == SchedTypeOK /\ LateInv /\ [SchedNext]_schedVars => LateInv'
<1> SUFFICES ASSUME SchedTypeOK, LateInv, [SchedNext]_schedVars PROVE LateInv'
  OBVIOUS
<1>1. ASSUME NEW j \in Jobs, Fire(j) PROVE LateInv'
  BY <1>1 DEF Fire, Reads, LateInv, SchedTypeOK
<1>2. ASSUME NEW j \in Jobs, FireCreates(j) PROVE LateInv'
  BY <1>2 DEF FireCreates, LateInv, SchedTypeOK
<1>3. CASE Stop
  BY <1>3 DEF Stop, LateInv
<1>4. CASE UNCHANGED <<fired, late>>
  BY <1>4 DEF LateInv
<1> QED
  BY <1>1, <1>2, <1>3, <1>4
     DEF SchedNext, BootScan, start_scheduler, UpdateJob, SyncAndScan, SetAgentPaused, UpdateRow,
         schedVars

(* SchedInv holds throughout. *)
LEMMA SchedInvariant == SchedSpec => []SchedInv
<1>1. SchedInv /\ [SchedNext]_schedVars => SchedInv'
  BY SchedTypeStep, JobsStep, LateStep DEF SchedInv
<1> QED
  BY <1>1, InitSched, PTL DEF SchedSpec

(* Between updates the scheduler runs exactly the enabled schedules as     *)
(* their rows have them, except where a scan changed a row behind it.      *)
THEOREM JobsAlwaysMatch == SchedSpec => []JobsMatchRows
<1>1. SchedInv => JobsMatchRows
  <2> SUFFICES ASSUME SchedInv, serving = "up", update = NoUpdate, NEW j \in Jobs \ rescanned
               PROVE  jobs[j] = IF rows[j].enabled THEN rows[j].text ELSE NoVersion
    BY DEF JobsMatchRows
  <2>1. update.job # j
    BY ScheduleAssumptions DEF NoUpdate
  <2> QED
    BY <2>1 DEF SchedInv, JobsInv, JobOf
<1> QED
  BY <1>1, SchedInvariant, PTL

(* A job that outlives its row, or the pause of its agent, costs one task  *)
(* at most, whatever is paused, scanned or disabled in between.            *)
THEOREM LateRunsBounded == SchedSpec => []OneLateRun
<1>1. SchedInv => OneLateRun
  BY DEF SchedInv, LateInv, OneLateRun
<1> QED
  BY <1>1, SchedInvariant, PTL

-----------------------------------------------------------------------------
(* Message ingress. *)

(* A set of naturals that is not empty has a smallest member. *)
LEMMA Smallest ==
    ASSUME NEW S \in SUBSET Nat, S # {}
    PROVE  \E x \in S : \A y \in S : x <= y
<1> DEFINE R == OpToRel(<, Nat)
<1>1. IsWellFoundedOn(R, Nat)
  BY NatLessThanWellFounded, Zenon
<1>2. PICK x \in S : \A y \in S : <<y, x>> \notin R
  <2> HIDE DEF R
  <2> QED
    BY <1>1, WFMin
<1>3. \A y \in S : ~(y < x)
  BY <1>2, Zenon DEF OpToRel
<1> QED
  BY <1>3

(* A new listener gets a number of its own, the first that is free. *)
LEMMA FreshListener ==
    ASSUME FreshIds # {}
    PROVE  NextFresh \in Lids /\ listener[NextFresh].at = "none"
<1>1. FreshIds \in SUBSET Nat
  BY IngressAssumptions DEF FreshIds, Lids
<1>2. \E l \in FreshIds : \A k \in FreshIds : l <= k
  BY <1>1, Smallest
<1>3. NextFresh \in FreshIds
  BY <1>2 DEF NextFresh
<1>4. NextFresh \in Lids /\ NextFresh \in NextFresh..MaxStarts
  BY <1>3, IngressAssumptions DEF FreshIds, Lids
<1> QED
  BY <1>3, <1>4 DEF FreshIds

-----------------------------------------------------------------------------
(* Routing does not depend on the aliases. *)

(* Where posts carry the name of their channel, the resolved ids add no    *)
(* route that the names do not give.                                       *)
LEMMA SameRoutes ==
    ASSUME provider = "mattermost", NEW p, NEW found \in SUBSET Routes
    PROVE  match_message_route(p, found) = match_message_route(p, {})
<1> DEFINE named == {<<r, "name">> : r \in {s \in Routes : provider = "mattermost" /\ s.channel = p.channel}}
           ids(f) == {<<r, "id">> : r \in {s \in f : s.channel = p.channel}}
           matches(f) == {m \in OnChannel(p, f) : match_route_prompt(p, m[1])}
           winners(f) == {m \in matches(f) : \A n \in matches(f) : n[1].priority <= m[1].priority}
<1>1. \A m \in OnChannel(p, {}) : m \in OnChannel(p, found)
  BY DEF OnChannel
<1>2. \A m \in OnChannel(p, found) : \E n \in OnChannel(p, {}) : n[1] = m[1]
  <2> SUFFICES ASSUME NEW m \in OnChannel(p, found)
               PROVE  \E n \in OnChannel(p, {}) : n[1] = m[1]
    OBVIOUS
  <2>1. PICK r \in Routes : r.channel = p.channel /\ m[1] = r
    BY DEF OnChannel
  <2>2. <<r, "name">> \in OnChannel(p, {})
    BY <2>1 DEF OnChannel
  <2> QED
    BY <2>1, <2>2
<1> HIDE DEF ids, named
<1>3. /\ \A m \in matches({}) : m \in matches(found)
      /\ \A m \in matches(found) : \E n \in matches({}) : n[1] = m[1]
  BY <1>1, <1>2
<1> HIDE DEF matches
<1>4. /\ \A m \in winners({}) : m \in winners(found)
      /\ \A m \in winners(found) : \E n \in winners({}) : n[1] = m[1]
  <2>1. ASSUME NEW m \in matches({})
        PROVE  (\A n \in matches({}) : n[1].priority <= m[1].priority)
                 <=> (\A n \in matches(found) : n[1].priority <= m[1].priority)
    BY <1>3
  <2> QED
    BY <1>3, <2>1
<1>5. match_message_route(p, found) =
        IF Cardinality({identity(m) : m \in winners(found)}) = 1
        THEN {m[1].workflow : m \in winners(found)} ELSE {}
  BY DEF match_message_route, matches
<1>6. match_message_route(p, {}) =
        IF Cardinality({identity(m) : m \in winners({})}) = 1
        THEN {m[1].workflow : m \in winners({})} ELSE {}
  BY DEF match_message_route, matches
<1> HIDE DEF winners
<1>7. {identity(m) : m \in winners(found)} = {identity(m) : m \in winners({})}
  BY <1>4 DEF identity
<1>8. {m[1].workflow : m \in winners(found)} = {m[1].workflow : m \in winners({})}
  BY <1>4
<1> QED
  BY <1>5, <1>6, <1>7, <1>8

(* A route that takes a post belongs to a workflow. *)
LEMMA RouteWorkflow ==
    ASSUME NEW p, NEW found \in SUBSET Routes, NEW w \in match_message_route(p, found)
    PROVE  w \in {r.workflow : r \in Routes}
<1>1. \A m \in OnChannel(p, found) : m[1] \in Routes
  BY DEF OnChannel
<1> QED
  BY <1>1 DEF match_message_route

(* No route takes what the bot itself posted. *)
LEMMA OwnPostsUnrouted ==
    ASSUME NEW p, p.who = Self, p.kind # "human", NEW found \in SUBSET Routes
    PROVE  match_message_route(p, found) = {}
<1>1. \A m \in OnChannel(p, found) : m[1] \in Routes
  BY DEF OnChannel
<1>2. ASSUME NEW r \in Routes PROVE Self \notin r.trusted
  <2>1. PICK c \in Configs : r \in RoutesOf(c)
    BY <1>2 DEF Routes
  <2>2. CASE \E ch \in c.channels : r = TriggerRoute(c, ch)
    <3>1. PICK ch \in c.channels : r = TriggerRoute(c, ch)
      BY <2>2
    <3>2. r.trusted = {}
      BY <3>1 DEF TriggerRoute
    <3> QED
      BY <3>2
  <2>3. CASE \E u \in c.rules : \E ch \in RuleChannels(c, u) : r = RuleRoute(c, u, ch)
    <3>1. PICK u \in c.rules : \E ch \in RuleChannels(c, u) : r = RuleRoute(c, u, ch)
      BY <2>3
    <3>2. r.trusted = u.trusted
      BY <3>1 DEF RuleRoute
    <3> QED
      BY <3>2, IngressAssumptions
  <2> QED
    BY <2>1, <2>2, <2>3 DEF RoutesOf
<1>3. \A r \in Routes : ~match_route_prompt(p, r)
  BY <1>2 DEF match_route_prompt, matches_sender_trust
<1> DEFINE matches == {m \in OnChannel(p, found) : match_route_prompt(p, m[1])}
           winners == {m \in matches : \A n \in matches : n[1].priority <= m[1].priority}
<1>4. matches = {}
  BY <1>1, <1>3
<1>5. {m[1].workflow : m \in winners} = {}
  BY <1>4
<1>6. match_message_route(p, found) =
        IF Cardinality({identity(m) : m \in winners}) = 1
        THEN {m[1].workflow : m \in winners} ELSE {}
  BY DEF match_message_route
<1> HIDE DEF winners
<1> QED
  BY <1>5, <1>6

-----------------------------------------------------------------------------
(* The types of the listener's state. *)

(* The initial state satisfies the invariant. *)
LEMMA InitIngress == IngInit => IngressInv
<1> SUFFICES ASSUME IngInit PROVE IngressInv
  OBVIOUS
<1> USE DEF IngInit
<1>0. MaxStarts \in Nat
  BY IngressAssumptions
<1>1. NetworkType
  BY DEF NetworkType
<1>2. ListenerType /\ ControlType
  <2>1. request \in [Toggles -> RequestRecord]
    BY DEF NoRequest, RequestRecord
  <2>2. listener \in [Lids -> ListenerRecord]
    BY DEF Off, ListenerRecord
  <2>3. \A l \in Lids : listener[l].at \notin Handling
    BY DEF Off, Handling
  <2>4. current \in 0..MaxStarts
    BY <1>0
  <2>5. aliased \subseteq Routes
    OBVIOUS
  <2>6. botKnown \in BOOLEAN /\ paused \in BOOLEAN /\ up \in BOOLEAN
    BY Zenon
  <2> QED
    BY <2>1, <2>2, <2>3, <2>4, <2>5, <2>6, Zenon DEF ListenerType, ControlType
<1>3. TaskType
  <2>1. tasks = <<>>
    OBVIOUS
  <2> QED
    BY <2>1 DEF TaskType
<1>4. DialogType
  <2>1. dialog \in [at : {"none"}, total : 1..Questions, question : {0}, after : {0},
                     answers : {<<>>}]
    OBVIOUS
  <2>2. Questions \in Nat
    BY IngressAssumptions
  <2>3. dialog \in DialogRecord
    <3> HIDE DEF IngInit
    <3> QED
      <4>1. dialog = [at |-> dialog.at, total |-> dialog.total, question |-> dialog.question,
                      after |-> dialog.after, answers |-> dialog.answers]
        BY <2>1, Zenon
      <4>2. /\ dialog.at = "none" /\ dialog.total \in Nat
            /\ dialog.question \in Nat /\ dialog.after \in Nat
        BY <2>1, <2>2
      <4>3. dialog.answers \in Seq(Nat)
        <5>1. dialog.answers = <<>>
          BY <2>1
        <5> QED
          BY <5>1
      <4> QED
        BY <4>1, <4>2, <4>3, Zenon DEF DialogRecord
  <2> QED
    BY <2>1, <2>3 DEF DialogType
<1>5. AnswersInv /\ OwnInv
  BY DEF AnswersInv, AnswersAdvance, OwnInv
<1> QED
  BY <1>1, <1>2, <1>3, <1>4, <1>5 DEF IngressInv, IngTypeOK

(* The fields of a post. *)
LEMMA PostFields ==
    ASSUME NEW p \in PostRecord
    PROVE  /\ p.thread \in Nat /\ p.channel \in Channels /\ p.root \in BOOLEAN
           /\ p.kind \in {"human", "bot", "webhook"} /\ "kind" \in DOMAIN p
           /\ "thread" \in DOMAIN p
  BY DEF PostRecord

(* What somebody posts is a post. *)
LEMMA InputType ==
    ASSUME NEW i \in Inputs
    PROVE  i \in PostRecord /\ i.thread = 0 /\ i.who # Self
<1> DEFINE In == [who : People, kind : {"human", "bot", "webhook"}, root : BOOLEAN,
                  thread : {0}, channel : Channels, text : Texts, hook : Hooks,
                  accounts : Accounts, environments : Environments]
<1>1. i \in In /\ i.who # Self
  BY IngressAssumptions
<1>2. i.thread = 0
  BY <1>1
<1>3. i \in PostRecord
  <2>1. i = [who |-> i.who, kind |-> i.kind, root |-> i.root, thread |-> i.thread,
             channel |-> i.channel, text |-> i.text, hook |-> i.hook,
             accounts |-> i.accounts, environments |-> i.environments]
    BY <1>1, Zenon
  <2>2. /\ i.who \in People \cup {Self} /\ i.kind \in {"human", "bot", "webhook"}
        /\ i.thread \in Nat /\ i.channel \in Channels
        /\ i.text \in Texts \cup {"own"} /\ i.hook \in Hooks \cup {""}
        /\ i.accounts \in Accounts \cup {{}}
        /\ i.environments \in Environments \cup {{}}
    <3>1. /\ i.who \in People /\ i.kind \in {"human", "bot", "webhook"}
          /\ i.channel \in Channels /\ i.text \in Texts /\ i.hook \in Hooks
          /\ i.accounts \in Accounts /\ i.environments \in Environments
      BY <1>1, Zenon
    <3>2. i.thread \in Nat
      BY <1>2
    <3> QED
      BY <3>1, <3>2, Zenon
  <2>3. i.root \in BOOLEAN
    BY <1>1, Zenon
  <2> QED
    BY <2>1, <2>2, <2>3, Zenon DEF PostRecord
<1> QED
  BY <1>1, <1>2, <1>3

(* What the bot posts is a post. *)
LEMMA OwnPostType ==
    ASSUME NetworkType, NEW t \in 1..Len(posts)
    PROVE  /\ OwnPost(t) \in PostRecord /\ OwnPost(t).thread = t
           /\ OwnPost(t).who = Self /\ OwnPost(t).kind = "bot"
<1>1. posts[t] \in PostRecord /\ t \in Nat
  BY DEF NetworkType
<1>2. posts[t].channel \in Channels /\ t \in Nat
  BY <1>1, PostFields
<1>3. \A ch \in Channels, th \in Nat :
        [who |-> Self, kind |-> "bot", root |-> FALSE, thread |-> th, channel |-> ch,
         text |-> "own", hook |-> "", accounts |-> {}, environments |-> {}] \in PostRecord
  BY DEF PostRecord
<1> QED
  BY <1>2, <1>3 DEF OwnPost

(* The thread of a post is that of an earlier post, or its own. *)
LEMMA InboundType ==
    ASSUME NetworkType, NEW n \in 1..Len(posts)
    PROVE  /\ Inbound(n).thread \in 1..Len(posts)
           /\ Inbound(n).who = posts[n].who
           /\ posts[n].kind = "bot" => Inbound(n).kind = "bot"
<1>1. posts[n] \in PostRecord /\ posts[n].thread <= Len(posts) /\ Len(posts) \in Nat
  BY DEF NetworkType
<1>2. posts[n].thread \in Nat /\ "kind" \in DOMAIN posts[n] /\ "thread" \in DOMAIN posts[n]
  BY <1>1, PostFields
<1>3. Inbound(n).thread = IF posts[n].thread = 0 THEN n ELSE posts[n].thread
  BY <1>2 DEF Inbound, parse_slack_socket_envelope, parse_mattermost_websocket_event
<1>4. /\ Inbound(n).who = posts[n].who
      /\ posts[n].kind = "bot" => Inbound(n).kind = "bot"
  BY <1>2 DEF Inbound, parse_slack_socket_envelope, parse_mattermost_websocket_event
<1> QED
  BY <1>1, <1>2, <1>3, <1>4

(* A post extends what was posted, and no connection gets more than that. *)
LEMMA PublishType ==
    ASSUME NetworkType, NEW p \in PostRecord, p.thread <= Len(posts), Publish(p)
    PROVE  /\ NetworkType'
           /\ Len(posts') = Len(posts) + 1 /\ posts'[Len(posts) + 1] = p
           /\ \A n \in 1..Len(posts) : n \in 1..Len(posts') /\ posts'[n] = posts[n]
<1>1. /\ posts \in Seq(PostRecord) /\ posts' = Append(posts, p) /\ Len(posts) \in Nat
      /\ \A n \in 1..Len(posts) : posts[n].thread <= Len(posts)
      /\ wire \in [Lids -> SUBSET (1..Len(posts))] /\ unacked \subseteq 1..Len(posts)
      /\ provider' = provider
  BY DEF NetworkType, Publish
<1>2. /\ posts' \in Seq(PostRecord) /\ Len(posts') = Len(posts) + 1
      /\ posts'[Len(posts) + 1] = p
      /\ \A n \in 1..Len(posts) : posts'[n] = posts[n]
  BY <1>1
<1>3. \A n \in 1..Len(posts') : posts'[n].thread <= Len(posts')
  <2>1. \A n \in 1..Len(posts) : posts[n].thread \in Nat
    BY <1>1, PostFields
  <2>2. p.thread \in Nat
    BY PostFields
  <2> QED
    BY <1>1, <1>2, <2>1, <2>2
<1>4. 1..Len(posts) \subseteq 1..Len(posts') /\ Len(posts) + 1 \in 1..Len(posts')
  BY <1>1, <1>2
<1>5. unacked' \subseteq 1..Len(posts')
  BY <1>1, <1>4 DEF Publish
<1>6. wire' \in [Lids -> SUBSET (1..Len(posts'))]
  BY <1>1, <1>4 DEF Publish
<1> QED
  BY <1>1, <1>2, <1>3, <1>4, <1>5, <1>6 DEF NetworkType

(* What a step does to the posts: they stay, and a new one of the bot's is *)
(* of the bot's kind.                                                      *)
Grows ==
    /\ \A n \in 1..Len(posts) : n \in 1..Len(posts') /\ posts'[n] = posts[n]
    /\ \A n \in 1..Len(posts') :
          n \notin 1..Len(posts) => (posts'[n].who = Self => posts'[n].kind = "bot")

(* A post is appended; one of the platform itself is a bot post. *)
LEMMA PublishGrows ==
    ASSUME NetworkType, NEW p \in PostRecord, p.thread <= Len(posts), Publish(p),
           p.who = Self => p.kind = "bot"
    PROVE  NetworkType' /\ Grows
<1>1. /\ NetworkType' /\ Len(posts') = Len(posts) + 1 /\ posts'[Len(posts) + 1] = p
      /\ \A n \in 1..Len(posts) : n \in 1..Len(posts') /\ posts'[n] = posts[n]
  BY PublishType
<1>2. Len(posts) \in Nat
  BY DEF NetworkType
<1>3. \A n \in 1..Len(posts') : n \notin 1..Len(posts) => n = Len(posts) + 1
  BY <1>1, <1>2
<1> QED
  BY <1>1, <1>3 DEF Grows

(* Where nothing is posted, the posts stay. *)
LEMMA SameGrows == ASSUME posts' = posts PROVE Grows
  BY DEF Grows

(* Every step keeps the types of the network, and adds to the posts only. *)
LEMMA NetworkStep ==
    ASSUME IngTypeOK, IngNext
    PROVE  NetworkType' /\ Grows
<1>0. NetworkType /\ ListenerType /\ TaskType /\ DialogType /\ Len(posts) \in Nat
  BY DEF IngTypeOK, NetworkType
<1>1. ASSUME NEW i \in Inputs, PostRoot(i) PROVE NetworkType' /\ Grows
  <2>1. i \in PostRecord /\ i.thread <= Len(posts) /\ i.who # Self
    BY <1>0, InputType
  <2> QED
    BY <1>0, <1>1, <2>1, PublishGrows DEF PostRoot
<1>2. ASSUME NEW i \in Inputs, PostReply(i) PROVE NetworkType' /\ Grows
  <2>1. i \in PostRecord /\ i.who # Self
    BY InputType
  <2>2. 1 \in 1..Len(tasks)
    BY <1>0, <1>2 DEF PostReply, TaskType
  <2>3. tasks[1].thread \in Nat /\ tasks[1].thread <= Len(posts)
    BY <1>0, <2>2 DEF TaskType
  <2> DEFINE q == [i EXCEPT !.thread = tasks[1].thread]
  <2>4. q \in PostRecord
    BY <2>1, <2>3 DEF PostRecord
  <2>5. q.who = i.who /\ q.thread = tasks[1].thread
    BY <2>1 DEF PostRecord
  <2>6. Publish(q)
    BY <1>2 DEF PostReply
  <2> HIDE DEF q
  <2> QED
    BY <1>0, <2>1, <2>3, <2>4, <2>5, <2>6, PublishGrows
<1>3. ASSUME NEW l \in Lids, PostAcknowledgement(l) PROVE NetworkType' /\ Grows
  <2>1. listener[l].post \in 1..Len(posts)
    BY <1>0, <1>3 DEF PostAcknowledgement, ListenerType, Handling
  <2>2. Inbound(listener[l].post).thread \in 1..Len(posts)
    BY <1>0, <2>1, InboundType
  <2> QED
    BY <1>0, <1>3, <2>2, OwnPostType, PublishGrows DEF PostAcknowledgement
<1>4. CASE PostQuestion
  <2>1. CASE UNCHANGED network
    BY <1>0, <2>1, SameGrows DEF network, NetworkType
  <2>2. CASE Publish(OwnPost(tasks[1].thread))
    <3>1. 1 \in 1..Len(tasks)
      BY <1>0, <1>4 DEF PostQuestion, DialogType, TaskType
    <3>2. tasks[1].thread \in 1..Len(posts)
      BY <1>0, <3>1 DEF TaskType
    <3> QED
      BY <1>0, <2>2, <3>2, OwnPostType, PublishGrows
  <2> QED
    BY <1>4, <2>1, <2>2 DEF PostQuestion
<1>5. ASSUME NEW l \in Lids, Disconnect(l) PROVE NetworkType' /\ Grows
  BY <1>0, <1>5, SameGrows DEF Disconnect, NetworkType
<1>6. ASSUME NEW l \in Lids, NEW n \in 1..Len(posts), ReceiveMattermost(l, n) \/ ReceiveSlack(l, n)
      PROVE  NetworkType' /\ Grows
  BY <1>0, <1>6, SameGrows DEF ReceiveMattermost, ReceiveSlack, NetworkType
<1>7. ASSUME NEW r \in Toggles, Pause(r) PROVE NetworkType' /\ Grows
  BY <1>0, <1>7, SameGrows DEF Pause, StopListener, NetworkType
<1>8. CASE GatewayCrash
  BY <1>0, <1>8, SameGrows DEF GatewayCrash, NetworkType
<1>9. CASE UNCHANGED network
  BY <1>0, <1>9, SameGrows DEF network, NetworkType
<1>10. ASSUME NEW l \in Lids, ListenerStep(l) PROVE NetworkType' /\ Grows
  BY <1>3, <1>5, <1>6, <1>9, <1>10
     DEF ListenerStep, Connect, HandleMessage, HydrateFails, CreateTask
<1>11. ASSUME NEW r \in Toggles, RequestStep(r) PROVE NetworkType' /\ Grows
  BY <1>7, <1>9, <1>11
     DEF RequestStep, Begin, PauseDone, Resume, StartDone, StartFails, Persist, PersistFails
<1>12. CASE AskStep
  BY <1>4, <1>9, <1>12
     DEF AskStep, RequestAnswer, Stamp, PollReply, PollTimeout, Resolve
<1>13. CASE Boot
  BY <1>9, <1>13 DEF Boot
<1> QED
  BY <1>1, <1>2, <1>8, <1>10, <1>11, <1>12, <1>13 DEF IngNext, Outside

(* Every step keeps the types of the listeners. *)
LEMMA ListenerTypeStep ==
    ASSUME IngTypeOK, IngNext
    PROVE  ListenerType'
<1>0. /\ ListenerType /\ ControlType /\ Grows /\ MaxStarts \in Nat
      /\ listener \in [Lids -> ListenerRecord]
  BY NetworkStep, IngressAssumptions DEF IngTypeOK, ListenerType
<1>1. ASSUME NEW l \in Lids, NEW where, NEW p, At(l, where, p),
             [at |-> where, post |-> p] \in ListenerRecord,
             where \in Handling => p \in 1..Len(posts)
      PROVE  ListenerType'
  <2>1. listener' \in [Lids -> ListenerRecord]
    BY <1>0, <1>1 DEF At
  <2>2. \A k \in Lids : listener'[k] = IF k = l THEN [at |-> where, post |-> p] ELSE listener[k]
    BY <1>0, <1>1 DEF At
  <2>3. \A k \in Lids : listener'[k].at \in Handling => listener'[k].post \in 1..Len(posts)
    BY <1>0, <1>1, <2>2 DEF ListenerType
  <2> QED
    BY <1>0, <2>1, <2>3 DEF ListenerType, Grows
<1>2. [at |-> "recv", post |-> 0] \in ListenerRecord /\ "recv" \notin Handling
  BY DEF ListenerRecord, Handling
<1>3. [at |-> "connect", post |-> 0] \in ListenerRecord /\ "connect" \notin Handling
  BY DEF ListenerRecord, Handling
<1>4. [at |-> "dead", post |-> 0] \in ListenerRecord /\ "dead" \notin Handling
  BY DEF ListenerRecord, Handling
<1>5. \A n \in 1..Len(posts) : \A w \in Handling : [at |-> w, post |-> n] \in ListenerRecord
  BY DEF ListenerRecord, Handling
<1>6. CASE UNCHANGED listener
  BY <1>0, <1>6 DEF ListenerType, Grows
<1>7. CASE Launch
  BY <1>1, <1>3, <1>7, FreshListener DEF Launch
<1>8. ASSUME NEW l \in Lids, ListenerStep(l) PROVE ListenerType'
  <2>1. CASE At(l, "recv", 0)
    BY <1>1, <1>2, <2>1
  <2>2. CASE At(l, "connect", 0)
    BY <1>1, <1>3, <2>2
  <2>3. ASSUME NEW n \in 1..Len(posts), NEW w \in Handling, At(l, w, n) PROVE ListenerType'
    BY <1>1, <1>5, <2>3
  <2>4. \A n \in 1..Len(posts) : ReceiveMattermost(l, n) \/ ReceiveSlack(l, n) => At(l, "handle", n)
    BY DEF ReceiveMattermost, ReceiveSlack
  <2>5. HandleMessage(l) => At(l, "recv", 0) \/ At(l, "create", listener[l].post)
    BY DEF HandleMessage
  <2>6. CreateTask(l) => At(l, "ack", listener[l].post)
    BY DEF CreateTask
  <2>7. HandleMessage(l) \/ CreateTask(l) => listener[l].post \in 1..Len(posts)
    BY <1>0 DEF HandleMessage, CreateTask, ListenerType, Handling
  <2>8. Connect(l) \/ HydrateFails(l) \/ PostAcknowledgement(l) => At(l, "recv", 0)
    BY DEF Connect, HydrateFails, PostAcknowledgement
  <2>9. Disconnect(l) => At(l, "connect", 0)
    BY DEF Disconnect
  <2>10. {"handle", "create", "ack"} = Handling
    BY DEF Handling
  <2> QED
    BY <1>8, <2>1, <2>2, <2>3, <2>4, <2>5, <2>6, <2>7, <2>8, <2>9, <2>10 DEF ListenerStep
<1>9. ASSUME NEW r \in Toggles, RequestStep(r) PROVE ListenerType'
  <2>1. CASE StartDone(r)
    BY <1>7, <2>1 DEF StartDone
  <2>2. CASE Pause(r)
    <3>1. CASE current = 0
      BY <1>6, <2>2, <3>1 DEF Pause, StopListener
    <3>2. CASE current # 0
      <4>1. current \in Lids /\ At(current, "dead", 0)
        BY <1>0, <2>2, <3>2 DEF Pause, StopListener, At, ControlType, Lids
      <4> QED
        BY <1>1, <1>4, <4>1
    <3> QED
      BY <3>1, <3>2
  <2> QED
    BY <1>6, <1>9, <2>1, <2>2
       DEF RequestStep, Begin, PauseDone, Resume, StartFails, Persist, PersistFails
<1>10. CASE AskStep
  BY <1>6, <1>10 DEF AskStep, RequestAnswer, Stamp, PostQuestion, PollReply, PollTimeout, Resolve, gateway
<1>11. CASE Boot
  BY <1>6, <1>7, <1>11 DEF Boot
<1>12. CASE Outside
  BY <1>6, <1>12 DEF Outside, PostRoot, PostReply, gateway
<1>13. CASE GatewayCrash
  <2>1. listener' \in [Lids -> ListenerRecord]
    BY <1>0, <1>4, <1>13 DEF GatewayCrash
  <2>2. \A l \in Lids : listener'[l].at \in Handling => listener'[l] = listener[l]
    BY <1>13 DEF GatewayCrash, Handling
  <2> QED
    BY <1>0, <2>1, <2>2 DEF ListenerType, Grows
<1> QED
  BY <1>8, <1>9, <1>10, <1>11, <1>12, <1>13 DEF IngNext

(* A request moves to one of its stages. *)
LEMMA GotoType ==
    ASSUME ControlType, NEW r \in Toggles, NEW where, Goto(r, where),
           where \in {"idle", "stopping", "starting", "persist", "undo_pause",
                     "undo_stopping", "undo_resume", "undo_starting"}
    PROVE  request' \in [Toggles -> RequestRecord]
<1>1. request[r] \in RequestRecord /\ request \in [Toggles -> RequestRecord]
  BY DEF ControlType
<1> DEFINE y == IF where = "idle" THEN NoRequest ELSE [request[r] EXCEPT !.at = where]
<1>2. NoRequest \in RequestRecord
  BY DEF NoRequest, RequestRecord
<1>3. [request[r] EXCEPT !.at = where] \in RequestRecord
  BY <1>1 DEF RequestRecord
<1>4. y \in RequestRecord
  BY <1>2, <1>3
<1>5. request' = [request EXCEPT ![r] = y]
  BY DEF Goto
<1> HIDE DEF y
<1> QED
  BY <1>1, <1>4, <1>5

(* Every step keeps the types of what start, pause and resume work on. *)
LEMMA ControlTypeStep ==
    ASSUME IngTypeOK, IngNext
    PROVE  ControlType'
<1>0. ControlType /\ MaxStarts \in Nat
  BY IngressAssumptions DEF IngTypeOK
<1>1. CASE UNCHANGED <<current, botKnown, aliased, paused, request, up>>
  BY <1>0, <1>1 DEF ControlType
<1>2. ASSUME Launch
      PROVE  current' \in 0..MaxStarts /\ aliased' \subseteq Routes /\ botKnown' \in BOOLEAN
  <2>1. current' \in 0..MaxStarts
    BY <1>0, <1>2, FreshListener DEF Launch, Lids
  <2>2. aliased' \subseteq Routes
    BY <1>2 DEF Launch
  <2>3. botKnown' \in BOOLEAN
    BY <1>0, <1>2, Zenon DEF Launch, ControlType
  <2> QED
    BY <2>1, <2>2, <2>3
<1>3. ASSUME NEW l \in Lids, ListenerStep(l) PROVE ControlType'
  BY <1>1, <1>3 DEF ListenerStep, Connect, Disconnect, ReceiveMattermost, ReceiveSlack,
     HandleMessage, HydrateFails, CreateTask, PostAcknowledgement
<1>4. CASE AskStep
  BY <1>1, <1>4 DEF AskStep, RequestAnswer, Stamp, PostQuestion, PollReply, PollTimeout, Resolve, gateway
<1>5. CASE Outside
  BY <1>1, <1>5 DEF Outside, PostRoot, PostReply, gateway
<1>6. CASE Boot
  <2>1. up' \in BOOLEAN
    BY <1>6, Zenon DEF Boot
  <2>2. paused' = paused /\ request' = request
    BY <1>6 DEF Boot
  <2>3. CASE paused
    BY <1>0, <1>6, <2>1, <2>2, <2>3, Zenon DEF Boot, ControlType
  <2>4. CASE ~paused
    <3>1. Launch
      BY <1>6, <2>4 DEF Boot
    <3> QED
      BY <1>0, <1>2, <2>1, <2>2, <3>1, Zenon DEF ControlType
  <2> QED
    BY <2>3, <2>4
<1>7. CASE GatewayCrash
  <2>1. up' \in BOOLEAN /\ botKnown' \in BOOLEAN /\ paused' = paused /\ aliased' = {}
    BY <1>7, Zenon DEF GatewayCrash
  <2>2. request' \in [Toggles -> RequestRecord]
    BY <1>7 DEF GatewayCrash, NoRequest, RequestRecord
  <2>3. current' \in 0..MaxStarts
    BY <1>0, <1>7 DEF GatewayCrash
  <2> QED
    BY <1>0, <2>1, <2>2, <2>3, Zenon DEF ControlType
<1>8. ASSUME NEW r \in Toggles, RequestStep(r) PROVE ControlType'
  <2>1. ASSUME NEW op \in {"pause", "resume"}, Begin(r, op) PROVE ControlType'
    <3>1. [op |-> op, at |-> op, prev |-> paused] \in RequestRecord
      <4>1. paused \in BOOLEAN
        BY <1>0 DEF ControlType
      <4> QED
        BY <4>1 DEF RequestRecord
    <3>2. request' \in [Toggles -> RequestRecord]
      BY <1>0, <2>1, <3>1 DEF Begin, ControlType
    <3> QED
      BY <1>0, <2>1, <3>2 DEF Begin, ControlType
  <2>2. CASE Pause(r)
    <3>1. request' \in [Toggles -> RequestRecord]
      BY <1>0, <2>2, GotoType DEF Pause
    <3> QED
      BY <1>0, <2>2, <3>1 DEF Pause, ControlType
  <2>3. CASE PauseDone(r)
    <3>1. request' \in [Toggles -> RequestRecord]
      BY <1>0, <2>3, GotoType DEF PauseDone, AfterIngress
    <3> QED
      BY <1>0, <2>3, <3>1 DEF PauseDone, ControlType
  <2>4. CASE Resume(r)
    <3>1. request' \in [Toggles -> RequestRecord]
      BY <1>0, <2>4, GotoType DEF Resume, AfterIngress
    <3> QED
      BY <1>0, <2>4, <3>1 DEF Resume, ControlType
  <2>5. CASE StartDone(r)
    <3>1. request' \in [Toggles -> RequestRecord]
      BY <1>0, <2>5, GotoType DEF StartDone, AfterIngress
    <3>2. Launch /\ paused' = paused /\ up' = up
      BY <2>5 DEF StartDone
    <3> QED
      BY <1>0, <1>2, <3>1, <3>2, Zenon DEF ControlType
  <2>6. CASE StartFails(r)
    <3>1. request' \in [Toggles -> RequestRecord]
      BY <1>0, <2>6, GotoType DEF StartFails
    <3> QED
      BY <1>0, <2>6, <3>1 DEF StartFails, ControlType
  <2>7. CASE Persist(r)
    <3>1. request' \in [Toggles -> RequestRecord]
      BY <1>0, <2>7, GotoType DEF Persist
    <3>2. paused' \in BOOLEAN
      BY <2>7, Zenon DEF Persist
    <3> QED
      BY <1>0, <2>7, <3>1, <3>2 DEF Persist, ControlType
  <2>8. CASE PersistFails(r)
    <3>1. request' \in [Toggles -> RequestRecord]
      BY <1>0, <2>8, GotoType DEF PersistFails, Undo
    <3> QED
      BY <1>0, <2>8, <3>1 DEF PersistFails, ControlType
  <2> QED
    BY <1>8, <2>1, <2>2, <2>3, <2>4, <2>5, <2>6, <2>7, <2>8 DEF RequestStep
<1> QED
  BY <1>3, <1>4, <1>5, <1>6, <1>7, <1>8 DEF IngNext

(* Every step keeps the types of the tasks. *)
LEMMA TaskTypeStep ==
    ASSUME IngTypeOK, IngNext
    PROVE  TaskType'
<1>0. NetworkType /\ ListenerType /\ ControlType /\ TaskType /\ Grows
  BY NetworkStep DEF IngTypeOK
<1>1. CASE UNCHANGED tasks
  BY <1>0, <1>1 DEF TaskType, Grows
<1>2. ASSUME NEW l \in Lids, CreateTask(l) PROVE TaskType'
  <2> DEFINE n == listener[l].post
  <2>1. n \in 1..Len(posts)
    BY <1>0, <1>2 DEF CreateTask, ListenerType, Handling
  <2>2. Inbound(n).thread \in 1..Len(posts) /\ Len(posts) \in Nat
    BY <1>0, <2>1, InboundType DEF NetworkType
  <2>3. PICK w \in match_message_route(Inbound(n), aliased) :
           tasks' = Append(tasks, [post |-> n, workflow |-> w, thread |-> Inbound(n).thread])
    BY <1>2 DEF CreateTask
  <2>4. w \in {r.workflow : r \in Routes}
    BY <1>0, RouteWorkflow DEF ControlType
  <2> DEFINE t == [post |-> n, workflow |-> w, thread |-> Inbound(n).thread]
             th == Inbound(n).thread
  <2>5. t.post = n /\ t.thread = th /\ th \in 1..Len(posts)
    BY <2>2
  <2>6. t \in TaskRecord
    <3>1. n \in Nat /\ th \in Nat
      BY <2>1, <2>2
    <3> HIDE DEF n, th
    <3> QED
      BY <3>1, <2>4, Zenon DEF TaskRecord, th
  <2>7. tasks \in Seq(TaskRecord) /\ tasks' = Append(tasks, t)
    BY <1>0, <2>3 DEF TaskType
  <2>8. /\ \A i \in 1..Len(tasks) : tasks[i].post \in 1..Len(posts) /\ tasks[i].thread \in 1..Len(posts)
        /\ \A i \in 1..Len(posts) : i \in 1..Len(posts')
    BY <1>0 DEF TaskType, Grows
  <2> HIDE DEF t, n, th
  <2>9. tasks' \in Seq(TaskRecord)
    BY <2>6, <2>7
  <2>10. \A i \in 1..Len(tasks') : (i \in 1..Len(tasks) /\ tasks'[i] = tasks[i]) \/ tasks'[i] = t
    BY <2>6, <2>7
  <2>11. ASSUME NEW i \in 1..Len(tasks')
         PROVE  tasks'[i].post \in 1..Len(posts') /\ tasks'[i].thread \in 1..Len(posts')
    BY <2>1, <2>5, <2>8, <2>10
  <2> QED
    BY <2>9, <2>11 DEF TaskType
<1>3. ASSUME NEW l \in Lids, ListenerStep(l) PROVE TaskType'
  BY <1>1, <1>2, <1>3 DEF ListenerStep, Connect, Disconnect, ReceiveMattermost, ReceiveSlack,
     HandleMessage, HydrateFails, PostAcknowledgement
<1>4. ASSUME NEW r \in Toggles, RequestStep(r) PROVE TaskType'
  BY <1>1, <1>4 DEF RequestStep, Begin, Pause, PauseDone, Resume, StartDone, StartFails,
     Persist, PersistFails
<1>5. CASE AskStep
  BY <1>1, <1>5 DEF AskStep, RequestAnswer, Stamp, PostQuestion, PollReply, PollTimeout, Resolve
<1>6. CASE Outside \/ Boot \/ GatewayCrash
  BY <1>1, <1>6 DEF Outside, PostRoot, PostReply, Boot, GatewayCrash
<1> QED
  BY <1>3, <1>4, <1>5, <1>6 DEF IngNext

(* Replies are only added, and a task stays. *)
LEMMA RepliesGrow ==
    ASSUME IngTypeOK, IngNext
    PROVE  /\ replies' \in Seq(Nat) /\ Len(replies') \in Nat /\ Len(replies) \in Nat
           /\ Len(replies) <= Len(replies')
           /\ tasks # <<>> => tasks' # <<>>
<1>0. replies \in Seq(Nat) /\ Len(replies) \in Nat /\ ListenerType /\ tasks \in Seq(TaskRecord)
  BY DEF IngTypeOK, DialogType, TaskType
<1>1. CASE UNCHANGED replies /\ UNCHANGED tasks
  BY <1>0, <1>1
<1>2. ASSUME NEW l \in Lids, HandleMessage(l), ~UNCHANGED replies
      PROVE  replies' \in Seq(Nat) /\ Len(replies') = Len(replies) + 1 /\ tasks' = tasks
  <2>1. listener[l].post \in Nat
    BY <1>0 DEF ListenerType, ListenerRecord
  <2>2. replies' = Append(replies, listener[l].post)
    BY <1>2 DEF HandleMessage
  <2>3. tasks' = tasks
    BY <1>2 DEF HandleMessage
  <2> QED
    BY <1>0, <2>1, <2>2, <2>3
<1>3. ASSUME NEW l \in Lids, CreateTask(l) PROVE UNCHANGED replies /\ tasks' # <<>>
  <2>1. UNCHANGED replies
    BY <1>3 DEF CreateTask, asking
  <2>2. PICK t : tasks' = Append(tasks, t)
    BY <1>3 DEF CreateTask
  <2> QED
    BY <1>0, <2>1, <2>2
<1>4. ASSUME NEW l \in Lids, ListenerStep(l), ~HandleMessage(l), ~CreateTask(l)
      PROVE  UNCHANGED replies /\ UNCHANGED tasks
  BY <1>4 DEF ListenerStep, Connect, Disconnect, ReceiveMattermost, ReceiveSlack,
     HydrateFails, PostAcknowledgement, asking
<1>5. ASSUME NEW l \in Lids, HandleMessage(l) PROVE UNCHANGED tasks
  BY <1>5 DEF HandleMessage
<1>6. ASSUME NEW r \in Toggles, RequestStep(r) PROVE UNCHANGED replies /\ UNCHANGED tasks
  BY <1>6 DEF RequestStep, Begin, Pause, PauseDone, Resume, StartDone, StartFails,
     Persist, PersistFails, asking
<1>7. ASSUME AskStep PROVE UNCHANGED replies /\ UNCHANGED tasks
  BY <1>7 DEF AskStep, RequestAnswer, Stamp, PostQuestion, PollReply, PollTimeout, Resolve
<1>8. ASSUME Outside \/ Boot \/ GatewayCrash PROVE UNCHANGED replies /\ UNCHANGED tasks
  BY <1>8 DEF Outside, PostRoot, PostReply, Boot, GatewayCrash, asking
<1>9. ASSUME NEW l \in Lids, HandleMessage(l)
      PROVE  (UNCHANGED replies /\ UNCHANGED tasks) \/ Len(replies') = Len(replies) + 1
  BY <1>2, <1>5, <1>9
<1>10. ASSUME NEW l \in Lids, ListenerStep(l)
       PROVE  /\ replies' \in Seq(Nat) /\ Len(replies') \in Nat
              /\ Len(replies) <= Len(replies')
              /\ tasks # <<>> => tasks' # <<>>
  <2>1. CASE CreateTask(l)
    BY <1>0, <1>3, <2>1
  <2>2. CASE HandleMessage(l)
    <3>1. CASE UNCHANGED replies
      BY <1>0, <1>5, <2>2, <3>1
    <3>2. CASE ~UNCHANGED replies
      BY <1>0, <1>2, <2>2, <3>2
    <3> QED
      BY <3>1, <3>2
  <2> QED
    BY <1>0, <1>4, <1>10, <2>1, <2>2
<1> QED
  BY <1>0, <1>1, <1>6, <1>7, <1>8, <1>10 DEF IngNext

(* What a step other than one of the dialog leaves of it. *)
LEMMA DialogStays ==
    ASSUME IngNext, ~AskStep
    PROVE  dialog' = dialog
<1>1. ASSUME NEW l \in Lids, ListenerStep(l) PROVE dialog' = dialog
  BY <1>1 DEF ListenerStep, Connect, Disconnect, ReceiveMattermost, ReceiveSlack,
     HandleMessage, HydrateFails, CreateTask, PostAcknowledgement, asking
<1>2. ASSUME NEW r \in Toggles, RequestStep(r) PROVE dialog' = dialog
  BY <1>2 DEF RequestStep, Begin, Pause, PauseDone, Resume, StartDone, StartFails,
     Persist, PersistFails, asking
<1>3. CASE Outside \/ Boot \/ GatewayCrash
  BY <1>3 DEF Outside, PostRoot, PostReply, Boot, GatewayCrash, asking
<1> QED
  BY <1>1, <1>2, <1>3 DEF IngNext

(* Every step keeps the types of the dialog, and no reply answers twice. *)
LEMMA DialogStep ==
    ASSUME IngTypeOK, AnswersInv, IngNext
    PROVE  DialogType' /\ AnswersInv'
<1>0. /\ dialog \in DialogRecord /\ dialog.answers \in Seq(Nat) /\ dialog.after \in Nat
      /\ dialog.question \in Nat /\ Len(dialog.answers) \in Nat
      /\ dialog.at = "none" \/ tasks # <<>>
  BY DEF IngTypeOK, DialogType, DialogRecord
<1>1. /\ replies' \in Seq(Nat) /\ Len(replies') \in Nat /\ Len(replies) \in Nat
      /\ Len(replies) <= Len(replies') /\ (tasks # <<>> => tasks' # <<>>)
  BY RepliesGrow
<1>2. /\ \A i \in 1..Len(dialog.answers) : dialog.answers[i] \in Nat /\ dialog.answers[i] <= Len(replies)
      /\ dialog.at \in {"post", "poll"} =>
           \A i \in 1..Len(dialog.answers) : dialog.answers[i] <= dialog.after
      /\ \A i, j \in 1..Len(dialog.answers) : i < j => dialog.answers[i] < dialog.answers[j]
  BY <1>0 DEF AnswersInv, AnswersAdvance
<1>3. ASSUME dialog' \in DialogRecord, dialog'.answers = dialog.answers, tasks' # <<>>,
             dialog'.at \in {"post", "poll"} =>
               \A i \in 1..Len(dialog.answers) : dialog.answers[i] <= dialog'.after
      PROVE  DialogType' /\ AnswersInv'
  <2>1. DialogType'
    BY <1>1, <1>3 DEF DialogType
  <2>2. \A i \in 1..Len(dialog.answers) : dialog.answers[i] <= Len(replies')
    BY <1>1, <1>2
  <2> QED
    BY <1>2, <1>3, <2>1, <2>2 DEF AnswersInv, AnswersAdvance
<1>4. CASE dialog' = dialog
  <2>1. \A i \in 1..Len(dialog.answers) : dialog.answers[i] <= Len(replies')
    BY <1>1, <1>2
  <2>2. DialogType'
    BY <1>0, <1>1, <1>4 DEF DialogType
  <2> QED
    BY <1>2, <1>4, <2>1, <2>2 DEF AnswersInv, AnswersAdvance
<1>5. CASE RequestAnswer
  <2>1. dialog' = [dialog EXCEPT !.at = "requested", !.question = @ + 1] /\ tasks # <<>>
    BY <1>0, <1>5 DEF RequestAnswer
  <2>2. dialog' \in DialogRecord /\ dialog'.answers = dialog.answers /\ dialog'.at = "requested"
    <3> DEFINE q == dialog.question + 1
    <3>1. q \in Nat /\ dialog \in DialogRecord
      BY <1>0
    <3>2. dialog' = [dialog EXCEPT !.at = "requested", !.question = q]
      BY <2>1
    <3> HIDE DEF q
    <3> QED
      BY <3>1, <3>2 DEF DialogRecord
  <2> QED
    BY <1>1, <1>3, <2>1, <2>2
<1>6. CASE Stamp
  <2>1. /\ dialog' = [dialog EXCEPT !.at = "post", !.after = Len(replies)] /\ tasks # <<>>
    BY <1>0, <1>6 DEF Stamp
  <2>2. dialog' \in DialogRecord /\ dialog'.answers = dialog.answers /\ dialog'.after = Len(replies)
    BY <1>0, <1>1, <2>1 DEF DialogRecord
  <2> QED
    BY <1>1, <1>2, <1>3, <2>1, <2>2
<1>7. CASE PollReply
  <2> DEFINE a == Append(dialog.answers, dialog.after + 1)
  <2>1. /\ dialog' = [dialog EXCEPT !.at = "next", !.answers = a] /\ tasks # <<>>
        /\ Len(replies) > dialog.after /\ dialog.at = "poll" /\ replies' = replies
    BY <1>0, <1>7 DEF PollReply
  <2>2. a \in Seq(Nat) /\ Len(a) = Len(dialog.answers) + 1
    BY <1>0
  <2>3. /\ \A i \in 1..Len(dialog.answers) : a[i] = dialog.answers[i]
        /\ a[Len(a)] = dialog.after + 1
    BY <1>0
  <2>4. \A i \in 1..Len(a) : i \in 1..Len(dialog.answers) \/ i = Len(a)
    BY <1>0, <2>2
  <2> HIDE DEF a
  <2>5. dialog' \in DialogRecord /\ dialog'.answers = a /\ dialog'.at = "next"
    <3> DEFINE y == [dialog EXCEPT !.answers = a]
    <3>1. dialog \in DialogRecord /\ a \in Seq(Nat)
      BY <1>0, <2>2
    <3>2. y \in DialogRecord /\ y.answers = a
      BY <3>1 DEF DialogRecord
    <3>3. dialog' = [y EXCEPT !.at = "next"]
      BY <2>1, <3>1 DEF DialogRecord
    <3> HIDE DEF y
    <3> QED
      BY <3>2, <3>3 DEF DialogRecord
  <2>6. \A i \in 1..Len(a) : a[i] <= Len(replies)
    <3> SUFFICES ASSUME NEW i \in 1..Len(a) PROVE a[i] <= Len(replies)
      OBVIOUS
    <3>1. CASE i \in 1..Len(dialog.answers)
      BY <1>2, <2>3, <3>1
    <3>2. CASE i = Len(a)
      <4>1. a[i] = dialog.after + 1 /\ dialog.after \in Nat /\ Len(replies) \in Nat /\ Len(replies) > dialog.after
        BY <1>0, <1>1, <2>1, <2>3, <3>2
      <4> QED
        BY <4>1
    <3> QED
      BY <2>4, <3>1, <3>2
  <2>7. ASSUME NEW i \in 1..Len(a), NEW j \in 1..Len(a), i < j PROVE a[i] < a[j]
    <3>1. i \in 1..Len(dialog.answers)
      BY <1>0, <2>2, <2>7
    <3>2. CASE j \in 1..Len(dialog.answers)
      BY <1>2, <2>3, <2>7, <3>1, <3>2
    <3>3. CASE j = Len(a)
      <4>1. dialog.answers[i] <= dialog.after /\ dialog.answers[i] \in Nat
        BY <1>2, <2>1, <3>1
      <4>2. a[j] = dialog.after + 1 /\ a[i] = dialog.answers[i] /\ dialog.after \in Nat
        BY <1>0, <2>3, <3>1, <3>3
      <4> QED
        BY <4>1, <4>2
    <3> QED
      BY <2>4, <3>2, <3>3
  <2>8. DialogType'
    BY <1>1, <2>1, <2>5 DEF DialogType
  <2> QED
    BY <2>1, <2>5, <2>6, <2>7, <2>8 DEF AnswersInv, AnswersAdvance
<1>8. CASE PostQuestion \/ PollTimeout \/ Resolve
  <2>1. PICK w \in {"poll", "denied", "allowed"} :
          dialog' = [dialog EXCEPT !.at = w] /\ (w = "poll" => dialog.at = "post")
    BY <1>8 DEF PostQuestion, PollTimeout, Resolve, AskAt
  <2>2. tasks # <<>>
    BY <1>0, <1>8 DEF PostQuestion, PollTimeout, Resolve
  <2>3. dialog' \in DialogRecord /\ dialog'.answers = dialog.answers
        /\ dialog'.at = w /\ dialog'.after = dialog.after
    BY <1>0, <2>1 DEF DialogRecord
  <2> QED
    BY <1>1, <1>2, <1>3, <2>1, <2>2, <2>3
<1> QED
  BY <1>4, <1>5, <1>6, <1>7, <1>8, DialogStays DEF AskStep

(* Every step keeps the invariant: no task comes from a post of the bot's. *)
LEMMA IngressStep == IngressInv /\ [IngNext]_ingVars => IngressInv'
<1> SUFFICES ASSUME IngressInv, [IngNext]_ingVars PROVE IngressInv'
  OBVIOUS
<1>1. CASE UNCHANGED ingVars
  BY <1>1 DEF ingVars, network, gateway, asking, IngressInv, IngTypeOK, NetworkType,
     ListenerType, ControlType, TaskType, DialogType, AnswersInv, AnswersAdvance, OwnInv
<1>2. CASE IngNext
  <2>0. IngTypeOK /\ AnswersInv /\ OwnInv /\ NetworkType /\ ListenerType /\ ControlType /\ TaskType
    BY DEF IngressInv, IngTypeOK
  <2>1. IngTypeOK' /\ AnswersInv'
    BY <1>2, <2>0, NetworkStep, ListenerTypeStep, ControlTypeStep, TaskTypeStep, DialogStep
       DEF IngTypeOK
  <2>2. Grows
    BY <1>2, <2>0, NetworkStep
  <2>3. \A n \in 1..Len(posts') : posts'[n].who = Self => posts'[n].kind = "bot"
    BY <2>0, <2>2 DEF OwnInv, Grows
  <2>4. \A i \in 1..Len(tasks) : posts'[tasks[i].post].who # Self
    BY <2>0, <2>2 DEF OwnInv, Grows, TaskType
  <2>5. ASSUME NEW l \in Lids, CreateTask(l)
        PROVE  \A i \in 1..Len(tasks') : posts'[tasks'[i].post].who # Self
    <3> DEFINE n == listener[l].post
    <3>1. n \in 1..Len(posts)
      BY <2>0, <2>5 DEF CreateTask, ListenerType, Handling
    <3>2. PICK w \in match_message_route(Inbound(n), aliased) :
             tasks' = Append(tasks, [post |-> n, workflow |-> w, thread |-> Inbound(n).thread])
      BY <2>5 DEF CreateTask
    <3>3. posts[n].who # Self
      <4>1. SUFFICES ASSUME posts[n].who = Self PROVE FALSE
        OBVIOUS
      <4>2. Inbound(n).who = Self /\ Inbound(n).kind = "bot"
        BY <2>0, <3>1, <4>1, InboundType DEF OwnInv
      <4>3. match_message_route(Inbound(n), aliased) = {}
        BY <2>0, <4>2, OwnPostsUnrouted DEF ControlType
      <4> QED
        BY <3>2, <4>3
    <3> DEFINE t == [post |-> n, workflow |-> w, thread |-> Inbound(n).thread]
    <3>4. posts'[n].who # Self /\ t.post = n
      BY <2>2, <3>1, <3>3 DEF Grows
    <3>5. tasks \in Seq(TaskRecord) /\ tasks' = Append(tasks, t)
      BY <2>0, <3>2 DEF TaskType
    <3> HIDE DEF t, n
    <3>6. \A i \in 1..Len(tasks') : (i \in 1..Len(tasks) /\ tasks'[i] = tasks[i]) \/ tasks'[i] = t
      BY <3>5
    <3> QED
      BY <2>4, <3>4, <3>6
  <2>6. ASSUME \A l \in Lids : ~CreateTask(l) PROVE tasks' = tasks
    <3>1. ASSUME NEW l \in Lids, ListenerStep(l) PROVE tasks' = tasks
      BY <2>6, <3>1 DEF ListenerStep, Connect, Disconnect, ReceiveMattermost, ReceiveSlack,
         HandleMessage, HydrateFails, PostAcknowledgement
    <3>2. ASSUME NEW r \in Toggles, RequestStep(r) PROVE tasks' = tasks
      BY <3>2 DEF RequestStep, Begin, Pause, PauseDone, Resume, StartDone, StartFails,
         Persist, PersistFails
    <3>3. ASSUME AskStep PROVE tasks' = tasks
      BY <3>3 DEF AskStep, RequestAnswer, Stamp, PostQuestion, PollReply, PollTimeout, Resolve
    <3>4. ASSUME Outside \/ Boot \/ GatewayCrash PROVE tasks' = tasks
      BY <3>4 DEF Outside, PostRoot, PostReply, Boot, GatewayCrash
    <3> QED
      BY <1>2, <3>1, <3>2, <3>3, <3>4 DEF IngNext
  <2>7. OwnInv'
    BY <2>3, <2>4, <2>5, <2>6 DEF OwnInv
  <2> QED
    BY <2>1, <2>7 DEF IngressInv
<1> QED
  BY <1>1, <1>2

(* No recorded reply answers two questions.                                *)
THEOREM NoReplyTwice == IngSpec => []AnswersAdvance
<1>1. IngressInv => AnswersAdvance
  BY DEF IngressInv, AnswersInv
<1> QED
  BY <1>1, InitIngress, IngressStep, PTL DEF IngSpec

(* On Mattermost the route of a post does not depend on the channel ids    *)
(* that could be resolved.                                                 *)
THEOREM RoutingIgnoresAliases == IngSpec => []AliasNeutral
<1>1. IngressInv => AliasNeutral
  BY SameRoutes DEF IngressInv, IngTypeOK, ControlType, AliasNeutral
<1> QED
  BY <1>1, InitIngress, IngressStep, PTL DEF IngSpec

-----------------------------------------------------------------------------
(* One request at a time. *)

(* Initially there is no listener and nothing is under way. *)
LEMMA InitListener == IngInit => ListenerInv /\ DeliveryInv
<1> SUFFICES ASSUME IngInit PROVE ListenerInv /\ DeliveryInv
  OBVIOUS
<1>1. Silent /\ (\A l \in Lids : ~Alive(l)) /\ \A l \in Lids : wire[l] = {}
  BY DEF IngInit, Silent, Alive, Off
<1>2. \A r \in Toggles : request[r].at = "idle"
  BY DEF IngInit, NoRequest
<1>3. Toggling = {}
  BY <1>2 DEF Toggling
<1>4. ListenerInv
  BY <1>1, <1>2, <1>3 DEF ListenerInv, ToggleStage, PausedIsSilent
<1>5. posts = <<>> /\ tasks = <<>> /\ unacked = {}
  BY DEF IngInit
<1>6. DeliveryInv
  BY <1>1, <1>5 DEF DeliveryInv
<1> QED
  BY <1>4, <1>6

(* A step that stops and starts no listener and is none of a request. *)
LEMMA CalmStep ==
    ASSUME ListenerInv, \A l \in Lids : Alive(l)' <=> Alive(l),
           UNCHANGED <<current, request, paused, up>>
    PROVE  ListenerInv'
<1>1. Silent' <=> Silent
  BY DEF Silent
<1>2. Toggling' = Toggling
  BY DEF Toggling
<1>3. \A r \in Toggles : ToggleStage(r)'
  BY <1>1 DEF ListenerInv, ToggleStage
<1> QED
  BY <1>1, <1>2, <1>3 DEF ListenerInv, PausedIsSilent

(* A listener's own step leaves it alive. *)
LEMMA ListenerCalm ==
    ASSUME ListenerType, NEW l \in Lids, ListenerStep(l)
    PROVE  /\ \A k \in Lids : Alive(k)' <=> Alive(k)
           /\ Alive(l)
           /\ UNCHANGED <<current, request, paused, up>>
<1>1. UNCHANGED <<current, request, paused, up>>
  BY DEF ListenerStep, Connect, Disconnect, ReceiveMattermost, ReceiveSlack, HandleMessage,
     HydrateFails, CreateTask, PostAcknowledgement
<1>2. /\ listener[l].at \in {"connect", "recv", "handle", "create", "ack"}
      /\ \E w \in {"connect", "recv", "handle", "create", "ack"} : \E n : At(l, w, n)
  BY DEF ListenerStep, Connect, Disconnect, ReceiveMattermost, ReceiveSlack, HandleMessage,
     HydrateFails, CreateTask, PostAcknowledgement, Connected
<1>3. listener \in [Lids -> ListenerRecord]
  BY DEF ListenerType
<1>4. \A k \in Lids : k # l => listener'[k] = listener[k]
  BY <1>2, <1>3 DEF At
<1>5. listener'[l].at \in {"connect", "recv", "handle", "create", "ack"}
  BY <1>2, <1>3 DEF At
<1> QED
  BY <1>1, <1>2, <1>4, <1>5 DEF Alive

(* A request that starts is alone, and so is one that moves on. *)
LEMMA RequestAlone ==
    ASSUME MaxToggling = 1, ControlType, ListenerInv, NEW r \in Toggles, RequestStep(r)
    PROVE  /\ up /\ up' = up
           /\ \A z \in Toggles : z # r => request[z].at = "idle" /\ request'[z] = request[z]
<1>1. up' = up
  BY DEF RequestStep, Begin, Pause, PauseDone, Resume, StartDone, StartFails, Persist, PersistFails
<1>2. \A z \in Toggles : z # r => request'[z] = request[z]
  BY DEF RequestStep, Begin, Pause, PauseDone, Resume, StartDone, StartFails, Persist,
     PersistFails, Goto, ControlType
<1>3. CASE r \in Toggling
  BY <1>1, <1>2, <1>3 DEF ListenerInv, Toggling
<1>4. CASE r \notin Toggling
  <2>1. \E op \in {"pause", "resume"} : Begin(r, op)
    BY <1>4 DEF RequestStep, Toggling, Pause, PauseDone, Resume, StartDone, StartFails, Persist, PersistFails
  <2>2. up /\ Cardinality(Toggling) < 1
    BY <2>1 DEF Begin
  <2>3. IsFiniteSet(Toggling)
    BY FS_Subset, IngressAssumptions DEF Toggling
  <2>4. Toggling = {}
    BY <2>2, <2>3, FS_CardinalityType, FS_EmptySet
  <2> QED
    BY <1>1, <1>2, <2>2, <2>4 DEF Toggling
<1> QED
  BY <1>3, <1>4

(* What a request's step has to establish. *)
LEMMA RequestKeeps ==
    ASSUME MaxToggling = 1, ControlType, ListenerInv, NEW r \in Toggles, RequestStep(r),
           \A l \in Lids : Alive(l)' => l = current',
           ToggleStage(r)',
           request'[r].at = "idle" /\ paused' => Silent'
    PROVE  ListenerInv'
<1>1. /\ up /\ up' = up
      /\ \A z \in Toggles : z # r => request'[z].at = "idle"
  BY RequestAlone
<1>2. \A y, z \in Toggling' : y = z
  BY <1>1 DEF Toggling
<1>3. \A z \in Toggles : z # r => ToggleStage(z)'
  BY <1>1 DEF ToggleStage
<1>4. PausedIsSilent'
  <2>1. Toggling' = {} => request'[r].at = "idle"
    BY DEF Toggling
  <2> QED
    BY <2>1 DEF PausedIsSilent, Silent
<1> QED
  BY <1>1, <1>2, <1>3, <1>4 DEF ListenerInv

(* What moving a request on leaves of it. *)
LEMMA GotoEffect ==
    ASSUME ControlType, NEW r \in Toggles, NEW where, Goto(r, where)
    PROVE  /\ request'[r].at = where
           /\ where # "idle" => request'[r].op = request[r].op /\ request'[r].prev = request[r].prev
<1>1. request \in [Toggles -> RequestRecord] /\ request[r] \in RequestRecord
  BY DEF ControlType
<1>2. request'[r] = IF where = "idle" THEN NoRequest ELSE [request[r] EXCEPT !.at = where]
  BY <1>1 DEF Goto
<1> DEFINE y == [request[r] EXCEPT !.at = where]
<1>3. y.at = where /\ y.op = request[r].op /\ y.prev = request[r].prev
  BY <1>1 DEF RequestRecord
<1>4. CASE where = "idle"
  BY <1>2, <1>4 DEF NoRequest
<1>5. CASE where # "idle"
  <2>1. request'[r] = y
    BY <1>2, <1>5
  <2> HIDE DEF y
  <2> QED
    BY <1>3, <1>5, <2>1
<1> QED
  BY <1>4, <1>5

(* Stopping the current listener leaves none at work. *)
LEMMA StopSilences ==
    ASSUME ListenerType, ListenerInv, StopListener
    PROVE  \A l \in Lids : ~Alive(l)'
<1>0. listener \in [Lids -> ListenerRecord]
  BY DEF ListenerType
<1>1. \A l \in Lids : l # current => ~Alive(l)
  BY DEF ListenerInv
<1>2. CASE current = 0
  <2>1. \A l \in Lids : l # 0
    BY IngressAssumptions DEF Lids
  <2> QED
    BY <1>1, <1>2, <2>1 DEF StopListener, Alive
<1>3. CASE current # 0
  BY <1>0, <1>1, <1>3 DEF StopListener, Alive
<1> QED
  BY <1>2, <1>3

(* A new listener beside none is the current one. *)
LEMMA LaunchIsCurrent ==
    ASSUME ListenerType, Silent, Launch
    PROVE  \A l \in Lids : Alive(l)' => l = current'
<1>0. listener \in [Lids -> ListenerRecord]
  BY DEF ListenerType
<1>1. \A l \in Lids : l # NextFresh => listener'[l] = listener[l]
  BY <1>0 DEF Launch, At
<1> QED
  BY <1>1 DEF Launch, Silent, Alive

(* Each step of a request keeps the listeners in order. *)
LEMMA ListenerRequest ==
    ASSUME MaxToggling = 1, IngTypeOK, ListenerInv, NEW r \in Toggles, RequestStep(r)
    PROVE  ListenerInv'
<1>0. /\ ListenerType /\ ControlType /\ request[r] \in RequestRecord
      /\ \A l \in Lids : Alive(l) => l = current
      /\ ToggleStage(r) /\ PausedIsSilent
  BY DEF IngTypeOK, ControlType, ListenerInv
<1>a. request[r].prev \in BOOLEAN /\ paused \in BOOLEAN
  BY <1>0 DEF RequestRecord, ControlType
<1>b. ASSUME listener' = listener PROVE (Silent' <=> Silent) /\ \A l \in Lids : Alive(l)' <=> Alive(l)
  BY <1>b DEF Silent, Alive
<1>1. ASSUME NEW op \in {"pause", "resume"}, Begin(r, op) PROVE ListenerInv'
  <2>1. /\ request'[r].op = op /\ request'[r].at = op /\ request'[r].prev = paused
        /\ paused' = paused /\ current' = current /\ listener' = listener
    BY <1>0, <1>1 DEF Begin, ControlType
  <2>2. Toggling = {}
    BY <1>0, <1>1, RequestAlone DEF Begin, Toggling, NoRequest
  <2>3. paused => Silent
    BY <1>0, <2>2 DEF PausedIsSilent, Silent
  <2>4. ToggleStage(r)'
    BY <1>b, <2>1, <2>3 DEF ToggleStage
  <2> QED
    BY <1>0, <1>b, <2>1, <2>4, RequestKeeps
<1>2. CASE Pause(r)
  <2> DEFINE w == IF request[r].at = "pause" THEN "stopping" ELSE "undo_stopping"
  <2>1. Silent' /\ \A l \in Lids : ~Alive(l)'
    BY <1>0, <1>2, StopSilences DEF Pause, Silent
  <2>2. /\ request'[r].at = w /\ request'[r].op = request[r].op
        /\ request'[r].prev = request[r].prev /\ paused' = paused
    BY <1>0, <1>2, GotoEffect DEF Pause
  <2>3. ToggleStage(r)'
    BY <1>0, <1>2, <2>1, <2>2 DEF ToggleStage, Pause
  <2> QED
    BY <1>0, <2>1, <2>3, RequestKeeps
<1>3. CASE PauseDone(r)
  <2>1. /\ Silent /\ listener' = listener /\ paused' = paused
    BY <1>0, <1>3 DEF PauseDone, ToggleStage
  <2>2. Silent' /\ \A l \in Lids : ~Alive(l)'
    BY <1>b, <2>1 DEF Silent
  <2>3. /\ request'[r].at = AfterIngress(r)
        /\ AfterIngress(r) # "idle" => request'[r].op = request[r].op /\ request'[r].prev = request[r].prev
    BY <1>0, <1>3, GotoEffect DEF PauseDone
  <2>4. ToggleStage(r)'
    BY <1>0, <1>3, <2>1, <2>2, <2>3 DEF ToggleStage, PauseDone, AfterIngress
  <2> QED
    BY <1>0, <2>2, <2>4, RequestKeeps
<1>4. CASE Resume(r)
  <2> DEFINE w == IF running THEN AfterIngress(r)
                  ELSE IF request[r].at = "resume" THEN "starting" ELSE "undo_starting"
  <2>1. listener' = listener /\ paused' = paused /\ current' = current
    BY <1>4 DEF Resume
  <2>2. /\ request'[r].at = w
        /\ w # "idle" => request'[r].op = request[r].op /\ request'[r].prev = request[r].prev
    BY <1>0, <1>4, GotoEffect DEF Resume
  <2>3. ~running => Silent
    <3>1. \A l \in Lids : l # 0
      BY IngressAssumptions DEF Lids
    <3> QED
      BY <1>0, <3>1 DEF running, Silent
  <2>4. ToggleStage(r)'
    BY <1>0, <1>4, <1>b, <2>1, <2>2, <2>3 DEF ToggleStage, Resume, AfterIngress
  <2>5. request'[r].at = "idle" => ~paused'
    BY <1>0, <1>4, <2>1, <2>2 DEF ToggleStage, Resume, AfterIngress
  <2> QED
    BY <1>0, <1>b, <2>1, <2>4, <2>5, RequestKeeps
<1>5. CASE StartDone(r)
  <2>1. Silent /\ Launch /\ paused' = paused
    BY <1>0, <1>5 DEF StartDone, ToggleStage
  <2>2. \A l \in Lids : Alive(l)' => l = current'
    BY <1>0, <2>1, LaunchIsCurrent
  <2>3. /\ request'[r].at = AfterIngress(r)
        /\ AfterIngress(r) # "idle" => request'[r].op = request[r].op /\ request'[r].prev = request[r].prev
    BY <1>0, <1>5, GotoEffect DEF StartDone
  <2>4. ToggleStage(r)' /\ (request'[r].at = "idle" => ~paused')
    BY <1>0, <1>5, <2>1, <2>3 DEF ToggleStage, StartDone, AfterIngress
  <2> QED
    BY <1>0, <2>2, <2>4, RequestKeeps
<1>6. CASE StartFails(r)
  <2>1. Silent /\ listener' = listener /\ current' = current /\ request'[r].at = "idle"
    BY <1>0, <1>6, GotoEffect DEF StartFails, ToggleStage
  <2>2. ToggleStage(r)'
    BY <2>1 DEF ToggleStage
  <2> QED
    BY <1>0, <1>b, <2>1, <2>2, RequestKeeps
<1>7. CASE Persist(r)
  <2>1. /\ listener' = listener /\ current' = current /\ request'[r].at = "idle"
        /\ paused' => Silent
    BY <1>0, <1>7, GotoEffect DEF Persist, ToggleStage
  <2>2. ToggleStage(r)'
    BY <2>1 DEF ToggleStage
  <2> QED
    BY <1>0, <1>b, <2>1, <2>2, RequestKeeps
<1>8. CASE PersistFails(r)
  <2>1. /\ listener' = listener /\ current' = current /\ paused' = paused
        /\ request'[r].at = Undo(r)
        /\ Undo(r) # "idle" => request'[r].op = request[r].op /\ request'[r].prev = request[r].prev
    BY <1>0, <1>8, GotoEffect DEF PersistFails
  <2>2. /\ request[r].prev = paused /\ request[r].op \in {"pause", "resume"}
        /\ request[r].op = "pause" => Silent
    BY <1>0, <1>8 DEF PersistFails, ToggleStage
  <2>3. CASE request[r].op = "pause" /\ paused
    <3>1. Undo(r) = "idle" /\ Silent
      BY <1>a, <2>2, <2>3 DEF Undo
    <3>2. ToggleStage(r)'
      BY <2>1, <3>1 DEF ToggleStage
    <3> QED
      BY <1>0, <1>b, <2>1, <3>1, <3>2, RequestKeeps
  <2>4. CASE request[r].op = "pause" /\ ~paused
    <3>1. Undo(r) = "undo_resume"
      BY <1>a, <2>2, <2>4 DEF Undo
    <3>2. ToggleStage(r)'
      BY <2>1, <2>2, <2>4, <3>1 DEF ToggleStage
    <3> QED
      BY <1>0, <1>b, <2>1, <2>4, <3>2, RequestKeeps
  <2>5. CASE request[r].op = "resume" /\ paused
    <3>1. Undo(r) = "undo_pause"
      BY <1>a, <2>2, <2>5 DEF Undo
    <3>2. ToggleStage(r)'
      BY <2>1, <2>2, <2>5, <3>1 DEF ToggleStage
    <3> QED
      BY <1>0, <1>b, <2>1, <3>1, <3>2, RequestKeeps
  <2>6. CASE request[r].op = "resume" /\ ~paused
    <3>1. Undo(r) = "idle"
      BY <1>a, <2>2, <2>6 DEF Undo
    <3>2. ToggleStage(r)'
      BY <2>1, <3>1 DEF ToggleStage
    <3> QED
      BY <1>0, <1>b, <2>1, <2>6, <3>2, RequestKeeps
  <2> QED
    BY <2>2, <2>3, <2>4, <2>5, <2>6
<1> QED
  BY <1>1, <1>2, <1>3, <1>4, <1>5, <1>6, <1>7, <1>8 DEF RequestStep

(* Every step keeps the listeners in order. *)
LEMMA ListenersStep ==
    ASSUME MaxToggling = 1, IngTypeOK, ListenerInv, IngNext
    PROVE  ListenerInv'
<1>0. ListenerType /\ ControlType
  BY DEF IngTypeOK
<1>1. ASSUME NEW l \in Lids, ListenerStep(l) PROVE ListenerInv'
  BY <1>0, <1>1, ListenerCalm, CalmStep
<1>2. CASE AskStep
  <2>1. UNCHANGED gateway
    BY <1>2 DEF AskStep, RequestAnswer, Stamp, PostQuestion, PollReply, PollTimeout, Resolve
  <2> QED
    BY <2>1, CalmStep DEF gateway, Alive
<1>3. CASE Outside
  BY <1>3, CalmStep DEF Outside, PostRoot, PostReply, gateway, Alive
<1>4. CASE Boot
  <2>1. Silent /\ Toggling = {} /\ request' = request /\ paused' = paused /\ up'
    BY <1>4 DEF Boot, ListenerInv
  <2>2. Toggling' = {} /\ \A r \in Toggles : request'[r].at = "idle"
    BY <2>1 DEF Toggling
  <2>3. \A r \in Toggles : ToggleStage(r)'
    BY <2>2 DEF ToggleStage
  <2>4. CASE paused
    <3>1. Silent' /\ \A l \in Lids : ~Alive(l)'
      BY <1>4, <2>1, <2>4 DEF Boot, Silent, Alive
    <3> QED
      BY <2>1, <2>2, <2>3, <3>1 DEF ListenerInv, PausedIsSilent
  <2>5. CASE ~paused
    <3>1. \A l \in Lids : Alive(l)' => l = current'
      BY <1>0, <1>4, <2>1, <2>5, LaunchIsCurrent DEF Boot
    <3> QED
      BY <2>1, <2>2, <2>3, <2>5, <3>1 DEF ListenerInv, PausedIsSilent
  <2> QED
    BY <2>4, <2>5
<1>5. CASE GatewayCrash
  <2>1. \A r \in Toggles : request'[r].at = "idle"
    BY <1>5 DEF GatewayCrash, NoRequest
  <2>2. \A l \in Lids : ~Alive(l)'
    BY <1>5 DEF GatewayCrash, Alive
  <2>3. Toggling' = {} /\ Silent'
    BY <2>1, <2>2 DEF Toggling, Silent
  <2>4. \A r \in Toggles : ToggleStage(r)'
    BY <2>1 DEF ToggleStage
  <2> QED
    BY <2>2, <2>3, <2>4 DEF ListenerInv, PausedIsSilent
<1> QED
  BY <1>1, <1>2, <1>3, <1>4, <1>5, ListenerRequest DEF IngNext

-----------------------------------------------------------------------------
(* A post is in one place. *)

(* Where nothing is posted, received or created, nothing is delivered      *)
(* twice.                                                                  *)
LEMMA QuietDelivery ==
    ASSUME DeliveryInv, UNCHANGED <<provider, posts, repeated, tasks, unacked>>,
           \A l \in Lids : wire'[l] \subseteq wire[l] /\ (wire'[l] # {} => Alive(l)'),
           \A n \in 1..Len(posts) : Handled(n)' => Handled(n)
    PROVE  DeliveryInv'
<1>1. \A n \in 1..Len(posts) : (OnTheWay(n)' => OnTheWay(n)) /\ (HasTask(n)' <=> HasTask(n))
  BY DEF OnTheWay, HasTask
<1>2. \A n \in 1..Len(posts) : Once(n) => Once(n)'
  BY <1>1 DEF Once
<1> QED
  BY <1>2 DEF DeliveryInv

(* A new post is nowhere yet. *)
LEMMA PublishDelivery ==
    ASSUME IngTypeOK, DeliveryInv, NEW p \in PostRecord, p.thread <= Len(posts), Publish(p),
           tasks' = tasks,
           \A l \in Lids : Alive(l)' <=> Alive(l),
           \A l \in Lids : listener'[l].at \in {"handle", "create"} => listener'[l] = listener[l]
    PROVE  DeliveryInv'
<1>0. NetworkType /\ ListenerType /\ TaskType
  BY DEF IngTypeOK
<1>1. /\ Len(posts') = Len(posts) + 1 /\ Len(posts) \in Nat
      /\ provider' = provider /\ repeated' = repeated
  BY <1>0, PublishType DEF Publish, NetworkType
<1>a. PICK m \in Nat : m = Len(posts) + 1
  BY <1>1
<1>2. \A n \in 1..Len(posts') : n \in 1..Len(posts) \/ n = m
  BY <1>1, <1>a
<1>3. \A n \in 1..Len(posts) : n # m
  BY <1>1, <1>a
<1>4. /\ \A l \in Lids : wire'[l] \subseteq wire[l] \cup {m}
      /\ \A l \in Lids : m \in wire'[l] => m \in wire[l] \/ (provider # "slack" /\ listener[l].at \in Connected)
      /\ unacked' \subseteq unacked \cup {m}
      /\ m \in unacked' => m \in unacked \/ provider = "slack"
  BY <1>0, <1>a DEF Publish, NetworkType
<1>5. /\ \A l \in Lids : m \notin wire[l]
      /\ m \notin unacked
  BY <1>0, <1>3 DEF NetworkType
<1>6. \A n : Handled(n)' => Handled(n)
  BY DEF Handled
<1>7. ~Handled(m) /\ ~HasTask(m)
  BY <1>0, <1>3 DEF Handled, HasTask, ListenerType, TaskType, Handling
<1>8. \A n : HasTask(n)' <=> HasTask(n)
  BY DEF HasTask
<1>9. ASSUME NEW n \in 1..Len(posts), Once(n) PROVE Once(n)'
  <2>1. OnTheWay(n)' => OnTheWay(n)
    BY <1>3, <1>4 DEF OnTheWay
  <2> QED
    BY <1>6, <1>8, <1>9, <2>1 DEF Once
<1>10. Once(m)'
  <2>1. \A i \in 1..Len(tasks) : tasks[i].post # m
    BY <1>0, <1>3 DEF TaskType
  <2> QED
    BY <1>6, <1>7, <1>8, <2>1 DEF Once
<1>11. \A l \in Lids : wire'[l] # {} => provider = "mattermost" /\ Alive(l)'
  <2> SUFFICES ASSUME NEW l \in Lids, wire'[l] # {} PROVE provider = "mattermost" /\ Alive(l)'
    OBVIOUS
  <2>1. CASE wire[l] # {}
    BY <2>1 DEF DeliveryInv
  <2>2. CASE wire[l] = {}
    <3>1. provider # "slack" /\ listener[l].at \in Connected
      BY <1>4, <1>5, <2>2
    <3> QED
      BY <1>0, <3>1 DEF NetworkType, Connected, Alive
  <2> QED
    BY <2>1, <2>2
<1>12. unacked' # {} => provider = "slack"
  BY <1>4, <1>5 DEF DeliveryInv
<1> QED
  BY <1>1, <1>2, <1>9, <1>10, <1>11, <1>12 DEF DeliveryInv

(* A listener receives a post that is in no other place. *)
LEMMA ReceiveDelivery ==
    ASSUME IngTypeOK, ListenerInv, DeliveryInv, NEW l \in Lids, NEW n \in 1..Len(posts),
           ReceiveMattermost(l, n) \/ ReceiveSlack(l, n)
    PROVE  DeliveryInv'
<1>0. /\ NetworkType /\ listener \in [Lids -> ListenerRecord] /\ listener[l].at = "recv"
      /\ listener' = [listener EXCEPT ![l] = [at |-> "handle", post |-> n]]
      /\ UNCHANGED <<provider, posts, tasks>>
  BY DEF IngTypeOK, ListenerType, ReceiveMattermost, ReceiveSlack, At
<1>1. \A k \in Lids : k # l => ~Alive(k) /\ wire[k] = {}
  BY <1>0 DEF ListenerInv, DeliveryInv, Alive
<1>2. \A m : Handled(m)' => m = n
  BY <1>0, <1>1 DEF Handled, Alive
<1>3. Alive(l)' /\ \A m : HasTask(m)' <=> HasTask(m)
  BY <1>0 DEF Alive, HasTask
<1>4. OnTheWay(n)
  BY DEF OnTheWay, ReceiveMattermost, ReceiveSlack
<1>5. /\ \A k \in Lids : wire'[k] \subseteq wire[k]
      /\ unacked' \subseteq unacked /\ repeated \subseteq repeated'
  BY <1>0 DEF NetworkType, ReceiveMattermost, ReceiveSlack
<1>6. n \in repeated' \/ ~OnTheWay(n)'
  <2>1. CASE ReceiveMattermost(l, n)
    <3>1. provider = "mattermost" /\ unacked = {}
      BY <2>1 DEF ReceiveMattermost, DeliveryInv
    <3>2. n \notin wire'[l]
      BY <1>0, <2>1 DEF ReceiveMattermost, NetworkType
    <3> QED
      BY <1>1, <1>5, <3>1, <3>2 DEF OnTheWay
  <2>2. CASE ReceiveSlack(l, n)
    <3>1. provider = "slack"
      BY <2>2 DEF ReceiveSlack, DeliveryInv
    <3>2. \A k \in Lids : wire[k] = {}
      BY <3>1 DEF DeliveryInv
    <3>3. n \in repeated' \/ n \notin unacked'
      BY <2>2 DEF ReceiveSlack
    <3> QED
      BY <1>5, <3>2, <3>3 DEF OnTheWay
  <2> QED
    BY <2>1, <2>2
<1>7. ASSUME NEW m \in 1..Len(posts) PROVE m \in repeated' \/ Once(m)'
  <2>1. CASE m \in repeated
    BY <1>5, <2>1
  <2>2. CASE m \notin repeated
    <3>1. Once(m)
      BY <2>2 DEF DeliveryInv
    <3>2. OnTheWay(m)' => OnTheWay(m)
      BY <1>5 DEF OnTheWay
    <3>3. \A i, j \in 1..Len(tasks') : tasks'[i].post = m /\ tasks'[j].post = m => i = j
      BY <1>0, <3>1 DEF Once
    <3>4. CASE m = n
      <4>1. ~HasTask(m)'
        BY <1>3, <1>4, <3>1, <3>4 DEF Once
      <4> QED
        BY <1>6, <3>3, <3>4, <4>1 DEF Once
    <3>5. CASE m # n
      <4>1. ~Handled(m)'
        BY <1>2, <3>5
      <4> QED
        BY <1>3, <3>1, <3>2, <3>3, <4>1 DEF Once
    <3> QED
      BY <3>4, <3>5
  <2> QED
    BY <2>1, <2>2
<1>8. \A k \in Lids : wire'[k] # {} => provider' = "mattermost" /\ Alive(k)'
  <2>1. \A k \in Lids : wire'[k] # {} => k = l /\ wire[k] # {}
    BY <1>1, <1>5
  <2> QED
    BY <1>0, <1>3, <2>1 DEF DeliveryInv
<1>9. unacked' # {} => provider' = "slack"
  BY <1>0, <1>5 DEF DeliveryInv
<1> QED
  BY <1>0, <1>7, <1>8, <1>9 DEF DeliveryInv

(* The post of a new task had none, and is handled no more. *)
LEMMA CreateDelivery ==
    ASSUME IngTypeOK, ListenerInv, DeliveryInv, NEW l \in Lids, CreateTask(l)
    PROVE  DeliveryInv'
<1>0. /\ NetworkType /\ ListenerType /\ listener \in [Lids -> ListenerRecord]
      /\ listener[l].at = "create" /\ tasks \in Seq(TaskRecord)
      /\ UNCHANGED <<provider, posts, unacked, repeated, wire>>
  BY DEF IngTypeOK, ListenerType, TaskType, CreateTask, network
<1>1. PICK n \in 1..Len(posts) : n = listener[l].post
  BY <1>0 DEF ListenerType, Handling
<1>2. listener' = [listener EXCEPT ![l] = [at |-> "ack", post |-> n]]
  BY <1>1 DEF CreateTask, At
<1>3. \A k \in Lids : k # l => ~Alive(k)
  BY <1>0 DEF ListenerInv, Alive
<1>4. \A m : ~Handled(m)'
  BY <1>0, <1>2, <1>3 DEF Handled, Alive
<1>5. Handled(n)
  BY <1>0, <1>1 DEF Handled
<1>6. PICK w, th : tasks' = Append(tasks, [post |-> n, workflow |-> w, thread |-> th])
  BY <1>1 DEF CreateTask
<1> DEFINE t == [post |-> n, workflow |-> w, thread |-> th]
<1>7. t.post = n /\ tasks' = Append(tasks, t) /\ Len(tasks) \in Nat
  BY <1>0, <1>6
<1> HIDE DEF t
<1>8. /\ Len(tasks') = Len(tasks) + 1 /\ tasks'[Len(tasks) + 1] = t
      /\ \A i \in 1..Len(tasks) : tasks'[i] = tasks[i]
  BY <1>0, <1>7
<1>9. \A i \in 1..Len(tasks') : \/ i \in 1..Len(tasks) /\ tasks'[i] = tasks[i]
                                \/ i = Len(tasks) + 1 /\ tasks'[i] = t
  <2>1. \A i \in 1..Len(tasks') : i \in 1..Len(tasks) \/ i = Len(tasks) + 1
    BY <1>7, <1>8
  <2> QED
    BY <1>8, <2>1
<1>10. \A k \in Lids : Alive(k)' <=> Alive(k)
  BY <1>0, <1>2 DEF Alive
<1>11. \A m : OnTheWay(m)' <=> OnTheWay(m)
  BY <1>0 DEF OnTheWay
<1>12. ASSUME NEW m \in 1..Len(posts), m \notin repeated PROVE Once(m)'
  <2>1. Once(m)
    BY <1>12 DEF DeliveryInv
  <2>2. CASE m = n
    <3>1. ~HasTask(m) /\ ~OnTheWay(m)
      BY <1>5, <2>1, <2>2 DEF Once
    <3>2. \A i \in 1..Len(tasks') : tasks'[i].post = m => i = Len(tasks) + 1
      BY <1>9, <3>1 DEF HasTask
    <3> QED
      BY <1>4, <1>11, <3>1, <3>2 DEF Once
  <2>3. CASE m # n
    <3>1. \A i \in 1..Len(tasks') : tasks'[i].post = m => i \in 1..Len(tasks) /\ tasks[i].post = m
      BY <1>7, <1>9, <2>3
    <3>2. HasTask(m)' => HasTask(m)
      BY <3>1 DEF HasTask
    <3> QED
      BY <1>4, <1>11, <2>1, <3>1, <3>2 DEF Once
  <2> QED
    BY <2>2, <2>3
<1> QED
  BY <1>0, <1>10, <1>12 DEF DeliveryInv

(* Every step of a listener keeps a post in one place. *)
LEMMA ListenerDelivery ==
    ASSUME IngTypeOK, ListenerInv, DeliveryInv, NEW l \in Lids, ListenerStep(l)
    PROVE  DeliveryInv'
<1>0. NetworkType /\ ListenerType /\ listener \in [Lids -> ListenerRecord]
  BY DEF IngTypeOK, ListenerType
<1>1. \A k \in Lids : Alive(k)' <=> Alive(k)
  BY <1>0, ListenerCalm
<1>2. CASE Connect(l) \/ HandleMessage(l) \/ HydrateFails(l)
  <2>1. UNCHANGED <<provider, posts, unacked, repeated, wire, tasks>>
    BY <1>2 DEF Connect, HandleMessage, HydrateFails, network
  <2>2. \A n : Handled(n)' => Handled(n)
    BY <1>0, <1>2 DEF Connect, HandleMessage, HydrateFails, Handled, At
  <2>3. \A k \in Lids : wire'[k] \subseteq wire[k] /\ (wire'[k] # {} => Alive(k)')
    BY <1>1, <2>1 DEF DeliveryInv
  <2> QED
    BY <2>1, <2>2, <2>3, QuietDelivery
<1>3. CASE Disconnect(l)
  <2>1. UNCHANGED <<provider, posts, unacked, repeated, tasks>>
    BY <1>3 DEF Disconnect
  <2>2. \A n : Handled(n)' => Handled(n)
    BY <1>0, <1>3 DEF Disconnect, Handled, At
  <2>3. \A k \in Lids : wire'[k] \subseteq wire[k]
    BY <1>0, <1>3 DEF Disconnect, NetworkType
  <2>4. \A k \in Lids : wire'[k] # {} => Alive(k)'
    BY <1>1, <2>3 DEF DeliveryInv
  <2> QED
    BY <2>1, <2>2, <2>3, <2>4, QuietDelivery
<1>4. CASE PostAcknowledgement(l)
  <2>1. listener[l].post \in 1..Len(posts)
    BY <1>0, <1>4 DEF PostAcknowledgement, ListenerType, Handling
  <2>2. Inbound(listener[l].post).thread \in 1..Len(posts) /\ Len(posts) \in Nat
    BY <1>0, <2>1, InboundType DEF NetworkType
  <2>3. PICK t \in 1..Len(posts) : Publish(OwnPost(t))
    BY <1>4, <2>2 DEF PostAcknowledgement
  <2>4. OwnPost(t) \in PostRecord /\ OwnPost(t).thread <= Len(posts)
    BY <1>0, <2>2, OwnPostType
  <2>5. /\ tasks' = tasks
        /\ \A k \in Lids : listener'[k].at \in {"handle", "create"} => listener'[k] = listener[k]
    BY <1>0, <1>4 DEF PostAcknowledgement, At
  <2> QED
    BY <1>1, <2>3, <2>4, <2>5, PublishDelivery
<1> QED
  BY <1>2, <1>3, <1>4, ReceiveDelivery, CreateDelivery DEF ListenerStep

(* A new listener has nothing under way and handles nothing. *)
LEMMA LaunchDelivery ==
    ASSUME ListenerType, DeliveryInv, Launch, UNCHANGED <<network, tasks>>
    PROVE  DeliveryInv'
<1>0. listener \in [Lids -> ListenerRecord]
  BY DEF ListenerType
<1>1. UNCHANGED <<provider, posts, unacked, repeated, wire, tasks>>
  BY DEF network
<1>2. /\ \A l \in Lids : l # NextFresh => listener'[l] = listener[l]
      /\ listener'[NextFresh].at = "connect"
  BY <1>0, FreshListener DEF Launch, At
<1>3. \A n : Handled(n)' => Handled(n)
  BY <1>2 DEF Handled
<1>4. \A l \in Lids : wire'[l] \subseteq wire[l] /\ (wire'[l] # {} => Alive(l)')
  BY <1>1, <1>2 DEF DeliveryInv, Alive
<1> QED
  BY <1>1, <1>3, <1>4, QuietDelivery

(* Every step keeps a post in one place. *)
LEMMA DeliveryStep ==
    ASSUME IngTypeOK, ListenerInv, DeliveryInv, IngNext
    PROVE  DeliveryInv'
<1>0. /\ NetworkType /\ ListenerType /\ ControlType /\ TaskType /\ DialogType
      /\ listener \in [Lids -> ListenerRecord] /\ Len(posts) \in Nat
  BY DEF IngTypeOK, ListenerType, NetworkType
<1>1. CASE UNCHANGED <<network, listener, tasks>>
  <2>1. UNCHANGED <<provider, posts, unacked, repeated, wire, tasks, listener>>
    BY <1>1 DEF network
  <2>2. \A l \in Lids : wire'[l] \subseteq wire[l] /\ (wire'[l] # {} => Alive(l)')
    BY <2>1 DEF DeliveryInv, Alive
  <2> QED
    BY <2>1, <2>2, QuietDelivery DEF Handled
<1>2. ASSUME UNCHANGED <<listener, tasks>>
      PROVE  /\ \A l \in Lids : Alive(l)' <=> Alive(l)
             /\ \A l \in Lids : listener'[l].at \in {"handle", "create"} => listener'[l] = listener[l]
  BY <1>2 DEF Alive
<1>3. ASSUME NEW i \in Inputs, PostRoot(i) PROVE DeliveryInv'
  <2>1. i \in PostRecord /\ i.thread <= Len(posts)
    BY <1>0, InputType
  <2> QED
    BY <1>2, <1>3, <2>1, PublishDelivery DEF PostRoot, gateway
<1>4. ASSUME NEW i \in Inputs, PostReply(i) PROVE DeliveryInv'
  <2>1. i \in PostRecord
    BY InputType
  <2>2. 1 \in 1..Len(tasks)
    BY <1>0, <1>4 DEF PostReply, TaskType
  <2>3. tasks[1].thread \in Nat /\ tasks[1].thread <= Len(posts)
    BY <1>0, <2>2 DEF TaskType
  <2> DEFINE q == [i EXCEPT !.thread = tasks[1].thread]
  <2>4. q \in PostRecord
    BY <2>1, <2>3 DEF PostRecord
  <2>5. q.thread = tasks[1].thread
    BY <2>1 DEF PostRecord
  <2>6. Publish(q) /\ UNCHANGED <<listener, tasks>>
    BY <1>4 DEF PostReply, gateway
  <2> HIDE DEF q
  <2> QED
    BY <1>2, <2>3, <2>4, <2>5, <2>6, PublishDelivery
<1>5. CASE PostQuestion
  <2>1. UNCHANGED <<listener, tasks>>
    BY <1>5 DEF PostQuestion, gateway
  <2>2. CASE UNCHANGED network
    BY <1>1, <2>1, <2>2
  <2>3. CASE Publish(OwnPost(tasks[1].thread))
    <3>1. 1 \in 1..Len(tasks)
      BY <1>0, <1>5 DEF PostQuestion, DialogType, TaskType
    <3>2. tasks[1].thread \in 1..Len(posts)
      BY <1>0, <3>1 DEF TaskType
    <3>3. OwnPost(tasks[1].thread) \in PostRecord /\ OwnPost(tasks[1].thread).thread <= Len(posts)
      BY <1>0, <3>2, OwnPostType
    <3> QED
      BY <1>2, <2>1, <2>3, <3>3, PublishDelivery
  <2> QED
    BY <1>5, <2>2, <2>3 DEF PostQuestion
<1>6. CASE AskStep
  BY <1>1, <1>5, <1>6 DEF AskStep, RequestAnswer, Stamp, PollReply, PollTimeout, Resolve, gateway
<1>7. CASE Boot
  BY <1>0, <1>1, <1>7, LaunchDelivery DEF Boot
<1>8. CASE GatewayCrash
  <2>1. UNCHANGED <<provider, posts, unacked, repeated, tasks>> /\ \A l \in Lids : wire'[l] = {}
    BY <1>8 DEF GatewayCrash
  <2>2. \A n : Handled(n)' => Handled(n)
    BY <1>8 DEF GatewayCrash, Handled
  <2> QED
    BY <2>1, <2>2, QuietDelivery
<1>9. ASSUME NEW r \in Toggles, RequestStep(r) PROVE DeliveryInv'
  <2>1. CASE Pause(r)
    <3>1. UNCHANGED <<provider, posts, unacked, repeated, tasks>>
      BY <2>1 DEF Pause
    <3>2. \A l \in Lids : /\ wire'[l] \subseteq wire[l]
                          /\ wire'[l] = {} \/ listener'[l] = listener[l]
                          /\ listener'[l].at = "dead" \/ listener'[l] = listener[l]
      BY <1>0, <2>1 DEF Pause, StopListener, NetworkType
    <3>3. \A n : Handled(n)' => Handled(n)
      BY <3>2 DEF Handled
    <3>4. \A l \in Lids : wire'[l] # {} => Alive(l)'
      BY <3>2 DEF DeliveryInv, Alive
    <3> QED
      BY <3>1, <3>2, <3>3, <3>4, QuietDelivery
  <2>2. CASE StartDone(r)
    BY <1>0, <2>2, LaunchDelivery DEF StartDone
  <2> QED
    BY <1>1, <1>9, <2>1, <2>2
       DEF RequestStep, Begin, PauseDone, Resume, StartFails, Persist, PersistFails
<1> QED
  BY <1>3, <1>4, <1>6, <1>7, <1>8, <1>9, ListenerDelivery DEF IngNext, Outside

(* Requests handled one at a time keep the whole invariant. *)
LEMMA OneListenerStep ==
    ASSUME MaxToggling = 1
    PROVE  OneListenerInv /\ [IngNext]_ingVars => OneListenerInv'
<1> SUFFICES ASSUME OneListenerInv, [IngNext]_ingVars PROVE OneListenerInv'
  OBVIOUS
<1>0. IngressInv /\ IngTypeOK /\ ListenerInv /\ DeliveryInv
  BY DEF OneListenerInv, IngressInv
<1>1. IngressInv'
  BY <1>0, IngressStep
<1>2. CASE IngNext
  BY <1>0, <1>1, <1>2, ListenersStep, DeliveryStep DEF OneListenerInv
<1>3. CASE UNCHANGED ingVars
  <2>1. ListenerInv'
    BY <1>0, <1>3, CalmStep DEF ingVars, gateway, Alive
  <2>2. DeliveryInv'
    <3>1. UNCHANGED <<provider, posts, unacked, repeated, wire, tasks, listener>>
      BY <1>3 DEF ingVars, network, gateway
    <3>2. \A l \in Lids : wire'[l] \subseteq wire[l] /\ (wire'[l] # {} => Alive(l)')
      BY <1>0, <3>1 DEF DeliveryInv, Alive
    <3> QED
      BY <1>0, <3>1, <3>2, QuietDelivery DEF Handled
  <2> QED
    BY <1>1, <2>1, <2>2 DEF OneListenerInv
<1> QED
  BY <1>2, <1>3

(* With one pause or resume request at a time, a paused connector has no   *)
(* listener at work once the request is done.                              *)
THEOREM PausedStaysSilent ==
    ASSUME MaxToggling = 1
    PROVE  IngSpec => []PausedIsSilent
<1>1. IngInit => OneListenerInv
  BY InitIngress, InitListener DEF OneListenerInv
<1>2. OneListenerInv => PausedIsSilent
  BY DEF OneListenerInv, ListenerInv
<1>3. OneListenerInv /\ [IngNext]_ingVars => OneListenerInv'
  BY OneListenerStep
<1> QED
  BY <1>1, <1>2, <1>3, PTL DEF IngSpec

(* With one pause or resume request at a time, a post starts one task at   *)
(* most unless Slack repeats it, and the bot's own posts start none.       *)
THEOREM PostsStartOneTask ==
    ASSUME MaxToggling = 1
    PROVE  IngSpec => []OneTaskPerPost
<1>1. IngInit => OneListenerInv
  BY InitIngress, InitListener DEF OneListenerInv
<1>2. OneListenerInv => OneTaskPerPost
  <2> SUFFICES ASSUME OneListenerInv PROVE OneTaskPerPost
    OBVIOUS
  <2>1. OwnInv /\ TaskType /\ DeliveryInv
    BY DEF OneListenerInv, IngressInv, IngTypeOK
  <2>2. \A i \in 1..Len(tasks) : tasks[i].post \in repeated \/ Once(tasks[i].post)
    BY <2>1 DEF TaskType, DeliveryInv
  <2> QED
    BY <2>1, <2>2 DEF OneTaskPerPost, OwnInv, Once
<1>3. OneListenerInv /\ [IngNext]_ingVars => OneListenerInv'
  BY OneListenerStep
<1> QED
  BY <1>1, <1>2, <1>3, PTL DEF IngSpec

-----------------------------------------------------------------------------
(* A set of numbers up to n that is not empty has a largest member. *)
LEMMA Largest ==
    ASSUME NEW n \in Nat, NEW S \in SUBSET (1..n), S # {}
    PROVE  \E x \in S : \A y \in S : y <= x
<1> DEFINE T == {n - s : s \in S}
<1>1. T \in SUBSET Nat /\ T # {}
  <2>1. \A s \in S : n - s \in Nat
    OBVIOUS
  <2>2. PICK s \in S : TRUE
    OBVIOUS
  <2>3. n - s \in T
    OBVIOUS
  <2> QED
    BY <2>1, <2>3
<1>2. PICK m \in T : \A k \in T : m <= k
  <2> HIDE DEF T
  <2> QED
    BY <1>1, Smallest
<1>3. PICK x \in S : m = n - x
  BY <1>2
<1>4. ASSUME NEW y \in S PROVE y <= x
  <2>1. n - x <= n - y
    BY <1>2, <1>3
  <2> QED
    BY <2>1
<1> QED
  BY <1>4

(* The initial state satisfies the invariants. *)
LEMMA InitHk == HkInit => HkTypeOK /\ LiveInv /\ PassInv
<1> SUFFICES ASSUME HkInit PROVE HkTypeOK /\ LiveInv /\ PassInv
  OBVIOUS
<1>1. task \in [TaskIds -> TaskRow]
  BY DEF HkInit, TaskRow
<1>2. PassType
  <2>1. Idle \in PassState
    BY DEF Idle, PassState, NoVersionRow
  <2> QED
    BY <2>1 DEF HkInit, PassType
<1>3. SourceType
  BY DEF HkInit, SourceType, NoVersionRow
<1>4. \A t \in TaskIds : task[t].archived = "no" /\ ~Selected(t)
  BY DEF HkInit, Selected, Idle
<1>5. LiveInv
  BY <1>4 DEF HkInit, LiveInv, LiveTasksSurvive
<1>6. KeptInv
  <2>1. version = <<>> /\ currentId = NoVersionRow /\ indexed = FALSE
    BY DEF HkInit
  <2>2. \A h \in Replicas : pass[h].at = "idle" /\ pass[h].doomed = {} /\ pass[h].rows = {}
    BY DEF HkInit, Idle
  <2>3. VersionRows = {}
    BY <2>1 DEF VersionRows
  <2> QED
    BY <2>1, <2>2, <2>3 DEF KeptInv, Watched
<1> QED
  BY <1>1, <1>2, <1>3, <1>5, <1>6 DEF HkTypeOK, PassInv

(* What a step of a pass writes into its own state. *)
PassStep(h) ==
    \/ ArchiveSelect(h) \/ ArchiveCommit(h) \/ DeleteSelect(h) \/ DeleteCommit(h)
    \/ PruneLearning(h) \/ ReadSources(h) \/ ReadVersions(h)
    \/ \E i \in 1..MaxSyncs : DeleteObjects(h, i)
    \/ DeleteRows(h) \/ SelectHistory(h) \/ PruneHistory(h) \/ RecordSuccess(h)
    \/ PassFails(h)

(* A step of one replica's pass leaves the others where they are. *)
LEMMA PassStepType ==
    ASSUME HkTypeOK, NEW h \in Replicas, PassStep(h)
    PROVE  /\ pass' \in [Replicas -> PassState]
           /\ \A g \in Replicas : g # h => pass'[g] = pass[g]
<1>0. pass \in [Replicas -> PassState] /\ pass[h] \in PassState /\ history \subseteq Nat
  BY DEF HkTypeOK, PassType
<1>1. ASSUME NEW y \in PassState, pass' = [pass EXCEPT ![h] = y]
      PROVE  /\ pass' \in [Replicas -> PassState]
             /\ \A g \in Replicas : g # h => pass'[g] = pass[g]
  BY <1>0, <1>1
<1>2. Idle \in PassState
  BY DEF Idle, PassState, NoVersionRow
<1>3. CASE ArchiveSelect(h)
  <2> DEFINE T == {t \in TaskIds : Archivable(t)}
             y == [Idle EXCEPT !.at = "archive", !.tasks = T]
  <2>1. T \subseteq TaskIds
    OBVIOUS
  <2> HIDE DEF T
  <2>2. y \in PassState
    BY <1>2, <2>1 DEF PassState
  <2>3. pass' = [pass EXCEPT ![h] = y]
    BY <1>3 DEF ArchiveSelect, T
  <2> HIDE DEF y
  <2> QED
    BY <1>1, <2>2, <2>3
<1>4. CASE ArchiveCommit(h) \/ DeleteCommit(h)
  <2> PICK w \in {"select", "learning"} : pass' = [pass EXCEPT ![h].at = w, ![h].tasks = {}]
    BY <1>4 DEF ArchiveCommit, DeleteCommit
  <2> DEFINE y == [pass[h] EXCEPT !.at = w, !.tasks = {}]
  <2>1. y \in PassState
    BY <1>0 DEF PassState
  <2>2. pass' = [pass EXCEPT ![h] = y]
    BY <1>0
  <2> HIDE DEF y
  <2> QED
    BY <1>1, <2>1, <2>2
<1>5. CASE DeleteSelect(h)
  <2> DEFINE T == {t \in TaskIds : There(t) /\ task[t].archived = "due"}
             y == [pass[h] EXCEPT !.at = "delete", !.tasks = T]
  <2>1. T \subseteq TaskIds
    OBVIOUS
  <2>2. pass' = [pass EXCEPT ![h] = y]
    BY <1>0, <1>5 DEF DeleteSelect
  <2> HIDE DEF T
  <2>3. y \in PassState
    BY <1>0, <2>1 DEF PassState
  <2> HIDE DEF y
  <2> QED
    BY <1>1, <2>2, <2>3
<1>6. CASE PruneLearning(h) \/ DeleteRows(h) \/ PruneHistory(h)
  <2> PICK w \in {"sources", "history", "record"} : pass' = [pass EXCEPT ![h].at = w]
    BY <1>6 DEF PruneLearning, DeleteRows, PruneHistory, Goes
  <2> DEFINE y == [pass[h] EXCEPT !.at = w]
  <2>1. y \in PassState
    BY <1>0 DEF PassState
  <2>2. pass' = [pass EXCEPT ![h] = y]
    BY <1>0
  <2> HIDE DEF y
  <2> QED
    BY <1>1, <2>1, <2>2
<1>7. CASE ReadSources(h)
  <2> DEFINE y == [pass[h] EXCEPT !.at = "versions", !.cur = currentId, !.begun = 0]
  <2>1. currentId \in Nat
    BY DEF HkTypeOK, SourceType
  <2>2. y \in PassState
    BY <1>0, <2>1 DEF PassState
  <2>3. pass' = [pass EXCEPT ![h] = y]
    BY <1>0, <1>7 DEF ReadSources
  <2> HIDE DEF y
  <2> QED
    BY <1>1, <2>2, <2>3
<1>8. CASE ReadVersions(h)
  <2> DEFINE d == {i \in VersionRows \ Retained(h) : version[i].status # "running"}
             k == {i \in d : version[i].status = "succeeded"}
             y == [pass[h] EXCEPT !.at = "objects", !.doomed = d, !.keyed = k]
  <2>1. d \subseteq Nat /\ k \subseteq Nat
    BY DEF VersionRows, HkTypeOK, SourceType
  <2>2. pass' = [pass EXCEPT ![h] = y]
    BY <1>0, <1>8 DEF ReadVersions
  <2> HIDE DEF d, k
  <2>3. y \in PassState
    BY <1>0, <2>1 DEF PassState
  <2> HIDE DEF y
  <2> QED
    BY <1>1, <2>2, <2>3
<1>9. ASSUME NEW i \in 1..MaxSyncs, DeleteObjects(h, i)
      PROVE  /\ pass' \in [Replicas -> PassState]
             /\ \A g \in Replicas : g # h => pass'[g] = pass[g]
  <2>0. pass[h].doomed \subseteq Nat /\ pass[h].rows \subseteq Nat
    BY <1>0 DEF PassState
  <2> DEFINE d == pass[h].doomed \ {i}
             r == pass[h].rows \cup {i}
             y == [pass[h] EXCEPT !.doomed = d, !.rows = r]
             z == [pass[h] EXCEPT !.doomed = d]
  <2>1. d \subseteq Nat /\ r \subseteq Nat
    BY <2>0, HousekeepingAssumptions
  <2>2. pass' = [pass EXCEPT ![h] = y] \/ pass' = [pass EXCEPT ![h] = z]
    BY <1>0, <1>9 DEF DeleteObjects
  <2> HIDE DEF d, r
  <2>3. y \in PassState /\ z \in PassState
    BY <1>0, <2>1 DEF PassState
  <2> HIDE DEF y, z
  <2> QED
    BY <1>1, <2>2, <2>3
<1>10. CASE SelectHistory(h)
  <2> DEFINE r == history \ Newest(Room)
             y == [pass[h] EXCEPT !.at = "prune", !.runs = r]
  <2>1. r \subseteq Nat
    BY <1>0
  <2>2. pass' = [pass EXCEPT ![h] = y]
    BY <1>0, <1>10 DEF SelectHistory
  <2> HIDE DEF r
  <2>3. y \in PassState
    BY <1>0, <2>1 DEF PassState
  <2> HIDE DEF y
  <2> QED
    BY <1>1, <2>2, <2>3
<1>11. CASE RecordSuccess(h) \/ PassFails(h)
  BY <1>1, <1>2, <1>11 DEF RecordSuccess, PassFails, RecordPass
<1> QED
  BY <1>3, <1>4, <1>5, <1>6, <1>7, <1>8, <1>9, <1>10, <1>11 DEF PassStep

(* A sync that begins is counted by the passes that have read the sources. *)
LEMMA BegunType ==
    ASSUME HkTypeOK, NEW c \in Commits, SyncBegins(c)
    PROVE  /\ pass' \in [Replicas -> PassState]
           /\ \A h \in Replicas :
                 /\ pass'[h].at = pass[h].at /\ pass'[h].cur = pass[h].cur
                 /\ pass'[h].tasks = pass[h].tasks /\ pass'[h].doomed = pass[h].doomed
                 /\ pass'[h].rows = pass[h].rows
                 /\ pass'[h].begun = IF pass[h].at = "versions" /\ pass[h].begun < Keep
                                     THEN pass[h].begun + 1 ELSE pass[h].begun
<1>0. pass \in [Replicas -> PassState]
  BY DEF HkTypeOK, PassType
<1> DEFINE b(h) == IF pass[h].at = "versions" /\ pass[h].begun < Keep
                   THEN pass[h].begun + 1 ELSE pass[h].begun
<1>1. pass' = [h \in Replicas |-> [pass[h] EXCEPT !.begun = b(h)]]
  BY DEF SyncBegins
<1>2. \A h \in Replicas : b(h) \in Nat /\ pass[h] \in PassState
  BY <1>0 DEF PassState
<1> HIDE DEF b
<1>3. ASSUME NEW h \in Replicas
      PROVE  /\ pass'[h] \in PassState
             /\ pass'[h].at = pass[h].at /\ pass'[h].cur = pass[h].cur
             /\ pass'[h].tasks = pass[h].tasks /\ pass'[h].doomed = pass[h].doomed
             /\ pass'[h].rows = pass[h].rows /\ pass'[h].begun = b(h)
  <2> DEFINE y == [pass[h] EXCEPT !.begun = b(h)]
  <2>1. pass'[h] = y
    BY <1>1
  <2>2. y \in PassState
    BY <1>2 DEF PassState
  <2>3. /\ y.at = pass[h].at /\ y.cur = pass[h].cur /\ y.tasks = pass[h].tasks
        /\ y.doomed = pass[h].doomed /\ y.rows = pass[h].rows /\ y.begun = b(h)
    BY <1>2 DEF PassState
  <2> HIDE DEF y
  <2> QED
    BY <2>1, <2>2, <2>3
<1>4. pass' \in [Replicas -> PassState]
  BY <1>1, <1>3
<1> QED
  BY <1>3, <1>4 DEF b

(* What moves beside the passes. *)
TaskStep(t) ==
    \/ Ages(t) \/ Archive(t) \/ Unarchive(t) \/ Rerun(t) \/ Claimed(t)
    \/ \E s \in TERMINAL_STATUSES : TaskEnds(t, s)

(* The steps, by who takes them. *)
LEMMA HkSteps ==
    HkNext <=> \/ \E t \in TaskIds : TaskStep(t)
               \/ \E u \in Units : UnitAges(u)
               \/ \E c \in Commits : SyncBegins(c)
               \/ \E i \in 1..MaxSyncs : SyncFails(i) \/ SyncPromotes(i) \/ SyncSkips(i)
               \/ \E h \in Replicas : PassStep(h)
  BY DEF HkNext, TaskStep, PassStep

(* Every step keeps the types of the passes. *)
LEMMA PassTypeStep == ASSUME HkTypeOK, HkNext PROVE PassType'
<1>0. PassType
  BY DEF HkTypeOK
<1>1. ASSUME NEW h \in Replicas, PassStep(h) PROVE PassType'
  <2>1. pass' \in [Replicas -> PassState]
    BY <1>1, PassStepType
  <2>2. history' \subseteq Nat /\ nextRun' \in Nat
    <3>0. history \subseteq Nat /\ nextRun \in Nat
      BY <1>0 DEF PassType
    <3>1. CASE PruneHistory(h)
      BY <3>0, <3>1 DEF PruneHistory
    <3>2. CASE RecordPass(h)
      BY <3>0, <3>2 DEF RecordPass
    <3>3. CASE UNCHANGED historyState
      BY <3>0, <3>3 DEF historyState
    <3>4. PruneHistory(h) \/ RecordPass(h) \/ UNCHANGED historyState
      BY <1>1 DEF PassStep, ArchiveSelect, ArchiveCommit, DeleteSelect, DeleteCommit,
         PruneLearning, ReadSources, ReadVersions, DeleteObjects, DeleteRows, SelectHistory,
         RecordSuccess, PassFails
    <3> QED
      BY <3>1, <3>2, <3>3, <3>4
  <2> QED
    BY <2>1, <2>2 DEF PassType
<1>2. ASSUME NEW c \in Commits, SyncBegins(c) PROVE PassType'
  BY <1>0, <1>2, BegunType DEF SyncBegins, historyState, PassType
<1>3. CASE UNCHANGED <<pass, historyState>>
  BY <1>0, <1>3 DEF historyState, PassType
<1>4. ASSUME NEW t \in TaskIds, TaskStep(t) PROVE PassType'
  BY <1>3, <1>4 DEF TaskStep, Ages, Archive, Unarchive, Rerun, Claimed, TaskEnds
<1>5. ASSUME NEW i \in 1..MaxSyncs, SyncFails(i) \/ SyncPromotes(i) \/ SyncSkips(i)
      PROVE  PassType'
  BY <1>3, <1>5 DEF SyncFails, SyncPromotes, SyncSkips
<1>6. ASSUME NEW u \in Units, UnitAges(u) PROVE PassType'
  BY <1>3, <1>6 DEF UnitAges
<1> QED
  BY <1>1, <1>2, <1>4, <1>5, <1>6, HkSteps

-----------------------------------------------------------------------------
(* Tasks. *)

(* What a step of a task or an operator does to that task. *)
LEMMA TaskEffect ==
    ASSUME HkTypeOK, NEW t \in TaskIds, TaskStep(t)
    PROVE  /\ task' \in [TaskIds -> TaskRow]
           /\ \A x \in TaskIds : x # t => task'[x] = task[x]
           /\ touched \subseteq touched' /\ lostTasks' = lostTasks /\ pass' = pass
           /\ Unfinished(t)' /\ (task'[t].archived # "no" \/ Selected(t)) =>
                \/ t \in touched'
                \/ Unfinished(t) /\ (task[t].archived # "no" \/ Selected(t))
<1>0. task \in [TaskIds -> TaskRow] /\ task[t] \in TaskRow
  BY DEF HkTypeOK
<1>1. ASSUME NEW y \in TaskRow, task' = [task EXCEPT ![t] = y]
      PROVE  /\ task' \in [TaskIds -> TaskRow] /\ task'[t] = y
             /\ \A x \in TaskIds : x # t => task'[x] = task[x]
  BY <1>0, <1>1
<1>2. ASSUME NEW s \in {"queued", "running", "succeeded", "failed"}
      PROVE  /\ [task[t] EXCEPT !.status = s] \in TaskRow
             /\ [task[t] EXCEPT !.status = s].status = s
             /\ [task[t] EXCEPT !.status = s].archived = task[t].archived
  BY <1>0 DEF TaskRow
<1>3. ASSUME NEW a \in {"no", "new", "due"}
      PROVE  /\ [task[t] EXCEPT !.archived = a] \in TaskRow
             /\ [task[t] EXCEPT !.archived = a].status = task[t].status
             /\ [task[t] EXCEPT !.archived = a].archived = a
  BY <1>0 DEF TaskRow
<1>4. /\ [task[t] EXCEPT !.old = TRUE] \in TaskRow
      /\ [task[t] EXCEPT !.old = TRUE].status = task[t].status
      /\ [task[t] EXCEPT !.old = TRUE].archived = task[t].archived
  BY <1>0 DEF TaskRow
<1>5. ASSUME NEW s \in TERMINAL_STATUSES, TaskEnds(t, s)
      PROVE  /\ task' = [task EXCEPT ![t] = [task[t] EXCEPT !.status = s]]
             /\ UNCHANGED <<touched, lostTasks, pass>>
             /\ s \in {"succeeded", "failed"}
  BY <1>0, <1>5 DEF TaskEnds, TERMINAL_STATUSES
<1>6. ASSUME Ages(t)
      PROVE  /\ \/ task' = [task EXCEPT ![t] = [task[t] EXCEPT !.old = TRUE]]
                \/ /\ task[t].archived = "new"
                   /\ task' = [task EXCEPT ![t] = [task[t] EXCEPT !.archived = "due"]]
             /\ UNCHANGED <<touched, lostTasks, pass>>
  BY <1>0, <1>6 DEF Ages
<1>7. ASSUME Archive(t)
      PROVE  /\ task' = [task EXCEPT ![t] = [task[t] EXCEPT !.archived = "new"]]
             /\ touched \subseteq touched' /\ UNCHANGED <<lostTasks, pass>>
             /\ task[t].status \notin TERMINAL_STATUSES => t \in touched'
  BY <1>0, <1>7 DEF Archive
<1>8. ASSUME Unarchive(t)
      PROVE  /\ task' = [task EXCEPT ![t] = [task[t] EXCEPT !.archived = "no"]]
             /\ UNCHANGED <<touched, lostTasks, pass>>
  BY <1>0, <1>8 DEF Unarchive
<1>9. ASSUME Rerun(t)
      PROVE  /\ task' = [task EXCEPT ![t] = [task[t] EXCEPT !.status = "queued"]]
             /\ touched \subseteq touched' /\ UNCHANGED <<lostTasks, pass>>
             /\ task[t].archived # "no" \/ Selected(t) => t \in touched'
  BY <1>0, <1>9 DEF Rerun
<1>10. ASSUME Claimed(t)
       PROVE  /\ task' = [task EXCEPT ![t] = [task[t] EXCEPT !.status = "running"]]
              /\ task[t].status = "queued" /\ UNCHANGED <<touched, lostTasks, pass>>
  BY <1>0, <1>10 DEF Claimed
<1>11. CASE \E s \in TERMINAL_STATUSES : TaskEnds(t, s)
  <2>1. PICK s \in {"succeeded", "failed"} :
          /\ task' = [task EXCEPT ![t] = [task[t] EXCEPT !.status = s]]
          /\ UNCHANGED <<touched, lostTasks, pass>>
    BY <1>5, <1>11
  <2>2. task'[t].status = s /\ task' \in [TaskIds -> TaskRow]
        /\ \A x \in TaskIds : x # t => task'[x] = task[x]
    BY <1>1, <1>2, <2>1
  <2> QED
    BY <2>1, <2>2 DEF Unfinished
<1>12. CASE Ages(t)
  <2>1. /\ task'[t].status = task[t].status /\ task' \in [TaskIds -> TaskRow]
        /\ task'[t].archived # "no" => task[t].archived # "no"
        /\ \A x \in TaskIds : x # t => task'[x] = task[x]
    BY <1>1, <1>3, <1>4, <1>6, <1>12
  <2> QED
    BY <1>6, <1>12, <2>1 DEF Unfinished
<1>13. CASE Archive(t)
  <2>1. /\ task'[t].status = task[t].status /\ task' \in [TaskIds -> TaskRow]
        /\ \A x \in TaskIds : x # t => task'[x] = task[x]
    BY <1>1, <1>3, <1>7, <1>13
  <2> QED
    BY <1>7, <1>13, <2>1 DEF Unfinished, TERMINAL_STATUSES
<1>14. CASE Unarchive(t)
  <2>1. /\ task'[t].status = task[t].status /\ task' \in [TaskIds -> TaskRow]
        /\ task'[t].archived = "no"
        /\ \A x \in TaskIds : x # t => task'[x] = task[x]
    BY <1>1, <1>3, <1>8, <1>14
  <2> QED
    BY <1>8, <1>14, <2>1 DEF Unfinished
<1>15. CASE Rerun(t)
  <2>1. /\ task'[t].archived = task[t].archived /\ task' \in [TaskIds -> TaskRow]
        /\ \A x \in TaskIds : x # t => task'[x] = task[x]
    BY <1>1, <1>2, <1>9, <1>15
  <2> QED
    BY <1>9, <1>15, <2>1
<1>16. CASE Claimed(t)
  <2>1. /\ task'[t].archived = task[t].archived /\ task' \in [TaskIds -> TaskRow]
        /\ \A x \in TaskIds : x # t => task'[x] = task[x]
    BY <1>1, <1>2, <1>10, <1>16
  <2> QED
    BY <1>10, <1>16, <2>1 DEF Unfinished
<1> QED
  BY <1>11, <1>12, <1>13, <1>14, <1>15, <1>16 DEF TaskStep

(* What a step of a pass does to the tasks. *)
LEMMA PassTasks ==
    ASSUME HkTypeOK, LiveInv, NEW h \in Replicas, PassStep(h)
    PROVE  /\ task' \in [TaskIds -> TaskRow]
           /\ touched' = touched /\ lostTasks' \subseteq touched
           /\ \A t \in TaskIds :
                 Unfinished(t)' /\ (task'[t].archived # "no" \/ t \in pass'[h].tasks) => t \in touched
           /\ \A t \in TaskIds : Unfinished(t)' => Unfinished(t)
<1>0. /\ task \in [TaskIds -> TaskRow] /\ pass \in [Replicas -> PassState] /\ pass[h] \in PassState
      /\ pass[h].tasks \subseteq TaskIds
      /\ lostTasks \subseteq touched
      /\ \A t \in TaskIds : Unfinished(t) /\ task[t].archived # "no" => t \in touched
      /\ \A t \in TaskIds : Unfinished(t) /\ t \in pass[h].tasks => t \in touched
  BY DEF HkTypeOK, PassType, PassState, LiveInv, LiveTasksSurvive, Selected
<1>1. ASSUME NEW t \in TaskIds
      PROVE  /\ [task[t] EXCEPT !.archived = "new"] \in TaskRow
             /\ [task[t] EXCEPT !.archived = "new"].status = task[t].status
             /\ [task[t] EXCEPT !.status = "deleted"] \in TaskRow
             /\ [task[t] EXCEPT !.status = "deleted"].status = "deleted"
  BY <1>0 DEF TaskRow
<1>2. CASE ArchiveCommit(h)
  <2>1. /\ task' = [t \in TaskIds |-> IF t \in pass[h].tasks
                                     THEN [task[t] EXCEPT !.archived = "new"] ELSE task[t]]
        /\ pass'[h].tasks = {} /\ UNCHANGED <<touched, lostTasks>>
    BY <1>0, <1>2 DEF ArchiveCommit, PassState
  <2>2. task' \in [TaskIds -> TaskRow] /\ \A t \in TaskIds : task'[t].status = task[t].status
    BY <1>0, <1>1, <2>1
  <2>3. \A t \in TaskIds : t \notin pass[h].tasks => task'[t] = task[t]
    BY <2>1
  <2> QED
    BY <1>0, <2>1, <2>2, <2>3 DEF Unfinished
<1>3. CASE DeleteCommit(h)
  <2>1. /\ task' = [t \in TaskIds |-> IF t \in pass[h].tasks
                                     THEN [task[t] EXCEPT !.status = "deleted"] ELSE task[t]]
        /\ pass'[h].tasks = {} /\ touched' = touched
        /\ lostTasks' = lostTasks \cup {t \in pass[h].tasks : task[t].status \in {"queued", "running"}}
    BY <1>0, <1>3 DEF DeleteCommit, PassState
  <2>2. task' \in [TaskIds -> TaskRow]
    BY <1>0, <1>1, <2>1
  <2>3. \A t \in TaskIds : t \notin pass[h].tasks => task'[t] = task[t]
    BY <2>1
  <2>4. \A t \in TaskIds : t \in pass[h].tasks => task'[t].status = "deleted"
    BY <1>1, <2>1
  <2>5. lostTasks' \subseteq touched
    BY <1>0, <2>1 DEF Unfinished
  <2> QED
    BY <1>0, <2>1, <2>2, <2>3, <2>4, <2>5 DEF Unfinished
<1>4. CASE UNCHANGED tasksState /\ \A t \in TaskIds : t \in pass'[h].tasks /\ Unfinished(t) => t \in touched
  BY <1>0, <1>4 DEF tasksState, Unfinished
<1>5. CASE ArchiveSelect(h)
  <2>1. pass'[h].tasks = {t \in TaskIds : Archivable(t)}
    BY <1>0, <1>5 DEF ArchiveSelect, Idle
  <2>2. \A t \in TaskIds : Archivable(t) => ~Unfinished(t)
    BY DEF Archivable, Unfinished, TERMINAL_STATUSES
  <2> QED
    BY <1>4, <1>5, <2>1, <2>2 DEF ArchiveSelect
<1>6. CASE DeleteSelect(h)
  <2>1. pass'[h].tasks = {t \in TaskIds : There(t) /\ task[t].archived = "due"}
    BY <1>0, <1>6 DEF DeleteSelect, PassState
  <2> QED
    BY <1>0, <1>4, <1>6, <2>1 DEF DeleteSelect
<1>7. CASE RecordPass(h) /\ UNCHANGED tasksState
  <2>1. pass'[h].tasks = {}
    BY <1>0, <1>7 DEF RecordPass, Idle
  <2> QED
    BY <1>4, <1>7, <2>1
<1>8. ASSUME UNCHANGED tasksState, pass'[h].tasks = pass[h].tasks
      PROVE  UNCHANGED tasksState /\ \A t \in TaskIds : t \in pass'[h].tasks /\ Unfinished(t) => t \in touched
  BY <1>0, <1>8
<1>9. CASE PruneLearning(h) \/ DeleteRows(h) \/ PruneHistory(h)
  BY <1>0, <1>4, <1>8, <1>9 DEF PruneLearning, DeleteRows, PruneHistory, Goes, PassState
<1>10. CASE ReadSources(h) \/ ReadVersions(h) \/ SelectHistory(h)
  <2>1. CASE ReadSources(h)
    BY <1>0, <1>4, <1>8, <2>1 DEF ReadSources, PassState
  <2>2. CASE ReadVersions(h)
    <3>1. PICK d, k : pass' = [pass EXCEPT ![h].at = "objects", ![h].doomed = d, ![h].keyed = k]
      BY <2>2 DEF ReadVersions
    <3>2. pass'[h].tasks = pass[h].tasks
      BY <1>0, <3>1 DEF PassState
    <3> QED
      BY <1>4, <1>8, <2>2, <3>2 DEF ReadVersions
  <2>3. CASE SelectHistory(h)
    <3>1. PICK r : pass' = [pass EXCEPT ![h].at = "prune", ![h].runs = r]
      BY <2>3 DEF SelectHistory
    <3>2. pass'[h].tasks = pass[h].tasks
      BY <1>0, <3>1 DEF PassState
    <3> QED
      BY <1>4, <1>8, <2>3, <3>2 DEF SelectHistory
  <2> QED
    BY <1>10, <2>1, <2>2, <2>3
<1>11. ASSUME NEW i \in 1..MaxSyncs, DeleteObjects(h, i)
       PROVE  UNCHANGED tasksState /\ pass'[h].tasks = pass[h].tasks
  BY <1>0, <1>11 DEF DeleteObjects, PassState
<1> QED
  BY <1>2, <1>3, <1>4, <1>5, <1>6, <1>7, <1>8, <1>9, <1>10, <1>11
     DEF PassStep, RecordSuccess, PassFails

(* Every step keeps the tasks that nobody touched alive. *)
LEMMA LiveStep ==
    ASSUME HkTypeOK, LiveInv, HkNext
    PROVE  task' \in [TaskIds -> TaskRow] /\ LiveInv'
<1>0. /\ task \in [TaskIds -> TaskRow] /\ lostTasks \subseteq touched
      /\ \A t \in TaskIds : Unfinished(t) /\ task[t].archived # "no" => t \in touched
      /\ \A t \in TaskIds : Unfinished(t) /\ Selected(t) => t \in touched
  BY DEF HkTypeOK, LiveInv, LiveTasksSurvive
<1>1. ASSUME NEW t \in TaskIds, TaskStep(t) PROVE task' \in [TaskIds -> TaskRow] /\ LiveInv'
  <2>1. /\ task' \in [TaskIds -> TaskRow]
        /\ \A x \in TaskIds : x # t => task'[x] = task[x]
        /\ touched \subseteq touched' /\ lostTasks' = lostTasks /\ pass' = pass
        /\ Unfinished(t)' /\ (task'[t].archived # "no" \/ Selected(t)) =>
                \/ t \in touched'
                \/ Unfinished(t) /\ (task[t].archived # "no" \/ Selected(t))
    BY <1>1, TaskEffect
  <2>2. \A x \in TaskIds : Selected(x)' <=> Selected(x)
    BY <2>1 DEF Selected
  <2>3. \A x \in TaskIds : x # t => (Unfinished(x)' <=> Unfinished(x))
    BY <2>1 DEF Unfinished
  <2> QED
    BY <1>0, <2>1, <2>2, <2>3 DEF LiveInv, LiveTasksSurvive
<1>2. ASSUME NEW h \in Replicas, PassStep(h) PROVE task' \in [TaskIds -> TaskRow] /\ LiveInv'
  <2>1. /\ task' \in [TaskIds -> TaskRow]
        /\ touched' = touched /\ lostTasks' \subseteq touched
        /\ \A t \in TaskIds :
                 Unfinished(t)' /\ (task'[t].archived # "no" \/ t \in pass'[h].tasks) => t \in touched
        /\ \A t \in TaskIds : Unfinished(t)' => Unfinished(t)
    BY <1>2, PassTasks
  <2>2. \A g \in Replicas : g # h => pass'[g] = pass[g]
    BY <1>2, PassStepType
  <2>3. \A t \in TaskIds : Selected(t)' => Selected(t) \/ t \in pass'[h].tasks
    BY <2>2 DEF Selected
  <2> QED
    BY <1>0, <2>1, <2>3 DEF LiveInv, LiveTasksSurvive
<1>3. ASSUME UNCHANGED tasksState, \A h \in Replicas : pass'[h].tasks = pass[h].tasks
      PROVE  task' \in [TaskIds -> TaskRow] /\ LiveInv'
  BY <1>0, <1>3 DEF tasksState, LiveInv, LiveTasksSurvive, Unfinished, Selected
<1>4. ASSUME NEW c \in Commits, SyncBegins(c) PROVE task' \in [TaskIds -> TaskRow] /\ LiveInv'
  BY <1>3, <1>4, BegunType DEF SyncBegins
<1>5. ASSUME NEW i \in 1..MaxSyncs, SyncFails(i) \/ SyncPromotes(i) \/ SyncSkips(i)
      PROVE  task' \in [TaskIds -> TaskRow] /\ LiveInv'
  BY <1>3, <1>5 DEF SyncFails, SyncPromotes, SyncSkips
<1>6. ASSUME NEW u \in Units, UnitAges(u) PROVE task' \in [TaskIds -> TaskRow] /\ LiveInv'
  BY <1>3, <1>6 DEF UnitAges
<1> QED
  BY <1>1, <1>2, <1>4, <1>5, <1>6, HkSteps

(* A pass deletes an unfinished task only when an operator touched it.     *)
LEMMA LiveTypes == ASSUME HkTypeOK, HkNext, LiveInv, SourceType' PROVE HkTypeOK' /\ LiveInv'
  BY LiveStep, PassTypeStep DEF HkTypeOK

-----------------------------------------------------------------------------
(* Versions. *)

(* The rows newer than one are finitely many. *)
LEMMA NewerFinite ==
    ASSUME SourceType, NEW i
    PROVE  IsFiniteSet(Newer(i)) /\ Cardinality(Newer(i)) \in Nat
<1>1. Len(version) \in Nat
  BY DEF SourceType
<1>2. IsFiniteSet(1..Len(version))
  BY <1>1, FS_Interval
<1>3. Newer(i) \in SUBSET (1..Len(version))
  BY DEF Newer, VersionRows
<1>4. IsFiniteSet(Newer(i))
  BY <1>2, <1>3, FS_Subset
<1> QED
  BY <1>4, FS_CardinalityType

(* A row among the newest n has fewer than n newer ones. *)
LEMMA NewestIsNewest ==
    ASSUME SourceType, NEW i \in VersionRows
    PROVE  /\ i \in NewestRows(1) <=> Newer(i) = {}
           /\ \A n \in Nat : i \in NewestRows(n) <=> Cardinality(Newer(i)) < n
<1>1. \A n : i \in NewestRows(n) <=> Cardinality(Newer(i)) < n
  BY DEF NewestRows, Newer
<1>2. IsFiniteSet(Newer(i)) /\ Cardinality(Newer(i)) \in Nat
  BY NewerFinite
<1>3. Cardinality(Newer(i)) < 1 <=> Newer(i) = {}
  BY <1>2, FS_EmptySet
<1> QED
  BY <1>1, <1>3

(* Where there are rows, one is the newest. *)
LEMMA NewestExists ==
    ASSUME SourceType, NEW i \in VersionRows
    PROVE  \E m \in VersionRows : /\ Newer(m) = {}
                                /\ \A j \in VersionRows : Newer(j) # {} => m \in Newer(j)
<1>1. Len(version) \in Nat /\ VersionRows \in SUBSET (1..Len(version)) /\ VersionRows # {}
  BY DEF SourceType, VersionRows
<1>2. PICK m \in VersionRows : \A j \in VersionRows : j <= m
  BY <1>1, Largest
<1>3. \A j \in VersionRows : j \in Nat
  BY <1>1
<1>4. Newer(m) = {}
  BY <1>2, <1>3 DEF Newer
<1>5. ASSUME NEW j \in VersionRows, Newer(j) # {} PROVE m \in Newer(j)
  <2>1. PICK k \in VersionRows : k > j
    BY <1>5 DEF Newer
  <2> QED
    BY <1>2, <1>3, <2>1 DEF Newer
<1> QED
  BY <1>4, <1>5

(* The newest row is none that a pass deletes. *)
LEMMA NewestSafe ==
    ASSUME KeptInv, NEW i \in VersionRows, Newer(i) = {}
    PROVE  ~Doomed(i) /\ ~Damaged(i)
  BY DEF KeptInv, Outdated

(* The status of one row changes. *)
LEMMA SetStatus ==
    ASSUME SourceType, NEW i \in 1..Len(version),
           NEW s \in {"running", "failed", "succeeded", "deleted"},
           version' = [version EXCEPT ![i].status = s]
    PROVE  /\ version' \in Seq(VersionRow) /\ Len(version') = Len(version)
           /\ \A j \in 1..Len(version) : version'[j].commit = version[j].commit
           /\ version'[i].status = s
           /\ \A j \in 1..Len(version) : j # i => version'[j] = version[j]
<1>0. version \in Seq(VersionRow) /\ version[i] \in VersionRow
  BY DEF SourceType
<1> DEFINE y == [version[i] EXCEPT !.status = s]
<1>1. y \in VersionRow /\ y.status = s /\ y.commit = version[i].commit
  BY <1>0 DEF VersionRow
<1>2. version' = [version EXCEPT ![i] = y]
  OBVIOUS
<1> HIDE DEF y
<1> QED
  BY <1>0, <1>1, <1>2

(* Several rows get a status. *)
LEMMA SetStatuses ==
    ASSUME SourceType, NEW R, NEW s \in {"running", "failed", "succeeded", "deleted"},
           version' = [i \in 1..Len(version) |-> IF i \in R THEN [version[i] EXCEPT !.status = s]
                                                ELSE version[i]]
    PROVE  /\ version' \in Seq(VersionRow) /\ Len(version') = Len(version)
           /\ \A j \in 1..Len(version) :
                 /\ version'[j].commit = version[j].commit
                 /\ j \in R => version'[j].status = s
                 /\ j \notin R => version'[j] = version[j]
<1>0. version \in Seq(VersionRow) /\ Len(version) \in Nat
  BY DEF SourceType
<1>1. ASSUME NEW j \in 1..Len(version)
      PROVE  /\ [version[j] EXCEPT !.status = s] \in VersionRow
             /\ [version[j] EXCEPT !.status = s].status = s
             /\ [version[j] EXCEPT !.status = s].commit = version[j].commit
             /\ version[j] \in VersionRow
  <2>1. version[j] \in VersionRow
    BY <1>0
  <2> QED
    BY <2>1 DEF VersionRow
<1> DEFINE f(j) == IF j \in R THEN [version[j] EXCEPT !.status = s] ELSE version[j]
<1>2. \A j \in 1..Len(version) : /\ f(j) \in VersionRow /\ f(j).commit = version[j].commit
                                 /\ j \in R => f(j).status = s
                                 /\ j \notin R => f(j) = version[j]
  BY <1>1
<1>3. version' = [j \in 1..Len(version) |-> f(j)]
  OBVIOUS
<1> HIDE DEF f
<1>4. version' \in Seq(VersionRow) /\ Len(version') = Len(version)
  BY <1>0, <1>2, <1>3
<1> QED
  BY <1>2, <1>3, <1>4

(* A row is added. *)
LEMMA AddRow ==
    ASSUME SourceType, NEW c \in Commits, version' = Append(version, [commit |-> c, status |-> "running"])
    PROVE  /\ version' \in Seq(VersionRow) /\ Len(version') = Len(version) + 1
           /\ version'[Len(version) + 1].commit = c
           /\ version'[Len(version) + 1].status = "running"
           /\ \A j \in 1..Len(version) : version'[j] = version[j]
<1> DEFINE y == [commit |-> c, status |-> "running"]
<1>1. y \in VersionRow /\ y.commit = c /\ y.status = "running"
  BY DEF VersionRow
<1>2. version \in Seq(VersionRow) /\ version' = Append(version, y)
  BY DEF SourceType
<1> HIDE DEF y
<1> QED
  BY <1>1, <1>2

(* Every step keeps the types of the source. *)
LEMMA SourceTypeStep == ASSUME HkTypeOK, HkNext PROVE SourceType'
<1>0. /\ version \in Seq(VersionRow) /\ objects \in [Commits -> {"none", "whole", "torn"}]
      /\ currentId \in 0..Len(version) /\ SourceType /\ Len(version) \in Nat
  BY DEF HkTypeOK, SourceType
<1>1. CASE UNCHANGED <<currentId, version, objects>>
  BY <1>0, <1>1 DEF SourceType
<1>2. ASSUME NEW c \in Commits, SyncBegins(c) PROVE SourceType'
  <2>1. UNCHANGED <<currentId, objects>>
    BY <1>2 DEF SyncBegins
  <2>2. version' \in Seq(VersionRow) /\ Len(version') >= Len(version)
    <3>1. CASE RowOf(c) = {}
      BY <1>0, <1>2, <3>1, AddRow DEF SyncBegins
    <3>2. CASE RowOf(c) # {}
      <4> DEFINE R == RowOf(c)
      <4>1. version' = [i \in 1..Len(version) |->
                           IF i \in R THEN [version[i] EXCEPT !.status = "running"] ELSE version[i]]
        BY <1>2, <3>2 DEF SyncBegins
      <4> HIDE DEF R
      <4>2. version' \in Seq(VersionRow) /\ Len(version') = Len(version)
        BY <1>0, <4>1, SetStatuses, Zenon
      <4> QED
        BY <1>0, <4>2
    <3> QED
      BY <3>1, <3>2
  <2> QED
    BY <1>0, <2>1, <2>2 DEF SourceType
<1>3. ASSUME NEW i \in 1..MaxSyncs, SyncFails(i) PROVE SourceType'
  <2>1. i \in 1..Len(version) /\ version' = [version EXCEPT ![i].status = "failed"]
        /\ UNCHANGED <<currentId, objects>>
    BY <1>3 DEF SyncFails, Row
  <2> QED
    BY <1>0, <2>1, SetStatus DEF SourceType
<1>4. ASSUME NEW i \in 1..MaxSyncs, SyncPromotes(i) PROVE SourceType'
  <2>1. i \in 1..Len(version) /\ version' = [version EXCEPT ![i].status = "succeeded"]
        /\ currentId' = i /\ objects' = [objects EXCEPT ![version[i].commit] = "whole"]
    BY <1>4 DEF SyncPromotes, Row
  <2>2. objects' \in [Commits -> {"none", "whole", "torn"}]
    BY <1>0, <2>1
  <2>3. version' \in Seq(VersionRow) /\ Len(version') = Len(version)
    BY <1>0, <2>1, SetStatus
  <2> QED
    BY <1>0, <2>1, <2>2, <2>3 DEF SourceType
<1>5. ASSUME NEW i \in 1..MaxSyncs, SyncSkips(i) PROVE SourceType'
  BY <1>0, <1>5 DEF SyncSkips, Row, SourceType
<1>6. ASSUME NEW h \in Replicas, NEW i \in 1..MaxSyncs, DeleteObjects(h, i) PROVE SourceType'
  <2>1. UNCHANGED <<currentId, version>>
    BY <1>6 DEF DeleteObjects
  <2>2. \/ objects' = objects \/ objects' = [objects EXCEPT ![version[i].commit] = "none"]
        \/ objects' = [objects EXCEPT ![version[i].commit] = IF @ = "whole" THEN "torn" ELSE @]
    BY <1>6 DEF DeleteObjects
  <2>3. objects' \in [Commits -> {"none", "whole", "torn"}]
    BY <1>0, <2>2
  <2> QED
    BY <1>0, <2>1, <2>3 DEF SourceType
<1>7. ASSUME NEW h \in Replicas, DeleteRows(h) PROVE SourceType'
  <2>1. version' \in Seq(VersionRow) /\ Len(version') = Len(version)
    BY <1>0, <1>7, SetStatuses DEF DeleteRows
  <2>2. currentId' \in {NoVersionRow, currentId} /\ objects' = objects
    BY <1>7 DEF DeleteRows
  <2> QED
    BY <1>0, <2>1, <2>2 DEF SourceType, NoVersionRow
<1>8. ASSUME NEW h \in Replicas, PassStep(h), ~DeleteRows(h),
             \A i \in 1..MaxSyncs : ~DeleteObjects(h, i)
      PROVE  SourceType'
  <2>1. UNCHANGED <<currentId, version, objects>>
    BY <1>8 DEF PassStep, ArchiveSelect, ArchiveCommit, DeleteSelect, DeleteCommit,
         PruneLearning, ReadSources, ReadVersions, SelectHistory, PruneHistory,
         RecordSuccess, PassFails, sourceState
  <2> QED
    BY <1>1, <2>1
<1>9. ASSUME NEW t \in TaskIds, TaskStep(t) PROVE SourceType'
  <2>1. UNCHANGED sourceState
    BY <1>9 DEF TaskStep, Ages, Archive, Unarchive, Rerun, Claimed, TaskEnds
  <2> QED
    BY <1>1, <2>1 DEF sourceState
<1>10. ASSUME NEW u \in Units, UnitAges(u) PROVE SourceType'
  BY <1>1, <1>10 DEF UnitAges, sourceState
<1> QED
  BY <1>2, <1>3, <1>4, <1>5, <1>6, <1>7, <1>8, <1>9, <1>10, HkSteps

(* The pass (delete_archived_tasks, archive_old_tasks) deletes an          *)
(* unfinished task only when an operator archived it unfinished, or reran  *)
(* it while it was archived or selected.                                   *)
THEOREM LiveTasksAreKept == HkSpec => []LiveTasksSurvive
<1>1. HkInit => HkTypeOK /\ LiveInv
  BY InitHk
<1>2. HkTypeOK /\ LiveInv /\ [HkNext]_hkVars => (HkTypeOK /\ LiveInv)'
  <2>1. ASSUME HkTypeOK, LiveInv, HkNext PROVE (HkTypeOK /\ LiveInv)'
    BY <2>1, SourceTypeStep, LiveTypes
  <2>2. ASSUME HkTypeOK, LiveInv, UNCHANGED hkVars PROVE (HkTypeOK /\ LiveInv)'
    <3>1. HkTypeOK'
      BY <2>2 DEF HkTypeOK, PassType, SourceType, hkVars, tasksState, sourceState, historyState
    <3>2. LiveInv'
      BY <2>2 DEF LiveInv, LiveTasksSurvive, Unfinished, Selected, hkVars, tasksState
    <3> QED
      BY <3>1, <3>2
  <2> QED
    BY <2>1, <2>2
<1>3. LiveInv => LiveTasksSurvive
  BY DEF LiveInv
<1> QED
  BY <1>1, <1>2, <1>3, PTL DEF HkSpec

(* Rows that are neither added nor deleted: the newer rows are the same. *)
LEMMA SameRows ==
    ASSUME Len(version') = Len(version),
           \A j \in 1..Len(version) : version'[j].status = "deleted" <=> version[j].status = "deleted"
    PROVE  VersionRows' = VersionRows /\ \A i : Newer(i)' = Newer(i)
<1>1. VersionRows' = VersionRows
  BY DEF VersionRows, Row
<1> QED
  BY <1>1 DEF Newer

(* A step that leaves the source alone and dooms no further version. *)
LEMMA KeptStill ==
    ASSUME KeptInv, UNCHANGED <<currentId, version, objects, indexed>>,
           \A h \in Replicas : pass'[h].doomed \cup pass'[h].rows \subseteq pass[h].doomed \cup pass[h].rows,
           \A h \in Replicas : Watched(h)'
    PROVE  KeptInv'
<1>1. \A i : /\ Row(i)' <=> Row(i)
             /\ Doomed(i)' => Doomed(i)
             /\ Damaged(i)' <=> Damaged(i)
  BY DEF Row, Doomed, Damaged
<1>2. VersionRows' = VersionRows /\ \A i : Newer(i)' = Newer(i)
  BY SameRows
<1>3. \A i \in VersionRows : (Doomed(i) \/ Damaged(i) => Outdated(i))'
  BY <1>1, <1>2 DEF KeptInv, Outdated
<1> QED
  BY <1>1, <1>2, <1>3 DEF KeptInv

(* A new version of a commit that no row has had. *)
LEMMA KeptNewRow ==
    ASSUME HkTypeOK, KeptInv, NEW c \in Commits, SyncBegins(c), RowOf(c) = {}, ~excused'
    PROVE  KeptInv'
<1>0. SourceType /\ Len(version) \in Nat /\ currentId \in 0..Len(version)
  BY DEF HkTypeOK, SourceType
<1>1. PICK n \in Nat : n = Len(version) + 1
  BY <1>0
<1>2. /\ Len(version') = n /\ version'[n].commit = c /\ version'[n].status = "running"
      /\ \A j \in 1..Len(version) : version'[j] = version[j]
  BY <1>0, <1>1, AddRow DEF SyncBegins
<1>3. UNCHANGED <<currentId, objects, indexed>> /\ ~Seen(c)
  BY DEF SyncBegins, ComesBack
<1>4. \A h \in Replicas :
         /\ pass'[h].at = pass[h].at /\ pass'[h].cur = pass[h].cur
         /\ pass'[h].doomed = pass[h].doomed /\ pass'[h].rows = pass[h].rows
         /\ pass'[h].begun = IF pass[h].at = "versions" /\ pass[h].begun < Keep
                             THEN pass[h].begun + 1 ELSE pass[h].begun
  BY BegunType
<1>5. /\ \A i \in 1..Len(version) : Row(i)' <=> Row(i)
      /\ Row(n)'
  BY <1>0, <1>1, <1>2 DEF Row
<1>6. VersionRows' = VersionRows \cup {n} /\ 1..n = 1..Len(version) \cup {n}
  BY <1>0, <1>1, <1>2, <1>5 DEF VersionRows
<1>7. \A i \in 1..Len(version) : Newer(i)' = Newer(i) \cup {n}
  BY <1>0, <1>1, <1>6 DEF Newer
<1>8. Newer(n)' = {}
  <2>1. \A j \in VersionRows \cup {n} : ~(j > n)
    BY <1>0, <1>1 DEF VersionRows
  <2> QED
    BY <1>6, <2>1 DEF Newer
<1>9. /\ \A i : Doomed(i)' <=> Doomed(i)
      /\ ~Doomed(n)
  <2>1. \A i : Doomed(i)' <=> Doomed(i)
    BY <1>4 DEF Doomed
  <2>2. n \notin 1..Len(version)
    BY <1>0, <1>1
  <2> QED
    BY <2>1, <2>2 DEF Doomed, KeptInv
<1>10. ~Damaged(n)'
  BY <1>2 DEF Damaged
<1>11. \A h \in Replicas : (pass[h].doomed \cup pass[h].rows \subseteq 1..Len(version))'
  <2>1. 1..Len(version) \subseteq 1..n
    BY <1>0, <1>1
  <2> QED
    BY <1>2, <1>4, <2>1 DEF KeptInv
<1>12. (\A i, j \in 1..Len(version) : version[i].commit = version[j].commit => i = j)'
  <2>1. \A i, j \in 1..Len(version) : version[i].commit = version[j].commit => i = j
    BY DEF KeptInv
  <2>2. \A i \in 1..Len(version) : version'[i].commit # c
    BY <1>2, <1>3 DEF Seen
  <2> QED
    BY <1>2, <1>6, <2>1, <2>2
<1>13. (\A i \in VersionRows : Doomed(i) \/ Damaged(i) => Outdated(i))'
  <2>1. \A i \in 1..Len(version) : Outdated(i)'
    BY <1>7, <1>9 DEF Outdated
  <2>2. VersionRows \subseteq 1..Len(version)
    BY DEF VersionRows
  <2> QED
    BY <1>6, <1>9, <1>10, <2>1, <2>2
<1>14. (\A i \in VersionRows : version[i].status = "running" => Newer(i) = {})'
  BY <1>2, <1>6, <1>8 DEF SyncBegins, Quiet, VersionRows
<1>15. (IF currentId = NoVersionRow THEN ~indexed
        ELSE /\ Row(currentId) /\ version[currentId].status = "succeeded"
             /\ ~Doomed(currentId) /\ ~Damaged(currentId))'
  <2>1. CASE currentId = NoVersionRow
    BY <1>3, <2>1 DEF KeptInv
  <2>2. CASE currentId # NoVersionRow
    <3>1. /\ currentId \in 1..Len(version) /\ version[currentId].status = "succeeded"
          /\ ~Doomed(currentId) /\ ~Damaged(currentId) /\ Row(currentId)
      BY <2>2 DEF KeptInv, Row
    <3>2. PICK k \in 1..Len(version) : k = currentId
      BY <3>1
    <3>3. Row(k)' /\ version'[k].status = "succeeded" /\ ~Doomed(k)' /\ ~Damaged(k)'
      BY <1>2, <1>3, <1>5, <1>9, <3>1, <3>2 DEF Damaged
    <3> QED
      BY <1>3, <2>2, <3>2, <3>3
  <2> QED
    BY <2>1, <2>2
<1>16. ASSUME NEW h \in Replicas PROVE Watched(h)'
  <2>1. CASE pass[h].at # "versions" \/ currentId \in {NoVersionRow, pass[h].cur}
    BY <1>3, <1>4, <2>1 DEF Watched, KeptInv
  <2>2. CASE pass[h].at = "versions" /\ currentId \notin {NoVersionRow, pass[h].cur}
    <3>0. pass[h].begun \in Nat /\ Keep \in Nat
      BY HousekeepingAssumptions DEF HkTypeOK, PassType, PassState
    <3>1. pass[h].begun >= Keep \/ Cardinality(Newer(currentId)) <= pass[h].begun
      BY <2>2 DEF KeptInv, Watched
    <3>2. currentId \in 1..Len(version)
      BY <1>0, <2>2 DEF NoVersionRow
    <3>3. PICK k \in 1..Len(version) : k = currentId
      BY <3>2
    <3>4. IsFiniteSet(Newer(k)) /\ Cardinality(Newer(k)) \in Nat
      BY <1>0, NewerFinite
    <3>5. Cardinality(Newer(k)') <= Cardinality(Newer(k)) + 1 /\ Cardinality(Newer(k)') \in Nat
      <4>1. Newer(k)' = Newer(k) \cup {n}
        BY <1>7
      <4>2. /\ Cardinality(Newer(k) \cup {n}) = IF n \in Newer(k) THEN Cardinality(Newer(k))
                                                ELSE Cardinality(Newer(k)) + 1
        BY <3>4, FS_AddElement, Zenon
      <4> QED
        BY <3>4, <4>1, <4>2
    <3>6. CASE pass[h].begun >= Keep
      BY <1>4, <3>0, <3>6 DEF Watched
    <3>7. CASE pass[h].begun < Keep /\ Cardinality(Newer(k)) <= pass[h].begun
      <4>1. Cardinality(Newer(k)') <= pass'[h].begun
        BY <1>4, <2>2, <3>0, <3>4, <3>5, <3>7
      <4> QED
        BY <1>3, <3>3, <4>1 DEF Watched
    <3> QED
      BY <3>0, <3>1, <3>3, <3>6, <3>7
  <2> QED
    BY <2>1, <2>2
<1> QED
  BY <1>11, <1>12, <1>13, <1>14, <1>15, <1>16 DEF KeptInv

(* The rows, the commits and the pointer stay; only statuses and objects   *)
(* of rows that are not pointed to change.                                 *)
LEMMA KeptRows ==
    ASSUME HkTypeOK, KeptInv, Len(version') = Len(version),
           \A j \in 1..Len(version) :
               /\ version'[j].commit = version[j].commit
               /\ version'[j].status = "deleted" <=> version[j].status = "deleted"
               /\ Row(j) => (Damaged(j)' => Damaged(j) \/ Doomed(j))
               /\ version'[j].status = "running" /\ Row(j) => Newer(j) = {},
           \A h \in Replicas : pass'[h].doomed \cup pass'[h].rows \subseteq pass[h].doomed \cup pass[h].rows,
           IF currentId' = NoVersionRow THEN ~indexed'
           ELSE /\ Row(currentId') /\ version'[currentId'].status = "succeeded"
                /\ ~Doomed(currentId') /\ ~Damaged(currentId)',
           \A h \in Replicas : Watched(h)'
    PROVE  KeptInv'
<1>1. VersionRows' = VersionRows /\ \A i : Newer(i)' = Newer(i)
  BY SameRows
<1>2. \A i : Doomed(i)' => Doomed(i)
  BY DEF Doomed
<1>3. \A i \in VersionRows : i \in 1..Len(version) /\ Row(i)
  BY DEF VersionRows
<1>4. (\A i \in VersionRows : Doomed(i) \/ Damaged(i) => Outdated(i))'
  <2>1. \A i \in VersionRows : Doomed(i)' \/ Damaged(i)' => Outdated(i)
    BY <1>2, <1>3 DEF KeptInv
  <2> QED
    BY <1>1, <1>2, <2>1 DEF Outdated
<1>5. (\A i \in VersionRows : version[i].status = "running" => Newer(i) = {})'
  BY <1>1, <1>3
<1>6. (\A i, j \in 1..Len(version) : version[i].commit = version[j].commit => i = j)'
  BY DEF KeptInv
<1>7. \A h \in Replicas : (pass[h].doomed \cup pass[h].rows \subseteq 1..Len(version))'
  BY DEF KeptInv
<1>8. (IF currentId = NoVersionRow THEN ~indexed
       ELSE /\ Row(currentId) /\ version[currentId].status = "succeeded"
            /\ ~Doomed(currentId) /\ ~Damaged(currentId))'
  <2>1. CASE currentId' = NoVersionRow
    BY <2>1
  <2>2. CASE currentId' # NoVersionRow
    <3>1. PICK k : k = currentId'
      OBVIOUS
    <3>2. Row(k) /\ version'[k].status = "succeeded" /\ ~Doomed(k) /\ ~Damaged(currentId)'
      BY <2>2, <3>1
    <3>3. Row(k)'
      BY <3>2 DEF Row
    <3>4. Row(currentId)' /\ ~Doomed(currentId)'
      BY <1>2, <3>1, <3>2, <3>3 DEF Row, Doomed
    <3> QED
      BY <2>2, <3>1, <3>2, <3>4
  <2> QED
    BY <2>1, <2>2
<1> QED
  BY <1>4, <1>5, <1>6, <1>7, <1>8 DEF KeptInv

(* The rows of a commit are one at most. *)
LEMMA OneRowOf ==
    ASSUME KeptInv, NEW c, NEW i \in RowOf(c)
    PROVE  RowOf(c) = {i} /\ i \in 1..Len(version) /\ Row(i) /\ version[i].commit = c
  BY DEF KeptInv, RowOf, VersionRows

(* The row of a failed attempt is taken up again. *)
LEMMA KeptRetry ==
    ASSUME HkTypeOK, KeptInv, NEW c \in Commits, SyncBegins(c), RowOf(c) # {}, ~excused'
    PROVE  KeptInv'
<1>0. SourceType /\ Len(version) \in Nat /\ currentId \in 0..Len(version)
  BY DEF HkTypeOK, SourceType
<1>1. PICK i \in RowOf(c) : i \in NewestRows(1)
  BY DEF SyncBegins, ComesBack, Seen, RowOf, VersionRows
<1>2. RowOf(c) = {i} /\ i \in 1..Len(version) /\ Row(i) /\ version[i].commit = c
  BY OneRowOf
<1>3. Newer(i) = {} /\ i \in VersionRows /\ version[i].status = "failed"
  <2>1. i \in VersionRows /\ version[i].status = "failed"
    BY DEF RowOf, SyncBegins
  <2> QED
    BY <1>0, <1>1, <2>1, NewestIsNewest
<1>4. /\ Len(version') = Len(version)
      /\ \A j \in 1..Len(version) :
            /\ version'[j].commit = version[j].commit
            /\ j \in {i} => version'[j].status = "running"
            /\ j \notin {i} => version'[j] = version[j]
  <2> DEFINE R == {i}
  <2>1. version' = [j \in 1..Len(version) |->
                       IF j \in R THEN [version[j] EXCEPT !.status = "running"] ELSE version[j]]
    BY <1>2 DEF SyncBegins
  <2> HIDE DEF R
  <2>2. /\ Len(version') = Len(version)
        /\ \A j \in 1..Len(version) :
              /\ version'[j].commit = version[j].commit
              /\ j \in R => version'[j].status = "running"
              /\ j \notin R => version'[j] = version[j]
    BY <1>0, <2>1, SetStatuses, Zenon
  <2> QED
    BY <2>2 DEF R
<1>5. UNCHANGED <<currentId, objects, indexed>>
  BY DEF SyncBegins
<1>6. \A h \in Replicas :
         /\ pass'[h].at = pass[h].at /\ pass'[h].cur = pass[h].cur
         /\ pass'[h].doomed = pass[h].doomed /\ pass'[h].rows = pass[h].rows
         /\ pass'[h].begun = IF pass[h].at = "versions" /\ pass[h].begun < Keep
                             THEN pass[h].begun + 1 ELSE pass[h].begun
  BY BegunType
<1>7. VersionRows' = VersionRows /\ \A j : Newer(j)' = Newer(j)
  BY <1>3, <1>4, SameRows
<1>8. ASSUME NEW j \in 1..Len(version)
      PROVE  /\ version'[j].commit = version[j].commit
             /\ version'[j].status = "deleted" <=> version[j].status = "deleted"
             /\ Row(j) => (Damaged(j)' => Damaged(j) \/ Doomed(j))
             /\ version'[j].status = "running" /\ Row(j) => Newer(j) = {}
  BY <1>3, <1>4, <1>5 DEF Damaged, SyncBegins, Quiet, VersionRows
<1>9. IF currentId' = NoVersionRow THEN ~indexed'
      ELSE /\ Row(currentId') /\ version'[currentId'].status = "succeeded"
           /\ ~Doomed(currentId') /\ ~Damaged(currentId)'
  <2>1. CASE currentId = NoVersionRow
    BY <1>5, <2>1 DEF KeptInv
  <2>2. CASE currentId # NoVersionRow
    <3>1. /\ Row(currentId) /\ version[currentId].status = "succeeded"
          /\ ~Doomed(currentId) /\ ~Damaged(currentId) /\ currentId \in 1..Len(version)
      BY <2>2 DEF KeptInv, Row
    <3>2. version'[currentId] = version[currentId]
      BY <1>3, <1>4, <3>1
    <3> QED
      BY <1>5, <2>2, <3>1, <3>2 DEF Damaged
  <2> QED
    BY <2>1, <2>2
<1>10. ASSUME NEW h \in Replicas PROVE Watched(h)'
  <2>1. pass[h].begun \in Nat /\ Keep \in Nat
    BY HousekeepingAssumptions DEF HkTypeOK, PassType, PassState
  <2>2. Cardinality(Newer(currentId)) \in Nat
    BY <1>0, NewerFinite
  <2>3. Newer(currentId)' = Newer(currentId)
    BY <1>5, <1>7 DEF Newer
  <2>4. pass'[h].begun \in Nat /\ pass'[h].begun >= pass[h].begun
    BY <1>6, <2>1
  <2>5. Watched(h)
    BY DEF KeptInv
  <2> QED
    BY <1>5, <1>6, <2>1, <2>2, <2>3, <2>4, <2>5 DEF Watched
<1>11. \A h \in Replicas : pass'[h].doomed \cup pass'[h].rows \subseteq pass[h].doomed \cup pass[h].rows
  BY <1>6
<1> QED
  BY <1>4, <1>8, <1>9, <1>10, <1>11, KeptRows

(* A sync fails, or is promoted. *)
LEMMA KeptEnds ==
    ASSUME HkTypeOK, KeptInv, NEW i \in 1..MaxSyncs, SyncFails(i) \/ SyncPromotes(i)
    PROVE  KeptInv'
<1>0. /\ SourceType /\ Len(version) \in Nat /\ currentId \in 0..Len(version)
      /\ objects \in [Commits -> {"none", "whole", "torn"}]
      /\ \A j \in 1..Len(version) : version[j].commit \in Commits
  <2>1. SourceType /\ version \in Seq(VersionRow)
    BY DEF HkTypeOK, SourceType
  <2>2. \A j \in 1..Len(version) : version[j] \in VersionRow
    BY <2>1
  <2>3. \A j \in 1..Len(version) : version[j].commit \in Commits
    BY <2>2 DEF VersionRow
  <2> QED
    BY <2>1, <2>3 DEF SourceType
<1>1. i \in 1..Len(version) /\ Row(i) /\ i \in VersionRows /\ version[i].status = "running"
  BY DEF SyncFails, SyncPromotes, Row, VersionRows
<1>2. Newer(i) = {} /\ ~Doomed(i)
  <2>1. Newer(i) = {}
    BY <1>1 DEF KeptInv
  <2> QED
    BY <1>1, <2>1, NewestSafe
<1>3. PICK s \in {"failed", "succeeded"} : version' = [version EXCEPT ![i].status = s]
  BY DEF SyncFails, SyncPromotes
<1>4. /\ Len(version') = Len(version) /\ version'[i].status = s
      /\ \A j \in 1..Len(version) : version'[j].commit = version[j].commit
      /\ \A j \in 1..Len(version) : j # i => version'[j] = version[j]
  BY <1>0, <1>1, <1>3, SetStatus
<1>5. pass' = pass /\ VersionRows' = VersionRows /\ \A j : Newer(j)' = Newer(j)
  BY <1>1, <1>4, SameRows DEF SyncFails, SyncPromotes
<1>6. \A j \in 1..Len(version) : j # i => version[j].commit # version[i].commit
  BY <1>1 DEF KeptInv
<1>7. /\ \A j \in 1..Len(version) : j # i => objects'[version[j].commit] = objects[version[j].commit]
      /\ SyncPromotes(i) => objects'[version[i].commit] = "whole"
      /\ SyncFails(i) => s = "failed" /\ objects' = objects
      /\ SyncPromotes(i) => s = "succeeded"
  <2>1. CASE SyncFails(i)
    <3>1. version' = [version EXCEPT ![i].status = "failed"] /\ objects' = objects
      BY <2>1 DEF SyncFails
    <3>2. version'[i].status = "failed"
      BY <1>0, <1>1, <3>1, SetStatus
    <3>3. ~SyncPromotes(i)
      <4>1. SUFFICES ASSUME SyncPromotes(i) PROVE FALSE
        OBVIOUS
      <4>2. version' = [version EXCEPT ![i].status = "succeeded"]
        BY <4>1 DEF SyncPromotes
      <4>3. version'[i].status = "succeeded"
        BY <1>0, <1>1, <4>2, SetStatus
      <4> QED
        BY <3>2, <4>3
    <3> QED
      BY <1>4, <3>1, <3>2, <3>3
  <2>2. CASE SyncPromotes(i)
    <3>1. version' = [version EXCEPT ![i].status = "succeeded"]
          /\ objects' = [objects EXCEPT ![version[i].commit] = "whole"]
      BY <2>2 DEF SyncPromotes
    <3>2. version'[i].status = "succeeded"
      BY <1>0, <1>1, <3>1, SetStatus
    <3>3. ~SyncFails(i)
      <4>1. SUFFICES ASSUME SyncFails(i) PROVE FALSE
        OBVIOUS
      <4>2. version' = [version EXCEPT ![i].status = "failed"]
        BY <4>1 DEF SyncFails
      <4>3. version'[i].status = "failed"
        BY <1>0, <1>1, <4>2, SetStatus
      <4> QED
        BY <3>2, <4>3
    <3> QED
      BY <1>0, <1>1, <1>4, <1>6, <3>1, <3>2, <3>3
  <2> QED
    BY <2>1, <2>2
<1>8. ASSUME NEW j \in 1..Len(version)
      PROVE  /\ version'[j].status = "deleted" <=> version[j].status = "deleted"
             /\ Row(j) => (Damaged(j)' => Damaged(j) \/ Doomed(j))
             /\ version'[j].status = "running" /\ Row(j) => Newer(j) = {}
  <2>1. CASE j = i
    BY <1>1, <1>2, <1>4, <1>7, <2>1 DEF Damaged
  <2>2. CASE j # i
    BY <1>4, <1>7, <2>2 DEF Damaged, KeptInv, VersionRows
  <2> QED
    BY <2>1, <2>2
<1>9. IF currentId' = NoVersionRow THEN ~indexed'
      ELSE /\ Row(currentId') /\ version'[currentId'].status = "succeeded"
           /\ ~Doomed(currentId') /\ ~Damaged(currentId)'
  <2>1. CASE SyncFails(i)
    <3>1. UNCHANGED <<currentId, indexed>>
      BY <2>1 DEF SyncFails, ghosts
    <3>2. CASE currentId # NoVersionRow
      <4>1. /\ Row(currentId) /\ version[currentId].status = "succeeded"
            /\ ~Doomed(currentId) /\ ~Damaged(currentId) /\ currentId \in 1..Len(version)
        BY <3>2 DEF KeptInv, Row
      <4>2. version'[currentId'] = version[currentId] /\ objects' = objects
        BY <1>1, <1>4, <1>7, <2>1, <3>1, <4>1
      <4>3. ~Damaged(currentId)'
        BY <3>1, <4>1, <4>2 DEF Damaged
      <4>4. Row(currentId') /\ ~Doomed(currentId') /\ version'[currentId'].status = "succeeded"
        BY <3>1, <4>1, <4>2
      <4> QED
        BY <3>1, <3>2, <4>3, <4>4
    <3> QED
      BY <3>1, <3>2 DEF KeptInv
  <2>2. CASE SyncPromotes(i)
    <3>1. currentId' = i /\ indexed'
      BY <2>2 DEF SyncPromotes
    <3>2. ~Damaged(i)'
      BY <1>1, <1>4, <1>7, <2>2 DEF Damaged
    <3>3. ~Damaged(currentId)'
      BY <3>1, <3>2 DEF Damaged
    <3> QED
      BY <1>1, <1>2, <1>4, <1>7, <2>2, <3>1, <3>3 DEF NoVersionRow
  <2> QED
    BY <2>1, <2>2
<1>10. ASSUME NEW h \in Replicas PROVE Watched(h)'
  <2>1. CASE SyncFails(i)
    <3>1. currentId' = currentId
      BY <2>1 DEF SyncFails
    <3>2. Newer(currentId)' = Newer(currentId)
      BY <1>5, <3>1 DEF Newer
    <3> QED
      BY <1>5, <3>1, <3>2 DEF KeptInv, Watched
  <2>2. CASE SyncPromotes(i)
    <3>1. currentId' = i
      BY <2>2 DEF SyncPromotes
    <3>2. Newer(currentId)' = {}
      BY <1>2, <1>5, <3>1 DEF Newer
    <3>3. Cardinality(Newer(currentId)') = 0
      BY <3>2, FS_EmptySet, Zenon
    <3>4. pass'[h].begun \in Nat
      BY <1>5 DEF HkTypeOK, PassType, PassState
    <3> QED
      BY <3>3, <3>4 DEF Watched
  <2> QED
    BY <2>1, <2>2
<1> QED
  BY <1>4, <1>5, <1>8, <1>9, <1>10, KeptRows

(* The pointer is set to the newest version again. *)
LEMMA KeptSkip ==
    ASSUME HkTypeOK, KeptInv, NEW i \in 1..MaxSyncs, SyncSkips(i), ~excused'
    PROVE  KeptInv'
<1>0. SourceType
  BY DEF HkTypeOK
<1>1. /\ i \in 1..Len(version) /\ Row(i) /\ i \in VersionRows /\ version[i].status = "succeeded"
      /\ currentId' = i /\ UNCHANGED <<version, objects, pass, indexed>>
      /\ ~ComesBack(version[i].commit)
  BY DEF SyncSkips, Row, VersionRows
<1>2. i \in RowOf(version[i].commit) /\ Seen(version[i].commit)
  BY <1>1 DEF RowOf, Seen
<1>3. i \in NewestRows(1)
  <2>1. RowOf(version[i].commit) = {i}
    BY <1>2, OneRowOf
  <2> QED
    BY <1>1, <1>2, <2>1 DEF ComesBack
<1>4. Newer(i) = {}
  BY <1>0, <1>1, <1>3, NewestIsNewest
<1>5. ~Doomed(i) /\ ~Damaged(i)
  BY <1>1, <1>4, NewestSafe
<1>6. /\ VersionRows' = VersionRows /\ \A j : Newer(j)' = Newer(j)
  BY <1>1, SameRows
<1>7. \A j : (Doomed(j)' <=> Doomed(j)) /\ (Damaged(j)' <=> Damaged(j))
  BY <1>1 DEF Doomed, Damaged
<1>8. ASSUME NEW h \in Replicas PROVE Watched(h)'
  <2>1. Newer(currentId)' = {}
    BY <1>1, <1>4, <1>6 DEF Newer
  <2>2. Cardinality(Newer(currentId)') = 0
    BY <2>1, FS_EmptySet, Zenon
  <2>3. pass'[h].begun \in Nat
    BY <1>1 DEF HkTypeOK, PassType, PassState
  <2> QED
    BY <2>2, <2>3 DEF Watched
<1>9. ~Damaged(currentId)'
  BY <1>1, <1>5, <1>7 DEF Damaged
<1>10. IF currentId' = NoVersionRow THEN ~indexed'
       ELSE /\ Row(currentId') /\ version'[currentId'].status = "succeeded"
            /\ ~Doomed(currentId') /\ ~Damaged(currentId)'
  BY <1>1, <1>5, <1>9 DEF NoVersionRow
<1>11. \A j \in 1..Len(version) : version[j].status = "running" /\ Row(j) => Newer(j) = {}
  BY DEF KeptInv, VersionRows
<1> QED
  BY <1>1, <1>7, <1>8, <1>10, <1>11, KeptRows

(* The second read of a pass: the newest rows and the pointer it has read  *)
(* are retained.                                                           *)
LEMMA KeptRead ==
    ASSUME HkTypeOK, KeptInv, NEW h \in Replicas, ReadVersions(h), ~crowded'
    PROVE  KeptInv'
<1>0. /\ SourceType /\ pass \in [Replicas -> PassState] /\ pass[h] \in PassState
      /\ pass[h].begun \in Nat /\ Keep \in Nat \ {0} /\ Len(version) \in Nat
  BY HousekeepingAssumptions DEF HkTypeOK, PassType, PassState, SourceType
<1> DEFINE d == {i \in VersionRows \ Retained(h) : version[i].status # "running"}
           k == {i \in d : version[i].status = "succeeded"}
<1>1. /\ UNCHANGED <<currentId, version, objects, indexed>>
      /\ pass[h].at = "versions" /\ pass[h].begun < Keep
      /\ pass' = [pass EXCEPT ![h].at = "objects", ![h].doomed = d, ![h].keyed = k]
  <2>1. UNCHANGED <<currentId, version, objects, indexed>> /\ pass[h].at = "versions"
    BY DEF ReadVersions
  <2>2. ~(pass[h].begun >= Keep)
    BY DEF ReadVersions
  <2>3. pass' = [pass EXCEPT ![h].at = "objects", ![h].doomed = d, ![h].keyed = k]
    BY DEF ReadVersions
  <2> HIDE DEF d, k
  <2> QED
    BY <1>0, <2>1, <2>2, <2>3
<1>2. d \subseteq VersionRows /\ \A i \in d : i \notin NewestRows(Keep) /\ i # pass[h].cur
  BY DEF Retained
<1>3. VersionRows \subseteq 1..Len(version)
  BY DEF VersionRows
<1> HIDE DEF d, k
<1>4. /\ pass'[h].at = "objects" /\ pass'[h].doomed = d /\ pass'[h].rows = pass[h].rows
      /\ \A g \in Replicas : g # h => pass'[g] = pass[g]
  BY <1>0, <1>1 DEF PassState
<1>5. \A i : Doomed(i)' => Doomed(i) \/ i \in d
  BY <1>4 DEF Doomed
<1>6. VersionRows' = VersionRows /\ \A i : Newer(i)' = Newer(i)
  BY <1>1, SameRows
<1>7. \A i \in VersionRows : i \in NewestRows(Keep) <=> Cardinality(Newer(i)) < Keep
  BY <1>0, NewestIsNewest
<1>8. \A i : Cardinality(Newer(i)) \in Nat
  BY <1>0, NewerFinite
<1>9. \A i : Newer(i) = {} => Cardinality(Newer(i)) = 0
  BY FS_EmptySet, Zenon
<1>10. ASSUME NEW i \in VersionRows, Doomed(i)' \/ Damaged(i)' PROVE Outdated(i)'
  <2>1. PICK m \in VersionRows : /\ Newer(m) = {}
                                 /\ \A j \in VersionRows : Newer(j) # {} => m \in Newer(j)
    BY <1>0, NewestExists
  <2>2. ~Doomed(m)
    BY <2>1, NewestSafe
  <2>3. m \notin d
    BY <1>0, <1>2, <1>7, <1>9, <2>1
  <2>4. ~Doomed(m)'
    BY <1>5, <2>2, <2>3
  <2>5. Damaged(i)' => Damaged(i)
    BY <1>1 DEF Damaged
  <2>6. Newer(i) # {}
    <3>1. CASE i \in d
      BY <1>0, <1>2, <1>7, <1>9, <3>1
    <3>2. CASE Doomed(i) \/ Damaged(i)
      BY <3>2 DEF KeptInv, Outdated
    <3> QED
      BY <1>5, <1>10, <2>5, <3>1, <3>2
  <2> QED
    BY <1>6, <2>1, <2>4, <2>6 DEF Outdated
<1>11. (IF currentId = NoVersionRow THEN ~indexed
        ELSE /\ Row(currentId) /\ version[currentId].status = "succeeded"
             /\ ~Doomed(currentId) /\ ~Damaged(currentId))'
  <2>1. CASE currentId = NoVersionRow
    BY <1>1, <2>1 DEF KeptInv
  <2>2. CASE currentId # NoVersionRow
    <3>1. /\ Row(currentId) /\ version[currentId].status = "succeeded"
          /\ ~Doomed(currentId) /\ ~Damaged(currentId) /\ currentId \in VersionRows
      BY <2>2 DEF KeptInv, Row, VersionRows
    <3>2. PICK c \in VersionRows : c = currentId
      BY <3>1
    <3>3. c \notin d
      <4>1. c = pass[h].cur \/ Cardinality(Newer(c)) <= pass[h].begun
        BY <1>0, <1>1, <2>2, <3>2 DEF KeptInv, Watched
      <4>2. CASE c = pass[h].cur
        BY <1>2, <4>2
      <4>3. CASE Cardinality(Newer(c)) <= pass[h].begun
        <5>1. Cardinality(Newer(c)) < Keep
          BY <1>0, <1>1, <1>8, <4>3
        <5> QED
          BY <1>2, <1>7, <5>1
      <4> QED
        BY <4>1, <4>2, <4>3
    <3>4. Row(c)' /\ ~Doomed(c)' /\ ~Damaged(c)' /\ version'[c].status = "succeeded"
      BY <1>1, <1>5, <3>1, <3>2, <3>3 DEF Row, Damaged
    <3> QED
      BY <1>1, <2>2, <3>2, <3>4
  <2> QED
    BY <2>1, <2>2
<1>12. ASSUME NEW g \in Replicas PROVE Watched(g)'
  <2>1. CASE g = h
    BY <1>4, <2>1 DEF Watched
  <2>2. CASE g # h
    <3>1. Newer(currentId)' = Newer(currentId)
      BY <1>1, <1>6 DEF Newer
    <3> QED
      BY <1>1, <1>4, <2>2, <3>1 DEF Watched, KeptInv
  <2> QED
    BY <2>1, <2>2
<1>13. \A g \in Replicas : (pass[g].doomed \cup pass[g].rows \subseteq 1..Len(version))'
  <2>1. ASSUME NEW g \in Replicas
        PROVE  pass'[g].doomed \cup pass'[g].rows \subseteq 1..Len(version)
    <3>1. pass[g].doomed \cup pass[g].rows \subseteq 1..Len(version)
      BY DEF KeptInv
    <3> QED
      BY <1>2, <1>3, <1>4, <3>1
  <2> QED
    BY <1>1, <2>1
<1>14. (\A i, j \in 1..Len(version) : version[i].commit = version[j].commit => i = j)'
  BY <1>1 DEF KeptInv
<1>15. (\A i \in VersionRows : version[i].status = "running" => Newer(i) = {})'
  BY <1>1, <1>6 DEF KeptInv
<1>16. (\A i \in VersionRows : Doomed(i) \/ Damaged(i) => Outdated(i))'
  BY <1>6, <1>10
<1> QED
  BY <1>11, <1>12, <1>13, <1>14, <1>15, <1>16 DEF KeptInv

(* The objects of a doomed version go. *)
LEMMA KeptObjects ==
    ASSUME HkTypeOK, KeptInv, NEW h \in Replicas, NEW i \in 1..MaxSyncs, DeleteObjects(h, i)
    PROVE  KeptInv'
<1>0. /\ SourceType /\ pass \in [Replicas -> PassState] /\ pass[h] \in PassState
      /\ objects \in [Commits -> {"none", "whole", "torn"}]
  BY DEF HkTypeOK, PassType, SourceType
<1>1. /\ UNCHANGED <<currentId, version, indexed>> /\ pass[h].at = "objects"
      /\ i \in pass[h].doomed
  BY DEF DeleteObjects, ghosts
<1>2. Doomed(i) /\ i \in 1..Len(version)
  BY <1>1 DEF Doomed, KeptInv
<1>3. \A c \in Commits : c # version[i].commit => objects'[c] = objects[c]
  <2>1. \/ objects' = objects \/ objects' = [objects EXCEPT ![version[i].commit] = "none"]
        \/ objects' = [objects EXCEPT ![version[i].commit] = IF @ = "whole" THEN "torn" ELSE @]
    BY DEF DeleteObjects
  <2> QED
    BY <1>0, <2>1
<1>9. \A j \in 1..Len(version) : version[j].commit \in Commits
  <2>1. version \in Seq(VersionRow)
    BY <1>0 DEF SourceType
  <2>2. \A j \in 1..Len(version) : version[j] \in VersionRow
    BY <2>1
  <2> QED
    BY <2>2 DEF VersionRow
<1>4. /\ pass'[h].doomed \cup pass'[h].rows \subseteq pass[h].doomed \cup pass[h].rows
      /\ pass'[h].at = pass[h].at
      /\ \A g \in Replicas : g # h => pass'[g] = pass[g]
  <2> DEFINE D == pass[h].doomed \ {i}
             R == pass[h].rows \cup {i}
  <2>1. \/ pass' = [pass EXCEPT ![h].doomed = D, ![h].rows = R]
        \/ pass' = [pass EXCEPT ![h].doomed = D]
    BY <1>0 DEF DeleteObjects
  <2>2. D \subseteq pass[h].doomed /\ R \subseteq pass[h].rows \cup pass[h].doomed
    BY <1>1
  <2> HIDE DEF D, R
  <2>3. /\ pass'[h].doomed = D /\ (pass'[h].rows = R \/ pass'[h].rows = pass[h].rows)
        /\ pass'[h].at = pass[h].at
        /\ \A g \in Replicas : g # h => pass'[g] = pass[g]
    BY <1>0, <2>1 DEF PassState
  <2> QED
    BY <2>2, <2>3
<1>5. ASSUME NEW j \in 1..Len(version)
      PROVE  /\ version'[j].commit = version[j].commit
             /\ version'[j].status = "deleted" <=> version[j].status = "deleted"
             /\ Row(j) => (Damaged(j)' => Damaged(j) \/ Doomed(j))
             /\ version'[j].status = "running" /\ Row(j) => Newer(j) = {}
  <2>1. j # i => version[j].commit # version[i].commit
    BY <1>2 DEF KeptInv
  <2>2. Damaged(j)' => Damaged(j) \/ Doomed(j)
    BY <1>1, <1>2, <1>3, <1>9, <2>1 DEF Damaged
  <2> QED
    BY <1>1, <2>2 DEF KeptInv, VersionRows
<1>6. IF currentId' = NoVersionRow THEN ~indexed'
      ELSE /\ Row(currentId') /\ version'[currentId'].status = "succeeded"
           /\ ~Doomed(currentId') /\ ~Damaged(currentId)'
  <2>1. CASE currentId = NoVersionRow
    BY <1>1, <2>1 DEF KeptInv
  <2>2. CASE currentId # NoVersionRow
    <3>1. /\ Row(currentId) /\ version[currentId].status = "succeeded"
          /\ ~Doomed(currentId) /\ ~Damaged(currentId) /\ currentId \in 1..Len(version)
      BY <2>2 DEF KeptInv, Row
    <3>2. version[currentId].commit # version[i].commit
      BY <1>2, <3>1 DEF KeptInv
    <3>3. ~Damaged(currentId)'
      BY <1>1, <1>3, <1>9, <3>1, <3>2 DEF Damaged
    <3>4. Row(currentId') /\ ~Doomed(currentId') /\ version'[currentId'].status = "succeeded"
      BY <1>1, <3>1
    <3> QED
      BY <1>1, <2>2, <3>3, <3>4
  <2> QED
    BY <2>1, <2>2
<1>7. ASSUME NEW g \in Replicas PROVE Watched(g)'
  <2>1. CASE g = h
    BY <1>1, <1>4, <2>1 DEF Watched
  <2>2. CASE g # h
    <3>1. Newer(currentId)' = Newer(currentId)
      BY <1>1, SameRows DEF Newer
    <3> QED
      BY <1>1, <1>4, <2>2, <3>1 DEF Watched, KeptInv
  <2> QED
    BY <2>1, <2>2
<1>8. \A g \in Replicas : pass'[g].doomed \cup pass'[g].rows \subseteq pass[g].doomed \cup pass[g].rows
  BY <1>4
<1> QED
  BY <1>1, <1>5, <1>6, <1>7, <1>8, KeptRows

(* The rows of the doomed versions go. *)
LEMMA KeptDelete ==
    ASSUME HkTypeOK, KeptInv, NEW h \in Replicas, DeleteRows(h)
    PROVE  KeptInv'
<1>0. /\ SourceType /\ pass \in [Replicas -> PassState] /\ pass[h] \in PassState
  BY DEF HkTypeOK, PassType
<1> DEFINE R == pass[h].rows
<1>1. /\ Len(version') = Len(version)
      /\ \A j \in 1..Len(version) :
            /\ version'[j].commit = version[j].commit
            /\ j \in R => version'[j].status = "deleted"
            /\ j \notin R => version'[j] = version[j]
  <2>1. version' = [j \in 1..Len(version) |->
                       IF j \in R THEN [version[j] EXCEPT !.status = "deleted"] ELSE version[j]]
    BY DEF DeleteRows
  <2> HIDE DEF R
  <2> QED
    BY <1>0, <2>1, SetStatuses, Zenon
<1>2. /\ UNCHANGED <<objects, indexed>> /\ pass' = [pass EXCEPT ![h].at = "history"]
  BY DEF DeleteRows, Goes, ghosts
<1>3. /\ pass'[h].at = "history" /\ pass'[h].doomed = pass[h].doomed /\ pass'[h].rows = pass[h].rows
      /\ \A g \in Replicas : g # h => pass'[g] = pass[g]
  BY <1>0, <1>2 DEF PassState
<1>4. \A i : Doomed(i)' <=> Doomed(i)
  BY <1>3 DEF Doomed
<1>5. \A i \in R : Doomed(i)
  BY DEF Doomed
<1>6. currentId' = currentId
  <2>1. currentId \in R => currentId = NoVersionRow
    BY <1>5 DEF KeptInv
  <2> QED
    BY <2>1 DEF DeleteRows
<1>7. VersionRows' = VersionRows \ R
  BY <1>1 DEF VersionRows, Row
<1>8. \A i : Newer(i)' = Newer(i) \ R
  BY <1>7 DEF Newer
<1>9. \A i \in VersionRows' : i \in VersionRows /\ version'[i] = version[i]
  BY <1>1, <1>7 DEF VersionRows
<1>10. ASSUME NEW i \in VersionRows', Doomed(i)' \/ Damaged(i)' PROVE Outdated(i)'
  <2>1. Damaged(i)' => Damaged(i)
    BY <1>2, <1>9 DEF Damaged
  <2>2. PICK j \in Newer(i) : ~Doomed(j)
    BY <1>4, <1>9, <1>10, <2>1 DEF KeptInv, Outdated
  <2>3. j \in Newer(i)' /\ ~Doomed(j)'
    BY <1>4, <1>5, <1>8, <2>2
  <2> QED
    BY <2>3 DEF Outdated
<1>11. (IF currentId = NoVersionRow THEN ~indexed
        ELSE /\ Row(currentId) /\ version[currentId].status = "succeeded"
             /\ ~Doomed(currentId) /\ ~Damaged(currentId))'
  <2>1. CASE currentId = NoVersionRow
    BY <1>2, <1>6, <2>1 DEF KeptInv
  <2>2. CASE currentId # NoVersionRow
    <3>1. /\ Row(currentId) /\ version[currentId].status = "succeeded"
          /\ ~Doomed(currentId) /\ ~Damaged(currentId) /\ currentId \in 1..Len(version)
      BY <2>2 DEF KeptInv, Row
    <3>2. PICK c \in 1..Len(version) : c = currentId
      BY <3>1
    <3>3. version'[c] = version[c]
      BY <1>1, <1>5, <3>1, <3>2
    <3>4. Row(c)' /\ ~Doomed(c)' /\ ~Damaged(c)' /\ version'[c].status = "succeeded"
      BY <1>1, <1>2, <1>4, <3>1, <3>2, <3>3 DEF Row, Damaged
    <3> QED
      BY <1>6, <2>2, <3>2, <3>4
  <2> QED
    BY <2>1, <2>2
<1>12. ASSUME NEW g \in Replicas PROVE Watched(g)'
  <2>1. CASE g = h
    BY <1>3, <2>1 DEF Watched
  <2>2. CASE g # h
    <3>1. Newer(currentId)' \subseteq Newer(currentId)
      BY <1>6, <1>8 DEF Newer
    <3>2. IsFiniteSet(Newer(currentId)) /\ Cardinality(Newer(currentId)) \in Nat
      BY <1>0, NewerFinite
    <3>3. /\ Cardinality(Newer(currentId)') <= Cardinality(Newer(currentId))
          /\ Cardinality(Newer(currentId)') \in Nat
      BY <3>1, <3>2, FS_Subset, FS_CardinalityType
    <3>4. pass[g].begun \in Nat /\ pass'[g] = pass[g]
      BY <1>0, <1>3, <2>2 DEF PassState
    <3>5. pass[g].at = "versions" =>
             \/ currentId \in {NoVersionRow, pass[g].cur}
             \/ pass[g].begun >= Keep \/ Cardinality(Newer(currentId)) <= pass[g].begun
      BY DEF KeptInv, Watched
    <3>6. Cardinality(Newer(currentId)) <= pass[g].begun => Cardinality(Newer(currentId)') <= pass[g].begun
      BY <3>2, <3>3, <3>4
    <3> QED
      BY <1>6, <3>4, <3>5, <3>6 DEF Watched
  <2> QED
    BY <2>1, <2>2
<1>13. \A g \in Replicas : (pass[g].doomed \cup pass[g].rows \subseteq 1..Len(version))'
  <2>1. ASSUME NEW g \in Replicas
        PROVE  pass'[g].doomed = pass[g].doomed /\ pass'[g].rows = pass[g].rows
    BY <1>3
  <2> QED
    BY <1>1, <2>1 DEF KeptInv
<1>14. (\A i, j \in 1..Len(version) : version[i].commit = version[j].commit => i = j)'
  BY <1>1 DEF KeptInv
<1>15. (\A i \in VersionRows : version[i].status = "running" => Newer(i) = {})'
  BY <1>8, <1>9 DEF KeptInv
<1>16. (\A i \in VersionRows : Doomed(i) \/ Damaged(i) => Outdated(i))'
  BY <1>10
<1> QED
  BY <1>11, <1>12, <1>13, <1>14, <1>15, <1>16 DEF KeptInv

(* A step of a pass that leaves the source alone. *)
LEMMA KeptPass ==
    ASSUME HkTypeOK, KeptInv, NEW h \in Replicas, PassStep(h), ~ReadVersions(h), ~DeleteRows(h),
           \A i \in 1..MaxSyncs : ~DeleteObjects(h, i)
    PROVE  KeptInv'
<1>0. pass \in [Replicas -> PassState] /\ pass[h] \in PassState
  BY DEF HkTypeOK, PassType
<1>1. UNCHANGED <<currentId, version, objects, indexed>>
  BY DEF PassStep, ArchiveSelect, ArchiveCommit, DeleteSelect, DeleteCommit, PruneLearning,
     ReadSources, SelectHistory, PruneHistory, RecordSuccess, PassFails, sourceState, ghosts
<1>2. \A g \in Replicas : g # h => pass'[g] = pass[g]
  BY PassStepType
<1>3. /\ pass'[h].doomed \cup pass'[h].rows \subseteq pass[h].doomed \cup pass[h].rows
      /\ pass'[h].at = "versions" => pass'[h].cur = currentId
  <2>1. CASE ArchiveSelect(h) \/ RecordSuccess(h) \/ PassFails(h)
    <3>1. CASE ArchiveSelect(h)
      <4>1. PICK T : pass' = [pass EXCEPT ![h] = [Idle EXCEPT !.at = "archive", !.tasks = T]]
        BY <3>1 DEF ArchiveSelect
      <4>2. pass'[h].doomed = {} /\ pass'[h].rows = {} /\ pass'[h].at = "archive"
        BY <1>0, <4>1 DEF Idle
      <4> QED
        BY <4>2
    <3>2. CASE RecordPass(h)
      <4>1. pass'[h].doomed = {} /\ pass'[h].rows = {} /\ pass'[h].at = "idle"
        BY <1>0, <3>2 DEF RecordPass, Idle
      <4> QED
        BY <4>1
    <3> QED
      BY <2>1, <3>1, <3>2 DEF RecordSuccess, PassFails
  <2>2. CASE ArchiveCommit(h) \/ DeleteCommit(h) \/ DeleteSelect(h)
    <3>1. \E w \in {"select", "learning", "delete"} : \E T :
             pass' = [pass EXCEPT ![h].at = w, ![h].tasks = T]
      BY <2>2 DEF ArchiveCommit, DeleteCommit, DeleteSelect
    <3> QED
      BY <1>0, <3>1 DEF PassState
  <2>3. CASE PruneLearning(h) \/ PruneHistory(h)
    <3>1. PICK w \in {"sources", "record"} : pass' = [pass EXCEPT ![h].at = w]
      BY <2>3 DEF PruneLearning, PruneHistory, Goes
    <3> QED
      BY <1>0, <3>1 DEF PassState
  <2>4. CASE ReadSources(h)
    BY <1>0, <2>4 DEF ReadSources, PassState
  <2>5. CASE SelectHistory(h)
    <3>1. PICK r : pass' = [pass EXCEPT ![h].at = "prune", ![h].runs = r]
      BY <2>5 DEF SelectHistory
    <3> QED
      BY <1>0, <3>1 DEF PassState
  <2> QED
    BY <2>1, <2>2, <2>3, <2>4, <2>5 DEF PassStep
<1>4. ASSUME NEW g \in Replicas PROVE Watched(g)'
  <2>1. CASE g = h
    BY <1>1, <1>3, <2>1 DEF Watched
  <2>2. CASE g # h
    <3>1. Newer(currentId)' = Newer(currentId)
      BY <1>1, SameRows DEF Newer
    <3> QED
      BY <1>1, <1>2, <2>2, <3>1 DEF Watched, KeptInv
  <2> QED
    BY <2>1, <2>2
<1>5. \A g \in Replicas : pass'[g].doomed \cup pass'[g].rows \subseteq pass[g].doomed \cup pass[g].rows
  BY <1>2, <1>3
<1> QED
  BY <1>1, <1>4, <1>5, KeptStill

(* Every step keeps what protects the promoted version. *)
LEMMA PassInvStep == ASSUME HkTypeOK, PassInv, HkNext PROVE PassInv'
<1>1. SUFFICES ASSUME ~excused', ~crowded' PROVE KeptInv'
  BY DEF PassInv
<1>2. KeptInv
  <2>1. (excused => excused') /\ (crowded => crowded')
    <3>1. UNCHANGED <<excused, crowded>> \/ (\E c \in Commits : SyncBegins(c))
          \/ (\E i \in 1..MaxSyncs : SyncSkips(i)) \/ \E h \in Replicas : ReadVersions(h)
      <4>1. \A t \in TaskIds : TaskStep(t) => UNCHANGED <<excused, crowded>>
        BY DEF TaskStep, Ages, Archive, Unarchive, Rerun, Claimed, TaskEnds, sourceState, ghosts
      <4>2. \A u \in Units : UnitAges(u) => UNCHANGED <<excused, crowded>>
        BY DEF UnitAges, sourceState, ghosts
      <4>3. \A i \in 1..MaxSyncs : SyncFails(i) \/ SyncPromotes(i) => UNCHANGED <<excused, crowded>>
        BY DEF SyncFails, SyncPromotes, sourceState, ghosts
      <4>4. ASSUME NEW h \in Replicas, PassStep(h), ~ReadVersions(h) PROVE UNCHANGED <<excused, crowded>>
        <5>1. CASE ArchiveSelect(h) \/ ArchiveCommit(h) \/ DeleteSelect(h) \/ DeleteCommit(h)
          BY <5>1 DEF ArchiveSelect, ArchiveCommit, DeleteSelect, DeleteCommit, sourceState, ghosts
        <5>2. CASE PruneLearning(h) \/ ReadSources(h) \/ DeleteRows(h) \/ \E i \in 1..MaxSyncs : DeleteObjects(h, i)
          BY <5>2 DEF PruneLearning, ReadSources, DeleteRows, DeleteObjects, sourceState, ghosts
        <5>3. CASE SelectHistory(h) \/ PruneHistory(h) \/ RecordSuccess(h) \/ PassFails(h)
          BY <5>3 DEF SelectHistory, PruneHistory, RecordSuccess, PassFails, sourceState, ghosts
        <5> QED
          BY <4>4, <5>1, <5>2, <5>3 DEF PassStep
      <4> QED
        BY <4>1, <4>2, <4>3, <4>4, HkSteps
    <3>2. ASSUME NEW c \in Commits, SyncBegins(c) PROVE (excused => excused') /\ crowded' = crowded
      BY <3>2 DEF SyncBegins
    <3>3. ASSUME NEW i \in 1..MaxSyncs, SyncSkips(i) PROVE (excused => excused') /\ crowded' = crowded
      BY <3>3 DEF SyncSkips
    <3>4. ASSUME NEW h \in Replicas, ReadVersions(h) PROVE (crowded => crowded') /\ excused' = excused
      BY <3>4 DEF ReadVersions
    <3> QED
      BY <3>1, <3>2, <3>3, <3>4
  <2> QED
    BY <1>1, <2>1 DEF PassInv
<1>3. ASSUME UNCHANGED <<currentId, version, objects, indexed, pass>> PROVE KeptInv'
  <2>1. Newer(currentId)' = Newer(currentId)
    BY <1>3, SameRows DEF Newer
  <2>2. \A h \in Replicas : Watched(h)'
    BY <1>2, <1>3, <2>1 DEF Watched, KeptInv
  <2>3. \A h \in Replicas : pass'[h].doomed \cup pass'[h].rows \subseteq pass[h].doomed \cup pass[h].rows
    BY <1>3
  <2> QED
    BY <1>2, <1>3, <2>2, <2>3, KeptStill
<1>4. ASSUME NEW t \in TaskIds, TaskStep(t) PROVE KeptInv'
  <2>1. UNCHANGED <<sourceState, pass>>
    BY <1>4 DEF TaskStep, Ages, Archive, Unarchive, Rerun, Claimed, TaskEnds
  <2> QED
    BY <1>3, <2>1 DEF sourceState, ghosts
<1>5. ASSUME NEW u \in Units, UnitAges(u) PROVE KeptInv'
  BY <1>3, <1>5 DEF UnitAges, sourceState, ghosts
<1>6. ASSUME NEW c \in Commits, SyncBegins(c) PROVE KeptInv'
  BY <1>1, <1>2, <1>6, KeptNewRow, KeptRetry
<1>7. ASSUME NEW i \in 1..MaxSyncs, SyncFails(i) \/ SyncPromotes(i) \/ SyncSkips(i) PROVE KeptInv'
  BY <1>1, <1>2, <1>7, KeptEnds, KeptSkip
<1>8. ASSUME NEW h \in Replicas, PassStep(h) PROVE KeptInv'
  BY <1>1, <1>2, <1>8, KeptRead, KeptDelete, KeptObjects, KeptPass
<1> QED
  BY <1>4, <1>5, <1>6, <1>7, <1>8, HkSteps

(* prune_knowledge_source_history leaves the promoted version of a source  *)
(* its row and its objects, as long as the pointer only moves to the       *)
(* newest version row and fewer than Keep versions are begun between the   *)
(* two reads of a pass.                                                    *)
THEOREM PromotedIsKept == HkSpec => []PromotedKept
<1> DEFINE Inv == HkTypeOK /\ LiveInv /\ PassInv
<1>1. HkInit => Inv
  BY InitHk
<1>2. Inv /\ [HkNext]_hkVars => Inv'
  <2>1. ASSUME Inv, HkNext PROVE Inv'
    BY <2>1, SourceTypeStep, LiveTypes, PassInvStep
  <2>2. ASSUME Inv, UNCHANGED hkVars PROVE Inv'
    <3>0. UNCHANGED <<task, touched, lostTasks, currentId, version, objects, pass, history, nextRun,
                      excused, crowded, indexed>>
      BY <2>2 DEF hkVars, tasksState, sourceState, ghosts, historyState
    <3>1. HkTypeOK'
      BY <2>2, <3>0 DEF HkTypeOK, PassType, SourceType
    <3>2. LiveInv'
      BY <2>2, <3>0 DEF LiveInv, LiveTasksSurvive, Unfinished, Selected
    <3>3. CASE KeptInv
      <4>1. Newer(currentId)' = Newer(currentId)
        BY <3>0, SameRows DEF Newer
      <4>2. \A h \in Replicas : Watched(h)'
        BY <3>0, <3>3, <4>1 DEF Watched, KeptInv
      <4>3. \A h \in Replicas : pass'[h].doomed \cup pass'[h].rows \subseteq pass[h].doomed \cup pass[h].rows
        BY <3>0
      <4>4. KeptInv'
        BY <3>0, <3>3, <4>2, <4>3, KeptStill
      <4> QED
        BY <3>1, <3>2, <4>4 DEF PassInv
    <3> QED
      BY <2>2, <3>0, <3>1, <3>2, <3>3 DEF PassInv
  <2> QED
    BY <2>1, <2>2
<1>3. Inv => PromotedKept
  BY DEF PassInv, KeptInv, PromotedKept, Servable, Damaged
<1> QED
  BY <1>1, <1>2, <1>3, PTL DEF HkSpec

-----------------------------------------------------------------------------
(* Agent memory. *)

(* A session moves on, the others stay where they are. *)
LEMMA Moved ==
    ASSUME MemTypeOK, NEW v \in Visits, NEW s, Moves(v, s)
    PROVE  stage'[v] = s /\ \A u \in Visits : u # v => stage'[u] = stage[u]
  BY DEF MemTypeOK, Moves

(* Nothing has been noted yet. *)
LEMMA InitMemory == MemInit => MemTypeOK /\ MemoryInv
<1> SUFFICES ASSUME MemInit PROVE MemTypeOK /\ MemoryInv
  OBVIOUS
<1>1. MemTypeOK
  BY DEF MemInit, MemTypeOK
<1>2. \A u \in Visits : stage[u] = "new"
  BY DEF MemInit
<1>3. VolumeInv /\ PodInv
  BY <1>2 DEF MemInit, VolumeInv, PodInv, InStage, Notes, Waiting
<1> QED
  BY <1>1, <1>3 DEF MemoryInv

(* Every step keeps the types. *)
LEMMA MemTypeStep == ASSUME MemTypeOK, MemNext PROVE MemTypeOK'
<1>0. KeepCopies \in Nat \ {0} /\ MaxLosses \in Nat
  BY MemoryAssumptions
<1>1. CASE VolumeLost
  BY <1>1 DEF VolumeLost, Loses, MemTypeOK
<1>2. CASE PruneCopies
  <2>1. Kept \in Seq(SUBSET Visits)
    BY <1>0 DEF MemTypeOK, Kept
  <2> QED
    BY <1>2, <2>1 DEF PruneCopies, MemTypeOK
<1>3. ASSUME NEW v \in Visits, NEW s \in {"running", "ended", "packed", "stored", "done", "stuck"},
             Moves(v, s)
      PROVE  stage' \in [Visits -> {"new", "running", "ended", "packed", "stored", "done", "stuck"}]
  BY <1>3 DEF Moves, MemTypeOK
<1>4. ASSUME NEW v \in Visits, Restore(v) \/ RestoreFails(v) PROVE MemTypeOK'
  BY <1>3, <1>4 DEF Restore, RestoreFails, Loses, MemTypeOK
<1>5. ASSUME NEW v \in Visits, RestoreToPath(v) \/ InitContainerFails(v) \/ Killed(v) PROVE MemTypeOK'
  BY <1>3, <1>5 DEF RestoreToPath, InitContainerFails, Killed, Loses, OpenBeside, MemTypeOK
<1>6. ASSUME NEW v \in Visits, Ends(v) PROVE MemTypeOK'
  BY <1>3, <1>6 DEF Ends, MemTypeOK
<1>7. ASSUME NEW v \in Visits, Pack(v) PROVE MemTypeOK'
  BY <1>3, <1>7 DEF Pack, MemTypeOK
<1>8. ASSUME NEW v \in Visits, StoreLatest(v) PROVE MemTypeOK'
  BY <1>3, <1>8 DEF StoreLatest, MemTypeOK
<1>9. ASSUME NEW v \in Visits, StoreCopy(v) PROVE MemTypeOK'
  BY <1>3, <1>9 DEF StoreCopy, MemTypeOK
<1>10. ASSUME NEW v \in Visits, StoreFails(v) PROVE MemTypeOK'
  BY <1>3, <1>10 DEF StoreFails, Loses, MemTypeOK
<1> QED
  BY <1>1, <1>2, <1>4, <1>5, <1>6, <1>7, <1>8, <1>9, <1>10 DEF MemNext

(* Layout "pod". *)
LEMMA PodStep ==
    ASSUME MemTypeOK, layout = "pod", PodInv, MemNext
    PROVE  PodInv' /\ layout' = layout
<1>0. /\ stage \in [Visits -> {"new", "running", "ended", "packed", "stored", "done", "stuck"}]
      /\ pod \in [Visits -> SUBSET Visits] /\ archive \in [Visits -> SUBSET Visits]
  BY DEF MemTypeOK
<1> DEFINE Unstored == {"running", "ended", "packed", "stored"}
<1>1. /\ blanks = 0
      /\ \A v \in Visits : v \notin forgiven /\ stage[v] \in Unstored =>
            \A u \in Visits : u # v => stage[u] \notin Unstored
      /\ \A u, v \in Visits : stage[u] \in {"running", "ended"} /\ v \notin forgiven /\ stage[v] = "done"
            => v \in pod[u]
      /\ \A u \in Visits : stage[u] = "ended" => u \in pod[u]
      /\ \A u, v \in Visits : stage[u] \in {"packed", "stored"} /\ v \notin forgiven /\ stage[v] = "done"
            => v \in archive[u]
      /\ \A u \in Visits : stage[u] \in {"packed", "stored"} => u \in archive[u]
      /\ \A v \in Visits : v \notin forgiven /\ stage[v] \in {"stored", "done"} => v \in latest
  BY DEF PodInv, InStage, Notes, Waiting, OpenBeside
<1>2. ASSUME /\ blanks' = 0
             /\ \A v \in Visits : v \notin forgiven' /\ stage'[v] \in Unstored =>
                   \A u \in Visits : u # v => stage'[u] \notin Unstored
             /\ \A u, v \in Visits : stage'[u] \in {"running", "ended"} /\ v \notin forgiven' /\ stage'[v] = "done"
                   => v \in pod'[u]
             /\ \A u \in Visits : stage'[u] = "ended" => u \in pod'[u]
             /\ \A u, v \in Visits : stage'[u] \in {"packed", "stored"} /\ v \notin forgiven' /\ stage'[v] = "done"
                   => v \in archive'[u]
             /\ \A u \in Visits : stage'[u] \in {"packed", "stored"} => u \in archive'[u]
             /\ \A v \in Visits : v \notin forgiven' /\ stage'[v] \in {"stored", "done"} => v \in latest'
      PROVE  PodInv'
  BY <1>2 DEF PodInv, InStage, Notes, Waiting, OpenBeside
<1>3. CASE PruneCopies
  BY <1>1, <1>2, <1>3 DEF PruneCopies
<1>4. ASSUME NEW v \in Visits, RestoreToPath(v) PROVE PodInv' /\ layout' = layout
  <2>1. stage'[v] = "running" /\ \A u \in Visits : u # v => stage'[u] = stage[u]
    BY <1>4, Moved DEF RestoreToPath
  <2>2. pod'[v] = latest /\ \A u \in Visits : u # v => pod'[u] = pod[u]
    BY <1>0, <1>4 DEF RestoreToPath
  <2>3. /\ forgiven \subseteq forgiven'
        /\ \A u \in Visits \ {v} : stage[u] \in Unstored => u \in forgiven' /\ v \in forgiven'
        /\ UNCHANGED <<layout, latest, archive, blanks>> /\ stage[v] = "new"
    BY <1>4 DEF RestoreToPath, OpenBeside
  <2> QED
    BY <1>1, <1>2, <2>1, <2>2, <2>3
<1>5. ASSUME NEW v \in Visits, InitContainerFails(v) \/ Killed(v) PROVE PodInv' /\ layout' = layout
  <2>1. stage'[v] = "stuck" /\ \A u \in Visits : u # v => stage'[u] = stage[u]
    BY <1>5, Moved DEF InitContainerFails, Killed
  <2>2. UNCHANGED <<layout, pod, latest, archive, blanks, forgiven>>
    BY <1>5 DEF InitContainerFails, Killed
  <2> QED
    BY <1>1, <1>2, <2>1, <2>2
<1>6. ASSUME NEW v \in Visits, Ends(v) PROVE PodInv' /\ layout' = layout
  <2>1. stage'[v] = "ended" /\ stage[v] = "running" /\ \A u \in Visits : u # v => stage'[u] = stage[u]
    BY <1>6, Moved DEF Ends
  <2>2. pod'[v] = pod[v] \cup {v} /\ \A u \in Visits : u # v => pod'[u] = pod[u]
    BY <1>0, <1>6 DEF Ends
  <2>3. UNCHANGED <<layout, latest, archive, blanks, forgiven>>
    BY <1>6 DEF Ends
  <2> QED
    BY <1>1, <1>2, <2>1, <2>2, <2>3
<1>7. ASSUME NEW v \in Visits, Pack(v) PROVE PodInv' /\ layout' = layout
  <2>1. stage'[v] = "packed" /\ stage[v] = "ended" /\ \A u \in Visits : u # v => stage'[u] = stage[u]
    BY <1>7, Moved DEF Pack, Readable
  <2>2. archive'[v] = pod[v] /\ \A u \in Visits : u # v => archive'[u] = archive[u]
    BY <1>0, <1>7 DEF Pack
  <2>3. UNCHANGED <<layout, latest, pod, blanks, forgiven>>
    BY <1>7 DEF Pack
  <2> QED
    BY <1>1, <1>2, <2>1, <2>2, <2>3
<1>8. ASSUME NEW v \in Visits, StoreLatest(v) PROVE PodInv' /\ layout' = layout
  <2>1. stage'[v] = "stored" /\ stage[v] = "packed" /\ \A u \in Visits : u # v => stage'[u] = stage[u]
    BY <1>8, Moved DEF StoreLatest
  <2>2. latest' = archive[v] /\ UNCHANGED <<layout, archive, pod, blanks, forgiven>>
    BY <1>8 DEF StoreLatest
  <2>3. \A u \in Visits : u \notin forgiven' /\ stage'[u] \in {"stored", "done"} => u \in latest'
    BY <1>1, <2>1, <2>2
  <2> QED
    BY <1>1, <1>2, <2>1, <2>2, <2>3
<1>9. ASSUME NEW v \in Visits, StoreCopy(v) PROVE PodInv' /\ layout' = layout
  <2>1. stage'[v] = "done" /\ stage[v] = "stored" /\ \A u \in Visits : u # v => stage'[u] = stage[u]
    BY <1>9, Moved DEF StoreCopy
  <2>2. UNCHANGED <<layout, latest, archive, pod, forgiven>> /\ blanks' = 0
    BY <1>1, <1>9 DEF StoreCopy
  <2> QED
    BY <1>1, <1>2, <2>1, <2>2
<1>10. ASSUME NEW v \in Visits, StoreFails(v) PROVE PodInv' /\ layout' = layout
  <2>1. stage'[v] = "done" /\ \A u \in Visits : u # v => stage'[u] = stage[u]
    BY <1>10, Moved DEF StoreFails
  <2>2. UNCHANGED <<layout, latest, archive, pod, blanks>> /\ forgiven' = forgiven \cup {v}
    BY <1>10 DEF StoreFails
  <2> QED
    BY <1>1, <1>2, <2>1, <2>2
<1>11. ~VolumeLost /\ \A v \in Visits : ~Restore(v) /\ ~RestoreFails(v)
  BY DEF VolumeLost, Restore, RestoreFails
<1>12. PruneCopies => layout' = layout
  BY DEF PruneCopies
<1> QED
  BY <1>3, <1>4, <1>5, <1>6, <1>7, <1>8, <1>9, <1>10, <1>11, <1>12 DEF MemNext

(* Layout "volume": the notes in the volume, in the archives and in        *)
(* latest.tar.gz, session by session.                                      *)
VolumeNotes ==
    /\ \A z \in Visits : stage[z] \in {"ended", "packed", "stored"} => z \in volume
    /\ \A u \in Visits : stage[u] \in {"packed", "stored"} => u \in archive[u]
    /\ blanks = 0 =>
          /\ volume # {} \/ (\E u \in Visits : stage[u] = "running") =>
                \A z \in Visits : z \notin forgiven /\ stage[z] \in {"ended", "packed", "stored", "done"}
                                     => z \in volume
          /\ \A u, z \in Visits : /\ stage[u] \in {"packed", "stored"} /\ z \notin forgiven
                                  /\ stage[z] \in {"packed", "stored", "done"}
                                  => z \in archive[u]
          /\ \A z \in Visits : z \notin forgiven /\ stage[z] \in {"stored", "done"} => z \in latest

(* The notes of a session that is done are in a copy KeepCopies protects.  *)
CopiedNotes ==
    blanks <= KeepCopies => \A z \in Visits : z \notin forgiven /\ stage[z] = "done" => Copied(z)

(* VolumeInv, without its abbreviations. *)
LEMMA VolumeParts == VolumeInv <=> VolumeNotes /\ CopiedNotes
<1>1. ASSUME VolumeInv PROVE VolumeNotes /\ CopiedNotes
  BY <1>1 DEF VolumeInv, VolumeNotes, CopiedNotes, InStage, Notes, Waiting
<1>2. ASSUME VolumeNotes, CopiedNotes PROVE VolumeInv
  <2>1. blanks = 0 => \A u \in InStage(Waiting) : Notes({"packed", "stored", "done"}) \subseteq archive[u]
    BY <1>2 DEF VolumeNotes, InStage, Notes, Waiting
  <2>2. blanks = 0 /\ (volume # {} \/ InStage({"running"}) # {})
           => Notes({"ended", "packed", "stored", "done"}) \subseteq volume
    BY <1>2 DEF VolumeNotes, InStage, Notes
  <2> QED
    BY <1>2, <2>1, <2>2 DEF VolumeInv, VolumeNotes, CopiedNotes, InStage, Notes, Waiting
<1> QED
  BY <1>1, <1>2

(* The copies stay as they are and no session becomes done. *)
LEMMA CopiesStay ==
    ASSUME MemTypeOK, CopiedNotes, copies' = copies, blanks' = blanks,
           \A z \in Visits : z \notin forgiven' /\ stage'[z] = "done" => z \notin forgiven /\ stage[z] = "done"
    PROVE  CopiedNotes'
<1>1. \A z : Copied(z)' <=> Copied(z)
  BY DEF Copied
<1> QED
  BY <1>1 DEF CopiedNotes

(* Every step of layout "volume". *)
LEMMA VolumeStep ==
    ASSUME MemTypeOK, layout = "volume", VolumeNotes, CopiedNotes, MemNext
    PROVE  VolumeNotes' /\ CopiedNotes' /\ layout' = layout
<1>0. /\ stage \in [Visits -> {"new", "running", "ended", "packed", "stored", "done", "stuck"}]
      /\ archive \in [Visits -> SUBSET Visits] /\ copies \in Seq(SUBSET Visits) /\ blanks \in Nat
      /\ KeepCopies \in Nat \ {0} /\ Len(copies) \in Nat
  BY MemoryAssumptions DEF MemTypeOK
<1>1. CASE VolumeLost
  <2>1. /\ \A v \in Visits : stage[v] \in {"new", "done"}
        /\ volume' = {} /\ UNCHANGED <<layout, pod, latest, copies, stage, archive, blanks, forgiven>>
    BY <1>1 DEF VolumeLost
  <2>2. VolumeNotes'
    BY <2>1 DEF VolumeNotes
  <2> QED
    BY <2>1, <2>2, CopiesStay
<1>2. CASE PruneCopies
  <2>1. UNCHANGED <<layout, volume, pod, latest, stage, archive, blanks, forgiven>> /\ copies' = Kept
    BY <1>2 DEF PruneCopies
  <2>2. VolumeNotes'
    BY <2>1 DEF VolumeNotes
  <2>3. ASSUME blanks <= KeepCopies, NEW z, Copied(z) PROVE Copied(z)'
    <3>1. PICK i \in 1..Len(copies) : z \in copies[i] /\ (i = Len(copies) \/ Len(copies) - i < blanks)
      BY <2>3 DEF Copied
    <3> DEFINE m == IF Len(copies) > KeepCopies THEN Len(copies) - KeepCopies + 1 ELSE 1
    <3>2. m \in 1..Len(copies) /\ i >= m /\ i - m + 1 \in 1..(Len(copies) - m + 1)
      BY <1>0, <2>3, <3>1
    <3>3. copies' = SubSeq(copies, m, Len(copies))
      BY <2>1 DEF Kept
    <3> HIDE DEF m
    <3>4. Len(copies') = Len(copies) - m + 1 /\ copies'[i - m + 1] = copies[i]
      BY <1>0, <3>2, <3>3
    <3>5. i - m + 1 = Len(copies') \/ Len(copies') - (i - m + 1) < blanks'
      BY <1>0, <2>1, <3>1, <3>2, <3>4
    <3>6. PICK k \in 1..Len(copies') : k = i - m + 1
      BY <3>2, <3>4
    <3> QED
      BY <3>1, <3>4, <3>5, <3>6 DEF Copied
  <2>4. CopiedNotes'
    BY <2>1, <2>3 DEF CopiedNotes
  <2> QED
    BY <2>1, <2>2, <2>4
<1>3. ASSUME NEW v \in Visits, Restore(v) PROVE VolumeNotes' /\ CopiedNotes' /\ layout' = layout
  <2>1. stage'[v] = "running" /\ stage[v] = "new" /\ \A u \in Visits : u # v => stage'[u] = stage[u]
    BY <1>3, Moved DEF Restore
  <2>2. /\ UNCHANGED <<layout, latest, copies, archive, blanks, forgiven>>
        /\ volume' = IF volume = {} THEN latest ELSE volume
    BY <1>3 DEF Restore
  <2>3. VolumeNotes'
    BY <2>1, <2>2 DEF VolumeNotes
  <2> QED
    BY <2>1, <2>2, <2>3, CopiesStay
<1>4. ASSUME NEW v \in Visits, RestoreFails(v) PROVE VolumeNotes' /\ CopiedNotes' /\ layout' = layout
  <2>1. stage'[v] = "running" /\ stage[v] = "new" /\ \A u \in Visits : u # v => stage'[u] = stage[u]
    BY <1>4, Moved DEF RestoreFails
  <2>2. /\ UNCHANGED <<layout, volume, latest, copies, archive, forgiven>> /\ volume = {}
        /\ blanks' = IF blanks = 0 /\ latest # {} THEN 1 ELSE blanks
    BY <1>4 DEF RestoreFails
  <2>3. VolumeNotes'
    BY <1>0, <2>1, <2>2 DEF VolumeNotes
  <2>4. \A z : Copied(z) => Copied(z)'
    BY <1>0, <2>2 DEF Copied
  <2>5. blanks' <= KeepCopies => blanks <= KeepCopies
    BY <1>0, <2>2
  <2>6. CopiedNotes'
    BY <2>1, <2>2, <2>4, <2>5 DEF CopiedNotes
  <2> QED
    BY <2>2, <2>3, <2>6
<1>5. ASSUME NEW v \in Visits, Ends(v) PROVE VolumeNotes' /\ CopiedNotes' /\ layout' = layout
  <2>1. stage'[v] = "ended" /\ stage[v] = "running" /\ \A u \in Visits : u # v => stage'[u] = stage[u]
    BY <1>5, Moved DEF Ends
  <2>2. /\ UNCHANGED <<layout, latest, copies, archive, blanks, forgiven>>
        /\ volume' = volume \cup {v}
    BY <1>5 DEF Ends
  <2>3. VolumeNotes'
    BY <2>1, <2>2 DEF VolumeNotes
  <2> QED
    BY <2>1, <2>2, <2>3, CopiesStay
<1>6. ASSUME NEW v \in Visits, Pack(v) PROVE VolumeNotes' /\ CopiedNotes' /\ layout' = layout
  <2>1. stage'[v] = "packed" /\ stage[v] = "ended" /\ \A u \in Visits : u # v => stage'[u] = stage[u]
    BY <1>6, Moved DEF Pack, Readable
  <2>2. /\ UNCHANGED <<layout, volume, latest, copies, blanks>> /\ forgiven \subseteq forgiven'
        /\ \A u \in Visits : u # v /\ stage[u] \in {"packed", "stored"} => v \in forgiven'
    BY <1>6 DEF Pack, Packed
  <2>3. archive'[v] = volume /\ \A u \in Visits : u # v => archive'[u] = archive[u]
    BY <1>0, <1>6 DEF Pack
  <2>4. VolumeNotes'
    BY <2>1, <2>2, <2>3 DEF VolumeNotes
  <2>5. \A z \in Visits : z \notin forgiven' /\ stage'[z] = "done" => z \notin forgiven /\ stage[z] = "done"
    BY <2>1, <2>2
  <2> QED
    BY <2>2, <2>4, <2>5, CopiesStay
<1>7. ASSUME NEW v \in Visits, StoreLatest(v) PROVE VolumeNotes' /\ CopiedNotes' /\ layout' = layout
  <2>1. stage'[v] = "stored" /\ stage[v] = "packed" /\ \A u \in Visits : u # v => stage'[u] = stage[u]
    BY <1>7, Moved DEF StoreLatest
  <2>2. /\ UNCHANGED <<layout, volume, copies, archive, blanks, forgiven>> /\ latest' = archive[v]
    BY <1>7 DEF StoreLatest
  <2>3. VolumeNotes'
    BY <2>1, <2>2 DEF VolumeNotes
  <2> QED
    BY <2>1, <2>2, <2>3, CopiesStay
<1>8. ASSUME NEW v \in Visits, StoreCopy(v) PROVE VolumeNotes' /\ CopiedNotes' /\ layout' = layout
  <2>1. stage'[v] = "done" /\ stage[v] = "stored" /\ \A u \in Visits : u # v => stage'[u] = stage[u]
    BY <1>8, Moved DEF StoreCopy
  <2>2. /\ UNCHANGED <<layout, volume, latest, archive, forgiven>>
        /\ copies' = Append(copies, archive[v])
        /\ blanks' = IF blanks > 0 THEN blanks + 1 ELSE 0
    BY <1>8 DEF StoreCopy
  <2>3. VolumeNotes'
    BY <1>0, <2>1, <2>2 DEF VolumeNotes
  <2>4. PICK n \in 1..Len(copies') : n = Len(copies') /\ copies'[n] = archive[v] /\ n = Len(copies) + 1
                                    /\ \A i \in 1..Len(copies) : copies'[i] = copies[i]
    BY <1>0, <2>2
  <2>5. \A z \in archive[v] : Copied(z)'
    BY <2>4 DEF Copied
  <2>6. v \in archive[v]
    BY <2>1 DEF VolumeNotes
  <2>7. CASE blanks = 0
    <3>1. \A z \in Visits : z \notin forgiven /\ stage[z] = "done" => z \in archive[v]
      BY <2>1, <2>7 DEF VolumeNotes
    <3> QED
      BY <2>1, <2>2, <2>3, <2>5, <2>6, <3>1 DEF CopiedNotes
  <2>8. CASE blanks > 0
    <3>1. ASSUME NEW z, Copied(z) PROVE Copied(z)'
      <4>1. PICK i \in 1..Len(copies) : z \in copies[i] /\ (i = Len(copies) \/ Len(copies) - i < blanks)
        BY <3>1 DEF Copied
      <4>2. i \in 1..Len(copies') /\ z \in copies'[i] /\ Len(copies') - i < blanks'
        BY <1>0, <2>2, <2>4, <2>8, <4>1
      <4> QED
        BY <4>2 DEF Copied
    <3>2. blanks' <= KeepCopies => blanks <= KeepCopies
      BY <1>0, <2>2, <2>8
    <3> QED
      BY <2>1, <2>2, <2>3, <2>5, <2>6, <3>1, <3>2 DEF CopiedNotes
  <2> QED
    BY <1>0, <2>7, <2>8
<1>9. ASSUME NEW v \in Visits, StoreFails(v) PROVE VolumeNotes' /\ CopiedNotes' /\ layout' = layout
  <2>1. stage'[v] = "done" /\ \A u \in Visits : u # v => stage'[u] = stage[u]
    BY <1>9, Moved DEF StoreFails
  <2>2. /\ UNCHANGED <<layout, volume, latest, copies, archive, blanks>>
        /\ forgiven' = forgiven \cup {v}
    BY <1>9 DEF StoreFails
  <2>3. VolumeNotes'
    BY <2>1, <2>2 DEF VolumeNotes
  <2>4. \A z \in Visits : z \notin forgiven' /\ stage'[z] = "done" => z \notin forgiven /\ stage[z] = "done"
    BY <2>1, <2>2
  <2> QED
    BY <2>2, <2>3, <2>4, CopiesStay
<1>10. \A v \in Visits : ~RestoreToPath(v) /\ ~InitContainerFails(v) /\ ~Killed(v)
  BY DEF RestoreToPath, InitContainerFails, Killed
<1> QED
  BY <1>1, <1>2, <1>3, <1>4, <1>5, <1>6, <1>7, <1>8, <1>9, <1>10 DEF MemNext

(* What a finished session noted is in latest.tar.gz or in a copy that the *)
(* pruning leaves, whatever sessions overlap, except for the losses that   *)
(* the property names.                                                     *)
THEOREM MemoryIsKept == MemSpec => []MemoryKept
<1> DEFINE Inv == MemTypeOK /\ MemoryInv
<1>1. MemInit => Inv
  BY InitMemory
<1>2. Inv /\ [MemNext]_memVars => Inv'
  <2>1. ASSUME Inv, MemNext PROVE Inv'
    <3>1. MemTypeOK'
      BY <2>1, MemTypeStep
    <3>2. CASE layout = "volume"
      <4>1. VolumeNotes /\ CopiedNotes
        BY <2>1, <3>2, VolumeParts DEF MemoryInv
      <4>2. VolumeNotes' /\ CopiedNotes' /\ layout' = layout
        BY <2>1, <3>2, <4>1, VolumeStep
      <4>3. VolumeInv'
        BY <4>2, VolumeParts, PTL
      <4> QED
        BY <3>1, <3>2, <4>2, <4>3 DEF MemoryInv
    <3>3. CASE layout # "volume"
      <4>1. layout = "pod" /\ PodInv
        BY <2>1, <3>3 DEF MemoryInv, MemTypeOK
      <4> QED
        BY <2>1, <3>1, <4>1, PodStep DEF MemoryInv
    <3> QED
      BY <3>2, <3>3
  <2>2. ASSUME Inv, UNCHANGED memVars PROVE Inv'
    BY <2>2 DEF memVars, MemTypeOK, MemoryInv, VolumeInv, PodInv, InStage, Notes, Copied, OpenBeside
  <2> QED
    BY <2>1, <2>2
<1>3. Inv => MemoryKept
  <2> SUFFICES ASSUME Inv, NEW v \in Finished \ forgiven
               PROVE  \/ v \in latest
                      \/ blanks > KeepCopies
                      \/ blanks > 0 /\ \E i \in 1..Len(copies) : v \in copies[i]
    BY DEF MemoryKept
  <2>1. v \in Visits /\ stage[v] = "done" /\ v \notin forgiven
    BY DEF Finished
  <2>2. CASE layout = "volume"
    <3>1. VolumeNotes /\ CopiedNotes
      BY <2>2, VolumeParts DEF MemoryInv
    <3>2. blanks \in Nat /\ KeepCopies \in Nat
      BY MemoryAssumptions DEF MemTypeOK
    <3> QED
      BY <2>1, <3>1, <3>2 DEF VolumeNotes, CopiedNotes, Copied
  <2>3. CASE layout # "volume"
    BY <2>1, <2>3 DEF MemoryInv, PodInv, Notes, InStage
  <2> QED
    BY <2>2, <2>3
<1> QED
  BY <1>1, <1>2, <1>3, PTL DEF MemSpec
=============================================================================
