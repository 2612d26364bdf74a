--------------------------- MODULE MessageIngress ---------------------------
(***************************************************************************)
(* The gateway's listener on the message provider and the questions an     *)
(* agent asks through it: gateway/message_ingress.py,                      *)
(* shared/lib/message_ingress.py, the pause and resume handlers of         *)
(* gateway/api.py, and the AskUserQuestion half of                         *)
(* runtime/session_entrypoint.py.                                          *)
(*                                                                         *)
(* Everything in the gateway is a coroutine, so every await is a place     *)
(* where another request, a cancellation or a crash comes in: start() does *)
(* its look-ups between the test of running and the creation of the        *)
(* listener, and a message is handled in three awaits (record a reply,     *)
(* create the task, post the acknowledgement).  Mattermost sends a post    *)
(* once to every open WebSocket; Slack repeats an envelope until its       *)
(* acknowledgement arrives, and the listener acknowledges before it        *)
(* handles.                                                                *)
(***************************************************************************)
EXTENDS Naturals, Sequences, FiniteSets

CONSTANTS
    Inputs,         \* what people, bots and webhooks may post
    Configs,        \* the messaging part of each workflow's agent.yaml
    Self,           \* the user id of the configured bot
    Toggles,        \* pause and resume requests of the API, by slot
    MaxToggling,    \* bound: requests handled at the same time
    MaxStarts,      \* bound: listeners ever created
    MaxRoots,       \* bound: threads opened by others
    MaxReplies,     \* bound: posts of others in the first task's thread
    MaxIngFaults,   \* bound: failures, disconnections, crashes
    Questions       \* bound: questions in one AskUserQuestion

(* What the fields of a post may hold. *)
People       == {i.who : i \in Inputs}
Channels     == {i.channel : i \in Inputs}
Texts        == {i.text : i \in Inputs}
Hooks        == {i.hook : i \in Inputs}
Accounts     == {i.accounts : i \in Inputs}
Environments == {i.environments : i \in Inputs}

ASSUME IngressAssumptions ==
    /\ MaxToggling \in Nat /\ MaxStarts \in Nat /\ MaxRoots \in Nat
    /\ MaxReplies \in Nat /\ MaxIngFaults \in Nat /\ Questions \in Nat
    /\ IsFiniteSet(Toggles)
    /\ \A i \in Inputs : i.who # Self
    /\ Inputs \subseteq [who : People, kind : {"human", "bot", "webhook"}, root : BOOLEAN,
                        thread : {0}, channel : Channels, text : Texts, hook : Hooks,
                        accounts : Accounts, environments : Environments]
    /\ \A c \in Configs : \A u \in c.rules : Self \notin u.trusted   \* no rule trusts the bot

VARIABLES
    provider,   \* settings.message_bus.provider
    posts,      \* what was posted, in order, by anyone
    unacked,    \* Slack: envelopes that were not acknowledged
    repeated,   \* Slack: envelopes sent again although they were acknowledged
    wire,       \* Mattermost: posts under way to each listener
    listener,   \* each listener task: where it is and the post it handles
    current,    \* GatewayMessageIngress._listener_task, 0 for None
    botKnown,   \* _bot_user_id is not ""
    aliased,    \* the routes whose channel id was found at the last start
    paused,     \* connector_states: message-ingress is paused
    request,    \* each pause or resume request
    up,         \* the gateway process runs
    tasks,      \* the tasks created by the ingress, with the post they come from
    waiting,    \* the first task's status is waiting_user_input
    replies,    \* its user_question_reply events, in the order of their timestamp
    dialog,     \* where the runtime is in _handle_ask_user_question
    ingFaults   \* failures so far (bound)

gateway == <<listener, current, botKnown, aliased, paused, request, up>>
network == <<provider, posts, unacked, repeated, wire>>
asking  == <<waiting, replies, dialog>>
ingVars == <<network, gateway, tasks, asking, ingFaults>>

Lids      == 1..MaxStarts
NoRequest == [op |-> "none", at |-> "idle", prev |-> FALSE]
Off       == [at |-> "none", post |-> 0]
Connected == {"recv", "handle", "create", "ack"}
Handling  == {"handle", "create", "ack"}
Alive(l)  == listener[l].at \notin {"none", "dead"}
Toggling  == {r \in Toggles : request[r].at # "idle"}
running   == current # 0 /\ Alive(current)
FreshIds  == {l \in Lids : \A k \in l..MaxStarts : listener[k].at = "none"}
NextFresh == CHOOSE l \in FreshIds : \A k \in FreshIds : l <= k
IngFault  == ingFaults < MaxIngFaults /\ ingFaults' = ingFaults + 1
At(l, where, p) == listener' = [listener EXCEPT ![l] = [at |-> where, post |-> p]]

-----------------------------------------------------------------------------
(* Parsing: what the listener sees of post n.  A post that opens a thread  *)
(* has none of its own; Slack tells only whether a person wrote it.        *)

parse_mattermost_websocket_event(n) ==
    [posts[n] EXCEPT !.thread = IF @ = 0 THEN n ELSE @]

parse_slack_socket_envelope(n) ==
    [posts[n] EXCEPT !.thread = IF @ = 0 THEN n ELSE @,
                     !.kind = IF @ = "human" THEN @ ELSE "bot", !.hook = ""]

Inbound(n) ==
    IF provider = "slack" THEN parse_slack_socket_envelope(n)
                          ELSE parse_mattermost_websocket_event(n)

-----------------------------------------------------------------------------
(* Routing: which workflow a post belongs to. *)

(* A route is a rule or the triggers of a workflow on one of its channels; *)
(* texts stands for the pattern or the trigger words.                      *)
TriggerRoute(c, ch) ==
    [workflow |-> c.workflow, channel |-> ch, rule |-> "", provider |-> "", priority |-> 0,
     texts |-> c.triggers, trusted |-> {}, hooks |-> {}, allow_bot |-> FALSE,
     root_posts_only |-> FALSE, accounts |-> {}, environments |-> {}]

RuleRoute(c, u, ch) ==
    [workflow |-> c.workflow, channel |-> ch, rule |-> u.id, provider |-> u.provider,
     priority |-> u.priority, texts |-> u.texts, trusted |-> u.trusted, hooks |-> u.hooks,
     allow_bot |-> u.allow_bot, root_posts_only |-> u.root_posts_only,
     accounts |-> u.accounts, environments |-> u.environments]

(* _message_routes: a rule without channels is heard on the workflow's.    *)
RuleChannels(c, u) == IF u.channels = {} THEN c.channels ELSE u.channels

RoutesOf(c) ==
    {TriggerRoute(c, ch) : ch \in {d \in c.channels : c.triggers # {}}}
      \cup UNION {{RuleRoute(c, u, ch) : ch \in RuleChannels(c, u)} : u \in {v \in c.rules : v.enabled}}

Routes == UNION {RoutesOf(c) : c \in Configs}

Within(found, allowed) == allowed = {} \/ (found # {} /\ found \subseteq allowed)

matches_route_constraints(p, r) ==
    Within(p.accounts, r.accounts) /\ Within(p.environments, r.environments)

matches_sender_trust(p, r) ==
    /\ r.trusted # {} => p.who \in r.trusted
    /\ p.kind # "human" =>
         /\ r.allow_bot /\ p.who \in r.trusted
         /\ p.kind = "webhook" => p.hook \in r.hooks

match_route_prompt(p, r) ==
    /\ r.provider \in {"", provider}
    /\ r.root_posts_only => p.root
    /\ matches_sender_trust(p, r)
    /\ matches_route_constraints(p, r)
    /\ p.text \in r.texts           \* the pattern or a trigger, prompt not empty

(* The routes of _resolve_route_channels that carry a channel value of p:  *)
(* Mattermost sends the channel's name and id, Slack the id only, so there *)
(* a route counts through its alias alone.                                 *)
OnChannel(p, found) ==
    {<<r, "name">> : r \in {s \in Routes : provider = "mattermost" /\ s.channel = p.channel}}
      \cup {<<r, "id">> : r \in {s \in found : s.channel = p.channel}}

(* Mutant: every matching route counts, the aliases of one rule as well.   *)
identity_PerRoute(m) == m

identity(m) == <<m[1].workflow, m[1].rule, m[1].texts>>

(* match_message_route: the rule of highest priority, none when two share  *)
(* it.                                                                     *)
match_message_route(p, found) ==
    LET matches == {m \in OnChannel(p, found) : match_route_prompt(p, m[1])}
        winners == {m \in matches : \A n \in matches : n[1].priority <= m[1].priority}
        ids     == {identity(m) : m \in winners}
    IN  IF Cardinality(ids) = 1 THEN {m[1].workflow : m \in winners} ELSE {}

-----------------------------------------------------------------------------
IngInit ==
    /\ provider \in {"mattermost", "slack"}
    /\ posts = <<>> /\ unacked = {} /\ repeated = {}
    /\ wire = [l \in Lids |-> {}]
    /\ listener = [l \in Lids |-> Off]
    /\ current = 0 /\ botKnown = FALSE /\ aliased = {}
    /\ paused = FALSE
    /\ request = [r \in Toggles |-> NoRequest]
    /\ up = FALSE
    /\ tasks = <<>> /\ waiting = FALSE /\ replies = <<>>
    /\ dialog \in [at : {"none"}, total : 1..Questions, question : {0}, after : {0},
                  answers : {<<>>}]
    /\ ingFaults = 0

(* A post reaches every open Mattermost connection; Slack keeps it until   *)
(* it is acknowledged.                                                     *)
Publish(p) ==
    LET n == Len(posts) + 1 IN
    /\ posts' = Append(posts, p)
    /\ wire' = IF provider = "slack" THEN wire
               ELSE [l \in Lids |-> IF listener[l].at \in Connected
                                    THEN wire[l] \cup {n} ELSE wire[l]]
    /\ unacked' = IF provider = "slack" THEN unacked \cup {n} ELSE unacked
    /\ UNCHANGED <<provider, repeated>>

OwnPost(thread) ==
    [who |-> Self, kind |-> "bot", root |-> FALSE, thread |-> thread,
     channel |-> posts[thread].channel, text |-> "own", hook |-> "",
     accounts |-> {}, environments |-> {}]

(* Somebody posts: a new thread, or a reply in the first task's thread.    *)
Posted(root) == {n \in 1..Len(posts) : posts[n].who # Self /\ posts[n].root = root}

PostRoot(i) ==
    /\ Cardinality(Posted(TRUE)) < MaxRoots
    /\ i.root /\ Publish(i)
    /\ UNCHANGED <<gateway, tasks, asking, ingFaults>>

PostReply(i) ==
    /\ Cardinality(Posted(FALSE)) < MaxReplies /\ tasks # <<>>
    /\ ~i.root /\ Publish([i EXCEPT !.thread = tasks[1].thread])
    /\ UNCHANGED <<gateway, tasks, asking, ingFaults>>

-----------------------------------------------------------------------------
(* The listener task: MattermostWebSocketIngress.run and                   *)
(* SlackSocketModeIngress.run with GatewayMessageIngress.handle_event.     *)

Connect(l) ==
    /\ listener[l].at = "connect"
    /\ At(l, "recv", 0)
    /\ UNCHANGED <<network, current, botKnown, aliased, paused, request, up,
                   tasks, asking, ingFaults>>

(* The connection breaks, or an exception leaves handle_event: what was    *)
(* under way, and the post being handled, are gone.                        *)
Disconnect(l) ==
    /\ listener[l].at \in Connected /\ IngFault
    /\ At(l, "connect", 0)
    /\ wire' = [wire EXCEPT ![l] = {}]
    /\ UNCHANGED <<provider, posts, unacked, repeated, current, botKnown, aliased,
                   paused, request, up, tasks, asking>>

ReceiveMattermost(l, n) ==
    /\ listener[l].at = "recv" /\ n \in wire[l]
    /\ wire' = [wire EXCEPT ![l] = @ \ {n}]
    /\ At(l, "handle", n)
    /\ UNCHANGED <<provider, posts, unacked, repeated, current, botKnown, aliased,
                   paused, request, up, tasks, asking, ingFaults>>

(* The envelope is acknowledged first; the acknowledgement may be lost.    *)
ReceiveSlack(l, n) ==
    /\ listener[l].at = "recv" /\ n \in unacked
    /\ \/ unacked' = unacked \ {n} /\ UNCHANGED <<repeated, ingFaults>>
       \/ IngFault /\ repeated' = repeated \cup {n} /\ UNCHANGED unacked
    /\ At(l, "handle", n)
    /\ UNCHANGED <<provider, posts, wire, current, botKnown, aliased, paused,
                   request, up, tasks, asking>>

IsReply(p) ==
    waiting /\ tasks # <<>> /\ p.thread = tasks[1].thread /\ p.kind = "human"

(* _handle_message up to its second await: the bot's own and empty posts   *)
(* are dropped, a person's reply in a waiting thread is recorded, and what *)
(* no rule claims ends here.                                               *)
Ignored(p) == (botKnown /\ p.who = Self) \/ p.text = ""

HandleMessage(l) ==
    LET p == Inbound(listener[l].post) IN
    /\ listener[l].at = "handle"
    /\ IF Ignored(p) THEN At(l, "recv", 0) /\ UNCHANGED replies
       ELSE IF IsReply(p)
       THEN /\ replies' = Append(replies, listener[l].post)
            /\ At(l, "recv", 0)
       ELSE /\ IF match_message_route(p, aliased) = {}
               THEN At(l, "recv", 0)
               ELSE At(l, "create", listener[l].post)
            /\ UNCHANGED replies
    /\ UNCHANGED <<network, current, botKnown, aliased, paused, request, up,
                   tasks, waiting, dialog, ingFaults>>

(* The thread cannot be read: _hydrate_thread_prompt returns None.         *)
HydrateFails(l) ==
    /\ listener[l].at = "create" /\ ~posts[listener[l].post].root /\ IngFault
    /\ At(l, "recv", 0)
    /\ UNCHANGED <<network, current, botKnown, aliased, paused, request, up,
                   tasks, asking>>

CreateTask(l) ==
    LET n == listener[l].post IN
    /\ listener[l].at = "create"
    /\ \E w \in match_message_route(Inbound(n), aliased) :
         tasks' = Append(tasks, [post |-> n, workflow |-> w,
                                 thread |-> Inbound(n).thread])
    /\ At(l, "ack", n)
    /\ UNCHANGED <<network, current, botKnown, aliased, paused, request, up,
                   asking, ingFaults>>

(* _post_acknowledgement: a post of the bot's own in the same thread.      *)
PostAcknowledgement(l) ==
    /\ listener[l].at = "ack"
    /\ Publish(OwnPost(Inbound(listener[l].post).thread))
    /\ At(l, "recv", 0)
    /\ UNCHANGED <<current, botKnown, aliased, paused, request, up, tasks,
                   asking, ingFaults>>

-----------------------------------------------------------------------------
(* start, pause and resume, as the API's requests and the lifespan call    *)
(* them.                                                                   *)

(* Mutant: the reference is dropped and the task left to itself.           *)
StopListener_DropsReference == UNCHANGED <<listener, wire>>

(* _stop_listener up to its await: the current listener is cancelled,      *)
(* wherever it is.                                                         *)
StopListener ==
    IF current = 0 THEN UNCHANGED <<listener, wire>>
    ELSE /\ listener' = [listener EXCEPT ![current] = [at |-> "dead", post |-> 0]]
         /\ wire' = [wire EXCEPT ![current] = {}]

(* The last step of start(): whether the bot could be identified and which *)
(* channels could be resolved is up to the provider.                       *)
Launch ==
    /\ FreshIds # {}
    /\ At(NextFresh, "connect", 0)
    /\ current' = NextFresh
    /\ \/ botKnown' = TRUE /\ aliased' = Routes /\ UNCHANGED ingFaults
       \/ /\ IngFault
          /\ botKnown' \in {TRUE, botKnown}
          /\ aliased' \in SUBSET Routes

Goto(r, where) ==
    request' = [request EXCEPT ![r] = IF where = "idle" THEN NoRequest
                                      ELSE [request[r] EXCEPT !.at = where]]

(* lifespan: the listener is started unless it is paused.                  *)
Boot ==
    /\ ~up
    /\ up' = TRUE
    /\ IF paused THEN UNCHANGED <<listener, current, botKnown, aliased, ingFaults>>
                 ELSE Launch
    /\ UNCHANGED <<network, paused, request, tasks, asking>>

(* The process ends: what it held in memory is gone, the row stays.        *)
GatewayCrash ==
    /\ up /\ IngFault
    /\ up' = FALSE
    /\ listener' = [l \in Lids |-> IF Alive(l) THEN [at |-> "dead", post |-> 0]
                                               ELSE listener[l]]
    /\ wire' = [l \in Lids |-> {}]
    /\ request' = [r \in Toggles |-> NoRequest]
    /\ current' = 0 /\ botKnown' = FALSE /\ aliased' = {}
    /\ UNCHANGED <<provider, posts, unacked, repeated, paused, tasks, asking>>

Begin(r, op) ==
    /\ up /\ request[r] = NoRequest /\ Cardinality(Toggling) < MaxToggling
    /\ op = "resume" => FreshIds # {}
    /\ request' = [request EXCEPT ![r] = [op |-> op, at |-> op, prev |-> paused]]
    /\ UNCHANGED <<network, listener, current, botKnown, aliased, paused, up,
                   tasks, asking, ingFaults>>

AfterIngress(r) == IF request[r].at \in {"pause", "stopping", "resume", "starting"}
                   THEN "persist" ELSE "idle"

(* ingress.pause(), from the request itself or to undo a resume.           *)
Pause(r) ==
    /\ request[r].at \in {"pause", "undo_pause"}
    /\ StopListener
    /\ Goto(r, IF request[r].at = "pause" THEN "stopping" ELSE "undo_stopping")
    /\ UNCHANGED <<provider, posts, unacked, repeated, current, botKnown,
                   aliased, paused, up, tasks, asking, ingFaults>>

PauseDone(r) ==
    /\ request[r].at \in {"stopping", "undo_stopping"}
    /\ current' = 0
    /\ Goto(r, AfterIngress(r))
    /\ UNCHANGED <<network, listener, botKnown, aliased, paused, up, tasks,
                   asking, ingFaults>>

(* ingress.resume(): start() returns at once when a listener runs.         *)
Resume(r) ==
    /\ request[r].at \in {"resume", "undo_resume"}
    /\ Goto(r, IF running THEN AfterIngress(r)
               ELSE IF request[r].at = "resume" THEN "starting" ELSE "undo_starting")
    /\ UNCHANGED <<network, listener, current, botKnown, aliased, paused, up,
                   tasks, asking, ingFaults>>

StartDone(r) ==
    /\ request[r].at \in {"starting", "undo_starting"}
    /\ Launch
    /\ Goto(r, AfterIngress(r))
    /\ UNCHANGED <<network, paused, up, tasks, asking>>

(* The routes cannot be read: start() raises, the request fails.           *)
StartFails(r) ==
    /\ request[r].at \in {"starting", "undo_starting"} /\ IngFault
    /\ Goto(r, "idle")
    /\ UNCHANGED <<network, listener, current, botKnown, aliased, paused, up,
                   tasks, asking>>

Persist(r) ==
    /\ request[r].at = "persist"
    /\ paused' = (request[r].op = "pause")
    /\ Goto(r, "idle")
    /\ UNCHANGED <<network, listener, current, botKnown, aliased, up, tasks,
                   asking, ingFaults>>

(* Mutant: the listener is left as the request set it.                     *)
Undo_Nothing(r) == "idle"

Undo(r) ==
    IF request[r].prev = (request[r].op = "pause") THEN "idle"
    ELSE IF request[r].prev THEN "undo_pause" ELSE "undo_resume"

PersistFails(r) ==
    /\ request[r].at = "persist" /\ IngFault
    /\ Goto(r, Undo(r))
    /\ UNCHANGED <<network, listener, current, botKnown, aliased, paused, up,
                   tasks, asking>>

-----------------------------------------------------------------------------
(* _handle_ask_user_question in the runtime of the first task. *)

AskAt(where) == dialog' = [dialog EXCEPT !.at = where]

(* user_question_requested: the collector makes the task wait; the report  *)
(* may be lost.                                                            *)
RequestAnswer ==
    /\ \/ dialog.at = "none" /\ tasks # <<>>
       \/ dialog.at = "next" /\ dialog.question < dialog.total
    /\ dialog' = [dialog EXCEPT !.at = "requested", !.question = @ + 1]
    /\ \/ waiting' = TRUE /\ UNCHANGED ingFaults
       \/ IngFault /\ UNCHANGED waiting
    /\ UNCHANGED <<network, gateway, tasks, replies>>

(* Mutant: the time is taken once, before the first question.              *)
Stamp_Once ==
    /\ dialog.at = "requested"
    /\ dialog' = [dialog EXCEPT !.at = "post",
                                !.after = IF dialog.question = 1 THEN Len(replies) ELSE @]
    /\ UNCHANGED <<network, gateway, tasks, waiting, replies, ingFaults>>

(* started_at_ms, as a place in the order of the replies.                  *)
Stamp ==
    /\ dialog.at = "requested"
    /\ dialog' = [dialog EXCEPT !.at = "post", !.after = Len(replies)]
    /\ UNCHANGED <<network, gateway, tasks, waiting, replies, ingFaults>>

(* post_task_message; when it fails the task waits all the same            *)
(* (user_question_delivery_failed) and the tool call is denied.            *)
PostQuestion ==
    /\ dialog.at = "post"
    /\ \/ up /\ Publish(OwnPost(tasks[1].thread)) /\ AskAt("poll")
          /\ UNCHANGED <<waiting, ingFaults>>
       \/ IngFault /\ AskAt("denied") /\ waiting' = TRUE /\ UNCHANGED network
    /\ UNCHANGED <<gateway, tasks, replies>>

(* get_message_reply: the first reply later than the stamp.                *)
PollReply ==
    /\ dialog.at = "poll" /\ up /\ Len(replies) > dialog.after
    /\ dialog' = [dialog EXCEPT !.at = "next",
                                !.answers = Append(@, dialog.after + 1)]
    /\ UNCHANGED <<network, gateway, tasks, waiting, replies, ingFaults>>

(* An hour without a reply: denied, and nothing is reported.               *)
PollTimeout ==
    /\ dialog.at = "poll" /\ IngFault /\ AskAt("denied")
    /\ UNCHANGED <<network, gateway, tasks, waiting, replies>>

(* user_question_resolved: the task is resumed; the report may be lost.    *)
Resolve ==
    /\ dialog.at = "next" /\ dialog.question = dialog.total
    /\ AskAt("allowed")
    /\ \/ waiting' = FALSE /\ UNCHANGED ingFaults
       \/ IngFault /\ UNCHANGED waiting
    /\ UNCHANGED <<network, gateway, tasks, replies>>

-----------------------------------------------------------------------------
Outside == \E i \in Inputs : PostRoot(i) \/ PostReply(i)

ListenerStep(l) ==
    \/ Connect(l) \/ Disconnect(l)
    \/ \E n \in 1..Len(posts) : ReceiveMattermost(l, n) \/ ReceiveSlack(l, n)
    \/ HandleMessage(l) \/ HydrateFails(l) \/ CreateTask(l) \/ PostAcknowledgement(l)

RequestStep(r) ==
    \/ \E op \in {"pause", "resume"} : Begin(r, op)
    \/ Pause(r) \/ PauseDone(r) \/ Resume(r) \/ StartDone(r) \/ StartFails(r)
    \/ Persist(r) \/ PersistFails(r)

AskStep ==
    RequestAnswer \/ Stamp \/ PostQuestion \/ PollReply \/ PollTimeout \/ Resolve

IngNext ==
    \/ Outside \/ Boot \/ GatewayCrash \/ AskStep
    \/ \E l \in Lids : ListenerStep(l)
    \/ \E r \in Toggles : RequestStep(r)

IngSpec == IngInit /\ [][IngNext]_ingVars

-----------------------------------------------------------------------------
(* Once no pause or resume request is being handled, a connector that the  *)
(* table calls paused has no listener at work: _set_platform_connector_    *)
(* paused changes the listener before the row, and undoes it when the row  *)
(* cannot be written.                                                      *)
PausedIsSilent ==
    Toggling = {} /\ paused => \A l \in Lids : ~Alive(l)

(* A post starts one task at most, whatever pauses, restarts and           *)
(* reconnections happen between, unless Slack repeats an envelope it       *)
(* believes unacknowledged; the bot's own prompts and acknowledgements,    *)
(* which the provider sends back to the listener, start none, also when    *)
(* the bot could not be identified at start.                               *)
OneTaskPerPost ==
    /\ \A i \in 1..Len(tasks) : posts[tasks[i].post].who # Self
    /\ \A i, j \in 1..Len(tasks) :
          tasks[i].post = tasks[j].post /\ tasks[i].post \notin repeated => i = j

(* No recorded reply answers two questions: each question takes a reply    *)
(* later than those the questions before it took.                          *)
AnswersAdvance ==
    \A i, j \in 1..Len(dialog.answers) : i < j => dialog.answers[i] < dialog.answers[j]

(* On Mattermost, where a post names its channel, it makes no difference   *)
(* to the route which channel ids could be resolved at start.              *)
AliasNeutral ==
    provider = "mattermost" =>
        \A n \in 1..Len(posts) :
            match_message_route(Inbound(n), aliased) = match_message_route(Inbound(n), {})

-----------------------------------------------------------------------------
(* The inductive invariants behind them. *)

PostRecord ==
    [who : People \cup {Self}, kind : {"human", "bot", "webhook"}, root : BOOLEAN,
     thread : Nat, channel : Channels, text : Texts \cup {"own"}, hook : Hooks \cup {""},
     accounts : Accounts \cup {{}}, environments : Environments \cup {{}}]
TaskRecord == [post : Nat, workflow : {r.workflow : r \in Routes}, thread : Nat]
ListenerRecord == [at : {"none", "dead", "connect", "recv", "handle", "create", "ack"}, post : Nat]
RequestRecord ==
    [op : {"none", "pause", "resume"},
     at : {"idle", "pause", "stopping", "resume", "starting", "persist", "undo_pause",
           "undo_stopping", "undo_resume", "undo_starting"},
     prev : BOOLEAN]
DialogRecord ==
    [at : {"none", "requested", "post", "poll", "next", "denied", "allowed"},
     total : Nat, question : Nat, after : Nat, answers : Seq(Nat)]

NetworkType ==
    /\ provider \in {"mattermost", "slack"}
    /\ posts \in Seq(PostRecord)
    /\ \A n \in 1..Len(posts) : posts[n].thread <= Len(posts)
    /\ unacked \subseteq 1..Len(posts)
    /\ wire \in [Lids -> SUBSET (1..Len(posts))]

ListenerType ==
    /\ listener \in [Lids -> ListenerRecord]
    /\ \A l \in Lids : listener[l].at \in Handling => listener[l].post \in 1..Len(posts)

ControlType ==
    /\ current \in 0..MaxStarts /\ aliased \subseteq Routes
    /\ botKnown \in BOOLEAN /\ paused \in BOOLEAN /\ up \in BOOLEAN
    /\ request \in [Toggles -> RequestRecord]

TaskType ==
    /\ tasks \in Seq(TaskRecord)
    /\ \A i \in 1..Len(tasks) :
          tasks[i].post \in 1..Len(posts) /\ tasks[i].thread \in 1..Len(posts)

DialogType ==
    /\ replies \in Seq(Nat) /\ dialog \in DialogRecord
    /\ dialog.at = "none" \/ tasks # <<>>

IngTypeOK == NetworkType /\ ListenerType /\ ControlType /\ TaskType /\ DialogType

(* A reply that was taken lies before the place the next one is looked for *)
(* from.                                                                   *)
AnswersInv ==
    /\ \A i \in 1..Len(dialog.answers) :
          /\ dialog.answers[i] <= Len(replies)
          /\ dialog.at \in {"post", "poll"} => dialog.answers[i] <= dialog.after
    /\ AnswersAdvance

(* What the bot posts is of the kind no rule lets in.                      *)
OwnInv ==
    /\ \A n \in 1..Len(posts) : posts[n].who = Self => posts[n].kind = "bot"
    /\ \A i \in 1..Len(tasks) : posts[tasks[i].post].who # Self

IngressInv == IngTypeOK /\ AnswersInv /\ OwnInv

(* Requests one at a time: a listener at work is the current one, and      *)
(* there is none wherever a request, or a paused connector, has stopped    *)
(* it.                                                                     *)
Silent == \A l \in Lids : ~Alive(l)

ToggleStage(r) ==
    /\ \/ request[r].at = "idle"
       \/ request[r].prev = paused /\ request[r].op \in {"pause", "resume"}
    /\ request[r].at \in {"pause", "stopping", "undo_resume", "undo_starting"} =>
          request[r].op = "pause"
    /\ request[r].at \in {"resume", "starting", "undo_pause", "undo_stopping"} =>
          request[r].op = "resume"
    /\ request[r].at \in {"undo_resume", "undo_starting"} => ~paused
    /\ request[r].at \in {"stopping", "starting", "undo_stopping", "undo_starting"} => Silent
    /\ request[r].at = "persist" /\ request[r].op = "pause" => Silent
    /\ request[r].at \in {"pause", "resume"} /\ paused => Silent

ListenerInv ==
    /\ \A l \in Lids : Alive(l) => l = current
    /\ \A r, z \in Toggling : r = z
    /\ ~up => Toggling = {} /\ Silent
    /\ \A r \in Toggles : ToggleStage(r)
    /\ PausedIsSilent

(* A post that was not sent again is under way, being handled, or the      *)
(* subject of a task, and only one of them.                                *)
Handled(n) == \E l \in Lids : listener[l].at \in {"handle", "create"} /\ listener[l].post = n
HasTask(n) == \E i \in 1..Len(tasks) : tasks[i].post = n

OnTheWay(n) == n \in unacked \/ \E l \in Lids : n \in wire[l]
Once(n) ==
    /\ OnTheWay(n) => ~Handled(n) /\ ~HasTask(n)
    /\ Handled(n) => ~HasTask(n)
    /\ \A i, j \in 1..Len(tasks) : tasks[i].post = n /\ tasks[j].post = n => i = j

DeliveryInv ==
    /\ \A l \in Lids : wire[l] # {} => provider = "mattermost" /\ Alive(l)
    /\ unacked # {} => provider = "slack"
    /\ \A n \in 1..Len(posts) : n \in repeated \/ Once(n)

OneListenerInv == IngressInv /\ ListenerInv /\ DeliveryInv
=============================================================================
