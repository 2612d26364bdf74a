--------------------------- MODULE SessionRuntime ---------------------------
(***************************************************************************)
(* One attempt of a session inside its container: run_agent_session and    *)
(* main of runtime/session_entrypoint.py.  The main loop takes the         *)
(* messages of the Claude CLI from a queue, tracks the children            *)
(* (asynchronous subagents) that still run, decides which result ends the  *)
(* session, and reports the transcript in batches; a timer and the tool    *)
(* hooks report it as well.                                                *)
(*                                                                         *)
(* The CLI is external: child, turn and prompts are its own view, which    *)
(* the runtime sees only through the queue.                                *)
(***************************************************************************)
EXTENDS SessionTrace, FiniteSets

CONSTANTS
    Children,      \* task ids of subagents
    NoChild,
    BatchSize,     \* CONVERSATION_BATCH_SIZE
    MaxQueue,      \* bound: messages in the output queue
    MaxMessages,   \* bound: messages of the CLI
    MaxHooks,      \* bound: transcript entries of the tool hooks
    MaxDrops       \* bound: reports that fail

ASSUME RuntimeAssumptions ==
    /\ BatchSize \in Nat \ {0} /\ MaxQueue \in Nat /\ MaxMessages \in Nat
    /\ MaxHooks \in Nat /\ MaxDrops \in Nat /\ NoChild \notin Children

VARIABLES
    (* the CLI *)
    child,      \* "none", "called", "running" or "finished"
    resumed,    \* children resumed by a SendMessage
    turn,       \* the coordinator is at work
    prompts,    \* user messages on stdin it has not read
    cli,        \* "up" or "gone"
    out,        \* output_queue
    said,       \* messages emitted so far (bound)
    (* the main loop *)
    pc,         \* "next", "flush", "after", "cancel", "final", "ok" or "failed"
    taken,      \* the message being handled
    pending,    \* pending_async_subagent_tool_ids
    owner,      \* async_subagent_task_ids
    had,        \* had_async_subagents
    final,      \* final_text: the position in conv of the result it came from, or 0
    settled,    \* coordinator_result_after_subagents
    closed,     \* prompt_stream_closed
    retried,    \* empty_subagent_retries
    waits,      \* active_human_waits, by hook
    reminded,   \* ask_user_question_reminder_sent
    (* the transcript *)
    conv,       \* conversation
    flushed,    \* flushed_messages
    aged,       \* pending_batch_started_at is set
    lock,       \* flush_lock
    flusher,    \* what each of main, timer, hook and reminder is doing with it
    reported,   \* slices of conv sent to /events, in order: <<from, to>>
    stored,     \* the messages the gateway has
    drops,
    (* ghosts *)
    early,      \* the stream was closed while a prompt was unread or a turn under way
    resent      \* a cancelled task had sent a slice that is sent again

cliVars   == <<child, resumed, turn, prompts, cli, said>>
loopVars  == <<pc, taken, pending, owner, had, settled, final, closed, retried, reminded, early>>
flushVars == <<flushed, aged, lock, flusher, reported, stored, drops, resent>>
sesVars   == <<cliVars, out, loopVars, waits, conv, flushVars>>

Flushers  == {"main", "timer", "hook", "reminder"}
Cancelled == {"timer", "reminder"}   \* the tasks the finally clause cancels
NoOne     == "none"
NotFlushing == [at |-> "idle", force |-> FALSE, from |-> 0, to |-> 0]

Msg(kind, k, tool) == [kind |-> kind, child |-> k, tool |-> tool, parent |-> Root, busy |-> {}]
NoMsg == Msg("none", NoChild, Root)

Spawn(k)  == <<k, 1>>
Resume(k) == <<k, 2>>
Tool(k)   == IF k \in resumed THEN Resume(k) ELSE Spawn(k)
Busy      == {k \in Children : child[k] \in {"called", "running"}}

SesInit ==
    /\ child = [k \in Children |-> "none"] /\ resumed = {}
    /\ turn = FALSE /\ prompts = 1 /\ cli = "up" /\ out = <<>> /\ said = 0
    /\ pc = "next" /\ taken = NoMsg /\ pending = {} /\ owner = <<>>
    /\ had = FALSE /\ settled = FALSE /\ closed = FALSE /\ retried = {} /\ waits = {}
    /\ reminded = FALSE
    /\ conv = <<>> /\ flushed = 0 /\ aged = FALSE /\ lock = NoOne
    /\ flusher = [f \in Flushers |-> NotFlushing]
    /\ reported = <<>> /\ stored = <<>> /\ drops = 0
    /\ final = 0 /\ early = FALSE /\ resent = FALSE

-----------------------------------------------------------------------------
(* The CLI (external).                                                     *)

Emit(m) ==
    /\ cli = "up" /\ Len(out) < MaxQueue /\ said < MaxMessages
    /\ out' = Append(out, m)
    /\ said' = said + 1

Quietly == UNCHANGED <<loopVars, waits, conv, flushVars>>

ReadPrompt ==
    /\ cli = "up" /\ ~turn /\ prompts > 0
    /\ turn' = TRUE /\ prompts' = prompts - 1
    /\ UNCHANGED <<child, resumed, cli, out, said>> /\ Quietly

CallChild(k) ==
    /\ turn /\ child[k] = "none"
    /\ child' = [child EXCEPT ![k] = "called"]
    /\ Emit(Msg("use", k, Spawn(k)))
    /\ UNCHANGED <<resumed, turn, prompts, cli>> /\ Quietly

ResumeChild(k) ==
    /\ turn /\ child[k] = "finished" /\ k \notin resumed
    /\ child' = [child EXCEPT ![k] = "called"] /\ resumed' = resumed \cup {k}
    /\ Emit(Msg("send", k, Resume(k)))
    /\ UNCHANGED <<turn, prompts, cli>> /\ Quietly

ChildStarts(k) ==
    /\ child[k] = "called"
    /\ child' = [child EXCEPT ![k] = "running"]
    /\ Emit(Msg("started", k, Tool(k)))
    /\ UNCHANGED <<resumed, turn, prompts, cli>> /\ Quietly

(* The Agent call is refused.                                              *)
ChildRefused(k) ==
    /\ child[k] = "called" /\ k \notin resumed
    /\ child' = [child EXCEPT ![k] = "refused"]
    /\ Emit(Msg("err", k, Spawn(k)))
    /\ UNCHANGED <<resumed, turn, prompts, cli>> /\ Quietly

(* A message of the child, a task_updated that precedes its end, or a tool *)
(* result that says it returned no output.                                 *)
ChildSays(k, kind) ==
    /\ child[k] = "running"
    /\ Emit([Msg(kind, k, IF kind = "empty" THEN Spawn(k) ELSE Tool(k)) EXCEPT !.parent = Spawn(k)])
    /\ UNCHANGED <<child, resumed, turn, prompts, cli>> /\ Quietly

(* A notification names the tool or only the task; the coordinator reads   *)
(* it in a turn.                                                           *)
ChildEnds(k, tool) ==
    /\ child[k] = "running"
    /\ child' = [child EXCEPT ![k] = "finished"]
    /\ Emit(Msg("note", k, tool))
    /\ turn' = TRUE
    /\ UNCHANGED <<resumed, prompts, cli>> /\ Quietly

CoordinatorSays ==
    /\ turn
    /\ Emit(Msg("said", NoChild, Root))
    /\ UNCHANGED <<child, resumed, turn, prompts, cli>> /\ Quietly

CoordinatorResult ==
    /\ turn
    /\ turn' = FALSE
    /\ Emit([Msg("result", NoChild, Root) EXCEPT !.busy = Busy])
    /\ UNCHANGED <<child, resumed, prompts, cli>> /\ Quietly

CliDone ==
    /\ ~turn /\ closed /\ prompts = 0
    /\ Emit(Msg("done", NoChild, Root))
    /\ cli' = "gone"
    /\ UNCHANGED <<child, resumed, turn, prompts>> /\ Quietly

CliFails ==
    /\ Emit(Msg("error", NoChild, Root))
    /\ cli' = "gone"
    /\ UNCHANGED <<child, resumed, turn, prompts>> /\ Quietly

-----------------------------------------------------------------------------
(* The transcript.                                                         *)

Unflushed == Len(conv) - flushed

(* A flush is requested by its caller, then waits for the lock.            *)
Want(force)     == [NotFlushing EXCEPT !.at = "want", !.force = force]
Wants(f, force) == flusher' = [flusher EXCEPT ![f] = Want(force)]
FlushDone(f)    == flusher[f].at = "idle"

(* Mutant: nothing keeps two flushes apart.                                *)
Lockable_Always(f) == flusher[f].at = "want"

Lockable(f) == flusher[f].at = "want" /\ lock = NoOne

FlushLock(f) ==
    /\ Lockable(f)
    /\ lock' = f
    /\ flusher' = [flusher EXCEPT ![f].at = "look"]
    /\ UNCHANGED <<cliVars, out, loopVars, waits, conv, flushed, aged, reported, stored, drops, resent>>

(* The slice is cut: a full batch, or all there is when forced; with       *)
(* nothing to send the flush ends.                                         *)
FlushCut(f) ==
    /\ flusher[f].at = "look"
    /\ LET to == IF Unflushed >= BatchSize THEN flushed + BatchSize
                 ELSE IF flusher[f].force THEN Len(conv) ELSE flushed IN
       IF to > flushed
       THEN /\ flusher' = [flusher EXCEPT ![f].at = "send", ![f].from = flushed, ![f].to = to]
            /\ UNCHANGED <<aged, lock>>
       ELSE /\ flusher' = [flusher EXCEPT ![f] = NotFlushing]
            /\ aged' = (Unflushed > 0)
            /\ lock' = NoOne
    /\ UNCHANGED <<cliVars, out, loopVars, waits, conv, flushed, reported, stored, drops, resent>>

Slice(f) == <<flusher[f].from, flusher[f].to>>

(* report_event logs a failure and returns: the slice is not sent again.   *)
Report(f) ==
    /\ reported' = Append(reported, Slice(f))
    /\ \/ /\ stored' = stored \o SubSeq(conv, flusher[f].from + 1, flusher[f].to)
          /\ UNCHANGED drops
       \/ /\ drops < MaxDrops /\ drops' = drops + 1
          /\ UNCHANGED stored

(* A full batch moves the mark to its own end; a forced one to the end     *)
(* the transcript has when the report returns.                             *)
FlushSent(f) ==
    /\ flusher[f].at = "send"
    /\ Report(f)
    /\ flushed' = IF flusher[f].to = flusher[f].from + BatchSize THEN flusher[f].to ELSE Len(conv)
    /\ flusher' = [flusher EXCEPT ![f].at = "look"]
    /\ UNCHANGED <<cliVars, out, loopVars, waits, conv, aged, lock, resent>>

(* conversation_batch_flush_loop.                                          *)
TimerFlush ==
    /\ pc \in {"next", "flush", "after"} /\ aged /\ FlushDone("timer")
    /\ Wants("timer", TRUE)
    /\ UNCHANGED <<cliVars, out, loopVars, waits, conv, flushed, aged, lock, reported, stored, drops,
                   resent>>

(* A tool hook: a question to the user or an approval, with its transcript *)
(* entry; the wait is tracked for as long as it lasts.                     *)
HookWaits ==
    /\ cli = "up" /\ pc \in {"next", "flush", "after"} /\ waits = {} /\ FlushDone("hook")
    /\ Cardinality({i \in 1..Len(conv) : conv[i].kind = "user"}) < MaxHooks
    /\ waits' = {"hook"}
    /\ conv' = Append(conv, Msg("user", NoChild, Root))
    /\ Wants("hook", FALSE)
    /\ UNCHANGED <<cliVars, out, loopVars, flushed, aged, lock, reported, stored, drops, resent>>

(* Mutant: a wait that ends in a timeout is not taken out.                 *)
EndWait_Kept == waits

EndWait == {}

(* The reply came, or the wait timed out.                                  *)
HookAnswered ==
    /\ waits # {} /\ FlushDone("hook")
    /\ waits' = EndWait
    /\ UNCHANGED <<cliVars, out, loopVars, conv, flushVars>>

-----------------------------------------------------------------------------
(* The main loop.                                                          *)

Discard(tools) == pending \ tools

(* _resumed_subagent_recipient: a SendMessage to a child whose own tool is *)
(* no longer pending.                                                      *)
IsResume(m) ==
    /\ m.kind = "send" /\ m.child \in DOMAIN owner
    /\ owner[m.child] \notin pending

NoteTool(m) == IF m.tool # Root THEN m.tool ELSE Lookup(owner, m.child, Root)

(* Mutant: task_updated counts as the end of a child.                      *)
Terminal_Updated(m) == m.kind \in {"note", "updated"}

(* Only a task_notification, with a terminal status, ends a child.         *)
Terminal(m) == m.kind = "note"

(* pending_async_subagent_tool_ids after a message; for task_started this  *)
(* is _set_pending_subagent_owner.                                         *)
PendingAfter(m) ==
    CASE m.kind = "use"     -> pending \cup {m.tool}
      [] IsResume(m)        -> pending \cup {m.tool}
      [] m.kind = "started" -> (pending \ {Lookup(owner, m.child, m.tool)}) \cup {m.tool}
      [] Terminal(m)        -> pending \ {NoteTool(m)}
      [] OTHER              -> pending

OwnerAfter(m) ==
    CASE m.kind = "started" \/ IsResume(m)          -> Extend(owner, m.child, m.tool)
      [] m.kind = "note" /\ NoteTool(m) # Root      -> Extend(owner, m.child, NoteTool(m))
      [] OTHER                                      -> owner

(* Mutant: the stream is closed by the first result, whatever still runs.  *)
Closes_AtOnce(m) == m.kind = "result"

(* close_prompt_stream_when_idle, called while no child has been seen      *)
(* (last_result_text is not empty: a result of the CLI has a text).        *)
Closes(m) == m.kind = "result" /\ ~had /\ pending = {}

Settles(m) == m.kind = "result" /\ had /\ pending = {}

(* A message is taken, its effect on the children noted, and appended.     *)
TakeMessage ==
    /\ pc = "next" /\ out # <<>> /\ Head(out).kind \notin {"done", "error"}
    /\ LET m == Head(out) IN
          /\ taken' = m
          /\ pending' = PendingAfter(m) /\ owner' = OwnerAfter(m)
          /\ had' = (had \/ m.kind \in {"use", "started"})
          /\ settled' = (settled \/ Settles(m))
          /\ closed' = (closed \/ Closes(m))
          /\ final' = IF m.kind = "result" /\ (had => pending = {}) THEN Len(conv) + 1 ELSE final
          /\ early' = (early \/ (Closes(m) /\ (prompts > 0 \/ turn \/ Len(out) > 1)))
          /\ conv' = Append(conv, m)
    /\ out' = Tail(out)
    /\ Wants("main", FALSE)
    /\ pc' = "flush"
    /\ UNCHANGED <<cliVars, retried, reminded, waits, flushed, aged, lock, reported, stored, drops, resent>>

(* After the flush: the settling result ends the loop; the result of an    *)
(* Agent call is looked at.                                                *)
AfterFlush ==
    /\ pc = "flush" /\ FlushDone("main")
    /\ pc' = IF taken.kind = "result" /\ settled THEN "cancel"
             ELSE IF taken.kind \in {"err", "empty"} THEN "after" ELSE "next"
    /\ UNCHANGED <<cliVars, out, taken, pending, owner, had, settled, closed, retried, reminded,
                   final, early, waits, conv, flushVars>>

(* An error takes the child out of pending; no output asks the coordinator *)
(* to retry, once for a tool id.                                           *)
AgentResult ==
    /\ pc = "after"
    /\ IF taken.kind = "err"
       THEN /\ pending' = Discard({taken.tool})
            /\ pc' = "next"
            /\ UNCHANGED <<prompts, retried, taken, conv, flushVars>>
       ELSE /\ retried' = retried \cup {taken.tool}
            /\ prompts' = IF taken.tool \in retried THEN prompts ELSE prompts + 1
            /\ IF taken.tool \in retried
               THEN pc' = "next" /\ UNCHANGED <<taken, conv, flushVars>>
               ELSE /\ conv' = Append(conv, Msg("user", NoChild, Root))
                    /\ taken' = NoMsg
                    /\ pc' = "flush"
                    /\ Wants("main", FALSE)
                    /\ UNCHANGED <<flushed, aged, lock, reported, stored, drops, resent>>
            /\ UNCHANGED pending
    /\ UNCHANGED <<child, resumed, turn, cli, said, out, owner, had, settled, closed, reminded,
                   final, early, waits>>

(* The turns or the time of a session without a result run out.            *)
RemindDue == ~reminded /\ final = 0

(* inject_ask_user_question_reminder, by its own task or between messages. *)
Remind ==
    /\ pc \in {"next", "flush", "after"} /\ RemindDue
    /\ reminded' = TRUE
    /\ prompts' = prompts + 1
    /\ conv' = Append(conv, Msg("user", NoChild, Root))
    /\ Wants("reminder", FALSE)
    /\ UNCHANGED <<child, resumed, turn, cli, said, out, pc, taken, pending, owner, had, settled,
                   final, closed, retried, early, waits, flushed, aged, lock, reported, stored,
                   drops, resent>>

(* The stream ended, failed, or was silent for too long with nobody being  *)
(* waited for (_next_query_event).                                         *)
QueryEnds ==
    /\ pc = "next"
    /\ \/ out # <<>> /\ Head(out).kind = "done"
       \/ out # <<>> /\ Head(out).kind = "error"
       \/ out = <<>> /\ waits = {}
    /\ pc' = IF out # <<>> /\ Head(out).kind = "done" /\ (had => settled)
             THEN "cancel" ELSE "failed"
    /\ cli' = "gone" /\ waits' = {}
    /\ UNCHANGED <<child, resumed, turn, prompts, said, out, taken, pending, owner, had, settled,
                   closed, retried, reminded, final, early, conv, flushVars>>

(* The finally clause: the query, the timer and the reminder are           *)
(* cancelled; a report one of them had under way may have arrived, and the *)
(* lock is released.                                                       *)
CancelTasks ==
    /\ pc = "cancel"
    /\ \/ \E f \in Cancelled : flusher[f].at = "send" /\ Report(f) /\ resent' = TRUE
       \/ UNCHANGED <<reported, stored, drops, resent>>
    /\ lock' = IF lock \in Cancelled THEN NoOne ELSE lock
    /\ flusher' = [f \in Flushers |-> IF f = "main" THEN Want(TRUE)
                                      ELSE IF f \in Cancelled THEN NotFlushing ELSE flusher[f]]
    /\ cli' = "gone" /\ waits' = {} /\ pc' = "final"
    /\ UNCHANGED <<child, resumed, turn, prompts, said, out, taken, pending, owner, had, settled,
                   closed, retried, reminded, final, early, conv, flushed, aged>>

(* The last forced flush, then session_complete.                           *)
Complete ==
    /\ pc = "final" /\ FlushDone("main")
    /\ pc' = "ok"
    /\ \/ /\ stored' = Append(stored, Msg(IF final = 0 THEN "blank" ELSE "complete", NoChild, Root))
          /\ UNCHANGED drops
       \/ drops < MaxDrops /\ drops' = drops + 1 /\ UNCHANGED stored
    /\ UNCHANGED <<cliVars, out, taken, pending, owner, had, settled, closed, retried, reminded,
                   final, early, waits, conv, flushed, aged, lock, flusher, reported, resent>>

FlushStep == \E f \in Flushers : FlushLock(f) \/ FlushCut(f) \/ FlushSent(f)
LoopStep  == TakeMessage \/ AfterFlush \/ AgentResult \/ QueryEnds \/ CancelTasks \/ Complete

CliStep ==
    \/ ReadPrompt \/ CoordinatorSays \/ CoordinatorResult \/ CliDone \/ CliFails
    \/ \E k \in Children :
          \/ CallChild(k) \/ ResumeChild(k) \/ ChildStarts(k)
          \/ ChildRefused(k) \/ \E kind \in {"said", "updated", "empty"} : ChildSays(k, kind)
          \/ \E tool \in {Root, Tool(k)} : ChildEnds(k, tool)

SesNext ==
    CliStep \/ FlushStep \/ LoopStep \/ TimerFlush \/ Remind \/ HookWaits \/ HookAnswered

-----------------------------------------------------------------------------
(* The result a session completes with was emitted by the coordinator when *)
(* no subagent was running any more, however the lifecycle messages of the *)
(* subagents interleave: an interim result is never taken for it.          *)
FinalAfterChildren == final # 0 => conv[final].busy = {}

(* The stream that carries permission answers is not closed under a        *)
(* subagent, unless a prompt was still unread, or a turn under way, when   *)
(* the result that closes it was handled.                                  *)
StdinOpen == closed /\ ~early => Busy = {}

(* The slices of the transcript follow each other: none is sent twice and  *)
(* none before an earlier one, whoever flushes; a report cancelled on the  *)
(* way is the exception.                                                   *)
BatchesInOrder ==
    ~resent => \A i \in 1..(Len(reported) - 1) : reported[i][2] <= reported[i + 1][1]

(* "We capture all of them": every message of a session that completes is  *)
(* in a report.                                                            *)
EveryMessageReported ==
    pc = "ok" => \A i \in 1..Len(conv) : \E r \in 1..Len(reported) :
                    reported[r][1] < i /\ i <= reported[r][2]

(* The trace of a transcript that arrived whole: each message of a         *)
(* subagent is in the branch of the call that spawned it, a branch's       *)
(* finding is its own last notification, and the final node is the result  *)
(* the session completed with.                                             *)
TraceFaithful ==
    pc = "ok" /\ ~resent /\ IsPrefix(conv, stored) =>
        LET tree == build_trace_tree(stored) IN
        /\ \A i \in 1..Len(conv) : conv[i].kind = "said" => tree.parent[i] = conv[i].parent
        /\ \A b \in DOMAIN tree.finding :
              LET i == tree.finding[b] IN
              /\ conv[i].kind = "note" /\ Spawn(conv[i].child) = b
              /\ \A j \in (i + 1)..Len(conv) : conv[j].kind = "note" => conv[j].child # conv[i].child
        /\ Len(stored) > Len(conv) => tree.final = final

(* Once the CLI is at work the session ends: the watchdog sees to it when  *)
(* the CLI falls silent, and is suspended only while somebody is really    *)
(* waited for.                                                             *)
SessionEnds == turn ~> pc \in {"ok", "failed"}

-----------------------------------------------------------------------------
SesSpec == SesInit /\ [][SesNext]_sesVars

(* The inductive invariants behind FinalAfterChildren, StdinOpen and       *)
(* BatchesInOrder.                                                         *)

ToolsOf(k) == {Spawn(k), Resume(k)}
ToolIds    == UNION {ToolsOf(k) : k \in Children}
Kinds      == {"none", "use", "send", "started", "err", "said", "updated", "empty", "note", "result",
               "done", "error", "user"}
Message    == [kind : Kinds, child : Children \cup {NoChild}, tool : ToolIds \cup {Root},
               parent : ToolIds \cup {Root}, busy : SUBSET Children]

Opens(m)  == m.kind \in {"use", "send", "started"}
Shuts(m)  == m.kind \in {"note", "err"}

(* A lifecycle message names a child and a tool id of that child; a        *)
(* notification may leave the tool id out.                                 *)
NamesChild(m) ==
    /\ Opens(m) \/ Shuts(m) =>
          m.child \in Children /\ m.tool \in ToolsOf(m.child) \cup (IF m.kind = "note" THEN {Root} ELSE {})
    /\ m.kind = "err" => m.tool = Spawn(m.child)

CliType  == /\ child \in [Children -> {"none", "called", "running", "finished", "refused"}]
            /\ resumed \subseteq Children /\ prompts \in Nat
            /\ out \in Seq(Message) /\ \A i \in 1..Len(out) : NamesChild(out[i])
LoopType == /\ taken \in Message /\ NamesChild(taken) /\ final \in 0..Len(conv)
            /\ DOMAIN owner \subseteq Children /\ \A k \in DOMAIN owner : owner[k] \in ToolsOf(k)
Flush    == [at : {"idle", "want", "look", "send"}, force : BOOLEAN, from : Nat, to : Nat]
FlushType == /\ conv \in Seq(Message) /\ flushed \in 0..Len(conv)
             /\ lock \in Flushers \cup {NoOne} /\ reported \in Seq(Nat \X Nat)
             /\ flusher \in [Flushers -> Flush]
SesTypeOK == CliType /\ LoopType /\ FlushType

(* Only the holder of the lock cuts and sends; what it sends starts where  *)
(* the reported transcript ends.                                           *)
HolderInv ==
    /\ \A f \in Flushers : flusher[f].at \in {"look", "send"} => lock = f
    /\ \A f \in Flushers : flusher[f].at = "send" =>
          flusher[f].from = flushed /\ flusher[f].from < flusher[f].to /\ flusher[f].to <= Len(conv)
    /\ pc \in {"next", "after", "cancel"} => FlushDone("main")
    /\ ~reminded => FlushDone("reminder")
SentInv ==
    ~resent => BatchesInOrder /\ \A i \in 1..Len(reported) : reported[i][2] <= flushed

(* What the runtime will know of a child when it takes message i of the    *)
(* queue: one of its tools is pending, or will be by a message before i,   *)
(* and no message in between takes it out.                                 *)
Held(k)       == pending \cap ToolsOf(k) # {}
About(k, i)   == out[i].child = k
StopIn(k, a, b) == \E j \in a..b : About(k, j) /\ Shuts(out[j])
Awaited(k, i) ==
    \/ Held(k) /\ ~StopIn(k, 1, i - 1)
    \/ \E j \in 1..(i - 1) : About(k, j) /\ Opens(out[j]) /\ ~StopIn(k, j + 1, i - 1)

Began(k) == child[k] \in {"running", "finished"} \/ k \in resumed

(* A result in the queue that names k as busy. *)
BusyLater(k, i) == \E j \in i..Len(out) : out[j].kind = "result" /\ k \in out[j].busy

(* A busy child will be waited for, and so will one that a result in the   *)
(* queue names as busy.                                                    *)
BusyAwaited    == \A k \in Busy : Awaited(k, Len(out) + 1)
ResultsAwaited == \A i \in 1..Len(out) : out[i].kind = "result" => \A k \in out[i].busy : Awaited(k, i)

(* A child that can be resumed is known by its task id. *)
KnownBefore(k, i) == k \in DOMAIN owner \/ \E j \in 1..(i - 1) : About(k, j) /\ out[j].kind = "started"
TasksKnown ==
    /\ \A k \in Children : Began(k) => KnownBefore(k, Len(out) + 1)
    /\ \A i \in 1..Len(out) : out[i].kind = "send" => KnownBefore(out[i].child, i)

(* A refused call is over. *)
RefusedOver ==
    /\ \A i \in 1..Len(out) : out[i].kind = "err" =>
          child[out[i].child] = "refused" /\ ~BusyLater(out[i].child, i + 1)
    /\ pc \in {"flush", "after"} /\ taken.kind = "err" =>
          child[taken.child] = "refused" /\ ~BusyLater(taken.child, 1)

(* had_async_subagents. *)
CallBefore(i) == \E j \in 1..(i - 1) : out[j].kind \in {"use", "started"}
HadKnown ==
    ~had => /\ pending = {} /\ DOMAIN owner = {}
            /\ \A i \in 1..Len(out) : out[i].kind \in {"send", "note"} => CallBefore(i)
            /\ \A k \in Children : child[k] # "none" => CallBefore(Len(out) + 1)

ChildrenInv ==
    BusyAwaited /\ ResultsAwaited /\ TasksKnown /\ RefusedOver /\ HadKnown /\ FinalAfterChildren

(* After the stream was closed in time nothing more is asked of the CLI.   *)
ClosedInv ==
    /\ pc = "after" => taken.kind \in {"err", "empty"}
    /\ closed /\ ~early =>
        /\ ~turn /\ prompts = 0 /\ Busy = {} /\ final # 0
        /\ \A i \in 1..Len(out) : out[i].kind \in {"done", "error"}
        /\ ~(pc \in {"flush", "after"} /\ taken.kind = "empty")

(* The inductive invariants behind TraceFaithful: of the trace of the      *)
(* transcript so far, of what is still in the queue, and of what the       *)
(* gateway has.                                                            *)
Tree == build_trace_tree(conv)

(* The call of a child is in the trace, with branches b, or in the queue q *)
(* before any message of the child is; only the spawning call has its tool *)
(* id.                                                                     *)
CalledBefore(b, q, k, i) ==
    Spawn(k) \in b \/ \E j \in 1..(i - 1) : q[j].child = k /\ q[j].kind = "use"

SaidAfterCall(b, q, i) ==
    /\ q[i].kind = "use" => q[i].tool = Spawn(q[i].child)
    /\ q[i].kind = "said" /\ q[i].parent # Root =>
          q[i].child \in Children /\ q[i].parent = Spawn(q[i].child) /\ CalledBefore(b, q, q[i].child, i)

CallsInv ==
    /\ \A k \in Children : child[k] # "none" => CalledBefore(Tree.branches, out, k, Len(out) + 1)
    /\ \A i \in 1..Len(out) : SaidAfterCall(Tree.branches, out, i)

(* The parts of a trace. *)
TreeShape(t) ==
    DOMAIN t = {"n", "branches", "byTask", "active", "parent", "finding", "results", "final"}

(* A task id is tied to the spawning call, whichever call resumed it.      *)
BranchInv ==
    /\ TreeShape(Tree) /\ Tree.n = Len(conv) /\ Tree.branches \subseteq {Spawn(k) : k \in Children}
    /\ \A k \in DOMAIN Tree.byTask : k \in Children /\ Tree.byTask[k] = Spawn(k)

ParentInv ==
    \A i \in 1..Len(conv) : conv[i].kind = "said" =>
        i \in DOMAIN Tree.parent /\ Tree.parent[i] = conv[i].parent

FindingInv ==
    \A b \in DOMAIN Tree.finding :
        LET i == Tree.finding[b] IN
        /\ i \in 1..Len(conv) /\ conv[i].kind = "note" /\ Spawn(conv[i].child) = b
        /\ conv[i].child \in DOMAIN Tree.byTask
        /\ \A j \in (i + 1)..Len(conv) : conv[j].kind = "note" => conv[j].child # conv[i].child

(* The last result is the final one when no child was ever seen, and once  *)
(* a result has settled the session, which ends the loop.                  *)
LastResult == IF Tree.results = <<>> THEN 0 ELSE Last(Tree.results)
FinalInv ==
    /\ Tree.results \in Seq(Nat \ {0}) /\ Tree.final = 0
    /\ ~had \/ settled => final = LastResult
    /\ settled => had /\ (pc \in {"next", "flush", "after"} => pc = "flush" /\ taken.kind = "result")
    /\ pc \in {"cancel", "final", "ok"} /\ had => settled

(* No more is stored than was flushed, but for the last event, which finds *)
(* everything flushed.                                                     *)
Ending == Msg(IF final = 0 THEN "blank" ELSE "complete", NoChild, Root)
Endings == {Msg("blank", NoChild, Root), Msg("complete", NoChild, Root)}
StoredInv ==
    /\ stored \in Seq(Message \cup Endings)
    /\ pc = "final" => FlushDone("main") \/ flusher["main"].force
    /\ pc = "ok" => FlushDone("main")
    /\ pc \in {"final", "ok"} /\ FlushDone("main") => flushed = Len(conv)
    /\ ~resent => \/ Len(stored) <= flushed
                  \/ pc = "ok" /\ Len(stored) = flushed + 1 /\ stored[flushed + 1] = Ending

TraceInv == CallsInv /\ BranchInv /\ ParentInv /\ FindingInv /\ FinalInv /\ StoredInv
=============================================================================
