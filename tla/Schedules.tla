------------------------------ MODULE Schedules ------------------------------
(***************************************************************************)
(* Cron schedules: gateway/provisioner.py, gateway/scheduler.py and the    *)
(* agent and schedule handlers of gateway/api.py.                          *)
(*                                                                         *)
(* A schedule lives twice: as a row of control_plane.schedules, which the  *)
(* provisioner copies from agent.yaml and the operator enables or          *)
(* disables, and as a job of the in-memory APScheduler, which only a start *)
(* of the gateway and update_schedule register.                            *)
(***************************************************************************)
EXTENDS Naturals

CONSTANTS
    Jobs,           \* schedules, by agent and name
    AgentOf,        \* the agent of each schedule
    Agents,
    Versions,       \* versions of the workflow repository
    Declared,       \* the schedules in the agent.yaml files of each version
    EnabledIn,      \* and whether they are enabled there
    NoVersion,
    MaxUpdates,     \* bound: update_schedule requests
    MaxScans,       \* bound: provisioner scans and starts of the gateway
    MaxLate         \* bound: late tasks counted

ASSUME ScheduleAssumptions ==
    /\ NoVersion \notin Versions /\ NoVersion \notin Jobs
    /\ AgentOf \in [Jobs -> Agents]
    /\ Declared \in [Versions -> SUBSET Jobs]
    /\ EnabledIn \in [Versions -> [Jobs -> BOOLEAN]]
    /\ MaxUpdates \in Nat /\ MaxScans \in Nat /\ MaxLate \in Nat

VARIABLES
    repo,       \* the version in the workflow roots
    rows,       \* schedules: there, enabled, and the version of cron and prompt
    agents,     \* agents: known, provisioned, paused
    jobs,       \* APScheduler: the version a job was registered with, or none
    serving,    \* the gateway: "down", "scanned" or "up"
    update,     \* the update_schedule request between its commit and the job
    fired,      \* handlers that have read their row and not yet created the task
    rescanned,  \* rows that a scan changed since the scheduler started
    late,       \* tasks created after the row was switched off, since its last good read
    budget      \* updates and scans so far (bound)

schedVars == <<repo, rows, agents, jobs, serving, update, fired, rescanned, late, budget>>

NoUpdate == [job |-> NoVersion, on |-> FALSE, text |-> NoVersion]
NoRow    == [there |-> FALSE, enabled |-> FALSE, text |-> NoVersion]

SchedInit ==
    /\ repo \in Versions
    /\ rows = [j \in Jobs |-> NoRow]
    /\ agents = [a \in Agents |-> [provisioned |-> FALSE, paused |-> TRUE]]
    /\ jobs = [j \in Jobs |-> NoVersion]
    /\ serving = "down"
    /\ update = NoUpdate
    /\ fired = {}
    /\ rescanned = {}
    /\ late = [j \in Jobs |-> 0]
    /\ budget = [updates |-> 0, scans |-> 0]

(* _sync_schedules: rows are created, overwritten (enabled included) and   *)
(* deleted after agent.yaml; an agent without a package is unprovisioned.  *)
sync_schedules(v) ==
    [j \in Jobs |-> IF j \in Declared[v]
                    THEN [there |-> TRUE, enabled |-> EnabledIn[v][j], text |-> v]
                    ELSE NoRow]

run_provisioner_scan(v) ==
    /\ rows' = sync_schedules(v)
    /\ agents' = [a \in Agents |->
                    [agents[a] EXCEPT !.provisioned = \E j \in Declared[v] : AgentOf[j] = a]]
    /\ budget.scans < MaxScans
    /\ budget' = [budget EXCEPT !.scans = @ + 1]

(* lifespan: scan, then start_scheduler.                                   *)
BootScan ==
    /\ serving = "down"
    /\ run_provisioner_scan(repo)
    /\ serving' = "scanned"
    /\ UNCHANGED <<repo, jobs, update, fired, rescanned, late>>

start_scheduler ==
    /\ serving = "scanned"
    /\ jobs' = [j \in Jobs |-> IF rows[j].enabled THEN rows[j].text ELSE NoVersion]
    /\ serving' = "up"
    /\ rescanned' = {}
    /\ UNCHANGED <<repo, rows, agents, update, fired, late, budget>>

(* trigger_workflow_repo_sync moved the roots to another version; its scan *)
(* changes the rows and leaves the jobs.                                   *)
SyncAndScan(v) ==
    /\ serving = "up" /\ v # repo
    /\ repo' = v
    /\ run_provisioner_scan(v)
    /\ rescanned' = rescanned \cup {j \in Jobs : rows'[j] # rows[j]}
    /\ UNCHANGED <<jobs, serving, update, fired, late>>

Stop ==
    /\ serving # "down"
    /\ serving' = "down"
    /\ jobs' = [j \in Jobs |-> NoVersion]
    /\ update' = NoUpdate /\ fired' = {} /\ rescanned' = {}
    /\ UNCHANGED <<repo, rows, agents, late, budget>>

(* pause_agent and resume_agent.                                           *)
SetAgentPaused(a, paused) ==
    /\ serving = "up" /\ agents[a].provisioned /\ agents[a].paused # paused
    /\ agents' = [agents EXCEPT ![a].paused = paused]
    /\ UNCHANGED <<repo, rows, jobs, serving, update, fired, rescanned, late, budget>>

(* update_schedule: the row is committed, the job follows.                 *)
UpdateRow(j, on) ==
    /\ serving = "up" /\ update = NoUpdate /\ budget.updates < MaxUpdates
    /\ rows[j].there /\ agents[AgentOf[j]].provisioned
    /\ rows' = [rows EXCEPT ![j].enabled = on]
    /\ update' = [job |-> j, on |-> on, text |-> rows[j].text]
    /\ budget' = [budget EXCEPT !.updates = @ + 1]
    /\ UNCHANGED <<repo, agents, jobs, serving, fired, rescanned, late>>

(* Mutant: a disabled schedule keeps its job.                              *)
JobAfter_Kept == IF update.on THEN update.text ELSE jobs[update.job]

JobAfter == IF update.on THEN update.text ELSE NoVersion

UpdateJob ==
    /\ update # NoUpdate
    /\ jobs' = [jobs EXCEPT ![update.job] = JobAfter]
    /\ update' = NoUpdate
    /\ rescanned' = IF rows[update.job].text = update.text /\ rows[update.job].enabled = update.on
                    THEN rescanned \ {update.job} ELSE rescanned
    /\ UNCHANGED <<repo, rows, agents, serving, fired, late, budget>>

Live(j) == rows[j].there /\ rows[j].enabled /\ ~agents[AgentOf[j]].paused

(* Mutant: the handler trusts that a job exists only while it is enabled.  *)
Reads_Anything(j) == TRUE

Reads(j) == Live(j)

(* _schedule_job_handler: the row and the agent are read; the task is made *)
(* of the prompt the job was registered with.  A job runs one instance at  *)
(* a time.                                                                 *)
Fire(j) ==
    /\ serving = "up" /\ jobs[j] # NoVersion /\ j \notin fired
    /\ Reads(j)
    /\ fired' = fired \cup {j}
    /\ late' = IF Live(j) THEN [late EXCEPT ![j] = 0] ELSE late
    /\ UNCHANGED <<repo, rows, agents, jobs, serving, update, rescanned, budget>>

FireCreates(j) ==
    /\ j \in fired /\ late[j] < MaxLate
    /\ late' = IF Live(j) THEN late ELSE [late EXCEPT ![j] = @ + 1]
    /\ fired' = fired \ {j}
    /\ UNCHANGED <<repo, rows, agents, jobs, serving, update, rescanned, budget>>

SchedNext ==
    \/ BootScan \/ start_scheduler \/ Stop \/ UpdateJob
    \/ \E v \in Versions : SyncAndScan(v)
    \/ \E a \in Agents, paused \in BOOLEAN : SetAgentPaused(a, paused)
    \/ \E j \in Jobs : Fire(j) \/ FireCreates(j) \/ \E on \in BOOLEAN : UpdateRow(j, on)

SchedSpec == SchedInit /\ [][SchedNext]_schedVars

-----------------------------------------------------------------------------
(* While the gateway is up and no update is half done, the scheduler runs  *)
(* exactly the enabled schedules, with the cron and prompt of their rows;  *)
(* the rows a scan changed since the start are the exception, because      *)
(* run_provisioner_scan never touches the jobs.                            *)
JobsMatchRows ==
    serving = "up" /\ update = NoUpdate =>
        \A j \in Jobs \ rescanned :
            jobs[j] = IF rows[j].enabled THEN rows[j].text ELSE NoVersion

(* A job that outlives its row (disabled by a scan, deleted with its       *)
(* workflow, or the agent paused) costs one task at most, the one whose    *)
(* handler had read the row before.                                        *)
OneLateRun == \A j \in Jobs : late[j] <= 1

-----------------------------------------------------------------------------
(* The inductive invariants behind them. *)

RowRecord == [there : BOOLEAN, enabled : BOOLEAN, text : Versions \cup {NoVersion}]

SchedTypeOK ==
    /\ repo \in Versions
    /\ rows \in [Jobs -> RowRecord]
    /\ agents \in [Agents -> [provisioned : BOOLEAN, paused : BOOLEAN]]
    /\ jobs \in [Jobs -> Versions \cup {NoVersion}]
    /\ serving \in {"down", "scanned", "up"}
    /\ update = NoUpdate \/ update \in [job : Jobs, on : BOOLEAN, text : Versions \cup {NoVersion}]
    /\ fired \subseteq Jobs /\ rescanned \subseteq Jobs
    /\ late \in [Jobs -> Nat]
    /\ budget \in [updates : Nat, scans : Nat]

(* The job of a row, as start_scheduler registers it.                      *)
JobOf(j) == IF rows[j].enabled THEN rows[j].text ELSE NoVersion

(* An update under way accounts for the only job that may differ from a    *)
(* row no scan has changed, and holds what that row says.                  *)
JobsInv ==
    /\ serving # "up" => update = NoUpdate
    /\ serving = "up" => \A j \in Jobs \ rescanned :
          IF j = update.job
          THEN rows[j].enabled = update.on /\ rows[j].text = update.text
          ELSE jobs[j] = JobOf(j)

LateInv == \A j \in Jobs : late[j] <= 1 /\ (j \in fired => late[j] = 0)

SchedInv == SchedTypeOK /\ JobsInv /\ LateInv
=============================================================================
