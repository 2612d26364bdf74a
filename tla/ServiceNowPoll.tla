--------------------------- MODULE ServiceNowPoll ---------------------------
(***************************************************************************)
(* connectors/servicenow-connector/main.py: the poller asks the Table API  *)
(* for the records that match its query, without an order and without an   *)
(* offset, and creates a task for every sys_id it does not remember.       *)
(***************************************************************************)
EXTENDS Naturals, FiniteSets

CONSTANTS
    NumRecords,   \* records, numbered in the order the API lists them
    PageSize,     \* sysparm_limit (50 in the code)
    MaxSeen,      \* ids remembered before all are forgotten (10000 in the code)
    MaxAway,      \* bound: pauses, restarts of the poller and changes of the table
    MaxErrors,    \* bound: failed polls and failed creations
    MaxForgotten  \* bound: clears and restarts that are counted

ASSUME PollAssumptions ==
    /\ NumRecords \in Nat /\ PageSize \in Nat \ {0} /\ MaxSeen \in Nat
    /\ MaxAway \in Nat /\ MaxErrors \in Nat /\ MaxForgotten \in Nat

VARIABLES
    matching,   \* records that match the query
    seen,       \* seen_sys_ids
    page,       \* records of the answer that are still to be looked at
    polling,    \* the loop body is running
    halted,     \* connector_state says paused
    created,    \* tasks created for each record
    dropped,    \* records whose creation failed
    forgotten,  \* times the memory was lost: clears and restarts
    away, errors

pollVars == <<matching, seen, page, polling, halted, created, dropped, forgotten, away, errors>>

Records == 1..NumRecords

CountedTo(n, cap) == IF n < cap THEN n + 1 ELSE cap
Forgets == seen' = {} /\ forgotten' = CountedTo(forgotten, MaxForgotten)

PollInit ==
    /\ matching \in SUBSET Records
    /\ seen = {} /\ page = {} /\ polling = FALSE /\ halted = FALSE
    /\ created = [r \in Records |-> 0]
    /\ dropped = {} /\ forgotten = 0 /\ away = 0 /\ errors = 0

(* The API answers with the first page of what matches.                    *)
Answer == {r \in matching : Cardinality({q \in matching : q < r}) < PageSize}

(* A record is opened, or no longer matches.                               *)
TableChanges(r) ==
    /\ away < MaxAway /\ away' = away + 1
    /\ matching' = IF r \in matching THEN matching \ {r} ELSE matching \cup {r}
    /\ UNCHANGED <<seen, page, polling, halted, created, dropped, forgotten, errors>>

SetHalted(on) ==
    /\ away < MaxAway /\ away' = away + 1 /\ halted # on
    /\ halted' = on
    /\ UNCHANGED <<matching, seen, page, polling, created, dropped, forgotten, errors>>

RestartPoller ==
    /\ away < MaxAway /\ away' = away + 1
    /\ Forgets
    /\ page' = {} /\ polling' = FALSE
    /\ UNCHANGED <<matching, halted, created, dropped, errors>>

(* Asleep, then: is the connector paused, and what does the table hold?    *)
Poll ==
    /\ ~polling /\ ~halted
    /\ polling' = TRUE /\ page' = Answer
    /\ UNCHANGED <<matching, seen, halted, created, dropped, forgotten, away, errors>>

PollFails ==
    /\ ~polling /\ ~halted /\ errors < MaxErrors
    /\ errors' = errors + 1
    /\ UNCHANGED <<matching, seen, page, polling, halted, created, dropped, forgotten, away>>

First(r) == r \in page /\ \A q \in page : r <= q

SkipSeen(r) ==
    /\ polling /\ First(r) /\ r \in seen
    /\ page' = page \ {r}
    /\ UNCHANGED <<matching, seen, polling, halted, created, dropped, forgotten, away, errors>>

(* Mutant: the id is remembered only when the pass ends.                   *)
Marked_Late(r) == seen

Marked(r) == seen \cup {r}

(* The id is remembered first, then the task is created.                   *)
Create(r) ==
    /\ polling /\ First(r) /\ r \notin seen
    /\ seen' = Marked(r)
    /\ created' = [created EXCEPT ![r] = CountedTo(@, MaxForgotten + 2)]
    /\ page' = page \ {r}
    /\ UNCHANGED <<matching, polling, halted, dropped, forgotten, away, errors>>

(* Mutant: an error leaves the rest of the page marked as well.            *)
MarkedOnError_Page(r) == seen \cup page

MarkedOnError(r) == seen \cup {r}

(* create_task raised: the rest of the page waits for the next poll, this  *)
(* record is not tried again.                                              *)
CreateFails(r) ==
    /\ polling /\ First(r) /\ r \notin seen /\ errors < MaxErrors
    /\ errors' = errors + 1
    /\ seen' = MarkedOnError(r)
    /\ dropped' = dropped \cup {r}
    /\ page' = {} /\ polling' = FALSE
    /\ UNCHANGED <<matching, halted, created, forgotten, away>>

PageDone ==
    /\ polling /\ page = {}
    /\ polling' = FALSE
    /\ IF Cardinality(seen) > MaxSeen THEN Forgets ELSE UNCHANGED <<seen, forgotten>>
    /\ UNCHANGED <<matching, page, halted, created, dropped, away, errors>>

PollStep == Poll \/ PageDone \/ \E r \in Records : SkipSeen(r) \/ Create(r)

PollNext ==
    \/ PollStep \/ PollFails \/ RestartPoller
    \/ \E on \in BOOLEAN : SetHalted(on)
    \/ \E r \in Records : TableChanges(r) \/ CreateFails(r)

-----------------------------------------------------------------------------
(* A record becomes one task for as long as the poller remembers it: a     *)
(* second one needs a restart or the clearing of seen_sys_ids above its    *)
(* limit.                                                                  *)
OneTaskPerRecord ==
    forgotten < MaxForgotten => \A r \in Records : created[r] <= 1 + forgotten

(* A record the API returns becomes a task, or its own creation has failed *)
(* once; an error on another record of the page does not cost it its task. *)
(* Records beyond the first page wait until an earlier one stops matching. *)
RecordsHandled ==
    \A r \in Records :
        (r \in Answer /\ ~halted) ~>
            (created[r] > 0 \/ r \in dropped \/ r \notin Answer \/ halted)

-----------------------------------------------------------------------------
PollSpec == PollInit /\ [][PollNext]_pollVars

(* The inductive invariant behind OneTaskPerRecord: a task for every time  *)
(* the memory was lost, and one for what is remembered now.                *)
PollTypeOK ==
    /\ created \in [Records -> Nat] /\ seen \subseteq Records /\ page \subseteq Records
    /\ matching \subseteq Records /\ forgotten \in 0..MaxForgotten

PollInv ==
    forgotten < MaxForgotten =>
        \A r \in Records : created[r] <= forgotten + (IF r \in seen THEN 1 ELSE 0)
=============================================================================
