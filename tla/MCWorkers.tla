----------------------------- MODULE MCWorkers -----------------------------
(***************************************************************************)
(* The two loops whose progress is checked: the runtime of a session, seen *)
(* under one aspect, and the ServiceNow poller.  They share no state, so a *)
(* behaviour belongs to one of them: `part` is chosen at the start.        *)
(***************************************************************************)
EXTENDS MCSession, ServiceNowPoll

VARIABLE part

mcVars == <<sesVars, pollVars, part>>

InPoll(step)    == part = "poll" /\ step /\ UNCHANGED <<sesVars, part>>
InSession(step) == part \in Aspects /\ step /\ Focus(part) /\ UNCHANGED <<pollVars, part>>

MCInit ==
    /\ part \in Aspects \cup {"poll"}
    /\ SesInit /\ PollInit
    /\ part # "poll" => matching = {}

MCNext == InPoll(PollNext) \/ InSession(SesNext)

(* The poller keeps polling: its loop ends only with the process.  In a    *)
(* session the event loop runs the main loop and whoever holds or waits    *)
(* for the lock; a report ends by its HTTP timeout, a human wait by its    *)
(* own.  Nothing is assumed of the CLI.                                    *)
MCSpec ==
    /\ MCInit /\ [][MCNext]_mcVars
    /\ WF_mcVars(InPoll(PollStep))
    /\ WF_mcVars(InSession(LoopStep))
    /\ WF_mcVars(InSession(FlushStep))
    /\ WF_mcVars(InSession(HookAnswered))
=============================================================================
