----------------------------- MODULE MCSession -----------------------------
(***************************************************************************)
(* Small instances of SessionRuntime.  The children and the transcript are *)
(* looked at separately: two children whose messages interleave, one child *)
(* that is resumed, refused or returns nothing while prompts and the end   *)
(* of the stream race with it, and the flushes with a hook or a reminder   *)
(* and failures.                                                           *)
(***************************************************************************)
EXTENDS SessionRuntime

CONSTANTS k1, k2, Pair, Single, Flushing   \* messages of the CLI in each focus

Aspects == {"pair", "single", "flushing"}

Undisturbed ==
    waits' = {} /\ ~reminded' /\ drops' = 0 /\ flusher'["timer"] = NotFlushing

(* What a step may do when the session is seen under an aspect.            *)
Focus(aspect) ==
    CASE aspect = "pair" ->
            /\ Undisturbed /\ resumed' = {} /\ said' <= Pair
            /\ child'[k2] # "none" => child'[k1] # "none"
            /\ said' # said => pc = "next" /\ out = <<>>
            /\ \A i \in DOMAIN out' : /\ out'[i].kind \notin {"empty", "updated", "error"}
                                      /\ out'[i].kind = "said" => out'[i].child = k1
      [] aspect = "single" ->
            /\ Undisturbed /\ child'[k2] = "none" /\ said' <= Single
            /\ \A i \in DOMAIN out' : out'[i].kind = "said" => out'[i].child = k1
      [] aspect = "flushing" ->
            /\ UNCHANGED child /\ said' <= Flushing
            /\ Cardinality({i \in DOMAIN conv' : conv'[i].kind = "user"}) <= 1
            /\ reminded' => said' < Flushing

(* The transcript alone. *)
FlushingSpec == SesInit /\ [][SesNext /\ Focus("flushing")]_sesVars
=============================================================================
