----------------------------- MODULE JobContract -----------------------------
(***************************************************************************)
(* What a caller of the generation-job API may rely on, without queues,    *)
(* workers, retries or faults: an accepted job waits, may be executed and  *)
(* given back any number of times, takes effect on the itinerary at most   *)
(* once and only after an execution began, and once closed is never        *)
(* executed again.  An effect may still arrive after the close, when the   *)
(* job was closed under a running execution.                               *)
(***************************************************************************)
CONSTANT Jobs

VARIABLES
    stage,       \* stage[j]: "absent", "waiting", "executing" or "closed"
    applied      \* the jobs whose itinerary was saved

contractVars == <<stage, applied>>

ContractInit ==
    /\ stage = [j \in Jobs |-> "absent"]
    /\ applied = {}

Accept(j) ==
    /\ stage[j] = "absent"
    /\ stage' = [stage EXCEPT ![j] = "waiting"]
    /\ UNCHANGED applied

Begin(j) ==
    /\ stage[j] = "waiting"
    /\ stage' = [stage EXCEPT ![j] = "executing"]
    /\ UNCHANGED applied

GiveBack(j) ==
    /\ stage[j] = "executing"
    /\ stage' = [stage EXCEPT ![j] = "waiting"]
    /\ UNCHANGED applied

Apply(j) ==
    /\ stage[j] \in {"executing", "closed"}
    /\ j \notin applied
    /\ applied' = applied \cup {j}
    /\ UNCHANGED stage

(* A repair of stale jobs closes several at once.                          *)
Close(S) ==
    /\ \A j \in S : stage[j] # "absent"
    /\ stage' = [j \in Jobs |-> IF j \in S THEN "closed" ELSE stage[j]]
    /\ UNCHANGED applied

ContractNext ==
    \/ \E j \in Jobs : Accept(j) \/ Begin(j) \/ GiveBack(j) \/ Apply(j)
    \/ \E S \in SUBSET Jobs : Close(S)

ContractSpec == ContractInit /\ [][ContractNext]_contractVars
==============================================================================
