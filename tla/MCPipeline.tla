----------------------------- MODULE MCPipeline -----------------------------
(***************************************************************************)
(* The pipeline with two donations.  Processes crash and start again, and  *)
(* the pusher may be signalled; the further steps of the orderly shutdowns *)
(* are left to the runs of the pusher and the consumer.                    *)
(***************************************************************************)
EXTENDS Pipeline, TLC

CONSTANTS p1, planA

Abrupt == app' \in {"running", "cancelled", "crashed"} /\ life' \in {"up", "down"}

MCNext == PipelineNext /\ Abrupt

\* The price of a plan does not matter: no donation reads it.
MCInit == PipelineInit /\ prices = [plan \in Plan |-> <<MaxPrice>>]

MCSpec == MCInit /\ [][MCNext]_pipelineVars /\ Fairness /\ C!Fairness
=============================================================================
