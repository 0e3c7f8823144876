------------------------------ MODULE Failover ------------------------------
(***************************************************************************)
(* What a lane promises about its pools: it goes through the endpoints in   *)
(* the order given, uses the first that delivers a job, mines only jobs of  *)
(* that endpoint for as long as the connection lasts, and gives up only     *)
(* before the first, having no GPU, or after every endpoint has failed.     *)
(* The exception is Dies: a write to an endpoint that has closed the        *)
(* connection may end the process, in the scan or later; run.sh starts it   *)
(* again, at the first endpoint, and those after the one that closed have   *)
(* not been tried.  RunPool implements it.                                  *)
(***************************************************************************)
EXTENDS Naturals

CONSTANT N   \* how many endpoints there are

VARIABLES
  failed,   \* how many endpoints, from the first, have failed in this scan
  outcome,  \* "scanning", "mining", "gaveup", "ended" or "killed"
  job       \* the endpoint whose job is mined, 0 when nothing is mined

vars == <<failed, outcome, job>>

Init == failed = 0 /\ outcome = "scanning" /\ job = 0

EndpointFails ==
  outcome = "scanning" /\ failed < N /\ failed' = failed + 1 /\ UNCHANGED <<outcome, job>>

EndpointServes ==
  /\ outcome = "scanning" /\ failed < N
  /\ outcome' = "mining" /\ job' = failed + 1 /\ UNCHANGED failed

(* A lane without a GPU tries no endpoint; otherwise all have failed. *)
GivesUp ==
  /\ outcome = "scanning" /\ failed \in {0, N}
  /\ outcome' = "gaveup" /\ UNCHANGED <<failed, job>>

Ends == outcome = "mining" /\ outcome' = "ended" /\ job' = 0 /\ UNCHANGED failed

Dies ==
  /\ outcome = "mining" \/ (outcome = "scanning" /\ failed < N)
  /\ outcome' = "killed" /\ job' = 0 /\ UNCHANGED failed

Next == EndpointFails \/ EndpointServes \/ GivesUp \/ Ends \/ Dies

Spec == Init /\ [][Next]_vars
=============================================================================
