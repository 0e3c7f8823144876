--------------------------- MODULE ProverContract ---------------------------
(***************************************************************************)
(* What mine_plain_proof promises the loop that calls it (prover.h): an     *)
(* attempt ends by itself; it ends with a proof only if the stop flag was   *)
(* still down when the prover last looked; and it may end without one at    *)
(* any time.  This is the prover as PoolLane sees it (ProverWins and        *)
(* ProverGivesUp there); DrawPipeline implements it.                        *)
(***************************************************************************)

VARIABLES
  phase,  \* "running", then "won" (rc 0) or "lost" (any other rc)
  flag    \* *stop

vars == <<phase, flag>>

Init == phase = "running" /\ flag = FALSE

(* Another thread raises the flag; it stays up for the rest of the attempt. *)
Raise == ~flag /\ flag' = TRUE /\ UNCHANGED phase

Win == phase = "running" /\ ~flag /\ phase' = "won" /\ UNCHANGED flag

Lose == phase = "running" /\ phase' = "lost" /\ UNCHANGED flag

(* The caller resets its flag and tries again. *)
Again == phase # "running" /\ phase' = "running" /\ flag' = FALSE

Next == Raise \/ Win \/ Lose \/ Again

Spec == Init /\ [][Next]_vars

FairSpec == Spec /\ WF_vars(Win \/ Lose)
=============================================================================
