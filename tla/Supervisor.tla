----------------------------- MODULE Supervisor -----------------------------
(***************************************************************************)
(* The multi-GPU pool miner as a set of processes: run.sh, the restart     *)
(* loop the portable package ships; the supervisor it starts               *)
(* (run_pool_parent_multigpu of miner_main.cpp); and one lane process per  *)
(* GPU, forked by the supervisor and replaced by execvp with a miner of    *)
(* its own.  Lanes end on their own at any time, with any status a lane    *)
(* can have, and the user may signal the supervisor at any time.  The      *)
(* supervisor may itself be killed, by SIGKILL or by the SIGPIPE of its    *)
(* monitoring thread: its lanes then live on, and run.sh starts new ones.  *)
(*                                                                         *)
(* Signals are modelled as the kernel delivers them: a handler that runs   *)
(* between the supervisor's test of g_parent_signal and its wait() does    *)
(* not interrupt that wait(), and a lane that has not called execvp yet    *)
(* still has the supervisor's handler, which swallows the SIGTERM.         *)
(***************************************************************************)
EXTENDS Integers, FiniteSets

CONSTANTS
  Lanes,       \* the GPUs
  MaxStarts,   \* bound: how many times run.sh starts the miner
  MaxSignals,  \* bound: how many signals the user sends during one start
  MaxKills     \* bound: how many supervisors are killed

ASSUME LanesAssumption  == IsFiniteSet(Lanes) /\ Lanes # {}
ASSUME BoundsAssumption == MaxStarts \in Nat \ {0} /\ MaxSignals \in Nat /\ MaxKills \in Nat

(* How a lane ends, as wait() reports it: run_pool returns 0 when the pool  *)
(* disconnects and 3 when no endpoint answers, 2 is a CUDA failure, and    *)
(* signal 11 stands for any crash.                                         *)
Exits(rcs)   == [how : {"exited"}, n : rcs]
Killed(sigs) == [how : {"signalled"}, n : sigs]
Running      == [how |-> "exited", n |-> 0]     \* a placeholder: no status yet
Interrupted  == [how |-> "signalled", n |-> 2]
Terminated   == [how |-> "signalled", n |-> 15]
OwnEnds      == Exits({0, 2, 3}) \cup Killed({11})
ExecFailed   == Exits({127})
Statuses     == OwnEnds \cup ExecFailed \cup Killed({2, 15})
ExitCodes    == {0, 2, 3, 127, 130, 137, 139, 141, 143}

VARIABLES
  sup,      \* the supervisor: pc, pending (g_parent_signal # 0), terminating,
            \*   rc (rc_final), alive
  lane,     \* state of each lane: "none", "forkfailed", "forked" (not yet in
            \*   execvp), "mining", "zombie", "reaped"
  status,   \* exit status of each lane that has ended
  wrapper,  \* run.sh: "running", "delay" or "stopped"
  starts,   \* how many times run.sh has started the miner
  signals,  \* how many signals the user has sent during this start
  left,     \* the GPUs on which a lane of an earlier start still runs
  kills     \* how many supervisors have been killed

vars == <<sup, lane, status, wrapper, starts, signals, left, kills>>

Fresh == [pc |-> "fork", pending |-> FALSE, terminating |-> FALSE, rc |-> 0, alive |-> 0]

TypeOK ==
  /\ sup \in [pc : {"fork", "test", "enter", "wait", "eintr", "done", "dead"},
              pending : BOOLEAN, terminating : BOOLEAN,
              rc : ExitCodes, alive : 0..Cardinality(Lanes)]
  /\ lane \in [Lanes -> {"none", "forkfailed", "forked", "mining", "zombie", "reaped"}]
  /\ status \in [Lanes -> Statuses]
  /\ wrapper \in {"running", "delay", "stopped"}
  /\ starts \in 1..MaxStarts
  /\ signals \in 0..MaxSignals
  /\ left \subseteq Lanes
  /\ kills \in 0..MaxKills

Init ==
  /\ sup = Fresh
  /\ lane = [l \in Lanes |-> "none"]
  /\ status = [l \in Lanes |-> Running]
  /\ wrapper = "running" /\ starts = 1 /\ signals = 0
  /\ left = {} /\ kills = 0

-----------------------------------------------------------------------------
(* The lanes. *)

(* A signal to every lane, in the states `lanes`: it ends a miner, and is   *)
(* swallowed by a lane that still has the supervisor's handler.             *)
Kill(lanes, s) ==
  LET hit == { l \in Lanes : lanes[l] = "mining" }
  IN  /\ lane'   = [l \in Lanes |-> IF l \in hit THEN "zombie" ELSE lanes[l]]
      /\ status' = [l \in Lanes |-> IF l \in hit THEN s ELSE status[l]]

Exec(l) ==
  /\ lane[l] = "forked"
  /\ lane' = [lane EXCEPT ![l] = "mining"]
  /\ UNCHANGED <<sup, status, wrapper, starts, signals, left, kills>>

LaneEnds(l, s) ==
  /\ \/ lane[l] = "mining" /\ s \in OwnEnds
     \/ lane[l] = "forked" /\ s \in ExecFailed
  /\ lane' = [lane EXCEPT ![l] = "zombie"]
  /\ status' = [status EXCEPT ![l] = s]
  /\ UNCHANGED <<sup, wrapper, starts, signals, left, kills>>

-----------------------------------------------------------------------------
(* The supervisor. *)

Forked == { l \in Lanes : lane[l] \notin {"none", "forkfailed"} }

Fork(l) ==
  /\ sup.pc = "fork"
  /\ lane[l] = "none"
  /\ \E result \in {"forked", "forkfailed"} : lane' = [lane EXCEPT ![l] = result]
  /\ UNCHANGED <<sup, status, wrapper, starts, signals, left, kills>>

(* Mutant: the lanes asked for, not the lanes started. *)
AliveAsked == Cardinality(Lanes)

AliveAtStart == Cardinality(Forked)

(* The end of the fork loop: alive is pids.size(), and with no lane at all *)
(* the supervisor returns 2.                                               *)
ForksDone ==
  /\ sup.pc = "fork"
  /\ \A l \in Lanes : lane[l] # "none"
  /\ sup' = IF Forked = {} THEN [sup EXCEPT !.pc = "done", !.rc = 2]
                           ELSE [sup EXCEPT !.pc = "test", !.alive = AliveAtStart]
  /\ UNCHANGED <<lane, status, wrapper, starts, signals, left, kills>>

(* Signal all lanes, note that, and forget the signal. *)
StopLanes(pc) ==
  /\ Kill(lane, Terminated)
  /\ sup' = [sup EXCEPT !.pc = pc, !.terminating = TRUE, !.pending = FALSE]
  /\ UNCHANGED <<wrapper, starts, signals, left, kills>>

(* The top of the wait loop. *)
TestSignal ==
  /\ sup.pc = "test"
  /\ IF sup.pending /\ ~sup.terminating
     THEN StopLanes("enter")
     ELSE /\ sup' = [sup EXCEPT !.pc = "enter"]
          /\ UNCHANGED <<lane, status, wrapper, starts, signals, left, kills>>

EnterWait ==
  /\ sup.pc = "enter"
  /\ sup' = [sup EXCEPT !.pc = "wait"]
  /\ UNCHANGED <<lane, status, wrapper, starts, signals, left, kills>>

(* Mutant: the number of the signal alone. *)
DecodeRaw(s) == s.n

(* WEXITSTATUS, or 128 + WTERMSIG. *)
Decode(s) == IF s.how = "exited" THEN s.n ELSE 128 + s.n

(* Mutant: the last status counts. *)
FinalRcLast(s) == Decode(s)

(* rc_final: the first status that is not 0. *)
FinalRc(s) == IF sup.rc = 0 THEN Decode(s) ELSE sup.rc

(* Mutant: the count is tested before it is decremented. *)
LastLaneEarly == sup.alive <= 2

LastLane == sup.alive = 1

(* Mutant: a lane that ends with status 0 is let go. *)
TakesOthersIfFailed(s) == ~sup.terminating /\ ~LastLane /\ Decode(s) # 0

(* The first lane to go takes the others with it. *)
TakesOthers(s) == ~sup.terminating /\ ~LastLane

(* wait() returns lane l. *)
Reap(l) ==
  /\ sup.pc = "wait"
  /\ lane[l] = "zombie"
  /\ sup' = [sup EXCEPT !.pc = IF LastLane THEN "done" ELSE "test",
                        !.alive = @ - 1,
                        !.rc = FinalRc(status[l]),
                        !.terminating = @ \/ TakesOthers(status[l])]
  /\ IF TakesOthers(status[l])
     THEN Kill([lane EXCEPT ![l] = "reaped"], Terminated)
     ELSE lane' = [lane EXCEPT ![l] = "reaped"] /\ UNCHANGED status
  /\ UNCHANGED <<wrapper, starts, signals, left, kills>>

(* wait() failed with EINTR. *)
WaitInterrupted ==
  /\ sup.pc = "eintr"
  /\ StopLanes("test")

(* The process is ended at once, at any point up to its exit: by SIGPIPE,   *)
(* when its api_serve answers a client that has gone, or by SIGKILL.  No    *)
(* lane is told.                                                            *)
SupDies(sig) ==
  /\ wrapper = "running" /\ sup.pc # "dead"
  /\ kills < MaxKills
  /\ kills' = kills + 1
  /\ sup' = [sup EXCEPT !.pc = "dead", !.rc = 128 + sig]
  /\ UNCHANGED <<lane, status, wrapper, starts, signals, left>>

-----------------------------------------------------------------------------
(* The user: kill on the supervisor, or ^C for the whole foreground group. *)

(* The handler.  It interrupts wait() only if it runs while wait() blocks. *)
Handler ==
  LET blocked == sup.pc = "wait" /\ \A l \in Lanes : lane[l] # "zombie"
  IN  sup' = [sup EXCEPT !.pending = TRUE, !.pc = IF blocked THEN "eintr" ELSE @]

CanSignal == sup.pc \notin {"done", "dead"} /\ wrapper = "running" /\ signals < MaxSignals

KillSupervisor ==
  /\ CanSignal
  /\ Handler
  /\ signals' = signals + 1
  /\ UNCHANGED <<lane, status, wrapper, starts, left, kills>>

(* A lane of an earlier start gets the signal too; that it ends is          *)
(* LeftoverEnds.                                                            *)
InterruptGroup ==
  /\ CanSignal
  /\ Kill(lane, Interrupted)
  /\ Handler
  /\ signals' = signals + 1
  /\ UNCHANGED <<wrapper, starts, left, kills>>

-----------------------------------------------------------------------------
(* run.sh. *)

MinerExits ==
  /\ wrapper = "running"
  /\ sup.pc \in {"done", "dead"}
  /\ wrapper' = IF sup.rc \in {130, 143} THEN "stopped" ELSE "delay"
  /\ UNCHANGED <<sup, lane, status, starts, signals, left, kills>>

(* The lanes that run.  Those that outlive their supervisor run on beside   *)
(* the lanes of the next start, which neither knows nor stops them.         *)
Going == { l \in Lanes : lane[l] \in {"forked", "mining"} }

Relaunch ==
  /\ wrapper = "delay"
  /\ starts < MaxStarts
  /\ starts' = starts + 1
  /\ sup' = Fresh
  /\ lane' = [l \in Lanes |-> "none"]
  /\ status' = [l \in Lanes |-> Running]
  /\ wrapper' = "running" /\ signals' = 0
  /\ left' = left \cup Going
  /\ UNCHANGED kills

LeftoverEnds(l) ==
  /\ l \in left
  /\ left' = left \ {l}
  /\ UNCHANGED <<sup, lane, status, wrapper, starts, signals, kills>>

-----------------------------------------------------------------------------

(* The thread in run_pool_parent_multigpu. *)
SupStep ==
  \/ \E l \in Lanes : Fork(l) \/ Reap(l)
  \/ ForksDone \/ TestSignal \/ EnterWait \/ WaitInterrupted

LaneStep(l) == Exec(l) \/ \E s \in Statuses : LaneEnds(l, s)

User == KillSupervisor \/ InterruptGroup

Wrapper == MinerExits \/ Relaunch

Next ==
  \/ SupStep \/ (\E sig \in {9, 13} : SupDies(sig))
  \/ \E l \in Lanes : LaneStep(l) \/ LeftoverEnds(l)
  \/ User \/ Wrapper

Spec == Init /\ [][Next]_vars

(* The kernel schedules the supervisor, run.sh, and a lane on its way to    *)
(* execvp.  A miner may run for ever, and the user never signal.            *)
FairSpec ==
  Spec /\ WF_vars(SupStep) /\ WF_vars(Wrapper) /\ \A l \in Lanes : WF_vars(Exec(l))

-----------------------------------------------------------------------------
(* Properties. *)

Living == { l \in Lanes : lane[l] \in {"forked", "mining", "zombie"} }

(* alive is the number of children the supervisor has not reaped: it       *)
(* neither waits for a child that is not there nor leaves one behind.      *)
AliveCounts ==
  sup.pc \in {"test", "enter", "wait", "eintr"} =>
    sup.alive = Cardinality(Living) /\ sup.alive > 0

(* When the supervisor returns, no lane is left; and as long as no         *)
(* supervisor is itself killed, run.sh never starts a miner on a GPU that  *)
(* a lane of an earlier start is using.  (A killed one leaves its lanes:   *)
(* run.sh sees 137 or 141, starts the miner again, and two share a GPU.)   *)
NoOrphans ==
  /\ sup.pc = "done" => Living = {}
  /\ kills = 0 => left = {}

(* The exit code hides no failure and invents none: it is 0 only if every  *)
(* lane ended with 0, else the status of one of them, or 2 with no lanes.  *)
RcFaithful ==
  sup.pc = "done" =>
    LET ends == { Decode(status[l]) : l \in { k \in Lanes : lane[k] = "reaped" } }
    IN  IF ends = {} THEN sup.rc = 2
        ELSE sup.rc \in ends /\ (sup.rc = 0 => ends = {0})

AllMining == \A l \in Lanes : lane[l] \notin {"none", "forked"}

(* Once every lane has called execvp, the end of one lane - with whatever  *)
(* status - or a signal the supervisor gets to see ends the whole miner,   *)
(* unless the supervisor is killed meanwhile.                              *)
OneForAll ==
  /\ AllMining /\ ~sup.terminating
  /\ (\E l \in Lanes : lane[l] = "zombie") \/ (sup.pending /\ sup.pc \in {"test", "eintr"})
  ~> sup.pc \in {"done", "dead"}

(* package_portable.sh: run.sh restarts for ever on a disconnect or a job  *)
(* error, and stops on a deliberate signal.  Not so: a lane whose pool     *)
(* disconnects returns 0, its siblings die of the supervisor's SIGTERM,    *)
(* and 143 looks like the user's.                                          *)
StopsOnlyOnRequest == wrapper = "stopped" => signals > 0

(* README.en.md: if any lane exits abnormally the supervisor stops the     *)
(* rest, no silent degraded operation.  Not so if the rest has not called  *)
(* execvp yet.                                                             *)
NoSilentDegradation ==
  (\E l \in Lanes : lane[l] = "zombie" /\ Decode(status[l]) # 0) ~> sup.pc = "done"
=============================================================================
