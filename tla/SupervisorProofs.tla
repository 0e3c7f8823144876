-------------------------- MODULE SupervisorProofs --------------------------
(***************************************************************************)
(* What Supervisor promises, proved for every number of GPUs, of starts and *)
(* of signals: the supervisor counts its children right, leaves none behind *)
(* when it returns, and its exit code is the status of one of them; and     *)
(* only a killed supervisor leaves a lane running beside the next start.    *)
(***************************************************************************)
EXTENDS Supervisor, FiniteSetTheorems, TLAPS

LoopPoints == {"test", "enter", "wait", "eintr"}

Sups       == [pc : {"fork", "done", "dead"} \cup LoopPoints, pending : BOOLEAN, terminating : BOOLEAN,
               rc : ExitCodes, alive : 0..Cardinality(Lanes)]
LaneStates == {"none", "forkfailed", "forked", "mining", "zombie", "reaped"}

Reaped == {l \in Lanes : lane[l] = "reaped"}
Ends   == {Decode(status[l]) : l \in Reaped}

(* While it forks the supervisor reaps nobody.  In the loop alive is the    *)
(* number of the living, and after it nobody lives.                         *)
CountOK ==
  /\ sup.pc = "fork" => Reaped = {}
  /\ sup.pc \in LoopPoints => sup.alive = Cardinality(Living) /\ sup.alive > 0
  /\ sup.pc = "done" => Living = {}

(* rc_final stands for the lanes reaped so far. *)
Stands(rc, ends) == rc \in ends /\ (rc = 0 => ends = {0})

RcOK ==
  sup.pc # "dead" =>
    /\ Reaped = {} => sup.rc = (IF sup.pc = "done" THEN 2 ELSE 0)
    /\ Reaped # {} => Stands(sup.rc, Ends)

(* run.sh goes on only after the supervisor, and without a kill nothing is  *)
(* left of an earlier start.                                                *)
LeftOK ==
  /\ wrapper # "running" => sup.pc \in {"done", "dead"}
  /\ sup.pc = "dead" => kills # 0
  /\ kills = 0 => left = {}

IInv == TypeOK /\ CountOK /\ RcOK /\ LeftOK

-----------------------------------------------------------------------------
(* Types. *)

LEMMA StatusesDecode ==
  /\ \A s \in Statuses : Decode(s) \in ExitCodes
  /\ Running \in Statuses /\ Terminated \in Statuses /\ Interrupted \in Statuses
BY DEF Statuses, OwnEnds, ExecFailed, Exits, Killed, Decode, ExitCodes, Running, Terminated,
       Interrupted

LEMMA TypeParts ==
  TypeOK <=> /\ sup \in Sups
             /\ lane \in [Lanes -> LaneStates]
             /\ status \in [Lanes -> Statuses]
             /\ wrapper \in {"running", "delay", "stopped"}
             /\ starts \in 1..MaxStarts
             /\ signals \in 0..MaxSignals
             /\ left \subseteq Lanes
             /\ kills \in 0..MaxKills
BY DEF TypeOK, Sups, LoopPoints, LaneStates

LEMMA LanesFinite == Cardinality(Lanes) \in Nat /\ IsFiniteSet(Living) /\ Cardinality(Living) \in Nat
<1>1. IsFiniteSet(Living)
  BY LanesAssumption, FS_Subset DEF Living
<1> QED
  BY <1>1, LanesAssumption, FS_CardinalityType

LEMMA FreshTyped == Fresh \in Sups
BY LanesFinite DEF Fresh, Sups, ExitCodes

-----------------------------------------------------------------------------
(* How a step treats the lanes. *)

(* A lane may go on, but nobody starts or is reaped: what the lanes do by   *)
(* themselves, and what a signal does to them.                              *)
LanesGoOn ==
  /\ lane' \in [Lanes -> LaneStates] /\ status' \in [Lanes -> Statuses]
  /\ \A l \in Lanes :
       \/ lane'[l] = lane[l] /\ status'[l] = status[l]
       \/ lane[l] \in {"forked", "mining"} /\ lane'[l] \in {"mining", "zombie"}

LEMMA GoOnKeeps ==
  ASSUME TypeOK, LanesGoOn
  PROVE  Living' = Living /\ Reaped' = Reaped /\ Ends' = Ends
<1>1. Reaped' = Reaped /\ Living' = Living
  BY DEF LanesGoOn, Reaped, Living
<1>2. \A l \in Reaped : status'[l] = status[l]
  BY DEF LanesGoOn, Reaped
<1> QED
  BY <1>1, <1>2 DEF Ends, Decode

LEMMA SameLanesGoOn == TypeOK /\ UNCHANGED <<lane, status>> => LanesGoOn
BY TypeParts DEF LanesGoOn

LEMMA KillGoesOn ==
  ASSUME TypeOK, NEW s \in Statuses, Kill(lane, s)
  PROVE  LanesGoOn
<1> DEFINE hit == {l \in Lanes : lane[l] = "mining"}
<1>1. /\ lane'   = [l \in Lanes |-> IF l \in hit THEN "zombie" ELSE lane[l]]
      /\ status' = [l \in Lanes |-> IF l \in hit THEN s ELSE status[l]]
  BY DEF Kill
<1>2. lane \in [Lanes -> LaneStates] /\ status \in [Lanes -> Statuses]
  BY TypeParts
<1> QED
  BY <1>1, <1>2 DEF LanesGoOn, LaneStates

LEMMA LaneStepGoesOn ==
  ASSUME TypeOK, NEW l \in Lanes, LaneStep(l)
  PROVE  LanesGoOn /\ UNCHANGED <<sup, wrapper, starts, signals, left, kills>> /\ l \in Living
<1>1. lane \in [Lanes -> LaneStates] /\ status \in [Lanes -> Statuses]
  BY TypeParts
<1>2. CASE Exec(l)
  BY <1>1, <1>2 DEF Exec, LanesGoOn, LaneStates, Living
<1>3. CASE \E s \in Statuses : LaneEnds(l, s)
  BY <1>1, <1>3 DEF LaneEnds, LanesGoOn, LaneStates, Living
<1> QED
  BY <1>2, <1>3 DEF LaneStep

-----------------------------------------------------------------------------
(* One lemma per kind of step. *)

(* The supervisor moves within its loop, or is signalled outside it; its    *)
(* count and its result stay as they are.                                   *)
SupMoves ==
  /\ sup' \in Sups
  /\ sup'.rc = sup.rc /\ sup'.alive = sup.alive
  /\ sup'.pc = sup.pc \/ (sup.pc \in LoopPoints /\ sup'.pc \in LoopPoints)

LEMMA MovesPreserve ==
  ASSUME IInv, SupMoves, LanesGoOn, UNCHANGED <<wrapper, starts, left, kills>>, signals' \in 0..MaxSignals
  PROVE  IInv'
<1>1. TypeOK /\ CountOK /\ RcOK /\ LeftOK
  BY DEF IInv
<1>2. TypeOK'
  <2>1. TypeOK' <=> /\ sup' \in Sups
                    /\ lane' \in [Lanes -> LaneStates]
                    /\ status' \in [Lanes -> Statuses]
                    /\ wrapper' \in {"running", "delay", "stopped"}
                    /\ starts' \in 1..MaxStarts
                    /\ signals' \in 0..MaxSignals
                    /\ left' \subseteq Lanes
                    /\ kills' \in 0..MaxKills
    BY DEF TypeOK, Sups, LoopPoints, LaneStates
  <2> QED
    BY <1>1, <2>1, TypeParts DEF SupMoves, LanesGoOn
<1>3. Living' = Living /\ Reaped' = Reaped /\ Ends' = Ends
  BY <1>1, GoOnKeeps
<1>4. CountOK'
  BY <1>1, <1>3 DEF CountOK, SupMoves, LoopPoints
<1>5. RcOK'
  BY <1>1, <1>3 DEF RcOK, SupMoves, Stands, LoopPoints
<1>6. LeftOK'
  BY <1>1 DEF LeftOK, SupMoves, LoopPoints
<1> QED
  BY <1>2, <1>4, <1>5, <1>6 DEF IInv

LEMMA ForkPreserves ==
  ASSUME IInv, NEW l \in Lanes, Fork(l)
  PROVE  IInv'
<1>1. TypeOK /\ CountOK /\ RcOK /\ LeftOK
  BY DEF IInv
<1>2. sup.pc = "fork" /\ lane[l] = "none" /\ UNCHANGED <<sup, status, wrapper, starts, signals, left, kills>>
  BY DEF Fork
<1>3. lane \in [Lanes -> LaneStates] /\ lane' \in [Lanes -> LaneStates]
  BY <1>1, TypeParts DEF Fork, LaneStates
<1>4. TypeOK'
  BY <1>1, <1>2, <1>3 DEF TypeOK, LaneStates
<1>5. Reaped' = Reaped
  BY <1>3 DEF Fork, Reaped
<1>6. Reaped = {} /\ sup.rc = 0
  BY <1>1, <1>2 DEF CountOK, RcOK
<1>7. LeftOK'
  BY <1>1, <1>2 DEF LeftOK
<1> QED
  BY <1>2, <1>4, <1>5, <1>6, <1>7 DEF IInv, CountOK, RcOK, LoopPoints

LEMMA ForksDonePreserves ==
  ASSUME IInv, ForksDone
  PROVE  IInv'
<1>1. TypeOK /\ CountOK /\ RcOK /\ LeftOK
  BY DEF IInv
<1>2. sup.pc = "fork" /\ UNCHANGED <<lane, status, wrapper, starts, signals, left, kills>>
  BY DEF ForksDone
<1>3. Reaped = {} /\ sup.rc = 0
  BY <1>1, <1>2 DEF CountOK, RcOK
<1>4. Forked = Living
  <2>1. lane \in [Lanes -> LaneStates]
    BY <1>1, TypeParts
  <2> QED
    BY <1>3, <2>1 DEF Forked, Living, Reaped, LaneStates
<1>5. Living' = Living /\ Reaped' = Reaped
  BY <1>2 DEF Living, Reaped
<1>6. sup \in Sups /\ wrapper = "running"
  BY <1>1, <1>2, TypeParts DEF LeftOK
<1>7. CASE Forked = {}
  <2>1. sup' = [sup EXCEPT !.pc = "done", !.rc = 2]
    BY <1>7 DEF ForksDone
  <2>2. sup' \in Sups /\ sup'.pc = "done" /\ sup'.rc = 2
    BY <1>6, <2>1 DEF Sups, ExitCodes
  <2>3. TypeOK'
    BY <1>1, <1>2, <2>2 DEF TypeOK, Sups, LoopPoints
  <2>4. LeftOK'
    BY <1>1, <1>2, <1>6, <2>2 DEF LeftOK
  <2> QED
    BY <1>3, <1>4, <1>5, <1>7, <2>2, <2>3, <2>4 DEF IInv, CountOK, RcOK, LoopPoints
<1>8. CASE Forked # {}
  <2>1. sup' = [sup EXCEPT !.pc = "test", !.alive = Cardinality(Living)]
    BY <1>4, <1>8 DEF ForksDone, AliveAtStart
  <2>2. Cardinality(Living) \in 1..Cardinality(Lanes)
    <3>1. Cardinality(Living) # 0
      BY <1>4, <1>8, LanesFinite, FS_EmptySet
    <3>2. Cardinality(Living) <= Cardinality(Lanes)
      BY LanesAssumption, FS_Subset DEF Living
    <3> QED
      BY <3>1, <3>2, LanesFinite
  <2>3. sup' \in Sups /\ sup'.pc = "test" /\ sup'.rc = sup.rc /\ sup'.alive = Cardinality(Living)
    <3> DEFINE n == Cardinality(Living)
    <3>1. n \in 0..Cardinality(Lanes)
      BY <2>2
    <3> HIDE DEF n
    <3>2. sup' = [sup EXCEPT !.pc = "test", !.alive = n]
      BY <2>1 DEF n
    <3>3. sup' \in Sups /\ sup'.pc = "test" /\ sup'.rc = sup.rc /\ sup'.alive = n
      BY <1>6, <3>1, <3>2 DEF Sups, LoopPoints
    <3> QED
      BY <3>3 DEF n
  <2>4. TypeOK'
    BY <1>1, <1>2, <2>3 DEF TypeOK, Sups, LoopPoints
  <2>5. LeftOK'
    BY <1>1, <1>2, <1>6, <2>3 DEF LeftOK
  <2> QED
    BY <1>3, <1>5, <2>2, <2>3, <2>4, <2>5, LanesFinite DEF IInv, CountOK, RcOK, LoopPoints
<1> QED
  BY <1>7, <1>8

(* wait() returns lane l: one living lane less, and one status more. *)
LEMMA ReapPreserves ==
  ASSUME IInv, NEW l \in Lanes, Reap(l)
  PROVE  IInv'
<1>1. TypeOK /\ CountOK /\ RcOK /\ LeftOK
  BY DEF IInv
<1>2. sup.pc = "wait" /\ lane[l] = "zombie" /\ UNCHANGED <<wrapper, starts, signals, left, kills>>
  BY DEF Reap
<1>3. sup \in Sups /\ lane \in [Lanes -> LaneStates] /\ status \in [Lanes -> Statuses]
  BY <1>1, TypeParts
<1>4. sup.alive = Cardinality(Living) /\ sup.alive > 0
  BY <1>1, <1>2 DEF CountOK, LoopPoints
<1>5. /\ lane' \in [Lanes -> LaneStates] /\ status' \in [Lanes -> Statuses]
      /\ lane'[l] = "reaped" /\ status'[l] = status[l]
      /\ \A k \in Lanes \ {l} : \/ lane'[k] = lane[k] /\ status'[k] = status[k]
                                \/ lane[k] = "mining" /\ lane'[k] = "zombie"
  <2> DEFINE after == [lane EXCEPT ![l] = "reaped"]
             hit   == {k \in Lanes : after[k] = "mining"}
  <2>1. \/ lane' = after /\ status' = status
        \/ /\ lane'   = [k \in Lanes |-> IF k \in hit THEN "zombie" ELSE after[k]]
           /\ status' = [k \in Lanes |-> IF k \in hit THEN Terminated ELSE status[k]]
    BY DEF Reap, Kill
  <2>2. Terminated \in Statuses
    BY StatusesDecode
  <2> HIDE DEF hit
  <2>3. \A k \in Lanes : k \in hit <=> (k # l /\ lane[k] = "mining")
    BY <1>3 DEF hit
  <2> QED
    BY <1>3, <2>1, <2>2, <2>3 DEF LaneStates
<1>6. /\ sup'.pc = (IF LastLane THEN "done" ELSE "test")
      /\ sup'.alive = sup.alive - 1
      /\ sup'.rc = FinalRc(status[l])
      /\ sup' \in Sups
  <2>1. FinalRc(status[l]) \in ExitCodes
    BY <1>3, StatusesDecode DEF FinalRc, Sups
  <2>2. sup.alive - 1 \in 0..Cardinality(Lanes)
    BY <1>3, <1>4, LanesFinite DEF Sups
  <2> DEFINE pc == IF LastLane THEN "done" ELSE "test"
             rc == FinalRc(status[l])
             t  == sup.terminating \/ TakesOthers(status[l])
  <2>3. sup' = [sup EXCEPT !.pc = pc, !.alive = @ - 1, !.rc = rc, !.terminating = t]
    BY DEF Reap
  <2>4. pc \in {"done"} \cup LoopPoints /\ t \in BOOLEAN
    BY <1>3 DEF LoopPoints, TakesOthers, Sups
  <2> HIDE DEF pc, rc, t
  <2>5. /\ sup'.pc = pc /\ sup'.alive = sup.alive - 1 /\ sup'.rc = rc
        /\ sup' \in Sups
    BY <1>3, <2>1, <2>2, <2>3, <2>4 DEF Sups, rc
  <2> QED
    BY <2>5 DEF pc, rc
<1>7. TypeOK'
  BY <1>1, <1>2, <1>5, <1>6 DEF TypeOK, Sups, LoopPoints, LaneStates
<1>8. Living' = Living \ {l} /\ l \in Living /\ Reaped' = Reaped \cup {l}
  BY <1>2, <1>5 DEF Living, Reaped
<1>9. Cardinality(Living') = Cardinality(Living) - 1
  BY <1>8, LanesFinite, FS_RemoveElement
<1>10. CountOK'
  <2>1. CASE LastLane
    <3>1. Cardinality(Living') = 0 /\ IsFiniteSet(Living')
      BY <1>4, <1>8, <1>9, <2>1, LanesFinite, FS_RemoveElement DEF LastLane
    <3>2. Living' = {}
      BY <3>1, FS_EmptySet
    <3> QED
      BY <1>6, <2>1, <3>2 DEF CountOK, LoopPoints
  <2>2. CASE ~LastLane
    <3>1. sup'.alive = Cardinality(Living') /\ sup'.alive > 0
      BY <1>4, <1>6, <1>9, <2>2, LanesFinite DEF LastLane
    <3> QED
      BY <1>6, <2>2, <3>1 DEF CountOK, LoopPoints
  <2> QED
    BY <2>1, <2>2
<1>11. RcOK'
  <2>1. \A k \in Reaped : status'[k] = status[k]
    BY <1>5 DEF Reaped
  <2>2. Ends' = Ends \cup {Decode(status[l])}
    BY <1>5, <1>8, <2>1 DEF Ends, Decode
  <2>3. Reaped = {} => sup.rc = 0 /\ Ends = {}
    BY <1>1, <1>2 DEF RcOK, Ends
  <2>4. Reaped # {} => Stands(sup.rc, Ends)
    BY <1>1, <1>2 DEF RcOK
  <2>5. Stands(sup'.rc, Ends')
    BY <1>6, <2>2, <2>3, <2>4 DEF Stands, FinalRc
  <2> QED
    BY <1>8, <2>5 DEF RcOK
<1>12. LeftOK'
  BY <1>1, <1>2, <1>6 DEF LeftOK
<1> QED
  BY <1>7, <1>10, <1>11, <1>12 DEF IInv

(* StopLanes is taken from TestSignal and from WaitInterrupted. *)
LEMMA StopLanesPreserves ==
  ASSUME IInv, sup.pc \in LoopPoints, NEW pc \in {"enter", "test"}, StopLanes(pc)
  PROVE  IInv'
<1>1. TypeOK /\ sup \in Sups /\ signals \in 0..MaxSignals
  BY TypeParts DEF IInv
<1>2. sup' = [sup EXCEPT !.pc = pc, !.terminating = TRUE, !.pending = FALSE]
  BY DEF StopLanes
<1>3. SupMoves
  BY <1>1, <1>2 DEF SupMoves, Sups, LoopPoints
<1>4. LanesGoOn
  BY <1>1, KillGoesOn, StatusesDecode DEF StopLanes
<1> QED
  BY <1>1, <1>3, <1>4, MovesPreserve DEF StopLanes

LEMMA LoopPreserves ==
  ASSUME IInv, TestSignal \/ EnterWait \/ WaitInterrupted
  PROVE  IInv'
<1>1. TypeOK /\ sup \in Sups /\ signals \in 0..MaxSignals
  BY TypeParts DEF IInv
<1>2. CASE StopLanes("enter") /\ sup.pc = "test"
  BY <1>2, StopLanesPreserves DEF LoopPoints
<1>3. CASE WaitInterrupted
  BY <1>3, StopLanesPreserves DEF WaitInterrupted, LoopPoints
<1>4. CASE /\ sup.pc \in {"test", "enter"}
           /\ \E pc \in {"enter", "wait"} : sup' = [sup EXCEPT !.pc = pc]
           /\ UNCHANGED <<lane, status, wrapper, starts, signals, left, kills>>
  <2>1. SupMoves
    BY <1>1, <1>4 DEF SupMoves, Sups, LoopPoints
  <2> QED
    BY <1>1, <1>4, <2>1, SameLanesGoOn, MovesPreserve
<1> QED
  BY <1>2, <1>3, <1>4 DEF TestSignal, EnterWait

LEMMA UserPreserves ==
  ASSUME IInv, User
  PROVE  IInv'
<1>1. TypeOK /\ sup \in Sups /\ signals \in 0..MaxSignals
  BY TypeParts DEF IInv
<1>2. Handler /\ CanSignal /\ signals' = signals + 1 /\ UNCHANGED <<wrapper, starts, left, kills>>
  BY DEF User, KillSupervisor, InterruptGroup
<1>3. signals' \in 0..MaxSignals
  BY <1>1, <1>2, BoundsAssumption DEF CanSignal
<1>4. SupMoves
  <2>1. PICK pc \in {sup.pc, "eintr"} : /\ sup' = [sup EXCEPT !.pending = TRUE, !.pc = pc]
                                        /\ pc = sup.pc \/ (pc = "eintr" /\ sup.pc = "wait")
    BY <1>2 DEF Handler
  <2>2. /\ sup'.pc = pc /\ sup'.rc = sup.rc /\ sup'.alive = sup.alive
        /\ sup' \in Sups
    BY <1>1, <2>1 DEF Sups, LoopPoints
  <2> QED
    BY <2>1, <2>2 DEF SupMoves, LoopPoints
<1>5. LanesGoOn
  BY <1>1, KillGoesOn, SameLanesGoOn, StatusesDecode DEF User, KillSupervisor, InterruptGroup
<1> QED
  BY <1>2, <1>3, <1>4, <1>5, MovesPreserve

LEMMA WrapperPreserves ==
  ASSUME IInv, Wrapper
  PROVE  IInv'
<1>1. TypeOK /\ CountOK /\ RcOK /\ LeftOK
  BY DEF IInv
<1>2. CASE MinerExits
  <2>1. /\ wrapper' \in {"stopped", "delay"} /\ sup.pc \in {"done", "dead"}
        /\ UNCHANGED <<sup, lane, status, starts, signals, left, kills>>
    BY <1>2 DEF MinerExits
  <2> QED
    BY <1>1, <2>1 DEF IInv, TypeOK, CountOK, RcOK, LeftOK, Living, Reaped, Ends, Decode
<1>3. CASE Relaunch
  <2>1. /\ sup' = Fresh /\ lane' = [l \in Lanes |-> "none"] /\ status' = [l \in Lanes |-> Running]
        /\ wrapper' = "running" /\ signals' = 0 /\ starts' = starts + 1 /\ starts < MaxStarts
        /\ left' = left \cup Going /\ kills' = kills /\ wrapper = "delay"
    BY <1>3 DEF Relaunch
  <2>2. starts' \in 1..MaxStarts
    BY <1>1, <2>1, BoundsAssumption DEF TypeOK
  <2>3. lane' \in [Lanes -> LaneStates] /\ status' \in [Lanes -> Statuses]
    BY <2>1, StatusesDecode DEF LaneStates
  <2>4. TypeOK'
    <3>1. left' \subseteq Lanes /\ kills' \in 0..MaxKills
      BY <1>1, <2>1 DEF TypeOK, Going
    <3> QED
      BY <2>1, <2>2, <2>3, <3>1, FreshTyped, BoundsAssumption DEF TypeOK, Sups, LaneStates, LoopPoints
  <2>5. Reaped' = {} /\ sup'.pc = "fork" /\ sup'.rc = 0
    BY <2>1 DEF Reaped, Fresh
  <2>6. LeftOK'
    <3>1. kills = 0 => Going = {}
      BY <1>1, <2>1 DEF LeftOK, CountOK, Living, Going
    <3> QED
      BY <1>1, <2>1, <2>5, <3>1 DEF LeftOK
  <2> QED
    BY <2>4, <2>5, <2>6 DEF IInv, CountOK, RcOK, LoopPoints
<1> QED
  BY <1>2, <1>3 DEF Wrapper

LEMMA DiesPreserves ==
  ASSUME IInv, NEW sig \in {9, 13}, SupDies(sig)
  PROVE  IInv'
<1>1. TypeOK /\ CountOK /\ RcOK /\ LeftOK
  BY DEF IInv
<1>2. /\ kills < MaxKills /\ kills' = kills + 1 /\ wrapper = "running"
      /\ UNCHANGED <<lane, status, wrapper, starts, signals, left>>
  BY DEF SupDies
<1>3. sup' \in Sups /\ sup'.pc = "dead"
  <2>1. sup \in Sups /\ 128 + sig \in ExitCodes
    BY <1>1, TypeParts DEF ExitCodes
  <2>2. sup' = [sup EXCEPT !.pc = "dead", !.rc = 128 + sig]
    BY DEF SupDies
  <2> QED
    BY <2>1, <2>2 DEF Sups
<1>4. kills' \in 0..MaxKills /\ kills' # 0
  BY <1>1, <1>2, BoundsAssumption DEF TypeOK
<1>5. TypeOK'
  BY <1>1, <1>2, <1>3, <1>4 DEF TypeOK, Sups, LoopPoints
<1> QED
  BY <1>2, <1>3, <1>4, <1>5 DEF IInv, CountOK, RcOK, LeftOK, LoopPoints

LEMMA LeftoverPreserves ==
  ASSUME IInv, NEW l \in Lanes, LeftoverEnds(l)
  PROVE  IInv'
<1>1. left' = left \ {l} /\ UNCHANGED <<sup, lane, status, wrapper, starts, signals, kills>>
  BY DEF LeftoverEnds
<1> QED
  BY <1>1 DEF IInv, TypeOK, CountOK, RcOK, LeftOK, Living, Reaped, Ends, Decode

LEMMA LanePreserves ==
  ASSUME IInv, NEW l \in Lanes, LaneStep(l)
  PROVE  IInv'
<1>1. TypeOK /\ sup \in Sups /\ signals \in 0..MaxSignals
  BY TypeParts DEF IInv
<1>2. SupMoves
  BY <1>1, LaneStepGoesOn DEF SupMoves
<1> QED
  BY <1>1, <1>2, LaneStepGoesOn, MovesPreserve

-----------------------------------------------------------------------------
(* The invariant, and what follows from it. *)

LEMMA InitOK == Init => IInv
<1> SUFFICES ASSUME Init PROVE IInv
  OBVIOUS
<1>1. sup = Fresh /\ lane = [l \in Lanes |-> "none"] /\ status = [l \in Lanes |-> Running]
  BY DEF Init
<1>2. sup \in Sups /\ lane \in [Lanes -> LaneStates] /\ status \in [Lanes -> Statuses]
  BY <1>1, FreshTyped, StatusesDecode DEF LaneStates
<1>3. TypeOK
  BY <1>2, TypeParts, BoundsAssumption DEF Init
<1>4. Reaped = {} /\ sup.pc = "fork" /\ sup.rc = 0
  BY <1>1 DEF Reaped, Fresh
<1>5. LeftOK
  BY <1>4 DEF Init, LeftOK
<1> QED
  BY <1>3, <1>4, <1>5 DEF IInv, CountOK, RcOK, LoopPoints

LEMMA Invariance == Spec => []IInv
<1>1. IInv /\ [Next]_vars => IInv'
  <2> SUFFICES ASSUME IInv, [Next]_vars PROVE IInv'
    OBVIOUS
  <2>1. CASE SupStep
    BY <2>1, ForkPreserves, ReapPreserves, ForksDonePreserves, LoopPreserves DEF SupStep
  <2>2. CASE \E l \in Lanes : LaneStep(l) \/ LeftoverEnds(l)
    BY <2>2, LanePreserves, LeftoverPreserves
  <2>3. CASE User \/ Wrapper
    BY <2>3, UserPreserves, WrapperPreserves
  <2>4. CASE UNCHANGED vars
    BY <2>4 DEF vars, IInv, TypeOK, CountOK, RcOK, LeftOK, Living, Reaped, Ends, Decode
  <2>5. CASE \E sig \in {9, 13} : SupDies(sig)
    BY <2>5, DiesPreserves
  <2> QED
    BY <2>1, <2>2, <2>3, <2>4, <2>5 DEF Next
<1> QED
  BY <1>1, InitOK, PTL DEF Spec

(* The variables keep their types, the count of the children between none   *)
(* and all the lanes included (Supervisor!TypeOK).                          *)
THEOREM SupervisorTypeCorrect == Spec => []TypeOK
<1>1. IInv => TypeOK
  BY DEF IInv
<1> QED
  BY <1>1, Invariance, PTL

(* The supervisor's count is that of its unreaped children whenever it may  *)
(* wait: it never waits for a child that does not exist.                    *)
THEOREM CountsItsChildren == Spec => []AliveCounts
<1>1. IInv => AliveCounts
  BY DEF IInv, CountOK, AliveCounts, LoopPoints
<1> QED
  BY <1>1, Invariance, PTL

(* When the supervisor has returned, every lane it forked has been reaped,  *)
(* and no start of run.sh finds a lane of an earlier one unless a           *)
(* supervisor was killed (run_pool_parent_multigpu, run.sh).                *)
THEOREM LeavesNoOrphan == Spec => []NoOrphans
<1>1. IInv => NoOrphans
  BY DEF IInv, CountOK, LeftOK, NoOrphans
<1> QED
  BY <1>1, Invariance, PTL

(* The exit code is the status of a lane, and 0 only if all ended with 0.   *)
THEOREM ExitCodeIsFaithful == Spec => []RcFaithful
<1>1. IInv => RcFaithful
  <2> SUFFICES ASSUME IInv, sup.pc = "done" PROVE RcFaithful
    BY DEF RcFaithful
  <2>1. RcOK
    BY DEF IInv
  <2>2. Ends = {} <=> Reaped = {}
    BY DEF Ends
  <2> QED
    BY <2>1, <2>2 DEF RcFaithful, RcOK, Stands, Ends, Reaped
<1> QED
  BY <1>1, Invariance, PTL
=============================================================================
