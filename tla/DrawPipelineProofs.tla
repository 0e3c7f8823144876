------------------------- MODULE DrawPipelineProofs -------------------------
(***************************************************************************)
(* What DrawPipeline promises, proved for every number of draws and         *)
(* attempts and every set of builds: it keeps the contract of the prover,   *)
(* and a proof is of a draw that wins, whatever the device did.             *)
(***************************************************************************)
EXTENDS DrawPipeline, TLAPS

Preparing == {"phase1", "sync1", "sync2", "drain"}

(* The draws the loop handles are draws of the attempt. *)
DrawOK ==
  /\ At("prime") => host.draw = 0 /\ host.next = 0
  /\ host.pc \in {"spawn", "launch", "ahead", "wait", "join", "judge", "rederive"} =>
       host.draw < MaxDraws
  /\ host.pc \in Preparing => host.draw <= host.next /\ host.next < MaxDraws

(* The answer to the search of the current draw is in. *)
Answered ==
  \/ host.pc \in {"join", "judge", "rederive", "over", "postcheck", "proof", "returned"}
  \/ mode = "sync" /\ (At("ahead") \/ (host.pc \in Preparing /\ host.next > 0))

SearchedOK ==
  \/ hist.searched <= host.draw
  \/ Answered /\ hist.searched = host.draw + 1 /\ host.draw < MaxDraws

Typed == TypeOK /\ DrawOK /\ SearchedOK

(* Each build takes its own way through the loop. *)
BuildOK ==
  /\ mode = "cpu" => prepq = <<>> /\ host.pc \notin Preparing \cup {"ahead"}
  /\ mode # "cpu" => host.pc \notin {"spawn", "join"}
  /\ prod # NoProducer => mode = "cpu" /\ host.pc \in {"launch", "wait", "join"}

(* From the launch of a search without a preparation on, nothing is queued  *)
(* that would change the host variables: what a failed attempt has left     *)
(* behind is gone by then.                                                  *)
QuietOK ==
  prepq # <<>> =>
    \/ host.pc \in {"prime"} \cup Preparing
    \/ At("top") /\ (stop \/ MaxDraws = 0)
    \/ At("over") /\ ~host.found
    \/ At("returned") /\ host.rc # 0

(* found is set last, and the host variables then hold the winning draw.    *)
ProvenOK ==
  /\ host.found => host.pc \in {"over", "postcheck", "proof", "returned"}
  /\ At("over") /\ host.found /\ ~stop => data = Produced(Id(host.draw))
  /\ At("postcheck") => data = Produced(Id(host.draw))
  /\ At("proof") \/ (At("returned") /\ host.rc = 0) =>
       \E d \in wins : data = Produced(Id(d)) /\ host.tile = Id(d)

IInv == Typed /\ BuildOK /\ QuietOK /\ ProvenOK

-----------------------------------------------------------------------------
(* Types. *)

LEMMA NoDrawIsId == NoDraw \in Ids
  BY DEF Ids

LEMMA IdIsId ==
  ASSUME HostType, NEW n \in 0..(MaxDraws - 1)
  PROVE  Id(n) \in Ids
BY BoundsAssumption DEF HostType, Id, Ids, Draws

LEMMA ContentsTyped ==
  /\ Junk \in Contents
  /\ \A x \in Ids : Raw(x) \in Contents /\ Noised(x) \in Contents
  /\ \A c \in Contents : c.of \in Ids
BY NoDrawIsId DEF Contents, Junk, Raw, Noised

LEMMA InitTyped == Init => Typed
<1> SUFFICES ASSUME Init PROVE Typed
  OBVIOUS
<1> USE BoundsAssumption, NoDrawIsId
<1>1. HostType
  BY DEF Init, HostType, FreshHost, Points
<1>2. DataType
  BY DEF Init, DataType, Both
<1>3. ProducerType
  <2>1. slot \in [0..1 -> [mat : [Matrices -> Contents], seed : Ids]]
    BY ContentsTyped DEF Init, NoSlots, Both
  <2> QED
    BY <2>1 DEF Init, ProducerType, NoProducer
<1>4. DevType
  BY ContentsTyped DEF Init, DevType, Both
<1>5. StreamsType
  BY DEF Init, StreamsType
<1>7. OtherTypes
  <2>1. mode \in Modes /\ wins \subseteq 0..(MaxDraws - 1) /\ stop \in BOOLEAN
    BY Zenon DEF Init
  <2>2. hist \in [fault : BOOLEAN, searched : 0..MaxDraws]
    BY DEF Init
  <2> QED
    BY <2>1, <2>2 DEF OtherTypes
<1>6. DrawOK /\ SearchedOK
  BY DEF Init, FreshHost, DrawOK, SearchedOK, At, Preparing
<1> QED
  BY <1>1, <1>2, <1>3, <1>4, <1>5, <1>6, <1>7 DEF Typed, TypeOK

(* What the steps of the loop leave alone. *)
Kept == host'.a = host.a /\ host'.draw = host.draw /\ host'.next = host.next
KeptWin == host'.found = host.found /\ host'.tile = host.tile

LEMMA GotoKeeps ==
  ASSUME HostType, NEW pc \in Points, Goto(pc)
  PROVE  HostType' /\ host'.pc = pc /\ Kept /\ KeptWin /\ host'.rc = host.rc
BY DEF HostType, Goto, Kept, KeptWin

LEMMA ReturnKeeps ==
  ASSUME HostType, NEW rc \in {0, 2, 4}, Return(rc)
  PROVE  HostType' /\ host'.pc = "returned" /\ Kept /\ KeptWin /\ host'.rc = rc
BY DEF HostType, Return, Points, Kept, KeptWin

LEMMA LaunchFailsKeeps ==
  ASSUME HostType, mode \in Modes, LaunchFails
  PROVE  /\ HostType' /\ Kept /\ KeptWin
         /\ \/ mode = "async" /\ host'.pc = "returned" /\ host'.rc = 2
            \/ mode = "sync" /\ host'.pc = "judge" /\ host'.rc = host.rc
            \/ mode = "cpu" /\ host'.pc = "join" /\ host'.rc = host.rc
<1>1. mode \in {"async", "sync", "cpu"}
  BY ModesAssumption
<1>2. CASE mode = "async"
  BY <1>2, ReturnKeeps DEF LaunchFails
<1>3. CASE mode = "sync"
  <2>1. host' = [host EXCEPT !.pc = "judge", !.ok = "error"]
    BY <1>3 DEF LaunchFails
  <2> QED
    BY <1>3, <2>1 DEF HostType, Points, Kept, KeptWin
<1>4. CASE mode = "cpu"
  <2>1. host' = [host EXCEPT !.pc = "join", !.ok = "error"]
    BY <1>4 DEF LaunchFails
  <2> QED
    BY <1>4, <2>1 DEF HostType, Points, Kept, KeptWin
<1> QED
  BY <1>1, <1>2, <1>3, <1>4

LEMMA AheadKeeps ==
  ASSUME Typed, Ahead
  PROVE  /\ HostType' /\ host'.a = host.a /\ host'.draw = host.draw /\ KeptWin
         /\ host'.rc = host.rc
         /\ \/ host'.pc = "phase1" /\ host'.next = host.draw + 1 /\ host'.next < MaxDraws
            \/ host'.pc = "wait" /\ mode = "async" /\ host'.next = host.next
            \/ host'.pc = "judge" /\ mode # "async" /\ host'.next = host.next
<1>1. HostType /\ DrawOK
  BY DEF Typed, TypeOK
<1>2. CASE HasNext
  <2>1. host' = [host EXCEPT !.pc = "phase1", !.next = host.draw + 1]
    BY <1>2 DEF Ahead
  <2>2. host.draw + 1 \in 0..MaxDraws /\ host.draw + 1 < MaxDraws
    BY <1>1, <1>2, BoundsAssumption DEF HostType, HasNext
  <2> QED
    BY <1>1, <2>1, <2>2 DEF HostType, Points, KeptWin
<1>3. CASE ~HasNext
  <2>1. host' = [host EXCEPT !.pc = IF mode = "async" THEN "wait" ELSE "judge"]
    BY <1>3 DEF Ahead
  <2> QED
    BY <1>1, <2>1 DEF HostType, Points, KeptWin
<1> QED
  BY <1>2, <1>3

LEMMA WaitKeeps ==
  ASSUME Typed, Wait \/ WaitFails
  PROVE  /\ HostType' /\ Kept /\ KeptWin /\ host'.rc = host.rc
         /\ \/ host'.pc = "judge" /\ mode # "cpu"
            \/ host'.pc = "ahead" /\ mode = "sync" /\ Wait
            \/ host'.pc = "join" /\ mode = "cpu"
<1>1. HostType /\ dev.tile \in Ids
  BY DEF Typed, TypeOK, DevType
<1>2. \A ok \in {"none", "win", "error"} :
        \/ AfterWait(ok) = "judge" /\ mode # "cpu"
        \/ AfterWait(ok) = "ahead" /\ mode = "sync" /\ ok = "none"
        \/ AfterWait(ok) = "join" /\ mode = "cpu"
  <2>1. mode \in {"async", "sync", "cpu"}
    BY ModesAssumption DEF Typed, TypeOK, OtherTypes
  <2> QED
    BY <2>1 DEF AfterWait
<1>3. CASE Wait
  <2> DEFINE ok == IF dev.win THEN "win" ELSE "none"
  <2>1. ok \in {"none", "win", "error"}
    OBVIOUS
  <2>2. AfterWait(ok) \in Points
    BY <1>2, <2>1 DEF Points
  <2>3. host' = [host EXCEPT !.pc = AfterWait(ok), !.ok = ok, !.hit = dev.tile]
    BY <1>3 DEF Wait
  <2>4. HostType' /\ host'.pc = AfterWait(ok) /\ Kept /\ KeptWin /\ host'.rc = host.rc
    <3> HIDE DEF ok
    <3> QED
      BY <1>1, <2>1, <2>2, <2>3 DEF HostType, Kept, KeptWin
  <2> QED
    BY <1>2, <1>3, <2>1, <2>4
<1>4. CASE WaitFails
  <2>1. AfterWait("error") \in Points
    BY <1>2 DEF Points
  <2>2. host' = [host EXCEPT !.pc = AfterWait("error"), !.ok = "error"]
    BY <1>4 DEF WaitFails
  <2>3. HostType' /\ host'.pc = AfterWait("error") /\ Kept /\ KeptWin /\ host'.rc = host.rc
    BY <1>1, <2>1, <2>2 DEF HostType, Kept, KeptWin
  <2> QED
    BY <1>2, <2>3
<1> QED
  BY <1>3, <1>4

LEMMA WinKeeps ==
  ASSUME HostType, Win
  PROVE  /\ HostType' /\ Kept /\ host'.tile = host.tile /\ host'.rc = host.rc
         /\ \/ stop /\ host'.pc = "over" /\ host'.found
            \/ ~stop /\ host'.pc = "rederive" /\ host'.found = host.found
<1>1. CASE stop
  <2>1. host' = [host EXCEPT !.pc = "over", !.found = TRUE]
    BY <1>1 DEF Win
  <2> QED
    BY <1>1, <2>1 DEF HostType, Points, Kept
<1>2. CASE ~stop
  <2>1. host' = [host EXCEPT !.pc = "rederive"]
    BY <1>2 DEF Win
  <2> QED
    BY <1>2, <2>1 DEF HostType, Points, Kept
<1> QED
  BY <1>1, <1>2

LEMMA NoWinKeeps ==
  ASSUME Typed, NoWin
  PROVE  /\ HostType' /\ KeptWin /\ host'.a = host.a /\ host'.rc = host.rc
         /\ host'.pc = "top" /\ host'.draw = host.draw + 1 /\ host'.next = host.next
<1>1. HostType /\ host.draw < MaxDraws
  BY DEF Typed, TypeOK, DrawOK, NoWin, At
<1>2. host' = [host EXCEPT !.pc = "top", !.draw = @ + 1, !.cur = 1 - @]
  BY DEF NoWin
<1>3. host.draw + 1 \in 0..MaxDraws /\ 1 - host.cur \in 0..1
  BY <1>1, BoundsAssumption DEF HostType
<1> QED
  BY <1>1, <1>2, <1>3 DEF HostType, Points, KeptWin

LEMMA RederiveKeeps ==
  ASSUME HostType, Rederive
  PROVE  /\ HostType' /\ Kept /\ host'.pc = "over" /\ host'.found /\ host'.rc = host.rc
BY DEF HostType, Points, Rederive, Kept

LEMMA LoopOverKeeps ==
  ASSUME HostType, LoopOver
  PROVE  /\ HostType' /\ Kept /\ KeptWin
         /\ \/ host.found /\ ~stop /\ host'.pc = "postcheck" /\ host'.rc = host.rc
            \/ ~(host.found /\ ~stop) /\ host'.pc = "returned" /\ host'.rc = 2
<1>1. DrawsDone \in 0..(MaxDraws + 1)
  BY BoundsAssumption DEF DrawsDone, HostType
<1>2. CASE host.found /\ ~stop
  <2>1. host' = [host EXCEPT !.pc = "postcheck", !.draws = DrawsDone]
    BY <1>2 DEF LoopOver
  <2> QED
    BY <1>1, <1>2, <2>1 DEF HostType, Points, Kept, KeptWin
<1>3. CASE ~(host.found /\ ~stop)
  <2>1. host' = [host EXCEPT !.pc = "returned", !.rc = 2, !.draws = DrawsDone]
    BY <1>3 DEF LoopOver
  <2> QED
    BY <1>1, <1>3, <2>1 DEF HostType, Points, Kept, KeptWin
<1> QED
  BY <1>2, <1>3

LEMMA NextAttemptFresh ==
  ASSUME HostType, NextAttempt
  PROVE  /\ HostType' /\ host'.pc = "prime" /\ host'.draw = 0 /\ host'.next = 0
         /\ ~host'.found /\ host'.rc = 2
BY BoundsAssumption, NoDrawIsId DEF HostType, Points, NextAttempt, FreshHost, At

(* The steps that only move on, and those that only return. *)
Moves == Prime \/ Phase1 \/ Phase2 \/ Prepared \/ Top \/ Spawn \/ Launch \/ Join

LEMMA MovesKeep ==
  ASSUME HostType, mode \in Modes, BuildOK, Moves
  PROVE  /\ HostType' /\ Kept /\ KeptWin /\ host'.rc = host.rc
         /\ \/ Prime /\ host'.pc = "phase1" /\ mode # "cpu" /\ MaxDraws > 0 /\ ~stop
            \/ Prime /\ host'.pc = "over" /\ mode = "cpu"
            \/ Prime /\ host'.pc = "top" /\ (mode = "cpu" \/ stop \/ ~(MaxDraws > 0))
            \/ Phase1 /\ host'.pc = "sync1"
            \/ Phase2 /\ host'.pc = "sync2"
            \/ Prepared /\ host'.pc = "top" /\ host.next = 0
            \/ Prepared /\ host'.pc = "wait" /\ host.next > 0 /\ mode = "async"
            \/ Prepared /\ host'.pc = "judge" /\ host.next > 0 /\ mode = "sync"
            \/ Top /\ host'.pc = "over" /\ ~GoesOn
            \/ Top /\ host'.pc = "spawn" /\ mode = "cpu" /\ GoesOn
            \/ Top /\ host'.pc = "launch" /\ mode # "cpu" /\ GoesOn
            \/ Spawn /\ host'.pc = "launch"
            \/ Launch /\ host'.pc = "ahead" /\ mode = "async"
            \/ Launch /\ host'.pc = "wait" /\ mode # "async"
            \/ Join /\ host'.pc = "judge"
<1>1. CASE Prime
  <2>1. CASE MaxDraws > 0 /\ ~stop
    <3>1. CASE mode = "cpu"
      BY <1>1, <2>1, <3>1, GotoKeeps DEF Prime, Points
    <3>2. CASE mode # "cpu"
      BY <1>1, <2>1, <3>2, GotoKeeps DEF Prime, Points
    <3> QED
      BY <3>1, <3>2
  <2>2. CASE ~(MaxDraws > 0 /\ ~stop)
    <3>1. CASE mode = "cpu"
      <4>1. Goto("over")
        BY <1>1, <2>2, <3>1 DEF Prime
      <4> QED
        BY <1>1, <3>1, <4>1, GotoKeeps DEF Points
    <3>2. CASE mode # "cpu"
      <4>1. Goto("top")
        BY <1>1, <2>2, <3>2 DEF Prime
      <4> QED
        BY <1>1, <2>2, <4>1, GotoKeeps DEF Points
    <3> QED
      BY <3>1, <3>2
  <2> QED
    BY <2>1, <2>2
<1>2. CASE Phase1
  BY <1>2, GotoKeeps DEF Phase1, Points
<1>3. CASE Phase2
  BY <1>3, GotoKeeps DEF Phase2, Points
<1>4. CASE Prepared
  <2> DEFINE pc == CASE host.next = 0                   -> "top"
                     [] host.next > 0 /\ mode = "async" -> "wait"
                     [] host.next > 0 /\ mode = "sync"  -> "judge"
  <2>1. Goto(pc)
    BY <1>4 DEF Prepared
  <2>2. \/ pc = "top" /\ host.next = 0
        \/ pc = "wait" /\ host.next > 0 /\ mode = "async"
        \/ pc = "judge" /\ host.next > 0 /\ mode = "sync"
    <3>1. mode \in {"async", "sync"}
      BY <1>4, ModesAssumption DEF BuildOK, Prepared, At, Preparing
    <3>2. host.next = 0 \/ host.next > 0
      BY BoundsAssumption DEF HostType
    <3> QED
      BY <3>1, <3>2
  <2> HIDE DEF pc
  <2> QED
    BY <1>4, <2>1, <2>2, GotoKeeps DEF Points
<1>5. CASE Top
  <2>1. CASE ~GoesOn
    BY <1>5, <2>1, GotoKeeps DEF Top, Points
  <2>2. CASE GoesOn /\ mode = "cpu"
    BY <1>5, <2>2, GotoKeeps DEF Top, Points
  <2>3. CASE GoesOn /\ mode # "cpu"
    BY <1>5, <2>3, GotoKeeps DEF Top, Points
  <2> QED
    BY <2>1, <2>2, <2>3
<1>6. CASE Spawn
  BY <1>6, GotoKeeps DEF Spawn, Points
<1>7. CASE Launch
  <2>1. CASE mode = "async"
    BY <1>7, <2>1, GotoKeeps DEF Launch, Points
  <2>2. CASE mode # "async"
    BY <1>7, <2>2, GotoKeeps DEF Launch, Points
  <2> QED
    BY <2>1, <2>2
<1>8. CASE Join
  BY <1>8, GotoKeeps DEF Join, Points
<1> QED
  BY <1>1, <1>2, <1>3, <1>4, <1>5, <1>6, <1>7, <1>8 DEF Moves

(* The points they lead from and to. *)
LEMMA MovesGo ==
  ASSUME HostType, mode \in Modes, BuildOK, Moves
  PROVE  \/ host.pc = "prime" /\ host'.pc = "phase1" /\ MaxDraws > 0
         \/ host.pc = "prime" /\ host'.pc \in {"over", "top"}
         \/ host.pc = "phase1" /\ host'.pc = "sync1"
         \/ host.pc = "sync1" /\ host'.pc = "sync2"
         \/ host.pc = "sync2" /\ host'.pc = "top" /\ host.next = 0
         \/ host.pc = "sync2" /\ host'.pc = "wait" /\ mode = "async"
         \/ host.pc = "sync2" /\ host'.pc = "judge"
         \/ host.pc = "top" /\ host'.pc = "over"
         \/ host.pc = "top" /\ host'.pc \in {"spawn", "launch"} /\ host.draw < MaxDraws
         \/ host.pc = "spawn" /\ host'.pc = "launch"
         \/ host.pc = "launch" /\ host'.pc \in {"ahead", "wait"}
         \/ host.pc = "join" /\ host'.pc = "judge"
<1>1. /\ Prime => host.pc = "prime"
      /\ Phase1 => host.pc = "phase1"
      /\ Phase2 => host.pc = "sync1"
      /\ Prepared => host.pc = "sync2"
      /\ Top => host.pc = "top"
      /\ Spawn => host.pc = "spawn"
      /\ Launch => host.pc = "launch"
      /\ Join => host.pc = "join"
  BY Zenon DEF Prime, Phase1, Phase2, Prepared, Top, Spawn, Launch, Join, At
<1>2. GoesOn => host.draw < MaxDraws
  BY DEF GoesOn
<1> QED
  BY <1>1, <1>2, MovesKeep

LEMMA PrepFailsKeeps ==
  ASSUME HostType, PrepFails
  PROVE  /\ HostType' /\ Kept /\ KeptWin
         /\ \/ host'.pc = "drain" /\ host.next > 0 /\ mode = "async" /\ host'.rc = host.rc
            \/ host'.pc = "returned" /\ host'.rc = 2
<1>1. CASE host.next > 0 /\ mode = "async"
  BY <1>1, GotoKeeps DEF PrepFails, Points
<1>2. CASE ~(host.next > 0 /\ mode = "async")
  BY <1>2, ReturnKeeps DEF PrepFails
<1> QED
  BY <1>1, <1>2

LEMMA PostcheckKeeps ==
  ASSUME HostType, Postcheck
  PROVE  /\ HostType' /\ Kept /\ KeptWin
         /\ \/ PostOk /\ host'.pc = "proof" /\ host'.rc = host.rc
            \/ host'.pc = "returned" /\ host'.rc = 4
<1>1. CASE PostOk
  BY <1>1, GotoKeeps DEF Postcheck, Points
<1>2. CASE ~PostOk
  BY <1>2, ReturnKeeps DEF Postcheck
<1> QED
  BY <1>1, <1>2

LEMMA ProofKeeps ==
  ASSUME HostType, Proof
  PROVE  /\ HostType' /\ Kept /\ KeptWin /\ host'.pc = "returned"
         /\ host'.rc = (IF stop THEN 2 ELSE 0)
<1>1. LastLook \in {0, 2, 4} /\ Return(LastLook)
  BY DEF Proof, LastLook
<1>2. HostType' /\ Kept /\ KeptWin /\ host'.pc = "returned" /\ host'.rc = LastLook
  BY <1>1, ReturnKeeps
<1> QED
  BY <1>2 DEF LastLook

LEMMA FailuresKeep ==
  ASSUME HostType, Drain \/ SearchFailed
  PROVE  HostType' /\ Kept /\ KeptWin /\ host'.pc = "returned" /\ host'.rc = 2
BY ReturnKeeps DEF Drain, SearchFailed

(* Every step that is not the loop's, the start of an attempt included. *)
Beside == Producer \/ PrepStream \/ SearchStream \/ RaiseStop \/ Over \/ UNCHANGED vars

LEMMA BesideKeeps ==
  ASSUME Beside
  PROVE  host' = host /\ mode' = mode /\ wins' = wins
BY DEF Beside, Producer, PrepStream, SearchStream, RaiseStop, Over, vars

(* They start nothing on an empty stream, and never take the stop back. *)
LEMMA BesideQueues ==
  ASSUME Beside
  PROVE  (prepq = <<>> => prepq' = prepq) /\ (stop => stop')
<1>1. Producer => prepq' = prepq /\ stop' = stop
  BY Zenon DEF Producer, gpu
<1>2. PrepStream => prepq # <<>> /\ stop' = stop
  BY Zenon DEF PrepStream
<1>3. SearchStream => prepq' = prepq /\ stop' = stop
  BY Zenon DEF SearchStream
<1>4. RaiseStop => prepq' = prepq /\ stop'
  BY DEF RaiseStop, gpu
<1>5. Over \/ UNCHANGED vars => prepq' = prepq /\ stop' = stop
  BY DEF Over, vars
<1> QED
  BY <1>1, <1>2, <1>3, <1>4, <1>5 DEF Beside

LEMMA Steps ==
  ASSUME [Next]_vars
  PROVE  \/ Moves \/ PrepFails \/ Drain \/ SearchFailed \/ LaunchFails \/ Ahead
         \/ Wait \/ WaitFails \/ Win \/ NoWin \/ Rederive \/ LoopOver \/ Postcheck \/ Proof
         \/ NextAttempt \/ Beside
BY DEF Next, Host, Prepare, Moves, Beside

LEMMA HostPreserved == Typed /\ BuildOK /\ [Next]_vars => HostType'
<1> SUFFICES ASSUME Typed, BuildOK, [Next]_vars PROVE HostType'
  OBVIOUS
<1>1. HostType /\ mode \in Modes
  BY DEF Typed, TypeOK, OtherTypes
<1>2. CASE Beside
  BY <1>1, <1>2, BesideKeeps DEF HostType
<1> QED
  BY <1>1, <1>2, Steps, MovesKeep, PrepFailsKeeps, FailuresKeep, LaunchFailsKeeps, AheadKeeps,
     WaitKeeps, WinKeeps, NoWinKeeps, RederiveKeeps, LoopOverKeeps, PostcheckKeeps,
     ProofKeeps, NextAttemptFresh

LEMMA DrawPreserved == Typed /\ BuildOK /\ [Next]_vars => DrawOK'
<1> SUFFICES ASSUME Typed, BuildOK, [Next]_vars PROVE DrawOK'
  OBVIOUS
<1>1. /\ HostType /\ mode \in Modes /\ DrawOK
      /\ host.draw \in 0..MaxDraws /\ host.next \in 0..MaxDraws
  BY DEF Typed, TypeOK, OtherTypes, HostType
<1> USE BoundsAssumption
<1>2. CASE Beside
  BY <1>1, <1>2, BesideKeeps DEF DrawOK, At
<1>3. CASE Moves
  <2>1. host'.draw = host.draw /\ host'.next = host.next
    BY <1>1, <1>3, MovesKeep DEF Kept
  <2> QED
    BY <1>1, <1>3, <2>1, MovesGo DEF DrawOK, At, Preparing
<1>4. CASE PrepFails
  BY <1>1, <1>4, PrepFailsKeeps DEF DrawOK, Kept, At, Preparing, PrepFails
<1>5. CASE Drain \/ SearchFailed
  BY <1>1, <1>5, FailuresKeep DEF DrawOK, At, Preparing
<1>6. CASE LaunchFails
  BY <1>1, <1>6, LaunchFailsKeeps DEF DrawOK, Kept, At, Preparing, LaunchFails
<1>7. CASE Ahead
  BY <1>1, <1>7, AheadKeeps DEF DrawOK, At, Preparing, Ahead
<1>8. CASE Wait \/ WaitFails
  BY <1>1, <1>8, WaitKeeps DEF DrawOK, Kept, At, Preparing, Wait, WaitFails
<1>9. CASE Win
  BY <1>1, <1>9, WinKeeps DEF DrawOK, Kept, At, Preparing, Win
<1>10. CASE NoWin
  BY <1>1, <1>10, NoWinKeeps DEF DrawOK, At, Preparing
<1>11. CASE Rederive
  BY <1>1, <1>11, RederiveKeeps DEF DrawOK, At, Preparing
<1>12. CASE LoopOver
  BY <1>1, <1>12, LoopOverKeeps DEF DrawOK, At, Preparing
<1>13. CASE Postcheck \/ Proof
  BY <1>1, <1>13, PostcheckKeeps, ProofKeeps DEF DrawOK, At, Preparing
<1>14. CASE NextAttempt
  BY <1>1, <1>14, NextAttemptFresh DEF DrawOK, At, Preparing
<1> QED
  BY <1>2, <1>3, <1>4, <1>5, <1>6, <1>7, <1>8, <1>9, <1>10, <1>11, <1>12, <1>13, <1>14, Steps

LEMMA BuildPreserved == Typed /\ BuildOK /\ [Next]_vars => BuildOK'
<1> SUFFICES ASSUME Typed, BuildOK, [Next]_vars PROVE BuildOK'
  OBVIOUS
<1>1. HostType /\ mode \in Modes /\ StreamsType /\ mode \in {"async", "sync", "cpu"}
  BY ModesAssumption DEF Typed, TypeOK, OtherTypes
<1>2. CASE Beside
  <2>1. prod # NoProducer \/ prod' = prod
    <3>1. Producer => prod.pc # "off"
      BY DEF Producer
    <3>2. PrepStream \/ SearchStream \/ RaiseStop \/ Over \/ UNCHANGED vars => prod' = prod
      BY DEF PrepStream, SearchStream, RaiseStop, Over, vars, cpu
    <3>3. NoProducer.pc = "off"
      BY DEF NoProducer
    <3> QED
      BY <1>2, <3>1, <3>2, <3>3 DEF Beside
  <2>2. prepq = <<>> => prepq' = prepq
    BY <1>2, BesideQueues
  <2> QED
    BY <2>1, <2>2, <1>2, BesideKeeps DEF BuildOK
<1>3. CASE Moves
  <2>1. mode' = mode
    BY <1>3 DEF Moves, Prime, Phase1, Phase2, Prepared, Top, Spawn, Launch, Join
  <2>2. prepq' = prepq \/ mode # "cpu"
    BY <1>3 DEF Moves, Prime, Phase1, Phase2, Prepared, Top, Spawn, Launch, Join, gpu, BuildOK,
       At, Preparing
  <2>3. \/ Spawn \/ Join \/ prod' = prod
    BY <1>3 DEF Moves, Prime, Phase1, Phase2, Prepared, Top, Launch, cpu
  <2>4. Spawn => mode = "cpu"
    BY <1>1 DEF Spawn, BuildOK, At
  <2>5. Join => prod' = NoProducer
    BY DEF Join
  <2> QED
    BY <1>1, <1>3, <2>1, <2>2, <2>3, <2>4, <2>5, MovesKeep
       DEF BuildOK, Preparing, Prime, Phase1, Phase2, Prepared, Top, Spawn, Launch, Join, At
<1>4. CASE PrepFails
  BY <1>1, <1>4, PrepFailsKeeps DEF BuildOK, Preparing, PrepFails, At
<1>5. CASE Drain \/ SearchFailed
  BY <1>1, <1>5, FailuresKeep DEF BuildOK, Preparing, Drain, SearchFailed, At, gpu, cpu
<1>6. CASE LaunchFails
  BY <1>1, <1>6, LaunchFailsKeeps DEF BuildOK, Preparing, LaunchFails, At
<1>7. CASE Ahead
  BY <1>1, <1>7, AheadKeeps DEF BuildOK, Preparing, Ahead, At, gpu, cpu
<1>8. CASE Wait \/ WaitFails
  BY <1>1, <1>8, WaitKeeps DEF BuildOK, Preparing, Wait, WaitFails, At, gpu, cpu
<1>9. CASE Win \/ NoWin
  BY <1>1, <1>9, WinKeeps, NoWinKeeps DEF BuildOK, Preparing, Win, NoWin, At, gpu, cpu
<1>10. CASE Rederive \/ LoopOver
  BY <1>1, <1>10, RederiveKeeps, LoopOverKeeps DEF BuildOK, Preparing, Rederive, LoopOver, At, gpu, cpu
<1>11. CASE Postcheck \/ Proof
  BY <1>1, <1>11, PostcheckKeeps, ProofKeeps DEF BuildOK, Preparing, Postcheck, Proof, At, gpu, cpu
<1>12. CASE NextAttempt
  BY <1>1, <1>12, NextAttemptFresh DEF BuildOK, Preparing, NextAttempt, gpu
<1> QED
  BY <1>2, <1>3, <1>4, <1>5, <1>6, <1>7, <1>8, <1>9, <1>10, <1>11, <1>12, Steps

LEMMA QuietPreserved == Typed /\ BuildOK /\ QuietOK /\ ProvenOK /\ [Next]_vars => QuietOK'
<1> SUFFICES ASSUME Typed, BuildOK, QuietOK, ProvenOK, [Next]_vars, prepq' # <<>>
             PROVE  QuietOK'
  BY DEF QuietOK
<1>1. /\ HostType /\ mode \in Modes /\ mode \in {"async", "sync", "cpu"}
      /\ host.draw \in 0..MaxDraws
  BY ModesAssumption DEF Typed, TypeOK, OtherTypes, HostType
<1>2. CASE Beside
  <2>1. prepq # <<>> /\ (stop => stop')
    BY <1>2, BesideQueues
  <2> QED
    BY <1>2, <2>1, BesideKeeps DEF QuietOK, At
<1>3. CASE Moves
  <2>1. stop' = stop /\ (prepq' = prepq \/ Phase1 \/ Phase2)
    BY <1>3 DEF Moves, Prime, Phase1, Phase2, Prepared, Top, Spawn, Launch, Join, gpu
  <2>2. Prepared => prepq' = <<>>
    BY DEF Prepared, gpu
  <2>3. Prime => ~host.found
    BY DEF ProvenOK, Prime, At
  <2>4. Top => ~host.found
    BY DEF ProvenOK, Top, At
  <2>5. GoesOn => ~stop /\ MaxDraws # 0
    BY <1>1, BoundsAssumption DEF GoesOn
  <2>6. ~(MaxDraws > 0) => MaxDraws = 0
    BY BoundsAssumption
  <2>7. CASE Phase1 \/ Phase2
    BY <2>7, GotoKeeps, <1>1 DEF Phase1, Phase2, QuietOK, Preparing, Points
  <2>8. CASE prepq' = prepq
    <3>1. CASE Prime
      BY <1>1, <1>3, <2>1, <2>3, <2>6, <2>8, <3>1, MovesKeep
         DEF Prime, QuietOK, BuildOK, KeptWin, Preparing, At, Phase1, Phase2, Prepared, Top, Spawn, Launch, Join
    <3>2. CASE Top
      BY <1>1, <1>3, <2>1, <2>4, <2>5, <2>8, <3>2, MovesKeep
         DEF Top, QuietOK, BuildOK, KeptWin, Preparing, At, Phase1, Phase2, Prepared, Prime, Spawn, Launch, Join
    <3>3. CASE Spawn \/ Launch \/ Join
      BY <1>1, <2>8, <3>3 DEF Spawn, Launch, Join, QuietOK, Preparing, At
    <3>4. CASE Prepared
      BY <2>2, <3>4
    <3> QED
      BY <1>3, <2>7, <3>1, <3>2, <3>3, <3>4 DEF Moves
  <2> QED
    BY <2>1, <2>7, <2>8
<1>4. CASE PrepFails
  BY <1>1, <1>4, PrepFailsKeeps DEF QuietOK, Preparing, At
<1>5. CASE Drain \/ SearchFailed \/ LaunchFails
  <2>1. CASE Drain \/ SearchFailed
    BY <1>1, <2>1, FailuresKeep DEF QuietOK, Preparing, At
  <2>2. CASE LaunchFails
    BY <2>2 DEF QuietOK, Preparing, LaunchFails, At
  <2> QED
    BY <1>5, <2>1, <2>2
<1>6. CASE Ahead \/ Wait \/ WaitFails
  BY <1>1, <1>6 DEF QuietOK, Preparing, Ahead, Wait, WaitFails, At, gpu
<1>7. CASE Win \/ NoWin \/ Rederive
  BY <1>1, <1>7 DEF QuietOK, Preparing, Win, NoWin, Rederive, At, gpu
<1>8. CASE LoopOver
  BY <1>1, <1>8, LoopOverKeeps DEF QuietOK, Preparing, LoopOver, At, gpu
<1>9. CASE Postcheck \/ Proof
  BY <1>1, <1>9 DEF QuietOK, Preparing, Postcheck, Proof, At, gpu
<1>10. CASE NextAttempt
  BY <1>1, <1>10, NextAttemptFresh DEF QuietOK
<1> QED
  BY <1>2, <1>3, <1>4, <1>5, <1>6, <1>7, <1>8, <1>9, <1>10, Steps

LEMMA ProvenPreserved == Typed /\ BuildOK /\ QuietOK /\ ProvenOK /\ [Next]_vars => ProvenOK'
<1> SUFFICES ASSUME Typed, BuildOK, QuietOK, ProvenOK, [Next]_vars PROVE ProvenOK'
  OBVIOUS
<1>1. HostType /\ mode \in Modes
  BY DEF Typed, TypeOK, OtherTypes
<1>2. CASE Beside
  <2>1. CASE data' = data
    <3>1. stop => stop'
      BY <1>2 DEF Beside, Producer, PrepStream, SearchStream, RaiseStop, Over, vars
    <3> QED
      BY <1>2, <2>1, <3>1, BesideKeeps DEF ProvenOK, At, Id
  <2>2. CASE data' # data
    <3>1. Producer \/ PrepStream
      BY <1>2, <2>2 DEF Beside, SearchStream, RaiseStop, Over, vars
    <3>2. stop' = stop /\ host' = host
      BY <3>1 DEF Producer, PrepStream
    <3>3. \/ host.pc \in {"launch", "wait", "join", "prime"} \cup Preparing
          \/ At("top") \/ (At("over") /\ ~host.found)
          \/ At("returned") /\ host.rc # 0
      <4>1. CASE Producer
        BY <4>1 DEF Producer, NoProducer, BuildOK
      <4>2. CASE PrepStream
        BY <4>2 DEF PrepStream, QuietOK
      <4> QED
        BY <3>1, <4>1, <4>2
    <3> QED
      BY <3>2, <3>3 DEF ProvenOK, Preparing, At
  <2> QED
    BY <2>1, <2>2
<1>3. CASE Moves
  BY <1>1, <1>3, MovesKeep DEF ProvenOK, KeptWin, Prime, Phase1, Phase2, Prepared, Top, Spawn,
     Launch, Join, At
<1>4. CASE PrepFails
  BY <1>1, <1>4, PrepFailsKeeps DEF ProvenOK, KeptWin, PrepFails, At
<1>5. CASE Drain \/ SearchFailed
  BY <1>1, <1>5, FailuresKeep DEF ProvenOK, KeptWin, Drain, SearchFailed, At
<1>6. CASE LaunchFails
  <2>1. At("launch")
    BY <1>6 DEF LaunchFails
  <2> QED
    BY <1>1, <1>6, <2>1, LaunchFailsKeeps DEF ProvenOK, KeptWin, At
<1>7. CASE Ahead
  BY <1>1, <1>7, AheadKeeps DEF ProvenOK, KeptWin, Ahead, At
<1>8. CASE Wait \/ WaitFails
  BY <1>1, <1>8, WaitKeeps DEF ProvenOK, KeptWin, Wait, WaitFails, At
<1>9. CASE Win
  BY <1>1, <1>9, WinKeeps DEF ProvenOK, Win, At
<1>10. CASE NoWin
  BY <1>1, <1>10, NoWinKeeps DEF ProvenOK, KeptWin, NoWin, At
<1>11. CASE Rederive
  BY <1>1, <1>11, RederiveKeeps DEF ProvenOK, Rederive, Rederived, Kept, Id, At
<1>12. CASE LoopOver
  BY <1>1, <1>12, LoopOverKeeps DEF ProvenOK, LoopOver, Kept, KeptWin, Id, At
<1>13. CASE Postcheck
  <2>1. data' = data /\ wins' = wins /\ data = Produced(Id(host.draw)) /\ At("postcheck")
    BY <1>13 DEF Postcheck, ProvenOK
  <2>2. PostOk => host.draw \in wins /\ host.tile = Id(host.draw)
    BY <2>1 DEF PostOk, Produced, Id
  <2> QED
    BY <1>1, <1>13, <2>1, <2>2, PostcheckKeeps DEF ProvenOK, Kept, KeptWin, Id, At
<1>14. CASE Proof
  <2>1. data' = data /\ wins' = wins /\ At("proof")
    BY <1>14 DEF Proof
  <2> QED
    BY <1>1, <1>14, <2>1, ProofKeeps DEF ProvenOK, Kept, KeptWin, Id, At
<1>15. CASE NextAttempt
  BY <1>1, <1>15, NextAttemptFresh DEF ProvenOK, At
<1> QED
  BY <1>2, <1>3, <1>4, <1>5, <1>6, <1>7, <1>8, <1>9, <1>10, <1>11, <1>12, <1>13, <1>14, <1>15,
     Steps

LEMMA ProducedTyped ==
  ASSUME NEW x \in Ids
  PROVE  Produced(x) \in [ab : Ids, hash : [Matrices -> Ids], seeds : Ids, perms : Ids]
BY DEF Produced, Both

LEMMA DataPreserved == Typed /\ BuildOK /\ [Next]_vars => DataType'
<1> SUFFICES ASSUME Typed, BuildOK, [Next]_vars PROVE DataType'
  OBVIOUS
<1>1. HostType /\ DataType /\ ProducerType /\ DevType /\ StreamsType /\ DrawOK
  BY DEF Typed, TypeOK
<1> USE BoundsAssumption, NoDrawIsId
<1>2. CASE data' = data
  BY <1>1, <1>2 DEF DataType
<1>3. CASE \E x \in Ids : data' = Produced(x)
  BY <1>3, ProducedTyped DEF DataType
<1>4. CASE Prime /\ data' # data
  <2>1. data' = Produced(Id(0)) /\ 0 \in 0..(MaxDraws - 1)
    BY <1>4 DEF Prime
  <2> QED
    BY <1>1, <1>3, <2>1, IdIsId
<1>5. CASE Rederive
  <2>1. data' = Produced(Id(host.draw)) /\ host.draw \in 0..(MaxDraws - 1)
    BY <1>1, <1>5 DEF Rederive, Rederived, DrawOK, HostType, At
  <2> QED
    BY <1>1, <1>3, <2>1, IdIsId
<1>6. CASE Producer /\ data' # data
  <2>1. data' = Produced(data.ab) \/ data' = [data EXCEPT !.ab = prod.id]
    BY <1>6 DEF Producer
  <2>2. data.ab \in Ids /\ prod.id \in Ids
    BY <1>1 DEF DataType, ProducerType
  <2> QED
    BY <1>1, <1>3, <2>1, <2>2 DEF DataType
<1>7. CASE Phase2
  <2> DEFINE x == IF data.hash["A"] = data.hash["Bt"] THEN data.hash["A"] ELSE NoDraw
  <2>1. x \in Ids
    BY <1>1 DEF DataType, Matrices
  <2>2. data' = [data EXCEPT !.seeds = x, !.perms = x]
    BY <1>7 DEF Phase2
  <2> HIDE DEF x
  <2> QED
    BY <1>1, <2>1, <2>2 DEF DataType
<1>8. CASE PrepStream /\ data' # data
  <2> DEFINE op == Head(prepq)
             c  == dev.mat[op.m]
             x  == IF c.form = "raw" THEN c.of ELSE NoDraw
  <2>1. prepq # <<>> /\ data' = [data EXCEPT !.hash[op.m] = x]
    BY <1>8 DEF PrepStream
  <2>2. op \in PrepOps
    BY <1>1, <2>1 DEF StreamsType
  <2>3. c \in Contents /\ op.m \in Matrices
    BY <1>1, <2>2 DEF PrepOps, DevType
  <2>4. x \in Ids
    BY <2>3, ContentsTyped
  <2> HIDE DEF x, op
  <2> QED
    BY <1>1, <2>1, <2>3, <2>4 DEF DataType
<1>9. CASE NextAttempt
  <2>1. Both(NoDraw) \in [Matrices -> Ids]
    BY DEF Both
  <2>2. data' = [data EXCEPT !.hash = Both(NoDraw), !.seeds = NoDraw, !.perms = NoDraw]
    BY <1>9 DEF NextAttempt
  <2> QED
    BY <1>1, <2>1, <2>2 DEF DataType
<1>10. CASE Moves \/ Beside
  BY <1>10, <1>2, <1>4, <1>6, <1>7, <1>8
     DEF Moves, Beside, Phase1, Prepared, Top, Spawn, Launch, Join, SearchStream, RaiseStop,
         Over, vars
<1> QED
  BY <1>2, <1>5, <1>9, <1>10, Steps
     DEF PrepFails, Drain, SearchFailed, LaunchFails, Ahead, Wait, WaitFails, Win, NoWin,
         LoopOver, Postcheck, Proof

LEMMA ProducerPreserved == Typed /\ BuildOK /\ [Next]_vars => ProducerType'
<1> SUFFICES ASSUME Typed, BuildOK, [Next]_vars PROVE ProducerType'
  OBVIOUS
<1>1. HostType /\ DataType /\ ProducerType /\ DrawOK
  BY DEF Typed, TypeOK
<1> USE BoundsAssumption, NoDrawIsId
<1> DEFINE Slots == [0..1 -> [mat : [Matrices -> Contents], seed : Ids]]
           Prods == [pc : {"off", "fill", "hash", "A", "Bt", "done"}, id : Ids, s : 0..1]
<1>2. slot \in Slots /\ prod \in Prods
  BY <1>1 DEF ProducerType
<1>3. NoProducer \in Prods /\ NoSlots \in Slots
  BY ContentsTyped DEF NoProducer, NoSlots, Both
<1>4. Built \in Contents /\ data.seeds \in Ids
  BY <1>1, ContentsTyped DEF Built, DataType
<1>5. SUFFICES slot' \in Slots /\ prod' \in Prods
  BY DEF ProducerType
<1>6. CASE UNCHANGED cpu
  BY <1>2, <1>6 DEF cpu
<1>7. CASE Producer
  <2>1. prod' \in Prods
    BY <1>2, <1>7 DEF Producer
  <2>2. CASE prod.pc \in {"fill", "hash"}
    BY <1>2, <1>7, <2>1, <2>2 DEF Producer
  <2>3. CASE prod.pc = "A"
    <3>1. slot' = [slot EXCEPT ![prod.s].mat["A"] = Built]
      BY <1>7, <2>3 DEF Producer
    <3>2. slot' \in Slots
      BY <1>2, <1>4, <3>1 DEF Matrices
    <3> QED
      BY <2>1, <3>2
  <2>4. CASE prod.pc = "Bt"
    <3>1. slot' = [slot EXCEPT ![prod.s] = [mat |-> [@.mat EXCEPT !["Bt"] = Built],
                                           seed |-> data.seeds]]
      BY <1>7, <2>4 DEF Producer
    <3>2. slot' \in Slots
      BY <1>2, <1>4, <3>1 DEF Matrices
    <3> QED
      BY <2>1, <3>2
  <2> QED
    BY <1>7, <2>2, <2>3, <2>4 DEF Producer
<1>8. CASE Prime /\ ~UNCHANGED cpu
  <2>1. /\ slot' = [slot EXCEPT ![0] = [mat |-> Both(Noised(Id(0))), seed |-> Id(0)]]
        /\ prod' = prod /\ 0 \in 0..(MaxDraws - 1)
    BY <1>8 DEF Prime, cpu
  <2>2. Id(0) \in Ids /\ Both(Noised(Id(0))) \in [Matrices -> Contents]
    BY <1>1, <2>1, IdIsId, ContentsTyped DEF Both
  <2> QED
    BY <1>2, <2>1, <2>2
<1>9. CASE Spawn
  <2>1. HasNext => Id(host.draw + 1) \in Ids
    <3>1. HasNext => host.draw + 1 \in 0..(MaxDraws - 1)
      BY <1>1 DEF HasNext, HostType
    <3> QED
      BY <1>1, <3>1, IdIsId
  <2>2. 1 - host.cur \in 0..1
    BY <1>1 DEF HostType
  <2>3. prod' \in Prods
    BY <1>3, <1>9, <2>1, <2>2 DEF Spawn
  <2> QED
    BY <1>2, <1>9, <2>3 DEF Spawn
<1>10. CASE Join \/ NextAttempt
  BY <1>2, <1>3, <1>10 DEF Join, NextAttempt
<1>11. CASE Moves \/ Beside
  BY <1>6, <1>7, <1>8, <1>9, <1>10, <1>11
     DEF Moves, Beside, Phase1, Phase2, Prepared, Top, Launch, PrepStream, SearchStream,
         RaiseStop, Over, vars, cpu
<1> QED
  BY <1>6, <1>10, <1>11, Steps
     DEF PrepFails, Drain, SearchFailed, LaunchFails, Ahead, Wait, WaitFails, Win, NoWin,
         Rederive, LoopOver, Postcheck, Proof, cpu

LEMMA DevPreserved == Typed /\ [Next]_vars => DevType'
<1> SUFFICES ASSUME Typed, [Next]_vars PROVE DevType'
  OBVIOUS
<1>1. ProducerType /\ HostType /\ DevType /\ StreamsType
  BY DEF Typed, TypeOK
<1>2. CASE UNCHANGED dev
  BY <1>1, <1>2 DEF DevType
<1>3. CASE Launch /\ ~UNCHANGED dev
  <2>1. dev' = [dev EXCEPT !.mat = slot[host.cur].mat]
    BY <1>3 DEF Launch
  <2>2. slot[host.cur].mat \in [Matrices -> Contents]
    BY <1>1 DEF ProducerType, HostType
  <2> QED
    BY <1>1, <2>1, <2>2 DEF DevType
<1>4. CASE PrepStream /\ ~UNCHANGED dev
  <2> DEFINE op == Head(prepq)
             c  == dev.mat[op.m]
             d  == IF op.op = "rng" THEN Raw(op.x)
                   ELSE IF c = Raw(op.x) THEN Noised(op.x) ELSE Junk
  <2>1. prepq # <<>> /\ dev' = [dev EXCEPT !.mat[op.m] = d]
    BY <1>4 DEF PrepStream
  <2>2. op \in PrepOps
    BY <1>1, <2>1 DEF StreamsType
  <2>3. op.m \in Matrices /\ op.x \in Ids
    BY <2>2 DEF PrepOps
  <2>4. d \in Contents
    BY <2>3, ContentsTyped
  <2> HIDE DEF op, d
  <2> QED
    BY <1>1, <2>1, <2>3, <2>4 DEF DevType
<1>5. CASE SearchStream /\ ~UNCHANGED dev
  <2> DEFINE op == Head(searchq)
  <2>1. searchq # <<>>
    BY <1>5 DEF SearchStream
  <2>2. op \in SearchOps
    BY <1>1, <2>1 DEF StreamsType
  <2>3. op.m \in Matrices /\ op.x \in Ids
    BY <2>2 DEF SearchOps
  <2>4. \/ dev' = [dev EXCEPT !.key = op.x, !.win = FALSE]
        \/ dev' = [dev EXCEPT !.panel[op.m] = dev.mat[op.m]]
        \/ \E reported \in BOOLEAN : dev' = [dev EXCEPT !.win = reported, !.tile = dev.key]
    BY <1>5 DEF SearchStream, SearchDone
  <2> HIDE DEF op
  <2>5. CASE dev' = [dev EXCEPT !.key = op.x, !.win = FALSE]
    BY <1>1, <2>3, <2>5 DEF DevType
  <2>6. CASE dev' = [dev EXCEPT !.panel[op.m] = dev.mat[op.m]]
    BY <1>1, <2>3, <2>6 DEF DevType
  <2>7. CASE \E reported \in BOOLEAN : dev' = [dev EXCEPT !.win = reported, !.tile = dev.key]
    BY <1>1, <2>7 DEF DevType
  <2> QED
    BY <2>4, <2>5, <2>6, <2>7
<1> QED
  BY <1>2, <1>3, <1>4, <1>5, Steps
     DEF Moves, Beside, Prime, Phase1, Phase2, Prepared, Top, Spawn, Join, Producer, RaiseStop, Over, vars,
         PrepFails, Drain, SearchFailed, LaunchFails, Ahead, Wait, WaitFails, Win, NoWin,
         Rederive, LoopOver, Postcheck, Proof, NextAttempt, gpu

LEMMA ConcatTyped ==
  ASSUME NEW S, NEW s \in Seq(S), NEW t \in Seq(S)
  PROVE  s \o t \in Seq(S)
OBVIOUS

LEMMA OpsTyped ==
  ASSUME NEW x \in Ids, event \in [queued : Nat, done : Nat]
  PROVE  /\ Fill(x) \in Seq(PrepOps) /\ Hashes(x) \in Seq(PrepOps) /\ Noise(x) \in Seq(PrepOps)
         /\ Gathers(x) \in Seq(SearchOps) /\ Search(x) \in Seq(SearchOps)
<1>1. \A op \in {"rng", "hash", "noise"}, m \in Matrices : Op(op, m, x) \in PrepOps
  BY DEF Op, PrepOps
<1>2. \A op \in {"setup", "gather", "record", "search"}, m \in Matrices :
        Op(op, m, x) \in SearchOps
  BY DEF Op, SearchOps
<1>3. GatherDone \in Seq(PrepOps)
  <2>1. WaitFor(event.queued) \in PrepOps
    BY NoDrawIsId DEF WaitFor, PrepOps, Matrices
  <2> QED
    BY <2>1 DEF GatherDone
<1>4. /\ <<Op("rng", "A", x), Op("rng", "Bt", x)>> \in Seq(PrepOps)
      /\ <<Op("hash", "A", x), Op("hash", "Bt", x)>> \in Seq(PrepOps)
      /\ <<Op("noise", "A", x), Op("noise", "Bt", x)>> \in Seq(PrepOps)
  BY <1>1 DEF Matrices
<1>5. /\ <<Op("setup", "A", x), Op("gather", "A", x), Op("gather", "Bt", x)>> \in Seq(SearchOps)
      /\ <<Op("record", "A", x)>> \in Seq(SearchOps)
      /\ <<Op("search", "A", x)>> \in Seq(SearchOps)
  BY <1>2 DEF Matrices
<1>6. Gathers(x) \in Seq(SearchOps)
  BY <1>5 DEF Gathers
<1> QED
  BY <1>3, <1>4, <1>5, <1>6 DEF Fill, Hashes, Noise, Search

LEMMA StreamsPreserved == Typed /\ BuildOK /\ [Next]_vars => StreamsType'
<1> SUFFICES ASSUME Typed, BuildOK, [Next]_vars PROVE StreamsType'
  OBVIOUS
<1>1. /\ HostType /\ DataType /\ ProducerType /\ DrawOK
      /\ prepq \in Seq(PrepOps) /\ searchq \in Seq(SearchOps)
      /\ event \in [queued : Nat, done : Nat]
  BY DEF Typed, TypeOK, StreamsType
<1> SUFFICES /\ prepq' \in Seq(PrepOps) /\ searchq' \in Seq(SearchOps)
             /\ event' \in [queued : Nat, done : Nat]
  BY DEF StreamsType
<1>2. CASE UNCHANGED <<prepq, searchq, event>>
  BY <1>1, <1>2
<1>3. host.pc = "phase1" => Id(host.next) \in Ids
  <2>1. host.pc = "phase1" => host.next \in 0..(MaxDraws - 1)
    BY <1>1, BoundsAssumption DEF DrawOK, Preparing, HostType
  <2> QED
    BY <1>1, <2>1, IdIsId
<1>4. CASE Phase1
  BY <1>1, <1>3, <1>4, OpsTyped DEF Phase1, At
<1>5. CASE Phase2
  <2> DEFINE x == IF data.hash["A"] = data.hash["Bt"] THEN data.hash["A"] ELSE NoDraw
  <2>1. x \in Ids
    BY <1>1, NoDrawIsId DEF DataType, Matrices
  <2>2. prepq' = Noise(x) /\ UNCHANGED <<searchq, event>>
    BY <1>5 DEF Phase2
  <2> HIDE DEF x
  <2> QED
    BY <1>1, <2>1, <2>2, OpsTyped
<1>6. CASE PrepFails
  <2>1. /\ \/ prepq' = prepq
           \/ host.pc = "phase1" /\ prepq' = prepq \o Fill(Id(host.next))
        /\ UNCHANGED <<searchq, event>>
    BY <1>6 DEF PrepFails, At
  <2>2. host.pc = "phase1" => Fill(Id(host.next)) \in Seq(PrepOps)
    BY <1>1, <1>3, OpsTyped
  <2> QED
    BY <1>1, <2>1, <2>2, ConcatTyped, Zenon
<1>7. Recorded \in [queued : Nat, done : Nat]
  BY <1>1 DEF Recorded
<1>8. data.seeds \in Ids /\ slot[host.cur].seed \in Ids
  BY <1>1 DEF DataType, ProducerType, HostType
<1>9. CASE Launch
  <2>1. /\ searchq' = searchq \o Search(slot[host.cur].seed) \/ searchq' = searchq \o Search(data.seeds)
        /\ event' = Recorded /\ prepq' = prepq
    BY <1>9 DEF Launch
  <2>2. Search(slot[host.cur].seed) \in Seq(SearchOps) /\ Search(data.seeds) \in Seq(SearchOps)
    BY <1>1, <1>8, OpsTyped
  <2> QED
    BY <1>1, <1>7, <2>1, <2>2, ConcatTyped, Zenon
<1>10. CASE LaunchFails
  <2>1. /\ \/ UNCHANGED <<searchq, event>>
           \/ searchq' = searchq \o Gathers(data.seeds) /\ event' = Recorded
        /\ prepq' = prepq
    BY <1>10 DEF LaunchFails
  <2>2. Gathers(data.seeds) \in Seq(SearchOps)
    BY <1>1, <1>8, OpsTyped
  <2> QED
    BY <1>1, <1>7, <2>1, <2>2, ConcatTyped, Zenon
<1>11. CASE PrepStream
  BY <1>1, <1>11 DEF PrepStream
<1>12. CASE SearchStream
  <2>1. searchq' \in Seq(SearchOps) /\ prepq' = prepq
    BY <1>1, <1>12 DEF SearchStream
  <2>2. event' = event \/ event' = [event EXCEPT !.done = @ + 1]
    BY <1>12 DEF SearchStream
  <2> QED
    BY <1>1, <2>1, <2>2
<1> QED
  BY <1>2, <1>4, <1>5, <1>6, <1>9, <1>10, <1>11, <1>12, Steps
     DEF Moves, Beside, Prime, Prepared, Top, Spawn, Join, Producer, RaiseStop, Over, vars,
         Drain, SearchFailed, Ahead, Wait, WaitFails, Win, NoWin, Rederive, LoopOver,
         Postcheck, Proof, NextAttempt, gpu

LEMMA OthersKept ==
  ASSUME [Next]_vars
  PROVE  /\ mode' = mode
         /\ wins' = wins \/ wins' \in SUBSET (0..(MaxDraws - 1))
         /\ stop' = stop \/ stop' \in BOOLEAN
         /\ \/ hist' = hist
            \/ hist' = [hist EXCEPT !.fault = TRUE]
            \/ Wait /\ hist' = [hist EXCEPT !.searched = @ + 1]
            \/ NextAttempt /\ hist' = [fault |-> FALSE, searched |-> 0]
BY Steps DEF Moves, Prime, Phase1, Phase2, Prepared, Top, Spawn, Launch, Join, Beside,
     Producer, PrepStream, SearchStream, SearchDone, Fault, RaiseStop, Over, vars, PrepFails,
     Drain, SearchFailed, LaunchFails, Ahead, Wait, WaitFails, Win, NoWin, Rederive, LoopOver,
     Postcheck, Proof, NextAttempt

LEMMA SearchedPreserved == Typed /\ BuildOK /\ [Next]_vars => SearchedOK'
<1> SUFFICES ASSUME Typed, BuildOK, [Next]_vars PROVE SearchedOK'
  OBVIOUS
<1>1. HostType /\ DrawOK /\ SearchedOK /\ mode \in Modes
  BY DEF Typed, TypeOK, OtherTypes
<1>2. /\ host.draw \in 0..MaxDraws /\ host.next \in 0..MaxDraws
      /\ hist \in [fault : BOOLEAN, searched : 0..MaxDraws] /\ hist.searched \in 0..MaxDraws
  BY DEF Typed, TypeOK, HostType, OtherTypes
<1>3. mode' = mode
  BY OthersKept
<1>4. CASE Wait
  <2>1. hist'.searched = hist.searched + 1
    BY <1>2, <1>4 DEF Wait
  <2>2. hist.searched <= host.draw /\ host.draw < MaxDraws
    BY <1>1, <1>4 DEF Wait, SearchedOK, DrawOK, Answered, Preparing, At
  <2> QED
    BY <1>1, <1>2, <1>3, <1>4, <2>1, <2>2, WaitKeeps, BoundsAssumption
       DEF SearchedOK, Answered, Kept, Preparing, At
<1>5. CASE NextAttempt
  <2>1. hist'.searched = 0
    BY <1>5 DEF NextAttempt
  <2> QED
    BY <1>1, <1>5, <2>1, NextAttemptFresh DEF SearchedOK
<1>6. CASE ~Wait /\ ~NextAttempt
  <2>1. hist'.searched = hist.searched
    BY <1>2, <1>6, OthersKept
  <2>2. CASE Beside
    BY <1>1, <1>3, <2>1, <2>2, BesideKeeps DEF SearchedOK, Answered, At
  <2>3. CASE Moves
    <3>1. host'.draw = host.draw /\ host'.next = host.next
      BY <1>1, <2>3, MovesKeep DEF Kept
    <3>2. Answered => Answered'
      BY <1>1, <1>3, <2>3, <3>1, MovesGo DEF Answered, Preparing, At
    <3> QED
      BY <1>1, <2>1, <3>1, <3>2 DEF SearchedOK
  <2>4. CASE PrepFails
    BY <1>1, <1>3, <2>1, <2>4, PrepFailsKeeps
       DEF SearchedOK, Answered, Kept, PrepFails, Preparing, At
  <2>5. CASE Drain \/ SearchFailed
    BY <1>1, <1>3, <2>1, <2>5, FailuresKeep DEF SearchedOK, Answered, Kept
  <2>6. CASE LaunchFails
    <3>1. At("launch")
      BY <2>6 DEF LaunchFails
    <3> QED
      BY <1>1, <1>3, <2>1, <2>6, <3>1, LaunchFailsKeeps
         DEF SearchedOK, Answered, Kept, Preparing, At
  <2>7. CASE Ahead
    BY <1>1, <1>2, <1>3, <2>1, <2>7, AheadKeeps, BoundsAssumption
       DEF SearchedOK, Answered, Ahead, Preparing, At
  <2>8. CASE WaitFails
    BY <1>1, <1>3, <2>1, <2>8, WaitKeeps DEF SearchedOK, Answered, Kept, WaitFails, Preparing, At
  <2>9. CASE Win
    BY <1>1, <1>3, <2>1, <2>9, WinKeeps DEF SearchedOK, Answered, Kept
  <2>10. CASE NoWin
    BY <1>1, <1>2, <1>3, <2>1, <2>10, NoWinKeeps, BoundsAssumption DEF SearchedOK
  <2>11. CASE Rederive
    BY <1>1, <1>3, <2>1, <2>11, RederiveKeeps DEF SearchedOK, Answered, Kept
  <2>12. CASE LoopOver
    BY <1>1, <1>3, <2>1, <2>12, LoopOverKeeps DEF SearchedOK, Answered, Kept
  <2>13. CASE Postcheck \/ Proof
    BY <1>1, <1>3, <2>1, <2>13, PostcheckKeeps, ProofKeeps DEF SearchedOK, Answered, Kept
  <2> QED
    BY <1>6, <2>2, <2>3, <2>4, <2>5, <2>6, <2>7, <2>8, <2>9, <2>10, <2>11, <2>12, <2>13, Steps
<1> QED
  BY <1>4, <1>5, <1>6

LEMMA OthersPreserved == Typed /\ BuildOK /\ [Next]_vars => OtherTypes'
<1> SUFFICES ASSUME Typed, BuildOK, [Next]_vars PROVE OtherTypes'
  OBVIOUS
<1>1. HostType /\ OtherTypes /\ DrawOK /\ SearchedOK
  BY DEF Typed, TypeOK
<1>2. hist' \in [fault : BOOLEAN, searched : 0..MaxDraws]
  <2>1. hist \in [fault : BOOLEAN, searched : 0..MaxDraws]
    BY <1>1 DEF OtherTypes
  <2>2. CASE hist' = hist \/ hist' = [hist EXCEPT !.fault = TRUE]
    BY <2>1, <2>2
  <2>3. CASE Wait /\ hist' = [hist EXCEPT !.searched = @ + 1]
    <3>1. hist.searched + 1 \in 0..MaxDraws
      BY <1>1, <2>1, <2>3, BoundsAssumption
         DEF Wait, SearchedOK, DrawOK, Answered, HostType, Preparing, At
    <3> QED
      BY <2>1, <2>3, <3>1
  <2>4. CASE hist' = [fault |-> FALSE, searched |-> 0]
    BY <2>4, BoundsAssumption
  <2> QED
    BY <2>2, <2>3, <2>4, OthersKept
<1> QED
  BY <1>1, <1>2, OthersKept DEF OtherTypes

-----------------------------------------------------------------------------
(* The invariant, and what follows from it. *)

LEMMA Invariance == Spec => []IInv
<1>1. Init => IInv
  <2> SUFFICES ASSUME Init PROVE IInv
    OBVIOUS
  <2>1. Typed
    BY InitTyped
  <2>2. BuildOK /\ QuietOK /\ ProvenOK
    BY DEF Init, FreshHost, BuildOK, QuietOK, ProvenOK, Preparing, At
  <2> QED
    BY <2>1, <2>2 DEF IInv
<1>2. IInv /\ [Next]_vars => IInv'
  <2> SUFFICES ASSUME IInv, [Next]_vars PROVE IInv'
    OBVIOUS
  <2>1. Typed /\ BuildOK /\ QuietOK /\ ProvenOK
    BY DEF IInv
  <2>2. TypeOK'
    BY <2>1, HostPreserved, DataPreserved, ProducerPreserved, DevPreserved,
       StreamsPreserved, OthersPreserved DEF TypeOK
  <2>3. Typed'
    BY <2>1, <2>2, DrawPreserved, SearchedPreserved DEF Typed
  <2> QED
    BY <2>1, <2>3, BuildPreserved, QuietPreserved, ProvenPreserved DEF IInv
<1> QED
  BY <1>1, <1>2, PTL DEF Spec

(* The variables keep their types, counters within the draws included, for  *)
(* any number of draws and attempts (DrawPipeline!TypeOK).                   *)
THEOREM PipelineTypeCorrect == Spec => []TypeOK
<1>1. IInv => TypeOK
  BY DEF IInv, Typed
<1> QED
  BY <1>1, Invariance, PTL

(* mine_plain_proof returns 0 only with the data of one draw that wins, and *)
(* with the tile of that draw - for every behaviour of the device.          *)
THEOREM ProofsAreOfWins == Spec => []ProofOfAWin
<1>1. IInv => ProofOfAWin
  BY DEF IInv, ProvenOK, ProofOfAWin
<1> QED
  BY <1>1, Invariance, PTL

(* Every step of the pipeline is a step of the contract or leaves it alone. *)
LEMMA ContractStep == Typed /\ BuildOK /\ [Next]_vars => [Contract!Next]_(Contract!vars)
<1> SUFFICES ASSUME Typed, BuildOK, [Next]_vars PROVE [Contract!Next]_(Contract!vars)
  OBVIOUS
<1> USE DEF Contract!Next, Contract!vars, Contract!Raise, Contract!Win, Contract!Lose,
        Contract!Again, At
<1>1. HostType /\ mode \in Modes
  BY DEF Typed, TypeOK, OtherTypes
<1>2. CASE Beside
  <2>1. stop' = stop \/ (~stop /\ stop')
    BY <1>2 DEF Beside, Producer, PrepStream, SearchStream, RaiseStop, Over, vars
  <2> QED
    BY <1>2, <2>1, BesideKeeps
<1>3. CASE NextAttempt
  BY <1>1, <1>3, NextAttemptFresh DEF NextAttempt
<1>4. CASE Proof
  BY <1>1, <1>4, ProofKeeps DEF Proof
<1>5. CASE ~Beside /\ ~NextAttempt /\ ~Proof
  <2>1. stop' = stop /\ host.pc # "returned"
    BY <1>5, Steps
       DEF Moves, Prime, Phase1, Phase2, Prepared, Top, Spawn, Launch, Join, PrepFails,
           Drain, SearchFailed, LaunchFails, Ahead, Wait, WaitFails, Win, NoWin, Rederive,
           LoopOver, Postcheck
  <2>2. host'.pc # "returned" \/ host'.rc # 0
    BY <1>1, <1>5, Steps, MovesKeep, PrepFailsKeeps, FailuresKeep, LaunchFailsKeeps, AheadKeeps,
       WaitKeeps, WinKeeps, NoWinKeeps, RederiveKeeps, LoopOverKeeps, PostcheckKeeps
  <2> QED
    BY <2>1, <2>2
<1> QED
  BY <1>2, <1>3, <1>4, <1>5

(* DrawPipeline implements the safety of ProverContract: a proof only if    *)
(* the flag was down at the prover's last look, which is what PoolLane      *)
(* relies on.                                                               *)
THEOREM PipelineKeepsContract == Spec => Contract!Spec
<1>1. Init => Contract!Init
  BY DEF Init, FreshHost, At, Contract!Init
<1>2. IInv /\ [Next]_vars => [Contract!Next]_(Contract!vars)
  BY ContractStep DEF IInv
<1> QED
  BY <1>1, <1>2, Invariance, PTL DEF Spec, Contract!Spec
=============================================================================
