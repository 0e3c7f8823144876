----------------------------- MODULE SoloProofs -----------------------------
(***************************************************************************)
(* Solo mode, proved for any set of blocks and any number of moves of the    *)
(* node: the variables keep their types, the job of an attempt included, and *)
(* the log calls a block accepted only as far as the node's answer goes.     *)
(***************************************************************************)
EXTENDS Solo, TLAPS

Jobs == Blocks \cup {NoBlock}

NodeType   == node \in [tip : Blocks, moves : 0..MaxMoves]
MainType   == main \in [pc : {"fetch"}, job : Jobs] \cup [pc : AfterFetch, job : Blocks]
PollerType == poller \in [pc : {"sleep", "fetch", "compare", "raise", "done"}, seen : Jobs]
LastType ==
  last \in [answer : Answers \cup {"none"}, took : BOOLEAN, log : {"none", "accepted", "rejected"}]

LEMMA TypeParts ==
  TypeOK <=> /\ NodeType /\ MainType /\ cur \in Jobs /\ flag \in BOOLEAN /\ active \in BOOLEAN
             /\ PollerType /\ LastType
BY DEF TypeOK, NodeType, MainType, PollerType, LastType, Jobs

(* Once there is a template the loop keeps one: from there it may go on to  *)
(* any point, back to asking for the next one included.                     *)
LEMMA GoTyped ==
  ASSUME MainType, NEW pc \in AfterFetch \cup {"fetch"}, main.pc # "fetch", Go(pc)
  PROVE  MainType'
<1>1. main \in [pc : AfterFetch, job : Blocks]
  BY DEF MainType
<1>2. main' = [main EXCEPT !.pc = pc]
  BY DEF Go
<1>3. CASE pc \in AfterFetch
  BY <1>1, <1>2, <1>3 DEF MainType
<1>4. CASE pc = "fetch"
  BY <1>1, <1>2, <1>4 DEF MainType, Jobs
<1> QED
  BY <1>3, <1>4

LEMMA NodeTyped ==
  ASSUME NodeType, node.moves > 0, NEW b \in Blocks, node' = [tip |-> b, moves |-> node.moves - 1]
  PROVE  NodeType'
<1>1. node.moves \in 0..MaxMoves
  BY DEF NodeType
<1>2. node.moves - 1 \in 0..MaxMoves
  BY <1>1, MovesAssumption
<1> QED
  BY <1>2 DEF NodeType

(* What a submission leaves: a word of acceptance comes with a null answer, *)
(* which the node gives only when it took the block, or with none to read.  *)
LEMMA SubmitKeeps ==
  ASSUME NodeType, LastType, Submit
  PROVE  NodeType' /\ LastType' /\ AcceptedUnlessUnreadable'
<1>1. PICK answer \in Answers, took \in BOOLEAN :
        /\ took => node.moves > 0 /\ main.job = node.tip /\ answer \in {"null", "unreadable"}
        /\ answer = "null" => took
        /\ last' = [answer |-> answer, took |-> took, log |-> Logged(answer)]
        /\ IF took THEN \E b \in Blocks \ {node.tip} : node' = [tip |-> b, moves |-> node.moves - 1]
                   ELSE UNCHANGED node
  BY DEF Submit
<1>2. NodeType'
  <2>1. CASE took
    BY <1>1, <2>1, NodeTyped
  <2>2. CASE ~took
    BY <1>1, <2>2 DEF NodeType
  <2> QED
    BY <2>1, <2>2
<1>3. LastType'
  BY <1>1 DEF LastType, Logged
<1>4. AcceptedUnlessUnreadable'
  BY <1>1 DEF AcceptedUnlessUnreadable, Logged
<1> QED
  BY <1>2, <1>3, <1>4

LEMMA SteadyTyped ==
  ASSUME TypeOK, Steady \/ Win \/ Lose
  PROVE  TypeOK'
<1>1. /\ NodeType /\ MainType /\ cur \in Jobs /\ flag \in BOOLEAN /\ active \in BOOLEAN
      /\ PollerType /\ LastType
  BY TypeParts
<1>2. MainType'
  <2>1. CASE Fetch
    BY <1>1, <2>1 DEF Fetch, MainType, NodeType, AfterFetch
  <2>2. CASE FetchFails
    BY <1>1, <2>2 DEF FetchFails, AfterFailedFetch, MainType
  <2>3. CASE ~Fetch /\ ~FetchFails
    <3>1. main.pc # "fetch" /\ \E pc \in AfterFetch \cup {"fetch"} : Go(pc)
      BY <2>3 DEF Steady, Note, WriteTemplate, WriteTemplateFails, Header, ResetFlag, Publish, Win, Lose,
         ClearAfterWin, Assemble, Submit, Join, At, AfterFetch
    <3> QED
      BY <1>1, <3>1, GoTyped
  <2> QED
    BY <2>1, <2>2, <2>3
<1>3. cur' \in Jobs
  <2>1. CASE Note
    <3>1. main.job \in Jobs
      BY <1>1 DEF MainType, Jobs
    <3> QED
      BY <2>1, <3>1 DEF Note, Noted
  <2>2. CASE ~Note
    BY <1>1, <2>2 DEF Steady, Fetch, FetchFails, WriteTemplate, WriteTemplateFails, Header, ResetFlag,
       Publish, Win, Lose, ClearAfterWin, Assemble, Submit, Join
  <2> QED
    BY <2>1, <2>2
<1>4. flag' \in BOOLEAN /\ active' \in BOOLEAN
  BY <1>1 DEF Steady, Fetch, FetchFails, Note, WriteTemplate, WriteTemplateFails, Header, ResetFlag,
     Publish, Win, Lose, ClearAfterWin, Assemble, Submit, Join
<1>5. NodeType' /\ LastType' /\ PollerType'
  <2>1. CASE Submit
    BY <1>1, <2>1, SubmitKeeps DEF Submit, PollerType
  <2>2. CASE ~Submit
    <3>1. UNCHANGED <<node, last, poller>>
      BY <2>2 DEF Steady, Fetch, FetchFails, Note, WriteTemplate, WriteTemplateFails, Header, ResetFlag,
         Publish, Win, Lose, ClearAfterWin, Assemble, Join
    <3> QED
      BY <1>1, <3>1 DEF NodeType, LastType, PollerType
  <2> QED
    BY <2>1, <2>2
<1>6. (NodeType /\ MainType /\ cur \in Jobs /\ flag \in BOOLEAN /\ active \in BOOLEAN
        /\ PollerType /\ LastType)'
  BY <1>2, <1>3, <1>4, <1>5 DEF Jobs
<1> QED
  BY <1>6 DEF TypeOK, NodeType, MainType, PollerType, LastType, Jobs

LEMMA PollerTyped ==
  ASSUME TypeOK, Poller
  PROVE  TypeOK'
<1>1. NodeType /\ PollerType /\ flag \in BOOLEAN
  BY TypeParts
<1>2. PollerType'
  <2>1. CASE Poll
    <3>1. poller' = [pc |-> "compare", seen |-> node.tip] /\ node.tip \in Jobs
      BY <1>1, <2>1 DEF Poll, NodeType, Jobs
    <3> QED
      BY <3>1 DEF PollerType, Jobs
  <2>2. CASE ~Poll
    <3>1. \E pc \in {"sleep", "fetch", "compare", "raise", "done"} : PollerGoes(pc)
      BY <2>2 DEF Poller, Wake, PollFails, Compare, Raise
    <3> QED
      BY <1>1, <3>1 DEF PollerType, PollerGoes, Jobs
  <2> QED
    BY <2>1, <2>2
<1>3. UNCHANGED <<node, main, cur, active, last>> /\ flag' \in BOOLEAN
  BY <1>1 DEF Poller, Wake, Poll, PollFails, Compare, Raise
<1> QED
  BY <1>2, <1>3 DEF TypeOK, PollerType, Jobs

-----------------------------------------------------------------------------
IInv == TypeOK /\ AcceptedUnlessUnreadable

LEMMA SoloInit == Init => IInv
<1> SUFFICES ASSUME Init PROVE IInv
  OBVIOUS
<1>1. NodeType
  BY MovesAssumption DEF Init, NodeType
<1>2. MainType /\ PollerType /\ LastType
  BY DEF Init, MainType, PollerType, LastType, Jobs
<1>3. cur \in Jobs /\ flag \in BOOLEAN /\ active \in BOOLEAN
  BY DEF Init, Jobs
<1>4. AcceptedUnlessUnreadable
  BY DEF Init, AcceptedUnlessUnreadable
<1> QED
  BY <1>1, <1>2, <1>3, <1>4, TypeParts DEF IInv

LEMMA SoloStep == IInv /\ [Next]_vars => IInv'
<1> SUFFICES ASSUME TypeOK, AcceptedUnlessUnreadable, [Next]_vars PROVE IInv'
  BY DEF IInv
<1>1. TypeOK'
  <2>1. CASE NodeMoves
    <3>1. NodeType'
      BY <2>1, TypeParts, NodeTyped DEF NodeMoves
    <3> QED
      BY <2>1, <3>1 DEF NodeMoves, TypeOK, NodeType
  <2>2. CASE Over \/ UNCHANGED vars
    BY <2>2 DEF Over, vars, TypeOK
  <2> QED
    BY <2>1, <2>2, SteadyTyped, PollerTyped DEF Next
<1>2. AcceptedUnlessUnreadable'
  <2>1. CASE Submit
    BY <2>1, TypeParts, SubmitKeeps
  <2>2. CASE ~Submit
    <3>1. UNCHANGED last
      BY <2>2 DEF Next, Steady, Fetch, FetchFails, Note, WriteTemplate, WriteTemplateFails, Header, ResetFlag,
         Publish, ClearAfterWin, Assemble, Join, Win, Lose, Poller, Wake, Poll, PollFails, Compare, Raise,
         NodeMoves, Over, vars
    <3> QED
      BY <3>1 DEF AcceptedUnlessUnreadable
  <2> QED
    BY <2>1, <2>2
<1> QED
  BY <1>1, <1>2 DEF IInv

LEMMA SoloInvariance == Spec => []IInv
BY SoloInit, SoloStep, PTL DEF Spec

(* The variables of run_solo keep their types: past the fetch of a template *)
(* there always is one, so that the prover and the submission never run on  *)
(* none (Solo!TypeOK).                                                      *)
THEOREM SoloTypeCorrect == Spec => []TypeOK
<1>1. IInv => TypeOK
  BY DEF IInv
<1> QED
  BY <1>1, SoloInvariance, PTL

(* run_solo logs BLOCK ACCEPTED only for a block the node took, or after an *)
(* answer that it could not read.                                           *)
THEOREM AcceptanceIsEarned == Spec => []AcceptedUnlessUnreadable
<1>1. IInv => AcceptedUnlessUnreadable
  BY DEF IInv
<1> QED
  BY <1>1, SoloInvariance, PTL
=============================================================================
