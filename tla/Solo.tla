-------------------------------- MODULE Solo --------------------------------
(***************************************************************************)
(* Solo mode (run_solo): the mining loop asks a node for a block template,  *)
(* has zkprove make a header of it, runs the prover, and has zkprove make a *)
(* block of a proof and submits it.  A second thread polls the node and     *)
(* raises the prover's stop flag when the chain has moved on.               *)
(*                                                                         *)
(* A template stands for the block it builds on (previousblockhash and      *)
(* height), a number; blocks 2h and 2h + 1 have height h.  Every call to the node or to zkprove may fail, the node moves  *)
(* at any time, to a new block or back to an old one, and an answer may be  *)
(* cut off.                                                                 *)
(***************************************************************************)
EXTENDS Integers

CONSTANTS
  Blocks,    \* the blocks the node may build on
  MaxMoves   \* bound: how often the node moves

ASSUME BlocksAssumption == Blocks # {} /\ Blocks \subseteq Nat
ASSUME MovesAssumption  == MaxMoves \in Nat

NoBlock == -1     \* no template yet: cur_height = -1

VARIABLES
  node,     \* the node: tip, moves left
  main,     \* the mining loop: pc, job (the block its template builds on)
  cur,      \* cur_prevhash and cur_height, guarded by mu
  flag,     \* stop_attempt
  active,   \* active_stop # nullptr
  poller,   \* the poller: pc, seen (its last template)
  last      \* the last submission: answer, took (the node took it), log

vars == <<node, main, cur, flag, active, poller, last>>

AfterFetch == {"note", "file", "header", "reset", "publish", "prove", "clear", "assemble",
               "submit", "join", "returned"}

Answers == {"null", "reason", "transport", "unreadable"}

TypeOK ==
  /\ node \in [tip : Blocks, moves : 0..MaxMoves]
  /\ main \in [pc : {"fetch"}, job : Blocks \cup {NoBlock}] \cup [pc : AfterFetch, job : Blocks]
  /\ cur \in Blocks \cup {NoBlock}
  /\ flag \in BOOLEAN /\ active \in BOOLEAN
  /\ poller \in [pc : {"sleep", "fetch", "compare", "raise", "done"}, seen : Blocks \cup {NoBlock}]
  /\ last \in [answer : Answers \cup {"none"}, took : BOOLEAN, log : {"none", "accepted", "rejected"}]

Init ==
  /\ \E b \in Blocks : node = [tip |-> b, moves |-> MaxMoves]
  /\ main = [pc |-> "fetch", job |-> NoBlock]
  /\ cur = NoBlock /\ flag = FALSE /\ active = FALSE
  /\ poller = [pc |-> "sleep", seen |-> NoBlock]
  /\ last = [answer |-> "none", took |-> FALSE, log |-> "none"]

At(pc) == main.pc = pc
Go(pc) == main' = [main EXCEPT !.pc = pc]

-----------------------------------------------------------------------------
(* The mining loop.  Without a template it waits 3 s and asks again. *)
Fetch ==
  /\ At("fetch") /\ main' = [pc |-> "note", job |-> node.tip]
  /\ UNCHANGED <<node, cur, flag, active, poller, last>>

AfterFailedFetchIgnored == [main EXCEPT !.pc = "note"]
AfterFailedFetch        == main

FetchFails ==
  /\ At("fetch") /\ main' = AfterFailedFetch
  /\ UNCHANGED <<node, cur, flag, active, poller, last>>

NotedOnce == IF cur = NoBlock THEN main.job ELSE cur
Noted     == main.job

Note ==
  /\ At("note") /\ Go("file") /\ cur' = Noted
  /\ UNCHANGED <<node, flag, active, poller, last>>

(* A template file that cannot be written ends the mode with status 5. *)
WriteTemplate      == At("file") /\ Go("header") /\ UNCHANGED <<node, cur, flag, active, poller, last>>
WriteTemplateFails == At("file") /\ Go("join") /\ UNCHANGED <<node, cur, flag, active, poller, last>>

Header ==
  /\ At("header") /\ \E pc \in {"reset", "fetch"} : Go(pc)     \* zkprove header may fail
  /\ UNCHANGED <<node, cur, flag, active, poller, last>>

ResetFlag ==
  /\ At("reset") /\ Go("publish") /\ flag' = FALSE
  /\ UNCHANGED <<node, cur, active, poller, last>>

Publish ==
  /\ At("publish") /\ Go("prove") /\ active' = TRUE
  /\ UNCHANGED <<node, cur, flag, poller, last>>

(* The prover, as ProverContract promises it: no proof once the flag was up *)
(* at its last look.  Only so many blocks are won as the node has moves.    *)
Win ==
  /\ At("prove") /\ ~flag /\ node.moves > 0 /\ Go("clear")
  /\ UNCHANGED <<node, cur, flag, active, poller, last>>

ClearAfterWin ==
  /\ At("clear") /\ Go("assemble") /\ active' = FALSE
  /\ UNCHANGED <<node, cur, flag, poller, last>>

(* An attempt without a proof clears the pointer and starts over. *)
Lose ==
  /\ At("prove") /\ Go("fetch") /\ active' = FALSE
  /\ UNCHANGED <<node, cur, flag, poller, last>>

(* The proof file is written and zkprove makes the block; both may fail. *)
Assemble ==
  /\ At("assemble") /\ \E pc \in {"submit", "fetch"} : Go(pc)
  /\ UNCHANGED <<node, cur, flag, active, poller, last>>

(* The log calls a block accepted when rpc_call reports no error and there  *)
(* is no result or a null one.                                              *)
LoggedBlind(answer) == "accepted"
Logged(answer) == IF answer \in {"null", "unreadable"} THEN "accepted" ELSE "rejected"

(* The node takes a block that builds on its tip, and moves on to it.  An   *)
(* answer that cannot be read - none at all, or no JSON - has no error and  *)
(* no result.                                                               *)
Submit ==
  /\ At("submit") /\ Go("fetch")
  /\ \E answer \in Answers, took \in BOOLEAN :
       /\ took => node.moves > 0 /\ main.job = node.tip /\ answer \in {"null", "unreadable"}
       /\ answer = "null" => took
       /\ last' = [answer |-> answer, took |-> took, log |-> Logged(answer)]
       /\ IF took THEN \E b \in Blocks \ {node.tip} : node' = [tip |-> b, moves |-> node.moves - 1]
                  ELSE UNCHANGED node
  /\ UNCHANGED <<cur, flag, active, poller>>

Join ==
  /\ At("join") /\ poller.pc = "done" /\ Go("returned")
  /\ UNCHANGED <<node, cur, flag, active, poller, last>>

Steady ==     \* the loop's own steps; how an attempt ends is the prover's
  \/ Fetch \/ FetchFails \/ Note \/ WriteTemplate \/ WriteTemplateFails \/ Header \/ ResetFlag
  \/ Publish \/ ClearAfterWin \/ Assemble \/ Submit \/ Join

-----------------------------------------------------------------------------
(* The poller.  Its template is fetched before the mutex is taken, and the  *)
(* flag raised after it is released.                                        *)
Shutdown == main.pc \in {"join", "returned"}

PollerGoes(pc) == poller' = [poller EXCEPT !.pc = pc]

Wake ==
  /\ poller.pc = "sleep" /\ PollerGoes(IF Shutdown THEN "done" ELSE "fetch")
  /\ UNCHANGED <<node, main, cur, flag, active, last>>

Poll ==
  /\ poller.pc = "fetch" /\ poller' = [pc |-> "compare", seen |-> node.tip]
  /\ UNCHANGED <<node, main, cur, flag, active, last>>

PollFails ==
  /\ poller.pc = "fetch" /\ PollerGoes("sleep")
  /\ UNCHANGED <<node, main, cur, flag, active, last>>

(* The hash is compared as well as the height: a chain may be replaced by   *)
(* one as long.                                                             *)
DiffersInHeight == cur # NoBlock /\ poller.seen \div 2 # cur \div 2
Differs         == cur # NoBlock /\ poller.seen # cur

Compare ==
  /\ poller.pc = "compare" /\ PollerGoes(IF Differs /\ active THEN "raise" ELSE "sleep")
  /\ UNCHANGED <<node, main, cur, flag, active, last>>

Raise ==
  /\ poller.pc = "raise" /\ PollerGoes("sleep") /\ flag' = TRUE
  /\ UNCHANGED <<node, main, cur, active, last>>

Poller == Wake \/ Poll \/ PollFails \/ Compare \/ Raise

NodeMoves ==
  /\ node.moves > 0
  /\ \E b \in Blocks \ {node.tip} : node' = [tip |-> b, moves |-> node.moves - 1]
  /\ UNCHANGED <<main, cur, flag, active, poller, last>>

Over == At("returned") /\ UNCHANGED vars

Next == Steady \/ Win \/ Lose \/ Poller \/ NodeMoves \/ Over

Spec == Init /\ [][Next]_vars

(* Both threads are scheduled; a prover whose flag is up ends its attempt;  *)
(* a poller that keeps asking is answered some day.                         *)
FairSpec ==
  /\ Spec
  /\ WF_vars(Steady) /\ WF_vars(flag /\ Lose)
  /\ WF_vars(Wake \/ Compare \/ Raise) /\ WF_vars(Poll \/ PollFails) /\ SF_vars(Poll)

-----------------------------------------------------------------------------
(* A block is reported as accepted only if the node took it - or its answer *)
(* could not be read, which the code takes for success.                     *)
AcceptedUnlessUnreadable == last.log = "accepted" => last.took \/ last.answer = "unreadable"

(* An attempt on a block the node has left does not outlive the next poll,  *)
(* even when the poller's first store of the flag fell before the attempt's *)
(* reset of it, or before the attempt published its flag.                   *)
StaleAttemptEnds == (At("prove") /\ main.job # node.tip) ~> (~At("prove") \/ main.job = node.tip)

(* A template the poller fetched before the loop fetched its own may abort  *)
(* an attempt that is not stale; but once the node rests, so does the flag. *)
AbortsSettle == <>[][~Raise]_vars
=============================================================================
