------------------------------ MODULE PoolLane ------------------------------
(***************************************************************************)
(* One connected pool lane of the miner: run_pool() of miner_main.cpp      *)
(* after an endpoint has delivered its first job.  Four threads share the  *)
(* PoolState and the submit queue:                                         *)
(*   reader     pool_reader: reads stratum lines, publishes jobs, aborts   *)
(*              the running attempt, files the submit responses            *)
(*   main       the mining loop: snapshot, attempt, freshness check, queue *)
(*   submitter  submit_th: sends queued shares and waits for the verdict   *)
(*   stats      stats_th: prints until st.stop                             *)
(* The pool and the prover (mine_plain_proof) are environments: the pool   *)
(* sends any line it may send, the prover ends an attempt in any way its   *)
(* contract allows.                                                        *)
(*                                                                         *)
(* A step is one critical section of st.mu, or one access to an atomic,     *)
(* with the work private to the thread that follows it.  A mutex appears   *)
(* only where a thread keeps it over two steps (MuFree).  Logging and      *)
(* statistics are left out, abort_count excepted.                          *)
(***************************************************************************)
EXTENDS Integers, Sequences, FiniteSets

CONSTANTS
  Jobs,        \* the distinct (header, target, job_id, height) tuples
  Incomplete,  \* the jobs whose header, target or job_id is empty
  MaxNotify,   \* bound: how many mining.notify lines the pool sends
  MaxShares,   \* bound: how many shares the lane finds
  MaxReplies   \* bound: how many verdicts the pool sends

ASSUME JobsAssumption   == Jobs # {} /\ Incomplete \subseteq Jobs
ASSUME BoundsAssumption == MaxNotify \in Nat /\ MaxShares \in Nat /\ MaxReplies \in Nat

ShareIds == 1..MaxShares     \* submit_id, counted from 1 instead of 100
Share    == [id : ShareIds, job : Jobs]
NoShare  == [id |-> 0]
Replied  == {"ok", "bad"}
Verdicts == Replied \cup {"none"}
Pointers == {"null", "attempt"}    \* null and &stop_attempt

(* A stratum line, as far as pool_reader tells lines apart. *)
NotifyLine(j)   == [kind |-> "notify", job |-> j]
ReplyLine(i, v) == [kind |-> "reply", id |-> i, verdict |-> v]
Notifies == [kind : {"notify"}, job : Jobs]
Replies  == [kind : {"reply"}, id : ShareIds, verdict : Replied]
Lines    == Notifies \cup Replies

VARIABLES
  st,      \* PoolState: job, gen, stop, active (active_stop), ids (submit_ids),
           \*   resp (submit_resp, "none" where it has no entry), aborts (abort_count)
  flag,    \* stop_attempt
  reader,  \* pc, buf: the lines received, abort: to_abort
  main,    \* pc, job and gen: the snapshot, result: of the attempt, next: submit_id
  queue,   \* q: submit_q, closed: submit_stop
  sub,     \* pc, cur: the share in hand
  count,   \* accepted, rejected and missed (timed out, cut off or not sent) shares
  stats,   \* pc of the stats thread
  net,     \* open: the socket and SSL exist, inbox: lines on their way, wire: shares
           \*   the pool received, in order, replied: its answers, notified: notifies sent
  hist     \* history: wonGen, gen when the prover last looked at the flag before
           \*   a win, aborted, how many attempts main logged as job_abort

vars == <<st, flag, reader, main, queue, sub, count, stats, net, hist>>

StType ==
  st \in [job : Jobs, gen : Nat, stop : BOOLEAN, active : Pointers,
          ids : SUBSET ShareIds, resp : [ShareIds -> Verdicts], aborts : Nat]
ReaderType ==
  reader \in [pc : {"select", "lines", "signal", "exit", "done"},
              buf : Seq(Lines), abort : Pointers]
MainType ==
  main \in [pc : {"top", "reset", "publish", "mining", "unpublish", "check",
                  "log", "halt", "join", "exited", "killed"},
            job : Jobs, gen : Nat, result : {"none", "win"}, next : 1..(MaxShares + 1)]
SubType ==
  sub \in [pc : {"idle", "register", "send", "sendfail", "await", "parking",
                 "parked", "done"},
           cur : Share \cup {NoShare}]
NetType ==
  net \in [open : BOOLEAN, inbox : Seq(Lines), wire : Seq(Share),
           replied : SUBSET (ShareIds \X Replied), notified : 0..MaxNotify]
OtherTypes ==
  /\ flag \in BOOLEAN
  /\ queue \in [q : Seq(Share), closed : BOOLEAN]
  /\ count \in [accepted : Nat, rejected : Nat, missed : Nat]
  /\ stats \in {"run", "done"}
  /\ hist \in [wonGen : Nat, aborted : Nat]

TypeOK == StType /\ ReaderType /\ MainType /\ SubType /\ NetType /\ OtherTypes

(* The lane starts with the first job delivered.                           *)
Init ==
  /\ \E j \in Jobs :
       /\ st = [job |-> j, gen |-> 1, stop |-> FALSE, active |-> "null", ids |-> {},
                resp |-> [i \in ShareIds |-> "none"], aborts |-> 0]
       /\ main = [pc |-> "top", job |-> j, gen |-> 0, result |-> "none", next |-> 1]
  /\ flag = FALSE
  /\ reader = [pc |-> "select", buf |-> <<>>, abort |-> "null"]
  /\ queue = [q |-> <<>>, closed |-> FALSE]
  /\ sub = [pc |-> "idle", cur |-> NoShare]
  /\ count = [accepted |-> 0, rejected |-> 0, missed |-> 0]
  /\ stats = "run"
  /\ net = [open |-> TRUE, inbox |-> <<>>, wire |-> <<>>, replied |-> {}, notified |-> 0]
  /\ hist = [wonGen |-> 0, aborted |-> 0]

(* The process has not been killed by a signal. *)
Alive == main.pc # "killed"

(* The submitter keeps st.mu from the failed wait predicate to the sleep. *)
MuFree == sub.pc # "parking"

(* st.cv.notify_all(): the submitter is the only waiter. *)
WakeSubmitter == sub' = IF sub.pc = "parked" THEN [sub EXCEPT !.pc = "await"] ELSE sub

-----------------------------------------------------------------------------
(* The pool: jobs at any time; answers late, never, or twice over. *)

PoolNotify(j) ==
  /\ net.open
  /\ net.notified < MaxNotify
  /\ net' = [net EXCEPT !.notified = @ + 1, !.inbox = Append(@, NotifyLine(j))]
  /\ UNCHANGED <<st, flag, reader, main, queue, sub, count, stats, hist>>

PoolReply(i, v) ==
  /\ net.open
  /\ \E k \in DOMAIN net.wire : net.wire[k].id = i
  /\ Cardinality(net.replied) < MaxReplies /\ <<i, v>> \notin net.replied
  /\ net' = [net EXCEPT !.replied = @ \cup {<<i, v>>}, !.inbox = Append(@, ReplyLine(i, v))]
  /\ UNCHANGED <<st, flag, reader, main, queue, sub, count, stats, hist>>

-----------------------------------------------------------------------------
(* The reader: pool_reader. *)

(* select times out or brings no complete line, which has no effect, and  *)
(* the loop test sees stop.                                               *)
SelectIdle ==
  /\ reader.pc = "select"
  /\ st.stop
  /\ reader' = [reader EXCEPT !.pc = "exit"]
  /\ UNCHANGED <<st, flag, main, queue, sub, count, stats, net, hist>>

(* One recv or SSL_read: the first n complete lines on their way. *)
Receive(n) ==
  /\ reader.pc = "select"
  /\ reader' = [reader EXCEPT !.pc = "lines", !.buf = SubSeq(net.inbox, 1, n)]
  /\ net' = [net EXCEPT !.inbox = SubSeq(@, n + 1, Len(@))]
  /\ UNCHANGED <<st, flag, main, queue, sub, count, stats, hist>>

(* select or recv fails, or the pool has closed the connection. *)
ReceiveFails ==
  /\ reader.pc = "select"
  /\ st' = [st EXCEPT !.stop = TRUE]
  /\ WakeSubmitter
  /\ reader' = [reader EXCEPT !.pc = "exit"]
  /\ UNCHANGED <<flag, main, queue, count, stats, net, hist>>

LineIs(kind) == reader.pc = "lines" /\ reader.buf # <<>> /\ Head(reader.buf).kind = kind

(* A changed job is a new generation; the attempt whose flag is published *)
(* at that moment is to be aborted.                                       *)
HandleNotify ==
  /\ LineIs("notify") /\ MuFree
  /\ LET new     == Head(reader.buf).job
         changed == new # st.job
         target  == IF changed THEN st.active ELSE "null"
     IN  /\ st' = [st EXCEPT !.job = new,
                             !.gen = IF changed THEN @ + 1 ELSE @,
                             !.aborts = IF target # "null" THEN @ + 1 ELSE @]
         /\ reader' = [pc |-> "signal", buf |-> Tail(reader.buf), abort |-> target]
  /\ UNCHANGED <<flag, main, queue, sub, count, stats, net, hist>>

(* Mutant: any answer counts as a submit response. *)
IsSubmitAny(id) == TRUE

(* is_submit *)
IsSubmit(id) == id \in st.ids

HandleResponse ==
  /\ LineIs("reply") /\ MuFree
  /\ LET line == Head(reader.buf)
     IN  /\ IsSubmit(line.id)
         /\ st' = [st EXCEPT !.resp = [@ EXCEPT ![line.id] = line.verdict]]
  /\ reader' = [reader EXCEPT !.pc = "signal", !.buf = Tail(@)]
  /\ UNCHANGED <<flag, main, queue, sub, count, stats, net, hist>>

(* The answer to a share nobody waits for any more.  (The answer to        *)
(* mining.authorize meets the same test.)                                  *)
IgnoreReply ==
  /\ LineIs("reply") /\ MuFree
  /\ ~IsSubmit(Head(reader.buf).id)
  /\ reader' = [reader EXCEPT !.buf = Tail(@)]
  /\ UNCHANGED <<st, flag, main, queue, sub, count, stats, net, hist>>

(* After the unlock: notify_all, then the store through to_abort. *)
ReaderSignal ==
  /\ reader.pc = "signal"
  /\ WakeSubmitter
  /\ flag' = IF reader.abort # "null" THEN TRUE ELSE flag
  /\ reader' = [reader EXCEPT !.pc = "lines", !.abort = "null"]
  /\ UNCHANGED <<st, main, queue, count, stats, net, hist>>

(* All lines received are handled, even after stop; then the loop test. *)
LinesDone ==
  /\ reader.pc = "lines"
  /\ reader.buf = <<>>
  /\ reader' = [reader EXCEPT !.pc = IF st.stop THEN "exit" ELSE "select"]
  /\ UNCHANGED <<st, flag, main, queue, sub, count, stats, net, hist>>

ReaderExit ==
  /\ reader.pc = "exit"
  /\ WakeSubmitter
  /\ reader' = [reader EXCEPT !.pc = "done"]
  /\ UNCHANGED <<st, flag, main, queue, count, stats, net, hist>>

Reader ==
  Alive /\ ( \/ SelectIdle \/ (\E n \in 1..Len(net.inbox) : Receive(n))
             \/ HandleNotify \/ HandleResponse \/ IgnoreReply \/ ReaderSignal
             \/ LinesDone \/ ReaderExit )

-----------------------------------------------------------------------------
(* Main: the mining loop and the shutdown. *)

(* Mutant: the next attempt waits until the last share is settled. *)
CanStartWhenSettled ==
  MuFree /\ st.job \notin Incomplete /\ sub.cur = NoShare /\ queue.q = <<>>

(* On a job with an empty header, target or id the loop sleeps and looks  *)
(* again, which changes nothing.                                          *)
CanStart == MuFree /\ st.job \notin Incomplete

(* The loop test and the snapshot. *)
Snapshot ==
  /\ main.pc = "top"
  /\ ~st.stop
  /\ CanStart
  /\ main' = [main EXCEPT !.pc = "reset", !.job = st.job, !.gen = st.gen]
  /\ UNCHANGED <<st, flag, reader, queue, sub, count, stats, net, hist>>

(* Mutant: the flag is never reset. *)
ResetFlagForgotten ==
  /\ main.pc = "reset"
  /\ main' = [main EXCEPT !.pc = "publish"]
  /\ UNCHANGED <<st, flag, reader, queue, sub, count, stats, net, hist>>

ResetFlag ==
  /\ main.pc = "reset"
  /\ flag' = FALSE
  /\ main' = [main EXCEPT !.pc = "publish"]
  /\ UNCHANGED <<st, reader, queue, sub, count, stats, net, hist>>

PublishFlag ==
  /\ main.pc = "publish"
  /\ st' = [st EXCEPT !.active = "attempt"]
  /\ main' = [main EXCEPT !.pc = "mining"]
  /\ UNCHANGED <<flag, reader, queue, sub, count, stats, net, hist>>

(* mine_plain_proof returns no share: it saw the flag, drew its whole batch *)
(* in vain, or failed.                                                      *)
ProverGivesUp ==
  /\ main.pc = "mining"
  /\ main' = [main EXCEPT !.pc = "unpublish", !.result = "none"]
  /\ UNCHANGED <<st, flag, reader, queue, sub, count, stats, net, hist>>

(* The prover's last look at the flag, with a win: the rest of the assembly *)
(* runs to its end whatever happens to the flag.                            *)
ProverWins ==
  /\ main.pc = "mining"
  /\ ~flag
  /\ main.next <= MaxShares
  /\ main' = [main EXCEPT !.pc = "unpublish", !.result = "win"]
  /\ hist' = [hist EXCEPT !.wonGen = st.gen]
  /\ UNCHANGED <<st, flag, reader, queue, sub, count, stats, net>>

UnpublishFlag ==
  /\ main.pc = "unpublish"
  /\ st' = [st EXCEPT !.active = "null"]
  /\ main' = [main EXCEPT !.pc = "check"]
  /\ UNCHANGED <<flag, reader, queue, sub, count, stats, net, hist>>

(* Mutant: the generation is not compared. *)
IsFreshByFields == st.job = main.job

IsFresh == st.gen = main.gen /\ st.job = main.job

(* fresh: a win of a job that is stale by now is a win no more. *)
CheckFresh ==
  /\ main.pc = "check"
  /\ MuFree
  /\ main' = [main EXCEPT !.pc = "log",
                         !.result = IF @ = "win" /\ IsFresh THEN "win" ELSE "none"]
  /\ UNCHANGED <<st, flag, reader, queue, sub, count, stats, net, hist>>

(* The end of an attempt: main logs reason=job_abort if the flag is set. *)
LogReason == hist' = [hist EXCEPT !.aborted = IF flag THEN @ + 1 ELSE @]

(* Mutant: ++submit_id instead of submit_id++. *)
NewSharePreIncrement == [id |-> main.next + 1, job |-> main.job]

NewShare == [id |-> main.next, job |-> main.job]

QueueShare ==
  /\ main.pc = "log"
  /\ main.result = "win"
  /\ LogReason
  /\ queue' = [queue EXCEPT !.q = Append(@, NewShare)]
  /\ main' = [main EXCEPT !.pc = "top", !.next = @ + 1]
  /\ UNCHANGED <<st, flag, reader, sub, count, stats, net>>

SkipShare ==
  /\ main.pc = "log"
  /\ main.result = "none"
  /\ LogReason
  /\ main' = [main EXCEPT !.pc = "top"]
  /\ UNCHANGED <<st, flag, reader, queue, sub, count, stats, net>>

LeaveLoop ==
  /\ main.pc = "top"
  /\ st.stop
  /\ WakeSubmitter
  /\ main' = [main EXCEPT !.pc = "halt"]
  /\ UNCHANGED <<st, flag, reader, queue, count, stats, net, hist>>

CloseQueue ==
  /\ main.pc = "halt"
  /\ queue' = [queue EXCEPT !.closed = TRUE]
  /\ main' = [main EXCEPT !.pc = "join"]
  /\ UNCHANGED <<st, flag, reader, sub, count, stats, net, hist>>

(* Mutant: the reader is not joined. *)
ThreadsDoneButReader == stats = "done" /\ sub.pc = "done"

ThreadsDone == stats = "done" /\ sub.pc = "done" /\ reader.pc = "done"

(* The three joins, SSL_free, close and return. *)
JoinAndClose ==
  /\ main.pc = "join"
  /\ ThreadsDone
  /\ net' = [net EXCEPT !.open = FALSE]
  /\ main' = [main EXCEPT !.pc = "exited"]
  /\ UNCHANGED <<st, flag, reader, queue, sub, count, stats, hist>>

Main ==
  \/ Snapshot \/ ResetFlag \/ PublishFlag \/ ProverGivesUp \/ ProverWins
  \/ UnpublishFlag \/ CheckFresh \/ QueueShare \/ SkipShare
  \/ LeaveLoop \/ CloseQueue \/ JoinAndClose

-----------------------------------------------------------------------------
(* The submitter: submit_th. *)

(* Mutants: the share stays queued; the newest share goes first. *)
PoppedCopy   == <<Head(queue.q), queue.q>>
PoppedNewest == <<queue.q[Len(queue.q)], SubSeq(queue.q, 1, Len(queue.q) - 1)>>

(* front and pop_front: the share and what is left. *)
Popped == <<Head(queue.q), Tail(queue.q)>>

PopShare ==
  /\ sub.pc = "idle"
  /\ ~queue.closed
  /\ queue.q # <<>>
  /\ sub' = [sub EXCEPT !.pc = "register", !.cur = Popped[1]]
  /\ queue' = [queue EXCEPT !.q = Popped[2]]
  /\ UNCHANGED <<st, flag, reader, main, count, stats, net, hist>>

(* What is still queued is dropped. *)
SubmitterExit ==
  /\ sub.pc = "idle"
  /\ queue.closed
  /\ sub' = [sub EXCEPT !.pc = "done"]
  /\ UNCHANGED <<st, flag, reader, main, queue, count, stats, net, hist>>

RegisterId ==
  /\ sub.pc = "register"
  /\ st' = [st EXCEPT !.ids = @ \cup {sub.cur.id}]
  /\ sub' = [sub EXCEPT !.pc = "send"]
  /\ UNCHANGED <<flag, reader, main, queue, count, stats, net, hist>>

SendShare ==
  /\ sub.pc = "send"
  /\ net' = [net EXCEPT !.wire = Append(@, sub.cur)]
  /\ sub' = [sub EXCEPT !.pc = "await"]
  /\ UNCHANGED <<st, flag, reader, main, queue, count, stats, hist>>

(* The send fails and the pool never gets the whole line. *)
SendFails ==
  /\ sub.pc = "send"
  /\ st' = [st EXCEPT !.ids = @ \ {sub.cur.id}]
  /\ sub' = [sub EXCEPT !.pc = "sendfail"]
  /\ UNCHANGED <<flag, reader, main, queue, count, stats, net, hist>>

StopAfterSendFailure ==
  /\ sub.pc = "sendfail"
  /\ st' = [st EXCEPT !.stop = TRUE]
  /\ count' = [count EXCEPT !.missed = @ + 1]
  /\ sub' = [sub EXCEPT !.pc = "idle", !.cur = NoShare]
  /\ UNCHANGED <<flag, reader, main, queue, stats, net, hist>>

(* The wait predicate. *)
Answered == st.stop \/ st.resp[sub.cur.id] # "none"

Response == st.resp[sub.cur.id]

(* Mutant: any answer is an acceptance. *)
CountedUnread == IF Response = "none" THEN [count EXCEPT !.missed = @ + 1]
                                      ELSE [count EXCEPT !.accepted = @ + 1]

Counted ==
  CASE Response = "ok"   -> [count EXCEPT !.accepted = @ + 1]
    [] Response = "bad"  -> [count EXCEPT !.rejected = @ + 1]
    [] Response = "none" -> [count EXCEPT !.missed = @ + 1]

(* What follows the wait: under st.mu take the response, if there is one,  *)
(* and stop expecting it; then count it.                                   *)
TakeResponse ==
  /\ count' = Counted
  /\ st' = [st EXCEPT !.resp = [@ EXCEPT ![sub.cur.id] = "none"],
                      !.ids = @ \ {sub.cur.id}]
  /\ sub' = [sub EXCEPT !.pc = "idle", !.cur = NoShare]
  /\ UNCHANGED <<flag, reader, main, queue, stats, net, hist>>

WaitOver == sub.pc = "await" /\ Answered /\ TakeResponse

WaitBegins ==
  /\ sub.pc = "await"
  /\ ~Answered
  /\ sub' = [sub EXCEPT !.pc = "parking"]
  /\ UNCHANGED <<st, flag, reader, main, queue, count, stats, net, hist>>

(* The wait releases st.mu and sleeps: a notify before this step is lost. *)
Park ==
  /\ sub.pc = "parking"
  /\ sub' = [sub EXCEPT !.pc = "parked"]
  /\ UNCHANGED <<st, flag, reader, main, queue, count, stats, net, hist>>

(* Mutant: wait instead of wait_until. *)
DeadlineNever == FALSE /\ TakeResponse

(* The 30 s deadline. *)
Deadline == sub.pc = "parked" /\ TakeResponse

(* The process does not handle SIGPIPE: a send on a connection the pool has *)
(* closed may end it on the spot, threads, queue and all.                   *)
BrokenPipe ==
  /\ sub.pc = "send"
  /\ main' = [main EXCEPT !.pc = "killed"]
  /\ UNCHANGED <<st, flag, reader, queue, sub, count, stats, net, hist>>

Network == Alive /\ (SendShare \/ SendFails \/ BrokenPipe)

Bookkeeping ==
  Alive /\ ( \/ PopShare \/ SubmitterExit \/ RegisterId \/ StopAfterSendFailure
             \/ WaitOver \/ WaitBegins \/ Park \/ Deadline )

-----------------------------------------------------------------------------

StatsExit ==
  /\ Alive
  /\ stats = "run"
  /\ st.stop
  /\ stats' = "done"
  /\ UNCHANGED <<st, flag, reader, main, queue, sub, count, net, hist>>

Environment ==
  Alive /\ ( \/ \E j \in Jobs : PoolNotify(j)
             \/ \E i \in ShareIds, v \in Replied : PoolReply(i, v)
             \/ ReceiveFails )

Over == main.pc \in {"exited", "killed"}

Exited == Over /\ UNCHANGED vars

Next == Environment \/ Reader \/ Main \/ Network \/ Bookkeeping \/ StatsExit \/ Exited

Spec == Init /\ [][Next]_vars

(* Every thread is scheduled.  The waits but the send end: select after     *)
(* 500 ms, the verdict after 30 s, an attempt with its batch.  Reading ends *)
(* by assumption: SSL_read has no time limit, so that a TLS record that has *)
(* begun to arrive must arrive whole.                                       *)
Fairness == WF_vars(Reader) /\ WF_vars(Main) /\ WF_vars(Bookkeeping) /\ WF_vars(StatsExit)

(* A pool that has stopped reading may block a send for good. *)
StalledSendSpec == Spec /\ Fairness

(* Every send ends: with success, with an error, or with the process. *)
FairSpec == Spec /\ Fairness /\ WF_vars(Network)

-----------------------------------------------------------------------------
(* Properties.  The memory they need beyond the state is in hist, wire and  *)
(* replied.                                                                 *)

InHand == IF sub.cur = NoShare THEN 0 ELSE 1

(* Conservation of shares: every share main has numbered is accepted,      *)
(* rejected, missed, queued, or in the submitter's hand, and in one of     *)
(* these places only - whatever the pool answers, and when.                *)
ShareAccounting ==
  main.next - 1 = count.accepted + count.rejected + count.missed
                    + Len(queue.q) + InHand

(* Shares reach the pool in the order they were found, none of them twice. *)
WireOrder ==
  \A i, j \in DOMAIN net.wire : i < j => net.wire[i].id < net.wire[j].id

(* The response map never holds an answer nobody will collect, and only    *)
(* the share in hand is awaited: a late or repeated answer leaves no trace *)
(* and cannot be credited to a later share.                                *)
ResponsesAwaited ==
  /\ \A i \in ShareIds : st.resp[i] # "none" => i \in st.ids
  /\ \A i \in st.ids : i = sub.cur.id /\ sub.pc \in {"send", "await", "parking", "parked"}

(* The attempts that end with the flag set are no more than the aborts the *)
(* reader decided on: a store that comes late may hit the wrong attempt,   *)
(* but no job change costs more than one.                                  *)
AbortAccounting == hist.aborted <= st.aborts

(* Nothing touches the socket, the SSL object or stop_attempt (a local of  *)
(* run_pool) after they are gone.                                          *)
NoUseAfterReturn ==
  main.pc = "exited" \/ ~net.open =>
    /\ reader.pc \notin {"select", "signal"} /\ reader.abort = "null"
    /\ sub.pc # "send"

(* A share enters the queue only if its job was still the current one when *)
(* the prover last looked, and the queued share is the one of that job.    *)
QueuedFresh ==
  [][Len(queue'.q) > Len(queue.q) =>
       hist.wonGen = main.gen /\ queue'.q[Len(queue'.q)].job = main.job]_vars

(* accepted and rejected move by one, and only for a verdict the pool has  *)
(* sent for the very share in hand.                                        *)
VerdictsEarned ==
  [][ /\ count'.accepted # count.accepted =>
           count'.accepted = count.accepted + 1 /\ <<sub.cur.id, "ok">> \in net.replied
      /\ count'.rejected # count.rejected =>
           count'.rejected = count.rejected + 1 /\ <<sub.cur.id, "bad">> \in net.replied ]_vars

(* Once st.stop is set - disconnection, failed send - the lane returns,    *)
(* although st.stop is set and notified without the mutex.                 *)
StopLeadsToExit == st.stop ~> Over

(* Every share found is settled, unless the lane stops first.              *)
SharesSettled ==
  \A i \in ShareIds :
    main.next > i ~>
      count.accepted + count.rejected + count.missed >= i \/ st.stop \/ Over

(* A new job is taken up even if the pool stops reading and a send blocks  *)
(* for good: submission never holds up mining.                             *)
NewJobAdopted ==
  \A g \in 1..(MaxNotify + 1) :
    st.gen = g ~> main.gen >= g \/ st.job \in Incomplete \/ st.stop \/ Over

(* prover.h: the flag lets the lane abort the current job the instant a    *)
(* newer one arrives.  It is not so for a notify between the snapshot and  *)
(* the publication of the flag.                                            *)
NewJobAbortsAttempt ==
  main.pc = "mining" /\ st.gen # main.gen /\ reader.pc # "signal" => flag
=============================================================================
