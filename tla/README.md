# Verification of the Kan miner

Kan is a GPU miner for a proof-of-useful-work coin: it draws pseudo-random matrices, multiplies
them on tensor cores, hashes a transcript of every tile of the product, and turns a tile whose
hash is below the target into a Merkle proof. This directory holds TLA+ models of its control
logic, TLC configurations that check them, and TLAPS proofs about them.

Paths below are relative to the repository; `miner_main.cpp` and the other sources of the program
are under `src/`.

## 1. Inventory

### Parts of the system

| Part | Code | State | Operations |
|---|---|---|---|
| Pool connection | `run_pool` 534-631, `tcp_connect` 281-300 | endpoint list, socket, SSL, PoolState | try endpoints in turn, wait 25 s for the first job, join the reader and go on to the next |
| Pool lane | `run_pool` 632-866, `pool_reader` 355-414, `pool_send` | PoolState (job, `gen`, `stop`, `active_stop`, `submit_ids`, `submit_resp`), `stop_attempt`, `submit_q`, `submit_stop`, counters | reader, mining loop, submitter, statistics thread |
| Solo mode | `run_solo` 931-1029, `rpc_call`, `https_post` 883-930 | height and hash of the job, `stop_attempt`, `active_stop`, `shutdown` | poll `getblocktemplate`, mine, `submitblock` |
| Multi-GPU supervisor | `run_pool_parent_multigpu` 1184-1312, `run.sh` from `package_portable.sh` 201-222 | `pids`, `alive`, `terminating`, `rc_final`, `g_parent_signal` | fork and exec a lane per GPU, wait, stop all, exit; restart |
| Command line, devices | `main` 1315-1589, helpers 1097-1165 | options, `g_gpus`, environment | parse, enumerate, select, fan out |
| Statistics, monitoring API | 96-126, 451-532, 632-668 | sample window, stats files, `api_stop` | sample, average, write, serve |
| Prover | `mine_plain_proof` in `plainproof_gen.cpp` 813-1676 | host matrices, hashes, seeds, permutations, slots | prepare, search, re-derive, postcheck, build proof |
| GPU preparation | `gpu_prep.cu` | preparation stream, scratch | phase 1 (random fill, tree hash), phase 2 (noise) |
| GPU search | `tc_cutlass_v2.cu`, `tc_block.cu` | device buffers, search stream, gather event, win flag and tile | launch, wait |
| Search kernel | `tc_cutlass_v2.cu` 93-736 | ring of stages, accumulators, transcripts, win flag | walk the tiles, copy, multiply, fold, hash, report |
| Proof data | `plainproof_gen.cpp` 100-260, 695-760 | Merkle trees | tree, multi-leaf proof, bincode, base64 |
| Patterns, bound | `plainproof_gen.cpp` 265-360, 482-610 | partitions, 256-bit bound | pure functions |
| BLAKE3 (vendored) | `blake3/` | chunk state, stack of chaining values | init, update, finalize |
| Platform layer, scripts | `platform.h`, `*.sh` | none of interest | wrappers, installation |

### How they interact

`run.sh` starts the supervisor, which forks one process per GPU; each replaces itself by a miner
running one lane. Supervisor and lanes share nothing but signals, exit statuses and, through
`run.sh`, exit codes. Inside a lane the four threads share `PoolState` under `st.mu`, the submit
queue under its own mutex, and three atomics (`st.stop`, `st.active_stop`, `stop_attempt`). The
mining loop calls `mine_plain_proof` with a pointer to `stop_attempt`; the reader raises the flag
through the pointer when the job changes. Two more threads, the writer and the server of
`--api-port`, share `api_stop` with it and a directory of stats files with the other lanes. Solo mode has the same flag
and pointer, raised by its poller. The prover drives two CUDA streams and, in the CPU
build, a producer thread. It owns its host variables; the streams write hashes to them.

### What is hard, and what makes each part correct

* *Lane.* Four threads, locks that are dropped between reading and acting, a stop that is
  notified without its mutex, answers that come late, twice or never. Correct: no share is lost,
  doubled, reordered or credited to the wrong answer; nothing stale is queued; a stop ends it.
* *Supervisor.* Signals that arrive between a test and a blocking call, or in a child that is
  not yet itself. Correct: children are counted right, none survives, the exit code is true.
* *Prover.* Draw N+1 is written to the buffers draw N came from while N is still in flight, and
  the host variables are ahead of the search. Failed attempts leave work queued. Correct: each
  search sees one draw; each proof is of the draw that won; no win is missed.
* *Pool connection.* The PoolState outlives the endpoint, and so may its reader. Correct: the
  lane never mines what a previous endpoint sent, each reader ends before its SSL object does,
  every descriptor and TLS object is freed once, and the end of the list is reached.
* *Monitoring.* Threads that are joined on return, files rewritten under a reader. Correct: what is
  served is a whole file, and the threads see `api_stop`.
* *Solo.* A poller that raises a flag that the loop resets. Correct: an attempt on a template that
  was overtaken ends, attempts are not aborted without a cause, a block counts only if the node
  took it.
* *Search kernel.* Copies in flight while a stage is read, memory reused from tile to tile, many
  winners at once. Correct: each transcript is of all slices of its tile, every tile is looked at,
  and the tile reported is one that won.
* *Pure functions.* Boundaries: last group of the raster, carry of the 256-bit bound, number of
  chunks, indices of the multi-leaf proof, patterns that do not divide the rows, masks of devices.
  Correct: equal to a reference definition, or what their consumer (a verifier, a lane) needs.

The complete list of hazards, each with its line, is in `PROJECT.json`.

## 2. The modules

| Module | Models | Checked by | Proved in |
|---|---|---|---|
| `PoolLane` (`MCPoolLane`) | a connected pool lane | `PoolLaneSafety`, `PoolLaneLive`, `PoolLaneStalled`, `PoolLaneAbort` | `PoolLaneProofs` |
| `Supervisor` | supervisor, lanes as processes, `run.sh` | `Supervisor`, `SupervisorStop`, `SupervisorDegraded` | `SupervisorProofs` |
| `ProverContract` | what `mine_plain_proof` promises its caller | as the property `KeepsContract` of `DrawPipeline` | `PipelineKeepsContract` of `DrawPipelineProofs` (safety part) |
| `DrawPipeline` | the loop of `mine_plain_proof` and its streams | `DrawPipeline` | `DrawPipelineProofs`, `DrawSearchProofs` |
| `Failover` | what the choice of an endpoint promises | as the property `GoesInOrder` of `RunPool` | `ImplementsFailover` of `RunPoolProofs` |
| `RunPool` | `run_pool` from start to return, readers, monitoring threads | `RunPool`, `RunPoolSilentClient` | `RunPoolProofs` |
| `Solo` | `run_solo`, its poller and the node | `Solo` | `SoloProofs` |
| `SearchGrid` | grid, raster and win report of the search kernel | `MinerParts` | `SearchGridProofs` |
| `FoldPipeline` | ring of copies, multiplication, folds of one block | `MinerParts` | `FoldPipelineProofs` |
| `Blake3`, `Merkle` | incremental hash; trees, multi-leaf proof, its encoding | `MinerParts` | - |
| `Patterns`, `Bound` | partition of the rows; compact target and bound | `MinerParts` | - |
| `Devices` | from command line and environment to the lanes | `MinerParts` | - |
| `MinerParts` | one behaviour per input of the six algorithms and two kernels above | `MinerParts` | - |

### PoolLane

One step is one critical section of `st.mu`, or one access to an atomic, together with the work
private to the thread that follows it. The variables are the C++ ones: `st` is `PoolState`, `flag`
is `stop_attempt`, `queue` is `submit_q` with `submit_stop`; `reader`, `main`, `sub` and `stats`
hold each thread's position and locals. A mutex is explicit only where a thread keeps it over two
steps: the submitter between its wait predicate and its sleep (`parking`, `MuFree`); `WakeSubmitter`
therefore wakes a submitter only once it sleeps, so that a notify sent without the mutex can be
lost, as in the code.

* Reader: `Receive` takes any number of whole lines; `HandleNotify`, `HandleResponse` and
  `IgnoreReply` are the critical sections for a line; `ReaderSignal` is what comes after the
  unlock, the notify and the late store through `to_abort`.
* Main: `Snapshot`, `ResetFlag`, `PublishFlag`, the attempt (`ProverWins`, `ProverGivesUp`),
  `UnpublishFlag`, `CheckFresh`, `QueueShare`/`SkipShare`, and the shutdown.
* Submitter: `PopShare`, `RegisterId`, `SendShare`/`SendFails`/`BrokenPipe`, the wait, and
  `TakeResponse` with its counting.

The prover is what `ProverContract` says: it may end at any time without a share, and with one
only if the flag was down at its last look. `hist` remembers what the properties need.

### Supervisor

Processes are states of `lane`; `forked` is between `fork()` and `execvp()`, where the child still
has the parent's signal handler. `Handler` interrupts `wait()` only if the supervisor blocks in it
with nothing to reap: a signal between the test of `g_parent_signal` and `wait()` is seen one
status later. Lanes end by themselves with any status `run_pool` or a crash can give.

The supervisor can also be ended from one step to the next (`SupDies`): by SIGKILL, or by SIGPIPE
when its own `api_serve` thread (1216) answers a client that has gone (527-528). Its lanes are told
nothing and go on. `run.sh` sees 137 or 141 and starts the miner again; the lanes that still run
then move from `lane` to `left`, the GPUs that are shared with a lane of an earlier start.

### ProverContract and DrawPipeline

`ProverContract` has two variables, the phase of an attempt and the flag. `DrawPipeline` is the
loop, in three builds: `async` (CUTLASS: preparation under the search), `sync` (`tc_block.cu`:
preparation after it) and `cpu` (a producer thread and two slots). A stream is a queue of
operations performed in order some time after they were queued; an event is two counters, records
queued and records done, and a wait for it waits for the records queued so far. A matrix is the
draw it was made from and how far it got; anything computed from two draws is `Junk`. Noise is
added in place, so `Noised` needs `Raw` of the same draw under it. The search reports a win where
a tile wins; a device error, or a report that is wrong, sets `hist.fault`, and a search handed
mixed data may report anything. `data` are the host variables that outlive a draw: `A` and `Bt`
(kept from attempt to attempt as `thread_local` storage), hashes, seeds and permutations.
`LaunchFails` and `PrepFails` leave on the streams whatever had been queued.

One step stands for one host call or one device operation. The stop flag may rise between any two.

### RunPool and Failover

`main.pc` is where `run_pool` is, from `cudaSetDevice` (538) to its return; the mining loop, which
is `PoolLane`'s, is the one location `mine`. `lane` holds the two threads beside it, as far as the
shutdown waits for them: the submitter between shares, in `send` or waiting for a verdict, and the
statistics thread. Each endpoint has a reader of its own, so that one that
was not joined would be seen to live on beside the next. `open` is the set of descriptors and TLS
objects not yet freed, tagged with their endpoint; `wire` is the current connection: what the pool
has sent, whether it is up, closed or silent inside a TLS record, and whether a send finds room
(`takes`; an endpoint may close its side and still not read). `st.job` remembers which
endpoint the job in `PoolState` came from. `api` holds the writer, the server and the two files;
a client connects, asks or leaves at will. SIGPIPE is at its default, so that a write to a client
that has left (`BrokenReply`), of a login or a share to an endpoint that has closed (`BrokenSend`), or
of OpenSSL to such an endpoint, in `SSL_connect`, `SSL_read` or `SSL_shutdown` (`BrokenTls`), may end
the process. `Failover` has three variables: how many endpoints failed, the outcome, and whose
job is mined; the refinement maps `main` and `st` to them. It states the broken pipe as a step of
its own, `Dies`: at an endpoint that has been reached, in the scan or in the lane, the process may
end, and what comes after that endpoint has then not been tried.

### Solo

A template is its height and its hash, numbered so that two blocks of one height differ
(`b \div 2` is the height). `cur` is `cur_height` with `cur_prevhash`, `active` whether
`active_stop` points at `stop_attempt`. The poller's read under the mutex and its store after it
(`Compare`, `Raise`) are two steps, as in the code. `Answers` are what `rpc_call` can make of an
answer to `submitblock`.

### SearchGrid and FoldPipeline

In `SearchGrid` a jackpot tile wins or does not; a step of a thread is the hash of one tile with
its compare-and-swap, or one of the two stores of the coordinates, or its arrival at the barrier.
`FoldPipeline` is inside a tile: a step is what a warp does between two points where another warp
or a copy could be seen. A stage of the ring holds which tile and slice each warp copied there, or
`Torn` while the copy is in flight; a fragment loaded from a stage that is not whole is `Torn`, and
so is whatever is folded from it. A warp's `cp.async` groups land in order and each at any time (`Land`);
a wait lets the warp go on once few enough of them are left.

### The algorithms

`Blake3`, `Merkle`, `Patterns`, `Bound` and `Devices` are operators with the names of the functions
they translate. The compression function is a constructor, so that digests are equal only if they
are computed alike; bytes are their positions. The reference definitions stand at the end of each
module: the tree of the BLAKE3 specification, the verifier of a multi-leaf proof, the decoder of
base64, the pattern a verifier reads from the six bytes, and for the bound the number itself.
`MinerParts` chooses one part and one input in its first step, and steps the two kernels.

## 3. The runs

| Run | Question | Result |
|---|---|---|
| `pool_lane_safety` | is any share lost, doubled, reordered, mis-credited or stale, whatever the interleaving? | holds |
| `pool_lane_live` | does a stop end the lane, and is every share settled? | holds, if sends end |
| `pool_lane_stalled` | does mining go on when a send blocks for good? | holds |
| `pool_lane_abort` | does every new job abort the running attempt, as `prover.h` says? | violated |
| `supervisor` | are lanes counted, stopped and reported right? | holds, unless the supervisor is killed |
| `supervisor_stop` | does `run.sh` stop only on the user's request? | violated |
| `supervisor_degraded` | does the end of a lane always end the miner? | violated |
| `draw_pipeline` | does each search see its draw, each proof its win, and does the loop keep its contract? | holds |
| `run_pool` | is anything used after it is freed or left open, are endpoints tried in order, is the served file whole, does `run_pool` end? | holds, but for an endpoint that is silent inside TLS or does not read |
| `run_pool_silent_client` | does the monitoring server see `*stop`, as its comment says? | violated |
| `solo` | do attempts on overtaken templates end, and others not; is a block accepted only if taken? | holds, but for an unreadable answer |
| `miner_parts` | are the algorithms equal to their references, and do the kernels look at every tile and slice? | holds |

### Bounds, and why they are enough

* *Lane.* Two jobs and two notifies give the job that leaves and comes back (A, B, A), which
  `QueuedFresh` is about: with compared fields and no generation it fails. Two shares are one in
  the submitter's hand and one queued behind it, in any order of their answers. Two answers give
  the late one, the doubled one and the contradiction. Only lines are bounded, not deadlines,
  failures or attempts. In the safety run jobs are symmetric (no job is incomplete).
* *Lane, stalled.* The third job has no target, the case in which the loop sleeps instead.
* *Supervisor.* Three lanes: one that ends, one that is stopped, one that may not have started.
  Two starts let `run.sh` restart once; one signal per start, before, between or after anything.
  One supervisor is killed, at any point: lanes are left over once, beside those of the next start.
  The two runs that look for a counterexample kill none, so that theirs is about signals.
* *Pipeline.* Three draws are the first, which is prepared before the loop, one prepared under a
  search, and the last, after which none is prepared. Two attempts let the second start on the
  first one's leftovers. Which draws win is chosen freely for each attempt.

* *RunPool.* Three endpoints: one that fails, one after it, and the last. The first and the third
  use TLS. One notify per connection is what makes a lane of it, and what an endpoint given up can
  leave behind; one client. Refusals, disconnections, silence, failed handshakes, timeouts, shares,
  full buffers and the passes of the monitoring threads are not bounded.
* *Solo.* Three blocks, two of one height and one of another; the tip moves three times, so that it
  can return to a block it left.
* *MinerParts.* Blocks of 2 bytes and chunks of 4, messages of up to 60 bytes in pieces of any
  length, 1 and 4 chunks in parallel: fifteen chunks, with subtrees on both sides of the degree.
  Matrices of up to 5 rows for proofs, with even and odd chunk counts. Patterns of all six bytes up
  to 2. Digits to base 4, five of them, and a factor of two digits: every exponent and mantissa with
  the carry out of the top. 5 x 3 tiles in blocks of 2 x 2 under bands of two strips: the last band
  is short and the last column half empty; two blocks of two threads and up to two winners. Rings
  of 2 to 4 stages, up to 4 slices, transcripts of two words: words are touched again, and the ring
  is longer and shorter than the tile; two tiles show what one leaves to the next. Three GPUs, all
  lists of up to two devices, masks with a repetition of none, junk and absent ones.

### Fairness, and why the code justifies it

* *Lane.* `Fairness` is weak fairness of each thread. Each wait of a thread is limited: `select`
  by 500 ms, the verdict by 30 s, an attempt by its batch. One is not: with TLS, `SSL_read` on the
  blocking socket waits for the rest of a record that has begun. The models assume that such a
  record arrives whole (or the connection fails); this is an assumption about the pool, not
  something the code ensures. `send` has no limit either. `StalledSendSpec` assumes nothing of it,
  and `NewJobAdopted` holds all the same; `FairSpec` assumes that every send ends, and only then
  does a stop end the lane. The pool and the network have no fairness.
* *Supervisor.* Weak fairness of the supervisor, of `run.sh` and of a child on its way to
  `execvp`. A lane may mine for ever, and a lane left over too. A killed supervisor does nothing more:
  `OneForAll` says so.
* *Pipeline.* Weak fairness of the host thread, of the producer and of each stream: the device
  finishes what is queued. `KeepsContract` includes the fairness of the contract: every attempt
  ends, at the latest with its last draw.

* *RunPool.* `PromptSpec`: weak fairness of each thread, and of a client, which sends or leaves.
  The second is an assumption about the client (`run_pool_silent_client` drops it). Nothing is assumed
  of the endpoint. Two things it may do hold a thread, and `EndsUnlessHeld` exempts both by name: a
  read of a TLS endpoint that stays silent does not end (`Silent`), and neither does a send, or the
  record of `SSL_shutdown`, that finds no room (`Full`) - also after the endpoint has closed its side,
  when the reader has long ended.
* *Solo.* Weak fairness of the loop and of the poller, strong fairness of an answer to the poller:
  if it keeps asking, the node answers some day. An attempt need not end unless its flag is raised. The node has none. `AbortsSettle` rests on the bound of its moves: after the last, at most
  finitely many aborts.
* *MinerParts.* None: it has invariants only.

### Disagreements found

1. `prover.h:50-51` lets the lane "abort the current job the instant a newer one arrives". A
   notify between the snapshot (778) and the publication of the flag (796) aborts nothing; the
   attempt runs to its end on the old job (`PoolLaneAbort`). The freshness check keeps such a
   share from being queued (`QueuedFresh`), so work is lost, not correctness.
2. `package_portable.sh:201-202` promises a restart after a disconnect. With several lanes the
   first to disconnect returns 0, the supervisor's SIGTERM makes the exit code 143, and `run.sh`
   takes that for a deliberate stop (`SupervisorStop`).
3. `README.en.md:305` excludes degraded operation. A lane that has not called `execvp` when the
   SIGTERM comes swallows it, and is not signalled again (`SupervisorDegraded`).
4. `miner_main.cpp:502-503` says that `select()` with a limit of 1 s lets the monitoring server
   observe `*stop`. The `recv` after it has no limit: a client that connects and says nothing keeps
   the server, and `run_pool` and the supervisor that join it, for ever (`RunPoolSilentClient`).

Noticed while modelling, without a run of their own (the properties exempt the case by name, or it is
about what is shown rather than what is done):

* `https_post` returns true for an answer it cannot read, and the solo loop logs the block as
  accepted (1021). `AcceptedUnlessUnreadable` exempts it.
* `select_single_visible_gpu` says that `cudaSetDevice(0)` targets the GPU it selects (1162-1163).
  Without NVML `main` has called `cudaGetDeviceCount` before (1482), and CUDA reads its mask once:
  the lane then runs on the first card. `LanesAreTheGpus` is claimed of the other cases only.
* With a numeric mask and no NVML a lane reports GPU #0 if the mask's first card is beyond the count
  of visible ones; GPUs beyond the sixteenth are ignored, although the usage text says all are used.
* `from_list` keeps three dimensions of a pattern and drops the rest (294).
* The hashrate window holds 960 samples of 500 ms, 8 minutes, and its average is shown as that of
  15 minutes (96).
* An endpoint that closes right after its TLS handshake (a proxy whose backend is down) may end the
  lane by SIGPIPE, at the login (608), in `SSL_shutdown` (626) or inside `SSL_connect` (595), instead of
  counting as failed: the process ends with 141, `run.sh` starts it again at the first endpoint, and
  the backups are not reached. `Failover` allows this step, so `GoesInOrder` does not exclude it.
* A supervisor ended by SIGKILL, or by a monitoring client that leaves before its answer, leaves its
  lanes running; `run.sh` starts a second miner on each GPU after 15 s. `NoOrphans` exempts a killed
  supervisor. The code has no `PR_SET_PDEATHSIG`, and `run.sh` does not look for lanes.
* A pool that closes its side and does not read holds the submitter in `send`, and with it the join
  (860) and the lane. `EndsUnlessHeld` exempts it.
* A target whose exponent is too large loses its high digits instead of being refused (515-520).

## 4. The proofs

All theorems hold for every value of the constants; the assumptions used are the `ASSUME`s of the
module proved about (bounds are natural numbers, there is a job, the builds are among the three).

`PoolLaneProofs` proves the type invariant and the seven safety properties of the safety run.
No property but the types is inductive by itself, and the invariant is built in layers:

* `HandOK` and `WinOK` join the types: the share in hand is a share exactly while the submitter
  works on one, and a win has a number within the bound. Without them types are not inductive.
* `ShareAccounting` follows with `HandOK` alone.
* `GenOK` orders the snapshot's generation, that of the prover's last look and the current one;
  equality at the freshness check then closes the gap between them, which gives `QueuedFresh`.
* `AbortOK` counts an abort at each place it can be: decided, in the reader's hand, in the flag of
  an attempt that will still log it, logged. It gives `AbortAccounting`.
* `EndOK` says that joined threads have ended; it gives `NoUseAfterReturn`.
* `OrderOK` lets ids ascend from the wire over the hand and the queue to the next number: the order
  on the wire alone says nothing of the share about to be sent.
* `VerdictOK` traces every verdict from the pool's answer over the socket and the buffer to the
  response map; with `ResponsesAwaited` it gives `VerdictsEarned`.

`DrawPipelineProofs` proves the types, `ProofOfAWin` and that `DrawPipeline` implements the safety
part of `ProverContract`. The invariant is `Typed`, which adds to the types that the draws handled
are draws of the attempt and that the number searched goes with the loop's counter (`DrawOK`,
`SearchedOK`), and three parts:

* `BuildOK`: which build can be where; the producer runs only under a search of the CPU build.
* `QuietOK`: where an operation of the preparation may still be pending. From a launch on that is
  only where the loop has queued it: leftovers of a failed attempt have been waited for by the
  first preparation, or the attempt ends at once. This is what keeps a late copy of a hash from
  changing the data of a proof.
* `ProvenOK`: after the re-derivation the host variables hold the winning draw, and the postcheck
  turns that into a draw that wins.

The lemmas named `...Keeps` say once, for each step of the loop, where it leads and which fields
it leaves alone; every invariant is then proved from them, one case per step.

`DrawSearchProofs` goes on from that invariant to what the loop finds: `SearchSeesItsDraw`,
`NoWinMissed`, `RefusedOnlyIfFaulty` and `DrawsCounted`. Its invariant `SInv` has three groups.

* `StreamsOK` says what is in the two queues. Operations are counted from the end of a queue: there
  are those of the current draw, at known places, and before them what failed attempts have left,
  in any number. `FlightOK` and `PrepOK` say what has been done by the length that is left. The
  one link between the streams is the gather event. `EventOK` ties its two counters to the queue of
  the search, where every fourth operation is a record; `GateOK` says that under a search nothing of
  the preparation is done before the wait, and that the wait is for the record of this search. That
  is why the next draw cannot be written into matrices still to be gathered.
* `LoopOK` says that the draw the loop turns to is ready: on the device (`GpuReady`), in a slot
  (`CpuReady`), or on its way in the producer's hands (`ProducerOK`).
* `ResultOK` ties answers to draws: the answer in hand is of the current draw (`AnswerOK`), no
  earlier one wins (`PastOK`), the tile kept is of the current draw (`TileOK`), and how an attempt
  ends without a proof (`LossOK`) and with what count (`CountOK`).

`SupervisorProofs` proves the four invariants of `Supervisor`. `CountOK` says that in the loop
`alive` is the number of living children, that nobody is reaped before it and nobody lives after
it; `LeftOK` that without a kill `run.sh` goes on only after a supervisor that is done, so that
`CountOK` leaves nothing to be left over; `RcOK` that `rc_final` stands for the lanes reaped so far, which is what its last value is
computed from. The argument is over cardinalities: a fork adds the lane to `Living`, a reap takes
one out, and whatever lanes and signals do between leaves the set as it is (`GoOnKeeps`).

`RunPoolProofs` proves the four invariants of `RunPool` and, with the same invariant, that it
implements `Failover`: the initial state maps to the abstract one, and each step to an abstract step
or a stutter. What is open is a matter of where the thread is (`HoldOK`), a reader lives only beside
its own connection and only where it has yet to be joined (`ReaderOK`), the submitter lives only
beside an open connection (`LaneOK`), the monitoring threads are
joined before the return (`MonitorOK`), and a half-written file has the temporary name (`FileOK`).
`JobOK`, that the job in `PoolState` is that of the endpoint in use, needs `ReaderOK`: only a reader
writes it. Where a broken pipe can be is `BrokenWhere`: never before an endpoint was reached, which is
what `Dies` needs.

`SearchGridProofs` proves `SearchReportsAWin` for every size. First the raster is shown to be onto:
each block tile is some `p`, each jackpot tile the `t`-th of one, by lemmas on division that the
library lacks. Then `PendingOK`: while the flag is down, every winning tile is still ahead of the
thread whose turn it is, stated by the thread's and the block's number of steps; when all threads
have ended, nothing is ahead of anyone. `WriterOK` lets only one thread write the coordinates, and
`FlagOK` says that they are a winner's once it has written both. As in the model, a draw has at most
two winning tiles.

`FoldPipelineProofs` proves `FoldsSeeTheirSlices` for every number of slices, stages, transcript words
and tiles. That a transcript is right when it is hashed says nothing of the step before; the
invariant `IInv` says of each warp, at each point of the loop,

* `CountersOK`: how the counter of what is left, the mask, the two ring indices and the number of
  slices copied and multiplied go together;
* `GroupsOK`: the groups in flight are of the latest slices issued, in order, and past a wait there is
  one less of them than stages to fill;
* `RingOK`: of the last `S` slices issued, `S` the stages, those that landed are in their stages. A
  copy is issued into the stage of the slice that leaves this window, and lands in a stage no other
  slice of the window has; both rest on `WindowDistinct`, that numbers less than `S` apart differ
  modulo `S`;
* `SlicesOK`: accumulators and fragments hold the slices so far, each once;
* `TranscriptsOK`: a warp's own words are those of the chunks it has folded (`TranscriptGrows`), all
  words are clear past the first barrier and complete past the last;

and of both that they are between the same two barriers and, inside the loop, at the same slice
(`SyncOK`): this is why the stage a warp loads holds the other warp's share too (`FragmentLoads`). The
same invariant gives `WarpsMeetAtOneBarrier`: warps that wait in `__syncthreads` wait at the same call.
The lemmas named `...Keeps` carry `RegsOK`, the part about registers alone, over each step; those
named `...Step` carry the rest.

`SoloProofs` proves the types of `Solo` - past the fetch there is always a template - and
`AcceptedUnlessUnreadable`.

### Only model-checked

* *Liveness, and safety of behaviours with fairness.* The prover has neither fairness nor
  `ENABLED`: `OneForAll`, `StopLeadsToExit`, `SharesSettled`, `NewJobAdopted`, `EndsUnlessHeld`,
  `StaleAttemptEnds`, `AbortsSettle`, and the fairness in `KeepsContract`.
* *`Bound`*, whose claim is by induction over digits, and *`Devices`*, over lists.
* *`Blake3`, `Merkle`, `Patterns`*, whose functions are recursive operators: what they compute for
  every input needs induction over the input.

## 5. What is not modelled

* Spurious wake-ups of the condition variable: they only repeat the predicate.
* Data races inside OpenSSL (reader and submitter use one SSL object), partial sends, partial TLS
  records (see fairness), `SIGCHLD` being ignored by the parent.
* CUDA errors that stick to the context, and a copy that fails in the middle of a phase: a phase
  fails before it queues, after the fill, or after its wait. There kernels are one
  step. The arithmetic of the search kernel and its hash function are not modelled; its win flag is, in
  `SearchGrid`.
* In `DrawPipeline` the search is one step; `SearchGrid` and `FoldPipeline` have its inside. The two
  are not composed with it: a search that reports a tile that won is what it takes from them.
* The kernels of `tc_block.cu`, the `A2_REG_TRANSCRIPT` and profiling builds, the arithmetic of
  matrices, noise and permutations, and the compression function.
* CUDA's own promises are taken as they are documented: `cp.async` groups land in order,
  `__syncthreads` lets all go on or none, an atomic is atomic.
* The golden and probe modes of the prover, which neither redraw nor overlap.
* `PoolLane` is a lane without `--api-port`, and `RunPool` has the mining loop as one location: the
  two overlap in the shutdown but are not composed. The supervisor's own server thread is the code
  of `RunPool`'s; `Supervisor` has of it the SIGPIPE that ends the process, not the join at 1220.
* Signals that end a lane from outside are `Supervisor`'s (`Kill`), not `RunPool`'s.
* A stats file cut short by a full disk, which is renamed all the same (457-459).
* The arithmetic of the hashrate window, NVML's telemetry, the keyboard, logging and layout.
* `zkprove`, an external program: it succeeds or fails.
* BLAKE3's derive_key, seeking output and TBB, which the miner does not use; Windows wrappers and
  installation scripts, which have no state of their own.

## 6. Plan

Modelled so far: the lane, the supervisor, the prover's loop, the connection with its monitoring
threads, solo mode, the search kernel's control, and the pure algorithms. What is left, in order:

1. The kernel of `tc_block.cu` beside `FoldPipeline`: the same transcript from another schedule.
2. The sample window of the hashrate (96-126).
3. A composition: `PoolLane` as the inside of `RunPool`'s location `mine`.
