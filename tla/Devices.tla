------------------------------ MODULE Devices -------------------------------
(***************************************************************************)
(* From the command line to the devices that are mined on: main checks the   *)
(* options, enumerates the GPUs (through NVML, or by CUDA's count without    *)
(* it), and either runs one lane itself, or hands the list to the            *)
(* supervisor, whose lanes run the same main as a GPU child.                 *)
(*                                                                         *)
(* A process is the record of what it sees:                                 *)
(*   pools, wallet, solo  the URLs (good or not), whether --wallet, --solo   *)
(*   devices     the tokens of --devices, <<>> when it is not given          *)
(*   cvd         CUDA_VISIBLE_DEVICES: the tokens of the mask, <<>> unset     *)
(*   child, phys, count   KAN_GPU_CHILD, _PHYSICAL_INDEX, _COUNT             *)
(*   nvml        whether NVML could be loaded                                *)
(*   cards       the GPUs of the machine                                     *)
(***************************************************************************)
EXTENDS Integers, Sequences, SequencesExt, FiniteSetsExt

CONSTANT MaxGpus    \* GPUs main looks at: 16

ASSUME MaxGpusAssumption == MaxGpus \in Nat \ {0}

Junk   == -1        \* a token that is not a number: a UUID, say
NoGpu  == -2

(* "exit 2", or the lanes: what each reports, and what it sets its mask to.  *)
Exit2 == [kind |-> "exit"]
Lane(reported, mask) == [kind |-> "lane", reported |-> reported, mask |-> mask]
Fanout(indices)      == [kind |-> "fanout", indices |-> indices]

(* A list is numbers without a repetition; it is refused when it is empty.   *)
Distinct(s) == \A i, j \in DOMAIN s : i # j => s[i] # s[j]

parse_device_list(tokens) == tokens # <<>> /\ Junk \notin ToSet(tokens) /\ Distinct(tokens)

device_requested(list, i) == list = <<>> \/ i \in ToSet(list)

should_enable_physical_gpu(p, i) ==
  IF p.child THEN i = p.phys ELSE device_requested(p.devices, i)

parse_first_visible_device_index(mask) == IF mask = <<>> THEN Junk ELSE mask[1]

(* Exactly one mode, --devices in pool mode only and not under a mask, a     *)
(* wallet, and pool URLs that can be read.                                   *)
OptionsRefused(p) ==
  \/ p.devices # <<>> /\ ~parse_device_list(p.devices)
  \/ (p.pools # <<>>) = p.solo
  \/ p.solo /\ p.devices # <<>>
  \/ ~p.child /\ p.cvd # <<>> /\ p.devices # <<>>
  \/ ~p.solo /\ (~p.wallet \/ "bad" \in ToSet(p.pools))

(* CUDA counts the cards its mask leaves it: those up to the first token it  *)
(* cannot match.                                                            *)
Exposed(p, mask) ==
  IF mask = <<>> THEN [i \in 1..p.cards |-> i - 1]
  ELSE LET bad == {i \in DOMAIN mask : mask[i] # Junk /\ mask[i] >= p.cards}
       IN IF bad = {} THEN mask ELSE SubSeq(mask, 1, Min(bad) - 1)

cudaGetDeviceCount(p) == LET n == Len(Exposed(p, p.cvd)) IN IF n < 1 THEN 1 ELSE n

(* The indices main looks at, and keeps. *)
Candidates(p) ==
  LET detected == IF p.child THEN p.count ELSE cudaGetDeviceCount(p)
      looked   == IF p.nvml THEN 0..(p.cards - 1)
                  ELSE IF p.child THEN {p.phys} ELSE 0..(detected - 1)
  IN looked \cap 0..(MaxGpus - 1)

g_gpus(p) ==
  SelectSeq([i \in 1..MaxGpus |-> i - 1],
            LAMBDA i : i \in Candidates(p) /\ should_enable_physical_gpu(p, i))

RequestMissing(p) == ~p.child /\ \E i \in ToSet(p.devices) : i \notin ToSet(g_gpus(p))

(* One lane, under the mask it was given or that main sets. *)
ExternalMask(p) ==
  LET first == parse_first_visible_device_index(p.cvd)
  IN Lane(IF first \in ToSet(g_gpus(p)) THEN first ELSE 0, p.cvd)

main(p) ==
  LET first == IF g_gpus(p) = <<>> THEN 0 ELSE g_gpus(p)[1] IN
  IF OptionsRefused(p) \/ (~p.solo /\ RequestMissing(p)) THEN Exit2
  ELSE IF p.solo THEN Lane(0, p.cvd)
  ELSE IF p.child THEN Lane(p.phys, p.cvd)
  ELSE IF p.cvd # <<>> THEN ExternalMask(p)
  ELSE IF Len(g_gpus(p)) > 1 THEN Fanout(g_gpus(p))
  ELSE Lane(first, <<first>>)

(* The lane the supervisor spawns for a GPU: the same arguments, the mask    *)
(* and the identity of the lane in its environment.                         *)
LaneOf(gpus, gpu)  == CHOOSE i \in DOMAIN gpus : gpus[i] = gpu
MaskByLane(p, gpu) == <<LaneOf(g_gpus(p), gpu) - 1>>
MaskByGpu(p, gpu)  == <<gpu>>

ChildOf(p, gpu) ==
  [p EXCEPT !.child = TRUE, !.phys = gpu, !.count = Len(g_gpus(p)), !.cvd = MaskByGpu(p, gpu)]

(* The card the lane computes on, CUDA's ordinal 0.  CUDA reads its mask once, *)
(* at its first call: without NVML that was main's own count of the devices.  *)
Used(p, lane) ==
  LET seen == Exposed(p, IF p.nvml \/ p.solo THEN lane.mask ELSE p.cvd)
  IN IF seen = <<>> THEN NoGpu ELSE seen[1]
=============================================================================
