# BoundRelay: verification project

TLA+ modules that model the moving parts of BoundRelay, the error-bounded KV-cache
relay of this repository, TLC instances that check them, and theorems that TLAPS
proves for every value of their constants.

Paths below are relative to `src/`. `PROJECT.json` holds the machine-readable
part: which lines each definition translates, what each run checks, the mutant that
breaks each property, the hazards at their lines.

## 1. The system

BoundRelay moves the KV cache of a language model (56 tensors for the model of the
study) from one GPU to another, or to a file, either as it is (*raw*) or through an
error-bounded codec (*compressed*), and measures when the second pays. Most of the
repository is a set of programs that each run one experiment; what they have in
common is buffers that are used again and again, asynchronous device work, and
results that are only worth something if the data really arrived.

| Component | Source | State | Operations | Modules |
|---|---|---|---|---|
| Pipelined relay | `scripts/pipeline_multistage.py` | two queues of slots, five buffers per slot, three streams, `gpu_out`, the list of errors | producer and consumer loops, three transports (`HostRing`, `FileSpool`, `FileConcat`), join and raise, passes | `RelayPipeline`, `Delivery`, `Buffers` |
| Storage offload | `scripts/fsync_offload.py` | one file, page cache and disk; staging buffers; the table | `write_all`, `fsync`, `offload`, read-back, rows | `OffloadFile` |
| Paired-path benchmark | `scripts/benchmark_paths.py` | buffers shared by three paths and two arms, one file, blocks, trials; in a pipelined run two queues and three streams | serial and fsync runs, a pipelined run's two threads, checks, warm-up, shuffles, records, `--verify-only` | `PairedPaths`, with the actions of `RelayPipeline` |
| Session scripts | `scripts/run_protocol_session.sh`, `run_verify_session.sh`, `bringup_protocol_session.sh` | the volume: clone, library, `environment.json`, corpus, `out/` | bring-up, capture, B0, B1, B2 | `Session` |
| Corpus capture | `scripts/capture_corpus.py` | a directory and tensors per cache | resume, prefill, save | `Session` |
| Reuse gate B0 | `scripts/validate_reuse.py` | a pool of two buffers, fresh references, counters, rows | fresh baselines, passes over the pool, soiling, re-runs, corruptions, verdict | `ReuseGate` |
| Replay manifest | `boundrelay/trace/manifest.py` with `capture_dryrun.py`, `capture_kv.py` | a list in memory, a JSON file, tensor files | append, write, read | `Manifest` |
| Reference codec | `boundrelay/codec/reference.py`, `packing.py`, `serialize.py`, `allocation.py`, `contract.py` | none: functions | partition, width, quantise, demote, pack, serialize, decode | `Packing`, `Codec`, `CodecLink` |
| GPU codec | `boundrelay/codec/gpu.py` | none: functions | the same bytes from kernels and an assembly | `Packing`, `Codec`, `CodecLink` |
| Protocol freeze | `scripts/freeze_manifest.py` | three frozen files | the seen list, selection, floor, files | `Freeze` |
| Held-out quality B1 | `scripts/quality_holdout.py` | a cache edited in place, result files | preflight, arms, aborts, summary | `Holdout` |
| Transport decision | `boundrelay/policy/`, `scripts/eval_policy.py` | counts per margin | decide, oracle, regret | `Policy` |
| SZ3 scan | `scripts/sz3_full_scan.py` | rows and summaries | knobs, scan, two comparisons | `Sz3Scan` |
| cuSZp bridge, quality studies of phase D, serial relays, probes, audits, figures, stubs, pod handling | see `PROJECT.json` | | | not modelled, section 7 |

**How they interact.** `run_protocol_session.sh` brings a pod up, has
`capture_corpus.py` put a corpus on the volume, runs B0 over it and, if B0's exit
status lets it, B1 and B2. B1 is `quality_holdout.py`, which reads the list that
`freeze_manifest.py` froze. B2 is `benchmark_paths.py`, whose pipelined path,
`Bench.pipeline`, is a copy of `pipeline_multistage.run_pipeline`'s two threads over
Bench's own buffers, not a call of it. In either, a producer and a consumer thread share
nothing but two queues; a slot *number* received from a queue is the permission to
touch that slot's buffers. The threads issue work to device streams and continue;
they learn that it is done only at an explicit synchronisation. The measured costs feed
`eval_policy.py`, whose decisions they are. The GPU measurements call the cuSZp
library through buffers the caller owns, and it has two properties every caller
must live with (`docs/corrections.md`, `validate_reuse.py`): it reads past the size
the compressor reported, and its decoder leaves out elements it expects to be zero
already. The reference codec and its Triton twin are this repository's own format;
either may write it, one decoder reads it.

**What is hard here, and what correct means.**

* *Relay.* Interleavings of two threads and three streams; slot buffers with
  no lock; failures of either thread while the other blocks. Correct: a slot is in one
  place; nothing is overwritten while a pending operation may still read it; a pass
  ends with every tensor at the receiver or with an exception; no failure hangs.
* *Offload.* Short writes, errors between calls, a machine that stops. Correct: what
  fsync acknowledged is on the disk, what `offload` returned over has no hole.
* *Paired paths.* Stale data of another arm, path or pair in shared buffers, under two
  threads and three streams in the pipelined path. Correct: a run that ends delivered;
  every check judges the run it was made for, and orders are balanced.
* *Sessions.* Kills and restarts over a persistent volume. Correct: no B1 or B2
  without a B0 that passed on the same corpus.
* *Gate.* Faults that come and go. Correct: it passes exactly when nothing went wrong.
* *Manifest.* A kill between two steps of a rewrite.
* *Codecs.* Numeric edges: groups that pass the width prediction and miss the bound,
  non-finite values, codes that straddle bytes, two encoders of one format, damage on
  the way.
* *Freeze and B1.* Refusals, kills and repetitions over files that stay; titles and
  bodies that occur twice; a cache that must be fresh for each arm. Correct: what is
  scored was frozen and unseen, and a summary is of the whole list.
* *Choices.* Ties, margins and disallowed candidates; comparisons that must be between
  the same runs.

`PROJECT.json` "hazards" lists these one by one.

## 2. Modules

| Module | Models | Extends / instantiates |
|---|---|---|
| `Buffers` | contents of a reused buffer: whose bytes are its prefix and how far it has been written since it was cleared; copies, short writes and the decoder over them | |
| `RelayPipeline` | `run_pipeline` with both threads, the transports, streams and passes | `Buffers`, INSTANCE `Delivery` |
| `Delivery` | the abstract promise of the relay | |
| `RelayProofs` | theorems about `RelayPipeline`: slots, contents, refinement | `RelayPipeline` |
| `OffloadFile`, `OffloadProofs` | `fsync_offload.py` | |
| `PairedPaths`, `PairedProofs` | `benchmark_paths.py`: main, `verify_only` and `Bench` | `Buffers`, INSTANCE `RelayPipeline` for each arm; the proofs `LayoutProofs`, INSTANCE `RelayProofs` for each arm |
| `Session` | session scripts, bring-up, capture | |
| `ReuseGate`, `ReuseProofs` | `validate_reuse.py` | `Buffers` |
| `Manifest` | replay manifest and its two writers | |
| `Packing` | `packing.py` and the two bit kernels of `gpu.py` | |
| `LayoutProofs` | lemmas about running offsets and concatenation, theorems about `Packing` | `Packing` |
| `Codec` | both encoders, the format, the decoder | `Packing` |
| `CodecLink`, `CodecProofs` | a tensor through them, with damage on the way, or in two chunks | `Codec`; the proofs `LayoutProofs` |
| `Freeze` | `freeze_manifest.py` | |
| `Holdout`, `HoldoutProofs` | `quality_holdout.py`, beside a freeze | `Freeze` |
| `Policy` | `cost_model.py`, `decision.py`, `eval_policy.py` | |
| `Sz3Scan` | `sz3_full_scan.py` | |
| `StudyProofs` | theorems about what decides the study's conclusions | `Session`, `Policy`, `Sz3Scan`, `LayoutProofs` |
| `MCRelay`, `MCRelayModes`, `MCOffload`, `MCPaired`, `MCSession`, `MCCodec`, `MCHoldout`, `MCChoices` | TLC instances: sizes, configurations, scripts, inputs | their component |

A definition whose comment begins with *Faulty* is not part of any behaviour: it is
the form a plausible bug would give to the definition that follows it.

### RelayPipeline

`pPc` and `cPc` say which statement of `producer()` and `consumer()` comes next;
`pItem` and `cItem` are the tensor and slot they work on. `free` and `ready` are the
two `queue.Queue`s. `copy0`, `copy1` and `default1` are the pending operations of
GPU0's side stream, GPU1's side stream and GPU1's default stream: a thread appends,
the device (`RunCopy0`, `RunCopy1`, `RunDefault1`) takes the oldest one whenever it
likes. `scr`, `host`, `file`, `recv` and `dst` are a slot's buffers, `out` is
`gpu_out`.

| Code | Action |
|---|---|
| `free.get()`, negative slot ends the loop | `PGet` |
| zero the scratch, `compress` | `PEncode` |
| `ring.put`: copy to pinned memory, event | `PShip` |
| file transports: synchronise, one `write()` | `PFlush` |
| `ready.put(...)`, last `ready.put(None)` | `PAnnounce`, `PFinish` |
| `except BaseException` of the producer | `PFail` |
| `ready.get()` | `CGet` |
| `ev.synchronize()`, `recv[slot].zero_()` | `CSync` |
| `ring.get` with its assertion | `CFetch`, `CShortRead` |
| `s_copy.synchronize()` | `CLanded` |
| zero the destination, `decompress`, copy to `gpu_out` | `CDecode` |
| `done.synchronize()`, `free.put(slot)` | `CAwait`, `CFree` |
| `except BaseException` of the consumer, with its sentinels | `CFail` |
| join, synchronise, raise or go on | `MRaise`, `MNextPass`, `MReturn` |

`compress` and `decompress` are modelled with what the callers rely on: `compress`
blocks its caller; `decompress` yields the tensor only from exactly its bytes
followed by zeroes, into a zeroed destination. The scratch of GPU0 is cleared in the
same action as it is compressed into, because the call is synchronous on that stream.
All passes (warm, timed, checked) run the same code and are one counter.

A buffer holds the name of a payload. `Payload` says which name each tensor's bytes go
by (its own number in `MCRelay` and `MCRelayModes`), `Payloads` which names a buffer may
hold at all: `PairedPaths` has the other arm's among them.

Two named constants switch an assumption on or off. `FillLandsFirst`: a fill issued
on GPU1's *default* stream has finished before a copy issued after it on a *side*
stream runs. CUDA does not order them (torch's side streams are non-blocking), so
the code is checked with and without (see section 5). `ShortWrites`: one unbuffered
`write()` may take fewer bytes than it was given, as `fsync_offload.py` itself says
of such a write.

### Delivery and the refinement

`Delivery` has no threads, slots or streams: in each pass each tensor arrives once,
in cache order, over a zeroed receiver; a pass ends only when all are there; a run
that cannot do so raises, if `MayRaise`. Its liveness says that it goes on until it
has returned or raised. `RelayPipeline` implements it under the identity on `out`,
`pass` and `outcome`: `Promise == INSTANCE Delivery WITH MayRaise <- ...`, where
raising is only allowed when threads may fail or a spool file may come up short. All
of the relay's other state is hidden, so each of its steps is a delivery, a step of
the main thread or a stutter.

`MCRelayModes` puts the six modes (compressed or raw, over `HostRing`, `FileConcat` or
`FileSpool`) in one instance: a behaviour draws its mode at the start and keeps it.

### OffloadFile

The file is a sequence of pages, `cached` in the page cache and `disk` behind it.
`Pwrite` takes any positive number of the pages left of a call (every split of every
call); `WriteBack` puts any page to the disk at any time; `Fsync` all of them;
`Stops` is the loss of the machine, which leaves `disk`; `CallFails` an `OSError`
from any call. `staged` keeps both arms' staging, `acked` the arm whose payload
`offload` has returned for, `rows` the table of `main`. Every pass empties and
preallocates the file; the first of an arm is read back (`Verify`), the last is followed
by its row and the unlinking (`NextArm`).

### PairedPaths

A block is a path and a segment, in the order main runs them. `todo` is what is left
of it: warm-up, then for each pair run and check one arm, run and check the other,
record the trial. A block's order of arms is any shuffle with the balance
the code builds before it shuffles. The serial path goes tensor by tensor through
slot 0 of `scr`, `host`, `recv`, `dec`; the fsync path stages into `hostFlat` and writes
`file`. Any run may raise (`Failures`), which ends the program as the code does.

The pipelined path (`Bench.pipeline`, lines 159-250) has its own threads, queues and
streams. They are statement by statement those of `run_pipeline` over pinned memory, so
its steps are `RelayPipeline`'s, through one instance for each arm (`Raw`, `Cmp`), over
the buffers of `Bench`: nothing is taken from what is said of a relay run by itself. The
buffers come with whatever the serial path, the other arm and the pipelined runs before
left in them, and go on holding what this run leaves.

| Code | Action |
|---|---|
| `arm_zero`, `free` filled, both threads started | `StartPipeline` |
| `producer()`, `except` included | `PipelineProducer`: `PGet` ... `PFinish`, `PFail` |
| `consumer()`, `except` included | `PipelineConsumer`: `CGet` ... `CFree`, `CFail` |
| the streams, when the devices get to them | `PipelineDevice` |
| `join`, `synchronize`, `raise err[0]` | `JoinPipeline` |

The fill at line 211 is the one of finding 1, on the default stream and before a copy on
a side stream. `RunsDeliver` and `EveryCheckPasses` are checked, and proved, with
`FillLandsFirst`; without it TLC finds both violated, by that race.

With `--verify-only` (`verifyOnly`, drawn at the start) a block is the two arms of
`serial` or of `pipeline`, each compared tensor by tensor with a reconstruction through
buffers made for the purpose (`Fresh`, `Compare`). The two kinds of check differ as
the code's do: in a paired run the compressed check is a bound, which a raw output of
the same tensor would meet, in the verify-only pass it is equality. Each cache
gets a `Bench` of its own, so one cache stands for all.

### Session

`Program(script)` lists a script's commands, `todo` those to come, `at` the place
inside one. The volume (`short`, `repo`, `lib`, `env`, `caches`) outlives a session;
`Killed` ends one anywhere, `Start` begins another, of either script, over whatever is
there. `results` collects what runs leave in `out/`: which step, in which session,
over which corpus and beside which `environment.json`. Both scripts set `pipefail` and
not `-e`: the protocol script exits where it says `|| exit 1` (bring-up, capture, B0),
the verify script nowhere, and both are modelled as they are written. The bring-up
script runs under `set -e`.

The capture is modelled at the grain a kill can cut it: directory made, tensor opened,
tensor complete. A document with fewer tokens than the longest length is left out
(`short`).

### ReuseGate

The gate runs alone on its buffers, so it is one loop with a choice in it: at each
round trip the codec is right, or goes wrong in one of five ways (wrong in fp32 but
not in the bf16 that is delivered, wrong in both, out of bound, infinite, not a
number), and may be right when the trip is repeated. As `torch.equal` has it, a NaN is
equal to nothing and an infinity to itself: an infinity both in the reference and in
the pool is written as an observed row by the finite check, and counts as no mismatch. `cmp` and `dec` are the pool, soiled every third
pass. `ref` holds the fresh reconstructions, `tally` the counters of the summary,
`rows` the failures as observed and their re-runs. The reuse part's own
fp32-failure counter is left out: what it counts is not finite, or differs from a good
reference, or equals a reference that the fresh part has already counted.

### Manifest

`capture_dryrun` and `capture_kv` save a tensor, append it and rewrite
`manifest.json`. `Truncate` and `WriteText` are the two steps inside
`Path.write_text`; `Kill` may come between them. `WritesFirst` tells the program
that writes the manifest before its first tensor from the one that does not.

### Packing

`Pack` and `Unpack` go the way of `packing.py`: a matrix of bits, flattened, padded to
a whole byte, folded (`FlatBits`, `Padding`, `FromBits`). `KernelPack` and
`KernelUnpack` are the Triton kernels: one lane per byte or per code, every bit
addressed by arithmetic, nothing padded. `Slice` is the cut `_assemble` makes in the
packed buffer. Widths are 4, 6 and 8, as in the code.

### Codec and CodecLink

| Code | Definition |
|---|---|
| `allocation.partition`, the stable sort by group | `Partition`, `Place`, `Member`, `Segment` |
| `reference.choose_bit_width`, a given width's half step, error budget | `ChooseBitWidth`, `Fits`, `HalfStepFits`, `Budget2` |
| the loop over groups of `reference.encode`, with demotion | `PredictedWidth`, `Quantise`, `Missed`, `EncodedGroup` |
| `reference.encode`, bypasses, header, statistics | `ReferenceEncode`, `BypassReasonOf`, `Bypass`, `HeaderOf` |
| `serialize` and its CRC | `Written`, `Readable` |
| `reference.decode` | `Decode`, `DecodedGroup`, `Starts` |
| `gpu.encode`: refusals, kernels, assembly | `GpuAccepts`, `GroupStats`, `KernelCodes`, `Assembled`, `GpuEncode` |

Finite values are integers in units of a grid that stands for fp32; a narrow dtype
keeps `MantissaBits` of them, so its spacing grows with the magnitude and a cast rounds
half to even. Scales are stored in steps of `1/Res`: they are rounded, which is how a
group can pass the width prediction and still miss its bound, the case demotion is for.
`CodecLink` encodes one input on both devices, sends either buffer, damages it or not,
and decodes; or encodes it in two chunks instead, split where a block and a row end
(`Boundaries`). `off` lets the device's scales be a step away from the host's. A byte of
an element that travels as it is is a number that names the element and its place
(`ByteOf`), so that bytes of two elements never make a third.

Two operators at the end of `Codec` name what the encoders leave to their caller:
`WholeBytes` (a block's codes fill whole bytes, because `_assemble` cuts the packed buffer
by the byte) and `NoOverflow` (no reconstruction leaves the finite numbers, because an
error that is not finite compares as none, the hazard at `reference.py:196`). `MCCodec`
assumes both of its inputs (`InputsInRange`), which TLC evaluates; the theorems take them as
hypotheses.

What is written down as the code has it, and differs between the encoders:

* A raw group's stored minimum is of the finite values on the GPU and whatever
  `min()` gives on the host, in spite of the comment at `boundrelay/codec/gpu.py:262`;
  the header's width is the configured one on one side and the groups' common one, or
  -1, on the other. No decoder reads either, and `EncodersAgree` compares what one does.
* The devices divide differently, by an ulp on most groups as
  `tests/test_gpu_equivalence.py:11` measured. `off` lets all divisions of the device be a
  step of the scale above or below the host's: the half step the prediction compares and
  the scale it stores. Groups are encoded independently, so one `off` for all of them
  shows each group what it can meet.
* Such a step can move a group over the prediction or over the measured bound on one side
  only. The test's "same widths, same raw groups, same payload size -- no ulp excuse applies
  here" (line 66) is therefore what its inputs show and not what the code guarantees.
  `EncodersAgree` says what does hold: the two buffers decode within twice `eps` of each
  other in a finite group and alike in any other; widths differ only where the divisions do
  and the group is `Doubtful`, its half step inside the budget or a step beyond; a group
  both compress has one minimum and scales a step apart; equal widths are payloads of one
  size; and equal divisions give equal scales and bytes.
* `gpu.encode` asks for no dtype. A tensor of one the codec does not know (the runs take an
  integer one) is compressed there and bypassed by the reference. The bound and the
  exactness of other groups are stated for it as for any other; the structure of the two
  buffers is compared for the dtypes the codec knows.
* The CRC is over the payload. Damage to a header is not detected, and is not modelled.
* Codes of a group are cut at byte granularity, which needs groups that fill whole bytes
  (`CutIsPack` in section 6); encoding in chunks gives what encoding the whole gives
  only for chunks that end with a block, and not shorter than one.

### Freeze and Holdout

A freeze goes over the validation split (`Consider`), leaves out what is short, already
taken, or shares a title or a body with anything development has read (`Seen`), and
stops at the target. It writes the list, checks the floor and refuses, or writes the
protocol. It may be killed between any two steps and run again; a refused or killed one
leaves its list beside the older protocol, which is why the properties speak of which
freeze each file is of: `CountAsFrozen` is about a list and a protocol of one freeze, and
of the mixed pair, which B1 reads like any other, nothing is claimed.

B1 (`b1` is where it stands) reads the list, makes its preflight over up to two
development articles, looks each article up by its *title* (of two with one title the
last counts), and for each arm prefills, puts each tensor through the codec of that arm
in place (`Reconstruct`) and scores. It gives up over a missing or too short article, a
damaged reconstruction or a score that is not finite, and writes no summary when there
is no protocol or nothing was scored. `docs` is the list it counts by, in memory, beside
the lines in the file. Facts the model keeps: the body's hash is not
checked again after the freeze; the protocol file is read after all scoring; a preflight
with no article long enough passes (`PreflightGuards` speaks of those there
are, and says nothing if there are none). The freeze
drops an article whose *body* it has taken, not one whose *title* it has, and B1 looks up
by title, so of two picked articles of one title it scores one: `CountAsFrozen` says that
the results are short of the frozen list by the titles picked twice and by nothing else,
and `ScoredAreFrozen` is about titles that stand for one article. `HeldoutUnseen` is about
train splits whose titles are distinct, because the seen list keeps one body for a title.
The summary of an earlier run stays until a later one ends; `SummaryComplete` is about
the latest run's. The corpus
is the same for every freeze and run, although the code pins no revision of the dataset.
Likelihoods, intervals and byte counts are left out.

### Policy and Sz3Scan

`Policy` is `eval_policy.py`'s three loops around two calls of `decide`: with the margin
and without (the oracle). `Look` considers one candidate, `Choose` ends a call,
`ScoreRow` scores both without the margin. Time is in units in which a byte takes a
whole number at each bandwidth. Facts it keeps: `decide` reports "not profitable" also
when every candidate was disallowed; passthrough or disallowed candidates come only from
callers other than `eval_policy`; an empty table divides by zero, so nothing is summarised.

`Sz3Scan` goes over every tensor, view, `c` and configuration of the grid, then compares
NOPRED with the best configuration per tensor (the oracle) and with the best single one.
The compressor is a constant operator (`Size`) of which only the symmetry of directions
in few axes is assumed, and that what it writes takes up some bytes. Corpora have labels of
their own, as the keys of the dict in `main`. A ratio is a whole quotient: what the
comparisons depend on is its order and its sum. A broken bound, or an empty corpus, ends the scan with nothing
written. The knobs are probed and recorded but change nothing scanned; means of
ratios are compared as sums over the same tensors. A NaN error compares false with
the slack, as in the code.

`MCChoices` runs both in one instance, one of them per behaviour; they share nothing.

## 3. Runs

| Run | Instance | Distinct states | Shows |
|---|---|---|---|
| `relay` | `MCRelayModes`: six modes, 4 tensors, 3 slots, 2 passes, failures (spool: short writes) | 17 790 | types, slot ownership, no early reuse, nothing wrong delivered, whole passes, refinement of `Delivery`, termination |
| `relay_fill_race` | compressed, pinned memory, 3 tensors, 2 slots, 1 pass, no failures, without `FillLandsFirst` | | **violated**, finding 1 |
| `relay_concat_short` | compressed, one preallocated file, 3 tensors, 2 slots, short writes | | **violated**, finding 2 |
| `offload` | 2 tensors, 4 configurations, a verified, a warm and a timed pass, all faults | 7 313 | durability, no holes, complete table, termination |
| `paired` | 3 tensors, 2 slots, 2 segments of 2 pairs on 3 paths in every shuffle, or `--verify-only`; threads and streams of the pipelined path; failures | 208 243 | deliveries and checks over shared stale buffers, staging, balance; no run hangs in `join` |
| `session` | 2 sessions of either script, 2 kills, any document short | 88 914 | what B0, B1 and B2 rest on; sessions end |
| `session_gate` | protocol script, 1 kill | | **violated**, finding 3 |
| `reuse` | 20 passes (the scripts' value), 2 values of c, up to 2 faults | 292 372 | verdict right both ways, records kept, hard cases met |
| `manifest_kill` | 3 tensors, 3 sessions, 2 kills | | **violated**, finding 4 |
| `codec` | 2 164 pairs of a tensor and a configuration, both encoders, divisions a step apart, damage, chunks | 106 196 | the bound, exact raw groups, what the encoders share, true statistics, chunk independence |
| `holdout` | 4 corpora, 2 freezes, 2 runs of B1, kills anywhere | 530 002 | unseen list, own caches, scored as frozen, whole summaries, counts, preflight, B1 ends |
| `choices` | 72 tables, 3 bandwidths, 4 margins; 12 kinds of tensor in up to 2 corpora | 26 601 | a margin only bypasses, regret is bounded by it, the oracle bounds the scan |

**Bounds, and why they are enough.**

* *Relay.* One tensor more than slots, so that every slot buffer is reused within a
  pass, and two passes, so that every buffer and the receiver are reused between
  passes. Tensors get smaller (`MCBytes`), so a slot's next tenant is always shorter
  than its last: the case where stale bytes survive. More slots or tensors add laps of
  the same ring; the theorems of section 6 cover all of them.
* *Offload.* Two tensors are the fewest with an offset that is not 0; the arms' sizes
  differ, so their layouts do. Pages stand for the unit a short write or a write-back
  can split at; the first raw tensor has two. One timed pass (`Reps`) behind the verified
  and the warm one makes three passes over the same file, the last not read back.
* *Paired paths.* Two pairs in a block are the fewest in which each order can come
  first; two segments let a block follow another of the same path. Three tensors on two
  slots use a slot again within a pipelined run, and the arms' runs use it after each
  other. A compressed tensor is shorter than the raw one, so a slot's next tenant is
  shorter than its last.
* *Session.* Two tensors per cache are the fewest with one written and one not. Two
  sessions are a first and a later one; two kills let both be cut.
* *Gate.* 20 passes are what the scripts run; a whole period of soiling (3) against
  the order of the caches (8) fits. Two faults are one and its recurrence, fewer than
  it takes to be wrong alike every time a combination comes up. One tensor
  per cache: the pool does not tell tensors of a cache from caches of a pass.
* *Codec.* Two blocks and a tail: a group that starts inside the stream and one shorter
  than a block. Every ordered choice of four values for the first block meets each width
  and the demotion; the other groups bring NaN and infinities, wide ranges, constants.
  Order inside a group does not matter to its width, and its packing is proved for all.
  `Borderline` adds fp16 and ranges a step of the scale inside and outside the budget, where
  widths do differ, in both directions.
* *Holdout.* The corpora are chosen so that a freeze reaches its target, ends between
  floor and target, or refuses, with repeated titles and bodies. Two freezes and two
  runs are the fewest where one works over what another left. Two tensors are a K and a V.
* *Choices.* Every pair of eight kinds of candidate, each meeting a tie, a saving, a
  loss or a bar; the three predictors, which are all that tells tensors apart.

Deadlock is checked in every run but `codec`, `holdout` and `choices`, which end when
everything has been sent, started or scanned. Elsewhere the end of a program is a
stuttering step of its own (`Ended`, `Finished`), enabled only there.

Every property of a passing run has a mutant in `PROJECT.json`: a changed definition of
the model under which TLC finds the property violated. They are the bugs the property
is there for: no wait for the event or the copy, no fill, no sentinels, a slot freed
twice, an fsync left out, an exit status lost in a pipe, a check against the wrong arm,
a demotion that never happens, a cache the last arm left, results opened to append.

## 4. Fairness

* `RelayPipeline!FairSpec` (and the same in each mode of `MCRelayModes`): weak fairness
  of each thread, of the main thread and of each stream. The operating system schedules
  runnable threads, a blocked `queue.get` is woken when an item is there, and a device
  drains its streams. None is owed to `PFail` or `CFail`: nothing must fail. That the two
  threads have fairness of their own matters, or a run could wait for ever on the one
  that is ignored.
* `OffloadFile!Spec`: weak fairness of the program's own steps. None of `WriteBack`
  (the kernel may leave a page dirty until the fsync), nor of failures. `pwrite`
  returns at least one byte or fails, which is what makes `write_all` end.
* `Session!Spec`: weak fairness of `Step`: a command that is not killed returns. None
  of `Start`: nobody has to begin another session. The commands the model takes as one
  step (a benchmark, a quality run) are assumed to end.
* `Holdout!Spec`: weak fairness of `B1Step`: a run of B1 that is not killed takes its
  next step. None of starting a run, of a freeze, or of a kill.
* `ReuseGate`, `PairedPaths`, `Manifest`, `CodecLink`, `MCChoices`: safety only; one
  thread with bounded loops.

## 5. Findings

1. **`relay_fill_race`** (`scripts/pipeline_multistage.py:441`, the same in
   `benchmark_paths.py:211`). `recv[slot].zero_()` goes to GPU1's default stream and the
   payload's copy to a side stream; nothing orders them, and only the side stream is
   synchronised before the decode. If the fill runs after the copy, the payload is
   erased and the pass returns without an exception and without the tensor. In
   practice the default stream is idle and the fill short, which is what
   `FillLandsFirst` says; the other relay runs and `paired` assume it, under that name.
2. **`relay_concat_short`** (`:113`). `FileConcat.put` drops what `write()` returns. The
   file is preallocated, so the byte count its reader asserts is always met and old bytes
   are delivered. `FileSpool` makes the same omission and is saved by the truncating
   open (the spool modes of `relay`).
3. **`session_gate`** (`scripts/run_protocol_session.sh:22`). The capture is skipped once
   the last cache's *directory* is there, which exists before its tensors do. After a
   kill in between, B0 passes on fewer tensors than the protocol freezes. The damage is
   confined to that cache: `LastMeansEarlierWhole` and `GateMissesOnlyLast` hold.
4. **`manifest_kill`** (`boundrelay/trace/manifest.py:63`). "Keeps everything up to
   minute 49" does not survive a kill between the truncation and the writing of
   `manifest.json`.

## 6. What is proved

Every invariant that a passing run checks is also a theorem, for every value of the
constants. Each rests on the named assumption on its module's constants (sizes, counts
and bounds are numbers, lists are lists of the right things) and on the hypotheses its
row names, and on nothing else.

| Module | Theorem | States |
|---|---|---|
| `RelayProofs` | `TypeCorrect` | `Spec => []TypeOK` |
| | `SlotsAreExclusive` | a slot number is in one queue once, or with one thread |
| | `NoReuseWhileHeld` | a slot with pending device work is not free, nor with a thread that may write its buffers |
| | `DeliversNothingWrong`, `PassesDeliverAll` | under `SoundTransport`: `[]NeverWrong`, `[]PassDeliversAll` |
| | `ImplementsDeliverySafely` | under `SoundTransport`: `Init => Promise!Init` and every step is one of `Delivery` or a stutter |
| `OffloadProofs` | `AcknowledgedIsOnDisk`, `PassesLeaveNoHole`, `EveryRowIsThere` | `[]AckedIsDurable`, `[]ReturnedIsWhole`, `[]TableIsComplete` |
| `PairedProofs` | `EveryRunIsChecked`, `EveryRunDelivers` | under `FillLandsFirst`: `[]EveryCheckPasses`, `[]RunsDeliver` |
| | `StagingIsOwn`, `OrdersAreBalanced` | `[]StagedPrefix`, `[]OrdersBalanced` |
| `ReuseProofs` | `RightCodecPasses`, `FailuresStayOnRecord` | `[]FailedMeansFault`, `[]ObservedIsKept` |
| | `PassMeansCodecWasRight` | `[]PassedMeansNoFault`, if there are at most twice as many faults as whole laps of 8 passes |
| | `PassesReachHardCases` | `[]HardCasesMet`, from 15 passes on |
| `LayoutProofs` | `KernelPacksAlike`, `KernelUnpacksAlike`, `UnpackUndoesPack`, `CutIsPack` | the kernels are the reference, the inverse is one, the assembly's cut is a group's own packing |
| `CodecProofs` | `NonFiniteIsKept`, `ChunksAreIndependent` | under `WholeBytes`: `[]NonFiniteIsExact`, `[]ChunkIndependent` |
| | `BoundIsKept`, `EncodersAgreeAlways`, `StatsAreKept` | under `WholeBytes` and `NoOverflow`: `[]BoundHolds`, `[]EncodersAgree`, `[]StatsAreTrue` |
| `HoldoutProofs` | `HoldoutTypes`, `HeldoutIsUnseen`, `ArmsScoredOnTheirOwn`, `ScoredPastPreflight`, `ScoredAsFrozen`, `SummaryIsComplete`, `CountedAsFrozen` | all safety properties of the `holdout` run |
| `StudyProofs` | `EarlierCachesAreWhole`, `GateIsHeld`, `GateMissesNothingElse`, `ResultsNameTheirMachine` | `[]LastMeansEarlierWhole`, `[]GateHeld`, `[]GateMissesOnlyLast`, `[]EnvironmentIsOwn` |
| | `MarginOnlyEverBypasses`, `RegretIsOfFlips` | `[]MarginOnlyBypasses`, `[]RegretIsFlips` |
| | `HandicapStaysFair` | `[]HandicapIsFair` |

**The hypotheses.**

* `SoundTransport` is `FillLandsFirst` and, for `FileConcat`, no short writes. Findings 1
  and 2 show that neither half can be left out. The slot theorems hold without it: those
  findings are not failures of the slot protocol. The pipelined path of `PairedPaths` goes
  over pinned memory and needs the first half only.
* `Passes >= 15`: the scripts run 20. Earlier some cache has not met a soiled pool.
* `MaxFaults <= 2 * (Passes \div 8)`: a gate that compares with a fresh reconstruction
  cannot see a codec that is wrong in the same way in the reference and in every pass. A
  cache comes up at least twice in a lap, so that takes a fault in each of those passes
  besides the reference's own. With the scripts' 20 passes the theorem covers up to four
  faults.
* `WholeBytes`, `NoOverflow`: see `Codec` in section 2. `block_size` is 256 unless it
  is given, so the first is met with every width; the second is a matter of the data.

**The arguments.**

*Relay slots.* `TypeOK` is inductive. `SlotExclusive` is inductive relative to it
(`SlotsInv`): the sentinels, which may be put again and again, are exempt from the
claim, and every other action moves one slot number from one place to the next; the
lemmas `HeadTailElements`, `AppendElements` and `SentinelsDiffer` say what that does to
a queue. `NothingReusedWhileHeld` is not inductive: `CSync` hands on a slot because one
*event* completed, which says nothing of the slot's other copies, and `CFree` frees a
slot because of three waits several steps back. `HeldInv` adds what is missing:
`CopiesCurrent` (a pending copy of a slot is the one its present holder was given, so
that waiting for that event is waiting for all of them) and `StreamsDrained` (which
streams are empty at which point of the consumer's loop).

*Relay contents.* On top of `HeldInv`, `SourceInv` follows a payload from the scratch
through pinned memory and file to the copy that reads it, `SinkInv` from there through
the receive buffer and the destination to `gpu_out`, each with the device operations
still pending on the way; `OrderInv` says that what is delivered and what is under way
are together a prefix of the cache in order, `EndInv` what a pass that ends has seen.
They give the two invariants and, action by action, the step refinement.

*Offload.* `Offsets` and `FlattenSeq` are recursive functions, and what they compute
for every number of tensors takes an induction. `LeastNumber` (a non-empty set of
naturals has a least member, from the well-foundedness of `<`) and `UpTo` (induction up
to n over a set) supply it: `SumsExist` and `ConcatsExist` show that the recursive
equations have solutions, `OffsetsGrow` and `PositionsCovered` that the regions are
disjoint and cover the file, `PayloadLaid` that concatenation puts each page at its
offset, `OwnerIs` that staging does. `CallsTile` says the calls cover the payload without
a gap, one per tensor or one for all. `PlacedInv` then follows a pass through `write_all`;
`FileInv` says what the file is worth at each place; `AckInv` adds why an acknowledgement
stands: `disk = cached`, so nothing is left to write back.

*Paired paths.* What a check meets depends on what ran before it, and that is a matter of
the block's program, not of one step. `ProgramInv` says of what is left of it that each
check comes right behind the run of its own arm; `ProgramFollows` shows it of every
program the code can build, whatever the shuffle. For a pipelined run, `RelayProofs` is
instantiated for each arm (`RawP`, `CmpP`), with the names of both arms' payloads among
what a buffer may hold. `FreshPass` shows that `StartPipeline` establishes the relay's
inductive invariant whatever the buffers hold, which is why it speaks of nothing an earlier
pass left; `PipeInv` keeps it while the threads run, step by step from the relay's own
lemmas, and `JoinPipeline` reads off it that a run nobody raised in delivered (`EndInv`).
`StreamsInv` says that between runs no operation is pending, so that no other path
meets one. `RunInv` and `StagedInv` follow the other two paths
tensor by tensor over buffers with anything in them, `HeldInv` says what it leaves for
the check. `OrderInv` counts each order of the arms twice, in the trials recorded and in the
program that is left, and says the two counts add up to the block's share
(`CountConcat` and its like carry a count through concatenation, append and tail).

*Gate.* `PoolReturnsRight` is the clearing of both buffers; `CleanInv` says that while
nothing has gone wrong every reference is right and every counter zero, `RecordInv`
keeps rows and counters together (`RowAdded`). `RanInv` says the passes run so far are the
laps' in order, and fifteen of them contain every case (`FirstLap`, `SoiledEarly`).
`MissedInv` says what a fault that no counter shows has cost: while nothing has failed, a
wrong reference has had a fault in *each* pass that visited its tensor since;
`TwicePerLap` and `UnseenCosts` turn those into distinct faults, more than there may be.

*Packing.* The padding is always less than a byte and the same function of the length as
the rounding up of the kernels; the rest is arithmetic on bit positions, case by case in
the three widths.

*Codec.* A buffer `Carries` a tensor when its widths and body are what its groups' codes
make them. `PlaceOrders` and `PlaceTells` show that the stable sort gives each element a
place of its own in its group's segment, `StartsAre` that the decoder's running sum of
sizes finds each group where the encoder put it, and so `DecodeCarried` that such a
buffer is read back group by group. It is `Sent` when each group besides is raw, or finite
and within the bound, which is what the demotion leaves (`WorstErrorBounds`). Both encoders
write such buffers (`ReferenceSends`, `GpuSends`): for the device that takes
`DevCutIsChunk`, that the cut of the packed buffer is a group's own packing, which is
where `WholeBytes` is needed. That the two agree is read off both: each is within the bound of
the tensor, a scale is at most a step from the other's (`ScaleNear`), so that what one
compresses and the other does not was within a step of the budget (`GroupsNear`), and equal
widths lay out equally long bodies (`SameLength`). A changed buffer does not pass the checksum
(`DamageShows`). `LinkInv`, what each variable of the link stands for, is then inductive.
For chunks, a group of the whole is one group of the first chunk or one of the second, with
the same values and therefore the same codes (`PiecesInv`).

*Holdout.* None of the seven is inductive; the strengthening is one conjunct per
subject, listed at the head of `HoldoutProofs`.

*Session.* `CorpusInv` and `CaptureInv` say what a capture, wherever it was cut, leaves
(every cache before the one under way is whole); `ProtocolInv` what is known at each
place of a protocol session; `ResultsInv` carries that to the results.

*Policy.* The loop of `decide` keeps the best of the candidates so far; the break-even
form and the seconds form of a candidate's benefit have the same sign.

*Scan.* `ScanInv` says that the rows are exactly the runs of the tensors gone by and the
results exactly the summaries of the corpora gone by (`RowsBefore`, `Summaries`); rows of a
later corpus change no earlier summary, because labels differ (`ScannedLabel`). The runs
of one corpus, view and `c` are then a `Full` table: each tensor under each configuration
once. No two configurations share a tag or an effect (`TagsDiffer`, `GridMember`), which is
where the number of directions matters. That the oracle is at least the best single
choice is a comparison of sums over a finite set, which the community module defines by a
recursive function on its subsets: `SumTake`, `SumMoved`, `SumBelow` and `SumStrictlyBelow`
(by induction on the size, `BySize`) say what is needed of it.

**Only model-checked:** the liveness properties (`Terminates` of relay and of offload,
`SessionEnds`, `B1Ends`), and of `ImplementsDelivery` the part about fairness. They need
ENABLED or reasoning under fairness, which is out of the provers' reach. Everything
said of `Manifest` and in the findings is a counterexample, so there is nothing to prove.

A leaf that needs both arithmetic and rewriting under a set or a function is split into one
step for each, so that no proof hangs on a prover's last seconds.

## 7. What is not modelled, and why

* *Timing, statistics, figures, tables*: numbers about a run and not behaviour of it.
  That includes the serial and contention probes of `pipeline_multistage.py`, the
  bootstraps of `benchmark_paths.py` and `quality_holdout.py`, the NLL arithmetic,
  `cost_model.sweep`, and `gpu.py`'s benchmark functions.
* *The observation of the `cmpSize` argument* in `validate_reuse.py`: it only prints
  what a foreign library does.
* *Serial relays* (`transport_e2e.py`, `session_close.py`, `gate2_rerun.py` and their
  like): one thread; the serial path is in `PairedPaths`.
* *Quality studies of phase D* (`quality_d.py`, `quality_asym.py`, `quality_contrast.py`,
  `quality_reconcile.py`): sequential arithmetic that the repository itself replaces by B1.
* *`sz3_config_scan.py`*: the pilot of `sz3_full_scan.py`.
* *Transport probes and audits*: straight-line measurements of hardware.
* *The cuSZp library and its bridge, SZ3*: outside the repository. What callers need of
  cuSZp is in `Buffers`, what the scan needs of SZ3 in `Sz3Scan`.
* *Stubs* (`trace/capture.py`, `bench/atlas.py`, `integration/sglang_omni.py`): their
  bodies raise `NotImplementedError`.
* *Pod handling*: copies files to and from a rented machine.
* *Real floating point.* `Codec` works on integers with a coarsening grid, on which fp16 is
  bf16 with three more bits. Of the dtypes the codec does not know it has an integer one,
  fp64 not. A check on a NaN that
  compares false is modelled where a decision hangs on it (`ReuseGate`, `Codec`).

## 8. What is left

Each component that section 1 names a module for is modelled to the extent its status and
note in `PROJECT.json` say, several of them partly, and every invariant of a run is proved,
under the hypotheses of section 6. Some hazards in `PROJECT.json` have no
property, because the code lets them happen and no text of the repository promises
otherwise: a mixed pair of list and protocol, a preflight over no article, repeated
titles, an old summary beside new lines, an old environment in a verify session, a torn
clone or corpus that makes every later session fail. Each has a note that says so. What
would come next, in this order:

1. A theorem that names what does hold of a capture manifest that is killed (finding 4): the
   tensors appended before the last complete rewrite. It needs a property and a run first.
2. Step simulations for the components without an abstract specification: `OffloadFile` as
   an atomic durable write, the gate as a single comparison.
