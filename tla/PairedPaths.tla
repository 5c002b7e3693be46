----------------------------- MODULE PairedPaths -----------------------------
(***************************************************************************)
(* scripts/benchmark_paths.py: main measures the raw and the compressed    *)
(* arm in pairs over three paths -- serial, pipeline, fsync -- through one *)
(* Bench, whose buffers, outputs and file all arms and paths share.  What  *)
(* any of them holds is what the run before left there, and the order of   *)
(* the runs is shuffled.  Bench.pipeline is a copy of run_pipeline's two   *)
(* threads, kept in this file over Bench's buffers: RelayPipeline's        *)
(* actions, one pass of them, over what the other paths and the other arm  *)
(* have left in those buffers.                                             *)
(* With --verify-only there are no pairs: each arm of the two moving paths *)
(* is compared tensor by tensor with a reconstruction made apart.  Every   *)
(* cache has a Bench of its own, so one cache stands for all.              *)
(***************************************************************************)
EXTENDS Buffers, SequencesExt, FiniteSetsExt

CONSTANTS
  Sizes,       \* Sizes[comp][t]: bytes tensor t ships as on an arm
  Pairs,       \* --pairs
  Segments,    \* --segments
  Warmup,      \* --warmup
  Failures,    \* may a run raise?
  Depth,       \* --depth
  FillLandsFirst \* as in RelayPipeline: does a fill on GPU1's default stream
                 \* always finish before a copy issued after it?

ASSUME PairedAssumption ==
  /\ Sizes \in [BOOLEAN -> Seq(Nat \ {0})]
  /\ Len(Sizes[FALSE]) = Len(Sizes[TRUE]) /\ Sizes[TRUE] # << >>
  /\ \A t \in DOMAIN Sizes[TRUE] : Sizes[TRUE][t] <= Sizes[FALSE][t]
  /\ Pairs \in Nat /\ Segments \in Nat \ {0} /\ Warmup \in Nat
  /\ Failures \in BOOLEAN
  /\ Depth \in Nat \ {0} /\ FillLandsFirst \in BOOLEAN

NTensors == Len(Sizes[TRUE])
Tensors  == 1..NTensors
Slots    == 0..(Depth - 1)

\* Whose bytes: tensor t as an arm ships it, and as the receiver ends up with
\* it -- the tensor itself, or its reconstruction.
Shipped(comp, t) == IF comp THEN NTensors + t ELSE t
Payloads == 1..(2 * NTensors)

\* How fsync_write lays a file out: off, and after the last tensor total.
Offsets(comp) ==
  LET acc[t \in 1..(NTensors + 1)] == IF t = 1 THEN 0 ELSE acc[t - 1] + Sizes[comp][t - 1]
  IN  acc

\* Faulty: both arms at the raw arm's offsets.
OffsetRaw(comp, t) == Offsets(FALSE)[t]

Offset(comp, t) == Offsets(comp)[t]
Total(comp) == Offset(comp, NTensors + 1)

VARIABLES
  verifyOnly,  \* --verify-only
  block,     \* the (segment, path) under way
  todo,      \* what is left of its program
  at,        \* the tensor the run under way has got to, 0 before it starts
  scr, host, recv, dec,  \* Bench's buffers, slot by slot
  hostFlat,  \* the fsync path's staging: whose byte each position is
  out,       \* Bench.out: what GPU1 holds for each tensor
  file,      \* the block's file
  checks,    \* path_checks.jsonl: the verdict of every check
  trials,    \* path_trials.jsonl: block and order of every pair
  outcome,
  \* The pipelined run under way: its threads, queues, exceptions and streams.
  pPc, pItem, cPc, cItem, free, ready, err, copy0, copy1, default1

call    == <<pPc, pItem, cPc, cItem, free, ready, err, copy0, copy1, default1>>
buffers == <<scr, host, recv, dec, hostFlat, out, file>>
vars == <<verifyOnly, block, todo, at, buffers, checks, trials, outcome, call>>

Paths  == IF verifyOnly THEN <<"serial", "pipeline">> ELSE <<"serial", "pipeline", "fsync">>
Blocks == IF verifyOnly THEN Len(Paths) ELSE Segments * Len(Paths)
PathOf(b) == Paths[((b - 1) % Len(Paths)) + 1]

Gone == << >>

\* _probe compresses every tensor through scr[0] to learn its size.
Probed == [[s \in Slots |-> Nothing] EXCEPT ![0] = Shipped(TRUE, NTensors)]

\* The pipelined path of either arm: one pass over pinned memory, each tensor's
\* bytes known by the arm they are of.
Raw == INSTANCE RelayPipeline
         WITH Compressed <- FALSE, Bytes <- Sizes[FALSE],
              Payload <- [t \in Tensors |-> Shipped(FALSE, t)], dst <- dec,
              Transport <- "HostRing", ShortWrites <- FALSE, file <- [s \in Slots |-> Zeroed],
              Passes <- 1, pass <- 1, outcome <- "running"

Cmp == INSTANCE RelayPipeline
         WITH Compressed <- TRUE, Bytes <- Sizes[TRUE],
              Payload <- [t \in Tensors |-> Shipped(TRUE, t)], dst <- dec,
              Transport <- "HostRing", ShortWrites <- FALSE, file <- [s \in Slots |-> Zeroed],
              Passes <- 1, pass <- 1, outcome <- "running"

FirstItem == [tensor |-> 1, slot |-> Raw!Stop]

\* No pipelined run is under way: its locals are gone with it.
NoCall ==
  /\ pPc = "done" /\ pItem = FirstItem /\ cPc = "done" /\ cItem = Raw!NoItem
  /\ free = << >> /\ ready = << >> /\ err = << >>
  /\ copy0 = << >> /\ copy1 = << >> /\ default1 = << >>

Init ==
  /\ verifyOnly \in BOOLEAN
  /\ block = 1 /\ todo = << >> /\ at = 0
  /\ scr = Probed /\ host = [s \in Slots |-> Nothing]
  /\ recv = [s \in Slots |-> Zeroed] /\ dec = [s \in Slots |-> Nothing]
  /\ hostFlat = [p \in 1..Total(FALSE) |-> Nothing]
  /\ out = [t \in Tensors |-> Nothing]
  /\ file = Gone /\ checks = << >> /\ trials = << >> /\ outcome = "running"
  /\ NoCall

-----------------------------------------------------------------------------
(* The program of a block.                                                  *)

Run(comp)   == [do |-> "run", comp |-> comp]
Check(comp) == [do |-> "check", comp |-> comp]
Compare(comp) == [do |-> "compare", comp |-> comp]
Trial(rawFirst) == [do |-> "trial", comp |-> rawFirst]

PerSegment == Pairs \div Segments

\* Faulty: only one arm leads.
OrdersOneSided == {[k \in 1..PerSegment |-> TRUE]}

\* orders, shuffled: every arrangement of per_seg//2 raw-first pairs among the
\* others.
Orders ==
  {o \in [1..PerSegment -> BOOLEAN] :
     Cardinality({k \in 1..PerSegment : o[k]}) = PerSegment \div 2}

\* Faulty: what the last run left is checked, whichever arm it was.
VerifyUnrun == <<Check(FALSE), Check(TRUE)>>

\* verify: run an arm, then check what that arm produced.
VerifyBoth == <<Run(FALSE), Check(FALSE), Run(TRUE), Check(TRUE)>>

Pair(rawFirst) ==
  <<Run(~rawFirst), Run(rawFirst), Trial(rawFirst)>>

\* Warm-up, verify("pre"), the pairs, verify("post").
Program(orders) ==
  FlattenSeq([k \in 1..Warmup |-> <<Run(FALSE), Run(TRUE)>>])
    \o VerifyBoth
    \o FlattenSeq([k \in 1..PerSegment |-> Pair(orders[k])])
    \o VerifyBoth

\* verify_only, for one path.
VerifyOnly == <<Run(FALSE), Compare(FALSE), Run(TRUE), Compare(TRUE)>>

End == [do |-> "end", comp |-> FALSE]

\* for seg in range(segments), for path in paths.
BlocksLeft == block <= Blocks

Begin ==
  /\ outcome = "running" /\ todo = << >> /\ BlocksLeft
  /\ IF verifyOnly THEN todo' = Append(VerifyOnly, End)
     ELSE \E orders \in Orders : todo' = Append(Program(orders), End)
  /\ UNCHANGED <<verifyOnly, block, at, buffers, checks, trials, outcome, call>>

Now(what) == outcome = "running" /\ todo # << >> /\ Head(todo).do = what
Comp == Head(todo).comp

-----------------------------------------------------------------------------
(* Bench.serial, Bench.pipeline and Bench.fsync_write.                      *)

\* recv[0].zero_().
Cleared(buf) == Zeroed

\* arm_zero().
Armed(o) == [t \in DOMAIN o |-> Nothing]

StartSerial ==
  /\ Now("run") /\ PathOf(block) = "serial" /\ at = 0
  /\ out' = Armed(out)
  /\ at' = 1
  /\ UNCHANGED <<verifyOnly, block, todo, scr, host, recv, dec, hostFlat, file, checks,
                 trials, outcome, call>>

\* One tensor of serial: all of it in slot 0, on default streams, in order.
SerialTensor ==
  /\ Now("run") /\ PathOf(block) = "serial" /\ at \in Tensors
  /\ LET id  == Shipped(Comp, at)
         n   == Sizes[Comp][at]
         got == CopiedInto(Cleared(recv[0]), id, n)
     IN  /\ scr' = IF Comp THEN [scr EXCEPT ![0] = id] ELSE scr
         /\ host' = [host EXCEPT ![0] = id]
         /\ recv' = [recv EXCEPT ![0] = got]
         /\ dec' = IF Comp THEN [dec EXCEPT ![0] = Decoded(got, id, n, Nothing)] ELSE dec
         /\ out' = [out EXCEPT ![at] = IF Comp THEN dec'[0] ELSE got.of]
  /\ at' = at + 1
  /\ UNCHANGED <<verifyOnly, block, todo, hostFlat, file, checks, trials, outcome, call>>

\* pipeline: every slot is free, and both threads are started.
StartPipeline ==
  /\ Now("run") /\ PathOf(block) = "pipeline" /\ at = 0
  /\ out' = Armed(out)
  /\ at' = 1
  /\ free' = Raw!FreshQueue /\ ready' = << >> /\ err' = << >>
  /\ pPc' = "get" /\ pItem' = FirstItem /\ cPc' = "get" /\ cItem' = Raw!NoItem
  /\ UNCHANGED <<verifyOnly, block, todo, scr, host, recv, dec, hostFlat, file, checks,
                 trials, outcome, copy0, copy1, default1>>

\* main waits in join while the threads and the devices run, each as the arm has it.
Pipelining == Now("run") /\ PathOf(block) = "pipeline" /\ at = 1
Joining == <<verifyOnly, block, todo, at, hostFlat, file, checks, trials, outcome>>

PipelineProducer ==
  /\ Pipelining /\ UNCHANGED Joining
  /\ \/ Comp /\ Cmp!Producer
     \/ ~Comp /\ Raw!Producer

PipelineConsumer ==
  /\ Pipelining /\ UNCHANGED Joining
  /\ \/ Comp /\ Cmp!Consumer
     \/ ~Comp /\ Raw!Consumer

PipelineDevice ==
  /\ Pipelining /\ UNCHANGED Joining
  /\ \/ Comp /\ Cmp!Device
     \/ ~Comp /\ Raw!Device

\* Both threads joined, both devices synchronised: raise what was noted first, if
\* anything was.
JoinPipeline ==
  /\ Pipelining /\ Raw!Joined
  /\ IF err = << >> THEN at' = NTensors + 1 /\ outcome' = outcome
     ELSE at' = at /\ outcome' = "raised"
  /\ pItem' = FirstItem /\ cItem' = Raw!NoItem
  /\ free' = << >> /\ ready' = << >> /\ err' = << >>
  /\ UNCHANGED <<verifyOnly, block, todo, buffers, checks, trials, pPc, cPc, copy0, copy1,
                 default1>>

\* fsync_write empties the file at its arm's length, ...
StartWrite ==
  /\ Now("run") /\ PathOf(block) = "fsync" /\ at = 0
  /\ file' = [p \in 1..Total(Comp) |-> Nothing]
  /\ at' = 1
  /\ UNCHANGED <<verifyOnly, block, todo, scr, host, recv, dec, hostFlat, out, checks,
                 trials, outcome, call>>

\* ... stages one tensor after another, ...
StageTensor ==
  /\ Now("run") /\ PathOf(block) = "fsync" /\ at \in Tensors
  /\ LET id == Shipped(Comp, at)
         n  == Sizes[Comp][at]
         o  == Offset(Comp, at)
     IN  /\ scr' = IF Comp THEN [scr EXCEPT ![0] = id] ELSE scr
         /\ hostFlat' = [p \in DOMAIN hostFlat |->
                           IF p \in (o + 1)..(o + n) THEN id ELSE hostFlat[p]]
  /\ at' = at + 1
  /\ UNCHANGED <<verifyOnly, block, todo, host, recv, dec, out, file, checks, trials,
                 outcome, call>>

\* ... and the run ends: serial and pipeline with their last synchronisation,
\* fsync_write with the write of all it has staged.
EndRun ==
  /\ Now("run") /\ at = NTensors + 1
  /\ file' = IF PathOf(block) = "fsync" THEN SubSeq(hostFlat, 1, Total(Comp)) ELSE file
  /\ at' = 0 /\ todo' = Tail(todo)
  /\ UNCHANGED <<verifyOnly, block, scr, host, recv, dec, hostFlat, out, checks,
                 trials, outcome, call>>

\* A run raises outside the threads, past main: the jsonl lines written so far are
\* all there is.
RunRaises ==
  /\ Failures /\ Now("run") /\ ~Pipelining
  /\ outcome' = "raised"
  /\ UNCHANGED <<verifyOnly, block, todo, at, buffers, checks, trials, call>>

-----------------------------------------------------------------------------
(* check_moved, check_written and the records.                              *)

\* check_moved: the outputs against the source -- equal on the raw arm, within
\* the bound on the compressed one, which the raw outputs are too.
Moved(comp) ==
  \A t \in Tensors :
    out[t] = Shipped(comp, t) \/ (comp /\ out[t] = Shipped(FALSE, t))

CheckMoved ==
  /\ Now("check") /\ PathOf(block) # "fsync"
  /\ checks' = Append(checks, IF Moved(Comp) THEN "ok" ELSE "mismatch")
  /\ todo' = Tail(todo)
  /\ UNCHANGED <<verifyOnly, block, at, buffers, trials, outcome, call>>

\* check_written: a file of another length is a short read; a compressed stream
\* goes through scr[0] to the decoder, and one that is not a compressed stream
\* is an illegal memory access.
Region(comp, t) == SubSeq(file, Offset(comp, t) + 1, Offset(comp, t) + Sizes[comp][t])
RegionHolds(comp, t) == \A p \in DOMAIN Region(comp, t) :
                          Region(comp, t)[p] = Shipped(comp, t)

Written(comp) ==
  IF Len(file) # Total(comp) THEN "shortRead"
  ELSE IF \A t \in Tensors : RegionHolds(comp, t) THEN "ok"
  ELSE IF comp THEN "illegalAccess" ELSE "mismatch"

CheckWritten ==
  /\ Now("check") /\ PathOf(block) = "fsync"
  /\ checks' = Append(checks, Written(Comp))
  /\ scr' = IF Comp /\ Written(TRUE) # "shortRead"
            THEN [scr EXCEPT ![0] = Shipped(TRUE, NTensors)] ELSE scr
  /\ todo' = Tail(todo)
  /\ UNCHANGED <<verifyOnly, block, at, host, recv, dec, hostFlat, out, file, trials,
                 outcome, call>>

\* fresh_reference: a round trip through buffers zeroed for this tensor alone.
Fresh(t) ==
  LET id == Shipped(TRUE, t)
      n  == Sizes[TRUE][t]
  IN  Decoded(CopiedInto(Zeroed, id, n), id, n, Nothing)

Wanted(comp, t) == IF comp THEN Fresh(t) ELSE Shipped(FALSE, t)

\* check_per_tensor: every output, byte for byte, against what its own arm yields.
ComparePerTensor ==
  /\ Now("compare")
  /\ checks' = checks \o [t \in Tensors |->
                            IF out[t] = Wanted(Comp, t) THEN "ok" ELSE "mismatch"]
  /\ todo' = Tail(todo)
  /\ UNCHANGED <<verifyOnly, block, at, buffers, trials, outcome, call>>

\* A pair's two times and its ratio go to results and to the trials file.
RecordTrial ==
  /\ Now("trial")
  /\ trials' = Append(trials, [block |-> block, rawFirst |-> Comp])
  /\ todo' = Tail(todo)
  /\ UNCHANGED <<verifyOnly, block, at, buffers, checks, outcome, call>>

\* The block is over; the fsync path's file is unlinked.
EndBlock ==
  /\ Now("end")
  /\ file' = IF PathOf(block) = "fsync" THEN Gone ELSE file
  /\ block' = block + 1 /\ todo' = Tail(todo)
  /\ UNCHANGED <<verifyOnly, at, scr, host, recv, dec, hostFlat, out, checks, trials,
                 outcome, call>>

\* path_summary.json.
Summarise ==
  /\ outcome = "running" /\ ~BlocksLeft /\ todo = << >> /\ ~verifyOnly
  /\ outcome' = "summarised"
  /\ UNCHANGED <<verifyOnly, block, todo, at, buffers, checks, trials, call>>

\* verify_only's exit status: allok over all rows.
Verdict ==
  /\ outcome = "running" /\ ~BlocksLeft /\ todo = << >> /\ verifyOnly
  /\ outcome' = IF \A k \in DOMAIN checks : checks[k] = "ok" THEN "passed" ELSE "failed"
  /\ UNCHANGED <<verifyOnly, block, todo, at, buffers, checks, trials, call>>

Ended == outcome # "running" /\ UNCHANGED vars

Next ==
  \/ Begin \/ StartSerial \/ SerialTensor
  \/ StartPipeline \/ PipelineProducer \/ PipelineConsumer \/ PipelineDevice \/ JoinPipeline
  \/ StartWrite \/ StageTensor \/ EndRun \/ RunRaises
  \/ CheckMoved \/ CheckWritten \/ ComparePerTensor \/ RecordTrial
  \/ EndBlock \/ Summarise \/ Verdict \/ Ended

Spec == Init /\ [][Next]_vars

-----------------------------------------------------------------------------

\* "run an arm, then check what that arm produced": whatever order the pairs were
\* shuffled into, no check reads the other arm's outputs or hands the decoder a
\* raw file; and no output differs from the fresh reference of its own arm.
EveryCheckPasses == \A k \in DOMAIN checks : checks[k] = "ok"

\* "The endpoint is delivery": when a run of the serial or pipelined path ends,
\* GPU1 holds that arm's result for every tensor, through buffers every other
\* path and arm has used; and while it runs it holds nothing of an earlier run.
RunsDeliver ==
  (Now("run") /\ PathOf(block) # "fsync" /\ at > 0) =>
    \A t \in Tensors :
      /\ out[t] \in {Nothing, Shipped(Comp, t)}
      /\ at = NTensors + 1 => out[t] # Nothing

\* The fsync path's staging is shared between arms of different layouts: what one
\* run has staged so far is exactly its own payload's prefix.
StagedPrefix ==
  (Now("run") /\ PathOf(block) = "fsync" /\ at > 0) =>
    LET laid == FlattenSeq([t \in 1..(at - 1) |->
                              [p \in 1..Sizes[Comp][t] |-> Shipped(Comp, t)]])
    IN  SubSeq(hostFlat, 1, Len(laid)) = laid

\* "half the pairs raw-first and half compressed-first": within every finished
\* block the two orders differ by at most one pair, and a summary has them all.
OrdersBalanced ==
  \A b \in 1..(block - 1) :
    LET lead(r) == Cardinality({k \in DOMAIN trials : trials[k] = [block |-> b, rawFirst |-> r]})
    IN  verifyOnly \/
        /\ lead(FALSE) - lead(TRUE) \in 0..1
        /\ lead(FALSE) + lead(TRUE) = PerSegment
=============================================================================
