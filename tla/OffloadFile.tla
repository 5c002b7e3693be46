----------------------------- MODULE OffloadFile -----------------------------
(***************************************************************************)
(* scripts/fsync_offload.py: main writes each arm's payload (the raw cache *)
(* or its compressed form) to a file again and again -- a verified pass, a *)
(* warm one, Reps timed ones -- under several write configurations, then   *)
(* removes the file.  A write reaches the page cache; the filesystem puts  *)
(* pages on the disk when it likes and must have done so when fsync        *)
(* returns.  pwrite may take fewer bytes than it was given, a call may     *)
(* fail, and the machine may stop at any point.                            *)
(***************************************************************************)
EXTENDS Integers, SequencesExt, FiniteSetsExt

CONSTANTS
  Sizes,      \* Sizes[arm]: the bytes (in pages) of each tensor, in order
  Configs,    \* the write configurations, in order: [perTensor, fsync]
  Reps,       \* timed offloads of each arm in each configuration
  Faults      \* may a call fail, and may the machine stop?

Arms == {"raw", "compressed"}

ASSUME OffloadAssumption ==
  /\ Sizes \in [Arms -> Seq(Nat \ {0})]
  /\ Len(Sizes["raw"]) = Len(Sizes["compressed"]) /\ Sizes["raw"] # << >>
  /\ Configs \in Seq([perTensor : BOOLEAN, fsync : BOOLEAN]) /\ Configs # << >>
  /\ Reps \in Nat \ {0}
  /\ Faults \in BOOLEAN

NTensors == Len(Sizes["raw"])

\* offsets: where each tensor starts in the file, and, last, the total.
Offsets(arm) ==
  LET acc[t \in 1..(NTensors + 1)] ==
        IF t = 1 THEN 0 ELSE acc[t - 1] + Sizes[arm][t - 1]
  IN  acc

Total(arm) == Offsets(arm)[NTensors + 1]

\* A page of an arm's payload, and a page of zeroes.
Page(arm, t, k) == [arm |-> arm, tensor |-> t, page |-> k]
Hole == [arm |-> "none", tensor |-> 0, page |-> 0]

\* What the file has to hold: the tensors one after another.
Payload(arm) ==
  FlattenSeq([t \in 1..NTensors |->
                [k \in 1..Sizes[arm][t] |-> Page(arm, t, k)]])

VARIABLES
  pc,         \* where offload, verify and main stand
  config,     \* index of the configuration under way
  arm,        \* the arm under way
  round,      \* 0 the verified pass, 1 the warm one, then the timed ones
  staged,     \* staged[arm]: host_raw and host_cmp
  call, pos,  \* the write call under way and how much of it is placed
  cached,     \* the file as the running system sees it
  disk,       \* the file as it would be found after the machine stops
  acked,      \* the arm whose offload last returned, if nothing began since
  rows        \* the rows main has recorded: configurations and arms

vars == <<pc, config, arm, round, staged, call, pos, cached, disk, acked, rows>>

Running == pc \notin {"stopped", "raised", "done"}

Gone == << >>                     \* no file, or an empty one

Init ==
  /\ pc = "preallocate" /\ config = 1 /\ arm = "raw" /\ round = 0
  /\ staged = [a \in Arms |-> [p \in 1..Total(a) |-> Hole]]
  /\ call = 1 /\ pos = 0
  /\ cached = Gone /\ disk = Gone
  /\ acked = "none" /\ rows = << >>

-----------------------------------------------------------------------------
(* offload                                                                  *)

\* open(path, "wb") and truncate(total): a file of zeroes.
Preallocate ==
  /\ pc = "preallocate"
  /\ cached' = [p \in 1..Total(arm) |-> Hole]
  /\ acked' = "none"
  /\ pc' = "stage"
  /\ UNCHANGED <<config, arm, round, staged, call, pos, disk, rows>>

\* The tensor that a position of the host buffer was last copied from.
Owner(p) == Max({t \in 1..NTensors : Offsets(arm)[t] < p})

\* Encode (or take) each tensor and copy it to its offset in host memory.
Stage ==
  /\ pc = "stage"
  /\ staged' = [staged EXCEPT ![arm] =
       [p \in 1..Total(arm) |-> Page(arm, Owner(p), p - Offsets(arm)[Owner(p)])]]
  /\ pc' = "write" /\ call' = 1 /\ pos' = 0
  /\ UNCHANGED <<config, arm, round, cached, disk, acked, rows>>

\* The calls the payload is issued in: one per tensor, or one for all.
Calls == IF Configs[config].perTensor THEN NTensors ELSE 1
CallStart ==
  IF Configs[config].perTensor THEN Offsets(arm)[call] ELSE 0
CallLength ==
  IF Configs[config].perTensor THEN Sizes[arm][call] ELSE Total(arm)

\* Faulty: the rest of a call is not placed.
CallOver == pos > 0

\* while view: something of the call is still to be placed.
CallPlaced == pos = CallLength

\* Faulty: the view is not advanced.
NotAdvanced(k) == pos

\* view = view[wrote:]
Advanced(k) == pos + k

\* write_all: one pwrite, which takes some of what is left.
Pwrite ==
  /\ pc = "write" /\ call <= Calls /\ ~CallPlaced
  /\ \E k \in 1..(CallLength - pos) :
       /\ cached' = [p \in DOMAIN cached |->
                       IF p \in (CallStart + pos + 1)..(CallStart + pos + k)
                       THEN staged[arm][p] ELSE cached[p]]
       /\ pos' = Advanced(k)
  /\ UNCHANGED <<pc, config, arm, round, staged, call, disk, acked, rows>>

\* write_all returns; the next tensor's call, if any.
NextCall ==
  /\ pc = "write" /\ call <= Calls /\ CallPlaced
  /\ call' = call + 1 /\ pos' = 0
  /\ pc' = IF call < Calls THEN "write"
           ELSE IF Configs[config].fsync THEN "fsync" ELSE "close"
  /\ UNCHANGED <<config, arm, round, staged, cached, disk, acked, rows>>

\* Faulty: the acknowledgement does not wait for the disk.
Flushed(file) == disk

\* os.fsync(fd): what the disk holds when it returns.
Synced(file) == file

Fsync ==
  /\ pc = "fsync"
  /\ disk' = Synced(cached)
  /\ pc' = "close"
  /\ UNCHANGED <<config, arm, round, staged, call, pos, cached, acked, rows>>

\* os.close(fd) and the return: the write is acknowledged.
Close ==
  /\ pc = "close"
  /\ acked' = arm
  /\ pc' = IF round = 0 THEN "verify" ELSE "returned"
  /\ UNCHANGED <<config, arm, round, staged, call, pos, cached, disk, rows>>

-----------------------------------------------------------------------------
(* verify and main                                                          *)

\* Every tensor of the file, read at its offset, is the tensor that was sent:
\* byte for byte, or within its bound after decoding.
ReadsBack(a) ==
  /\ Len(cached) = Total(a)
  /\ \A t \in 1..NTensors : \A k \in 1..Sizes[a][t] :
       cached[Offsets(a)[t] + k] = Page(a, t, k)

\* The verified pass: SystemExit if the payload did not read back.
Verify ==
  /\ pc = "verify"
  /\ pc' = IF ReadsBack(arm) THEN "returned" ELSE "raised"
  /\ UNCHANGED <<config, arm, round, staged, call, pos, cached, disk, acked, rows>>

\* Faulty: the file is left behind.
Left == cached

\* The verified and the warm pass, then the timed ones.
LastRound == Reps + 1

\* p.unlink()
Unlinked == Gone

\* The next pass over the same file.
NextRound ==
  /\ pc = "returned" /\ round < LastRound
  /\ round' = round + 1
  /\ pc' = "preallocate"
  /\ UNCHANGED <<config, arm, staged, call, pos, cached, disk, acked, rows>>

\* The arm's row is recorded and its file unlinked; the other arm follows, then
\* the next configuration.
NextArm ==
  /\ pc = "returned" /\ round = LastRound
  /\ rows' = Append(rows, [config |-> config, arm |-> arm])
  /\ cached' = Unlinked /\ acked' = "none" /\ round' = 0
  /\ IF arm = "raw"
     THEN arm' = "compressed" /\ config' = config /\ pc' = "preallocate"
     ELSE /\ arm' = "raw"
          /\ IF config < Len(Configs)
             THEN config' = config + 1 /\ pc' = "preallocate"
             ELSE config' = config /\ pc' = "done"
  /\ UNCHANGED <<staged, call, pos, disk>>

Program ==
  \/ Preallocate \/ Stage \/ Pwrite \/ NextCall \/ Fsync \/ Close
  \/ Verify \/ NextRound \/ NextArm

-----------------------------------------------------------------------------
(* The filesystem and the machine.                                          *)

\* A page reaches the disk, with the file's current length.
WriteBack ==
  /\ Running /\ disk # cached
  /\ \E p \in 0..Len(cached) :
       disk' = [q \in 1..Len(cached) |->
                  IF q = p THEN cached[q]
                  ELSE IF q <= Len(disk) THEN disk[q] ELSE Hole]
  /\ UNCHANGED <<pc, config, arm, round, staged, call, pos, cached, acked, rows>>

\* The encode does not give the size it was laid out for, pwrite or fsync fails,
\* or a pwrite takes nothing: an exception, past main.
CallFails ==
  /\ Faults /\ pc \in {"stage", "write", "fsync"}
  /\ pc' = "raised"
  /\ UNCHANGED <<config, arm, round, staged, call, pos, cached, disk, acked, rows>>

\* Power or node loss: only the disk is left.
Stops ==
  /\ Faults /\ Running
  /\ cached' = disk
  /\ pc' = "stopped"
  /\ UNCHANGED <<config, arm, round, staged, call, pos, disk, acked, rows>>

Ended == ~Running /\ UNCHANGED vars

Next == Program \/ WriteBack \/ CallFails \/ Stops \/ Ended

\* One thread runs the program; neither write-back nor a fault is owed.
Spec == Init /\ [][Next]_vars /\ WF_vars(Program)

-----------------------------------------------------------------------------

\* "fsync-acknowledged offload write": once offload has returned, and until the
\* next one touches the file, the whole payload is on the disk, so the machine may
\* stop at any moment without losing a page of it.
AckedIsDurable ==
  acked # "none" /\ Configs[config].fsync => disk = Payload(acked)

\* write_all's "loop until the payload is placed": no pass returns over a file with
\* a hole in it or a tensor out of place, however pwrite splits the calls, and the
\* timed passes are not read back to find out.
ReturnedIsWhole == pc \in {"verify", "returned"} => cached = Payload(arm)

\* main's table: when it gets to the end, both arms of every configuration have
\* their row, raw first, and nothing is left behind under the file's name.
TableIsComplete ==
  pc = "done" =>
    /\ Len(rows) = 2 * Len(Configs) /\ cached = Gone
    /\ \A r \in DOMAIN rows :
         rows[r] = [config |-> (r + 1) \div 2,
                    arm |-> IF r % 2 = 1 THEN "raw" ELSE "compressed"]

\* Short writes cannot keep write_all looping: the program ends.
Terminates == <>~Running
=============================================================================
