------------------------------ MODULE Manifest -------------------------------
(***************************************************************************)
(* boundrelay/trace/manifest.py, as its two writers use it: a session saves *)
(* one tensor after another and appends each to manifest.json, which is    *)
(* written anew from the session's memory every time.  A session may be    *)
(* killed anywhere, and the next begins with an empty Manifest over the    *)
(* files that are there.                                                   *)
(***************************************************************************)
EXTENDS Integers, Sequences

CONSTANTS
  N,            \* tensors of a capture
  WritesFirst,  \* does it write the empty manifest first (capture_dryrun)?
  MaxSessions,  \* bound: sessions started
  MaxKills      \* bound: sessions killed

VARIABLES
  pc,       \* "idle", "save", "saving", "append", "write", "ended", "killed", "lost"
  t,        \* the tensor under way
  tensors,  \* self.tensors
  disk,     \* the tensors' files
  mfile,    \* manifest.json
  by,       \* the session that wrote it last
  session, kills

vars == <<pc, t, tensors, disk, mfile, by, session, kills>>

\* What read() makes of a file that is not there, or that was cut short.
Missing == [readable |-> FALSE, of |-> "missing", list |-> << >>]
Cut     == [readable |-> FALSE, of |-> "cut", list |-> << >>]
Json(l) == [readable |-> TRUE, of |-> "json", list |-> l]

Init ==
  /\ pc = "idle" /\ t = 1 /\ tensors = << >>
  /\ disk = [k \in 1..N |-> "absent"] /\ mfile = Missing
  /\ by = 0 /\ session = 0 /\ kills = 0

\* Manifest(...): nothing is read back from an earlier session.
Start ==
  /\ pc \in {"idle", "ended", "killed"} /\ session < MaxSessions
  /\ session' = session + 1 /\ t' = 1 /\ tensors' = << >>
  /\ pc' = IF WritesFirst THEN "append" ELSE "save"
  /\ UNCHANGED <<disk, mfile, by, kills>>

\* torch.save(x, name.pt) ...
OpenTensor ==
  /\ pc = "save" /\ t <= N
  /\ disk' = [disk EXCEPT ![t] = "cut"] /\ pc' = "saving"
  /\ UNCHANGED <<t, tensors, mfile, by, session, kills>>

\* ... to the end of the file; append adds the tensor to the list, ...
CloseTensor ==
  /\ pc = "saving"
  /\ disk' = [disk EXCEPT ![t] = "whole"] /\ pc' = "append"
  /\ tensors' = Append(tensors, t)
  /\ UNCHANGED <<t, mfile, by, session, kills>>

\* ... and write's write_text opens manifest.json, which empties it, ...
Truncate ==
  /\ pc = "append"
  /\ mfile' = Cut /\ by' = session /\ pc' = "write"
  /\ UNCHANGED <<t, tensors, disk, session, kills>>

\* ... and puts the text into it.
WriteText ==
  /\ pc = "write"
  /\ mfile' = Json(tensors) /\ pc' = "save"
  /\ t' = Len(tensors) + 1
  /\ UNCHANGED <<tensors, disk, by, session, kills>>

\* capture_dryrun reads its manifest back and counts.
End ==
  /\ pc = "save" /\ t = N + 1
  /\ pc' = IF WritesFirst /\ Len(mfile.list) # N THEN "lost" ELSE "ended"
  /\ UNCHANGED <<t, tensors, disk, mfile, by, session, kills>>

Kill ==
  /\ pc \in {"save", "saving", "append", "write"} /\ kills < MaxKills
  /\ pc' = "killed" /\ kills' = kills + 1 /\ tensors' = << >>
  /\ UNCHANGED <<t, disk, mfile, by, session>>

Finished == pc \in {"ended", "killed", "lost"} /\ session = MaxSessions /\ UNCHANGED vars

Next ==
  \/ Start \/ OpenTensor \/ CloseTensor \/ Truncate \/ WriteText \/ End \/ Kill
  \/ Finished

Spec == Init /\ [][Next]_vars

-----------------------------------------------------------------------------

\* "A session that dies at minute 50 keeps everything up to minute 49"; append is
\* "Crash-safe by construction": a killed session that had tensors on its manifest
\* leaves one that can be read.
SurvivesKill == (pc = "killed" /\ by = session /\ t > 1) => mfile.readable
=============================================================================
