------------------------------ MODULE Session -------------------------------
(***************************************************************************)
(* The session scripts of a pod: scripts/run_protocol_session.sh and       *)
(* scripts/run_verify_session.sh, with the bring-up, the corpus capture    *)
(* (scripts/capture_corpus.py) and what validate_reuse.py takes from the   *)
(* corpus.  A session may be killed at any point and a script started      *)
(* again over what is left on the volume.                                  *)
(***************************************************************************)
EXTENDS Integers, Sequences, Functions

CONSTANTS
  Files,        \* tensors of a cache (56 for the model the study uses)
  Scripts,      \* the scripts an operator may start
  MaxSessions,  \* bound: sessions started
  MaxCrashes    \* bound: sessions killed

ASSUME SessionAssumption ==
  /\ Files \in Nat \ {0}
  /\ Scripts \subseteq {"protocol", "verify"}
  /\ MaxSessions \in Nat /\ MaxCrashes \in Nat

\* The four caches in the order they are captured: two documents, each at two
\* lengths.  The name of the last is what the scripts look for.
Caches   == 1..4
DocOf(i) == (i + 1) \div 2
LastCache == 4

Absent == [dir |-> FALSE, files |-> [f \in 1..Files |-> "absent"]]

VARIABLES
  short,     \* documents with fewer tokens than the longest length asked for
  repo,      \* /workspace/cuSZp
  lib,       \* has libcuSZp.so been built?
  env,       \* the session whose environment.json is on the volume, 0 for none
  caches,    \* the corpus
  script, session,  \* the script under way and its number
  todo,      \* its steps to come
  at,        \* where in the step it is
  writing,   \* capture: the cache under way and its tensor
  b0,        \* what B0's exit status was
  outcome,   \* "idle" before the first, "running", "complete", "exit", "killed"
  crashes,
  results    \* what the runs of the sessions left in out/

volume == <<short, repo, lib, env, caches>>
vars == <<volume, script, session, todo, at, writing, b0, outcome, crashes, results>>

Init ==
  /\ short \in SUBSET {1, 2}
  /\ repo = "absent" /\ lib = FALSE /\ env = 0
  /\ caches = [i \in Caches |-> Absent]
  /\ script \in Scripts /\ session = 0 /\ todo = << >> /\ at = "start" /\ writing = <<0, 0>>
  /\ b0 = "none" /\ outcome = "idle" /\ crashes = 0 /\ results = {}

-----------------------------------------------------------------------------

Program(s) ==
  IF s = "protocol"
  THEN <<"env", "capture", "b0", "b1", "b2">>
  ELSE <<"env", "env", "capture", "b0", "depth1", "depth8", "alignment">>

Start ==
  /\ outcome # "running" /\ session < MaxSessions
  /\ script' \in Scripts
  /\ session' = session + 1 /\ todo' = Program(script') /\ at' = "start"
  /\ b0' = "none" /\ writing' = <<0, 0>> /\ outcome' = "running"
  /\ UNCHANGED <<volume, crashes, results>>

In(step, where) ==
  outcome = "running" /\ todo # << >> /\ Head(todo) = step /\ at = where

NextStep == todo' = Tail(todo) /\ at' = "start" /\ outcome' = "running"
Exit     == todo' = << >> /\ at' = "start" /\ outcome' = "exit"

\* Faulty: `| tail' swallows what B0 returned.
StepFailsButB0 ==
  IF script = "protocol" /\ Head(todo) \in {"env", "capture"} THEN Exit ELSE NextStep

\* Faulty: no `|| exit 1' after the bring-up.
StepFailsButEnv ==
  IF script = "protocol" /\ Head(todo) \in {"capture", "b0"} THEN Exit ELSE NextStep

\* A step failed.  The protocol session exits when its bring-up, its capture or
\* B0 does; the verify session has no `|| exit' anywhere.
StepFails ==
  IF script = "protocol" /\ Head(todo) \in {"env", "capture", "b0"} THEN Exit ELSE NextStep

-----------------------------------------------------------------------------
(* bringup_protocol_session.sh, under set -e.                               *)

\* A directory is enough for the clone to be skipped.
BeginClone ==
  /\ In("env", "start")
  /\ repo' = IF repo = "absent" THEN "partial" ELSE repo
  /\ at' = IF repo = "absent" THEN "clone" ELSE "build"
  /\ UNCHANGED <<short, lib, env, caches, script, session, todo, writing, b0,
                 outcome, crashes, results>>

\* git removes what it has cloned when it fails.
EndClone ==
  /\ In("env", "clone")
  /\ \/ /\ repo' = "whole" /\ at' = "build"
        /\ UNCHANGED <<todo, outcome>>
     \/ /\ repo' = "absent" /\ StepFails
  /\ UNCHANGED <<short, lib, env, caches, script, session, writing, b0, crashes, results>>

\* git rev-parse, cmake, the build and `test -f'.
Build ==
  /\ In("env", "build")
  /\ \/ /\ repo = "whole" /\ lib' = TRUE /\ at' = "record"
        /\ UNCHANGED <<todo, outcome>>
     \/ /\ lib' = lib /\ StepFails
  /\ UNCHANGED <<short, repo, env, caches, script, session, writing, b0, crashes, results>>

\* environment.json; what it imports may be missing.
Record ==
  /\ In("env", "record")
  /\ \/ env' = session /\ NextStep
     \/ env' = env /\ StepFails
  /\ UNCHANGED <<short, repo, lib, caches, script, session, writing, b0, crashes, results>>

-----------------------------------------------------------------------------
(* The capture.                                                             *)

\* Faulty: the first cache captured is what is looked for.
FirstPresent == caches[1].dir

\* [ -d "$CORP/fullcache_d01_L2048" ]
CapturePresent == caches[LastCache].dir

Captured(i) == DocOf(i) \notin short

\* Faulty: a cache whose directory is there is taken as captured.
NextMissing(i) == CHOOSE j \in i..(LastCache + 1) :
                    /\ j = LastCache + 1 \/ (Captured(j) /\ ~caches[j].dir)
                    /\ \A k \in i..(j - 1) : ~Captured(k) \/ caches[k].dir

\* Faulty: begins again when it is through.
NextAround(i) == IF i > LastCache THEN 1 ELSE i

\* The next cache whose document is not skipped.
NextCache(i) == CHOOSE j \in i..(LastCache + 1) :
                  /\ j = LastCache + 1 \/ Captured(j)
                  /\ \A k \in i..(j - 1) : ~Captured(k)

BeginCapture ==
  /\ In("capture", "start")
  /\ IF CapturePresent
     THEN NextStep /\ writing' = <<0, 0>>
     ELSE /\ at' = "prefill" /\ writing' = <<NextCache(1), 1>>
          /\ UNCHANGED <<todo, outcome>>
  /\ UNCHANGED <<volume, script, session, b0, crashes, results>>

\* The prefill, then the directory, ...
MakeDirectory ==
  /\ In("capture", "prefill") /\ writing[1] \in Caches
  /\ caches' = [caches EXCEPT ![writing[1]].dir = TRUE]
  /\ at' = "open"
  /\ UNCHANGED <<short, repo, lib, env, script, session, todo, writing, b0,
                 outcome, crashes, results>>

\* ... then one torch.save after another, each over whatever an earlier capture
\* left there.
OpenTensor ==
  /\ In("capture", "open")
  /\ caches' = [caches EXCEPT ![writing[1]].files[writing[2]] = "torn"]
  /\ at' = "write"
  /\ UNCHANGED <<short, repo, lib, env, script, session, todo, writing, b0,
                 outcome, crashes, results>>

CloseTensor ==
  /\ In("capture", "write")
  /\ caches' = [caches EXCEPT ![writing[1]].files[writing[2]] = "whole"]
  /\ IF writing[2] < Files
     THEN at' = "open" /\ writing' = <<writing[1], writing[2] + 1>>
     ELSE at' = "prefill" /\ writing' = <<NextCache(writing[1] + 1), 1>>
  /\ UNCHANGED <<short, repo, lib, env, script, session, todo, b0, outcome, crashes,
                 results>>

EndCapture ==
  /\ In("capture", "prefill") /\ writing[1] \notin Caches
  /\ NextStep /\ writing' = <<0, 0>>
  /\ UNCHANGED <<volume, script, session, b0, crashes, results>>

\* Out of memory, out of disk, too few articles.
CaptureRaises ==
  /\ In("capture", "prefill") \/ In("capture", "write")
  /\ StepFails /\ writing' = <<0, 0>>
  /\ UNCHANGED <<volume, script, session, b0, crashes, results>>

-----------------------------------------------------------------------------
(* B0 and what follows it.                                                  *)

\* load_cache takes the tensors a directory has -- none, if there is no
\* directory -- and torch.load raises on one that was not written to its end.
Loads(corpus) == \A i \in Caches, f \in 1..Files : corpus[i].files[f] # "torn"

\* The negative tests take the first tensor of the first cache.
HasFirst(corpus) == \E f \in 1..Files : corpus[1].files[f] # "absent"

Result(step, verdict) ==
  [session |-> session, script |-> script, step |-> step, verdict |-> verdict,
   env |-> env, corpus |-> caches]

B0 ==
  /\ In("b0", "start")
  /\ \/ /\ lib /\ Loads(caches) /\ HasFirst(caches)
        /\ b0' = "passed" /\ results' = results \union {Result("b0", "passed")}
        /\ NextStep
     \/ b0' = "failed" /\ results' = results /\ StepFails
  /\ UNCHANGED <<volume, script, session, writing, crashes>>

\* The codec for all but the scoring diagnostic; a corpus without an empty cache
\* for B2 and the two-device check, which size their buffers from each.
Ready(step) ==
  /\ step # "alignment" => lib
  /\ step \in {"b2", "depth1", "depth8"} =>
       Loads(caches) /\ \A i \in Caches : \E f \in 1..Files : caches[i].files[f] # "absent"

\* B1, B2 and the verify session's checks.  Each may fail, and the script goes on.

Measure(step) ==
  /\ In(step, "start")
  /\ \/ /\ Ready(step)
        /\ results' = results \union {Result(step, "done")}
     \/ results' = results
  /\ NextStep
  /\ UNCHANGED <<volume, script, session, writing, b0, crashes>>

Complete ==
  /\ outcome = "running" /\ todo = << >>
  /\ outcome' = "complete"
  /\ UNCHANGED <<volume, script, session, todo, at, writing, b0, crashes, results>>

\* The pod, the shell or the process dies.
Killed ==
  /\ outcome = "running" /\ crashes < MaxCrashes
  /\ crashes' = crashes + 1 /\ outcome' = "killed"
  /\ todo' = << >> /\ at' = "start" /\ writing' = <<0, 0>>
  /\ UNCHANGED <<volume, script, session, b0, results>>

Step ==
  \/ BeginClone \/ EndClone \/ Build \/ Record
  \/ BeginCapture \/ MakeDirectory \/ OpenTensor \/ CloseTensor \/ EndCapture
  \/ CaptureRaises \/ B0
  \/ \E step \in {"b1", "b2", "depth1", "depth8", "alignment"} : Measure(step)
  \/ Complete

Finished == outcome # "running" /\ session = MaxSessions /\ UNCHANGED vars

Next == Start \/ Step \/ Killed \/ Finished

\* Every command of a script returns or is killed.
Spec == Init /\ [][Next]_vars /\ WF_vars(Step)

-----------------------------------------------------------------------------

\* "B0 gates the other two": whatever earlier sessions left on the volume, a B1 or
\* B2 of a protocol session stands beside a B0 that passed in that session, on the
\* very corpus that was there when it was measured.
GateHeld ==
  \A r \in results :
    (r.script = "protocol" /\ r.step \in {"b1", "b2"}) =>
      \E g \in results : /\ g.session = r.session /\ g.step = "b0"
                         /\ g.verdict = "passed" /\ g.corpus = r.corpus

Whole(corpus, i) == \A f \in 1..Files : corpus[i].files[f] = "whole"

\* Looking for the last directory is enough for all the caches before it: once it
\* is there, they are whole, through every kill and every capture begun again.
LastMeansEarlierWhole ==
  caches[LastCache].dir => \A i \in 1..(LastCache - 1) : Captured(i) => Whole(caches, i)

\* What a B0 that passed in a protocol session can have missed is a document too
\* short to be captured, or the rest of the last cache -- never a half-written
\* tensor, never another cache.
GateMissesOnlyLast ==
  \A r \in results :
    (r.script = "protocol" /\ r.step = "b0") =>
      /\ \A i \in Caches, f \in 1..Files : r.corpus[i].files[f] # "torn"
      /\ \A i \in Caches : Whole(r.corpus, i) \/ ~Captured(i) \/ i = LastCache

\* A protocol session's results carry the environment of the machine they were
\* taken on, not that of a session before.
EnvironmentIsOwn ==
  \A r \in results : r.script = "protocol" => r.env = r.session

\* A session that is not killed comes to an end.
SessionEnds == (outcome = "running") ~> (outcome # "running")

-----------------------------------------------------------------------------

\* freeze_manifest.py freezes B0 as "2 dev docs x {1024, 2048} tokens" with
\* "tensors_per_cache": 56: a B0 that passed has judged all of every cache whose
\* document was captured.
GateCoversCorpus ==
  \A r \in results :
    r.step = "b0" => \A i \in Caches : Captured(i) => Whole(r.corpus, i)
=============================================================================
