----------------------------- MODULE StudyProofs ------------------------------
(***************************************************************************)
(* The scripts that run the study and draw conclusions from it.            *)
(*                                                                         *)
(* Session: what a session may rely on, for any number of tensors in a     *)
(* cache, of sessions of either script and of kills.  The claims about     *)
(* results rest on where a protocol session stands (ProtocolInv), and that *)
(* on what a capture has written so far (CaptureInv).                      *)
(*                                                                         *)
(* Policy: its properties for every table of payloads, margins and         *)
(* bandwidths.  Neither is inductive as it stands: what a decision is      *)
(* worth depends on the loop that made it, and that loop looks at one      *)
(* candidate at a time.                                                    *)
(*                                                                         *)
(*   LoopInv   the best so far is the first of the best of those looked at *)
(*   RowInv    the two choices, once made, are the best of all candidates  *)
(*   CountInv  the counts are of the rows gone through                     *)
(*                                                                         *)
(* Sz3Scan: every written result is a fair handicap.  ScanInv says which   *)
(* rows and summaries there are at each point of the loops (RowsBefore,    *)
(* Summaries); the rows of one corpus, view and c are then a full table of *)
(* ratios (Full), and what the analysis makes of such a table is proved    *)
(* from lemmas about sums over finite sets (Sum).                          *)
(***************************************************************************)
EXTENDS Session, Policy, Sz3Scan, LayoutProofs


\* What is left of a protocol session.
ToEnv     == <<"env", "capture", "b0", "b1", "b2">>
ToCapture == <<"capture", "b0", "b1", "b2">>
ToB0      == <<"b0", "b1", "b2">>
ToB1      == <<"b1", "b2">>
ToB2      == <<"b2">>

\* Each step of a protocol session leads to the next.
LEMMA ProgramOrder ==
  /\ Program("protocol") = ToEnv
  /\ Head(ToEnv) = "env" /\ Tail(ToEnv) = ToCapture /\ ToEnv # << >>
  /\ Head(ToCapture) = "capture" /\ Tail(ToCapture) = ToB0 /\ ToCapture # << >>
  /\ Head(ToB0) = "b0" /\ Tail(ToB0) = ToB1 /\ ToB0 # << >>
  /\ Head(ToB1) = "b1" /\ Tail(ToB1) = ToB2 /\ ToB1 # << >>
  /\ Head(ToB2) = "b2" /\ Tail(ToB2) = << >> /\ ToB2 # << >>
  BY DEF Program, ToEnv, ToCapture, ToB0, ToB1, ToB2

-----------------------------------------------------------------------------

Corpora == [Caches -> [dir : BOOLEAN, files : [1..Files -> {"absent", "torn", "whole"}]]]

CorpusInv == caches \in Corpora

\* A capture is under way.
Capturing ==
  /\ outcome = "running" /\ todo # << >> /\ Head(todo) = "capture"
  /\ at \in {"prefill", "open", "write"}

\* What a capture has behind it is whole, and the directory the scripts look for
\* is not made before its turn.
CaptureInv ==
  Capturing =>
    /\ writing \in (1..(LastCache + 1)) \X (1..Files)
    /\ \A i \in Caches : i < writing[1] /\ Captured(i) => Whole(caches, i)
    /\ at = "prefill" => writing[2] = 1
    /\ at # "prefill" =>
         /\ writing[1] \in Caches
         /\ \A f \in 1..Files :
              f < writing[2] => caches[writing[1]].files[f] = "whole"
    /\ writing[1] < LastCache => ~caches[LastCache].dir

Earlier == \A i \in 1..(LastCache - 1) : Captured(i) => Whole(caches, i)

Running(left) == outcome = "running" /\ script = "protocol" /\ todo \in left

\* Where a protocol session stands says what it has behind it.
ProtocolInv ==
  /\ (outcome = "running" /\ script = "protocol") =>
       todo \in {ToEnv, ToCapture, ToB0, ToB1, ToB2, << >>}
  /\ Running({ToCapture, ToB0, ToB1, ToB2}) => env = session
  /\ Running({ToB0, ToB1, ToB2}) => Earlier
  /\ Running({ToB1, ToB2}) =>
       \E g \in results : /\ g.session = session /\ g.step = "b0"
                          /\ g.verdict = "passed" /\ g.corpus = caches

ResultsInv == GateHeld /\ GateMissesOnlyLast /\ EnvironmentIsOwn

-----------------------------------------------------------------------------
(* A lemma about the capture.                                                *)

\* NextCache finds a cache to capture, or the end, and passes over none.
LEMMA NextCacheFound ==
  ASSUME NEW i \in 1..(LastCache + 1)
  PROVE  /\ NextCache(i) \in i..(LastCache + 1)
         /\ \A h \in i..(NextCache(i) - 1) : ~Captured(h)
<1> DEFINE Ok(n, j) == /\ j = LastCache + 1 \/ Captured(j)
                       /\ \A h \in n..(j - 1) : ~Captured(h)
<1>1. \A n \in 1..(LastCache + 1) : Captured(n) => Ok(n, n)
  BY DEF LastCache
<1>2. Ok(LastCache + 1, LastCache + 1)
  BY DEF LastCache
<1>3. ASSUME NEW n \in 1..LastCache, \E j \in (n + 1)..(LastCache + 1) : Ok(n + 1, j)
      PROVE  \E j \in n..(LastCache + 1) : Ok(n, j)
  <2>1. CASE Captured(n)
    BY <2>1, <1>1 DEF LastCache
  <2>2. CASE ~Captured(n)
    <3>1. PICK j \in (n + 1)..(LastCache + 1) : Ok(n + 1, j)
      BY <1>3
    <3>2. \A h \in n..(j - 1) : h = n \/ h \in (n + 1)..(j - 1)
      BY DEF LastCache
    <3>3. Ok(n, j)
      BY <2>2, <3>1, <3>2
    <3>. QED BY <3>3 DEF LastCache
  <2>. QED BY <2>1, <2>2
<1> HIDE DEF Ok
<1>4. \E j \in i..(LastCache + 1) : Ok(i, j)
  <2>1. \E j \in 5..5 : Ok(5, j)
    BY <1>2 DEF LastCache
  <2>2. \E j \in 4..5 : Ok(4, j)
    BY <2>1, <1>3 DEF LastCache
  <2>3. \E j \in 3..5 : Ok(3, j)
    BY <2>2, <1>3 DEF LastCache
  <2>4. \E j \in 2..5 : Ok(2, j)
    BY <2>3, <1>3 DEF LastCache
  <2>5. \E j \in 1..5 : Ok(1, j)
    BY <2>4, <1>3 DEF LastCache
  <2>6. i = 1 \/ i = 2 \/ i = 3 \/ i = 4 \/ i = 5
    BY DEF LastCache
  <2>. QED BY <2>1, <2>2, <2>3, <2>4, <2>5, <2>6 DEF LastCache
<1>5. NextCache(i) = CHOOSE j \in i..(LastCache + 1) : Ok(i, j)
  BY DEF NextCache, Ok
<1>6. NextCache(i) \in i..(LastCache + 1) /\ Ok(i, NextCache(i))
  BY <1>4, <1>5
<1>. QED BY <1>6 DEF Ok
-----------------------------------------------------------------------------
(* What a capture has written.                                              *)

\* Only three actions touch the corpus, and only the beginning of a capture and
\* its own steps leave one under way.
LEMMA OutsideCapture ==
  ASSUME \/ Start \/ BeginClone \/ EndClone \/ Build \/ Record \/ EndCapture \/ CaptureRaises
         \/ B0 \/ (\E step \in {"b1", "b2", "depth1", "depth8", "alignment"} : Measure(step))
         \/ Complete \/ Killed
  PROVE  ~Capturing' /\ UNCHANGED <<short, caches>>
<1>1. CASE Start
  BY <1>1 DEF Start, Capturing, volume
<1>2. CASE BeginClone
  BY <1>2 DEF BeginClone, Capturing
<1>3. CASE EndClone
  BY <1>3 DEF EndClone, Capturing, StepFails, NextStep, Exit
<1>4. CASE Build
  BY <1>4 DEF Build, Capturing, StepFails, NextStep, Exit
<1>5. CASE Record
  BY <1>5 DEF Record, Capturing, StepFails, NextStep, Exit
<1>6. CASE EndCapture
  BY <1>6 DEF EndCapture, Capturing, NextStep, volume
<1>7. CASE CaptureRaises
  BY <1>7 DEF CaptureRaises, Capturing, StepFails, NextStep, Exit, volume
<1>8. CASE B0
  BY <1>8 DEF B0, Capturing, StepFails, NextStep, Exit, volume
<1>9. ASSUME NEW step, Measure(step)
      PROVE  ~Capturing' /\ UNCHANGED <<short, caches>>
  BY <1>9 DEF Measure, Capturing, NextStep, volume
<1>10. CASE Complete
  BY <1>10 DEF Complete, Capturing, volume
<1>11. CASE Killed
  BY <1>11 DEF Killed, Capturing, volume
<1>. QED BY <1>1, <1>2, <1>3, <1>4, <1>5, <1>6, <1>7, <1>8, <1>9, <1>10, <1>11

CorpusSafe == CorpusInv /\ CaptureInv /\ LastMeansEarlierWhole

LEMMA CorpusSafeInit == Init => CorpusSafe
<1> SUFFICES ASSUME Init PROVE CorpusSafe
  OBVIOUS
<1>1. CorpusInv
  BY DEF Init, CorpusInv, Corpora, Absent
<1>2. ~Capturing
  BY DEF Init, Capturing
<1>3. ~caches[LastCache].dir
  BY DEF Init, Absent, LastCache, Caches
<1>. QED BY <1>1, <1>2, <1>3 DEF CorpusSafe, CaptureInv, LastMeansEarlierWhole

LEMMA CorpusSafeUntouched ==
  ASSUME CorpusSafe, ~Capturing', UNCHANGED <<short, caches>>
  PROVE  CorpusSafe'
  BY DEF CorpusSafe, CorpusInv, CaptureInv, LastMeansEarlierWhole, Captured, Whole

LEMMA CorpusSafeBegin ==
  ASSUME CorpusSafe, BeginCapture
  PROVE  CorpusSafe'
<1>1. UNCHANGED <<short, caches>>
  BY DEF BeginCapture, volume
<1>2. CASE CapturePresent
  <2>1. ~Capturing'
    BY <1>2 DEF BeginCapture, NextStep, Capturing
  <2>. QED BY <2>1, <1>1, CorpusSafeUntouched
<1>3. CASE ~CapturePresent
  <2>1. at' = "prefill" /\ writing' = <<NextCache(1), 1>> /\ ~caches[LastCache].dir
    BY <1>3 DEF BeginCapture, CapturePresent
  <2>2. NextCache(1) \in 1..(LastCache + 1) /\ \A h \in 1..(NextCache(1) - 1) : ~Captured(h)
    BY NextCacheFound DEF LastCache
  <2>3. CorpusInv' /\ LastMeansEarlierWhole'
    BY <1>1, <2>1 DEF CorpusSafe, CorpusInv, LastMeansEarlierWhole
  <2>4. writing' \in (1..(LastCache + 1)) \X (1..Files) /\ writing[1]' = NextCache(1) /\ writing[2]' = 1
    BY <2>1, <2>2, SessionAssumption
  <2>5. \A i \in Caches : i < NextCache(1) => ~Captured(i)
    BY <2>2 DEF Caches, LastCache
  <2>6. \A i \in Caches : i < NextCache(1) => ~Captured(i)'
    BY <2>5, <1>1 DEF Captured
  <2>7. CaptureInv'
    BY <1>1, <2>1, <2>4, <2>6 DEF CaptureInv
  <2>. QED BY <2>3, <2>7 DEF CorpusSafe
<1>. QED BY <1>2, <1>3
\* What holds whenever a step of a capture is taken.
LEMMA WhileCapturing ==
  ASSUME CorpusSafe, NEW where \in {"prefill", "open", "write"}, In("capture", where)
  PROVE  /\ Capturing /\ at = where
         /\ writing \in (1..(LastCache + 1)) \X (1..Files)
         /\ \A i \in Caches : i < writing[1] /\ Captured(i) => Whole(caches, i)
         /\ where # "prefill" =>
              /\ writing[1] \in Caches
              /\ \A f \in 1..Files :
                   f < writing[2] => caches[writing[1]].files[f] = "whole"
         /\ writing[1] < LastCache => ~caches[LastCache].dir
<1>1. Capturing /\ at = where
  BY DEF In, Capturing
<1>. QED BY <1>1 DEF CorpusSafe, CaptureInv

LEMMA CorpusSafeDirectory ==
  ASSUME CorpusSafe, MakeDirectory
  PROVE  CorpusSafe'
<1>1. In("capture", "prefill") /\ writing[1] \in Caches /\ at' = "open"
  BY DEF MakeDirectory
<1>2. UNCHANGED <<short, writing>>
  BY DEF MakeDirectory
<1>3. /\ writing \in (1..(LastCache + 1)) \X (1..Files)
      /\ \A i \in Caches : i < writing[1] /\ Captured(i) => Whole(caches, i)
      /\ writing[1] < LastCache => ~caches[LastCache].dir
      /\ writing[2] = 1
  BY <1>1, WhileCapturing DEF CorpusSafe, CaptureInv
<1>4. /\ caches' \in Corpora
      /\ \A j \in Caches : caches'[j].files = caches[j].files
      /\ \A j \in Caches \ {writing[1]} : caches'[j].dir = caches[j].dir
  <2>1. caches \in Corpora /\ caches' = [caches EXCEPT ![writing[1]].dir = TRUE]
    BY DEF MakeDirectory, CorpusSafe, CorpusInv
  <2>. QED BY <2>1, <1>1 DEF Corpora
<1>5. \A i \in Caches : Whole(caches, i) => Whole(caches', i)
  BY <1>4 DEF Whole
<1>6. \A i \in Caches : Captured(i)' <=> Captured(i)
  BY <1>2 DEF Captured
<1>7. CaptureInv'
  <2>1. writing[1] < LastCache => ~caches'[LastCache].dir
    BY <1>3, <1>4, <1>1 DEF Caches, LastCache
  <2>2. \A f \in 1..Files : ~(f < writing[2])
    BY <1>3, SessionAssumption
  <2>. QED BY <1>1, <1>2, <1>3, <1>5, <1>6, <2>1, <2>2 DEF CaptureInv
<1>8. LastMeansEarlierWhole'
  <2>1. CASE writing[1] = LastCache
    <3>1. \A i \in 1..(LastCache - 1) : i \in Caches /\ i < writing[1]
      BY <2>1 DEF LastCache, Caches
    <3>. QED BY <3>1, <1>3, <1>5, <1>6 DEF LastMeansEarlierWhole
  <2>2. CASE writing[1] # LastCache
    <3>1. ~caches'[LastCache].dir
      BY <2>2, <1>1, <1>3, <1>4 DEF LastCache, Caches
    <3>. QED BY <3>1 DEF LastMeansEarlierWhole
  <2>. QED BY <2>1, <2>2
<1>. QED BY <1>4, <1>7, <1>8 DEF CorpusSafe, CorpusInv

\* While the tensors of a cache are written the caches before it stay as they are.
LEMMA TensorStep ==
  ASSUME CorpusSafe, NEW where \in {"open", "write"}, In("capture", where),
         NEW v \in {"torn", "whole"}, short' = short,
         caches' = [caches EXCEPT ![writing[1]].files[writing[2]] = v]
  PROVE  /\ CorpusInv' /\ LastMeansEarlierWhole'
         /\ \A i \in Caches : Captured(i)' <=> Captured(i)
         /\ \A i \in Caches : i < writing[1] /\ Captured(i) => Whole(caches', i)
         /\ \A f \in 1..Files :
              f < writing[2] => caches'[writing[1]].files[f] = "whole"
         /\ caches'[writing[1]].files[writing[2]] = v
         /\ writing[1] < LastCache => ~caches'[LastCache].dir
<1>1. /\ writing \in (1..(LastCache + 1)) \X (1..Files)
      /\ \A i \in Caches : i < writing[1] /\ Captured(i) => Whole(caches, i)
      /\ writing[1] \in Caches
      /\ \A f \in 1..Files : f < writing[2] => caches[writing[1]].files[f] = "whole"
      /\ writing[1] < LastCache => ~caches[LastCache].dir
  BY WhileCapturing
<1>2. writing[2] \in 1..Files
  BY <1>1
<1>3. /\ caches' \in Corpora
      /\ \A j \in Caches : caches'[j].dir = caches[j].dir
      /\ \A j \in Caches \ {writing[1]} : caches'[j].files = caches[j].files
      /\ caches'[writing[1]].files[writing[2]] = v
      /\ \A g \in (1..Files) \ {writing[2]} :
           caches'[writing[1]].files[g] = caches[writing[1]].files[g]
  <2>1. caches \in Corpora
    BY DEF CorpusSafe, CorpusInv
  <2>. QED BY <2>1, <1>1, <1>2 DEF Corpora
<1>4. \A i \in Caches : Captured(i)' <=> Captured(i)
  BY DEF Captured
<1>5. \A i \in Caches \ {writing[1]} : Whole(caches, i) => Whole(caches', i)
  BY <1>3 DEF Whole
<1>6. \A i \in Caches : i < writing[1] /\ Captured(i) => Whole(caches', i)
  <2>1. \A i \in Caches : i < writing[1] => i # writing[1]
    BY <1>1 DEF Caches
  <2>. QED BY <2>1, <1>1, <1>5
<1>7. \A f \in 1..Files : f < writing[2] => caches'[writing[1]].files[f] = "whole"
  BY <1>1, <1>2, <1>3, SessionAssumption
<1>8. LastCache \in Caches
  BY DEF LastCache, Caches
<1>9. LastMeansEarlierWhole'
  <2>1. SUFFICES ASSUME caches'[LastCache].dir, NEW i \in 1..(LastCache - 1), Captured(i)'
                 PROVE  Whole(caches', i)
    BY DEF LastMeansEarlierWhole
  <2>2. i \in Caches
    BY DEF LastCache, Caches
  <2>3. caches[LastCache].dir /\ Captured(i)
    BY <2>1, <2>2, <1>3, <1>4, <1>8
  <2>4. writing[1] = LastCache
    BY <2>3, <1>1 DEF LastCache, Caches
  <2>5. i < writing[1]
    BY <2>4 DEF LastCache
  <2>. QED BY <2>2, <2>3, <2>5, <1>6
<1>. QED BY <1>1, <1>3, <1>4, <1>6, <1>7, <1>8, <1>9 DEF CorpusInv

LEMMA CorpusSafeOpen ==
  ASSUME CorpusSafe, OpenTensor
  PROVE  CorpusSafe'
<1>1. /\ In("capture", "open") /\ at' = "write" /\ UNCHANGED <<short, writing>>
      /\ caches' = [caches EXCEPT ![writing[1]].files[writing[2]] = "torn"]
  BY DEF OpenTensor
<1>2. /\ CorpusInv' /\ LastMeansEarlierWhole'
      /\ \A i \in Caches : Captured(i)' <=> Captured(i)
      /\ \A i \in Caches : i < writing[1] /\ Captured(i) => Whole(caches', i)
      /\ \A f \in 1..Files : f < writing[2] => caches'[writing[1]].files[f] = "whole"
      /\ writing[1] < LastCache => ~caches'[LastCache].dir
  BY <1>1, TensorStep
<1>3. writing \in (1..(LastCache + 1)) \X (1..Files) /\ writing[1] \in Caches
  BY <1>1, WhileCapturing
<1>4. CaptureInv'
  BY <1>1, <1>2, <1>3 DEF CaptureInv
<1>. QED BY <1>2, <1>4 DEF CorpusSafe

LEMMA CorpusSafeClose ==
  ASSUME CorpusSafe, CloseTensor
  PROVE  CorpusSafe'
<1>1. /\ In("capture", "write") /\ short' = short
      /\ caches' = [caches EXCEPT ![writing[1]].files[writing[2]] = "whole"]
  BY DEF CloseTensor
<1>2. /\ CorpusInv' /\ LastMeansEarlierWhole'
      /\ \A i \in Caches : Captured(i)' <=> Captured(i)
      /\ \A i \in Caches : i < writing[1] /\ Captured(i) => Whole(caches', i)
      /\ \A f \in 1..Files : f < writing[2] => caches'[writing[1]].files[f] = "whole"
      /\ caches'[writing[1]].files[writing[2]] = "whole"
      /\ writing[1] < LastCache => ~caches'[LastCache].dir
  BY <1>1, TensorStep
<1>3. writing \in (1..(LastCache + 1)) \X (1..Files) /\ writing[1] \in Caches
  BY <1>1, WhileCapturing
<1>4. CaptureInv'
  <2>1. CASE writing[2] < Files
    <3>1. at' = "open" /\ writing' = <<writing[1], writing[2] + 1>>
      BY <2>1 DEF CloseTensor
    <3>2. /\ writing' \in (1..(LastCache + 1)) \X (1..Files)
          /\ writing'[1] = writing[1] /\ writing'[2] = writing[2] + 1
      BY <3>1, <2>1, <1>3, SessionAssumption
    <3>3. \A f \in 1..Files : f < writing[2] + 1 => f = writing[2] \/ f < writing[2]
      BY <1>3
    <3>. QED BY <3>1, <3>2, <3>3, <1>2, <1>3 DEF CaptureInv
  <2>2. CASE ~(writing[2] < Files)
    <3> DEFINE n == NextCache(writing[1] + 1)
    <3>1. at' = "prefill" /\ writing' = <<n, 1>>
      BY <2>2 DEF CloseTensor
    <3>2. writing[1] + 1 \in 1..(LastCache + 1)
      BY <1>3 DEF Caches, LastCache
    <3>3. n \in (writing[1] + 1)..(LastCache + 1) /\ \A h \in (writing[1] + 1)..(n - 1) : ~Captured(h)
      BY <3>2, NextCacheFound
    <3> HIDE DEF n
    <3>4. /\ writing' \in (1..(LastCache + 1)) \X (1..Files) /\ writing'[1] = n /\ writing'[2] = 1
      BY <3>1, <3>2, <3>3, SessionAssumption DEF LastCache
    <3>5. writing[2] = Files
      BY <2>2, <1>3, SessionAssumption
    <3>6. \A f \in 1..Files : f = writing[2] \/ f < writing[2]
      BY <3>5, SessionAssumption
    <3>7. Whole(caches', writing[1])
      <4>1. \A f \in 1..Files : caches'[writing[1]].files[f] = "whole"
        BY <3>6, <1>2
      <4>. QED BY <4>1 DEF Whole
    <3>8. \A i \in Caches : i < n => i < writing[1] \/ i = writing[1] \/ i \in (writing[1] + 1)..(n - 1)
      BY <1>3, <3>2, <3>3 DEF Caches, LastCache
    <3>9. \A i \in Caches : i < n /\ Captured(i)' => Whole(caches', i)
      BY <3>8, <3>3, <3>7, <1>2
    <3>10. n < LastCache => writing[1] < LastCache
      BY <1>3, <3>2, <3>3 DEF LastCache, Caches
    <3>. QED BY <3>1, <3>4, <3>9, <3>10, <1>2 DEF CaptureInv
  <2>. QED BY <2>1, <2>2
<1>. QED BY <1>2, <1>4 DEF CorpusSafe
LEMMA CorpusSafeNext == CorpusSafe /\ [Next]_vars => CorpusSafe'
<1> SUFFICES ASSUME CorpusSafe, [Next]_vars PROVE CorpusSafe'
  OBVIOUS
<1>1. CASE BeginCapture
  BY <1>1, CorpusSafeBegin
<1>2. CASE MakeDirectory
  BY <1>2, CorpusSafeDirectory
<1>3. CASE OpenTensor
  BY <1>3, CorpusSafeOpen
<1>4. CASE CloseTensor
  BY <1>4, CorpusSafeClose
<1>5. CASE \/ Start \/ BeginClone \/ EndClone \/ Build \/ Record \/ EndCapture
           \/ CaptureRaises \/ B0
           \/ (\E step \in {"b1", "b2", "depth1", "depth8", "alignment"} : Measure(step))
           \/ Complete \/ Killed
  <2>1. ~Capturing' /\ UNCHANGED <<short, caches>>
    BY <1>5, OutsideCapture
  <2>. QED BY <2>1, CorpusSafeUntouched
<1>6. CASE UNCHANGED vars
  BY <1>6 DEF CorpusSafe, CorpusInv, CaptureInv, Capturing, LastMeansEarlierWhole, Captured,
              Whole, vars, volume
<1>. QED BY <1>1, <1>2, <1>3, <1>4, <1>5, <1>6 DEF Next, Step, Finished

\* The directory the scripts look for stands for every cache before it, whatever was
\* killed and begun again (run_protocol_session.sh:22).
THEOREM EarlierCachesAreWhole == Spec => []LastMeansEarlierWhole
<1>1. Init => CorpusSafe
  BY CorpusSafeInit
<1>2. CorpusSafe /\ [Next]_vars => CorpusSafe'
  BY CorpusSafeNext
<1>3. CorpusSafe => LastMeansEarlierWhole
  BY DEF CorpusSafe
<1>. QED BY <1>1, <1>2, <1>3, PTL DEF Spec

-----------------------------------------------------------------------------
(* Where a protocol session stands.                                         *)

\* A step of a script that is under way names what is left of it.
LEMMA StandsAt ==
  ASSUME ProtocolInv, script = "protocol", NEW step, NEW where, In(step, where)
  PROVE  \/ todo = ToEnv /\ step = "env"
         \/ todo = ToCapture /\ step = "capture"
         \/ todo = ToB0 /\ step = "b0"
         \/ todo = ToB1 /\ step = "b1"
         \/ todo = ToB2 /\ step = "b2"
<1>1. todo \in {ToEnv, ToCapture, ToB0, ToB1, ToB2, << >>} /\ todo # << >> /\ Head(todo) = step
  BY DEF ProtocolInv, In
<1>. QED BY <1>1, ProgramOrder

\* In a protocol session a step of the bring-up, the capture or B0 that fails ends it.
LEMMA FailsClosed ==
  ASSUME script = "protocol", todo \in {ToEnv, ToCapture, ToB0}, StepFails
  PROVE  outcome' = "exit"
  BY ProgramOrder DEF StepFails, Exit

\* The remainders of a protocol session are told apart by their heads.
LEMMA RemaindersDiffer ==
  /\ ToEnv \notin {ToCapture, ToB0, ToB1, ToB2, << >>}
  /\ ToCapture \notin {ToB0, ToB1, ToB2, << >>}
  /\ ToB0 \notin {ToB1, ToB2, << >>}
  /\ ToB1 \notin {ToB2, << >>}
  BY ProgramOrder
LEMMA ResultsUntouched ==
  ASSUME ResultsInv, UNCHANGED <<short, results>>
  PROVE  ResultsInv'
  BY DEF ResultsInv, GateHeld, GateMissesOnlyLast, EnvironmentIsOwn, Captured, Whole

\* A session that is over, or of the verify script, owes nothing.
LEMMA NoProtocol ==
  ASSUME outcome' # "running" \/ script' # "protocol"
  PROVE  ProtocolInv'
  BY DEF ProtocolInv, Running

\* A protocol session that has not come past its bring-up owes its place alone.
LEMMA AtEnv ==
  ASSUME todo' = ToEnv
  PROVE  ProtocolInv'
  BY RemaindersDiffer DEF ProtocolInv, Running

LEMMA AtCapture ==
  ASSUME todo' = ToCapture, env' = session'
  PROVE  ProtocolInv'
  BY RemaindersDiffer DEF ProtocolInv, Running

LEMMA AtB0 ==
  ASSUME todo' = ToB0, env' = session', Earlier'
  PROVE  ProtocolInv'
  BY RemaindersDiffer DEF ProtocolInv, Running

LEMMA AtGated ==
  ASSUME todo' \in {ToB1, ToB2}, env' = session', Earlier',
         \E g \in results' : /\ g.session = session' /\ g.step = "b0"
                             /\ g.verdict = "passed" /\ g.corpus = caches'
  PROVE  ProtocolInv'
  BY RemaindersDiffer DEF ProtocolInv, Running

LEMMA AtEnd ==
  ASSUME todo' = << >>
  PROVE  ProtocolInv'
  BY ProgramOrder DEF ProtocolInv, Running

\* The bring-up.
LEMMA BringUpStep ==
  ASSUME ProtocolInv, BeginClone \/ EndClone \/ Build \/ Record
  PROVE  ProtocolInv'
<1>1. CASE script # "protocol"
  <2>1. script' = script
    BY DEF BeginClone, EndClone, Build, Record
  <2>. QED BY <2>1, <1>1, NoProtocol
<1>2. CASE script = "protocol"
  <2>1. \E where \in {"start", "clone", "build", "record"} : In("env", where)
    BY DEF BeginClone, EndClone, Build, Record
  <2>2. todo = ToEnv
    BY <2>1, <1>2, StandsAt
  <2>3. CASE StepFails
    BY <2>2, <2>3, <1>2, FailsClosed, NoProtocol
  <2>4. CASE Record /\ ~StepFails
    <3>1. env' = session /\ session' = session /\ todo' = Tail(todo)
      BY <2>4 DEF Record, NextStep
    <3>. QED BY <3>1, <2>2, ProgramOrder, AtCapture
  <2>5. CASE ~StepFails /\ ~Record
    <3>1. todo' = todo
      BY <2>5 DEF BeginClone, EndClone, Build
    <3>. QED BY <3>1, <2>2, AtEnv
  <2>. QED BY <2>3, <2>4, <2>5
<1>. QED BY <1>1, <1>2

\* The capture.
LEMMA CaptureStep ==
  ASSUME CorpusSafe, ProtocolInv,
         BeginCapture \/ MakeDirectory \/ OpenTensor \/ CloseTensor \/ EndCapture \/ CaptureRaises
  PROVE  ProtocolInv'
<1>1. script' = script /\ session' = session /\ env' = env /\ short' = short
  BY DEF BeginCapture, MakeDirectory, OpenTensor, CloseTensor, EndCapture, CaptureRaises, volume
<1>2. CASE script # "protocol"
  BY <1>1, <1>2, NoProtocol
<1>3. CASE script = "protocol"
  <2>1. /\ outcome = "running"
        /\ \E where \in {"start", "prefill", "open", "write"} : In("capture", where)
    BY DEF BeginCapture, MakeDirectory, OpenTensor, CloseTensor, EndCapture, CaptureRaises, In
  <2>2. todo = ToCapture
    BY <2>1, <1>3, StandsAt
  <2>3. env = session
    BY <2>1, <2>2, <1>3 DEF ProtocolInv, Running
  <2>4. CASE CaptureRaises
    BY <2>2, <2>4, <1>3, FailsClosed, NoProtocol DEF CaptureRaises
  <2>5. CASE BeginCapture /\ CapturePresent
    <3>1. todo' = Tail(todo) /\ caches' = caches
      BY <2>5 DEF BeginCapture, NextStep, volume
    <3>2. Earlier
      BY <2>5 DEF CapturePresent, CorpusSafe, LastMeansEarlierWhole, Earlier
    <3>3. Earlier'
      BY <3>1, <3>2, <1>1 DEF Earlier, Whole, Captured
    <3>. QED BY <3>1, <3>3, <2>2, <2>3, <1>1, ProgramOrder, AtB0
  <2>6. CASE EndCapture
    <3>1. /\ todo' = Tail(todo) /\ caches' = caches
          /\ In("capture", "prefill") /\ writing[1] \notin Caches
      BY <2>6 DEF EndCapture, NextStep, volume
    <3>2. /\ writing \in (1..(LastCache + 1)) \X (1..Files)
          /\ \A i \in Caches : i < writing[1] /\ Captured(i) => Whole(caches, i)
      BY <3>1, WhileCapturing
    <3>3. writing[1] = LastCache + 1
      BY <3>1, <3>2 DEF Caches, LastCache
    <3>4. \A i \in 1..(LastCache - 1) : i \in Caches /\ i < writing[1]
      BY <3>3 DEF Caches, LastCache
    <3>5. Earlier
      BY <3>2, <3>4 DEF Earlier
    <3>6. Earlier'
      BY <3>1, <3>5, <1>1 DEF Earlier, Whole, Captured
    <3>. QED BY <3>1, <3>6, <2>2, <2>3, <1>1, ProgramOrder, AtB0
  <2>7. CASE (BeginCapture /\ ~CapturePresent) \/ MakeDirectory \/ OpenTensor \/ CloseTensor
    <3>1. todo' = todo
      BY <2>7 DEF BeginCapture, MakeDirectory, OpenTensor, CloseTensor
    <3>. QED BY <3>1, <2>2, <2>3, <1>1, AtCapture
  <2>. QED BY <2>4, <2>5, <2>6, <2>7
<1>. QED BY <1>2, <1>3
-----------------------------------------------------------------------------
(* What B0 and the steps behind it leave in out/.                           *)

\* B0 judges a corpus without torn tensors, whose earlier caches are whole.
LEMMA B0Step ==
  ASSUME ProtocolInv, ResultsInv, B0
  PROVE  ProtocolInv' /\ ResultsInv'
<1> DEFINE r == Result("b0", "passed")
<1>1. /\ In("b0", "start") /\ outcome = "running"
      /\ script' = script /\ session' = session /\ env' = env /\ short' = short
      /\ caches' = caches
  BY DEF B0, In, volume
<1>2. /\ r.session = session /\ r.script = script /\ r.step = "b0" /\ r.verdict = "passed"
      /\ r.env = env /\ r.corpus = caches
  BY DEF Result
<1>3. script = "protocol" => todo = ToB0
  BY <1>1, StandsAt
<1>4. script = "protocol" => env = session /\ Earlier
  BY <1>1, <1>3 DEF ProtocolInv, Running
<1> HIDE DEF r
<1>5. CASE results' = results /\ StepFails
  <2>1. ProtocolInv'
    BY <1>1, <1>3, <1>5, FailsClosed, NoProtocol
  <2>. QED BY <2>1, <1>1, <1>5, ResultsUntouched
<1>6. CASE Loads(caches) /\ results' = results \union {r} /\ NextStep
  <2>1. ProtocolInv'
    <3>1. CASE script = "protocol"
      <4>1. todo' = ToB1
        BY <1>3, <1>6, <3>1, ProgramOrder DEF NextStep
      <4>2. Earlier'
        BY <1>1, <1>4, <3>1 DEF Earlier, Whole, Captured
      <4>. QED BY <4>1, <4>2, <1>1, <1>2, <1>4, <1>6, <3>1, AtGated
    <3>2. CASE script # "protocol"
      BY <1>1, <3>2, NoProtocol
    <3>. QED BY <3>1, <3>2
  <2>2. GateHeld'
    BY <1>2, <1>6 DEF ResultsInv, GateHeld
  <2>3. GateMissesOnlyLast'
    <3>1. \A i \in Caches : Captured(i)' <=> Captured(i)
      BY <1>1 DEF Captured
    <3>2. script = "protocol" =>
            /\ \A i \in Caches, f \in 1..Files : caches[i].files[f] # "torn"
            /\ \A i \in Caches : Whole(caches, i) \/ ~Captured(i) \/ i = LastCache
      <4>1. \A i \in Caches : i = LastCache \/ i \in 1..(LastCache - 1)
        BY DEF Caches, LastCache
      <4>. QED BY <4>1, <1>4, <1>6 DEF Loads, Earlier
    <3>. QED BY <3>1, <3>2, <1>2, <1>6 DEF ResultsInv, GateMissesOnlyLast
  <2>4. EnvironmentIsOwn'
    BY <1>2, <1>4, <1>6 DEF ResultsInv, EnvironmentIsOwn
  <2>. QED BY <2>1, <2>2, <2>3, <2>4 DEF ResultsInv
<1>. QED BY <1>5, <1>6 DEF B0, r

\* B1 and B2 come behind a B0 that passed on the corpus as it still is.
LEMMA MeasureStep ==
  ASSUME ProtocolInv, ResultsInv,
         NEW step \in {"b1", "b2", "depth1", "depth8", "alignment"}, Measure(step)
  PROVE  ProtocolInv' /\ ResultsInv'
<1> DEFINE r == Result(step, "done")
<1>1. /\ In(step, "start") /\ outcome = "running" /\ NextStep
      /\ script' = script /\ session' = session /\ env' = env /\ short' = short
      /\ caches' = caches
  BY DEF Measure, In, volume
<1>2. /\ r.session = session /\ r.script = script /\ r.step = step
      /\ r.env = env /\ r.corpus = caches
  BY DEF Result
<1>3. results' = results \/ results' = results \union {r}
  BY DEF Measure
<1> HIDE DEF r
<1>4. script = "protocol" => (todo = ToB1 \/ todo = ToB2)
  BY <1>1, StandsAt
<1>5. script = "protocol" =>
        /\ env = session /\ Earlier
        /\ \E g \in results : /\ g.session = session /\ g.step = "b0"
                              /\ g.verdict = "passed" /\ g.corpus = caches
  BY <1>1, <1>4 DEF ProtocolInv, Running
<1>6. ProtocolInv'
  <2>1. CASE script # "protocol"
    BY <2>1, <1>1, NoProtocol
  <2>2. CASE script = "protocol" /\ todo = ToB2
    BY <2>2, <1>1, ProgramOrder, AtEnd DEF NextStep
  <2>3. CASE script = "protocol" /\ todo = ToB1
    <3>1. todo' = ToB2
      BY <2>3, <1>1, ProgramOrder DEF NextStep
    <3>2. Earlier'
      BY <2>3, <1>1, <1>5 DEF Earlier, Whole, Captured
    <3>3. \E g \in results' : /\ g.session = session' /\ g.step = "b0"
                              /\ g.verdict = "passed" /\ g.corpus = caches'
      BY <2>3, <1>1, <1>3, <1>5
    <3>. QED BY <3>1, <3>2, <3>3, <2>3, <1>1, <1>5, AtGated
  <2>. QED BY <2>1, <2>2, <2>3, <1>4
<1>7. GateHeld'
  BY <1>2, <1>3, <1>5 DEF ResultsInv, GateHeld
<1>8. GateMissesOnlyLast'
  BY <1>1, <1>2, <1>3 DEF ResultsInv, GateMissesOnlyLast, Captured, Whole
<1>9. EnvironmentIsOwn'
  BY <1>2, <1>3, <1>5 DEF ResultsInv, EnvironmentIsOwn
<1>. QED BY <1>6, <1>7, <1>8, <1>9 DEF ResultsInv

-----------------------------------------------------------------------------

SessionInv == CorpusSafe /\ ProtocolInv /\ ResultsInv

LEMMA SessionInvInit == Init => SessionInv
<1> SUFFICES ASSUME Init PROVE SessionInv
  OBVIOUS
<1>1. CorpusSafe
  BY CorpusSafeInit
<1>2. outcome = "idle" /\ results = {}
  BY DEF Init
<1>3. ProtocolInv
  BY <1>2 DEF ProtocolInv, Running
<1>4. ResultsInv
  BY <1>2 DEF ResultsInv, GateHeld, GateMissesOnlyLast, EnvironmentIsOwn
<1>. QED BY <1>1, <1>3, <1>4 DEF SessionInv

LEMMA SessionInvNext == SessionInv /\ [Next]_vars => SessionInv'
<1> SUFFICES ASSUME SessionInv, [Next]_vars PROVE SessionInv'
  OBVIOUS
<1>. USE DEF SessionInv
<1>1. CorpusSafe'
  BY CorpusSafeNext
<1>2. CASE Start
  <2>1. ResultsInv'
    BY <1>2, ResultsUntouched DEF Start, volume
  <2>2. CASE script' = "protocol"
    <3>1. todo' = Program("protocol")
      BY <1>2, <2>2 DEF Start
    <3>2. ProtocolInv'
      BY <3>1, ProgramOrder, AtEnv
    <3>. QED BY <3>2, <1>1, <2>1
  <2>3. CASE script' # "protocol"
    <3>1. ProtocolInv'
      BY <2>3, NoProtocol
    <3>. QED BY <3>1, <1>1, <2>1
  <2>. QED BY <2>2, <2>3
<1>3. CASE BeginClone \/ EndClone \/ Build \/ Record
  <2>1. UNCHANGED <<short, results>>
    BY <1>3 DEF BeginClone, EndClone, Build, Record
  <2>. QED BY <1>1, <1>3, <2>1, BringUpStep, ResultsUntouched
<1>4. CASE BeginCapture \/ MakeDirectory \/ OpenTensor \/ CloseTensor \/ EndCapture \/ CaptureRaises
  <2>1. UNCHANGED <<short, results>>
    BY <1>4 DEF BeginCapture, MakeDirectory, OpenTensor, CloseTensor, EndCapture,
                CaptureRaises, volume
  <2>. QED BY <1>1, <1>4, <2>1, CaptureStep, ResultsUntouched
<1>5. CASE B0
  BY <1>1, <1>5, B0Step
<1>6. CASE \E step \in {"b1", "b2", "depth1", "depth8", "alignment"} : Measure(step)
  BY <1>1, <1>6, MeasureStep
<1>7. CASE Complete \/ Killed
  <2>1. outcome' # "running" /\ UNCHANGED <<short, results>>
    BY <1>7 DEF Complete, Killed, volume
  <2>. QED BY <1>1, <2>1, NoProtocol, ResultsUntouched
<1>8. CASE UNCHANGED vars
  <2>1. ProtocolInv'
    BY <1>8 DEF ProtocolInv, Running, Earlier, Whole, Captured, vars, volume
  <2>2. ResultsInv'
    BY <1>8, ResultsUntouched DEF vars, volume
  <2>. QED BY <1>1, <2>1, <2>2
<1>. QED BY <1>2, <1>3, <1>4, <1>5, <1>6, <1>7, <1>8 DEF Next, Step, Finished

LEMMA SessionInvHolds == Spec => []SessionInv
<1>1. Init => SessionInv
  BY SessionInvInit
<1>2. SessionInv /\ [Next]_vars => SessionInv'
  BY SessionInvNext
<1>. QED BY <1>1, <1>2, PTL DEF Spec

\* "B0 gates the other two": no B1 or B2 of a protocol session without a B0 that
\* passed in it, over the same corpus (run_protocol_session.sh:32-48).
THEOREM GateIsHeld == Spec => []GateHeld
<1>1. SessionInv => GateHeld
  BY DEF SessionInv, ResultsInv
<1>. QED BY <1>1, SessionInvHolds, PTL

\* What a B0 that passed can have missed is a short document or the rest of the last
\* cache.
THEOREM GateMissesNothingElse == Spec => []GateMissesOnlyLast
<1>1. SessionInv => GateMissesOnlyLast
  BY DEF SessionInv, ResultsInv
<1>. QED BY <1>1, SessionInvHolds, PTL

\* A protocol session's results carry the environment of their own session.
THEOREM ResultsNameTheirMachine == Spec => []EnvironmentIsOwn
<1>1. SessionInv => EnvironmentIsOwn
  BY DEF SessionInv, ResultsInv
<1>. QED BY <1>1, SessionInvHolds, PTL

-----------------------------------------------------------------------------
(* The transport decision (Policy).                                         *)


\* x is what decide's loop keeps of the first n candidates under margin m: the
\* first of the most profitable ones, or 0 if none pays.
Best(x, n, m) ==
  /\ x \in 0..n
  /\ x # 0 => Considered(x) /\ NetBenefit(x, m) > 0
  /\ \A c \in 1..n : Considered(c) =>
       IF x = 0 THEN NetBenefit(c, m) <= 0
       ELSE NetBenefit(c, m) <= NetBenefit(x, m)
            /\ (c < x => NetBenefit(c, m) < NetBenefit(x, m))

PolicyTypeInv ==
  /\ who \in {"decide", "oracle", "score", "done"}
  /\ margin \in Nat \ {0} /\ payload \in Nat \ {0} /\ bw \in Nat \ {0}
  /\ margin \in DOMAIN Margins
  /\ who # "done" => payload \in DOMAIN Payloads /\ bw \in DOMAIN Bandwidths
  /\ k \in Nat \ {0} /\ best \in Nat /\ bestNet \in Int /\ dec \in Nat /\ orc \in Nat
  /\ tally \in [compress : Nat, bypass : Nat, flip : Nat, regret : Int]
  /\ summary \in Seq([compress : Nat, bypass : Nat, flip : Nat, regret : Int])

LoopInv ==
  who \in {"decide", "oracle"} =>
    /\ k <= NCand + 1
    /\ Best(best, k - 1, MarginAt)
    /\ bestNet = IF best = 0 THEN 0 ELSE NetBenefit(best, MarginAt)

RowInv ==
  /\ who \in {"oracle", "score"} => Best(dec, NCand, Margins[margin])
  /\ who = "score" => Best(orc, NCand, 0) /\ k = 1 /\ best = 0 /\ bestNet = 0

PolicyInv == PolicyTypeInv /\ LoopInv /\ RowInv

-----------------------------------------------------------------------------
(* The cost model.                                                          *)

\* An element of a sequence.
LEMMA ElementType ==
  ASSUME NEW S, NEW s \in Seq(S), NEW i \in DOMAIN s
  PROVE  s[i] \in S
OBVIOUS

\* A margin at a position of the loops.
LEMMA MarginType ==
  ASSUME PolicyTypeInv, who # "done"
  PROVE  Margins[margin] \in Nat /\ MarginAt \in Nat
<1>1. Margins \in Seq(Nat) /\ margin \in DOMAIN Margins
  BY PolicyAssumption DEF PolicyTypeInv
<1>2. Margins[margin] \in Nat
  BY <1>1, ElementType
<1>3. QED
  BY <1>2 DEF MarginAt

\* A candidate and the payload it is of.
LEMMA CandType ==
  ASSUME PolicyTypeInv, who # "done"
  PROVE  /\ NCand \in Nat /\ Payloads[payload].original \in Nat
         /\ \A c \in 1..NCand : Cand(c) \in Candidates
<1>1. Payloads[payload] \in [original : Nat, candidates : Seq(Candidates)]
  <2>1. Payloads \in Seq([original : Nat, candidates : Seq(Candidates)])
    BY PolicyAssumption, Zenon
  <2>2. payload \in DOMAIN Payloads
    BY DEF PolicyTypeInv
  <2>3. QED
    BY <2>1, <2>2, ElementType, Zenon
<1>2. Payloads[payload].candidates \in Seq(Candidates) /\ Payloads[payload].original \in Nat
  BY <1>1
<1>3. QED
  BY <1>2 DEF NCand, Cand

\* A byte takes a whole, positive number of units.
LEMMA Units ==
  ASSUME PolicyTypeInv, who # "done"
  PROVE  /\ Bandwidths[bw] \in Nat \ {0}
         /\ SecondUnits \div Bandwidths[bw] \in Nat \ {0}
         /\ SecondUnits = (SecondUnits \div Bandwidths[bw]) * Bandwidths[bw]
<1>1. Bandwidths[bw] \in Nat \ {0} /\ SecondUnits % Bandwidths[bw] = 0 /\ SecondUnits \in Nat \ {0}
  <2>1. Bandwidths \in Seq(Nat \ {0}) /\ bw \in DOMAIN Bandwidths
    BY PolicyAssumption DEF PolicyTypeInv
  <2>2. Bandwidths[bw] \in Nat \ {0}
    BY Zenon, <2>1, ElementType
  <2>. QED BY Zenon, <2>1, <2>2, PolicyAssumption
<1>2. \A s \in Nat \ {0}, b \in Nat \ {0} :
        s % b = 0 => s \div b \in Nat \ {0} /\ s = (s \div b) * b
  OBVIOUS
<1>3. SecondUnits \in Nat \ {0} /\ Bandwidths[bw] \in Nat \ {0} /\ SecondUnits % Bandwidths[bw] = 0
  BY <1>1
<1>4. SecondUnits \div Bandwidths[bw] \in Nat \ {0}
      /\ SecondUnits = (SecondUnits \div Bandwidths[bw]) * Bandwidths[bw]
  BY Zenon, <1>2, <1>3
<1>5. QED
  BY Zenon, <1>3, <1>4

\* What a candidate nets is a number, and a margin is taken off it.
LEMMA NetType ==
  ASSUME PolicyTypeInv, who # "done", NEW c \in 1..NCand, NEW m \in Nat
  PROVE  /\ NetBenefit(c, m) \in Int /\ NetBenefit(c, 0) \in Int
         /\ NetBenefit(c, m) = NetBenefit(c, 0) - m
<1>1. Cand(c).encode \in Nat /\ Cand(c).decode \in Nat /\ Cand(c).bytes \in Nat
  BY CandType DEF Candidates
<1>2. Saved(c) \in Int
  BY <1>1, CandType, Units DEF Saved, Transfer
<1>3. QED
  BY <1>1, <1>2 DEF NetBenefit, CodecCost

\* A positive net benefit is a bandwidth below the break-even.
LEMMA NetIsBreakEven ==
  ASSUME PolicyTypeInv, who # "done", NEW c \in 1..NCand, NEW m \in Nat
  PROVE  NetBenefit(c, m) > 0 <=> PaysBelowBreakEven(c, m)
<1> DEFINE d    == Payloads[payload].original - Cand(c).bytes
           q    == SecondUnits \div Bandwidths[bw]
           cost == CodecCost(c, m)
           b    == Bandwidths[bw]
<1>1. d \in Int /\ cost \in Nat /\ q \in Nat \ {0} /\ b \in Nat \ {0} /\ SecondUnits = q * b
  <2>1. Cand(c).encode \in Nat /\ Cand(c).decode \in Nat /\ Cand(c).bytes \in Nat
    BY CandType DEF Candidates
  <2>2. QED
    BY <2>1, CandType, Units DEF CodecCost
<1>2. NetBenefit(c, m) = d * q - cost
  BY DEF NetBenefit, Saved, Transfer
<1>3. PaysBelowBreakEven(c, m) <=> d > 0 /\ (cost <= 0 \/ d * SecondUnits > cost * b)
  BY DEF PaysBelowBreakEven
<1> HIDE DEF d, q, cost, b
<1>4. d * SecondUnits = (d * q) * b
  BY <1>1
<1>5. (d * q) * b > cost * b <=> d * q > cost
  <2>1. \A x, y \in Int : x > y => x * b > y * b
    BY <1>1
  <2>2. \A x, y \in Int : x <= y => x * b <= y * b
    BY <1>1
  <2>3. d * q \in Int /\ cost \in Int
    BY <1>1
  <2>4. d * q > cost \/ d * q <= cost
    BY <2>3
  <2>5. QED
    BY <2>1, <2>2, <2>3, <2>4, <1>1
<1>6. d > 0 => d * q > 0
  BY <1>1
<1>7. d <= 0 => d * q <= 0
  BY <1>1
<1>8. d * q \in Int
  BY <1>1
<1>9. QED
  BY <1>1, <1>2, <1>3, <1>4, <1>5, <1>6, <1>7, <1>8
-----------------------------------------------------------------------------
(* The loop of decide.                                                      *)

\* What the candidates are worth depends on the row alone.
LEMMA SameRow ==
  ASSUME UNCHANGED <<payload, bw>>
  PROVE  /\ NCand' = NCand
         /\ \A c, m : NetBenefit(c, m)' = NetBenefit(c, m)
         /\ \A c : Considered(c)' <=> Considered(c)
         /\ \A x, n, m : Best(x, n, m)' <=> Best(x, n, m)
<1>1. NCand' = NCand /\ \A c, m : NetBenefit(c, m)' = NetBenefit(c, m)
  BY DEF NCand, NetBenefit, Saved, Transfer, CodecCost, Cand
<1>2. \A c : Considered(c)' <=> Considered(c)
  BY DEF Considered, Cand
<1>3. QED
  BY <1>1, <1>2 DEF Best

\* One candidate more.
LEMMA LookKeepsBest ==
  ASSUME PolicyInv, Look
  PROVE  Best(best', k, MarginAt) /\ bestNet' = IF best' = 0 THEN 0 ELSE NetBenefit(best', MarginAt)
<1> DEFINE net(c) == NetBenefit(c, MarginAt)
<1>1. /\ who \in {"decide", "oracle"} /\ k <= NCand /\ k \in Nat \ {0} /\ who # "done"
      /\ Best(best, k - 1, MarginAt) /\ bestNet = IF best = 0 THEN 0 ELSE net(best)
  BY DEF PolicyInv, PolicyTypeInv, LoopInv, Look
<1>2. NCand \in Nat /\ MarginAt \in Nat
  BY <1>1, CandType, MarginType DEF PolicyInv
<1>3. \A c \in 1..NCand : net(c) \in Int
  BY <1>1, <1>2, NetType DEF PolicyInv
<1>4. best \in 0..(k - 1) /\ k \in 1..NCand /\ (best # 0 => best \in 1..NCand)
  BY <1>1, <1>2 DEF Best
<1> HIDE DEF net
<1>5. CASE Considered(k) /\ net(k) > bestNet
  <2>1. best' = k /\ bestNet' = net(k)
    BY <1>5, <1>1 DEF Look, net
  <2>2. net(k) > 0
    BY <1>1, <1>3, <1>4, <1>5 DEF Best, net
  <2>3. \A c \in 1..(k - 1) : Considered(c) => net(c) < net(k)
    <3>1. ASSUME NEW c \in 1..(k - 1), Considered(c)
          PROVE  net(c) < net(k)
      <4>1. net(c) <= bestNet
        BY <1>1, <3>1 DEF Best, net
      <4>2. net(c) \in Int /\ net(k) \in Int /\ bestNet \in Int
        BY <1>1, <1>2, <1>3, <1>4
      <4>3. QED
        BY <4>1, <4>2, <1>5
    <3>2. QED
      BY <3>1
  <2>4. \A c \in 1..k : Considered(c) => net(c) <= net(k) /\ (c < k => net(c) < net(k))
    <3>1. net(k) \in Int /\ ~(k < k)
      BY <1>3, <1>4
    <3>2. \A c \in 1..(k - 1) : net(c) \in Int
      BY <1>2, <1>3, <1>4
    <3>3. \A c \in 1..k : c \in 1..(k - 1) \/ c = k
      BY <1>1
    <3>4. \A c \in 1..(k - 1) : Considered(c) => net(c) <= net(k)
      BY <2>3, <3>1, <3>2
    <3>5. net(k) <= net(k)
      BY <3>1
    <3>6. QED
      BY <2>3, <3>1, <3>3, <3>4, <3>5
  <2>5. QED
    BY <2>1, <2>2, <2>4, <1>1, <1>5 DEF Best, net
<1>6. CASE ~(Considered(k) /\ net(k) > bestNet)
  <2>1. best' = best /\ bestNet' = bestNet
    BY <1>6, <1>1 DEF Look, net
  <2>2. Considered(k) => net(k) <= bestNet
    BY <1>1, <1>3, <1>4, <1>6
  <2>3. ASSUME NEW c \in 1..k, Considered(c)
        PROVE  IF best = 0 THEN net(c) <= 0
               ELSE net(c) <= net(best) /\ (c < best => net(c) < net(best))
    <3>1. CASE c \in 1..(k - 1)
      BY <2>3, <3>1, <1>1 DEF Best, net
    <3>2. CASE c = k
      BY <2>2, <2>3, <3>2, <1>1, <1>4
    <3>3. QED
      BY <3>1, <3>2, <1>1
  <2>4. best \in 0..k
    BY <1>1, <1>4
  <2>5. QED
    BY <2>1, <2>3, <2>4, <1>1 DEF Best, net
<1>7. QED
  BY <1>5, <1>6

\* A loop that begins has looked at nothing.
LEMMA BestOfNone ==
  ASSUME NEW m
  PROVE  Best(0, 0, m)
BY DEF Best

\* The first row there is.
LEMMA PolicyInvInit == PolicyInit => PolicyInv
<1>1. ASSUME PolicyInit PROVE PolicyInv
  <2>1. Margins \in Seq(Nat) /\ Margins # << >> /\ Bandwidths \in Seq(Nat \ {0}) /\ Bandwidths # << >>
    BY PolicyAssumption
  <2>2. Payloads \in Seq([original : Nat, candidates : Seq(Candidates)])
    BY PolicyAssumption, Zenon
  <2>3. \A S : \A s \in Seq(S) : s # << >> => 1 \in DOMAIN s
    OBVIOUS
  <2>4. PolicyTypeInv
    <3>1. /\ who \in {"decide", "done"} /\ margin = 1 /\ payload = 1 /\ bw = 1
          /\ (who # "done" => Payloads # << >>)
          /\ k = 1 /\ best = 0 /\ bestNet = 0 /\ dec = 0 /\ orc = 0 /\ tally = Zero /\ summary = << >>
      BY <1>1 DEF PolicyInit
    <3>2. /\ margin \in DOMAIN Margins
          /\ who # "done" => payload \in DOMAIN Payloads /\ bw \in DOMAIN Bandwidths
      BY <2>1, <2>2, <2>3, <3>1
    <3>3. tally \in [compress : Nat, bypass : Nat, flip : Nat, regret : Int]
      BY <3>1 DEF Zero
    <3>4. QED
      BY <3>1, <3>2, <3>3 DEF PolicyTypeInv
  <2>5. LoopInv
    <3>1. ASSUME who \in {"decide", "oracle"}
          PROVE  k <= NCand + 1 /\ Best(best, k - 1, MarginAt) /\ bestNet = 0 /\ best = 0
      <4>1. NCand \in Nat
        BY <2>4, <3>1, CandType
      <4>2. k = 1 /\ best = 0 /\ bestNet = 0 /\ k - 1 = 0
        BY <1>1 DEF PolicyInit
      <4>3. QED
        BY <4>1, <4>2, BestOfNone
    <3>2. QED
      BY <3>1 DEF LoopInv
  <2>6. RowInv
    BY <1>1 DEF PolicyInit, RowInv
  <2>7. QED
    BY <2>4, <2>5, <2>6 DEF PolicyInv
<1>2. QED
  BY <1>1
\* What a choice realises is a number.
LEMMA RealisedType ==
  ASSUME PolicyTypeInv, who # "done", NEW x \in 0..NCand
  PROVE  Realised(x) \in Int
<1>1. x # 0 => x \in 1..NCand
  BY CandType
<1>2. QED
  BY <1>1, NetType DEF Realised

\* A row's counts.
LEMMA CountedType ==
  ASSUME PolicyInv, who = "score"
  PROVE  /\ Realised(dec) \in Int /\ Realised(orc) \in Int
         /\ Counted \in [compress : Nat, bypass : Nat, flip : Nat, regret : Int]
<1>1. tally \in [compress : Nat, bypass : Nat, flip : Nat, regret : Int]
  BY DEF PolicyInv, PolicyTypeInv
<1>2. dec \in 0..NCand /\ orc \in 0..NCand
  BY DEF PolicyInv, RowInv, Best
<1>3. Realised(dec) \in Int /\ Realised(orc) \in Int
  BY <1>2, RealisedType DEF PolicyInv
<1>4. QED
  BY <1>1, <1>3 DEF Counted

\* A loop that begins anew.
LEMMA LoopBegins ==
  PolicyTypeInv /\ k = 1 /\ best = 0 /\ bestNet = 0 => LoopInv
<1>1. ASSUME PolicyTypeInv, k = 1, best = 0, bestNet = 0, who \in {"decide", "oracle"}
      PROVE  k <= NCand + 1 /\ Best(best, k - 1, MarginAt)
  <2>1. NCand \in Nat
    BY <1>1, CandType
  <2>2. k - 1 = 0
    BY <1>1
  <2>3. QED
    BY <1>1, <2>1, <2>2, BestOfNone
<1>2. QED
  BY <1>1 DEF LoopInv

\* The same of the state after a step.
LEMMA LoopBeginsNext ==
  (PolicyTypeInv /\ k = 1 /\ best = 0 /\ bestNet = 0)' => LoopInv'
BY LoopBegins, PTL

\* A turn of the loop.
LEMMA LookStep ==
  ASSUME PolicyInv, Look
  PROVE  PolicyInv'
<1>1. /\ who \in {"decide", "oracle"} /\ k <= NCand /\ k' = k + 1
      /\ UNCHANGED <<margin, payload, bw, who, dec, orc, tally, summary>>
  BY DEF Look
<1>2. NCand \in Nat /\ MarginAt \in Nat /\ k \in Nat \ {0}
  BY <1>1, CandType, MarginType DEF PolicyInv, PolicyTypeInv
<1>3. Best(best', k, MarginAt) /\ bestNet' = IF best' = 0 THEN 0 ELSE NetBenefit(best', MarginAt)
  BY LookKeepsBest
<1>4. best' \in 0..k /\ bestNet' \in Int
  <2>1. best' \in 0..k
    BY <1>3 DEF Best
  <2>2. best' # 0 => NetBenefit(best', MarginAt) \in Int
    BY <2>1, <1>1, <1>2, NetType DEF PolicyInv
  <2>3. QED
    BY <2>1, <2>2, <1>3
<1>5. PolicyTypeInv'
  BY <1>1, <1>2, <1>4 DEF PolicyInv, PolicyTypeInv
<1>6. MarginAt' = MarginAt
  BY <1>1 DEF MarginAt
<1>7. LoopInv'
  <2>1. k' - 1 = k /\ k' <= NCand' + 1
    BY <1>1, <1>2, SameRow
  <2>2. \A x, n, m : Best(x, n, m)' <=> Best(x, n, m)
    BY <1>1, SameRow
  <2>3. ASSUME NEW x, x = best'
        PROVE  Best(best, k - 1, MarginAt)'
    <3>1. Best(x, k, MarginAt)
      BY <1>3, <2>3
    <3>2. PICK n, m : n = k /\ m = MarginAt
      OBVIOUS
    <3>3. Best(x, n, m)'
      BY <2>2, <3>1, <3>2
    <3>4. QED
      BY <1>6, <2>1, <2>3, <3>2, <3>3
  <2>4. bestNet' = IF best' = 0 THEN 0 ELSE NetBenefit(best, MarginAt)'
    BY <1>1, <1>3, <1>6, SameRow
  <2>5. QED
    BY <2>1, <2>3, <2>4 DEF LoopInv
<1>8. RowInv'
  BY <1>1, SameRow DEF PolicyInv, RowInv
<1>9. QED
  BY <1>5, <1>7, <1>8 DEF PolicyInv
\* A choice, once every candidate has been looked at.
LEMMA ChooseStep ==
  ASSUME PolicyInv, Choose
  PROVE  PolicyInv'
<1>1. /\ who \in {"decide", "oracle"} /\ k > NCand /\ k' = 1 /\ best' = 0 /\ bestNet' = 0
      /\ UNCHANGED <<margin, payload, bw, tally, summary>>
      /\ IF who = "decide" THEN dec' = best /\ orc' = orc /\ who' = "oracle"
         ELSE orc' = best /\ dec' = dec /\ who' = "score"
  BY DEF Choose
<1>2. Best(best, NCand, MarginAt)
  <2>1. k <= NCand + 1 /\ k \in Nat /\ NCand \in Nat /\ Best(best, k - 1, MarginAt)
    BY <1>1, CandType DEF PolicyInv, PolicyTypeInv, LoopInv
  <2>2. k - 1 = NCand
    BY <1>1, <2>1
  <2>3. QED
    BY <2>1, <2>2
<1>3. PolicyTypeInv'
  BY <1>1 DEF PolicyInv, PolicyTypeInv
<1>4. LoopInv'
  BY <1>3, <1>1, LoopBeginsNext
<1>5. RowInv'
  <2>1. NCand' = NCand /\ \A x, n, m : Best(x, n, m)' <=> Best(x, n, m)
    BY <1>1, SameRow
  <2>2. CASE who = "decide"
    <3>1. dec' = best /\ who' = "oracle" /\ MarginAt = Margins[margin]
      BY <1>1, <2>2 DEF MarginAt
    <3>2. QED
      BY <1>1, <1>2, <2>1, <3>1 DEF RowInv
  <2>3. CASE who = "oracle"
    <3>1. orc' = best /\ dec' = dec /\ who' = "score" /\ MarginAt = 0
      BY <1>1, <2>3 DEF MarginAt
    <3>2. Best(dec, NCand, Margins[margin])
      BY <2>3 DEF PolicyInv, RowInv
    <3>3. QED
      BY <1>1, <1>2, <2>1, <3>1, <3>2 DEF RowInv
  <2>4. QED
    BY <1>1, <2>2, <2>3
<1>6. QED
  BY <1>3, <1>4, <1>5 DEF PolicyInv

\* A row is counted, and the next one begins.
LEMMA ScoreRowStep ==
  ASSUME PolicyInv, ScoreRow
  PROVE  PolicyInv'
<1>1. /\ who = "score" /\ who' \in {"decide", "done"} /\ dec' = 0 /\ orc' = 0
      /\ UNCHANGED <<k, best, bestNet>>
  BY DEF ScoreRow
<1>2. k = 1 /\ best = 0 /\ bestNet = 0
  BY <1>1 DEF PolicyInv, RowInv
<1>3. /\ margin \in DOMAIN Margins /\ payload \in DOMAIN Payloads /\ bw \in DOMAIN Bandwidths
      /\ Margins \in Seq(Nat) /\ Bandwidths \in Seq(Nat \ {0})
  BY <1>1, PolicyAssumption DEF PolicyInv, PolicyTypeInv
<1>4. Payloads \in Seq([original : Nat, candidates : Seq(Candidates)])
  BY PolicyAssumption, Zenon
<1>5. \A S : \A s \in Seq(S) : \A i \in DOMAIN s :
        1 \in DOMAIN s /\ i \in Nat \ {0} /\ (i < Len(s) => i + 1 \in DOMAIN s)
  OBVIOUS
<1>6. margin' \in DOMAIN Margins /\ payload' \in DOMAIN Payloads /\ bw' \in DOMAIN Bandwidths
  <2>1. /\ bw' \in {1, bw + 1} /\ (bw' = bw + 1 => bw < Len(Bandwidths) \/ bw' = 1)
        /\ payload' \in {1, payload, payload + 1} /\ (payload' = payload + 1 => payload < Len(Payloads) \/ payload' \in {1, payload})
        /\ margin' \in {margin, margin + 1} /\ (margin' = margin + 1 => margin < Len(Margins) \/ margin' = margin)
    BY DEF ScoreRow
  <2>2. /\ 1 \in DOMAIN Bandwidths /\ (bw < Len(Bandwidths) => bw + 1 \in DOMAIN Bandwidths)
        /\ 1 \in DOMAIN Payloads /\ (payload < Len(Payloads) => payload + 1 \in DOMAIN Payloads)
        /\ (margin < Len(Margins) => margin + 1 \in DOMAIN Margins)
    BY <1>3, <1>4, <1>5
  <2>3. QED
    BY <2>1, <2>2, <1>3
<1>7. tally' \in {Counted, Zero} /\ summary' \in {summary, Append(summary, Counted)}
  BY DEF ScoreRow
<1>8. /\ tally' \in [compress : Nat, bypass : Nat, flip : Nat, regret : Int]
      /\ summary' \in Seq([compress : Nat, bypass : Nat, flip : Nat, regret : Int])
  <2> DEFINE Tallies == [compress : Nat, bypass : Nat, flip : Nat, regret : Int]
  <2>1. Counted \in Tallies
    BY <1>1, CountedType
  <2>2. Zero \in Tallies
    BY DEF Zero
  <2>3. summary \in Seq(Tallies)
    BY DEF PolicyInv, PolicyTypeInv
  <2> HIDE DEF Tallies
  <2>4. Append(summary, Counted) \in Seq(Tallies)
    BY <2>1, <2>3
  <2>5. QED
    BY <2>1, <2>2, <2>3, <2>4, <1>7 DEF Tallies
<1>9. margin' \in Nat \ {0} /\ payload' \in Nat \ {0} /\ bw' \in Nat \ {0}
  BY <1>3, <1>4, <1>5, <1>6
<1>10. PolicyTypeInv'
  BY <1>1, <1>2, <1>6, <1>8, <1>9 DEF PolicyTypeInv
<1>11. LoopInv'
  BY <1>10, <1>1, <1>2, LoopBeginsNext
<1>12. RowInv'
  BY <1>1 DEF RowInv
<1>13. QED
  BY <1>10, <1>11, <1>12 DEF PolicyInv

\* Every step.
LEMMA PolicyInvInductive ==
  ASSUME PolicyInv, [PolicyNext]_policyVars
  PROVE  PolicyInv'
<1>1. CASE UNCHANGED policyVars
  <2>1. UNCHANGED <<margin, payload, bw, who, k, best, bestNet, dec, orc, tally, summary>>
    BY <1>1 DEF policyVars
  <2>2. PolicyTypeInv'
    BY <2>1 DEF PolicyInv, PolicyTypeInv
  <2>3. RowInv'
    BY <2>1, SameRow DEF PolicyInv, RowInv
  <2>4. LoopInv'
    <3>1. MarginAt' = MarginAt
      BY <2>1 DEF MarginAt
    <3>2. QED
      BY <2>1, <3>1, SameRow DEF PolicyInv, LoopInv
  <2>5. QED
    BY <2>2, <2>3, <2>4 DEF PolicyInv
<1>2. QED
  BY <1>1, LookStep, ChooseStep, ScoreRowStep DEF PolicyNext

\* The loop's choice pays exactly where some candidate allowed does.
LEMMA BestPays ==
  ASSUME PolicyTypeInv, who # "done", NEW m \in Nat, NEW x, Best(x, NCand, m)
  PROVE  x # 0 <=> \E c \in 1..NCand : Considered(c) /\ PaysBelowBreakEven(c, m)
<1>1. NCand \in Nat /\ x \in 0..NCand
  BY CandType DEF Best
<1>2. ASSUME x # 0
      PROVE  \E c \in 1..NCand : Considered(c) /\ PaysBelowBreakEven(c, m)
  <2>1. x \in 1..NCand /\ Considered(x) /\ NetBenefit(x, m) > 0
    BY <1>1, <1>2 DEF Best
  <2>2. QED
    BY <2>1, NetIsBreakEven
<1>3. ASSUME x = 0
      PROVE  ~ \E c \in 1..NCand : Considered(c) /\ PaysBelowBreakEven(c, m)
  <2>1. \A c \in 1..NCand : Considered(c) => NetBenefit(c, m) <= 0
    BY <1>3 DEF Best
  <2>2. \A c \in 1..NCand : Considered(c) => ~(NetBenefit(c, m) > 0)
    BY <2>1, NetType
  <2>3. QED
    BY <2>2, NetIsBreakEven
<1>4. QED
  BY <1>2, <1>3

\* A margin takes the same off every candidate, so it cannot change which is best.
LEMMA MarginKeepsBest ==
  ASSUME PolicyTypeInv, who # "done", NEW m \in Nat,
         NEW x, Best(x, NCand, m), NEW y, Best(y, NCand, 0)
  PROVE  /\ x \in {0, y}
         /\ x # y => y # 0 /\ NetBenefit(y, 0) > 0 /\ NetBenefit(y, 0) <= m
<1>1. NCand \in Nat /\ x \in 0..NCand /\ y \in 0..NCand
  BY CandType DEF Best
<1> DEFINE net(c) == NetBenefit(c, 0)
<1>2. \A c \in 1..NCand : net(c) \in Int /\ NetBenefit(c, m) = net(c) - m
  BY NetType
<1>3. ASSUME x # 0
      PROVE  x = y
  <2>1. x \in 1..NCand /\ Considered(x) /\ net(x) - m > 0
    BY <1>1, <1>2, <1>3 DEF Best
  <2>2. net(x) > 0 /\ net(x) \in Int
    BY <1>2, <2>1
  <2>3. y # 0 /\ y \in 1..NCand /\ Considered(y)
    BY <1>1, <2>1, <2>2 DEF Best
  <2>4. net(x) <= net(y) /\ (x < y => net(x) < net(y))
    BY <2>1, <2>3 DEF Best
  <2>5. net(y) - m <= net(x) - m /\ (y < x => net(y) - m < net(x) - m)
    BY <1>2, <1>3, <2>1, <2>3 DEF Best
  <2>6. net(y) \in Int
    BY <1>2, <2>3
  <2> HIDE DEF net
  <2>7. net(x) = net(y)
    BY <2>2, <2>4, <2>5, <2>6
  <2>8. QED
    BY <1>1, <2>2, <2>4, <2>5, <2>7
<1>4. ASSUME x = 0, y # 0
      PROVE  net(y) > 0 /\ net(y) <= m
  <2>1. y \in 1..NCand /\ Considered(y) /\ net(y) > 0
    BY <1>1, <1>4 DEF Best
  <2>2. net(y) - m <= 0 /\ net(y) \in Int
    BY <1>2, <1>4, <2>1 DEF Best
  <2>3. QED
    BY <2>1, <2>2
<1>5. QED
  BY <1>3, <1>4

\* A decision is the oracle's or a bypass, and either pays exactly where the
\* bandwidth is below the break-even of an allowed candidate: for every table of
\* candidates, every margin and every bandwidth.
THEOREM MarginOnlyEverBypasses == PolicySpec => []MarginOnlyBypasses
<1>1. PolicyInv => MarginOnlyBypasses
  <2>1. SUFFICES ASSUME PolicyInv, who = "score"
                 PROVE  /\ dec \in {0, orc}
                        /\ \A m \in {0, Margins[margin]} :
                             (IF m = 0 THEN orc ELSE dec) # 0 <=>
                               \E c \in 1..NCand : Considered(c) /\ PaysBelowBreakEven(c, m)
    BY DEF MarginOnlyBypasses
  <2>2. /\ PolicyTypeInv /\ who # "done" /\ Margins[margin] \in Nat
        /\ Best(dec, NCand, Margins[margin]) /\ Best(orc, NCand, 0)
    BY <2>1, MarginType DEF PolicyInv, RowInv
  <2>3. dec \in {0, orc}
    BY <2>2, MarginKeepsBest
  <2>4. orc # 0 <=> \E c \in 1..NCand : Considered(c) /\ PaysBelowBreakEven(c, 0)
    BY <2>2, BestPays
  <2>5. dec # 0 <=> \E c \in 1..NCand : Considered(c) /\ PaysBelowBreakEven(c, Margins[margin])
    BY <2>2, BestPays
  <2>6. QED
    BY <2>3, <2>4, <2>5
<1>2. QED
  BY <1>1, PolicyInvInit, PolicyInvInductive, PTL DEF PolicySpec
-----------------------------------------------------------------------------
(* The counts.                                                              *)

Rows == (1..Len(Payloads)) \X (1..Len(Bandwidths))

\* The rows the loops have been through when they come to payload p at bandwidth b.
Before(p, b) == {r \in Rows : r[1] < p \/ (r[1] = p /\ r[2] < b)}

\* No candidate allowed pays, margin or not.
NonePays(p, b) ==
  \A c \in 1..Len(Payloads[p].candidates) :
    LET cand == Payloads[p].candidates[c] IN
    (cand.mode # "bf16_passthrough" /\ cand.ok) =>
      (Payloads[p].original - cand.bytes) * (SecondUnits \div Bandwidths[b])
        - (cand.encode + cand.decode + 0) <= 0

Hopeless(S) == {r \in S : NonePays(r[1], r[2])}

\* Counts of the rows S under the j-th margin: what bypasses is what the oracle
\* bypasses and what was flipped.
Tallied(t, S, j) ==
  /\ t.compress + t.bypass = Cardinality(S)
  /\ t.bypass = Cardinality(Hopeless(S)) + t.flip
  /\ 0 <= t.regret /\ t.regret <= t.flip * Margins[j]
  /\ Margins[j] = 0 => t.flip = 0

CountInv ==
  /\ who # "done" => Len(summary) = margin - 1 /\ Tallied(tally, Before(payload, bw), margin)
  /\ who = "done" => tally = Zero
  /\ \A j \in DOMAIN summary : j \in DOMAIN Margins /\ Tallied(summary[j], Rows, j)

\* The tables' lengths.
LEMMA Lengths ==
  /\ Len(Payloads) \in Nat /\ Len(Bandwidths) \in Nat
  /\ DOMAIN Payloads = 1..Len(Payloads) /\ DOMAIN Bandwidths = 1..Len(Bandwidths)
  /\ Margins \in Seq(Nat) /\ 1 \in DOMAIN Margins
  /\ IsFiniteSet(Rows) /\ Cardinality(Rows) = Len(Payloads) * Len(Bandwidths)
<1>1. Payloads \in Seq([original : Nat, candidates : Seq(Candidates)])
  BY PolicyAssumption, Zenon
<1>2. Bandwidths \in Seq(Nat \ {0}) /\ Margins \in Seq(Nat) /\ Margins # << >>
  BY PolicyAssumption
<1>3. \A S : \A s \in Seq(S) : Len(s) \in Nat /\ DOMAIN s = 1..Len(s)
  OBVIOUS
<1>4. /\ Len(Payloads) \in Nat /\ Len(Bandwidths) \in Nat
      /\ DOMAIN Payloads = 1..Len(Payloads) /\ DOMAIN Bandwidths = 1..Len(Bandwidths)
      /\ 1 \in DOMAIN Margins
  BY <1>1, <1>2, <1>3
<1>5. \A n \in Nat : IsFiniteSet(1..n) /\ Cardinality(1..n) = n
  <2>1. TAKE n \in Nat
  <2>2. IsFiniteSet(1..n) /\ Cardinality(1..n) = IF 1 > n THEN 0 ELSE n - 1 + 1
    BY FS_Interval
  <2>3. QED
    BY <2>2
<1>6. IsFiniteSet(Rows) /\ Cardinality(Rows) = Len(Payloads) * Len(Bandwidths)
  <2> DEFINE m == Len(Payloads)
             n == Len(Bandwidths)
  <2>1. IsFiniteSet(1..m) /\ Cardinality(1..m) = m /\ IsFiniteSet(1..n) /\ Cardinality(1..n) = n
    BY <1>4, <1>5
  <2>2. Rows = (1..m) \X (1..n)
    BY DEF Rows
  <2> HIDE DEF m, n
  <2>3. IsFiniteSet((1..m) \X (1..n)) /\ Cardinality((1..m) \X (1..n)) = Cardinality(1..m) * Cardinality(1..n)
    BY <2>1, FS_Product
  <2>4. QED
    BY <2>1, <2>2, <2>3 DEF m, n
<1>7. QED
  BY <1>2, <1>4, <1>6

\* The loops go through the rows one by one.
LEMMA OneRow ==
  ASSUME NEW p \in DOMAIN Payloads, NEW b \in DOMAIN Bandwidths
  PROVE  LET S == Before(p, b) \union {<<p, b>>} IN
         /\ <<p, b>> \notin Before(p, b) /\ IsFiniteSet(Before(p, b))
         /\ b < Len(Bandwidths) => Before(p, b + 1) = S
         /\ b >= Len(Bandwidths) /\ p < Len(Payloads) => Before(p + 1, 1) = S
         /\ b >= Len(Bandwidths) /\ p >= Len(Payloads) => Rows = S
<1> DEFINE m == Len(Payloads)
           n == Len(Bandwidths)
<1>1. p \in 1..m /\ b \in 1..n /\ m \in Nat /\ n \in Nat
  BY Lengths
<1>2. Rows = (1..m) \X (1..n)
  BY DEF Rows
<1>3. IsFiniteSet(Before(p, b))
  BY Lengths, FS_Subset DEF Before
<1> HIDE DEF m, n
<1>4. \A i, j \in Nat : <<i, j>>[1] = i /\ <<i, j>>[2] = j
  OBVIOUS
<1>5. \A r \in Rows : r = <<r[1], r[2]>> /\ r[1] \in 1..m /\ r[2] \in 1..n
  BY <1>2
<1>6. <<p, b>> \in Rows /\ <<p, b>>[1] = p /\ <<p, b>>[2] = b
  BY <1>1, <1>2
<1>7. \A r \in Rows : r = <<p, b>> <=> r[1] = p /\ r[2] = b
  BY <1>5, <1>6
<1>8. <<p, b>> \notin Before(p, b)
  BY <1>1, <1>6 DEF Before
<1>9. b < n => Before(p, b + 1) = Before(p, b) \union {<<p, b>>}
  <2>1. \A r \in Rows : (r[1] < p \/ (r[1] = p /\ r[2] < b + 1))
                          <=> (r[1] < p \/ (r[1] = p /\ r[2] < b)) \/ r = <<p, b>>
    BY <1>1, <1>5, <1>7
  <2>2. QED
    BY <2>1, <1>6 DEF Before
<1>10. b >= n => \A r \in Rows : (r[1] < p + 1 \/ (r[1] = p + 1 /\ r[2] < 1))
                          <=> (r[1] < p \/ (r[1] = p /\ r[2] < b)) \/ r = <<p, b>>
  BY <1>1, <1>5, <1>7
<1>11. b >= n => Before(p + 1, 1) = Before(p, b) \union {<<p, b>>}
  BY <1>10, <1>6 DEF Before
<1>12. b >= n /\ p >= m => Rows = Before(p, b) \union {<<p, b>>}
  <2>1. p >= m => \A r \in Rows : r[1] < p + 1
    BY <1>1, <1>5
  <2>2. QED
    BY <2>1, <1>10, <1>6 DEF Before
<1>13. QED
  BY <1>3, <1>8, <1>9, <1>11, <1>12 DEF m, n

\* The oracle bypasses a row where none pays.
LEMMA OracleBypasses ==
  ASSUME PolicyTypeInv, who # "done", Best(orc, NCand, 0)
  PROVE  orc = 0 <=> NonePays(payload, bw)
<1>1. \A c \in 1..NCand :
        (Considered(c) => NetBenefit(c, 0) <= 0) <=>
        LET cand == Payloads[payload].candidates[c] IN
          (cand.mode # "bf16_passthrough" /\ cand.ok) =>
            (Payloads[payload].original - cand.bytes) * (SecondUnits \div Bandwidths[bw])
              - (cand.encode + cand.decode + 0) <= 0
  BY DEF Considered, NetBenefit, Saved, Transfer, CodecCost, Cand
<1>2. NonePays(payload, bw) <=> \A c \in 1..NCand : Considered(c) => NetBenefit(c, 0) <= 0
  BY <1>1 DEF NonePays, NCand
<1>3. orc = 0 => \A c \in 1..NCand : Considered(c) => NetBenefit(c, 0) <= 0
  BY DEF Best
<1>4. orc # 0 => orc \in 1..NCand /\ Considered(orc) /\ NetBenefit(orc, 0) > 0 /\ NetBenefit(orc, 0) \in Int
  BY CandType, NetType DEF Best
<1>5. QED
  BY <1>2, <1>3, <1>4

\* A row more in the counts.
LEMMA CountedTallied ==
  ASSUME PolicyInv, who = "score", Tallied(tally, Before(payload, bw), margin)
  PROVE  Tallied(Counted, Before(payload, bw) \union {<<payload, bw>>}, margin)
<1> DEFINE row == <<payload, bw>>
           S == Before(payload, bw)
           M == Margins[margin]
<1>1. /\ PolicyTypeInv /\ who # "done" /\ M \in Nat
      /\ payload \in DOMAIN Payloads /\ bw \in DOMAIN Bandwidths
      /\ Best(dec, NCand, M) /\ Best(orc, NCand, 0)
  BY MarginType DEF PolicyInv, PolicyTypeInv, RowInv
<1>2. /\ tally.compress \in Nat /\ tally.bypass \in Nat /\ tally.flip \in Nat /\ tally.regret \in Int
      /\ Realised(dec) \in Int /\ Realised(orc) \in Int
  <2>1. tally \in [compress : Nat, bypass : Nat, flip : Nat, regret : Int]
    BY DEF PolicyInv, PolicyTypeInv
  <2>2. QED
    BY <2>1, CountedType
<1>3. row \notin S /\ IsFiniteSet(S)
  BY <1>1, OneRow
<1>4. Cardinality(S \union {row}) = Cardinality(S) + 1 /\ Cardinality(S) \in Nat
  BY <1>3, FS_AddElement, FS_CardinalityType
<1>5. /\ orc = 0 => Cardinality(Hopeless(S \union {row})) = Cardinality(Hopeless(S)) + 1
      /\ orc # 0 => Cardinality(Hopeless(S \union {row})) = Cardinality(Hopeless(S))
      /\ Cardinality(Hopeless(S)) \in Nat
  <2>1. row[1] = payload /\ row[2] = bw
    OBVIOUS
  <2>2. orc = 0 <=> NonePays(row[1], row[2])
    BY <1>1, <2>1, OracleBypasses
  <2> HIDE DEF row, S
  <2>3. IsFiniteSet(Hopeless(S)) /\ row \notin Hopeless(S)
    BY <1>3, FS_Subset DEF Hopeless
  <2>4. orc = 0 => Hopeless(S \union {row}) = Hopeless(S) \union {row}
    BY <2>2 DEF Hopeless
  <2>5. orc # 0 => Hopeless(S \union {row}) = Hopeless(S)
    BY <2>2 DEF Hopeless
  <2>6. QED
    BY <2>3, <2>4, <2>5, FS_AddElement, FS_CardinalityType
<1>6. /\ dec \in {0, orc}
      /\ dec # orc => orc # 0 /\ Realised(orc) > 0 /\ Realised(orc) <= M /\ Realised(dec) = 0
      /\ dec = orc => Realised(orc) - Realised(dec) = 0
  <2>1. dec \in {0, orc} /\ (dec # orc => orc # 0 /\ NetBenefit(orc, 0) > 0 /\ NetBenefit(orc, 0) <= M)
    BY <1>1, MarginKeepsBest
  <2>2. QED
    BY <2>1, <1>2 DEF Realised
<1>7. M = 0 => dec = orc
  BY <1>1, <1>2, <1>6
<1>8. /\ Counted.compress = tally.compress + (IF dec = 0 THEN 0 ELSE 1)
      /\ Counted.bypass = tally.bypass + (IF dec = 0 THEN 1 ELSE 0)
      /\ Counted.flip = tally.flip + (IF dec = orc THEN 0 ELSE 1)
      /\ Counted.regret = tally.regret + (Realised(orc) - Realised(dec))
  BY DEF Counted
<1>9. /\ tally.compress + tally.bypass = Cardinality(S)
      /\ tally.bypass = Cardinality(Hopeless(S)) + tally.flip
      /\ 0 <= tally.regret /\ tally.regret <= tally.flip * M
      /\ M = 0 => tally.flip = 0
  BY DEF Tallied
<1> HIDE DEF S, row, M
<1>10. Counted.compress + Counted.bypass = Cardinality(S \union {row})
  BY <1>2, <1>4, <1>8, <1>9
<1>11. Counted.bypass = Cardinality(Hopeless(S \union {row})) + Counted.flip
  <2>1. CASE dec = 0 /\ orc = 0
    BY <2>1, <1>2, <1>5, <1>8, <1>9
  <2>2. CASE dec = 0 /\ orc # 0
    BY <2>2, <1>2, <1>5, <1>8, <1>9
  <2>3. CASE dec # 0
    <3>1. dec = orc /\ orc # 0
      BY <2>3, <1>6
    <3>2. QED
      BY <2>3, <3>1, <1>2, <1>5, <1>8, <1>9
  <2>4. QED
    BY <2>1, <2>2, <2>3
<1>12. 0 <= Counted.regret /\ Counted.regret <= Counted.flip * M
  <2>1. CASE dec = orc
    BY <2>1, <1>1, <1>2, <1>6, <1>8, <1>9
  <2>2. CASE dec # orc
    <3>1. (tally.flip + 1) * M = tally.flip * M + M /\ tally.flip * M \in Int /\ M \in Nat
      BY <1>1, <1>2 DEF M
    <3>2. Counted.regret = tally.regret + Realised(orc) /\ Counted.flip = tally.flip + 1
      BY <2>2, <1>2, <1>6, <1>8
    <3>3. QED
      BY <3>1, <3>2, <2>2, <1>2, <1>6, <1>9
  <2>3. QED
    BY <2>1, <2>2
<1>13. M = 0 => Counted.flip = 0
  BY <1>2, <1>7, <1>8, <1>9
<1>14. QED
  BY <1>10, <1>11, <1>12, <1>13 DEF Tallied, M, S, row

\* No row, no counts.
LEMMA NothingTallied ==
  ASSUME NEW j \in DOMAIN Margins
  PROVE  Tallied(Zero, Before(1, 1), j)
<1>1. \A r \in Rows : r[1] >= 1 /\ r[2] >= 1 /\ r[1] \in Int /\ r[2] \in Int
  BY Lengths DEF Rows
<1>2. Before(1, 1) = {}
  BY <1>1 DEF Before
<1>3. Hopeless({}) = {}
  BY DEF Hopeless
<1>4. Cardinality({}) = 0
  BY FS_EmptySet
<1>5. Margins[j] \in Nat
  BY Lengths, ElementType
<1>6. Zero.compress = 0 /\ Zero.bypass = 0 /\ Zero.flip = 0 /\ Zero.regret = 0
  BY DEF Zero
<1>7. QED
  BY <1>2, <1>3, <1>4, <1>5, <1>6 DEF Tallied

\* The steps.
LEMMA CountInvInductive ==
  ASSUME PolicyInv, PolicyInv', CountInv, [PolicyNext]_policyVars
  PROVE  CountInv'
<1>1. CASE Look \/ Choose \/ UNCHANGED policyVars
  <2>1. UNCHANGED <<margin, payload, bw, tally, summary>> /\ (who' = "done" <=> who = "done")
    BY <1>1 DEF Look, Choose, policyVars
  <2>2. QED
    BY <2>1 DEF CountInv, Tallied
<1>2. CASE ScoreRow
  <2> DEFINE S == Before(payload, bw) \union {<<payload, bw>>}
  <2>1. /\ who = "score" /\ who # "done" /\ payload \in DOMAIN Payloads /\ bw \in DOMAIN Bandwidths
        /\ margin \in DOMAIN Margins /\ margin \in Nat \ {0}
    BY <1>2 DEF ScoreRow, PolicyInv, PolicyTypeInv
  <2>2. Len(summary) = margin - 1 /\ Tallied(tally, Before(payload, bw), margin)
    BY <2>1 DEF CountInv
  <2>3. Tallied(Counted, S, margin)
    BY <2>1, <2>2, CountedTallied
  <2>4. /\ bw < Len(Bandwidths) => Before(payload, bw + 1) = S
        /\ bw >= Len(Bandwidths) /\ payload < Len(Payloads) => Before(payload + 1, 1) = S
        /\ bw >= Len(Bandwidths) /\ payload >= Len(Payloads) => Rows = S
    BY <2>1, OneRow
  <2> HIDE DEF S
  <2>5. Len(Bandwidths) \in Nat /\ Len(Payloads) \in Nat /\ bw \in Nat /\ payload \in Nat
    BY <2>1, Lengths
  <2>6. CASE bw < Len(Bandwidths)
    <3>1. bw' = bw + 1 /\ tally' = Counted /\ who' = "decide" /\ UNCHANGED <<payload, margin, summary>>
      BY <1>2, <2>6 DEF ScoreRow
    <3>2. Tallied(Counted, Before(payload, bw + 1), margin)
      BY <2>3, <2>4, <2>6
    <3>3. QED
      BY <3>1, <3>2, <2>2 DEF CountInv, Tallied
  <2>7. CASE bw >= Len(Bandwidths) /\ payload < Len(Payloads)
    <3>1. /\ bw' = 1 /\ payload' = payload + 1 /\ tally' = Counted /\ who' = "decide"
          /\ UNCHANGED <<margin, summary>>
      BY <1>2, <2>5, <2>7 DEF ScoreRow
    <3>2. Tallied(Counted, Before(payload + 1, 1), margin)
      BY <2>3, <2>4, <2>7
    <3>3. QED
      BY <3>1, <3>2, <2>2 DEF CountInv, Tallied
  <2>8. CASE bw >= Len(Bandwidths) /\ payload >= Len(Payloads)
    <3>1. /\ bw' = 1 /\ payload' = 1 /\ tally' = Zero /\ summary' = Append(summary, Counted)
          /\ IF margin < Len(Margins) THEN margin' = margin + 1 /\ who' = "decide"
             ELSE margin' = margin /\ who' = "done"
      BY <1>2, <2>5, <2>8 DEF ScoreRow
    <3>2. Tallied(Counted, Rows, margin)
      BY <2>3, <2>4, <2>8
    <3>3. summary \in Seq([compress : Nat, bypass : Nat, flip : Nat, regret : Int])
      BY DEF PolicyInv, PolicyTypeInv
    <3>4. Len(summary') = margin /\ \A j \in DOMAIN summary' :
            (j \in DOMAIN summary /\ summary'[j] = summary[j]) \/ (j = margin /\ summary'[j] = Counted)
      <4>1. Len(summary) + 1 = margin
        BY <2>1, <2>2
      <4>2. \A T : \A q \in Seq(T) : \A x :
              /\ Len(Append(q, x)) = Len(q) + 1
              /\ \A j \in DOMAIN Append(q, x) :
                   \/ j \in DOMAIN q /\ Append(q, x)[j] = q[j]
                   \/ j = Len(q) + 1 /\ Append(q, x)[j] = x
        OBVIOUS
      <4>3. QED
        BY Zenon, <3>1, <3>3, <4>1, <4>2
    <3>5. \A j \in DOMAIN summary' : j \in DOMAIN Margins /\ Tallied(summary'[j], Rows, j)
      BY <3>2, <3>4, <2>1 DEF CountInv
    <3>6. who' # "done" => margin' \in DOMAIN Margins /\ margin' - 1 = margin
      <4>1. margin' \in DOMAIN Margins
        BY DEF PolicyInv, PolicyTypeInv
      <4>2. who' # "done" => margin' = margin + 1
        BY <3>1
      <4>3. QED
        BY <4>1, <4>2, <2>1
    <3>7. who' # "done" => Tallied(Zero, Before(1, 1), margin')
      BY <3>6, NothingTallied
    <3>8. QED
      BY <3>1, <3>4, <3>5, <3>6, <3>7 DEF CountInv, Tallied
  <2>9. QED
    BY <2>5, <2>6, <2>7, <2>8
<1>3. QED
  BY <1>1, <1>2 DEF PolicyNext

\* What a margin gives up is at most the margin for every decision it turned, and
\* every bypass beyond margin 0's is such a decision: for every table.
THEOREM RegretIsOfFlips == PolicySpec => []RegretIsFlips
<1>1. PolicyInit => CountInv
  <2>1. ASSUME PolicyInit
        PROVE  CountInv
    <3>1. margin = 1 /\ payload = 1 /\ bw = 1 /\ tally = Zero /\ summary = << >>
      BY <2>1 DEF PolicyInit
    <3>2. Tallied(Zero, Before(1, 1), 1)
      BY NothingTallied, Lengths
    <3>3. Len(summary) = margin - 1 /\ DOMAIN summary = {}
      BY <3>1
    <3>4. QED
      BY <3>1, <3>2, <3>3 DEF CountInv
  <2>2. QED
    BY <2>1
<1>2. PolicyInv /\ CountInv => RegretIsFlips
  <2>1. SUFFICES ASSUME PolicyInv, CountInv PROVE RegretIsFlips
    OBVIOUS
  <2>2. 0 <= tally.regret /\ tally.regret <= tally.flip * Margins[margin]
    <3>1. CASE who = "done"
      <4>1. margin \in DOMAIN Margins
        BY <2>1 DEF PolicyInv, PolicyTypeInv
      <4>2. Margins[margin] \in Nat /\ tally.regret = 0 /\ tally.flip = 0
        BY <4>1, <3>1, <2>1, Lengths, ElementType DEF CountInv, Zero
      <4>3. QED
        BY <4>2
    <3>2. CASE who # "done"
      BY <2>1, <3>2 DEF CountInv, Tallied
    <3>3. QED
      BY <3>1, <3>2
  <2>3. ASSUME NEW j \in DOMAIN summary
        PROVE  /\ 0 <= summary[j].regret /\ summary[j].regret <= summary[j].flip * Margins[j]
               /\ summary[j].compress + summary[j].bypass = Len(Payloads) * Len(Bandwidths)
               /\ Margins[1] = 0 => summary[j].bypass = summary[1].bypass + summary[j].flip
    <3>1. summary \in Seq([compress : Nat, bypass : Nat, flip : Nat, regret : Int])
      BY <2>1 DEF PolicyInv, PolicyTypeInv
    <3>2. 1 \in DOMAIN summary
      BY <3>1
    <3>3. Tallied(summary[j], Rows, j) /\ Tallied(summary[1], Rows, 1)
      BY <2>1, <3>2 DEF CountInv
    <3>4. summary[1] \in [compress : Nat, bypass : Nat, flip : Nat, regret : Int]
      BY <3>1, <3>2, ElementType, Zenon
    <3>5. summary[1].bypass \in Nat
      BY <3>4
    <3>6. IsFiniteSet(Hopeless(Rows))
      BY Lengths, FS_Subset DEF Hopeless
    <3>7. Cardinality(Hopeless(Rows)) \in Nat
      BY <3>6, FS_CardinalityType
    <3>8. Margins[1] = 0 => summary[1].bypass = Cardinality(Hopeless(Rows))
      BY <3>3, <3>7 DEF Tallied
    <3>9. QED
      BY <3>3, <3>8, Lengths DEF Tallied
  <2>4. QED
    BY <2>2, <2>3 DEF RegretIsFlips
<1>3. QED
  BY <1>1, <1>2, PolicyInvInit, PolicyInvInductive, CountInvInductive, PTL DEF PolicySpec

-----------------------------------------------------------------------------
(* Sums over finite sets, in the order the library's MapThenSumSet takes.    *)

\* The sum of f over a finite set, taken in the order CHOOSE picks.
Some(s) == CHOOSE x \in s : TRUE
SumFrom(f, g, s) == IF s = {} THEN 0 ELSE f[Some(s)] + g[s \ {Some(s)}]
Sums(f, A, g) == g = [s \in SUBSET A |-> SumFrom(f, g, s)]
Sum(f, A) == (CHOOSE g : Sums(f, A, g))[A]

LEMMA SomeIn == \A s : s # {} => Some(s) \in s
BY Zenon DEF Some

LEMMA OneLess ==
  ASSUME NEW s, IsFiniteSet(s), NEW x \in s
  PROVE  /\ IsFiniteSet(s \ {x}) /\ Cardinality(s) \in Nat \ {0}
         /\ Cardinality(s \ {x}) = Cardinality(s) - 1
<1>1. IsFiniteSet(s \ {x}) /\ Cardinality(s \ {x}) = Cardinality(s) - 1
  BY FS_RemoveElement
<1>2. Cardinality(s) \in Nat /\ Cardinality(s \ {x}) \in Nat
  BY <1>1, FS_CardinalityType
<1>. QED BY <1>1, <1>2

\* Such a g exists: it is built from the small sets up.
LEMMA SumsDefined ==
  ASSUME NEW A, IsFiniteSet(A), NEW f
  PROVE  \E g : Sums(f, A, g)
<1> DEFINE n == Cardinality(A)
           Upto(sz) == {s \in SUBSET A : Cardinality(s) < sz}
           Has(sz) == \E g : g = [s \in Upto(sz) |-> SumFrom(f, g, s)]
           Good == {sz \in 1..(n + 1) : Has(sz)}
<1>0. n \in Nat /\ \A s \in SUBSET A : IsFiniteSet(s) /\ Cardinality(s) \in Nat /\ Cardinality(s) <= n
  <2>1. n \in Nat
    BY FS_CardinalityType
  <2>2. \A s \in SUBSET A : IsFiniteSet(s) /\ Cardinality(s) \in Nat /\ Cardinality(s) <= n
    BY FS_Subset, FS_CardinalityType
  <2>. QED BY <2>1, <2>2
<1>1. Has(1)
  <2> DEFINE g == [s \in Upto(1) |-> 0]
  <2>1. \A s \in Upto(1) : s = {}
    <3> TAKE s \in Upto(1)
    <3>1. IsFiniteSet(s) /\ Cardinality(s) = 0
      BY <1>0
    <3>. QED BY <3>1, FS_EmptySet
  <2>2. g = [s \in Upto(1) |-> SumFrom(f, g, s)]
    <3>1. \A s \in Upto(1) : SumFrom(f, g, s) = 0
      BY Zenon, <2>1 DEF SumFrom
    <3>. HIDE DEF Upto
    <3>. QED BY Zenon, <3>1
  <2>. QED BY <2>2
<1>2. ASSUME NEW sz \in 2..(n + 1), Has(sz - 1) PROVE Has(sz)
  <2>1. PICK g : g = [s \in Upto(sz - 1) |-> SumFrom(f, g, s)]
    BY <1>2
  <2> DEFINE h == [s \in Upto(sz) |-> SumFrom(f, g, s)]
  <2>2. \A s \in Upto(sz) : s # {} => s \ {Some(s)} \in Upto(sz - 1) /\ s \ {Some(s)} \in Upto(sz)
    <3> TAKE s \in Upto(sz)
    <3> HAVE s # {}
    <3>1. IsFiniteSet(s) /\ Some(s) \in s /\ Cardinality(s) < sz /\ s \in SUBSET A
      BY <1>0, SomeIn
    <3>2. Cardinality(s \ {Some(s)}) = Cardinality(s) - 1 /\ Cardinality(s) \in Nat
      BY <3>1, OneLess
    <3>. QED BY <3>1, <3>2
  <2>3. \A s \in Upto(sz - 1) : s \in Upto(sz)
    BY <1>0
  <2>4. \A s \in Upto(sz - 1) : g[s] = h[s]
    <3> TAKE s \in Upto(sz - 1)
    <3>1. g[s] = SumFrom(f, g, s)
      <4>. HIDE DEF Upto
      <4>. QED BY Zenon, <2>1
    <3>2. h[s] = SumFrom(f, g, s)
      <4>1. s \in Upto(sz)
        BY <2>3
      <4>. HIDE DEF Upto
      <4>. QED BY Zenon, <4>1
    <3>. QED BY Zenon, <3>1, <3>2
  <2>. HIDE DEF Upto
  <2>5. \A s \in Upto(sz) : SumFrom(f, g, s) = SumFrom(f, h, s)
    <3> TAKE s \in Upto(sz)
    <3>1. CASE s = {}
      BY Zenon, <3>1 DEF SumFrom
    <3>2. CASE s # {}
      <4>1. g[s \ {Some(s)}] = h[s \ {Some(s)}]
        BY Zenon, <2>2, <2>4, <3>2
      <4>. HIDE DEF h
      <4>. QED BY Zenon, <3>2, <4>1 DEF SumFrom
    <3>. QED BY <3>1, <3>2
  <2>6. h = [s \in Upto(sz) |-> SumFrom(f, h, s)]
    <3>1. h = [s \in Upto(sz) |-> SumFrom(f, g, s)]
      OBVIOUS
    <3>. HIDE DEF h
    <3>. QED BY Zenon, <2>5, <3>1
  <2>. QED BY <2>6
<1>3. \A sz \in 1..(n + 1) : sz \in Good
  <2>1. 1 \in Good /\ \A sz \in 2..(n + 1) : sz - 1 \in Good => sz \in Good
    <3>1. \A sz \in 2..(n + 1) : sz \in 1..(n + 1) /\ sz - 1 \in 1..(n + 1)
      BY <1>0
    <3>2. 1 \in 1..(n + 1)
      BY <1>0
    <3>. HIDE DEF Has
    <3>. QED BY <1>1, <1>2, <3>1, <3>2
  <2>2. n + 1 \in Nat
    BY <1>0
  <2>. HIDE DEF Good
  <2>. QED BY <2>1, <2>2, UpTo
<1>4. Has(n + 1)
  <2>1. n + 1 \in 1..(n + 1)
    BY <1>0
  <2>. QED BY <1>3, <2>1
<1>5. Upto(n + 1) = SUBSET A
  BY <1>0
<1>. HIDE DEF Upto
<1>. QED BY Zenon, <1>4, <1>5 DEF Sums

LEMMA SumsAre ==
  ASSUME NEW A, IsFiniteSet(A), NEW f
  PROVE  Sums(f, A, CHOOSE g : Sums(f, A, g))
BY Zenon, SumsDefined

\* What holds of a finite set once it holds of its smaller subsets holds of it.
Smaller(A, Good) ==
  \A s \in SUBSET A : (\A t \in SUBSET A : Cardinality(t) < Cardinality(s) => t \in Good) => s \in Good

LEMMA BySize ==
  ASSUME NEW A, IsFiniteSet(A), NEW Good, Smaller(A, Good)
  PROVE  A \in Good
<1> DEFINE n == Cardinality(A)
           Upto(sz) == \A s \in SUBSET A : Cardinality(s) < sz => s \in Good
           Done == {sz \in 1..(n + 1) : Upto(sz)}
<1>0. n \in Nat /\ \A s \in SUBSET A : Cardinality(s) \in Nat
  <2>1. n \in Nat
    BY FS_CardinalityType
  <2>2. \A s \in SUBSET A : Cardinality(s) \in Nat
    BY FS_Subset, FS_CardinalityType
  <2>. QED BY <2>1, <2>2
<1>1. Upto(1)
  <2> SUFFICES ASSUME NEW s \in SUBSET A, Cardinality(s) < 1 PROVE s \in Good
    OBVIOUS
  <2>1. \A t \in SUBSET A : ~(Cardinality(t) < Cardinality(s))
    BY <1>0
  <2>. QED BY Zenon, <2>1 DEF Smaller
<1>2. ASSUME NEW sz \in 2..(n + 1), Upto(sz - 1) PROVE Upto(sz)
  <2> SUFFICES ASSUME NEW s \in SUBSET A, Cardinality(s) < sz PROVE s \in Good
    OBVIOUS
  <2>1. \A t \in SUBSET A : Cardinality(t) < Cardinality(s) => Cardinality(t) < sz - 1
    BY <1>0
  <2>2. \A t \in SUBSET A : Cardinality(t) < Cardinality(s) => t \in Good
    BY <1>2, <2>1
  <2>. QED BY Zenon, <2>2 DEF Smaller
<1>3. \A sz \in 1..(n + 1) : sz \in Done
  <2>1. \A sz \in 2..(n + 1) : sz \in 1..(n + 1) /\ sz - 1 \in 1..(n + 1)
    BY <1>0
  <2>2. 1 \in 1..(n + 1)
    BY <1>0
  <2>3. 1 \in Done /\ \A sz \in 2..(n + 1) : sz - 1 \in Done => sz \in Done
    <3>. HIDE DEF Upto
    <3>. QED BY <1>1, <1>2, <2>1, <2>2
  <2>4. n + 1 \in Nat
    BY <1>0
  <2>. HIDE DEF Done
  <2>. QED BY <2>3, <2>4, UpTo
<1>4. n + 1 \in Done /\ n < n + 1
  BY <1>0, <1>3
<1>. QED BY <1>4

\* A part of the sum's function is the part's sum.
LEMMA SumOfPart ==
  ASSUME NEW A, IsFiniteSet(A), NEW f, NEW B \in SUBSET A
  PROVE  (CHOOSE g : Sums(f, A, g))[B] = Sum(f, B)
<1> DEFINE a == CHOOSE g : Sums(f, A, g)
           b == CHOOSE g : Sums(f, B, g)
           Good == {s \in SUBSET B : a[s] = b[s]}
<1>1. Sums(f, A, a)
  BY SumsAre
<1>2. IsFiniteSet(B) /\ Sums(f, B, b)
  BY FS_Subset, SumsAre
<1>. HIDE DEF a, b
<1>3. Smaller(B, Good)
  <2> SUFFICES ASSUME NEW s \in SUBSET B,
                      \A t \in SUBSET B : Cardinality(t) < Cardinality(s) => t \in Good
               PROVE  a[s] = b[s]
    BY DEF Smaller
  <2>1. a[s] = SumFrom(f, a, s)
    BY Zenon, <1>1 DEF Sums
  <2>2. b[s] = SumFrom(f, b, s)
    BY Zenon, <1>2 DEF Sums
  <2>3. CASE s = {}
    BY Zenon, <2>1, <2>2, <2>3 DEF SumFrom
  <2>4. CASE s # {}
    <3> DEFINE t == s \ {Some(s)}
    <3>1. Some(s) \in s /\ IsFiniteSet(s)
      BY <1>2, <2>4, SomeIn, FS_Subset
    <3>2. Cardinality(t) = Cardinality(s) - 1 /\ Cardinality(s) \in Nat
      BY <3>1, OneLess
    <3>3. t \in SUBSET B /\ Cardinality(t) < Cardinality(s)
      BY <3>2
    <3>4. a[t] = b[t]
      <4>. HIDE DEF t
      <4>. QED BY <3>3
    <3>. QED BY Zenon, <2>1, <2>2, <2>4, <3>4 DEF SumFrom
  <2>. QED BY <2>3, <2>4
<1>4. B \in Good
  <2>. HIDE DEF Good
  <2>. QED BY <1>2, <1>3, BySize
<1>. QED BY <1>4 DEF Sum, a, b

LEMMA SumEmpty == \A f : Sum(f, {}) = 0
<1> TAKE f
<1>1. Sums(f, {}, CHOOSE g : Sums(f, {}, g))
  BY FS_EmptySet, SumsAre
<1>. QED BY Zenon, <1>1 DEF Sum, Sums, SumFrom

LEMMA SumStep ==
  ASSUME NEW A, IsFiniteSet(A), A # {}, NEW f
  PROVE  Sum(f, A) = f[Some(A)] + Sum(f, A \ {Some(A)})
<1> DEFINE a == CHOOSE g : Sums(f, A, g)
           B == A \ {Some(A)}
<1>1. Sums(f, A, a)
  BY SumsAre
<1>2. a[B] = Sum(f, B)
  <2>1. B \in SUBSET A
    OBVIOUS
  <2>. HIDE DEF B
  <2>. QED BY <2>1, SumOfPart
<1>3. Sum(f, A) = a[A]
  BY DEF Sum
<1>. HIDE DEF a
<1>4. a[A] = f[Some(A)] + a[B]
  <2>1. A \in SUBSET A
    OBVIOUS
  <2>2. a[A] = SumFrom(f, a, A)
    BY Zenon, <1>1, <2>1 DEF Sums
  <2>. QED BY Zenon, <2>2 DEF SumFrom
<1>. QED BY Zenon, <1>2, <1>3, <1>4

LEMMA SumType ==
  ASSUME NEW A, IsFiniteSet(A), NEW f, \A x \in A : f[x] \in Int
  PROVE  Sum(f, A) \in Int
<1> DEFINE Good == {s \in SUBSET A : Sum(f, s) \in Int}
<1>1. Smaller(A, Good)
  <2> SUFFICES ASSUME NEW s \in SUBSET A,
                      \A t \in SUBSET A : Cardinality(t) < Cardinality(s) => t \in Good
               PROVE  Sum(f, s) \in Int
    BY DEF Smaller
  <2>1. CASE s = {}
    BY <2>1, SumEmpty
  <2>2. CASE s # {}
    <3> DEFINE t == s \ {Some(s)}
    <3>1. Some(s) \in s /\ IsFiniteSet(s)
      BY <2>2, SomeIn, FS_Subset
    <3>2. Cardinality(t) = Cardinality(s) - 1 /\ Cardinality(s) \in Nat
      BY <3>1, OneLess
    <3>3. t \in SUBSET A /\ Cardinality(t) < Cardinality(s)
      BY <3>2
    <3>4. Sum(f, s) = f[Some(s)] + Sum(f, t)
      BY <2>2, <3>1, SumStep
    <3>5. f[Some(s)] \in Int
      BY <3>1
    <3>. HIDE DEF t
    <3>6. Sum(f, t) \in Int
      BY <3>3
    <3>. QED BY <3>4, <3>5, <3>6
  <2>. QED BY <2>1, <2>2
<1>2. A \in Good
  <2>. HIDE DEF Good
  <2>. QED BY <1>1, BySize
<1>. QED BY <1>2

\* Any member may be taken first.
LEMMA SumTake ==
  ASSUME NEW A, IsFiniteSet(A), NEW f, \A x \in A : f[x] \in Int, NEW x \in A
  PROVE  Sum(f, A) = f[x] + Sum(f, A \ {x})
<1> DEFINE Good == {s \in SUBSET A : \A y \in s : Sum(f, s) = f[y] + Sum(f, s \ {y})}
<1>1. Smaller(A, Good)
  <2> SUFFICES ASSUME NEW s \in SUBSET A,
                      \A t \in SUBSET A : Cardinality(t) < Cardinality(s) => t \in Good,
                      NEW y \in s
               PROVE  Sum(f, s) = f[y] + Sum(f, s \ {y})
    BY DEF Smaller
  <2> DEFINE z == Some(s)
             t == s \ {z}
             u == s \ {y}
             w == (s \ {z}) \ {y}
  <2>1. z \in s /\ IsFiniteSet(s)
    BY SomeIn, FS_Subset
  <2>2. Sum(f, s) = f[z] + Sum(f, t)
    BY <2>1, SumStep
  <2>. HIDE DEF z
  <2>3. CASE y = z
    BY <2>2, <2>3
  <2>4. CASE y # z
    <3>1. /\ Cardinality(t) = Cardinality(s) - 1 /\ Cardinality(u) = Cardinality(s) - 1
          /\ Cardinality(s) \in Nat /\ IsFiniteSet(t) /\ IsFiniteSet(u)
      BY <2>1, OneLess
    <3>2. t \in SUBSET A /\ Cardinality(t) < Cardinality(s) /\ y \in t
      BY <2>4, <3>1
    <3>3. u \in SUBSET A /\ Cardinality(u) < Cardinality(s) /\ z \in u
      BY <2>1, <2>4, <3>1
    <3>4. t \ {y} = w /\ u \ {z} = w
      OBVIOUS
    <3>. HIDE DEF t, u, w
    <3>5. Sum(f, t) = f[y] + Sum(f, w)
      <4>1. t \in Good
        BY <3>2
      <4>2. \A v \in t : Sum(f, t) = f[v] + Sum(f, t \ {v})
        BY <4>1
      <4>. QED BY Zenon, <3>2, <3>4, <4>2
    <3>6. Sum(f, u) = f[z] + Sum(f, w)
      <4>1. u \in Good
        BY <3>3
      <4>2. \A v \in u : Sum(f, u) = f[v] + Sum(f, u \ {v})
        BY <4>1
      <4>. QED BY Zenon, <3>3, <3>4, <4>2
    <3>7. f[y] \in Int /\ f[z] \in Int /\ Sum(f, w) \in Int
      <4>1. IsFiniteSet(w) /\ w \subseteq A
        BY <2>1, FS_Subset DEF w
      <4>2. \A v \in w : f[v] \in Int
        BY <4>1
      <4>. QED BY <2>1, <4>1, <4>2, SumType
    <3>8. Sum(f, s) = f[y] + Sum(f, u)
      BY <2>2, <3>5, <3>6, <3>7
    <3>. QED BY <3>8 DEF u
  <2>. QED BY <2>3, <2>4
<1>2. A \in Good
  <2>. HIDE DEF Good
  <2>. QED BY <1>1, BySize
<1>. QED BY <1>2

\* Summing over an image of A is summing over A.
LEMMA SumMoved ==
  ASSUME NEW A, IsFiniteSet(A), NEW h, \A x, y \in A : h[x] = h[y] => x = y,
         NEW f, NEW g, \A x \in A : f[h[x]] = g[x] /\ g[x] \in Int
  PROVE  Sum(f, {h[x] : x \in A}) = Sum(g, A)
<1> DEFINE Im(s) == {h[x] : x \in s}
           Good == {s \in SUBSET A : Sum(f, Im(s)) = Sum(g, s)}
<1>1. \A s \in SUBSET A : IsFiniteSet(s) /\ IsFiniteSet(Im(s))
  <2> TAKE s \in SUBSET A
  <2>1. IsFiniteSet(s)
    BY FS_Subset
  <2> DEFINE sz == [x \in s |-> h[x]]
             B == Im(s)
  <2>2. sz \in Surjection(s, B)
    BY DEF Surjection
  <2>. HIDE DEF sz, B
  <2>3. IsFiniteSet(B)
    BY <2>1, <2>2, FS_Surjection
  <2>. QED BY <2>1, <2>3 DEF B
<1>2. ASSUME NEW s \in SUBSET A,
             \A t \in SUBSET A : Cardinality(t) < Cardinality(s) => t \in Good
      PROVE  Sum(f, Im(s)) = Sum(g, s)
  <2>1. CASE s = {}
    <3>1. Im(s) = {}
      BY <2>1
    <3>. QED BY Zenon, <2>1, <3>1, SumEmpty
  <2>2. CASE s # {}
    <3> DEFINE z == Some(s)
               t == s \ {z}
    <3>1. z \in s /\ IsFiniteSet(s)
      BY <1>1, <2>2, SomeIn
    <3>2. t \in SUBSET A /\ Cardinality(t) < Cardinality(s)
      <4>. HIDE DEF z
      <4>1. Cardinality(s) \in Nat \ {0} /\ Cardinality(t) = Cardinality(s) - 1
        BY <3>1, OneLess
      <4>. HIDE DEF t
      <4>2. Cardinality(t) < Cardinality(s)
        BY <4>1
      <4>. QED BY <4>2 DEF t
    <3>3. Sum(f, Im(t)) = Sum(g, t)
      <4>. HIDE DEF t
      <4>. QED BY <1>2, <3>2
    <3>4. Im(s) \ {h[z]} = Im(t) /\ h[z] \in Im(s)
      BY <3>1
    <3>5. Sum(g, s) = g[z] + Sum(g, t)
      <4>1. \A x \in s : g[x] \in Int
        OBVIOUS
      <4>. HIDE DEF z
      <4>. QED BY <3>1, <4>1, SumTake
    <3>6. Sum(f, Im(s)) = f[h[z]] + Sum(f, Im(s) \ {h[z]})
      <4> DEFINE B == Im(s)
                 e == h[z]
      <4>1. \A x \in B : f[x] \in Int
        OBVIOUS
      <4>2. IsFiniteSet(B) /\ e \in B
        BY <1>1, <3>4
      <4>. HIDE DEF B, e
      <4>3. Sum(f, B) = f[e] + Sum(f, B \ {e})
        BY <4>1, <4>2, SumTake
      <4>. QED BY <4>3 DEF B, e
    <3>7. f[h[z]] = g[z]
      BY <3>1
    <3>. HIDE DEF z, t, Im
    <3>. QED BY Zenon, <3>3, <3>4, <3>5, <3>6, <3>7
  <2>. QED BY <2>1, <2>2
<1>3. Smaller(A, Good)
  BY <1>2 DEF Smaller
<1>4. A \in Good
  <2>. HIDE DEF Good
  <2>. QED BY <1>3, BySize
<1>. QED BY <1>4

\* A sum of lesser numbers is less.
LEMMA SumBelow ==
  ASSUME NEW A, IsFiniteSet(A), NEW f, NEW g,
         \A x \in A : f[x] \in Int /\ g[x] \in Int /\ f[x] <= g[x]
  PROVE  Sum(f, A) <= Sum(g, A)
<1> DEFINE Good == {s \in SUBSET A : Sum(f, s) <= Sum(g, s)}
<1>1. ASSUME NEW s \in SUBSET A,
             \A t \in SUBSET A : Cardinality(t) < Cardinality(s) => t \in Good
      PROVE  Sum(f, s) <= Sum(g, s)
  <2>1. CASE s = {}
    BY <2>1, SumEmpty
  <2>2. CASE s # {}
    <3> DEFINE z == Some(s)
               t == s \ {z}
    <3>1. z \in s /\ IsFiniteSet(s)
      BY <2>2, SomeIn, FS_Subset
    <3>2. t \in SUBSET A /\ Cardinality(t) < Cardinality(s) /\ IsFiniteSet(t)
      <4>. HIDE DEF z
      <4>1. Cardinality(s) \in Nat \ {0} /\ Cardinality(t) = Cardinality(s) - 1 /\ IsFiniteSet(t)
        BY <3>1, OneLess
      <4>. HIDE DEF t
      <4>2. Cardinality(t) < Cardinality(s)
        BY <4>1
      <4>. QED BY <4>1, <4>2 DEF t
    <3>3. Sum(f, t) <= Sum(g, t)
      <4>. HIDE DEF t
      <4>. QED BY <1>1, <3>2
    <3>4. Sum(g, s) = g[z] + Sum(g, t) /\ Sum(f, s) = f[z] + Sum(f, t)
      <4>1. (\A x \in s : g[x] \in Int) /\ \A x \in s : f[x] \in Int
        OBVIOUS
      <4>. HIDE DEF z
      <4>. QED BY <3>1, <4>1, SumTake
    <3>5. Sum(f, t) \in Int /\ Sum(g, t) \in Int
      <4>1. (\A x \in t : g[x] \in Int) /\ \A x \in t : f[x] \in Int
        BY <3>2
      <4>. HIDE DEF t
      <4>. QED BY <3>2, <4>1, SumType
    <3>6. f[z] \in Int /\ g[z] \in Int /\ f[z] <= g[z]
      BY <3>1
    <3>. HIDE DEF z, t
    <3>. QED BY <3>3, <3>4, <3>5, <3>6
  <2>. QED BY <2>1, <2>2
<1>2. Smaller(A, Good)
  BY <1>1 DEF Smaller
<1>3. A \in Good
  <2>. HIDE DEF Good
  <2>. QED BY <1>2, BySize
<1>. QED BY <1>3

LEMMA SumStrictlyBelow ==
  ASSUME NEW A, IsFiniteSet(A), A # {}, NEW f, NEW g,
         \A x \in A : f[x] \in Int /\ g[x] \in Int /\ f[x] < g[x]
  PROVE  Sum(f, A) < Sum(g, A)
<1>1. PICK z \in A : TRUE
  OBVIOUS
<1> DEFINE t == A \ {z}
<1>2. /\ \A x \in A : f[x] \in Int /\ g[x] \in Int
      /\ \A x \in t : f[x] \in Int /\ g[x] \in Int /\ f[x] <= g[x]
  OBVIOUS
<1>3. IsFiniteSet(t)
  BY FS_Subset
<1>4. Sum(f, A) = f[z] + Sum(f, t) /\ Sum(g, A) = g[z] + Sum(g, t)
  BY <1>2, SumTake
<1>5. f[z] \in Int /\ g[z] \in Int /\ f[z] < g[z]
  OBVIOUS
<1>. HIDE DEF t
<1>6. Sum(f, t) <= Sum(g, t)
  BY <1>2, <1>3, SumBelow
<1>7. Sum(f, t) \in Int /\ Sum(g, t) \in Int
  BY <1>2, <1>3, SumType
<1>. QED BY <1>4, <1>5, <1>6, <1>7

-----------------------------------------------------------------------------
(* The grid.                                                                *)

NoPrediction == [algo |-> "NOPRED", settings |-> << >>]
Lorenzo(n) == {[algo |-> "LORENZO_REG", settings |-> s] :
                 s \in {<<"Yes", "Yes">>, <<"Yes", "No">>, <<"No", "Yes">>}}
Interpolated(A, B, C) == {[algo |-> a, settings |-> <<q, d>>] : a \in A, q \in B, d \in C}
Interpolating(n) ==
  Interpolated({"INTERP", "INTERP_LORENZO"}, Kernels, 0..(Directions(n) - 1))

LEMMA InterpolatedMember ==
  ASSUME NEW A, NEW B, NEW C, NEW a \in A, NEW q \in B, NEW d \in C
  PROVE  [algo |-> a, settings |-> <<q, d>>] \in Interpolated(A, B, C)
BY DEF Interpolated

LEMMA GridIs ==
  ASSUME NEW n
  PROVE  Grid(n) = {NoPrediction} \union Lorenzo(n) \union Interpolating(n)
BY DEF Grid, NoPrediction, Lorenzo, Interpolating, Interpolated

\* The directions scanned are those there are.
LEMMA DirectionsAre ==
  \A n \in {2, 3} : Directions(n) = IF n = 2 THEN 2 ELSE 6
BY DEF Directions

LEMMA ViewsAre ==
  /\ Views = {"native_HSD", "token_major_TD", "token_contiguous_HDS"}
  /\ \A v \in Views : NDim[v] \in {2, 3}
BY DEF Views, NDim

LEMMA ThreeAreFinite ==
  \A x, y, z : IsFiniteSet({x, y, z}) /\ IsFiniteSet({x, y})
<1> TAKE x, y, z
<1>1. IsFiniteSet({x}) /\ IsFiniteSet({y}) /\ IsFiniteSet({z})
  BY FS_Singleton
<1>2. IsFiniteSet({x} \union {y})
  BY <1>1, FS_Union
<1>3. IsFiniteSet(({x} \union {y}) \union {z})
  BY <1>1, <1>2, FS_Union
<1>4. {x} \union {y} = {x, y} /\ ({x} \union {y}) \union {z} = {x, y, z}
  OBVIOUS
<1>. QED BY Zenon, <1>2, <1>3, <1>4

LEMMA GridFinite ==
  ASSUME ScanAssumption, NEW n \in {2, 3}
  PROVE  IsFiniteSet(Grid(n))
<1> DEFINE W == {<<"Yes", "Yes">>, <<"Yes", "No">>, <<"No", "Yes">>}
           P == ({"INTERP", "INTERP_LORENZO"} \X Kernels) \X (0..(Directions(n) - 1))
           f == [s \in W |-> [algo |-> "LORENZO_REG", settings |-> s]]
           g == [p \in P |-> [algo |-> p[1][1], settings |-> <<p[1][2], p[2]>>]]
<1>1. IsFiniteSet(W)
  BY Zenon, ThreeAreFinite
<1>2. IsFiniteSet(P)
  <2>1. IsFiniteSet({"INTERP", "INTERP_LORENZO"})
    BY Zenon, ThreeAreFinite
  <2>2. IsFiniteSet({"INTERP", "INTERP_LORENZO"} \X Kernels)
    BY <2>1, FS_Product DEF ScanAssumption
  <2>3. IsFiniteSet(0..(Directions(n) - 1))
    BY DirectionsAre, FS_Interval
  <2>. QED BY <2>2, <2>3, FS_Product
<1>3. IsFiniteSet(Lorenzo(n))
  <2>1. f \in Surjection(W, Lorenzo(n))
    BY DEF Surjection, Lorenzo
  <2>. HIDE DEF f, W
  <2>. QED BY <1>1, <2>1, FS_Surjection
<1>4. IsFiniteSet(Interpolating(n))
  <2>1. g \in [P -> Interpolating(n)]
    <3> SUFFICES ASSUME NEW p \in P PROVE g[p] \in Interpolating(n)
      OBVIOUS
    <3>1. /\ p[1][1] \in {"INTERP", "INTERP_LORENZO"} /\ p[1][2] \in Kernels
          /\ p[2] \in 0..(Directions(n) - 1)
      OBVIOUS
    <3>2. g[p] = [algo |-> p[1][1], settings |-> <<p[1][2], p[2]>>]
      OBVIOUS
    <3> DEFINE a == p[1][1]
               q == p[1][2]
               d == p[2]
    <3>3. a \in {"INTERP", "INTERP_LORENZO"} /\ q \in Kernels /\ d \in 0..(Directions(n) - 1)
      BY <3>1
    <3>. HIDE DEF P, g, a, q, d
    <3>4. [algo |-> a, settings |-> <<q, d>>] \in Interpolating(n)
      <4>. QED BY <3>3, InterpolatedMember DEF Interpolating
    <3>. QED BY <3>2, <3>4 DEF a, q, d
  <2>2. \A e \in Interpolating(n) : \E p \in P : g[p] = e
    <3> TAKE e \in Interpolating(n)
    <3>1. PICK a \in {"INTERP", "INTERP_LORENZO"}, q \in Kernels, d \in 0..(Directions(n) - 1) :
            e = [algo |-> a, settings |-> <<q, d>>]
      BY DEF Interpolating, Interpolated
    <3> DEFINE p == <<<<a, q>>, d>>
    <3>2. p \in P /\ p[1][1] = a /\ p[1][2] = q /\ p[2] = d
      OBVIOUS
    <3>. QED BY <3>1, <3>2
  <2>. HIDE DEF g, P
  <2>3. g \in Surjection(P, Interpolating(n))
    BY <2>1, <2>2 DEF Surjection
  <2>. QED BY <1>2, <2>3, FS_Surjection
<1>5. IsFiniteSet({NoPrediction})
  BY FS_Singleton
<1>6. IsFiniteSet({NoPrediction} \union Lorenzo(n))
  BY <1>3, <1>5, FS_Union
<1>7. IsFiniteSet({NoPrediction} \union Lorenzo(n) \union Interpolating(n))
  BY <1>4, <1>6, FS_Union
<1>. QED BY Zenon, <1>7, GridIs

\* What a configuration is made of.
Algorithms == {"NOPRED", "LORENZO_REG", "INTERP", "INTERP_LORENZO"}
Word == Algorithms \union {"Yes", "No"} \union Int \union Kernels

LEMMA GridMember ==
  ASSUME NEW n \in {2, 3}, NEW cfg \in Grid(n)
  PROVE  /\ cfg = [algo |-> cfg.algo, settings |-> cfg.settings]
         /\ cfg.algo \in Algorithms /\ cfg.settings \in Seq(Word)
         /\ cfg.algo = "NOPRED" => cfg = NoPrediction
         /\ Effect(cfg, n) = cfg
<1> DEFINE Made == cfg = [algo |-> cfg.algo, settings |-> cfg.settings] /\ cfg.algo \in Algorithms
<1>0. cfg \in {NoPrediction} \union Lorenzo(n) \union Interpolating(n)
  BY Zenon, GridIs
<1>4. \A u, v \in Word : <<u, v>> \in Seq(Word)
  OBVIOUS
<1>1. CASE cfg = NoPrediction
  <2>1. << >> \in Seq(Word)
    OBVIOUS
  <2>2. cfg.algo = "NOPRED" /\ cfg.settings = << >>
    BY <1>1 DEF NoPrediction
  <2>3. Effect(cfg, n) = cfg
    BY <2>2 DEF Effect
  <2>4. Made
    BY <1>1, <2>2 DEF NoPrediction, Algorithms
  <2>5. cfg.settings \in Seq(Word)
    BY Zenon, <2>1, <2>2
  <2>. QED BY Zenon, <1>1, <2>3, <2>4, <2>5
<1>2. CASE cfg \in Lorenzo(n)
  <2>1. PICK u, v \in {"Yes", "No"} : cfg = [algo |-> "LORENZO_REG", settings |-> <<u, v>>]
    BY <1>2 DEF Lorenzo
  <2>2. u \in Word /\ v \in Word
    BY DEF Word
  <2>3. <<u, v>> \in Seq(Word)
    BY Zenon, <1>4, <2>2
  <2>4. cfg.algo = "LORENZO_REG" /\ cfg.settings = <<u, v>>
    BY <2>1
  <2>5. Effect(cfg, n) = cfg
    BY <2>4 DEF Effect
  <2>6. Made
    BY <2>1, <2>4 DEF Algorithms
  <2>7. cfg.algo # "NOPRED"
    BY <2>4
  <2>8. cfg.settings \in Seq(Word)
    BY Zenon, <2>3, <2>4
  <2>. QED BY Zenon, <2>5, <2>6, <2>7, <2>8
<1>3. CASE cfg \in Interpolating(n)
  <2>1. PICK a \in {"INTERP", "INTERP_LORENZO"}, q \in Kernels, d \in 0..(Directions(n) - 1) :
          cfg = [algo |-> a, settings |-> <<q, d>>]
    BY <1>3 DEF Interpolating, Interpolated
  <2>2. q \in Word /\ d \in Word
    BY DEF Word
  <2> DEFINE m == IF n = 2 THEN 2 ELSE 6
             s == <<q, d>>
             e == [s EXCEPT ![2] = s[2] % m]
  <2>3. cfg.settings = s /\ cfg.algo = a /\ cfg = [algo |-> a, settings |-> s]
    BY <2>1
  <2>4. s \in Seq(Word)
    BY Zenon, <1>4, <2>2
  <2>5. d % m = d
    BY DirectionsAre
  <2>6. [<<q, d>> EXCEPT ![2] = d] = <<q, d>>
    OBVIOUS
  <2>7. e = s
    <3>1. s[2] % m = d
      BY <2>5
    <3>. HIDE DEF m
    <3>2. e = [s EXCEPT ![2] = d]
      BY <3>1
    <3>. QED BY <2>6, <3>2
  <2>8. Effect(cfg, n) = [cfg EXCEPT !.settings[2] = @ % m]
    BY <2>3 DEF Effect
  <2>. HIDE DEF m, s
  <2>9. Effect(cfg, n) = [cfg EXCEPT !.settings = e]
    BY <2>3, <2>8
  <2>. HIDE DEF e
  <2>10. [cfg EXCEPT !.settings = s] = cfg
    BY <2>3
  <2>11. Effect(cfg, n) = cfg
    BY Zenon, <2>7, <2>9, <2>10
  <2>12. Made
    BY <2>3 DEF Algorithms
  <2>13. cfg.algo # "NOPRED"
    BY <2>3
  <2>14. cfg.settings \in Seq(Word)
    BY Zenon, <2>3, <2>4
  <2>. QED BY Zenon, <2>11, <2>12, <2>13, <2>14
<1>. QED BY Zenon, <1>0, <1>1, <1>2, <1>3

\* No two configurations have the same key.
LEMMA PrefixedSequences ==
  ASSUME NEW S, NEW a \in S, NEW b \in S, NEW s \in Seq(S), NEW t \in Seq(S),
         <<a>> \o s = <<b>> \o t
  PROVE  a = b /\ s = t
<1>1. Len(<<a>> \o s) = Len(s) + 1 /\ Len(<<b>> \o t) = Len(t) + 1
  OBVIOUS
<1>2. (<<a>> \o s)[1] = a /\ (<<b>> \o t)[1] = b
  OBVIOUS
<1>3. Len(s) = Len(t) /\ Len(s) \in Nat
  BY <1>1
<1>4. \A i \in 1..Len(s) : (<<a>> \o s)[i + 1] = s[i]
  OBVIOUS
<1>5. \A i \in 1..Len(t) : (<<b>> \o t)[i + 1] = t[i]
  OBVIOUS
<1>6. \A i \in 1..Len(s) : s[i] = t[i]
  BY <1>3, <1>4, <1>5
<1>7. s = t
  <2>1. s = [i \in 1..Len(s) |-> s[i]] /\ t = [i \in 1..Len(t) |-> t[i]]
    OBVIOUS
  <2>. QED BY <1>3, <1>6, <2>1
<1>. QED BY <1>2, <1>7

LEMMA TagsDiffer ==
  ASSUME NEW n \in {2, 3}, NEW cfg \in Grid(n), NEW other \in Grid(n), Tag(cfg) = Tag(other)
  PROVE  cfg = other
<1>1. /\ cfg = [algo |-> cfg.algo, settings |-> cfg.settings]
      /\ cfg.algo \in Algorithms /\ cfg.settings \in Seq(Word)
  BY GridMember
<1>2. /\ other = [algo |-> other.algo, settings |-> other.settings]
      /\ other.algo \in Algorithms /\ other.settings \in Seq(Word)
  BY GridMember
<1>3. cfg.algo \in Word /\ other.algo \in Word
  BY <1>1, <1>2 DEF Word
<1>4. <<cfg.algo>> \o cfg.settings = <<other.algo>> \o other.settings
  BY DEF Tag
<1>5. cfg.algo = other.algo /\ cfg.settings = other.settings
  <2> DEFINE a == cfg.algo
             b == other.algo
             s == cfg.settings
             t == other.settings
  <2>. HIDE DEF a, b, s, t
  <2>1. a \in Word /\ b \in Word /\ s \in Seq(Word) /\ t \in Seq(Word) /\ <<a>> \o s = <<b>> \o t
    BY <1>1, <1>2, <1>3, <1>4 DEF a, b, s, t
  <2>2. a = b /\ s = t
    BY <2>1, PrefixedSequences
  <2>. QED BY <2>2 DEF a, b, s, t
<1>. QED BY Zenon, <1>1, <1>2, <1>5

-----------------------------------------------------------------------------
(* What the analysis makes of a full table: a ratio F[t][cfg] for each tensor *)
(* and each configuration.                                                  *)

Full(A, T, C, F) ==
  /\ IsFiniteSet(T) /\ T # {} /\ IsFiniteSet(C)
  /\ F \in [T -> [C -> Int]]
  /\ NoPrediction \in C /\ \A cfg \in C : cfg.algo = "NOPRED" => cfg = NoPrediction
  /\ \E cfg \in C : cfg.algo # "NOPRED"
  /\ \A r \in A : r.tensor \in T /\ r.cfg \in C /\ r.ratio = F[r.tensor][r.cfg]
  /\ \A r, s \in A : r.tensor = s.tensor /\ r.cfg = s.cfg => r = s
  /\ \A t \in T : \A cfg \in C : \E r \in A : r.tensor = t /\ r.cfg = cfg

LEMMA FullTensors ==
  ASSUME NEW A, NEW T, NEW C, NEW F, Full(A, T, C, F)
  PROVE  TensorsOf(A) = T
BY DEF Full, TensorsOf

LEMMA FullNoPred ==
  ASSUME NEW A, NEW T, NEW C, NEW F, Full(A, T, C, F), NEW t \in T
  PROVE  NoPred(A, t) = F[t][NoPrediction]
<1> DEFINE x == CHOOSE r \in A : r.tensor = t /\ r.cfg.algo = "NOPRED"
<1>1. PICK r \in A : r.tensor = t /\ r.cfg = NoPrediction
  BY DEF Full
<1>2. r.cfg.algo = "NOPRED"
  BY <1>1 DEF NoPrediction
<1>3. x \in A /\ x.tensor = t /\ x.cfg.algo = "NOPRED"
  BY <1>1, <1>2
<1>4. NoPred(A, t) = x.ratio
  BY DEF NoPred
<1>. HIDE DEF x
<1>. QED BY <1>3, <1>4 DEF Full

LEMMA FullOracle ==
  ASSUME NEW A, NEW T, NEW C, NEW F, Full(A, T, C, F), NEW t \in T
  PROVE  /\ OracleRatio(A, t) \in Int
         /\ \A cfg \in C : cfg.algo # "NOPRED" => F[t][cfg] <= OracleRatio(A, t)
         /\ \E cfg \in C : cfg.algo # "NOPRED" /\ F[t][cfg] = OracleRatio(A, t)
<1> DEFINE P == {r \in A : r.tensor = t /\ r.cfg.algo # "NOPRED"}
           V == {r.ratio : r \in P}
           f == [cfg \in C |-> F[t][cfg]]
           I == {f[cfg] : cfg \in C}
<1>1. IsFiniteSet(I)
  <2>1. f \in Surjection(C, I)
    BY DEF Surjection
  <2>2. IsFiniteSet(C)
    BY DEF Full
  <2>. HIDE DEF f, I
  <2>. QED BY <2>1, <2>2, FS_Surjection
<1>2. \A r \in P : r.cfg \in C /\ r.ratio = F[t][r.cfg] /\ r.cfg.algo # "NOPRED"
  BY DEF Full
<1>3. \A cfg \in C : F[t][cfg] \in Int
  BY DEF Full
<1>4. V \subseteq I /\ V \subseteq Int
  BY <1>2, <1>3
<1>5. IsFiniteSet(V)
  <2>. HIDE DEF V, I
  <2>. QED BY <1>1, <1>4, FS_Subset
<1>6. \A cfg \in C : cfg.algo # "NOPRED" => F[t][cfg] \in V
  <2> TAKE cfg \in C
  <2> HAVE cfg.algo # "NOPRED"
  <2>1. PICK r \in A : r.tensor = t /\ r.cfg = cfg
    BY DEF Full
  <2>2. r \in P
    BY <2>1
  <2>. QED BY <1>2, <2>1, <2>2
<1>7. V # {}
  <2>1. PICK cfg \in C : cfg.algo # "NOPRED"
    BY DEF Full
  <2>. HIDE DEF V
  <2>. QED BY <1>6, <2>1
<1>8. \A y \in V : \E cfg \in C : cfg.algo # "NOPRED" /\ F[t][cfg] = y
  BY <1>2
<1>9. OracleRatio(A, t) = Max(V)
  BY DEF OracleRatio, Predictors
<1>. HIDE DEF V
<1>10. Max(V) \in V /\ \A y \in V : y <= Max(V)
  BY <1>4, <1>5, <1>7, FiniteMax
<1>. QED BY <1>4, <1>6, <1>8, <1>9, <1>10

LEMMA TotalIs ==
  ASSUME NEW A, NEW cfg
  PROVE  Total(A, cfg) = Sum([r \in {s \in A : s.cfg = cfg} |-> r.ratio], {s \in A : s.cfg = cfg})
BY ZenonT(60) DEF Total, MapThenSumSet, MapThenFoldSet, Sum, Sums, SumFrom, Some

LEMMA OracleTotalIs ==
  ASSUME NEW A
  PROVE  OracleTotal(A) = Sum([t \in TensorsOf(A) |-> OracleRatio(A, t)], TensorsOf(A))
BY ZenonT(60) DEF OracleTotal, MapThenSumSet, MapThenFoldSet, Sum, Sums, SumFrom, Some

LEMMA FullTotal ==
  ASSUME NEW A, NEW T, NEW C, NEW F, Full(A, T, C, F), NEW cfg \in C
  PROVE  /\ Total(A, cfg) = Sum([t \in T |-> F[t][cfg]], T)
         /\ Total(A, cfg) \in Int
<1> DEFINE B == {s \in A : s.cfg = cfg}
           f == [r \in B |-> r.ratio]
           g == [t \in T |-> F[t][cfg]]
           h == [t \in T |-> CHOOSE r \in B : r.tensor = t]
<1>1. \A t \in T : h[t] \in B /\ h[t].tensor = t
  <2> TAKE t \in T
  <2>1. \E r \in B : r.tensor = t
    BY DEF Full
  <2>2. h[t] = CHOOSE r \in B : r.tensor = t
    OBVIOUS
  <2>. HIDE DEF B, h
  <2>. QED BY <2>1, <2>2
<1>2. \A x, y \in T : h[x] = h[y] => x = y
  <2>. HIDE DEF h, B
  <2>. QED BY <1>1
<1>3. \A r \in B : r.tensor \in T /\ h[r.tensor] = r
  <2> TAKE r \in B
  <2>1. r.tensor \in T /\ r.cfg = cfg /\ r \in A
    BY DEF Full
  <2>2. h[r.tensor] \in A /\ h[r.tensor].cfg = cfg /\ h[r.tensor].tensor = r.tensor
    BY <1>1, <2>1
  <2>. HIDE DEF h, B
  <2>. QED BY <2>1, <2>2 DEF Full
<1>4. B = {h[t] : t \in T}
  <2>. HIDE DEF h
  <2>1. \A r \in B : r \in {h[t] : t \in T}
    <3>. HIDE DEF B
    <3>. QED BY <1>3
  <2>2. \A t \in T : h[t] \in B
    BY <1>1
  <2>. HIDE DEF B
  <2>. QED BY <2>1, <2>2
<1>5. \A t \in T : f[h[t]] = g[t] /\ g[t] \in Int
  <2> TAKE t \in T
  <2>1. h[t] \in B /\ h[t].tensor = t
    BY <1>1
  <2>. HIDE DEF h
  <2>2. f[h[t]] = h[t].ratio /\ h[t].cfg = cfg /\ h[t] \in A
    BY <2>1
  <2>. QED BY <2>1, <2>2 DEF Full
<1>6. IsFiniteSet(T)
  BY DEF Full
<1>7. Total(A, cfg) = Sum(f, B)
  BY Zenon, TotalIs
<1>8. \A t \in T : g[t] \in Int
  BY <1>5
<1>. HIDE DEF f, h, B, g
<1>9. Sum(f, {h[t] : t \in T}) = Sum(g, T)
  BY <1>2, <1>5, <1>6, SumMoved
<1>10. Sum(g, T) \in Int
  BY <1>6, <1>8, SumType
<1>11. Total(A, cfg) = Sum(g, T)
  BY Zenon, <1>4, <1>7, <1>9
<1>. QED BY Zenon, <1>10, <1>11 DEF g

\* The single predictor picked is one of those there are.
LEMMA FullBest ==
  ASSUME NEW A, NEW T, NEW C, NEW F, Full(A, T, C, F)
  PROVE  BestPredictor(A) \in C /\ BestPredictor(A).algo # "NOPRED"
<1> DEFINE Q == {r.cfg : r \in {s \in A : s.cfg.algo # "NOPRED"}}
           f == [cfg \in Q |-> Total(A, cfg)]
           V == {f[cfg] : cfg \in Q}
<1>1. Q \subseteq C /\ \A cfg \in Q : cfg.algo # "NOPRED"
  BY DEF Full
<1>2. Q # {}
  <2>1. PICK cfg \in C, t \in T : cfg.algo # "NOPRED"
    BY DEF Full
  <2>2. PICK r \in A : r.tensor = t /\ r.cfg = cfg
    BY DEF Full
  <2>. QED BY <2>1, <2>2
<1>3. IsFiniteSet(Q)
  <2>1. IsFiniteSet(C)
    BY DEF Full
  <2>. HIDE DEF Q
  <2>. QED BY <1>1, <2>1, FS_Subset
<1>4. BestPredictor(A) = CHOOSE cfg \in Q : \A other \in Q : Total(A, other) <= Total(A, cfg)
  BY DEF BestPredictor
<1>. HIDE DEF Q
<1>5. IsFiniteSet(V)
  <2>1. f \in Surjection(Q, V)
    BY DEF Surjection
  <2>. HIDE DEF f, V
  <2>. QED BY <1>3, <2>1, FS_Surjection
<1>6. V \subseteq Int /\ V # {}
  <2>1. \A cfg \in Q : Total(A, cfg) \in Int
    BY <1>1, FullTotal
  <2>. HIDE DEF Q
  <2>. QED BY <1>2, <2>1
<1>7. Max(V) \in V /\ \A y \in V : y <= Max(V)
  <2>. HIDE DEF V
  <2>. QED BY <1>5, <1>6, FiniteMax
<1>8. PICK cfg \in Q : Total(A, cfg) = Max(V)
  BY <1>7
<1>9. \A other \in Q : Total(A, other) <= Total(A, cfg)
  BY <1>7, <1>8
<1>10. BestPredictor(A) \in Q
  <2>. HIDE DEF f, V
  <2>. QED BY <1>4, <1>9
<1>. QED BY <1>1, <1>10

Beats(A, t) ==
  \A r, q \in A : (/\ r.tensor = t /\ q.tensor = t
                   /\ r.cfg.algo = "NOPRED" /\ q.cfg.algo # "NOPRED")
                    => r.ratio > q.ratio

\* NOPRED beats the oracle where it beats every predictor.
LEMMA FullBeats ==
  ASSUME NEW A, NEW T, NEW C, NEW F, Full(A, T, C, F), NEW t \in T
  PROVE  /\ NoPred(A, t) > OracleRatio(A, t) <=> Beats(A, t)
         /\ NoPred(A, t) = F[t][NoPrediction] /\ NoPred(A, t) \in Int
<1>1. NoPred(A, t) = F[t][NoPrediction] /\ F[t][NoPrediction] \in Int
  <2>1. NoPred(A, t) = F[t][NoPrediction]
    BY FullNoPred
  <2>2. F[t][NoPrediction] \in Int
    BY DEF Full
  <2>. QED BY <2>1, <2>2
<1>2. /\ OracleRatio(A, t) \in Int
      /\ \A cfg \in C : cfg.algo # "NOPRED" => F[t][cfg] <= OracleRatio(A, t)
      /\ \E cfg \in C : cfg.algo # "NOPRED" /\ F[t][cfg] = OracleRatio(A, t)
  BY FullOracle
<1>3. ASSUME NoPred(A, t) > OracleRatio(A, t)
      PROVE  Beats(A, t)
  <2> SUFFICES ASSUME NEW r \in A, NEW q \in A, r.tensor = t, q.tensor = t,
                      r.cfg.algo = "NOPRED", q.cfg.algo # "NOPRED"
               PROVE  r.ratio > q.ratio
    BY DEF Beats
  <2>1. r.cfg = NoPrediction /\ r.ratio = F[t][NoPrediction]
    BY DEF Full
  <2>2. q.cfg \in C /\ q.ratio = F[t][q.cfg] /\ F[t][q.cfg] \in Int
    BY DEF Full
  <2>. QED BY <1>1, <1>2, <1>3, <2>1, <2>2
<1>4. ASSUME Beats(A, t)
      PROVE  NoPred(A, t) > OracleRatio(A, t)
  <2>1. PICK cfg \in C : cfg.algo # "NOPRED" /\ F[t][cfg] = OracleRatio(A, t)
    BY <1>2
  <2>2. PICK q \in A : q.tensor = t /\ q.cfg = cfg
    BY DEF Full
  <2>3. PICK r \in A : r.tensor = t /\ r.cfg = NoPrediction
    BY DEF Full
  <2>4. r.cfg.algo = "NOPRED" /\ r.ratio = F[t][NoPrediction] /\ q.ratio = F[t][cfg]
    BY <2>2, <2>3 DEF Full, NoPrediction
  <2>5. r.ratio > q.ratio
    BY <1>4, <2>1, <2>2, <2>3, <2>4 DEF Beats
  <2>. QED BY <1>1, <2>1, <2>4, <2>5
<1>. QED BY <1>1, <1>3, <1>4

\* The comparison is fair, whatever the ratios.
LEMMA FullFair ==
  ASSUME NEW A, NEW T, NEW C, NEW F, Full(A, T, C, F)
  PROVE  /\ Wins(A) = Cardinality({t \in T : Beats(A, t)})
         /\ Total(A, BestPredictor(A)) <= OracleTotal(A)
         /\ Wins(A) = Cardinality(T) => Total(A, NoPrediction) > Total(A, BestPredictor(A))
<1> DEFINE W == {t \in T : Beats(A, t)}
           b == BestPredictor(A)
           fb == [t \in T |-> F[t][b]]
           fo == [t \in T |-> OracleRatio(A, t)]
           fn == [t \in T |-> F[t][NoPrediction]]
<1>1. Wins(A) = Cardinality(W)
  <2>1. {t \in T : NoPred(A, t) > OracleRatio(A, t)} = W
    BY FullBeats
  <2>2. Wins(A) = Cardinality({t \in T : NoPred(A, t) > OracleRatio(A, t)})
    BY FullTensors DEF Wins
  <2>. QED BY Zenon, <2>1, <2>2
<1>2. b \in C /\ b.algo # "NOPRED"
  BY FullBest
<1>3. IsFiniteSet(T) /\ T # {} /\ NoPrediction \in C
  BY DEF Full
<1>4. Total(A, b) = Sum(fb, T) /\ Total(A, NoPrediction) = Sum(fn, T)
  <2>. HIDE DEF b
  <2>. QED BY <1>2, <1>3, FullTotal
<1>5. OracleTotal(A) = Sum(fo, T)
  <2>1. TensorsOf(A) = T
    BY FullTensors
  <2>. QED BY Zenon, <2>1, OracleTotalIs
<1>6. \A t \in T : fb[t] \in Int /\ fo[t] \in Int /\ fn[t] \in Int /\ fb[t] <= fo[t]
  <2> TAKE t \in T
  <2>1. F[t][b] \in Int /\ F[t][NoPrediction] \in Int
    <3>. HIDE DEF b
    <3>. QED BY <1>2, <1>3 DEF Full
  <2>2. OracleRatio(A, t) \in Int /\ F[t][b] <= OracleRatio(A, t)
    <3>. HIDE DEF b
    <3>. QED BY <1>2, FullOracle
  <2>. HIDE DEF b
  <2>. QED BY <2>1, <2>2
<1>7. Sum(fb, T) <= Sum(fo, T)
  <2>. HIDE DEF fb, fo, fn
  <2>. QED BY <1>3, <1>6, SumBelow
<1>8. ASSUME Wins(A) = Cardinality(T)
      PROVE  Sum(fb, T) < Sum(fn, T)
  <2>1. W \subseteq T
    OBVIOUS
  <2>2. W = T
    <3>. HIDE DEF W
    <3>1. Cardinality(W) = Cardinality(T)
      BY Zenon, <1>1, <1>8
    <3>. QED BY <1>3, <2>1, <3>1, FS_Subset
  <2>3. \A t \in T : fb[t] \in Int /\ fn[t] \in Int /\ fb[t] < fn[t]
    <3> TAKE t \in T
    <3>1. Beats(A, t)
      BY <2>2
    <3>2. NoPred(A, t) > OracleRatio(A, t) /\ NoPred(A, t) = F[t][NoPrediction]
      BY <3>1, FullBeats
    <3>3. fn[t] = F[t][NoPrediction] /\ fo[t] = OracleRatio(A, t)
      OBVIOUS
    <3>4. fb[t] \in Int /\ fo[t] \in Int /\ fn[t] \in Int /\ fb[t] <= fo[t]
      BY <1>6
    <3>. HIDE DEF fb, fo, fn
    <3>. QED BY <3>2, <3>3, <3>4
  <2>. HIDE DEF fb, fo, fn
  <2>. QED BY <1>3, <2>3, SumStrictlyBelow
<1>9. Sum(fb, T) \in Int /\ Sum(fn, T) \in Int
  <2>1. (\A t \in T : fb[t] \in Int) /\ \A t \in T : fn[t] \in Int
    BY <1>6
  <2>. HIDE DEF fb, fo, fn
  <2>. QED BY <1>3, <2>1, SumType
<1>. HIDE DEF fb, fo, fn, b, W
<1>10. Total(A, b) <= OracleTotal(A)
  BY Zenon, <1>4, <1>5, <1>7
<1>11. Wins(A) = Cardinality(T) => Total(A, NoPrediction) > Total(A, b)
  BY <1>4, <1>8, <1>9
<1>. QED BY <1>1, <1>10, <1>11 DEF b, W

-----------------------------------------------------------------------------
(* How far a scan has come, and what there is then.                         *)

\* The tensors before the m-th of the i-th corpus, by corpus and number.
Reached(i, m) ==
  {p \in Nat \X Nat :
     /\ p[1] \in 1..Len(corpora) /\ p[2] \in 1..Len(corpora[p[1]].tensors)
     /\ p[1] < i \/ (p[1] = i /\ p[2] < m)}

RowsAt(p) == Scanned(corpora[p[1]].label, corpora[p[1]].tensors[p[2]])
RowsBefore(i, m) == UNION {RowsAt(p) : p \in Reached(i, m)}

\* The summaries of the first n corpora.
Places(n) == (1..n) \X Views \X CGrid
SummaryAt(p) == Summary(corpora[p[1]].label, p[2], p[3])
Summaries(n) == {SummaryAt(p) : p \in Places(n)}

Located ==
  /\ corpora \in CorpusSets
  /\ profile \in [UNION {Range(corpora[i].tensors) : i \in DOMAIN corpora} -> Profiles]
  /\ stage \in {"knobs", "scan", "analysed", "written", "raised"}

Progress ==
  /\ stage = "knobs" => corpus = 1 /\ tensor = 1 /\ rows = {} /\ result = {}
  /\ stage = "scan" =>
       /\ corpus \in 1..Len(corpora) /\ tensor \in 1..(Len(corpora[corpus].tensors) + 1)
       /\ rows = RowsBefore(corpus, tensor) /\ result = Summaries(corpus - 1)
       /\ \A i \in 1..(corpus - 1) : corpora[i].tensors # << >>
  /\ stage \in {"analysed", "written"} =>
       /\ rows = RowsBefore(Len(corpora) + 1, 1) /\ result = Summaries(Len(corpora))
       /\ \A i \in 1..Len(corpora) : corpora[i].tensors # << >>

ScanInv == Located /\ Progress

LEMMA CorporaAre ==
  ASSUME ScanAssumption, corpora \in CorpusSets
  PROVE  /\ Len(corpora) \in Nat /\ DOMAIN corpora = 1..Len(corpora)
         /\ \A i \in 1..Len(corpora) :
              /\ corpora[i].tensors \in Seq(STRING) /\ Len(corpora[i].tensors) \in Nat
              /\ DOMAIN corpora[i].tensors = 1..Len(corpora[i].tensors)
         /\ \A i, j \in 1..Len(corpora) : corpora[i].label = corpora[j].label => i = j
<1>1. corpora \in Seq([label : STRING, tensors : Seq(STRING)])
  BY DEF ScanAssumption
<1>2. Len(corpora) \in Nat /\ DOMAIN corpora = 1..Len(corpora)
  BY <1>1
<1>3. \A i \in 1..Len(corpora) : corpora[i] \in [label : STRING, tensors : Seq(STRING)]
  <2>1. \A S : \A s \in Seq(S) : \A i \in 1..Len(s) : s[i] \in S
    OBVIOUS
  <2>. QED BY Zenon, <1>1, <2>1
<1>4. \A s \in Seq(STRING) : Len(s) \in Nat /\ DOMAIN s = 1..Len(s)
  OBVIOUS
<1>5. \A i \in 1..Len(corpora) : corpora[i].tensors \in Seq(STRING)
  BY <1>3
<1>6. \A i, j \in 1..Len(corpora) : corpora[i].label = corpora[j].label => i = j
  BY Zenon, <1>2 DEF ScanAssumption
<1>. QED BY Zenon, <1>2, <1>4, <1>5, <1>6

\* One tensor more, or one corpus.
LEMMA BeforeStep ==
  ASSUME ScanAssumption, corpora \in CorpusSets, NEW i \in 1..Len(corpora)
  PROVE  /\ \A m \in 1..Len(corpora[i].tensors) :
              Reached(i, m + 1) = Reached(i, m) \union {<<i, m>>}
         /\ Reached(i + 1, 1) = Reached(i, Len(corpora[i].tensors) + 1)
         /\ Reached(1, 1) = {}
<1>1. Len(corpora) \in Nat /\ i \in Nat \ {0}
  BY CorporaAre
<1>2. Len(corpora[i].tensors) \in Nat
  BY CorporaAre
<1> DEFINE L == Len(corpora)
           N(j) == Len(corpora[j].tensors)
<1>3. \A m \in 1..N(i) : Reached(i, m + 1) = Reached(i, m) \union {<<i, m>>}
  <2> TAKE m \in 1..N(i)
  <2>1. \A p \in Reached(i, m + 1) : p \in Reached(i, m) \union {<<i, m>>}
    BY <1>1, <1>2 DEF Reached
  <2>2. \A p \in Reached(i, m) : p \in Reached(i, m + 1)
    BY <1>1, <1>2 DEF Reached
  <2>3. <<i, m>> \in Reached(i, m + 1)
    BY <1>1, <1>2 DEF Reached
  <2>. QED BY <2>1, <2>2, <2>3
<1>4. Reached(i + 1, 1) = Reached(i, N(i) + 1)
  BY <1>1, <1>2 DEF Reached
<1>5. Reached(1, 1) = {}
  BY DEF Reached
<1>. QED BY <1>3, <1>4, <1>5

LEMMA RowsStep ==
  ASSUME ScanAssumption, corpora \in CorpusSets, NEW i \in 1..Len(corpora)
  PROVE  /\ \A m \in 1..Len(corpora[i].tensors) :
              RowsBefore(i, m + 1)
                = RowsBefore(i, m) \union Scanned(corpora[i].label, corpora[i].tensors[m])
         /\ RowsBefore(i + 1, 1) = RowsBefore(i, Len(corpora[i].tensors) + 1)
         /\ RowsBefore(1, 1) = {}
<1>1. ASSUME NEW m \in 1..Len(corpora[i].tensors)
      PROVE  RowsBefore(i, m + 1)
                = RowsBefore(i, m) \union Scanned(corpora[i].label, corpora[i].tensors[m])
  <2>1. Reached(i, m + 1) = Reached(i, m) \union {<<i, m>>}
    BY BeforeStep
  <2>2. RowsAt(<<i, m>>) = Scanned(corpora[i].label, corpora[i].tensors[m])
    BY DEF RowsAt
  <2>3. \A y : y \in RowsBefore(i, m + 1) <=> y \in RowsBefore(i, m) \/ y \in RowsAt(<<i, m>>)
    BY <2>1 DEF RowsBefore
  <2>. QED BY <2>2, <2>3
<1>2. RowsBefore(i + 1, 1) = RowsBefore(i, Len(corpora[i].tensors) + 1)
  <2>1. Reached(i + 1, 1) = Reached(i, Len(corpora[i].tensors) + 1)
    BY BeforeStep
  <2>. QED BY Zenon, <2>1 DEF RowsBefore
<1>3. RowsBefore(1, 1) = {}
  <2>1. Reached(1, 1) = {}
    BY BeforeStep
  <2>. QED BY <2>1 DEF RowsBefore
<1>. QED BY <1>1, <1>2, <1>3

\* What a row is of.
LEMMA RowsAre ==
  ASSUME NEW i, NEW m, NEW r \in RowsBefore(i, m)
  PROVE  \E p \in Reached(i, m) : \E v \in Views, c \in CGrid : \E cfg \in Grid(NDim[v]) :
           r = Run(corpora[p[1]].label, corpora[p[1]].tensors[p[2]], v, c, cfg)
BY DEF RowsBefore, RowsAt, Scanned

LEMMA RunFields ==
  ASSUME NEW l, NEW t, NEW v, NEW c, NEW cfg
  PROVE  /\ Run(l, t, v, c, cfg).label = l /\ Run(l, t, v, c, cfg).tensor = t
         /\ Run(l, t, v, c, cfg).view = v /\ Run(l, t, v, c, cfg).c = c
         /\ Run(l, t, v, c, cfg).cfg = cfg /\ Run(l, t, v, c, cfg).ratio = Ratio(t, v, c, cfg)
         /\ Run(l, t, v, c, cfg).key = <<l, t, v, c, Tag(cfg)>>
BY DEF Run

\* No two runs share a key, and none repeats another's configuration.
Apart(r, q) ==
  r # q => r.key # q.key /\
    (<<r.label, r.tensor, r.view, r.c>> = <<q.label, q.tensor, q.view, q.c>> =>
       Effect(r.cfg, NDim[r.view]) # Effect(q.cfg, NDim[r.view]))

LEMMA RowsApart ==
  ASSUME NEW i, NEW m, NEW r \in RowsBefore(i, m), NEW q \in RowsBefore(i, m)
  PROVE  Apart(r, q)
<1>1. PICK p1 \in Reached(i, m), v1 \in Views, c1 \in CGrid : \E g \in Grid(NDim[v1]) :
        r = Run(corpora[p1[1]].label, corpora[p1[1]].tensors[p1[2]], v1, c1, g)
  BY RowsAre
<1>2. PICK p2 \in Reached(i, m), v2 \in Views, c2 \in CGrid : \E g \in Grid(NDim[v2]) :
        q = Run(corpora[p2[1]].label, corpora[p2[1]].tensors[p2[2]], v2, c2, g)
  BY RowsAre
<1> DEFINE l1 == corpora[p1[1]].label
           t1 == corpora[p1[1]].tensors[p1[2]]
           l2 == corpora[p2[1]].label
           t2 == corpora[p2[1]].tensors[p2[2]]
<1>. HIDE DEF l1, l2, t1, t2
<1>9. PICK g1 \in Grid(NDim[v1]) : r = Run(l1, t1, v1, c1, g1)
  BY <1>1 DEF l1, t1
<1>10. PICK g2 \in Grid(NDim[v2]) : q = Run(l2, t2, v2, c2, g2)
  BY <1>2 DEF l2, t2
<1>3. r = Run(l1, t1, v1, c1, g1) /\ q = Run(l2, t2, v2, c2, g2)
  BY <1>9, <1>10
<1>4. /\ r.label = l1 /\ r.tensor = t1 /\ r.view = v1 /\ r.c = c1 /\ r.cfg = g1
      /\ r.key = <<l1, t1, v1, c1, Tag(g1)>>
      /\ q.label = l2 /\ q.tensor = t2 /\ q.view = v2 /\ q.c = c2 /\ q.cfg = g2
      /\ q.key = <<l2, t2, v2, c2, Tag(g2)>>
  BY <1>3, RunFields
<1>5. NDim[v1] \in {2, 3}
  BY ViewsAre
<1>6. ASSUME l1 = l2, t1 = t2, v1 = v2, c1 = c2, g1 = g2
      PROVE  r = q
  BY Zenon, <1>3, <1>6
<1>7. ASSUME r.key = q.key
      PROVE  r = q
  <2>1. l1 = l2 /\ t1 = t2 /\ v1 = v2 /\ c1 = c2 /\ Tag(g1) = Tag(g2)
    BY <1>4, <1>7
  <2>2. g2 \in Grid(NDim[v1])
    BY <2>1
  <2>3. g1 = g2
    BY <1>5, <2>1, <2>2, TagsDiffer
  <2>. QED BY Zenon, <1>6, <2>1, <2>3
<1>8. ASSUME <<r.label, r.tensor, r.view, r.c>> = <<q.label, q.tensor, q.view, q.c>>,
             Effect(r.cfg, NDim[r.view]) = Effect(q.cfg, NDim[r.view])
      PROVE  r = q
  <2>1. l1 = l2 /\ t1 = t2 /\ v1 = v2 /\ c1 = c2
    BY <1>4, <1>8
  <2>2. g2 \in Grid(NDim[v1])
    BY <2>1
  <2>3. Effect(g1, NDim[v1]) = g1 /\ Effect(g2, NDim[v1]) = g2
    BY <1>5, <2>2, GridMember
  <2>4. Effect(g1, NDim[v1]) = Effect(g2, NDim[v1])
    BY Zenon, <1>4, <1>8
  <2>5. g1 = g2
    BY Zenon, <2>3, <2>4
  <2>. QED BY Zenon, <1>6, <2>1, <2>5
<1>. QED BY Zenon, <1>7, <1>8 DEF Apart

LEMMA RatioType ==
  ASSUME ScanAssumption, NEW D, profile \in [D -> Profiles], NEW t \in D,
         NEW v \in Views, NEW c \in CGrid, NEW cfg \in Grid(NDim[v])
  PROVE  Ratio(t, v, c, cfg) \in Int
<1>1. NDim[v] \in {2, 3}
  BY ViewsAre
<1>2. Effect(cfg, NDim[v]) = cfg
  BY <1>1, GridMember
<1>3. cfg \in Grid(2) \union Grid(3)
  BY <1>1
<1>4. profile[t] \in Profiles
  OBVIOUS
<1>5. Size(profile[t], c, cfg) \in Nat \ {0} /\ Bf16Bytes \in Nat
  BY Zenon, <1>3, <1>4 DEF ScanAssumption
<1>6. \A a \in Nat : \A b \in Nat \ {0} : a \div b \in Int
  OBVIOUS
<1>7. Bf16Bytes \div Size(profile[t], c, cfg) \in Int
  BY Zenon, <1>5, <1>6
<1>8. Ratio(t, v, c, cfg) = Bf16Bytes \div Size(profile[t], c, cfg)
  BY <1>2 DEF Ratio
<1>. QED BY Zenon, <1>7, <1>8

Ratios(T, v, c) == [t \in T |-> [cfg \in Grid(NDim[v]) |-> Ratio(t, v, c, cfg)]]

LEMMA ScannedHas ==
  ASSUME NEW l, NEW t, NEW v \in Views, NEW c \in CGrid, NEW cfg \in Grid(NDim[v])
  PROVE  Run(l, t, v, c, cfg) \in Scanned(l, t)
<1>1. Run(l, t, v, c, cfg) \in {Run(l, t, v, d, g) : d \in CGrid, g \in Grid(NDim[v])}
  OBVIOUS
<1>. QED BY <1>1 DEF Scanned

\* The runs of one corpus, view and c are a full table.
LEMMA FullRuns ==
  ASSUME ScanAssumption, Located, rows = RowsBefore(Len(corpora) + 1, 1),
         NEW i \in 1..Len(corpora), corpora[i].tensors # << >>,
         NEW v \in Views, NEW c \in CGrid
  PROVE  Full(RunsOf(corpora[i].label, v, c), Range(corpora[i].tensors), Grid(NDim[v]),
              Ratios(Range(corpora[i].tensors), v, c))
<1> DEFINE s == corpora[i].tensors
           l == corpora[i].label
           A == RunsOf(l, v, c)
           T == Range(s)
           C == Grid(NDim[v])
           F == Ratios(T, v, c)
<1>1. corpora \in CorpusSets /\ Len(corpora) \in Nat /\ DOMAIN corpora = 1..Len(corpora)
  BY CorporaAre DEF Located
<1>2. s \in Seq(STRING) /\ Len(s) \in Nat /\ DOMAIN s = 1..Len(s) /\ Len(s) # 0
  <2>1. s \in Seq(STRING) /\ Len(s) \in Nat /\ DOMAIN s = 1..Len(s)
    BY <1>1, CorporaAre
  <2>2. \A q \in Seq(STRING) : q # << >> => Len(q) # 0
    OBVIOUS
  <2>. QED BY <2>1, <2>2
<1>3. NDim[v] \in {2, 3}
  BY ViewsAre
<1>4. \A m \in 1..Len(s) : \A cfg \in C : Run(l, s[m], v, c, cfg) \in A
  <2> TAKE m \in 1..Len(s)
  <2> TAKE cfg \in C
  <2>1. <<i, m>> \in Reached(Len(corpora) + 1, 1)
    BY <1>1, <1>2 DEF Reached
  <2>2. RowsAt(<<i, m>>) \subseteq rows
    BY <2>1 DEF RowsBefore
  <2>3. Run(l, s[m], v, c, cfg) \in RowsAt(<<i, m>>)
    <3>1. RowsAt(<<i, m>>) = Scanned(l, s[m])
      BY DEF RowsAt
    <3>. HIDE DEF l, s
    <3>. QED BY <3>1, ScannedHas
  <2>. QED BY <2>2, <2>3, RunFields DEF RunsOf
<1>5. \A r \in A : \E m \in 1..Len(s), cfg \in C : r = Run(l, s[m], v, c, cfg)
  <2> TAKE r \in A
  <2>1. r \in RowsBefore(Len(corpora) + 1, 1) /\ r.label = l /\ r.view = v /\ r.c = c
    BY DEF RunsOf
  <2>7. PICK p \in Reached(Len(corpora) + 1, 1), v1 \in Views, c1 \in CGrid :
          \E g \in Grid(NDim[v1]) :
            r = Run(corpora[p[1]].label, corpora[p[1]].tensors[p[2]], v1, c1, g)
    <3>. HIDE DEF A, F, T, C, l, s
    <3>. QED BY SMTT(60), <2>1, RowsAre
  <2>2. PICK g \in Grid(NDim[v1]) :
          r = Run(corpora[p[1]].label, corpora[p[1]].tensors[p[2]], v1, c1, g)
    BY <2>7
  <2>3. corpora[p[1]].label = l /\ v1 = v /\ c1 = c
    BY <2>1, <2>2, RunFields
  <2>4. p[1] \in 1..Len(corpora) /\ p[2] \in 1..Len(corpora[p[1]].tensors)
    BY DEF Reached
  <2>5. p[1] = i
    BY <1>1, <2>3, <2>4, CorporaAre
  <2>6. p[2] \in 1..Len(s) /\ g \in C /\ r = Run(l, s[p[2]], v, c, g)
    BY <2>2, <2>3, <2>4, <2>5
  <2>. QED BY Zenon, <2>6
<1>6. T = {s[m] : m \in 1..Len(s)}
  BY <1>2 DEF Range
<1>7. IsFiniteSet(T)
  BY <1>2, <1>6, ValuesFinite
<1>8. T # {}
  <2>1. 1 \in 1..Len(s)
    BY <1>2
  <2>2. s[1] \in T
    BY <1>6, <2>1
  <2>. QED BY <2>2
<1>9. IsFiniteSet(C)
  BY <1>3, GridFinite
<1>10. F \in [T -> [C -> Int]]
  <2> DEFINE D == UNION {Range(corpora[j].tensors) : j \in DOMAIN corpora}
  <2>1. profile \in [D -> Profiles]
    BY DEF Located
  <2>2. T \subseteq D
    BY <1>1
  <2>3. \A t \in T : \A cfg \in C : Ratio(t, v, c, cfg) \in Int
    <3>. HIDE DEF D
    <3>. QED BY <2>1, <2>2, RatioType
  <2>. HIDE DEF D, T, C
  <2>. QED BY <2>3 DEF Ratios, C
<1>11. /\ NoPrediction \in C /\ \A cfg \in C : cfg.algo = "NOPRED" => cfg = NoPrediction
       /\ \E cfg \in C : cfg.algo # "NOPRED"
  <2>1. NoPrediction \in C
    BY GridIs
  <2>2. \A cfg \in C : cfg.algo = "NOPRED" => cfg = NoPrediction
    BY <1>3, GridMember
  <2>3. [algo |-> "LORENZO_REG", settings |-> <<"Yes", "Yes">>] \in C
    BY GridIs DEF Lorenzo
  <2>. QED BY <2>1, <2>2, <2>3
<1>12. \A r \in A : /\ r.tensor \in T /\ r.cfg \in C /\ r.ratio = F[r.tensor][r.cfg]
                    /\ r = Run(l, r.tensor, v, c, r.cfg)
  <2> TAKE r \in A
  <2>1. PICK m \in 1..Len(s), cfg \in C : r = Run(l, s[m], v, c, cfg)
    BY <1>5
  <2>2. r.tensor = s[m] /\ r.cfg = cfg /\ r.ratio = Ratio(s[m], v, c, cfg)
    BY <2>1, RunFields
  <2>3. s[m] \in T
    BY <1>6
  <2>4. F[s[m]][cfg] = Ratio(s[m], v, c, cfg)
    <3>. HIDE DEF T
    <3>. QED BY <2>3 DEF Ratios
  <2>. QED BY <2>1, <2>2, <2>3, <2>4
<1>13. \A r, q \in A : r.tensor = q.tensor /\ r.cfg = q.cfg => r = q
  <2>. HIDE DEF A, F, T, C, l, s
  <2>. QED BY Zenon, <1>12
<1>14. \A t \in T : \A cfg \in C : \E r \in A : r.tensor = t /\ r.cfg = cfg
  <2> TAKE t \in T
  <2> TAKE cfg \in C
  <2>1. PICK m \in 1..Len(s) : t = s[m]
    BY <1>6
  <2>2. Run(l, s[m], v, c, cfg) \in A
    BY <1>4
  <2>3. Run(l, s[m], v, c, cfg).tensor = t /\ Run(l, s[m], v, c, cfg).cfg = cfg
    BY <2>1, RunFields
  <2>. HIDE DEF A, F, T, C, l, s
  <2>. QED BY Zenon, <2>2, <2>3
<1>. HIDE DEF A, F, T, C, l, s
<1>15. Full(A, T, C, F)
  BY <1>7, <1>8, <1>9, <1>10, <1>11, <1>12, <1>13, <1>14 DEF Full
<1>. QED BY <1>15 DEF A, T, C, F, l, s

LEMMA RowsKept ==
  ASSUME UNCHANGED <<corpora, profile>>
  PROVE  \A i, m : RowsBefore(i, m)' = RowsBefore(i, m)
BY DEF RowsBefore, RowsAt, Scanned, Run, Ratio, Reached

LEMMA SummaryKept ==
  ASSUME NEW l, NEW v, NEW c, RunsOf(l, v, c)' = RunsOf(l, v, c)
  PROVE  Summary(l, v, c)' = Summary(l, v, c)
BY DEF Summary

LEMMA SummariesKept ==
  ASSUME UNCHANGED corpora, NEW n,
         \A i \in 1..n : \A v \in Views, c \in CGrid :
           RunsOf(corpora[i].label, v, c)' = RunsOf(corpora[i].label, v, c)
  PROVE  Summaries(n)' = Summaries(n)
<1>1. \A p \in Places(n) : SummaryAt(p)' = SummaryAt(p)
  <2> TAKE p \in Places(n)
  <2>1. p[1] \in 1..n /\ p[2] \in Views /\ p[3] \in CGrid
    BY DEF Places
  <2> DEFINE l == corpora[p[1]].label
             v == p[2]
             c == p[3]
  <2>2. RunsOf(l, v, c)' = RunsOf(l, v, c)
    BY <2>1
  <2>3. Summary(l, v, c)' = Summary(l, v, c)
    BY <2>2, SummaryKept
  <2>. QED BY <2>3 DEF SummaryAt
<1>. QED BY <1>1 DEF Summaries

\* A tensor of another corpus adds nothing to a summary.
LEMMA ScannedLabel ==
  ASSUME NEW l, NEW t
  PROVE  \A r \in Scanned(l, t) : r.label = l
BY RunFields DEF Scanned

LEMMA SummariesStep ==
  ASSUME NEW i \in Nat \ {0}
  PROVE  Summaries(i) = Summaries(i - 1) \union
           {Summary(corpora[i].label, v, c) : v \in Views, c \in CGrid}
<1> DEFINE N == {Summary(corpora[i].label, v, c) : v \in Views, c \in CGrid}
<1>1. 1..i = (1..(i - 1)) \union {i}
  OBVIOUS
<1>2. \A y \in Summaries(i) : y \in Summaries(i - 1) \union N
  <2> TAKE y \in Summaries(i)
  <2>1. PICK p \in Places(i) : y = SummaryAt(p)
    BY DEF Summaries
  <2>2. p[1] \in 1..i /\ p[2] \in Views /\ p[3] \in CGrid /\ p = <<p[1], p[2], p[3]>>
    BY DEF Places
  <2>3. CASE p[1] = i
    <3>1. y = Summary(corpora[i].label, p[2], p[3])
      BY <2>1, <2>3 DEF SummaryAt
    <3>. QED BY <2>2, <3>1
  <2>4. CASE p[1] \in 1..(i - 1)
    <3>1. p \in Places(i - 1)
      BY <2>2, <2>4 DEF Places
    <3>. QED BY <2>1, <3>1 DEF Summaries
  <2>. QED BY <1>1, <2>2, <2>3, <2>4
<1>3. \A y \in Summaries(i - 1) : y \in Summaries(i)
  <2>1. Places(i - 1) \subseteq Places(i)
    BY <1>1 DEF Places
  <2>. QED BY <2>1 DEF Summaries
<1>4. \A y \in N : y \in Summaries(i)
  <2> TAKE y \in N
  <2>1. PICK v \in Views, c \in CGrid : y = Summary(corpora[i].label, v, c)
    OBVIOUS
  <2>2. <<i, v, c>> \in Places(i)
    BY DEF Places
  <2>3. y = SummaryAt(<<i, v, c>>)
    BY <2>1 DEF SummaryAt
  <2>. QED BY <2>2, <2>3 DEF Summaries
<1>. HIDE DEF N
<1>5. Summaries(i) = Summaries(i - 1) \union N
  BY <1>2, <1>3, <1>4
<1>. QED BY <1>5 DEF N

LEMMA NoneBefore ==
  /\ Reached(1, 1) = {} /\ RowsBefore(1, 1) = {} /\ Places(0) = {} /\ Summaries(0) = {}
<1>1. Reached(1, 1) = {}
  BY DEF Reached
<1>2. Places(0) = {}
  BY DEF Places
<1>. QED BY <1>1, <1>2 DEF RowsBefore, Summaries

LEMMA ScanInitInv ==
  ASSUME ScanInit
  PROVE  ScanInv
BY DEF ScanInit, ScanInv, Located, Progress

LEMMA ScanNextInv ==
  ASSUME ScanAssumption, ScanInv, [ScanNext]_scanVars
  PROVE  ScanInv'
<1>1. CASE UNCHANGED scanVars
  <2>1. UNCHANGED <<corpora, profile>> /\ UNCHANGED <<stage, corpus, tensor, rows, result>>
    BY <1>1 DEF scanVars
  <2>2. \A l, v, c : RunsOf(l, v, c)' = RunsOf(l, v, c)
    BY <2>1 DEF RunsOf
  <2>3. \A n : Summaries(n)' = Summaries(n)
    BY <2>1, <2>2, SummariesKept
  <2>. QED BY <2>1, <2>3, RowsKept DEF ScanInv, Located, Progress
<1>2. ASSUME ScanNext
      PROVE  ScanInv'
  <2>0. UNCHANGED <<corpora, profile>>
    BY <1>2 DEF ScanNext, ValidateKnobs, ScanTensor, Analyse, BoundBroken, WriteResult
  <2>1. Located'
    BY <1>2, <2>0 DEF ScanInv, Located, ScanNext, ValidateKnobs, ScanTensor, Analyse,
                      BoundBroken, WriteResult
  <2>2. corpora \in CorpusSets /\ Len(corpora) \in Nat
    BY CorporaAre DEF ScanInv, Located
  <2>3. \A i, m : RowsBefore(i, m)' = RowsBefore(i, m)
    BY <2>0, RowsKept
  <2>4. rows' = rows => \A n : Summaries(n)' = Summaries(n)
    <3> SUFFICES ASSUME rows' = rows PROVE \A n : Summaries(n)' = Summaries(n)
      OBVIOUS
    <3>1. \A l, v, c : RunsOf(l, v, c)' = RunsOf(l, v, c)
      BY DEF RunsOf
    <3>. QED BY <2>0, <3>1, SummariesKept
  <2>5. CASE ValidateKnobs
    <3>1. corpus = 1 /\ tensor = 1 /\ rows = {} /\ result = {}
      BY <2>5 DEF ValidateKnobs, ScanInv, Progress
    <3>2. CASE corpora = << >>
      <4>1. stage' = "analysed" /\ rows' = {} /\ result' = {} /\ Len(corpora) = 0
        BY <2>5, <3>1, <3>2 DEF ValidateKnobs
      <4>2. RowsBefore(1, 1)' = {} /\ Summaries(0)' = {}
        BY <2>3, <2>4, <3>1, <4>1, NoneBefore
      <4>. QED BY <2>0, <2>1, <4>1, <4>2 DEF ScanInv, Progress
    <3>3. CASE corpora # << >>
      <4>1. /\ stage' = "scan" /\ rows' = {} /\ result' = {} /\ corpus' = 1 /\ tensor' = 1
        BY <2>5, <3>1, <3>3 DEF ValidateKnobs
      <4>2. RowsBefore(1, 1)' = {} /\ Summaries(0)' = {}
        BY <2>3, <2>4, <3>1, <4>1, NoneBefore
      <4>3. corpora \in Seq([label : STRING, tensors : Seq(STRING)])
        BY <2>2 DEF ScanAssumption
      <4>4. 1 \in 1..Len(corpora)
        BY <3>3, <4>3
      <4>5. 1 \in 1..(Len(corpora[1].tensors) + 1)
        BY <2>2, <4>4, CorporaAre
      <4>. QED BY <2>0, <2>1, <4>1, <4>2, <4>4, <4>5 DEF ScanInv, Progress
    <3>. QED BY <3>2, <3>3
  <2>6. CASE ScanTensor
    <3>1. /\ stage = "scan" /\ tensor <= Len(corpora[corpus].tensors)
          /\ rows' = rows \union Scanned(corpora[corpus].label, corpora[corpus].tensors[tensor])
          /\ tensor' = tensor + 1 /\ UNCHANGED <<stage, corpus, result>>
      BY <2>6 DEF ScanTensor
    <3>2. /\ corpus \in 1..Len(corpora) /\ tensor \in 1..(Len(corpora[corpus].tensors) + 1)
          /\ rows = RowsBefore(corpus, tensor) /\ result = Summaries(corpus - 1)
          /\ \A i \in 1..(corpus - 1) : corpora[i].tensors # << >>
      BY <3>1 DEF ScanInv, Progress
    <3>3. Len(corpora[corpus].tensors) \in Nat
      BY <2>2, <3>2, CorporaAre
    <3>4. tensor \in 1..Len(corpora[corpus].tensors)
      BY <3>1, <3>2, <3>3
    <3>5. rows' = RowsBefore(corpus, tensor + 1)
      BY <2>2, <3>1, <3>2, <3>4, RowsStep
    <3>6. \A i \in 1..(corpus - 1) : corpora[i].label # corpora[corpus].label
      <4> TAKE i \in 1..(corpus - 1)
      <4>1. i \in 1..Len(corpora) /\ i # corpus
        BY <2>2, <3>2
      <4>. QED BY <2>2, <3>2, <4>1, CorporaAre
    <3>7. Summaries(corpus - 1)' = Summaries(corpus - 1)
      <4>1. PICK l, t, n : l = corpora[corpus].label /\ t = corpora[corpus].tensors[tensor] /\ n = corpus - 1
        OBVIOUS
      <4>2. UNCHANGED profile /\ rows' = rows \union Scanned(l, t)
        BY <2>0, <3>1, <4>1
      <4>3. ASSUME NEW i \in 1..n, NEW v \in Views, NEW c \in CGrid
            PROVE  RunsOf(corpora[i].label, v, c)' = RunsOf(corpora[i].label, v, c)
        <5>1. PICK q : q = corpora[i].label
          OBVIOUS
        <5>2. l # q
          BY <3>6, <4>1, <5>1
        <5>3. RunsOf(q, v, c)' = RunsOf(q, v, c)
          <6>1. \A r \in Scanned(l, t) : r.label = l
            BY ScannedLabel
          <6>. QED BY <4>2, <5>2, <6>1 DEF RunsOf
        <5>. QED BY <2>0, <5>1, <5>3
      <4>4. Summaries(n)' = Summaries(n)
        BY <2>0, <4>3, SummariesKept
      <4>. QED BY <3>1, <4>1, <4>4
    <3>. QED BY <2>0, <2>1, <2>3, <3>1, <3>2, <3>3, <3>4, <3>5, <3>7 DEF ScanInv, Progress
  <2>7. CASE Analyse
    <3>1. /\ stage = "scan" /\ tensor > Len(corpora[corpus].tensors) /\ rows' = rows
          /\ IF corpora[corpus].tensors = << >>
             THEN stage' = "raised" /\ UNCHANGED <<corpus, tensor, result>>
             ELSE /\ result' = result \union
                       {Summary(corpora[corpus].label, v, c) : v \in Views, c \in CGrid}
                  /\ IF corpus < Len(corpora)
                     THEN corpus' = corpus + 1 /\ tensor' = 1 /\ stage' = stage
                     ELSE stage' = "analysed" /\ UNCHANGED <<corpus, tensor>>
      BY <2>7 DEF Analyse
    <3>2. /\ corpus \in 1..Len(corpora) /\ tensor \in 1..(Len(corpora[corpus].tensors) + 1)
          /\ rows = RowsBefore(corpus, tensor) /\ result = Summaries(corpus - 1)
          /\ \A i \in 1..(corpus - 1) : corpora[i].tensors # << >>
      BY <3>1 DEF ScanInv, Progress
    <3>3. CASE corpora[corpus].tensors = << >>
      BY <2>1, <3>1, <3>3 DEF ScanInv, Progress
    <3>4. CASE corpora[corpus].tensors # << >>
      <4>1. PICK i \in 1..Len(corpora) : i = corpus
        BY <3>2
      <4>2. Len(corpora[i].tensors) \in Nat /\ tensor = Len(corpora[i].tensors) + 1
        BY <2>2, <3>1, <3>2, <4>1, CorporaAre
      <4>3. rows = RowsBefore(i + 1, 1)
        BY <2>2, <3>2, <4>1, <4>2, RowsStep
      <4>4. RowsBefore(i + 1, 1)' = RowsBefore(i + 1, 1)
        BY <2>3
      <4>5. result' = Summaries(i)
        <5>1. i \in Nat \ {0}
          BY <2>2
        <5>2. Summaries(i) = Summaries(i - 1) \union
                {Summary(corpora[i].label, v, c) : v \in Views, c \in CGrid}
          BY <5>1, SummariesStep
        <5>. QED BY <3>1, <3>2, <3>4, <4>1, <5>2
      <4>6. Summaries(i)' = Summaries(i)
        BY <2>4, <3>1
      <4>7. \A j \in 1..i : corpora[j].tensors # << >>
        BY <2>2, <3>2, <3>4, <4>1
      <4>8. CASE corpus < Len(corpora)
        <5>1. stage' = "scan" /\ corpus' = i + 1 /\ tensor' = 1 /\ corpus' - 1 = i
          BY <3>1, <3>4, <4>1, <4>8
        <5>2. i + 1 \in 1..Len(corpora)
          BY <2>2, <4>1, <4>8
        <5>3. 1 \in 1..(Len(corpora[i + 1].tensors) + 1)
          <6>1. Len(corpora[i + 1].tensors) \in Nat
            BY <2>2, <5>2, CorporaAre
          <6>. QED BY <6>1
        <5>4. rows' = RowsBefore(i + 1, 1)' /\ result' = Summaries(i)'
          BY <3>1, <4>3, <4>4, <4>5, <4>6
        <5>. QED BY <2>0, <2>1, <4>7, <5>1, <5>2, <5>3, <5>4 DEF ScanInv, Progress
      <4>9. CASE ~(corpus < Len(corpora))
        <5>1. stage' = "analysed" /\ i = Len(corpora)
          BY <2>2, <3>1, <3>4, <4>1, <4>9
        <5>2. rows' = RowsBefore(i + 1, 1)' /\ result' = Summaries(i)'
          BY <3>1, <4>3, <4>4, <4>5, <4>6
        <5>. QED BY <2>0, <2>1, <4>7, <5>1, <5>2 DEF ScanInv, Progress
      <4>. QED BY <4>8, <4>9
    <3>. QED BY <3>3, <3>4
  <2>8. CASE BoundBroken
    BY <2>1, <2>8 DEF BoundBroken, ScanInv, Progress
  <2>9. CASE WriteResult
    <3>1. stage = "analysed" /\ stage' = "written" /\ UNCHANGED <<rows, result>>
      BY <2>9 DEF WriteResult
    <3>. QED BY <2>0, <2>1, <2>3, <2>4, <3>1 DEF ScanInv, Progress
  <2>. QED BY <1>2, <2>5, <2>6, <2>7, <2>8, <2>9 DEF ScanNext
<1>. QED BY <1>1, <1>2

LEMMA ViewsFinite == IsFiniteSet(Views)
BY ViewsAre, ThreeAreFinite

LEMMA SummaryFields ==
  ASSUME NEW p
  PROVE  LET s == SummaryAt(p)
             A == RunsOf(corpora[p[1]].label, p[2], p[3])
         IN  /\ s.label = corpora[p[1]].label /\ s.view = p[2] /\ s.c = p[3]
             /\ s.wins = Wins(A) /\ s.tensors = TensorsOf(A) /\ s.oracle = OracleTotal(A)
             /\ s.nopred = Total(A, NoPrediction) /\ s.best = Total(A, BestPredictor(A))
BY DEF SummaryAt, Summary, NoPrediction

\* A result has a summary for each corpus, view and c.
LEMMA SummariesCounted ==
  ASSUME ScanAssumption, Located
  PROVE  Cardinality(Summaries(Len(corpora)))
           = Len(corpora) * Cardinality(Views) * Cardinality(CGrid)
<1> DEFINE n == Len(corpora)
           P == Places(n)
           f == [p \in P |-> SummaryAt(p)]
           R == Summaries(n)
<1>1. corpora \in CorpusSets /\ n \in Nat
  BY CorporaAre DEF Located
<1>2. IsFiniteSet(1..n) /\ Cardinality(1..n) = n
  <2>. HIDE DEF n
  <2>1. IsFiniteSet(1..n) /\ Cardinality(1..n) = IF 1 > n THEN 0 ELSE n - 1 + 1
    BY <1>1, FS_Interval
  <2>. QED BY <1>1, <2>1
<1>3. IsFiniteSet(Views) /\ IsFiniteSet(CGrid)
  BY ViewsFinite DEF ScanAssumption
<1> DEFINE Q == (1..n) \X Views
<1>4. IsFiniteSet(Q) /\ Cardinality(Q) = n * Cardinality(Views)
  <2>. HIDE DEF n
  <2>. QED BY <1>2, <1>3, FS_Product
<1>5. IsFiniteSet(Q \X CGrid) /\ Cardinality(Q \X CGrid) = n * Cardinality(Views) * Cardinality(CGrid)
  <2>. HIDE DEF n, Q
  <2>. QED BY <1>3, <1>4, FS_Product
<1> DEFINE g == [x \in Q \X CGrid |-> SummaryAt(<<x[1][1], x[1][2], x[2]>>)]
<1>6. \A x \in Q \X CGrid : <<x[1][1], x[1][2], x[2]>> \in P
  BY DEF Places
<1>7. g \in [Q \X CGrid -> R]
  <2>. HIDE DEF P, n, Q
  <2>. QED BY <1>6 DEF Summaries, P
<1>8. \A y \in R : \E x \in Q \X CGrid : g[x] = y
  <2> TAKE y \in R
  <2>1. PICK p \in P : y = SummaryAt(p)
    BY DEF Summaries
  <2>2. p[1] \in 1..n /\ p[2] \in Views /\ p[3] \in CGrid /\ p = <<p[1], p[2], p[3]>>
    BY DEF Places
  <2> DEFINE x == <<<<p[1], p[2]>>, p[3]>>
  <2>3. x \in Q \X CGrid /\ x[1][1] = p[1] /\ x[1][2] = p[2] /\ x[2] = p[3]
    BY <2>2
  <2>4. g[x] = SummaryAt(<<p[1], p[2], p[3]>>)
    <3>. HIDE DEF Q, x
    <3>. QED BY <2>3
  <2>5. g[x] = y
    BY Zenon, <2>1, <2>2, <2>4
  <2>. QED BY Zenon, <2>3, <2>5
<1>9. \A x, y \in Q \X CGrid : g[x] = g[y] => x = y
  <2> SUFFICES ASSUME NEW x \in Q \X CGrid, NEW y \in Q \X CGrid, g[x] = g[y] PROVE x = y
    OBVIOUS
  <2>1. /\ x[1][1] \in 1..n /\ y[1][1] \in 1..n
        /\ x = <<<<x[1][1], x[1][2]>>, x[2]>> /\ y = <<<<y[1][1], y[1][2]>>, y[2]>>
    OBVIOUS
  <2> DEFINE px == <<x[1][1], x[1][2], x[2]>>
             py == <<y[1][1], y[1][2], y[2]>>
  <2>2. SummaryAt(px) = SummaryAt(py)
    OBVIOUS
  <2>3. px[1] = x[1][1] /\ px[2] = x[1][2] /\ px[3] = x[2] /\ py[1] = y[1][1] /\ py[2] = y[1][2] /\ py[3] = y[2]
    OBVIOUS
  <2>. HIDE DEF px, py, g
  <2>4. corpora[px[1]].label = corpora[py[1]].label /\ px[2] = py[2] /\ px[3] = py[3]
    <3>1. SummaryAt(px).label = corpora[px[1]].label /\ SummaryAt(px).view = px[2] /\ SummaryAt(px).c = px[3]
      BY SummaryFields
    <3>2. SummaryAt(py).label = corpora[py[1]].label /\ SummaryAt(py).view = py[2] /\ SummaryAt(py).c = py[3]
      BY SummaryFields
    <3>. QED BY <2>2, <3>1, <3>2
  <2>5. x[1][1] = y[1][1]
    BY <1>1, <2>1, <2>3, <2>4, CorporaAre
  <2>. QED BY Zenon, <2>1, <2>3, <2>4, <2>5
<1>. HIDE DEF g, Q, R
<1>10. g \in Bijection(Q \X CGrid, R)
  BY <1>7, <1>8, <1>9 DEF Bijection, Injection, Surjection, IsInjective
<1>11. ExistsBijection(Q \X CGrid, R)
  BY <1>10 DEF ExistsBijection
<1>12. Cardinality(R) = Cardinality(Q \X CGrid)
  BY <1>5, <1>11, FS_Bijection
<1>. QED BY <1>5, <1>12 DEF R

LEMMA ScanFair ==
  ASSUME ScanAssumption, ScanInv
  PROVE  HandicapIsFair
<1> SUFFICES ASSUME stage = "written" PROVE HandicapIsFair
  BY DEF HandicapIsFair
<1>1. /\ rows = RowsBefore(Len(corpora) + 1, 1) /\ result = Summaries(Len(corpora))
      /\ \A i \in 1..Len(corpora) : corpora[i].tensors # << >>
  BY DEF ScanInv, Progress
<1>2. Located
  BY DEF ScanInv
<1>3. \A r, q \in rows : Apart(r, q)
  BY <1>1, RowsApart
<1>4. Cardinality(result) = Len(corpora) * Cardinality(Views) * Cardinality(CGrid)
  BY <1>1, <1>2, SummariesCounted
<1>5. ASSUME NEW s \in result
      PROVE  LET A == RunsOf(s.label, s.view, s.c)
             IN  /\ s.wins = Cardinality({t \in s.tensors : Beats(A, t)})
                 /\ s.best <= s.oracle
                 /\ s.wins = Cardinality(s.tensors) => s.nopred > s.best
  <2>1. PICK p \in Places(Len(corpora)) : s = SummaryAt(p)
    BY <1>1 DEF Summaries
  <2>2. p[1] \in 1..Len(corpora) /\ p[2] \in Views /\ p[3] \in CGrid
    BY DEF Places
  <2> DEFINE i == p[1]
             v == p[2]
             c == p[3]
             A == RunsOf(corpora[i].label, v, c)
             T == Range(corpora[i].tensors)
             C == Grid(NDim[v])
             F == Ratios(T, v, c)
  <2>3. /\ s.label = corpora[i].label /\ s.view = v /\ s.c = c
        /\ s.wins = Wins(A) /\ s.tensors = TensorsOf(A) /\ s.oracle = OracleTotal(A)
        /\ s.nopred = Total(A, NoPrediction) /\ s.best = Total(A, BestPredictor(A))
    BY <2>1, SummaryFields
  <2>4. Full(A, T, C, F)
    <3>. HIDE DEF i, v, c
    <3>1. i \in 1..Len(corpora) /\ v \in Views /\ c \in CGrid
      BY <2>2 DEF i, v, c
    <3>. QED BY <1>1, <1>2, <3>1, FullRuns
  <2>. HIDE DEF A, T, C, F, i, v, c
  <2>5. /\ Wins(A) = Cardinality({t \in T : Beats(A, t)})
        /\ Total(A, BestPredictor(A)) <= OracleTotal(A)
        /\ Wins(A) = Cardinality(T) => Total(A, NoPrediction) > Total(A, BestPredictor(A))
    BY <2>4, FullFair
  <2>6. s.tensors = T
    BY <2>3, <2>4, FullTensors
  <2>7. RunsOf(s.label, s.view, s.c) = A
    BY <2>3 DEF A
  <2>. QED BY Zenon, <2>3, <2>5, <2>6, <2>7
<1>. QED BY <1>3, <1>4, <1>5 DEF HandicapIsFair, Apart, Beats

\* Every result that is written is a fair handicap (HandicapIsFair), for any corpora,
\* values of c and kernels, and whatever the compressor makes of a tensor.
THEOREM HandicapStaysFair == ScanSpec => []HandicapIsFair
<1>1. ScanInit => ScanInv
  BY ScanInitInv
<1>2. ScanInv /\ [ScanNext]_scanVars => ScanInv'
  BY ScanAssumption, ScanNextInv
<1>3. ScanInv => HandicapIsFair
  BY ScanAssumption, ScanFair
<1>. QED BY <1>1, <1>2, <1>3, PTL DEF ScanSpec
===============================================================================
