---------------------------- MODULE HoldoutProofs ----------------------------
(***************************************************************************)
(* Holdout's invariants for every corpus, every threshold, every number of *)
(* tensors, of freezes and of runs.  None is inductive as it stands:       *)
(*                                                                         *)
(*   TypeInv      the types, and that what is to be scored can be found:   *)
(*                a run looks the articles up once and scores them later   *)
(*   FreezeInv    what has been picked so far is as unseen as the list     *)
(*   ArmsInv      what the arms under way and before it made of the cache  *)
(*   GuardInv     the results are another run's until past the preflight   *)
(*   ScoredInv    every list is of articles of the split, whole            *)
(*   CompleteInv  written, under way and to come make up what is wanted    *)
(*   CountInv     which freeze each file is of                             *)
(***************************************************************************)
EXTENDS Holdout, FiniteSetTheorems, TLAPS

-----------------------------------------------------------------------------
(* Types.                                                                   *)

Findable(d) == d \in DOMAIN frozen.docs /\ Positions(frozen.docs[d].title) # {}

\* What is to be scored can be found in the corpus.
DocInv ==
  /\ b1 \in {"next", "prefill", "cache"} => \A d \in todo : Findable(d)
  /\ b1 \in {"prefill", "cache"} => Findable(doc)

TypeInv == TypeOK /\ DocInv

\* A set of positions has a last one.
LEMMA LastPosition ==
  ASSUME NEW n \in Nat, NEW S \in SUBSET (1..n), S # {}
  PROVE  \E i \in S : \A j \in S : j <= i
<1> DEFINE up(i) == {j \in S : j >= i}
           U == {up(i) : i \in S}
<1>1. IsFiniteSet(S)
  <2>1. IsFiniteSet(1..n)
    BY FS_Interval
  <2>2. QED
    BY <2>1, FS_Subset, Zenon
<1>2. U \subseteq FiniteSubsetsOf(S) /\ U # {}
  <2>1. FiniteSubsetsOf(S) = SUBSET S
    BY <1>1, FS_FiniteSubsetsOfFinite
  <2>2. U \subseteq SUBSET S /\ U # {}
    OBVIOUS
  <2> HIDE DEF U
  <2>3. QED
    BY <2>1, <2>2
<1>3. IsWellFoundedOn(StrictSubsetOrdering(S), FiniteSubsetsOf(S))
  BY FS_StrictSubsetOrderingWellFounded
<1>4. PICK u \in U : \A v \in U : ~(<<v, u>> \in StrictSubsetOrdering(S))
  <2> HIDE DEF U
  <2> QED BY <1>2, <1>3, WFMin
<1>5. PICK i \in S : u = up(i)
  OBVIOUS
<1>6. ASSUME NEW j \in S, j > i
      PROVE  FALSE
  <2>0. S \subseteq Int /\ i \in Int /\ j \in Int
    OBVIOUS
  <2>1. up(j) \subseteq up(i) /\ i \in up(i) /\ i \notin up(j) /\ up(i) \subseteq S
    <3>1. \A x \in S : x >= j => x >= i
      BY <1>6, <2>0
    <3>2. up(j) \subseteq up(i) /\ up(i) \subseteq S
      BY <3>1
    <3>3. i \in up(i) /\ i \notin up(j)
      BY <1>6, <2>0
    <3>4. QED
      BY <3>2, <3>3
  <2>2. <<up(j), up(i)>> \in StrictSubsetOrdering(S)
    BY <2>1 DEF StrictSubsetOrdering
  <2>3. QED
    BY <2>2, <1>4, <1>5
<1>7. QED
  BY <1>6

\* An article that can be found has a body: the last of its title.
LEMMA BodyType ==
  ASSUME TypeOK, NEW d, Findable(d)
  PROVE  /\ BodyOf(d) \in Bodies
         /\ \E i \in Positions(frozen.docs[d].title) : BodyOf(d) = validation[i].body
<1> DEFINE at == Positions(frozen.docs[d].title)
<1>0. validation \in Seq(Articles)
  BY DEF TypeOK, FreezeTypeOK
<1>1. at \in SUBSET (1..Len(validation)) /\ at # {} /\ Len(validation) \in Nat
  BY <1>0 DEF Positions, Findable
<1>2. \E i \in at : \A j \in at : j <= i
  BY <1>1, LastPosition
<1> DEFINE last == CHOOSE i \in at : \A j \in at : j <= i
<1>3. last \in at
  BY <1>2
<1>4. validation[last] \in Articles
  BY <1>0, <1>1, <1>3
<1>5. QED
  BY <1>3, <1>4 DEF BodyOf, Articles

\* An arm's codec setting for a tensor.
LEMMA CForType ==
  ASSUME NEW a \in 1..4, NEW t \in TensorSet
  PROVE  CFor(a, t) \in {0, 10}
<1>1. Arms[a].K \in {0, 10} /\ Arms[a].V \in {0, 10}
  BY DEF Arms
<1>2. QED
  BY <1>1 DEF CFor

\* The types, variable by variable.
LEMMA Fields ==
  ASSUME TypeOK
  PROVE  /\ FreezeTypeOK /\ run \in Nat /\ skip \in BOOLEAN
         /\ frozen \in [by : Nat, docs : Seq(Articles)]
         /\ frozen.docs \in Seq(Articles)
         /\ checks \subseteq [dev : Nat, ok : BOOLEAN]
         /\ todo \subseteq Nat /\ doc \in Nat /\ arm \in 1..4 /\ tensor \in 1..(NTensors + 1)
         /\ cache \in [TensorSet -> Seq({10})] /\ arms \in Seq([TensorSet -> Seq({10})])
         /\ jsonl \in [run : Nat, docs : Seq(Lines)]
         /\ jsonl.run \in Nat /\ jsonl.docs \in Seq(Lines) /\ docs \in Seq(Nat)
         /\ summary \in [run : Nat, docs : Seq(Nat), documents : Nat, by : Nat]
<1>1. frozen \in [by : Nat, docs : Seq(Articles)] /\ jsonl \in [run : Nat, docs : Seq(Lines)]
  BY DEF TypeOK
<1>2. frozen.docs \in Seq(Articles) /\ jsonl.run \in Nat /\ jsonl.docs \in Seq(Lines)
  BY <1>1
<1>3. QED
  BY <1>1, <1>2 DEF TypeOK

\* Where a run is and how it ended.
LEMMA Places ==
  ASSUME TypeOK
  PROVE  /\ b1 \in {"idle", "preflight", "documents", "next", "prefill", "cache"}
         /\ outcome \in {"none", "replacement moves the score", "missing article", "too short",
                         "damage", "not finite", "no summary", "summary", "killed"}
BY DEF TypeOK

\* The first state is of the right types.
LEMMA TypeInit == Init => TypeInv
<1>1. ASSUME Init PROVE TypeInv
  <2>1. PICK c \in Corpora : train = c.train /\ validation = c.validation
    BY <1>1 DEF Init, FreezeInit
  <2>2. train \in Seq(Articles) /\ validation \in Seq(Articles)
    BY <2>1, FreezeAssumption DEF Articles
  <2>3. FreezeTypeOK
    BY <1>1, <2>2 DEF Init, FreezeInit, FreezeTypeOK, NoManifest, NoProtocol
  <2>4. cache \in [TensorSet -> Seq({10})]
    BY <1>1 DEF Init, NoCache
  <2>5. b1 = "idle" /\ outcome = "none" /\ checks = {} /\ todo = {} /\ arms = << >> /\ tensor = 1
    BY <1>1 DEF Init
  <2>0. skip \in BOOLEAN /\ run \in Nat /\ doc \in Nat /\ arm \in 1..4
    <3>1. skip = FALSE
      BY <1>1 DEF Init
    <3>2. skip \in BOOLEAN
      BY <3>1, Zenon
    <3>3. run = 0 /\ doc = 0 /\ arm = 1
      BY <1>1 DEF Init
    <3>4. run \in Nat /\ doc \in Nat /\ arm \in 1..4
      BY <3>3
    <3>5. QED
      BY <3>2, <3>4
  <2>6. tensor \in 1..(NTensors + 1)
    BY <2>5, HoldoutAssumption
  <2>7. /\ frozen \in [by : Nat, docs : Seq(Articles)]
        /\ jsonl \in [run : Nat, docs : Seq(Lines)]
        /\ summary \in [run : Nat, docs : Seq(Nat), documents : Nat, by : Nat]
        /\ docs \in Seq(Nat)
    BY <1>1 DEF Init, NoManifest, NoJsonl, NoSummary
  <2>8. arms \in Seq([TensorSet -> Seq({10})]) /\ todo \subseteq Nat /\ checks \subseteq [dev : Nat, ok : BOOLEAN]
    BY <2>5
  <2>9. TypeOK
    <3>2. /\ b1 \in {"idle", "preflight", "documents", "next", "prefill", "cache"}
          /\ outcome \in {"none", "replacement moves the score", "missing article", "too short",
                          "damage", "not finite", "no summary", "summary", "killed"}
      BY <2>5
    <3>3. QED
      BY <2>0, <3>2, <2>3, <2>4, <2>6, <2>7, <2>8 DEF TypeOK
  <2>10. DocInv
    BY <2>5 DEF DocInv
  <2>11. QED
    BY <2>9, <2>10 DEF TypeInv
<1>2. QED
  BY <1>1

\* The freeze's own steps.
LEMMA FreezeTypeStep ==
  ASSUME FreezeTypeOK, FreezeNext
  PROVE  FreezeTypeOK' /\ UNCHANGED <<train, validation>>
<1>1. CASE FreezeStart
  BY <1>1 DEF FreezeStart, FreezeTypeOK
<1>2. CASE Consider
  <2>1. validation[next] \in Articles
    BY <1>2 DEF Consider, Selecting, FreezeTypeOK
  <2>2. picked' \in Seq(Articles)
    BY <1>2, <2>1 DEF Consider, FreezeTypeOK
  <2>3. QED
    BY <1>2, <2>2 DEF Consider, FreezeTypeOK
<1>3. CASE WriteManifest
  BY <1>3 DEF WriteManifest, FreezeTypeOK
<1>4. CASE WriteProtocol
  BY <1>4 DEF WriteProtocol, FreezeTypeOK, ProtocolOf
<1>5. CASE FreezeKilled
  BY <1>5 DEF FreezeKilled, FreezeTypeOK
<1>6. QED
  BY <1>1, <1>2, <1>3, <1>4, <1>5 DEF FreezeNext

\* A step that leaves B1 and the corpus alone leaves its types alone.
LEMMA FreezeKeepsTypes ==
  ASSUME TypeInv, FreezeTypeOK', UNCHANGED b1Vars, UNCHANGED validation
  PROVE  TypeInv'
<1>1. TypeOK'
  BY DEF TypeInv, TypeOK, b1Vars
<1>2. UNCHANGED <<b1, todo, doc, frozen, validation>>
  BY DEF b1Vars
<1>3. DocInv'
  BY <1>2 DEF TypeInv, DocInv, Findable, Positions
<1>4. QED
  BY <1>1, <1>3 DEF TypeInv

\* A step of B1 leaves the freeze's types alone, and what can be found.
LEMMA B1KeepsFreeze ==
  ASSUME TypeInv, UNCHANGED <<freezeVars, frozen>>
  PROVE  FreezeTypeOK' /\ \A d : Findable(d)' <=> Findable(d)
<1>1. UNCHANGED <<train, validation, b0, freeze, count, next, picked, manifest, protocol, frozen>>
  BY DEF freezeVars
<1>2. FreezeTypeOK'
  BY <1>1 DEF TypeInv, TypeOK, FreezeTypeOK
<1>3. QED
  BY <1>1, <1>2 DEF Findable, Positions

\* A run starts with the list as it is.
LEMMA B1StartTypes ==
  ASSUME TypeInv, B1Start
  PROVE  TypeInv'
<1>1. FreezeTypeOK'
  BY DEF B1Start, freezeVars, TypeInv, TypeOK, FreezeTypeOK
<1>2. frozen' \in [by : Nat, docs : Seq(Articles)]
  BY DEF B1Start, TypeInv, TypeOK, FreezeTypeOK
<1>3. /\ skip' \in BOOLEAN /\ run' = run + 1 /\ checks' = {} /\ outcome' = "none"
      /\ b1' \in {"documents", "preflight"}
      /\ UNCHANGED <<todo, doc, arm, tensor, cache, arms, jsonl, docs, summary>>
  BY DEF B1Start
<1>4. TypeOK'
  <2>1. run' \in Nat /\ checks' \subseteq [dev : Nat, ok : BOOLEAN]
    BY <1>3, Fields DEF TypeInv
  <2>2. /\ b1' \in {"idle", "preflight", "documents", "next", "prefill", "cache"}
        /\ outcome' \in {"none", "replacement moves the score", "missing article", "too short",
                         "damage", "not finite", "no summary", "summary", "killed"}
    BY <1>3
  <2>3. QED
    BY <2>1, <2>2, <1>1, <1>2, <1>3, Fields DEF TypeInv, TypeOK
<1>5. QED
  BY <1>3, <1>4 DEF TypeInv, DocInv

\* The preflight looks at train articles.
LEMMA PreflightTypes ==
  ASSUME TypeInv, Preflight
  PROVE  TypeInv'
<1>1. FreezeTypeOK'
  BY B1KeepsFreeze DEF Preflight
<1>2. DevArticles \subseteq Nat
  <2>1. train \in Seq(Articles)
    BY DEF TypeInv, TypeOK, FreezeTypeOK
  <2>2. DOMAIN train \subseteq Nat
    BY <2>1
  <2>3. QED
    BY <2>2 DEF DevArticles
<1>3. checks' \subseteq [dev : Nat, ok : BOOLEAN]
  <2>1. PICK bad \in SUBSET DevArticles : checks' = {[dev |-> n, ok |-> n \notin bad] : n \in DevArticles}
    BY DEF Preflight
  <2>2. \A n \in DevArticles : [dev |-> n, ok |-> n \notin bad] \in [dev : Nat, ok : BOOLEAN]
    BY <1>2
  <2>3. QED
    BY <2>1, <2>2
<1>4. b1' \in {"idle", "documents"} /\ outcome' \in {outcome, "replacement moves the score"}
  BY DEF Preflight, GiveUp
<1>5. QED
  BY <1>1, <1>3, <1>4 DEF Preflight, TypeInv, TypeOK, DocInv

\* The documents are opened when all of them can be found.
LEMMA OpenDocumentsTypes ==
  ASSUME TypeInv, OpenDocuments
  PROVE  TypeInv'
<1>1. FreezeTypeOK' /\ \A d : Findable(d)' <=> Findable(d)
  BY B1KeepsFreeze DEF OpenDocuments
<1>2. CASE \E d \in Wanted : Positions(frozen.docs[d].title) = {}
  BY <1>1, <1>2 DEF OpenDocuments, GiveUp, TypeInv, TypeOK, DocInv
<1>3. CASE ~ \E d \in Wanted : Positions(frozen.docs[d].title) = {}
  <2>1. /\ jsonl' = [run |-> run, docs |-> << >>] /\ todo' = Wanted /\ doc' = 0
        /\ b1' = "next" /\ outcome' = outcome /\ docs' = << >>
    BY <1>3 DEF OpenDocuments, Opened
  <2>2. Wanted \subseteq Nat /\ \A d \in Wanted : Findable(d)
    <3>1. Wanted \subseteq DOMAIN frozen.docs /\ DOMAIN frozen.docs \subseteq Nat
      BY Fields DEF Wanted, TypeInv
    <3>2. QED
      BY <3>1, <1>3 DEF Findable
  <2>3. jsonl' \in [run : Nat, docs : Seq(Lines)] /\ docs' \in Seq(Nat)
    BY <2>1, Fields DEF TypeInv
  <2>4. UNCHANGED <<run, skip, frozen, checks, arm, tensor, cache, arms, summary>>
    BY DEF OpenDocuments
  <2>5. QED
    BY <1>1, <2>1, <2>2, <2>3, <2>4 DEF TypeInv, TypeOK, DocInv
<1>4. QED
  BY <1>2, <1>3

\* The next document is one of those to come.
LEMMA NextDocumentTypes ==
  ASSUME TypeInv, NextDocument
  PROVE  TypeInv'
<1>1. FreezeTypeOK' /\ \A d : Findable(d)' <=> Findable(d)
  BY B1KeepsFreeze DEF NextDocument
<1>0. arm' \in 1..4 /\ arms' \in Seq([TensorSet -> Seq({10})])
  <2>1. arm' = 1 /\ arms' = << >>
    BY DEF NextDocument
  <2>2. arm' \in 1..4
    BY <2>1
  <2>3. \A S : << >> \in Seq(S)
    OBVIOUS
  <2>4. QED
    BY <2>1, <2>2, <2>3, Zenon
<1>2. /\ doc' \in todo /\ todo' \subseteq todo
      /\ b1' \in {"idle", "prefill"} /\ outcome' \in {outcome, "too short"}
  BY DEF NextDocument, GiveUp
<1>3. UNCHANGED <<run, skip, frozen, checks, tensor, cache, jsonl, docs, summary>> /\ b1 = "next"
  BY DEF NextDocument
<1>4. todo' \subseteq Nat /\ doc' \in Nat
  BY <1>2, Fields DEF TypeInv
<1>5. TypeOK'
  <2>1. /\ b1' \in {"idle", "preflight", "documents", "next", "prefill", "cache"}
        /\ outcome' \in {"none", "replacement moves the score", "missing article", "too short",
                         "damage", "not finite", "no summary", "summary", "killed"}
    BY <1>2, Places DEF TypeInv
  <2>2. QED
    BY <2>1, <1>0, <1>1, <1>3, <1>4, Fields DEF TypeInv, TypeOK
<1>6. DocInv'
  BY <1>1, <1>2, <1>3 DEF TypeInv, DocInv
<1>7. QED
  BY <1>5, <1>6 DEF TypeInv

\* A fresh cache.
LEMMA PrefillTypes ==
  ASSUME TypeInv, Prefill
  PROVE  TypeInv'
<1>1. FreezeTypeOK' /\ \A d : Findable(d)' <=> Findable(d)
  BY B1KeepsFreeze DEF Prefill
<1>2. /\ cache' \in [TensorSet -> Seq({10})] /\ tensor' = 1 /\ b1' = "cache" /\ b1 = "prefill"
      /\ UNCHANGED <<run, skip, frozen, checks, todo, doc, arm, arms, jsonl, docs, summary, outcome>>
  BY DEF Prefill, Prefilled, NoCache
<1>3. tensor' \in 1..(NTensors + 1)
  BY <1>2, HoldoutAssumption
<1>4. QED
  BY <1>1, <1>2, <1>3 DEF TypeInv, TypeOK, DocInv

\* A tensor of the cache goes through its arm's codec, or stays.
LEMMA ReconstructTypes ==
  ASSUME TypeInv, Reconstruct
  PROVE  TypeInv'
<1>1. FreezeTypeOK' /\ \A d : Findable(d)' <=> Findable(d)
  BY B1KeepsFreeze DEF Reconstruct
<1>2. tensor \in TensorSet /\ CFor(arm, tensor) \in {0, 10} /\ tensor + 1 \in 1..(NTensors + 1)
  <2>1. tensor \in 1..(NTensors + 1) /\ arm \in 1..4 /\ tensor <= NTensors
    BY Fields DEF TypeInv, Reconstruct
  <2>2. tensor \in TensorSet /\ tensor + 1 \in 1..(NTensors + 1)
    BY <2>1, HoldoutAssumption DEF TensorSet
  <2>3. QED
    BY <2>1, <2>2, CForType
<1>3. cache' \in [TensorSet -> Seq({10})]
  <2>1. cache \in [TensorSet -> Seq({10})]
    BY Fields DEF TypeInv
  <2>2. CFor(arm, tensor) = 10 => Append(cache[tensor], CFor(arm, tensor)) \in Seq({10})
    BY <1>2, <2>1
  <2>3. cache' = cache \/ (CFor(arm, tensor) # 0 /\ cache' = [cache EXCEPT ![tensor] = Append(@, CFor(arm, tensor))])
    BY DEF Reconstruct
  <2>4. QED
    BY <1>2, <2>1, <2>2, <2>3
<1>4. tensor' \in 1..(NTensors + 1)
  BY <1>2, Fields DEF Reconstruct, TypeInv
<1>5. /\ b1 = "cache" /\ b1' \in {"cache", "idle"} /\ outcome' \in {outcome, "damage"}
      /\ UNCHANGED <<run, skip, frozen, checks, todo, doc, arm, arms, jsonl, docs, summary>>
  BY DEF Reconstruct, GiveUp
<1>6. QED
  BY <1>1, <1>3, <1>4, <1>5 DEF TypeInv, TypeOK, DocInv

\* The score of an arm, or the line of a document.
LEMMA ScoreTypes ==
  ASSUME TypeInv, Score
  PROVE  TypeInv'
<1>1. FreezeTypeOK' /\ \A d : Findable(d)' <=> Findable(d)
  BY B1KeepsFreeze DEF Score
<1>2. arms' \in Seq([TensorSet -> Seq({10})])
  <2> DEFINE Caches == [TensorSet -> Seq({10})]
  <2>1. arms \in Seq(Caches) /\ cache \in Caches /\ (arms' = arms \/ arms' = Append(arms, cache))
    BY Fields DEF Score, TypeInv
  <2> HIDE DEF Caches
  <2>2. arms' \in Seq(Caches)
    BY <2>1
  <2>3. QED
    BY <2>2 DEF Caches
<1>3. arm' \in 1..4
  <2>1. arm \in 1..4 /\ Len(Arms) = 4
    BY Fields DEF Arms, TypeInv
  <2>2. arm' = arm \/ (arm < Len(Arms) /\ arm' = arm + 1)
    BY DEF Score
  <2>3. QED
    BY <2>1, <2>2
<1>4. BodyOf(doc) \in Bodies
  BY BodyType DEF Score, TypeInv, DocInv
<1>5. [doc |-> doc, body |-> BodyOf(doc), arms |-> arms'] \in Lines
  BY <1>2, <1>4, Fields DEF TypeInv, Lines
<1>6. jsonl' \in [run : Nat, docs : Seq(Lines)]
  <2> DEFINE line == [doc |-> doc, body |-> BodyOf(doc), arms |-> arms']
  <2>1. jsonl' = jsonl \/ jsonl' = [jsonl EXCEPT !.docs = Append(@, line)]
    BY DEF Score
  <2>2. line \in Lines
    BY <1>5
  <2> HIDE DEF line
  <2>3. jsonl \in [run : Nat, docs : Seq(Lines)] /\ Append(jsonl.docs, line) \in Seq(Lines)
    BY <2>2, Fields DEF TypeInv
  <2>4. QED
    BY <2>1, <2>3
<1>7. /\ b1 = "cache" /\ b1' \in {"prefill", "next", "idle"} /\ outcome' \in {outcome, "not finite"}
      /\ UNCHANGED <<run, skip, frozen, checks, todo, doc, tensor, cache, summary>>
  BY DEF Score, GiveUp
<1>8. docs' \in Seq(Nat)
  <2>1. docs' = docs \/ docs' = Append(docs, doc)
    BY DEF Score
  <2>2. docs \in Seq(Nat) /\ doc \in Nat
    BY Fields DEF TypeInv
  <2>3. Append(docs, doc) \in Seq(Nat)
    BY <2>2
  <2>4. QED
    BY <2>1, <2>2, <2>3
<1>9. QED
  BY <1>1, <1>2, <1>3, <1>6, <1>7, <1>8 DEF TypeInv, TypeOK, DocInv

\* The summary is of the documents as the run counts them.
LEMMA SummariseTypes ==
  ASSUME TypeInv, Summarise
  PROVE  TypeInv'
<1>1. FreezeTypeOK'
  BY B1KeepsFreeze DEF Summarise
<1>2. /\ b1' = "idle" /\ outcome' \in {"no summary", "summary"}
      /\ UNCHANGED <<run, skip, frozen, checks, todo, doc, arm, tensor, cache, arms, jsonl, docs>>
  BY DEF Summarise, GiveUp
<1>3. summary' \in [run : Nat, docs : Seq(Nat), documents : Nat, by : Nat]
  <2>1. protocol \in [by : Nat, documents : Nat] /\ run \in Nat /\ docs \in Seq(Nat)
        /\ summary \in [run : Nat, docs : Seq(Nat), documents : Nat, by : Nat]
    BY Fields DEF TypeInv, FreezeTypeOK
  <2>2. summary' = summary \/ summary' = [run |-> run, docs |-> docs, documents |-> protocol.documents,
                                          by |-> protocol.by]
    BY DEF Summarise
  <2>3. QED
    BY <2>1, <2>2
<1>4. QED
  BY <1>1, <1>2, <1>3 DEF TypeInv, TypeOK, DocInv

\* A run is cut off.
LEMMA KilledTypes ==
  ASSUME TypeInv, B1Killed
  PROVE  TypeInv'
<1>1. FreezeTypeOK'
  BY B1KeepsFreeze DEF B1Killed
<1>2. QED
  BY <1>1 DEF B1Killed, GiveUp, TypeInv, TypeOK, DocInv

\* Every step keeps the types.
LEMMA TypeInductive ==
  ASSUME TypeInv, [Next]_vars
  PROVE  TypeInv'
<1>1. CASE FreezeNext /\ UNCHANGED b1Vars
  <2>1. FreezeTypeOK' /\ UNCHANGED validation
    BY <1>1, FreezeTypeStep DEF TypeInv, TypeOK
  <2>2. QED
    BY <1>1, <2>1, FreezeKeepsTypes
<1>2. CASE UNCHANGED vars
  <2>1. FreezeTypeOK' /\ UNCHANGED b1Vars /\ UNCHANGED validation
    BY <1>2 DEF vars, freezeVars, TypeInv, TypeOK, FreezeTypeOK
  <2>2. QED
    BY <2>1, FreezeKeepsTypes
<1>3. QED
  BY <1>1, <1>2, B1StartTypes, PreflightTypes, OpenDocumentsTypes, NextDocumentTypes, PrefillTypes,
     ReconstructTypes, ScoreTypes, SummariseTypes, KilledTypes DEF Next, B1Step

\* Every variable of the freeze and of B1 keeps its type: every document that is
\* scored is found in the corpus, every cache holds one entry per tensor.
THEOREM HoldoutTypes == Spec => []TypeOK
<1>1. TypeInv => TypeOK
  BY DEF TypeInv
<1>2. QED
  BY <1>1, TypeInit, TypeInductive, PTL DEF Spec

-----------------------------------------------------------------------------
(* The freeze.                                                              *)

Unseen(list) ==
  \A j \in DOMAIN list : \A d \in Seen : list[j].title # d.title /\ list[j].body # d.body

BodiesDistinct(list) ==
  \A i, j \in DOMAIN list : list[i].body = list[j].body => i = j

FreezeInv ==
  /\ freeze = "select" => Unseen(picked) /\ BodiesDistinct(picked)
  /\ freeze \in {"protocol", "done"} => Unseen(manifest.docs) /\ BodiesDistinct(manifest.docs)

\* The seen list misses nothing when a train title stands for one article.
LEMMA SeenIsComplete ==
  ASSUME FreezeTypeOK, TitlesDistinct(train)
  PROVE  Development \subseteq Seen
<1>1. SUFFICES ASSUME NEW n \in b0 \union Quality
               PROVE  train[n] \in Seen
  BY DEF Development
<1>2. DOMAIN train \subseteq Nat /\ n \in DOMAIN train
  BY DEF FreezeTypeOK, Quality
<1>3. CASE n \in b0
  <2>1. \A j \in b0 : j > n => train[j].title # train[n].title
    BY <1>2, <1>3 DEF TitlesDistinct, FreezeTypeOK
  <2>2. QED
    BY <2>1, <1>3 DEF Seen
<1>4. CASE n \in Quality /\ n \notin b0
  <2>1. \A j \in b0 \union {q \in Quality : q < n} : j \in DOMAIN train /\ j # n
    BY <1>2, <1>4 DEF FreezeTypeOK, Quality
  <2>2. \A j \in b0 \union {q \in Quality : q < n} : train[j].title # train[n].title
    BY <2>1, <1>2 DEF TitlesDistinct
  <2>3. QED
    BY <2>2, <1>4 DEF Seen
<1>5. QED
  BY <1>1, <1>3, <1>4

\* Before the first freeze there is nothing to be unseen.
LEMMA FreezeInvInit == Init => FreezeInv
BY DEF Init, FreezeInit, FreezeInv

\* What a step needs of its state to leave the seen list alone.
LEMMA SameSeen ==
  ASSUME UNCHANGED <<train, b0>>
  PROVE  Seen' = Seen
BY DEF Seen, Quality

\* An article is looked at: it joins the list only if nothing seen and nothing
\* picked has its title or its body.
LEMMA ConsiderKeeps ==
  ASSUME FreezeTypeOK, FreezeInv, Consider
  PROVE  FreezeInv'
<1>1. UNCHANGED <<train, validation, b0, freeze, manifest>> /\ freeze = "select" /\ Seen' = Seen
  BY SameSeen DEF Consider
<1>2. next' \in Nat \ {0} /\ next \in DOMAIN validation /\ validation[next] \in Articles
  BY DEF Consider, Selecting, FreezeTypeOK
<1>3. CASE Qualifies(validation[next], Seen, Taken)
  <2>1. picked' = Append(picked, validation[next])
    BY <1>3 DEF Consider
  <2>2. /\ picked' \in Seq(Articles) /\ DOMAIN picked' = DOMAIN picked \union {Len(picked) + 1}
        /\ \A j \in DOMAIN picked : picked'[j] = picked[j]
        /\ picked'[Len(picked) + 1] = validation[next]
    BY <2>1, <1>2 DEF FreezeTypeOK
  <2>3. Unseen(picked')
    <3>1. \A d \in Seen : validation[next].title # d.title /\ validation[next].body # d.body
      BY <1>3 DEF Qualifies
    <3>2. QED
      BY <2>2, <3>1, <1>1 DEF Unseen, FreezeInv
  <2>4. BodiesDistinct(picked')
    <3>1. \A j \in DOMAIN picked : picked[j].body # validation[next].body
      BY <1>3 DEF Qualifies, Taken
    <3>2. QED
      BY <2>2, <3>1, <1>1 DEF BodiesDistinct, FreezeInv
  <2>5. QED
    BY <1>1, <1>2, <2>2, <2>3, <2>4 DEF FreezeInv, Unseen
<1>4. CASE ~Qualifies(validation[next], Seen, Taken)
  <2>1. picked' = picked
    BY <1>4 DEF Consider
  <2>2. QED
    BY <2>1, <1>1, <1>2 DEF FreezeInv, Unseen, BodiesDistinct
<1>5. QED
  BY <1>3, <1>4

\* The other steps of a freeze start a list, hand it to the manifest, or leave both.
LEMMA FreezeInvInductive ==
  ASSUME FreezeTypeOK, FreezeInv, [Next]_vars
  PROVE  FreezeInv'
<1>1. CASE FreezeStart
  BY <1>1 DEF FreezeStart, FreezeInv, Unseen, BodiesDistinct
<1>2. CASE Consider
  BY <1>2, ConsiderKeeps
<1>3. CASE WriteManifest
  <2>1. UNCHANGED <<train, validation, b0, next, picked>> /\ Seen' = Seen
    BY <1>3, SameSeen DEF WriteManifest
  <2>2. manifest'.docs = picked /\ freeze = "select" /\ freeze' # "select"
    BY <1>3 DEF WriteManifest
  <2>3. QED
    BY <2>1, <2>2 DEF FreezeInv, Unseen, BodiesDistinct
<1>4. CASE WriteProtocol
  <2>1. /\ UNCHANGED <<train, validation, b0, next, picked, manifest>> /\ Seen' = Seen
        /\ freeze = "protocol" /\ freeze' = "done"
    BY <1>4, SameSeen DEF WriteProtocol
  <2>2. QED
    BY <2>1 DEF FreezeInv, Unseen, BodiesDistinct
<1>5. CASE FreezeKilled
  BY <1>5 DEF FreezeKilled, FreezeInv
<1>6. CASE UNCHANGED freezeVars
  <2>1. UNCHANGED <<train, validation, b0, next, picked, freeze, manifest>> /\ Seen' = Seen
    BY <1>6, SameSeen DEF freezeVars
  <2>2. QED
    BY <2>1 DEF FreezeInv, Unseen, BodiesDistinct
<1>7. QED
  BY <1>1, <1>2, <1>3, <1>4, <1>5, <1>6
     DEF Next, FreezeNext, vars, B1Start, B1Step, B1Killed, Preflight, OpenDocuments,
         NextDocument, Prefill, Reconstruct, Score, Summarise

\* "Not used in development, no duplicate bodies": for every corpus whose train
\* titles are distinct, whatever the B0 corpus holds.
THEOREM HeldoutIsUnseen == Spec => []HeldoutUnseen
<1>1. TypeInv /\ FreezeInv => HeldoutUnseen
  BY SeenIsComplete, Fields DEF TypeInv, FreezeInv, HeldoutUnseen, Unseen, BodiesDistinct
<1>2. TypeInv /\ FreezeInv /\ [Next]_vars => FreezeInv'
  BY FreezeInvInductive, Fields DEF TypeInv
<1>3. QED
  BY <1>1, <1>2, FreezeInvInit, TypeInit, TypeInductive, PTL DEF Spec

-----------------------------------------------------------------------------
(* The arms.                                                                *)

OwnCaches(n) == [a \in 1..n |-> OwnCache(a)]

\* While an arm is under way the tensors it has passed are its own and the
\* others untouched, and the arms before it were scored on theirs.
ArmsInv ==
  /\ b1 = "cache" =>
       cache = [u \in TensorSet |-> IF u < tensor THEN OwnCache(arm)[u] ELSE << >>]
  /\ b1 \in {"prefill", "cache"} => arms = OwnCaches(arm - 1)
  /\ ArmsOnOwnCache

\* A sequence of caches grows by one.
LEMMA OneMoreCache ==
  ASSUME NEW n \in Nat
  PROVE  Append(OwnCaches(n), OwnCache(n + 1)) = OwnCaches(n + 1)
<1>1. Len(OwnCaches(n)) = n /\ OwnCaches(n) \in Seq({OwnCache(a) : a \in 1..(n + 1)})
  <2>1. \A a \in 1..n : OwnCache(a) \in {OwnCache(b) : b \in 1..(n + 1)}
    OBVIOUS
  <2>2. QED
    BY <2>1 DEF OwnCaches
<1>2. QED
  BY <1>1 DEF OwnCaches

\* A tensor through its codec once.
LEMMA ReconstructArms ==
  ASSUME TypeInv, ArmsInv, Reconstruct
  PROVE  ArmsInv'
<1>1. UNCHANGED <<arm, arms, jsonl>> /\ b1 = "cache" /\ b1' \in {"cache", "idle"}
  BY DEF Reconstruct, GiveUp
<1>2. ASSUME b1' = "cache"
      PROVE  cache' = [u \in TensorSet |-> IF u < tensor' THEN OwnCache(arm)[u] ELSE << >>]
  <2>1. /\ tensor' = tensor + 1
        /\ cache' = IF CFor(arm, tensor) = 0 THEN cache
                    ELSE [cache EXCEPT ![tensor] = Append(@, CFor(arm, tensor))]
    BY <1>2, <1>1 DEF Reconstruct, GiveUp
  <2>2. cache = [u \in TensorSet |-> IF u < tensor THEN OwnCache(arm)[u] ELSE << >>]
    BY <1>1 DEF ArmsInv
  <2>3. tensor \in TensorSet /\ tensor \in Nat /\ TensorSet \subseteq Nat
    BY Fields DEF Reconstruct, TypeInv, TensorSet
  <2>4. OwnCache(arm)[tensor] = IF CFor(arm, tensor) = 0 THEN << >> ELSE <<CFor(arm, tensor)>>
    BY <2>3 DEF OwnCache
  <2>5. \A c : Append(<< >>, c) = <<c>>
    OBVIOUS
  <2>6. cache'[tensor] = OwnCache(arm)[tensor]
    <3>1. cache[tensor] = << >> /\ tensor \in DOMAIN cache
      BY <2>2, <2>3
    <3>2. CASE CFor(arm, tensor) = 0
      BY <3>1, <3>2, <2>1, <2>4
    <3>3. CASE CFor(arm, tensor) # 0
      <4>1. cache'[tensor] = Append(cache[tensor], CFor(arm, tensor))
        BY <3>1, <3>3, <2>1
      <4>2. QED
        BY <4>1, <3>1, <3>3, <2>4, <2>5
    <3>4. QED
      BY <3>2, <3>3
  <2>7. \A u \in TensorSet : u # tensor => cache'[u] = cache[u] /\ (u < tensor <=> u < tensor')
    BY <2>1, <2>2, <2>3
  <2>8. cache' = [u \in TensorSet |-> cache'[u]]
    BY <2>1, <2>2
  <2>9. \A u \in TensorSet : cache'[u] = IF u < tensor' THEN OwnCache(arm)[u] ELSE << >>
    BY <2>1, <2>2, <2>3, <2>6, <2>7
  <2>10. QED
    BY <2>8, <2>9
<1>3. QED
  BY <1>1, <1>2 DEF ArmsInv, ArmsOnOwnCache

\* An arm is scored when all its tensors have been through.
LEMMA ScoreArms ==
  ASSUME TypeInv, ArmsInv, Score
  PROVE  ArmsInv'
<1>1. arm \in 1..4 /\ tensor > NTensors /\ NTensors \in Nat /\ b1 = "cache" /\ Len(Arms) = 4
  BY Fields, HoldoutAssumption DEF TypeInv, Score, Arms
<1>2. cache = OwnCache(arm)
  <2>1. \A u \in TensorSet : u < tensor
    BY <1>1, Fields DEF TensorSet, TypeInv
  <2>2. cache = [u \in TensorSet |-> OwnCache(arm)[u]]
    BY <1>1, <2>1 DEF ArmsInv
  <2>3. QED
    BY <2>2 DEF OwnCache
<1>3. Append(arms, cache) = OwnCaches(arm)
  <2>1. arms = OwnCaches(arm - 1) /\ arm - 1 \in Nat /\ (arm - 1) + 1 = arm
    BY <1>1 DEF ArmsInv
  <2>2. QED
    BY <2>1, <1>2, OneMoreCache
<1>4. CASE arm < Len(Arms) /\ arms' = Append(arms, cache) /\ arm' = arm + 1 /\ b1' = "prefill" /\ jsonl' = jsonl
  <2>1. arm' - 1 = arm
    BY <1>1, <1>4
  <2>2. QED
    BY <1>3, <1>4, <2>1 DEF ArmsInv, ArmsOnOwnCache, OwnCaches, OwnCache
<1>5. CASE /\ arm = Len(Arms) /\ arms' = Append(arms, cache) /\ b1' = "next"
           /\ jsonl' = [jsonl EXCEPT !.docs =
                          Append(@, [doc |-> doc, body |-> BodyOf(doc), arms |-> arms'])]
  <2> DEFINE line == [doc |-> doc, body |-> BodyOf(doc), arms |-> arms']
  <2>1. line.arms = OwnCaches(4)
    BY <1>1, <1>3, <1>5
  <2>2. jsonl.docs \in Seq(Lines) /\ jsonl \in [run : Nat, docs : Seq(Lines)]
    BY Fields DEF TypeInv
  <2> HIDE DEF line
  <2>3. jsonl'.docs = Append(jsonl.docs, line)
    BY <1>5, <2>2 DEF line
  <2>4. \A k \in DOMAIN jsonl'.docs : jsonl'.docs[k] = line \/ (k \in DOMAIN jsonl.docs /\ jsonl'.docs[k] = jsonl.docs[k])
    BY <2>2, <2>3
  <2>5. \A k \in DOMAIN jsonl'.docs : jsonl'.docs[k].arms = OwnCaches(4)
    BY <2>1, <2>4 DEF ArmsInv, ArmsOnOwnCache, OwnCaches
  <2>6. QED
    BY <2>5, <1>5 DEF ArmsInv, ArmsOnOwnCache, OwnCaches, OwnCache
<1>6. CASE b1' = "idle" /\ jsonl' = jsonl
  BY <1>6 DEF ArmsInv, ArmsOnOwnCache
<1>7. QED
  BY <1>4, <1>5, <1>6 DEF Score, GiveUp

\* The other steps.
LEMMA ArmsInvInductive ==
  ASSUME TypeInv, ArmsInv, [Next]_vars
  PROVE  ArmsInv'
<1>1. CASE OpenDocuments
  <2>1. b1' \in {"idle", "next"} /\ (jsonl' = jsonl \/ jsonl' = [run |-> run, docs |-> << >>])
    BY <1>1 DEF OpenDocuments, GiveUp, Opened
  <2>2. QED
    BY <2>1 DEF ArmsInv, ArmsOnOwnCache
<1>2. CASE NextDocument
  <2>1. /\ jsonl' = jsonl /\ b1' \in {"idle", "prefill"} /\ arm' = 1 /\ arms' = << >>
    BY <1>2 DEF NextDocument, GiveUp
  <2>2. OwnCaches(0) = << >>
    BY DEF OwnCaches
  <2>3. arm' - 1 = 0
    BY <2>1
  <2>4. ArmsOnOwnCache'
    BY <2>1 DEF ArmsInv, ArmsOnOwnCache
  <2>5. arms' = OwnCaches(arm' - 1)
    BY <2>1, <2>2, <2>3
  <2>6. QED
    BY <2>1, <2>4, <2>5 DEF ArmsInv, OwnCaches
<1>3. CASE Prefill
  <2>1. /\ UNCHANGED <<jsonl, arm, arms>> /\ b1 = "prefill" /\ b1' = "cache"
        /\ cache' = [u \in TensorSet |-> << >>] /\ tensor' = 1
    BY <1>3 DEF Prefill, Prefilled, NoCache
  <2>2. \A u \in TensorSet : ~(u < tensor')
    BY <2>1 DEF TensorSet
  <2>3. QED
    BY <2>1, <2>2 DEF ArmsInv, ArmsOnOwnCache
<1>4. CASE b1' \notin {"prefill", "cache"} /\ jsonl' = jsonl
  BY <1>4 DEF ArmsInv, ArmsOnOwnCache
<1>5. CASE UNCHANGED b1Vars
  BY <1>5 DEF ArmsInv, ArmsOnOwnCache, b1Vars
<1>6. CASE B1Start \/ Preflight \/ Summarise \/ B1Killed
  <2>1. b1' \notin {"prefill", "cache"} /\ jsonl' = jsonl
    BY <1>6 DEF B1Start, Preflight, Summarise, B1Killed, GiveUp
  <2>2. QED
    BY <2>1, <1>4
<1>7. QED
  BY <1>1, <1>2, <1>3, <1>5, <1>6, ReconstructArms, ScoreArms DEF Next, B1Step, vars

\* "Each arm re-prefills": every line of the results is of a document scored
\* under each arm on a fresh cache with that arm's tensors through the codec
\* once, however many runs were killed or gave up before.
THEOREM ArmsScoredOnTheirOwn == Spec => []ArmsOnOwnCache
<1>1. Init => ArmsInv
  BY DEF Init, NoJsonl, ArmsInv, ArmsOnOwnCache
<1>2. ArmsInv => ArmsOnOwnCache
  BY DEF ArmsInv
<1>3. QED
  BY <1>1, <1>2, TypeInit, TypeInductive, ArmsInvInductive, PTL DEF Spec
-----------------------------------------------------------------------------
(* The preflight.                                                           *)

\* The lines on disk are an earlier run's until this one has opened its own,
\* and it does so only past the preflight.
GuardInv ==
  /\ jsonl.run <= run
  /\ b1 \in {"preflight", "documents"} => jsonl.run < run
  /\ b1 = "documents" /\ ~skip => checks = {[dev |-> n, ok |-> TRUE] : n \in DevArticles}
  /\ PreflightGuards

\* Nothing but the next start or the preflight can undo it.
LEMMA GuardKept ==
  ASSUME GuardInv, UNCHANGED <<jsonl, run, skip, checks, train>>, b1' \in {b1, "idle"}
  PROVE  GuardInv'
<1>1. DevArticles' = DevArticles
  BY DEF DevArticles
<1>2. QED
  BY <1>1 DEF GuardInv, PreflightGuards

\* The steps.
LEMMA GuardInvInductive ==
  ASSUME TypeInv, GuardInv, [Next]_vars
  PROVE  GuardInv'
<1>0. run \in Nat /\ jsonl.run \in Nat
  BY Fields DEF TypeInv
<1>1. CASE B1Start
  <2>1. run' = run + 1 /\ jsonl' = jsonl /\ (b1' = "documents" => skip')
    BY <1>1 DEF B1Start
  <2>2. jsonl'.run < run'
    BY <2>1, <1>0 DEF GuardInv
  <2>3. jsonl'.run <= run' /\ jsonl'.run # run'
    BY <2>1, <2>2, <1>0
  <2>4. QED
    BY <2>1, <2>2, <2>3 DEF GuardInv, PreflightGuards
<1>2. CASE Preflight
  <2>1. UNCHANGED <<jsonl, run, train>> /\ b1 = "preflight" /\ DevArticles' = DevArticles
    BY <1>2 DEF Preflight, freezeVars, DevArticles
  <2>2. PICK bad \in SUBSET DevArticles : checks' = {[dev |-> n, ok |-> n \notin bad] : n \in DevArticles}
    BY <1>2 DEF Preflight
  <2>3. ASSUME \A c \in checks' : c.ok
        PROVE  checks' = {[dev |-> n, ok |-> TRUE] : n \in DevArticles}
    <3>1. \A n \in DevArticles : [dev |-> n, ok |-> n \notin bad].ok
      BY <2>2, <2>3
    <3>2. \A n \in DevArticles : n \notin bad
      BY <3>1
    <3>3. bad = {}
      BY <3>2
    <3>4. QED
      BY <2>2, <3>3
  <2>4. b1' = "documents" => \A c \in checks' : c.ok
    BY <1>2 DEF Preflight, AllReplaceOk, GiveUp
  <2>5. jsonl'.run < run' /\ jsonl'.run <= run' /\ jsonl'.run # run'
    BY <2>1, <1>0 DEF GuardInv
  <2>6. QED
    BY <2>1, <2>3, <2>4, <2>5 DEF GuardInv, PreflightGuards
<1>3. CASE OpenDocuments
  <2>1. UNCHANGED <<run, skip, checks, train>> /\ b1 = "documents" /\ DevArticles' = DevArticles
    BY <1>3 DEF OpenDocuments, freezeVars, DevArticles
  <2>2. \/ jsonl' = jsonl /\ b1' = "idle"
        \/ jsonl'.run = run /\ b1' = "next"
    <3>1. \/ jsonl' = jsonl /\ b1' = "idle"
          \/ jsonl' = [run |-> run, docs |-> << >>] /\ b1' = "next"
      BY <1>3 DEF OpenDocuments, Opened, GiveUp
    <3>2. QED
      BY <3>1
  <2>3. CASE jsonl' = jsonl /\ b1' = "idle"
    BY <2>1, <2>3 DEF GuardInv, PreflightGuards
  <2>4. CASE jsonl'.run = run /\ b1' = "next"
    BY <2>1, <2>4, <1>0 DEF GuardInv, PreflightGuards
  <2>5. QED
    BY <2>2, <2>3, <2>4
<1>4. CASE NextDocument \/ Prefill \/ Reconstruct \/ Score \/ Summarise
  <2>1. /\ UNCHANGED <<run, skip, checks, train>> /\ b1' \notin {"preflight", "documents"}
        /\ DevArticles' = DevArticles
    BY <1>4 DEF NextDocument, Prefill, Reconstruct, Score, Summarise, GiveUp, freezeVars, DevArticles
  <2>2. jsonl'.run = jsonl.run
    <3>1. jsonl \in [run : Nat, docs : Seq(Lines)]
      BY Fields DEF TypeInv
    <3>2. jsonl' = jsonl \/ \E list : jsonl' = [jsonl EXCEPT !.docs = list]
      BY <1>4 DEF NextDocument, Prefill, Reconstruct, Score, Summarise
    <3>3. QED
      BY <3>1, <3>2
  <2>3. QED
    BY <2>1, <2>2 DEF GuardInv, PreflightGuards
<1>5. CASE B1Killed
  BY <1>5, GuardKept DEF B1Killed, GiveUp, freezeVars
<1>6. CASE FreezeNext /\ UNCHANGED b1Vars
  <2>1. train' = train
    BY <1>6, FreezeTypeStep, Fields DEF TypeInv
  <2>2. QED
    BY <1>6, <2>1, GuardKept DEF b1Vars
<1>7. CASE UNCHANGED vars
  BY <1>7, GuardKept DEF vars, b1Vars, freezeVars
<1>8. QED
  BY <1>1, <1>2, <1>3, <1>4, <1>5, <1>6, <1>7 DEF Next, B1Step

\* No held-out article is scored before every development article the run could
\* look at has shown that a copied cache leaves its score alone.
THEOREM ScoredPastPreflight == Spec => []PreflightGuards
<1>1. Init => GuardInv
  BY DEF Init, NoJsonl, GuardInv, PreflightGuards
<1>2. GuardInv => PreflightGuards
  BY DEF GuardInv
<1>3. QED
  BY <1>1, <1>2, TypeInit, TypeInductive, GuardInvInductive, PTL DEF Spec
-----------------------------------------------------------------------------
(* The articles scored.                                                     *)

\* Articles of the validation split that hold enough tokens.
FromSplit(list) ==
  \A k \in DOMAIN list :
    Tokens[list[k].body] >= MinTokens /\ \E i \in DOMAIN validation : list[k] = validation[i]

\* A line's body is the one frozen under its title.
LinesFrozen ==
  \A k \in DOMAIN jsonl.docs :
    LET d == frozen.docs[jsonl.docs[k].doc] IN
    TitleUnique(d.title) => jsonl.docs[k].body = d.body

ScoredInv ==
  /\ FromSplit(picked) /\ FromSplit(manifest.docs) /\ FromSplit(frozen.docs)
  /\ jsonl.run = run => LinesFrozen
  /\ ScoredAreFrozen

\* A title that stands for one article is found with the body it was frozen with.
LEMMA FoundAsFrozen ==
  ASSUME TypeOK, FromSplit(frozen.docs), NEW d, Findable(d), TitleUnique(frozen.docs[d].title)
  PROVE  BodyOf(d) = frozen.docs[d].body /\ Tokens[BodyOf(d)] >= MinTokens
<1>1. PICK i \in DOMAIN validation : frozen.docs[d] = validation[i]
  BY DEF Findable, FromSplit
<1>2. i \in Positions(frozen.docs[d].title)
  BY <1>1 DEF Positions
<1>3. PICK j \in Positions(frozen.docs[d].title) : BodyOf(d) = validation[j].body
  BY BodyType
<1>4. i = j
  <2> DEFINE at == Positions(frozen.docs[d].title)
  <2>1. IsFiniteSet(at)
    <3>1. validation \in Seq(Articles)
      BY DEF TypeOK, FreezeTypeOK
    <3>2. at \subseteq 1..Len(validation) /\ Len(validation) \in Nat
      BY <3>1 DEF Positions
    <3>3. IsFiniteSet(1..Len(validation))
      BY <3>2, FS_Interval
    <3>4. QED
      BY <3>2, <3>3, FS_Subset, Zenon
  <2>2. Cardinality(at) = 1
    BY DEF TitleUnique
  <2>3. \E x : at = {x}
    BY <2>1, <2>2, FS_Singleton
  <2>4. QED
    BY <2>3, <1>2, <1>3
<1>5. QED
  BY <1>1, <1>3, <1>4 DEF Findable, FromSplit

\* What is frozen is found.
LEMMA FrozenIsThere ==
  ASSUME TypeOK, FromSplit(frozen.docs), NEW d \in DOMAIN frozen.docs
  PROVE  Positions(frozen.docs[d].title) # {}
<1>1. PICK i \in DOMAIN validation : frozen.docs[d] = validation[i]
  BY DEF FromSplit
<1>2. i \in Positions(frozen.docs[d].title)
  BY <1>1 DEF Positions
<1>3. QED
  BY <1>2

\* A step that leaves the splits and B1's files alone.
LEMMA ScoredKept ==
  ASSUME ScoredInv, UNCHANGED <<validation, frozen, run, jsonl>>,
         FromSplit(picked)', FromSplit(manifest.docs)',
         outcome' \in {"missing article", "too short"} => outcome' = outcome
  PROVE  ScoredInv'
<1>1. \A title : TitleUnique(title)' <=> TitleUnique(title)
  BY DEF TitleUnique, Positions
<1>2. jsonl'.run = run' => LinesFrozen'
  BY <1>1 DEF ScoredInv, LinesFrozen
<1>3. outcome' \in {"missing article", "too short"} =>
        \E k \in DOMAIN frozen'.docs : (~TitleUnique(frozen.docs[k].title))'
  BY <1>1 DEF ScoredInv, ScoredAreFrozen
<1>4. FromSplit(frozen.docs)'
  BY DEF ScoredInv, FromSplit
<1>5. ScoredAreFrozen'
  BY <1>2, <1>3 DEF ScoredAreFrozen, LinesFrozen
<1>6. QED
  BY <1>2, <1>4, <1>5 DEF ScoredInv

\* The freeze picks from the split.
LEMMA FreezeScored ==
  ASSUME TypeInv, ScoredInv, FreezeNext
  PROVE  FromSplit(picked)' /\ FromSplit(manifest.docs)'
<1>0. validation' = validation /\ FreezeTypeOK
  BY FreezeTypeStep, Fields DEF TypeInv
<1>1. CASE Consider
  <2>1. next \in DOMAIN validation /\ validation[next] \in Articles
    BY <1>0, <1>1 DEF Consider, Selecting, FreezeTypeOK
  <2>2. CASE Qualifies(validation[next], Seen, Taken)
    <3>1. picked' = Append(picked, validation[next]) /\ picked \in Seq(Articles)
      BY <1>0, <1>1, <2>2 DEF Consider, FreezeTypeOK
    <3>2. \A k \in DOMAIN picked' :
            picked'[k] = validation[next] \/ (k \in DOMAIN picked /\ picked'[k] = picked[k])
      BY <2>1, <3>1
    <3>3. Tokens[validation[next].body] >= MinTokens
      BY <2>2 DEF Qualifies
    <3>4. manifest' = manifest
      BY <1>1 DEF Consider
    <3>5. QED
      BY <1>0, <2>1, <3>2, <3>3, <3>4 DEF ScoredInv, FromSplit
  <2>3. CASE ~Qualifies(validation[next], Seen, Taken)
    BY <1>0, <1>1, <2>3 DEF Consider, ScoredInv, FromSplit
  <2>4. QED
    BY <2>2, <2>3
<1>2. CASE FreezeStart \/ WriteManifest \/ WriteProtocol \/ FreezeKilled
  <2>1. picked' = picked \/ picked' = << >>
    BY <1>2 DEF FreezeStart, WriteManifest, WriteProtocol, FreezeKilled
  <2>2. manifest' = manifest \/ manifest' = [by |-> count, docs |-> picked]
    BY <1>2 DEF FreezeStart, WriteManifest, WriteProtocol, FreezeKilled
  <2>3. manifest'.docs = manifest.docs \/ manifest'.docs = picked
    BY <2>2
  <2>4. QED
    BY <1>0, <2>1, <2>3 DEF ScoredInv, FromSplit
<1>3. QED
  BY <1>1, <1>2 DEF FreezeNext

\* The steps.
LEMMA ScoredInvInductive ==
  ASSUME TypeInv, GuardInv, ScoredInv, [Next]_vars
  PROVE  ScoredInv'
<1>0. run \in Nat /\ jsonl.run \in Nat /\ jsonl.run <= run /\ FromSplit(frozen.docs)
  BY Fields DEF TypeInv, GuardInv, ScoredInv
<1>1. CASE B1Start
  <2>1. /\ UNCHANGED <<validation, picked, manifest, jsonl>> /\ run' = run + 1
        /\ frozen' = manifest /\ outcome' = "none"
    BY <1>1 DEF B1Start, freezeVars
  <2>2. jsonl'.run # run'
    BY <2>1, <1>0
  <2>3. FromSplit(picked)' /\ FromSplit(manifest.docs)' /\ FromSplit(frozen.docs)'
    BY <2>1 DEF ScoredInv, FromSplit
  <2>4. ScoredAreFrozen'
    BY <2>1, <2>2 DEF ScoredAreFrozen
  <2>5. QED
    BY <2>2, <2>3, <2>4 DEF ScoredInv
<1>2. CASE OpenDocuments
  <2>1. UNCHANGED <<validation, picked, manifest, frozen, run>>
    BY <1>2 DEF OpenDocuments, freezeVars
  <2>2. ~ \E d \in Wanted : Positions(frozen.docs[d].title) = {}
    BY <1>0, FrozenIsThere DEF TypeInv, Wanted
  <2>3. jsonl' = [run |-> run, docs |-> << >>] /\ outcome' = outcome
    BY <1>2, <2>2 DEF OpenDocuments, Opened
  <2>4. jsonl'.docs = << >>
    BY <2>3
  <2>5. LinesFrozen'
    BY <2>4 DEF LinesFrozen
  <2>6. FromSplit(picked)' /\ FromSplit(manifest.docs)' /\ FromSplit(frozen.docs)'
    BY <2>1 DEF ScoredInv, FromSplit
  <2>7. \A title : TitleUnique(title)' <=> TitleUnique(title)
    BY <2>1 DEF TitleUnique, Positions
  <2>8. ScoredAreFrozen'
    BY <2>1, <2>3, <2>5, <2>7 DEF ScoredInv, ScoredAreFrozen, LinesFrozen
  <2>9. QED
    BY <2>5, <2>6, <2>8 DEF ScoredInv
<1>3. CASE NextDocument
  <2>1. UNCHANGED <<validation, picked, manifest, frozen, run, jsonl>> /\ b1 = "next"
    BY <1>3 DEF NextDocument, freezeVars
  <2>2. PICK d \in todo : IF Tokens[BodyOf(d)] < Prefix + 1 + Scored THEN outcome' = "too short"
                          ELSE outcome' = outcome
    BY <1>3 DEF NextDocument, GiveUp
  <2>3. Findable(d)
    BY <2>1 DEF TypeInv, DocInv
  <2>4. CASE outcome' = outcome
    BY <2>1, <2>4, ScoredKept DEF ScoredInv, FromSplit
  <2>5. CASE Tokens[BodyOf(d)] < MinTokens
    <3>1. Tokens[BodyOf(d)] \in Nat /\ MinTokens \in Nat
      BY <2>3, BodyType, FreezeAssumption DEF TypeInv
    <3>2. ~TitleUnique(frozen.docs[d].title)
      BY <3>1, <2>3, <2>5, <1>0, FoundAsFrozen DEF TypeInv
    <3>3. d \in DOMAIN frozen'.docs /\ (~TitleUnique(frozen.docs[d].title))'
      BY <2>1, <2>3, <3>2 DEF Findable, TitleUnique, Positions
    <3>4. jsonl'.run = run' => LinesFrozen'
      BY <2>1 DEF ScoredInv, LinesFrozen, TitleUnique, Positions
    <3>5. ScoredAreFrozen'
      BY <3>3, <3>4 DEF ScoredAreFrozen, LinesFrozen
    <3>6. QED
      BY <2>1, <3>4, <3>5 DEF ScoredInv, FromSplit
  <2>6. QED
    BY <2>2, <2>4, <2>5, HoldoutAssumption
<1>4. CASE Score
  <2>1. /\ UNCHANGED <<validation, picked, manifest, frozen, run>> /\ b1 = "cache"
        /\ outcome' \in {outcome, "not finite"}
    BY <1>4 DEF Score, freezeVars, GiveUp
  <2>2. Findable(doc)
    BY <2>1 DEF TypeInv, DocInv
  <2> DEFINE line == [doc |-> doc, body |-> BodyOf(doc), arms |-> arms']
  <2>3. CASE jsonl' = jsonl
    BY <2>1, <2>3, ScoredKept DEF ScoredInv, FromSplit
  <2>4. CASE jsonl' = [jsonl EXCEPT !.docs = Append(@, line)]
    <3>1. line.doc = doc /\ line.body = BodyOf(doc)
      OBVIOUS
    <3>2. line \in Lines /\ jsonl.docs \in Seq(Lines) /\ jsonl \in [run : Nat, docs : Seq(Lines)]
      <4>1. TypeInv'
        BY TypeInductive
      <4>2. arms' \in Seq([TensorSet -> Seq({10})])
        BY <4>1, Fields DEF TypeInv, TypeOK
      <4>3. QED
        BY <4>2, <2>2, Fields, BodyType DEF TypeInv, Lines
    <3> HIDE DEF line
    <3>3. jsonl'.docs = Append(jsonl.docs, line) /\ jsonl'.run = jsonl.run
      BY <2>4, <3>2
    <3>4. \A k \in DOMAIN jsonl'.docs :
            jsonl'.docs[k] = line \/ (k \in DOMAIN jsonl.docs /\ jsonl'.docs[k] = jsonl.docs[k])
      BY <3>2, <3>3
    <3>5. TitleUnique(frozen.docs[line.doc].title) => line.body = frozen.docs[line.doc].body
      BY <3>1, <2>2, <1>0, FoundAsFrozen DEF TypeInv
    <3>6. \A title : TitleUnique(title)' <=> TitleUnique(title)
      BY <2>1 DEF TitleUnique, Positions
    <3>7. jsonl'.run = run' => LinesFrozen'
      BY <2>1, <3>3, <3>4, <3>5, <3>6 DEF ScoredInv, LinesFrozen
    <3>8. ScoredAreFrozen'
      BY <2>1, <3>6, <3>7 DEF ScoredInv, ScoredAreFrozen, LinesFrozen
    <3>9. QED
      BY <2>1, <3>7, <3>8 DEF ScoredInv, FromSplit
  <2>5. QED
    BY <1>4, <2>3, <2>4 DEF Score
<1>5. CASE Preflight \/ Prefill \/ Reconstruct \/ Summarise \/ B1Killed
  <2>1. /\ UNCHANGED <<validation, picked, manifest, frozen, run, jsonl>>
        /\ outcome' \in {outcome, "replacement moves the score", "damage", "no summary", "summary", "killed"}
    BY <1>5 DEF Preflight, Prefill, Reconstruct, Summarise, B1Killed, GiveUp, freezeVars
  <2>2. QED
    BY <2>1, ScoredKept DEF ScoredInv, FromSplit
<1>6. CASE FreezeNext /\ UNCHANGED b1Vars
  <2>1. validation' = validation
    BY <1>6, FreezeTypeStep, Fields DEF TypeInv
  <2>2. UNCHANGED <<frozen, run, jsonl, outcome>>
    BY <1>6 DEF b1Vars
  <2>3. QED
    BY <1>6, <2>1, <2>2, FreezeScored, ScoredKept
<1>7. CASE UNCHANGED vars
  <2>1. UNCHANGED <<validation, picked, manifest, frozen, run, jsonl, outcome>>
    BY <1>7 DEF vars, b1Vars, freezeVars
  <2>2. QED
    BY <2>1, ScoredKept DEF ScoredInv, FromSplit
<1>8. QED
  BY <1>1, <1>2, <1>3, <1>4, <1>5, <1>6, <1>7 DEF Next, B1Step

\* "The documents scored are the ones frozen": whatever freezes ran meanwhile, a
\* line of the run's results is of the body its list was frozen with, and only a
\* title that stands for two articles can make a run give up over an article.
THEOREM ScoredAsFrozen == Spec => []ScoredAreFrozen
<1>1. Init => GuardInv /\ ScoredInv
  BY DEF Init, FreezeInit, NoJsonl, NoManifest, GuardInv, PreflightGuards, ScoredInv, FromSplit,
         LinesFrozen, ScoredAreFrozen
<1>2. ScoredInv => ScoredAreFrozen
  BY DEF ScoredInv
<1>3. QED
  BY <1>1, <1>2, TypeInit, TypeInductive, GuardInvInductive, ScoredInvInductive, PTL DEF Spec
-----------------------------------------------------------------------------
(* The summary.                                                             *)

LinesOf(list) == {list[k].doc : k \in DOMAIN list}

Ascending(list) == \A j, k \in DOMAIN list : j < k => list[j].doc < list[k].doc

\* The run counts the documents it has written.
Counted == docs = [k \in DOMAIN jsonl.docs |-> jsonl.docs[k].doc]

\* One more of each.
LEMMA OneMoreCounted ==
  ASSUME NEW s \in Seq(Lines), NEW line \in Lines, NEW t \in Seq(Nat),
         t = [k \in DOMAIN s |-> s[k].doc]
  PROVE  Append(t, line.doc) = [k \in DOMAIN Append(s, line) |-> Append(s, line)[k].doc]
<1> DEFINE more == Append(s, line)
           count2 == Append(t, line.doc)
<1>1. Len(t) = Len(s) /\ \A k \in 1..Len(s) : t[k] = s[k].doc
  OBVIOUS
<1>2. more \in Seq(Lines) /\ Len(more) = Len(s) + 1 /\ more[Len(s) + 1] = line
      /\ \A k \in 1..Len(s) : more[k] = s[k]
  OBVIOUS
<1>3. line.doc \in Nat
  BY DEF Lines
<1>4. count2 \in Seq(Nat) /\ Len(count2) = Len(t) + 1 /\ count2[Len(t) + 1] = line.doc
      /\ \A k \in 1..Len(t) : count2[k] = t[k]
  BY <1>3
<1>5. Len(s) \in Nat /\ DOMAIN more = 1..Len(more)
  BY <1>2
<1> HIDE DEF more, count2
<1>6. \A k \in 1..(Len(s) + 1) : count2[k] = more[k].doc
  <2>1. TAKE k \in 1..(Len(s) + 1)
  <2>2. CASE k \in 1..Len(s)
    <3>1. more[k] = s[k] /\ count2[k] = t[k] /\ t[k] = s[k].doc
      BY <2>2, <1>1, <1>2, <1>4
    <3>2. QED
      BY <3>1, Zenon
  <2>3. CASE k = Len(s) + 1
    <3>1. more[k] = line /\ count2[k] = line.doc
      BY <2>3, <1>1, <1>2, <1>4
    <3>2. QED
      BY <3>1, Zenon
  <2>4. QED
    BY <2>2, <2>3, <1>5
<1>7. count2 = [k \in 1..(Len(s) + 1) |-> more[k].doc]
  <2>1. Len(count2) = Len(s) + 1
    BY <1>1, <1>4
  <2>2. count2 = [k \in 1..Len(count2) |-> count2[k]]
    BY <1>4
  <2>3. count2 = [k \in 1..(Len(s) + 1) |-> count2[k]]
    BY Zenon, <2>1, <2>2
  <2>. QED BY Zenon, <2>3, <1>6
<1>8. QED
  BY <1>2, <1>5, <1>7 DEF more, count2

\* What is written, what is under way and what is to come make up what the run
\* wants, in this order.
Progress ==
  /\ jsonl.run = run /\ Ascending(jsonl.docs) /\ Counted
  /\ \A s \in LinesOf(jsonl.docs) : \A d \in todo : s < d
  /\ b1 = "next" => LinesOf(jsonl.docs) \union todo = Wanted
  /\ b1 # "next" =>
       /\ LinesOf(jsonl.docs) \union {doc} \union todo = Wanted
       /\ \A s \in LinesOf(jsonl.docs) : s < doc
       /\ \A d \in todo : doc < d

CompleteInv ==
  /\ summary.run <= run
  /\ b1 # "idle" => summary.run < run
  /\ b1 \in {"next", "prefill", "cache"} => Progress
  /\ SummaryComplete

\* A run under way or given up has no summary yet.
LEMMA NotYet ==
  ASSUME TypeInv, CompleteInv, b1 # "idle", UNCHANGED <<run, summary>>,
         b1' \in {"next", "prefill", "cache"} => Progress'
  PROVE  CompleteInv'
<1>1. summary.run \in Nat /\ run \in Nat
  BY Fields DEF TypeInv
<1>2. summary'.run < run' /\ summary'.run <= run' /\ summary'.run # run'
  BY <1>1 DEF CompleteInv
<1>3. QED
  BY <1>2 DEF CompleteInv, SummaryComplete

\* A document's line follows those of the documents before it.
LEMMA ScoreProgress ==
  ASSUME TypeInv, CompleteInv, Score
  PROVE  CompleteInv'
<1>1. UNCHANGED <<frozen, run, summary, doc, todo>> /\ b1 = "cache" /\ Wanted' = Wanted
  BY DEF Score, Wanted
<1>2. Progress /\ doc \in Nat /\ todo \subseteq Nat
  BY <1>1, Fields DEF CompleteInv, TypeInv
<1> DEFINE line == [doc |-> doc, body |-> BodyOf(doc), arms |-> arms']
<1>3. CASE b1' = "prefill" /\ UNCHANGED <<jsonl, docs>>
  <2>1. Progress'
    BY <1>1, <1>2, <1>3 DEF Progress, LinesOf, Ascending, Counted
  <2>2. QED
    BY <1>1, <2>1, NotYet
<1>4. CASE /\ b1' = "next" /\ jsonl' = [jsonl EXCEPT !.docs = Append(@, line)]
           /\ docs' = Append(docs, doc)
  <2>1. line.doc = doc
    OBVIOUS
  <2>9. line \in Lines
    <3>1. arms' \in Seq([TensorSet -> Seq({10})])
      BY TypeInductive, Fields DEF TypeInv, TypeOK, Next, B1Step
    <3>2. BodyOf(doc) \in Bodies
      BY <1>1, BodyType DEF TypeInv, DocInv
    <3>3. QED
      BY <1>2, <3>1, <3>2 DEF Lines
  <2>2. jsonl.docs \in Seq(Lines) /\ jsonl \in [run : Nat, docs : Seq(Lines)]
    BY Fields DEF TypeInv
  <2> HIDE DEF line
  <2>3. jsonl'.docs = Append(jsonl.docs, line) /\ jsonl'.run = jsonl.run
    BY <1>4, <2>2
  <2>4. /\ DOMAIN jsonl'.docs = DOMAIN jsonl.docs \union {Len(jsonl.docs) + 1}
        /\ \A k \in DOMAIN jsonl.docs : jsonl'.docs[k] = jsonl.docs[k] /\ k < Len(jsonl.docs) + 1
        /\ jsonl'.docs[Len(jsonl.docs) + 1] = line
        /\ DOMAIN jsonl.docs \subseteq Nat /\ Len(jsonl.docs) \in Nat
    BY <2>2, <2>3
  <2>5. LinesOf(jsonl'.docs) = LinesOf(jsonl.docs) \union {doc}
    BY <2>1, <2>4 DEF LinesOf
  <2>6. Ascending(jsonl'.docs)
    <3>1. \A k \in DOMAIN jsonl.docs : jsonl.docs[k].doc < doc
      BY <1>1, <1>2 DEF Progress, LinesOf
    <3>2. ASSUME NEW j \in DOMAIN jsonl'.docs, NEW k \in DOMAIN jsonl'.docs, j < k
          PROVE  jsonl'.docs[j].doc < jsonl'.docs[k].doc
      <4>1. j \in DOMAIN jsonl.docs
        BY <2>4, <3>2
      <4>2. CASE k \in DOMAIN jsonl.docs
        BY <4>1, <4>2, <3>2, <2>4, <1>2 DEF Progress, Ascending
      <4>3. CASE k = Len(jsonl.docs) + 1
        BY <4>1, <4>3, <2>1, <2>4, <3>1
      <4>4. QED
        BY <2>4, <4>2, <4>3
    <3>3. QED
      BY <3>2 DEF Ascending
  <2>10. Counted'
    <3>1. docs \in Seq(Nat) /\ docs = [k \in DOMAIN jsonl.docs |-> jsonl.docs[k].doc]
      BY <1>2, Fields DEF TypeInv, Progress, Counted
    <3>2. Append(docs, line.doc) = [k \in DOMAIN Append(jsonl.docs, line) |->
                                      Append(jsonl.docs, line)[k].doc]
      BY <3>1, <2>2, <2>9, OneMoreCounted
    <3>3. docs' = Append(docs, line.doc)
      BY <1>4, <2>1
    <3>4. QED
      BY <3>2, <3>3, <2>3 DEF Counted
  <2>7. Progress'
    BY <1>1, <1>2, <1>4, <2>3, <2>5, <2>6, <2>10 DEF Progress
  <2>8. QED
    BY <1>1, <2>7, NotYet
<1>5. CASE b1' = "idle"
  BY <1>1, <1>5, NotYet
<1>6. QED
  BY <1>3, <1>4, <1>5 DEF Score, GiveUp

\* The steps.
LEMMA CompleteInvInductive ==
  ASSUME TypeInv, CompleteInv, [Next]_vars
  PROVE  CompleteInv'
<1>0. run \in Nat /\ summary.run \in Nat
  BY Fields DEF TypeInv
<1>1. CASE B1Start
  <2>1. run' = run + 1 /\ summary' = summary /\ b1' \in {"documents", "preflight"}
    BY <1>1 DEF B1Start
  <2>2. summary'.run < run' /\ summary'.run <= run' /\ summary'.run # run'
    BY <2>1, <1>0 DEF CompleteInv
  <2>3. QED
    BY <2>1, <2>2 DEF CompleteInv, SummaryComplete
<1>2. CASE Preflight \/ B1Killed
  <2>1. UNCHANGED <<run, summary>> /\ b1 # "idle" /\ b1' \in {"documents", "idle"}
    BY <1>2 DEF Preflight, B1Killed, GiveUp
  <2>2. QED
    BY <2>1, NotYet
<1>3. CASE OpenDocuments
  <2>1. UNCHANGED <<run, summary, frozen>> /\ b1 = "documents" /\ Wanted' = Wanted
    BY <1>3 DEF OpenDocuments, Wanted
  <2>2. \/ b1' = "idle"
        \/ b1' = "next" /\ jsonl' = [run |-> run, docs |-> << >>] /\ docs' = << >> /\ todo' = Wanted
    BY <1>3 DEF OpenDocuments, Opened, GiveUp
  <2>3. ASSUME b1' = "next"
        PROVE  Progress'
    <3>1. jsonl'.run = run /\ jsonl'.docs = << >> /\ docs' = << >> /\ todo' = Wanted
      BY <2>2, <2>3
    <3>2. LinesOf(jsonl'.docs) = {} /\ Ascending(jsonl'.docs) /\ Counted'
      BY <3>1 DEF LinesOf, Ascending, Counted
    <3>3. QED
      BY <2>1, <2>3, <3>1, <3>2 DEF Progress
  <2>4. QED
    BY <2>1, <2>2, <2>3, NotYet
<1>4. CASE NextDocument
  <2>1. /\ UNCHANGED <<run, summary, frozen, jsonl, docs>> /\ b1 = "next" /\ Wanted' = Wanted
        /\ b1' \in {"idle", "prefill"}
    BY <1>4 DEF NextDocument, Wanted, GiveUp
  <2>2. /\ doc' \in todo /\ todo' = todo \ {doc'} /\ \A e \in todo : doc' <= e
    BY <1>4 DEF NextDocument
  <2>3. Progress /\ todo \subseteq Nat
    BY <2>1, Fields DEF CompleteInv, TypeInv
  <2>4. \A e \in todo' : doc' < e
    BY <2>2, <2>3
  <2>5. ASSUME b1' = "prefill"
        PROVE  Progress'
    BY <2>1, <2>2, <2>3, <2>4, <2>5 DEF Progress, LinesOf, Ascending, Counted
  <2>6. QED
    BY <2>1, <2>5, NotYet
<1>5. CASE Prefill \/ Reconstruct
  <2>1. /\ UNCHANGED <<run, summary, frozen, jsonl, docs, todo, doc>> /\ b1 \in {"prefill", "cache"}
        /\ b1' \in {"idle", "cache"} /\ Wanted' = Wanted
    BY <1>5 DEF Prefill, Reconstruct, GiveUp, Wanted
  <2>2. b1' = "cache" => Progress'
    BY <2>1 DEF CompleteInv, Progress, LinesOf, Ascending, Counted
  <2>3. QED
    BY <2>1, <2>2, NotYet
<1>6. CASE Summarise
  <2>1. /\ UNCHANGED <<run, frozen, jsonl>> /\ b1 = "next" /\ todo = {} /\ b1' = "idle"
        /\ Wanted' = Wanted
    BY <1>6 DEF Summarise, GiveUp, Wanted
  <2>2. CASE summary' = summary
    BY <2>1, <2>2, NotYet
  <2>3. CASE summary' = [run |-> run, docs |-> docs,
                         documents |-> protocol.documents, by |-> protocol.by]
    <3>2. Progress /\ LinesOf(jsonl.docs) = Wanted
      BY <2>1 DEF CompleteInv, Progress
    <3>1. summary'.run = run /\ summary'.docs = [k \in DOMAIN jsonl.docs |-> jsonl.docs[k].doc]
      BY <2>3, <3>2 DEF Progress, Counted
    <3>3. {summary'.docs[k] : k \in DOMAIN summary'.docs} = Wanted
      BY <3>1, <3>2 DEF LinesOf
    <3>4. \A j, k \in DOMAIN summary'.docs : j < k => summary'.docs[j] < summary'.docs[k]
      BY <3>1, <3>2 DEF Progress, Ascending
    <3>5. SummaryComplete'
      BY <2>1, <3>1, <3>2, <3>3, <3>4 DEF SummaryComplete, Progress
    <3>6. QED
      BY <2>1, <3>1, <3>5, <1>0 DEF CompleteInv
  <2>4. QED
    BY <1>6, <2>2, <2>3 DEF Summarise
<1>7. CASE UNCHANGED b1Vars
  <2>1. UNCHANGED <<run, frozen, jsonl, docs, summary, b1, todo, doc>>
    BY <1>7 DEF b1Vars
  <2>2. Wanted' = Wanted
    BY <2>1 DEF Wanted
  <2>3. (Progress' <=> Progress) /\ (SummaryComplete' <=> SummaryComplete)
    BY <2>1, <2>2 DEF Progress, LinesOf, Ascending, Counted, SummaryComplete
  <2>4. QED
    BY <2>1, <2>3 DEF CompleteInv
<1>8. QED
  BY <1>1, <1>2, <1>3, <1>4, <1>5, <1>6, <1>7, ScoreProgress DEF Next, B1Step, vars

\* A summary is of every document its run wanted, in order and once, and the
\* lines beside it are the ones it was made from until another run opens them.
THEOREM SummaryIsComplete == Spec => []SummaryComplete
<1>1. Init => CompleteInv
  <2>1. ASSUME Init PROVE CompleteInv
    <3>1. b1 = "idle" /\ run = 0 /\ summary.run = 0
      BY <2>1 DEF Init, NoSummary
    <3>2. QED
      BY <3>1 DEF CompleteInv, SummaryComplete
  <2>2. QED
    BY <2>1
<1>2. CompleteInv => SummaryComplete
  BY DEF CompleteInv
<1>3. QED
  BY <1>1, <1>2, TypeInit, TypeInductive, CompleteInvInductive, PTL DEF Spec
-----------------------------------------------------------------------------
(* The number announced.                                                    *)

\* A file names the freeze it is of: a list and a protocol of the same freeze
\* agree on the number, and a freeze under way has not yet written what a later
\* step of it writes.
CountInv ==
  /\ manifest.by <= count /\ protocol.by <= count /\ frozen.by <= count
  /\ freeze = "select" => manifest.by < count /\ protocol.by < count /\ frozen.by < count
  /\ freeze = "protocol" =>
       /\ manifest.by = count /\ manifest.docs = picked /\ Len(picked) >= Floor
       /\ protocol.by < count
  /\ frozen.by = manifest.by => frozen.docs = manifest.docs
  /\ protocol.by = manifest.by => protocol.documents = Len(manifest.docs)
  /\ protocol.by = frozen.by => protocol.documents = Len(frozen.docs)
  /\ protocol.by # 0 => protocol.documents >= Floor
  /\ (summary.run = run /\ run # 0 /\ summary.by = frozen.by) =>
       summary.documents = Len(frozen.docs) /\ summary.documents >= Floor

\* The numbers in the files.
LEMMA CountFields ==
  ASSUME TypeInv
  PROVE  /\ manifest \in [by : Nat, docs : Seq(Articles)] /\ manifest.docs \in Seq(Articles)
         /\ protocol \in [by : Nat, documents : Nat] /\ count \in Nat /\ picked \in Seq(Articles)
         /\ manifest.by \in Nat /\ protocol.by \in Nat /\ frozen.by \in Nat
         /\ run \in Nat /\ summary.run \in Nat
<1>1. /\ manifest \in [by : Nat, docs : Seq(Articles)]
      /\ protocol \in [by : Nat, documents : Nat] /\ count \in Nat /\ picked \in Seq(Articles)
  BY DEF TypeInv, TypeOK, FreezeTypeOK
<1>2. /\ frozen \in [by : Nat, docs : Seq(Articles)] /\ run \in Nat
      /\ summary \in [run : Nat, docs : Seq(Nat), documents : Nat, by : Nat]
  BY Fields DEF TypeInv
<1>3. QED
  BY <1>1, <1>2

\* The freeze's steps.
LEMMA FreezeCounts ==
  ASSUME TypeInv, CountInv, FreezeNext, UNCHANGED b1Vars
  PROVE  CountInv'
<1>1. UNCHANGED <<frozen, summary, run>>
  BY DEF b1Vars
<1>2. CASE FreezeStart
  <2>1. UNCHANGED <<manifest, protocol>> /\ count' = count + 1 /\ freeze' = "select"
    BY <1>2 DEF FreezeStart
  <2>2. QED
    BY <1>1, <2>1, CountFields DEF CountInv
<1>3. CASE Consider
  <2>1. UNCHANGED <<manifest, protocol, count, freeze>> /\ freeze = "select"
    BY <1>3 DEF Consider
  <2>2. QED
    BY <1>1, <2>1 DEF CountInv
<1>4. CASE WriteManifest
  <2>1. /\ manifest' = [by |-> count, docs |-> picked] /\ UNCHANGED <<protocol, count, picked>>
        /\ freeze = "select"
        /\ \/ freeze' = "refused"
           \/ freeze' = "protocol" /\ ~(Len(picked) < Floor)
    BY <1>4 DEF WriteManifest
  <2>2. manifest'.by = count /\ manifest'.docs = picked
    BY <2>1
  <2>3. freeze' = "protocol" => Len(picked) >= Floor
    BY <2>1, CountFields, FreezeAssumption
  <2>4. manifest'.by <= count /\ protocol.by # count /\ frozen.by # count
    BY <2>1, <2>2, CountFields DEF CountInv
  <2>5. QED
    BY <1>1, <2>1, <2>2, <2>3, <2>4 DEF CountInv
<1>5. CASE WriteProtocol
  <2>1. /\ protocol' = [by |-> count, documents |-> Len(picked)]
        /\ UNCHANGED <<manifest, count, picked>> /\ freeze = "protocol" /\ freeze' = "done"
    BY <1>5 DEF WriteProtocol, ProtocolOf
  <2>2. protocol'.by = count /\ protocol'.documents = Len(picked)
    BY <2>1
  <2>3. manifest.docs = picked /\ manifest.by = count /\ Len(picked) >= Floor
    BY <2>1 DEF CountInv
  <2>4. protocol'.by <= count
    BY <2>2, CountFields
  <2>5. frozen.by = count => frozen.docs = picked
    BY <2>3 DEF CountInv
  <2>6. QED
    BY <1>1, <2>1, <2>2, <2>3, <2>4, <2>5 DEF CountInv
<1>6. CASE FreezeKilled
  <2>1. UNCHANGED <<manifest, protocol, count>> /\ freeze' = "killed"
    BY <1>6 DEF FreezeKilled
  <2>2. QED
    BY <1>1, <2>1 DEF CountInv
<1>7. QED
  BY <1>2, <1>3, <1>4, <1>5, <1>6 DEF FreezeNext

\* B1's steps: a start takes the list there is, a summary the protocol there is.
LEMMA CountInvInductive ==
  ASSUME TypeInv, CompleteInv, CountInv, [Next]_vars
  PROVE  CountInv'
<1>1. CASE B1Start
  <2>1. /\ UNCHANGED <<manifest, protocol, count, freeze, picked, summary>>
        /\ frozen' = manifest /\ run' = run + 1
    BY <1>1 DEF B1Start, freezeVars
  <2>2. summary'.run # run'
    BY <2>1, CountFields DEF CompleteInv
  <2>3. QED
    BY <2>1, <2>2, CountFields DEF CountInv
<1>2. CASE Summarise
  <2>1. UNCHANGED <<manifest, protocol, count, freeze, picked, frozen, run>>
    BY <1>2 DEF Summarise, freezeVars
  <2>2. CASE summary' = summary
    BY <2>1, <2>2 DEF CountInv
  <2>3. CASE /\ protocol.by # 0
             /\ summary' = [run |-> run, docs |-> docs,
                            documents |-> protocol.documents, by |-> protocol.by]
    <3>1. summary'.documents = protocol.documents /\ summary'.by = protocol.by
      BY <2>3
    <3>2. QED
      BY <2>1, <2>3, <3>1 DEF CountInv
  <2>4. QED
    BY <1>2, <2>2, <2>3 DEF Summarise
<1>3. CASE Preflight \/ OpenDocuments \/ NextDocument \/ Prefill \/ Reconstruct \/ Score \/ B1Killed
  <2>1. UNCHANGED <<manifest, protocol, count, freeze, picked, frozen, run, summary>>
    BY <1>3 DEF Preflight, OpenDocuments, NextDocument, Prefill, Reconstruct, Score, B1Killed,
                freezeVars
  <2>2. QED
    BY <2>1 DEF CountInv
<1>4. CASE UNCHANGED vars
  <2>1. UNCHANGED <<manifest, protocol, count, freeze, picked, frozen, run, summary>>
    BY <1>4 DEF vars, freezeVars, b1Vars
  <2>2. QED
    BY <2>1 DEF CountInv
<1>5. QED
  BY <1>1, <1>2, <1>3, <1>4, FreezeCounts DEF Next, B1Step

\* Of the articles of one title the last is wanted: as many as there are titles.
LEMMA WantedByTitle ==
  ASSUME TypeInv
  PROVE  /\ IsFiniteSet(Wanted)
         /\ Cardinality(Wanted) = Cardinality(Titles(frozen.docs))
<1> DEFINE n == Len(frozen.docs)
           title(k) == frozen.docs[k].title
           f == [k \in Wanted |-> title(k)]
<1>1. n \in Nat /\ DOMAIN frozen.docs = 1..n
  BY Fields DEF TypeInv
<1>2. Wanted \subseteq 1..n
  BY <1>1 DEF Wanted
<1>3. IsFiniteSet(Wanted)
  <2>1. IsFiniteSet(1..n)
    BY <1>1, FS_Interval
  <2>2. QED
    BY <2>1, <1>2, FS_Subset, Zenon
<1>4. \A j, k \in Wanted : title(j) = title(k) => j = k
  <2>1. \A j, k \in Wanted : title(j) = title(k) => ~(j > k)
    BY <1>1 DEF Wanted
  <2>2. QED
    BY <1>2, <2>1
<1>5. \A t \in Titles(frozen.docs) : \E k \in Wanted : title(k) = t
  <2>1. SUFFICES ASSUME NEW t \in Titles(frozen.docs)
                 PROVE  \E k \in Wanted : title(k) = t
    OBVIOUS
  <2> DEFINE S == {k \in 1..n : title(k) = t}
  <2>2. S \in SUBSET (1..n) /\ S # {}
    BY <1>1 DEF Titles
  <2> HIDE DEF S
  <2>3. PICK i \in S : \A j \in S : j <= i
    BY <1>1, <2>2, LastPosition
  <2>4. i \in 1..n /\ title(i) = t /\ \A j \in 1..n : j > i => title(j) # t
    <3>1. \A j \in S : ~(j > i)
      BY <2>2, <2>3
    <3>2. QED
      BY <3>1 DEF S
  <2>5. QED
    BY <1>1, <2>4 DEF Wanted
<1>6. f \in Bijection(Wanted, Titles(frozen.docs))
  <2>1. f \in [Wanted -> Titles(frozen.docs)]
    BY <1>1, <1>2 DEF Titles
  <2>2. QED
    BY <2>1, <1>4, <1>5 DEF Bijection, Injection, Surjection, IsInjective
<1>7. ExistsBijection(Wanted, Titles(frozen.docs))
  BY <1>6 DEF ExistsBijection
<1>8. QED
  BY <1>3, <1>7, FS_Bijection

\* An ascending sequence of a set is as long as the set.
LEMMA AscendingLength ==
  ASSUME NEW W, NEW s \in Seq(Nat),
         {s[k] : k \in DOMAIN s} = W, \A j, k \in DOMAIN s : j < k => s[j] < s[k]
  PROVE  Len(s) = Cardinality(W)
<1>1. s \in Bijection(1..Len(s), W)
  <2>1. s \in [1..Len(s) -> W] /\ \A m \in W : \E k \in 1..Len(s) : s[k] = m
    <3>1. DOMAIN s = 1..Len(s) /\ s = [k \in 1..Len(s) |-> s[k]]
      OBVIOUS
    <3>2. \A m : m \in W <=> \E k \in 1..Len(s) : s[k] = m
      BY <3>1
    <3>3. QED
      BY <3>1, <3>2
  <2>2. \A j, k \in 1..Len(s) : s[j] = s[k] => j = k
    <3>1. ASSUME NEW j \in 1..Len(s), NEW k \in 1..Len(s), j # k
          PROVE  s[j] # s[k]
      <4>1. j < k \/ k < j
        BY <3>1
      <4>2. s[j] < s[k] \/ s[k] < s[j]
        BY <4>1
      <4>3. s[j] \in Nat /\ s[k] \in Nat
        OBVIOUS
      <4>4. QED
        BY <4>2, <4>3
    <3>2. QED
      BY <3>1
  <2>3. QED
    BY <2>1, <2>2 DEF Bijection, Injection, Surjection, IsInjective
<1>2. IsFiniteSet(1..Len(s)) /\ Cardinality(1..Len(s)) = Len(s)
  <2>1. Len(s) \in Nat
    OBVIOUS
  <2>2. IsFiniteSet(1..Len(s)) /\ Cardinality(1..Len(s)) = IF 1 > Len(s) THEN 0 ELSE Len(s) - 1 + 1
    BY <2>1, FS_Interval
  <2>3. QED
    BY <2>1, <2>2
<1>3. Cardinality(1..Len(s)) = Cardinality(W)
  <2>1. ExistsBijection(1..Len(s), W)
    BY <1>1 DEF ExistsBijection
  <2>2. QED
    BY <2>1, <1>2, FS_Bijection
<1>4. QED
  BY <1>2, <1>3

\* When list and protocol are of one freeze, whichever freezes refused or were
\* killed in between, the protocol announces the articles of the list, at least
\* the floor, and the results are of as many documents as the list has titles:
\* an article is missing from them only where its title was picked again.
THEOREM CountedAsFrozen == Spec => []CountAsFrozen
<1>1. Init => CompleteInv /\ CountInv
  <2>1. ASSUME Init
        PROVE  CompleteInv /\ CountInv
    <3>1. /\ b1 = "idle" /\ run = 0 /\ summary.run = 0 /\ picked = << >> /\ manifest.docs = << >>
          /\ frozen.docs = << >> /\ manifest.by = 0 /\ frozen.by = 0 /\ protocol.by = 0
          /\ protocol.documents = 0 /\ count = 0 /\ freeze = "idle"
      BY <2>1 DEF Init, FreezeInit, NoSummary, NoManifest, NoProtocol
    <3>2. CompleteInv
      BY <3>1 DEF CompleteInv, SummaryComplete
    <3>3. CountInv
      BY <3>1 DEF CountInv
    <3>4. QED
      BY <3>2, <3>3
  <2>2. QED
    BY <2>1
<1>2. TypeInv /\ CompleteInv /\ CountInv => CountAsFrozen
  <2>1. SUFFICES ASSUME TypeInv, CompleteInv, CountInv,
                        summary.run = run, run # 0, summary.by = frozen.by
                 PROVE  /\ summary.documents = Len(frozen.docs) /\ summary.documents >= Floor
                        /\ Len(summary.docs) = Cardinality(Titles(frozen.docs))
    BY DEF CountAsFrozen
  <2>2. summary.documents = Len(frozen.docs) /\ summary.documents >= Floor
    BY <2>1 DEF CountInv
  <2>3. /\ {summary.docs[k] : k \in DOMAIN summary.docs} = Wanted
        /\ \A j, k \in DOMAIN summary.docs : j < k => summary.docs[j] < summary.docs[k]
    BY <2>1 DEF CompleteInv, SummaryComplete
  <2>4. summary.docs \in Seq(Nat)
    <3>1. summary \in [run : Nat, docs : Seq(Nat), documents : Nat, by : Nat]
      BY <2>1, Fields DEF TypeInv
    <3>2. QED
      BY <3>1
  <2>5. Len(summary.docs) = Cardinality(Wanted)
    BY <2>3, <2>4, AscendingLength
  <2>6. QED
    BY <2>1, <2>2, <2>5, WantedByTitle
<1>3. QED
  BY <1>1, <1>2, TypeInit, TypeInductive, CompleteInvInductive, CountInvInductive,
     PTL DEF Spec
=============================================================================
