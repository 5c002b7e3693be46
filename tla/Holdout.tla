------------------------------- MODULE Holdout -------------------------------
(***************************************************************************)
(* scripts/quality_holdout.py (B1) beside the freeze whose files it reads: *)
(* preflight on two development articles, then every frozen article under  *)
(* every arm, each arm over a cache of its own.  A run may be killed or    *)
(* give up at any of its checks, and be started again over the files it    *)
(* left; a freeze may be run again at any time.                            *)
(***************************************************************************)
EXTENDS Freeze

CONSTANTS
  Prefix, Scored,   \* PREFIX, SCORED
  NTensors,         \* tensors of a cache, K and V in turn
  MaxRuns           \* bound: runs of B1 started

ASSUME HoldoutAssumption ==
  /\ Prefix \in Nat \ {0} /\ Scored \in Nat \ {0}
  /\ MinTokens = Prefix + 1 + Scored
  /\ NTensors \in Nat \ {0} /\ MaxRuns \in Nat

VARIABLES
  b1,        \* "idle", "preflight", "documents", "next", "prefill", "cache"
  run, skip, \* runs started; --skip-preflight
  frozen,    \* the manifest this run has read
  checks,    \* preflight: the development articles looked at and how it went
  todo, doc, \* documents to come and the one under way
  arm,       \* the arm under way
  tensor,    \* the tensor its codec takes next
  cache,     \* what each tensor of the cache went through since the prefill
  arms,      \* what the arms of this document were scored on
  jsonl,     \* quality_documents.jsonl
  docs,      \* documents this run has scored, as it counts them
  summary,   \* quality_summary.json
  outcome    \* how the last run ended

b1Vars == <<b1, run, skip, frozen, checks, todo, doc, arm, tensor, cache, arms,
            jsonl, docs, summary, outcome>>
vars == <<freezeVars, b1Vars>>

\* ARMS: what happens to K and to V; 0 leaves them alone.
Arms == <<[K |-> 0, V |-> 0], [K |-> 10, V |-> 0], [K |-> 0, V |-> 10], [K |-> 10, V |-> 10]>>

TensorSet == 1..NTensors
CFor(a, t) == IF t % 2 = 1 THEN Arms[a].K ELSE Arms[a].V

NoCache    == [t \in TensorSet |-> << >>]
NoJsonl    == [run |-> 0, docs |-> << >>]
NoSummary  == [run |-> 0, docs |-> << >>, documents |-> 0, by |-> 0]

Init ==
  /\ FreezeInit
  /\ b1 = "idle" /\ run = 0 /\ skip = FALSE /\ frozen = NoManifest /\ checks = {}
  /\ todo = {} /\ doc = 0 /\ arm = 1 /\ tensor = 1 /\ cache = NoCache /\ arms = << >>
  /\ jsonl = NoJsonl /\ docs = << >> /\ summary = NoSummary /\ outcome = "none"

\* Faulty: the reason is lost; the script goes on.
GiveUpSilently(why) == b1' = "idle" /\ outcome' = ""
GoOn(why) == b1' = b1 /\ outcome' = why

GiveUp(why) == b1' = "idle" /\ outcome' = why

-----------------------------------------------------------------------------

B1Start ==
  /\ b1 = "idle" /\ run < MaxRuns /\ manifest.by # 0
  /\ skip' \in BOOLEAN
  /\ run' = run + 1 /\ frozen' = manifest /\ checks' = {} /\ outcome' = "none"
  /\ b1' = IF skip' THEN "documents" ELSE "preflight"
  /\ UNCHANGED <<freezeVars, todo, doc, arm, tensor, cache, arms, jsonl, docs, summary>>

\* The first two long train articles; one with too few tokens is passed over.
DevArticles ==
  {k \in DOMAIN train :
     /\ LongEnough(train[k].body)
     /\ Cardinality({j \in 1..k : LongEnough(train[j].body)}) <= 2
     /\ Tokens[train[k].body] >= Prefix + 1 + Scored}

\* Faulty: one article that is in order is enough.
AnyReplaceOk(results) == results = {} \/ \E c \in results : c.ok

AllReplaceOk(results) == \A c \in results : c.ok

\* A copy of a cache that moves the score is the harness's fault.
Preflight ==
  /\ b1 = "preflight"
  /\ \E bad \in SUBSET DevArticles :
       checks' = {[dev |-> k, ok |-> k \notin bad] : k \in DevArticles}
  /\ IF AllReplaceOk(checks') THEN b1' = "documents" /\ outcome' = outcome
     ELSE GiveUp("replacement moves the score")
  /\ UNCHANGED <<freezeVars, run, skip, frozen, todo, doc, arm, tensor, cache, arms,
                 jsonl, docs, summary>>

\* Both the frozen list and the corpus are looked up by title: of two with the
\* same title the last counts.
Wanted ==
  {k \in DOMAIN frozen.docs :
     \A j \in DOMAIN frozen.docs : j > k => frozen.docs[j].title # frozen.docs[k].title}

Positions(title) == {i \in DOMAIN validation : validation[i].title = title}

\* Faulty: the k-th article of the corpus for the k-th document.
BodyByNumber(k) == validation[k].body

BodyOf(k) ==
  LET at == Positions(frozen.docs[k].title)
  IN  validation[CHOOSE i \in at : \A j \in at : j <= i].body

\* Faulty: opened for appending.
OpenedToAppend(n) == [run |-> n, docs |-> jsonl.docs]

\* Opened with "w": what an earlier run wrote is gone.
Opened(n) == [run |-> n, docs |-> << >>]

OpenDocuments ==
  /\ b1 = "documents"
  /\ IF \E k \in Wanted : Positions(frozen.docs[k].title) = {}
     THEN /\ GiveUp("missing article")
          /\ UNCHANGED <<jsonl, docs, todo, doc>>
     ELSE /\ jsonl' = Opened(run) /\ docs' = << >> /\ todo' = Wanted /\ doc' = 0
          /\ b1' = "next" /\ outcome' = outcome
  /\ UNCHANGED <<freezeVars, run, skip, frozen, checks, arm, tensor, cache, arms, summary>>

\* The documents in the order of their names.
NextDocument ==
  /\ b1 = "next" /\ todo # {}
  /\ \E d \in todo :
       /\ \A e \in todo : d <= e
       /\ doc' = d /\ todo' = todo \ {d}
       /\ IF Tokens[BodyOf(d)] < Prefix + 1 + Scored THEN GiveUp("too short")
          ELSE b1' = "prefill" /\ outcome' = outcome
  /\ arm' = 1 /\ arms' = << >>
  /\ UNCHANGED <<freezeVars, run, skip, frozen, checks, tensor, cache, jsonl, docs, summary>>

\* Faulty: the cache of the arm before is used again.
Inherited(c) == c

Prefilled(c) == NoCache

\* score(): model(pre, use_cache=True).
Prefill ==
  /\ b1 = "prefill"
  /\ cache' = Prefilled(cache) /\ tensor' = 1 /\ b1' = "cache"
  /\ UNCHANGED <<freezeVars, run, skip, frozen, checks, todo, doc, arm, arms, jsonl,
                 docs, summary, outcome>>

\* One tensor: left alone, or through the codec and copied back in place.
\* roundtrip() gives up on damage.
Reconstruct ==
  /\ b1 = "cache" /\ tensor <= NTensors
  /\ \/ /\ cache' = IF CFor(arm, tensor) = 0 THEN cache
                    ELSE [cache EXCEPT ![tensor] = Append(@, CFor(arm, tensor))]
        /\ tensor' = tensor + 1 /\ UNCHANGED <<b1, outcome>>
     \/ /\ CFor(arm, tensor) # 0
        /\ GiveUp("damage") /\ UNCHANGED <<cache, tensor>>
  /\ UNCHANGED <<freezeVars, run, skip, frozen, checks, todo, doc, arm, arms, jsonl, docs,
                 summary>>

\* The continuation is scored on the cache as it is now; then the next arm, or
\* the document's name in the run's list and its line in the results.
Score ==
  /\ b1 = "cache" /\ tensor > NTensors
  /\ \/ /\ arm < Len(Arms)
        /\ arms' = Append(arms, cache) /\ arm' = arm + 1 /\ b1' = "prefill"
        /\ UNCHANGED <<jsonl, docs, outcome>>
     \/ /\ arm = Len(Arms)
        /\ arms' = Append(arms, cache) /\ b1' = "next"
        /\ docs' = Append(docs, doc)
        /\ jsonl' = [jsonl EXCEPT !.docs =
                       Append(@, [doc |-> doc, body |-> BodyOf(doc), arms |-> arms'])]
        /\ UNCHANGED <<arm, outcome>>
     \/ /\ GiveUp("not finite") /\ UNCHANGED <<jsonl, docs, arms, arm>>
  /\ UNCHANGED <<freezeVars, run, skip, frozen, checks, todo, doc, tensor, cache, summary>>

\* protocol.json is read when everything has been scored, and then the summary
\* is written.
Summarise ==
  /\ b1 = "next" /\ todo = {}
  /\ IF protocol.by = 0 \/ docs = << >>
     THEN GiveUp("no summary") /\ summary' = summary
     ELSE /\ GiveUp("summary")
          /\ summary' = [run |-> run, docs |-> docs,
                         documents |-> protocol.documents, by |-> protocol.by]
  /\ UNCHANGED <<freezeVars, run, skip, frozen, checks, todo, doc, arm, tensor, cache, arms,
                 jsonl, docs>>

B1Killed ==
  /\ b1 # "idle"
  /\ GiveUp("killed")
  /\ UNCHANGED <<freezeVars, run, skip, frozen, checks, todo, doc, arm, tensor, cache, arms,
                 jsonl, docs, summary>>

B1Step ==
  \/ Preflight \/ OpenDocuments \/ NextDocument \/ Prefill \/ Reconstruct \/ Score \/ Summarise

Next ==
  \/ FreezeNext /\ UNCHANGED b1Vars
  \/ B1Start \/ B1Step \/ B1Killed

\* A run that was started goes on until it ends or is killed.
Spec == Init /\ [][Next]_vars /\ WF_vars(B1Step)

-----------------------------------------------------------------------------

Lines == [doc : Nat, body : Bodies, arms : Seq([TensorSet -> Seq({10})])]

TypeOK ==
  /\ FreezeTypeOK
  /\ b1 \in {"idle", "preflight", "documents", "next", "prefill", "cache"}
  /\ run \in Nat /\ skip \in BOOLEAN
  /\ frozen \in [by : Nat, docs : Seq(Articles)]
  /\ checks \subseteq [dev : Nat, ok : BOOLEAN]
  /\ todo \subseteq Nat /\ doc \in Nat
  /\ arm \in 1..4 /\ tensor \in 1..(NTensors + 1)
  /\ cache \in [TensorSet -> Seq({10})] /\ arms \in Seq([TensorSet -> Seq({10})])
  /\ jsonl \in [run : Nat, docs : Seq(Lines)] /\ docs \in Seq(Nat)
  /\ summary \in [run : Nat, docs : Seq(Nat), documents : Nat, by : Nat]
  /\ outcome \in {"none", "replacement moves the score", "missing article", "too short",
                  "damage", "not finite", "no summary", "summary", "killed"}

\* "Each arm re-prefills" (quality_holdout.py:17): what an arm was scored on is
\* a fresh cache with that arm's tensors through the codec once and no other.
OwnCache(a) == [t \in TensorSet |-> IF CFor(a, t) = 0 THEN << >> ELSE <<CFor(a, t)>>]

ArmsOnOwnCache ==
  \A k \in DOMAIN jsonl.docs : jsonl.docs[k].arms = [a \in 1..4 |-> OwnCache(a)]

\* The documents scored are the ones frozen, body for body (quality_holdout.py:6),
\* and what passed the freeze passes B1's own checks: no run gives up over a
\* missing or a short article.  B1 finds articles again by title only, so a title
\* must stand for one.
TitleUnique(title) == Cardinality(Positions(title)) = 1

ScoredAreFrozen ==
  /\ jsonl.run = run =>
       \A k \in DOMAIN jsonl.docs :
         LET d == frozen.docs[jsonl.docs[k].doc] IN
         TitleUnique(d.title) => jsonl.docs[k].body = d.body
  /\ outcome \in {"missing article", "too short"} =>
       \E k \in DOMAIN frozen.docs : ~TitleUnique(frozen.docs[k].title)

\* A summary is of every document its run wanted, in order and once, and the
\* lines beside it are the ones it was made from, until another run opens them.
SummaryComplete ==
  (summary.run = run /\ run # 0) =>
    /\ jsonl.run = run
    /\ summary.docs = [k \in DOMAIN jsonl.docs |-> jsonl.docs[k].doc]
    /\ {summary.docs[k] : k \in DOMAIN summary.docs} = Wanted
    /\ \A j, k \in DOMAIN summary.docs : j < k => summary.docs[j] < summary.docs[k]

\* When list and protocol come from one freeze, the protocol announces the articles of
\* the list, at least the floor, and the results are short of them by the titles that
\* were picked twice and by nothing else: "documents" and "results_expected"
\* (freeze_manifest.py:192) are what B1 delivers as far as each title is one article's.
\* (A freeze that refused or was killed leaves its list beside an older protocol, and
\* B1 takes both.)
Titles(list) == {list[k].title : k \in DOMAIN list}

CountAsFrozen ==
  (summary.run = run /\ run # 0 /\ summary.by = frozen.by) =>
    /\ summary.documents = Len(frozen.docs) /\ summary.documents >= Floor
    /\ Len(summary.docs) = Cardinality(Titles(frozen.docs))

\* No held-out article is scored after a preflight in which a copied cache moved
\* the score of any development article it could look at.
PreflightGuards ==
  (jsonl.run = run /\ run # 0 /\ ~skip) =>
    checks = {[dev |-> k, ok |-> TRUE] : k \in DevArticles}

\* A run ends, with a summary or with the reason it gave up.
B1Ends == (b1 # "idle") ~> (b1 = "idle")
=============================================================================
