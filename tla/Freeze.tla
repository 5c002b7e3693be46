------------------------------- MODULE Freeze -------------------------------
(***************************************************************************)
(* scripts/freeze_manifest.py: which articles the project has already      *)
(* read, which validation articles it will score, and the three files that *)
(* say so.  The files are written one after the other and the script may   *)
(* be killed, refuse, or be run again over what an earlier one left.       *)
(*                                                                         *)
(* An article is a title and a body; two bodies have the same hash when    *)
(* they are the same.                                                      *)
(***************************************************************************)
EXTENDS Integers, Sequences, FiniteSets

CONSTANTS
  Bodies,
  Chars, Tokens,        \* length of a body, in characters and in tokens
  Corpora,              \* the pairs of a train and a validation split
  MinChars, MinTokens,  \* MIN_CHARS, MIN_TOKENS
  Target, Floor,        \* TARGET, FLOOR
  QualityN,             \* how many long train articles the quality phase read
  MaxFreezes            \* bound: freezes started

ASSUME FreezeAssumption ==
  /\ Chars \in [Bodies -> Nat] /\ Tokens \in [Bodies -> Nat]
  /\ \A c \in Corpora :
       /\ c.train \in Seq([title : STRING, body : Bodies])
       /\ c.validation \in Seq([title : STRING, body : Bodies])
  /\ MinChars \in Nat /\ MinTokens \in Nat
  /\ Floor \in Nat \ {0} /\ Target \in Nat /\ Floor <= Target
  /\ QualityN \in Nat /\ MaxFreezes \in Nat

VARIABLES
  train, validation,  \* the two splits
  b0,                 \* the train articles of the B0 corpus, by position
  freeze,             \* "idle", "select", "protocol", "done", "refused", "killed"
  count,              \* freezes started
  next,               \* the validation article looked at next
  picked,             \* articles picked so far
  manifest,           \* heldout_manifest.json
  protocol            \* protocol.json

freezeVars == <<train, validation, b0, freeze, count, next, picked, manifest, protocol>>

Articles == [title : STRING, body : Bodies]

\* "by" is the freeze that wrote a file; 0 says there is none.
NoManifest == [by |-> 0, docs |-> << >>]
NoProtocol == [by |-> 0, documents |-> 0]

FreezeInit ==
  /\ \E c \in Corpora : train = c.train /\ validation = c.validation
  /\ b0 = {} /\ freeze = "idle" /\ count = 0 /\ next = 1 /\ picked = << >>
  /\ manifest = NoManifest /\ protocol = NoProtocol

LongEnough(body) == Chars[body] >= MinChars

\* The first QualityN train articles over the threshold, whose list was never
\* written down and is worked out again.
Quality ==
  {k \in DOMAIN train :
     /\ LongEnough(train[k].body)
     /\ Cardinality({j \in 1..k : LongEnough(train[j].body)}) <= QualityN}

\* Faulty: the quality phase is forgotten.
SeenInB0 == {train[k] : k \in b0}

\* seen_documents: one entry for a title, the last of the B0 corpus or else the
\* first of the quality articles.
Seen ==
  {train[k] : k \in {i \in b0 : \A j \in b0 : j > i => train[j].title # train[i].title}}
  \union
  {train[k] : k \in {i \in Quality :
     \A j \in b0 \union {q \in Quality : q < i} : train[j].title # train[i].title}}

\* Nothing speaks against the article: build_heldout's `why is None'.
Qualifies(article, seen, taken) ==
  /\ LongEnough(article.body)
  /\ article.title \notin {d.title : d \in seen}
  /\ article.body \notin {d.body : d \in seen}
  /\ article.body \notin taken
  /\ Tokens[article.body] >= MinTokens

Taken == {picked[k].body : k \in DOMAIN picked}

FreezeStart ==
  /\ freeze \notin {"select", "protocol"} /\ count < MaxFreezes
  /\ b0' \in SUBSET {k \in DOMAIN train : LongEnough(train[k].body)}
  /\ freeze' = "select" /\ count' = count + 1 /\ next' = 1 /\ picked' = << >>
  /\ UNCHANGED <<train, validation, manifest, protocol>>

\* The loop of build_heldout breaks as soon as the target is met.
Selecting == next <= Len(validation) /\ Len(picked) < Target

Consider ==
  /\ freeze = "select" /\ Selecting
  /\ picked' = IF Qualifies(validation[next], Seen, Taken)
               THEN Append(picked, validation[next]) ELSE picked
  /\ next' = next + 1
  /\ UNCHANGED <<train, validation, b0, freeze, count, manifest, protocol>>

\* The manifest is on disk before the floor is looked at.
WriteManifest ==
  /\ freeze = "select" /\ ~Selecting
  /\ manifest' = [by |-> count, docs |-> picked]
  /\ freeze' = IF Len(picked) < Floor THEN "refused" ELSE "protocol"
  /\ UNCHANGED <<train, validation, b0, count, next, picked, protocol>>

\* Faulty: the number asked for, whatever qualified.
ProtocolOfTarget(n) == [by |-> n, documents |-> Target]

ProtocolOf(n) == [by |-> n, documents |-> Len(picked)]

WriteProtocol ==
  /\ freeze = "protocol"
  /\ protocol' = ProtocolOf(count)
  /\ freeze' = "done"
  /\ UNCHANGED <<train, validation, b0, count, next, picked, manifest>>

FreezeKilled ==
  /\ freeze \in {"select", "protocol"}
  /\ freeze' = "killed"
  /\ UNCHANGED <<train, validation, b0, count, next, picked, manifest, protocol>>

FreezeNext == FreezeStart \/ Consider \/ WriteManifest \/ WriteProtocol \/ FreezeKilled

-----------------------------------------------------------------------------

FreezeTypeOK ==
  /\ train \in Seq(Articles) /\ validation \in Seq(Articles)
  /\ b0 \subseteq DOMAIN train
  /\ freeze \in {"idle", "select", "protocol", "done", "refused", "killed"}
  /\ count \in Nat /\ next \in Nat \ {0}
  /\ picked \in Seq(Articles)
  /\ manifest \in [by : Nat, docs : Seq(Articles)]
  /\ protocol \in [by : Nat, documents : Nat]

\* What development has read: the B0 corpus and the quality articles.
Development == {train[k] : k \in b0 \union Quality}

\* A title stands for one article of a split.
TitlesDistinct(split) ==
  \A j, k \in DOMAIN split : split[j].title = split[k].title => j = k

\* "Not used in development, no duplicate bodies" (freeze_manifest.py:125-128):
\* the list a freeze ends with shares no title and no body with what has been
\* read, and holds no body twice.  The seen list is kept by title, so a train
\* title must stand for one article.
HeldoutUnseen ==
  (freeze \in {"protocol", "done"} /\ TitlesDistinct(train)) =>
    LET docs == manifest.docs IN
    /\ \A k \in DOMAIN docs : \A d \in Development :
         docs[k].title # d.title /\ docs[k].body # d.body
    /\ \A j, k \in DOMAIN docs : docs[j].body = docs[k].body => j = k
=============================================================================
