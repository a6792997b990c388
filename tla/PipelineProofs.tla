--------------------------- MODULE PipelineProofs ---------------------------
(***************************************************************************)
(* When every script is run with the same HOLD_OUT_FAMILY, and teacher     *)
(* rows are taken of the training or the validation split only, no student *)
(* is ever scored on a scenario it has seen, whatever the order of the     *)
(* scripts.  The argument follows the files: a directory holds names of    *)
(* its own split only, so no row file, no DAgger round, no list of a       *)
(* DAgger run and no student has a name of the test split, and those are   *)
(* the only names a report is about.                                       *)
(***************************************************************************)
EXTENDS Pipeline, TLAPS

\* What the theorem asks of whoever runs the scripts.
Disciplined ==
    /\ \E hold : HoldOuts = {hold}
    /\ LlmSplits \subseteq {"train", "val"}

\* The names that every process takes to be of split s, and those that it takes to
\* be of the test split.
OfSplit(s) == {n \in Names : \A hold \in HoldOuts : Split(n, hold) = s}

Trainable == {n \in Names : \A hold \in HoldOuts : Split(n, hold) # "test"}

Bundle == [train : SUBSET Trainable, val : SUBSET Trainable]

\* The inductive invariant.
CorpusSplit == corpus \in [Corpora -> [Splits -> SUBSET Names]]
                 /\ \A c \in Corpora, s \in Splits : corpus[c][s] \subseteq OfSplit(s)

RowsSeen == traces \in [Files -> SUBSET Trainable]

RoundsSeen == rounds \in [1 .. Rounds -> Bundle]

BundlesSeen == bundles \subseteq Bundle

DaggerSeen ==
    dagger = None \/ dagger \in [next : 1 .. Rounds, files : SUBSET Trainable]

ReportClean ==
    report = None \/ report \in [student : Bundle, tested : SUBSET OfSplit("test")]

Inv == /\ flown \subseteq Names
       /\ CorpusSplit /\ RowsSeen /\ RoundsSeen
       /\ BundlesSeen /\ DaggerSeen /\ ReportClean

\* Names of the training and of the validation split may be trained on.
LEMMA SplitsTrainable ==
    OfSplit("train") \subseteq Trainable /\ OfSplit("val") \subseteq Trainable
  BY DEF OfSplit, Trainable

\* A name of the test split may not: some process does hold out a family.
LEMMA TestNotTrainable == Disciplined => OfSplit("test") \cap Trainable = {}
  BY DEF Disciplined, OfSplit, Trainable

\* One process's split is everybody's.
LEMMA SplitShared ==
    ASSUME Disciplined, NEW hold \in HoldOuts, NEW n \in Names
    PROVE  n \in OfSplit(Split(n, hold)) /\ (Split(n, hold) # "test" => n \in Trainable)
  BY DEF Disciplined, OfSplit, Trainable

\* The copy of the split in corpus.build agrees with the original.
LEMMA CopiesAgree == ASSUME NEW n, NEW hold PROVE BuiltSplit(n, hold) = Split(n, hold)
  BY DEF BuiltSplit, Split

LEMMA FilesListed ==
    /\ \A s \in {"train", "val"} : <<"refsim", s>> \in Files /\ <<"ns3", s>> \in Files
    /\ <<"bridge", "train">> \in Files /\ <<"llm", "train">> \in Files
    /\ DefaultFiles \subseteq Files
  BY DEF Files, DefaultFiles

\* A training run on rows of trainable names leaves such a student.
LEMMA TrainClean ==
    ASSUME BundlesSeen, NEW train \in SUBSET Trainable, NEW val \in SUBSET Trainable,
           Train(train, val)
    PROVE  BundlesSeen'
  BY DEF Train, BundlesSeen, Bundle, Student, Trainable

\* Every script keeps the invariant.
LEMMA NextClean == ASSUME Disciplined PROVE Inv /\ [Next]_vars => Inv'
<1> SUFFICES ASSUME Inv, [Next]_vars PROVE Inv'
    OBVIOUS
<1>0. flown \subseteq Names /\ CorpusSplit /\ RowsSeen /\ RoundsSeen
        /\ BundlesSeen /\ DaggerSeen /\ ReportClean
      BY DEF Inv
<1>a. ASSUME NEW c \in Corpora, NEW s \in {"train", "val"}
      PROVE  corpus[c][s] \subseteq Trainable
      BY <1>0, SplitsTrainable DEF CorpusSplit, Splits
<1>1. ASSUME NEW c \in Corpora, NEW hold \in HoldOuts, Build(c, hold) PROVE Inv'
  <2>1. PICK new \in SUBSET Names :
          corpus' = [corpus EXCEPT ![c] =
                       [s \in Splits |-> @[s] \cup {n \in new : BuiltSplit(n, hold) = s}]]
        BY <1>1 DEF Build
  <2>2. ASSUME NEW s \in Splits
        PROVE  {n \in new : BuiltSplit(n, hold) = s} \subseteq OfSplit(s)
        BY <2>1, SplitShared, CopiesAgree
  <2>3. CorpusSplit'
        BY <1>0, <2>1, <2>2 DEF CorpusSplit, OfSplit
  <2>4. QED BY <1>0, <1>1, <2>3 DEF Build, Inv, RowsSeen, RoundsSeen, BundlesSeen,
                                    DaggerSeen, ReportClean
<1>2. ASSUME NEW c \in Corpora, NEW s \in {"train", "val"}, GenTraces(c, s) PROVE Inv'
  <2>1. RowsSeen'
        BY <1>0, <1>a, <1>2, FilesListed DEF GenTraces, RowsSeen
  <2>2. flown' \subseteq Names
        BY <1>0, <1>a, <1>2 DEF GenTraces, Trainable
  <2>3. QED BY <1>0, <1>2, <2>1, <2>2 DEF GenTraces, Inv, CorpusSplit, RoundsSeen,
                                          BundlesSeen, DaggerSeen, ReportClean
<1>3. ASSUME NEW c \in Corpora, NEW s \in {"train", "val"}, GenNs3(c, s) PROVE Inv'
  <2>1. RowsSeen'
        BY <1>0, <1>a, <1>3, FilesListed DEF GenNs3, RowsSeen
  <2>2. QED BY <1>0, <1>3, <2>1 DEF GenNs3, Inv, CorpusSplit, RoundsSeen, BundlesSeen,
                                    DaggerSeen, ReportClean
<1>4. ASSUME NEW c \in Corpora, BridgeDagger(c) PROVE Inv'
  <2>1. RowsSeen'
        BY <1>0, <1>a, <1>4, FilesListed DEF BridgeDagger, RowsSeen
  <2>2. QED BY <1>0, <1>4, <2>1 DEF BridgeDagger, Inv, CorpusSplit, RoundsSeen,
                                    BundlesSeen, DaggerSeen, ReportClean
<1>5. CASE FlyTeacher
  BY <1>0, <1>5 DEF FlyTeacher, Inv, CorpusSplit, RowsSeen, RoundsSeen, BundlesSeen,
                    DaggerSeen, ReportClean
<1>6. ASSUME NEW s \in LlmSplits, NEW hold \in HoldOuts, LlmRows(s, hold) PROVE Inv'
  <2>1. s # "any" /\ s # "test"
        BY DEF Disciplined
  <2>2. {n \in flown : s = "any" \/ Split(n, hold) = s} \subseteq Trainable
        BY <1>0, <2>1, SplitShared
  <2>3. RowsSeen'
        BY <1>0, <1>6, <2>2, FilesListed DEF LlmRows, RowsSeen
  <2>4. QED BY <1>0, <1>6, <2>3 DEF LlmRows, Inv, CorpusSplit, RoundsSeen, BundlesSeen,
                                    DaggerSeen, ReportClean
<1>7. ASSUME NEW f \in DefaultFiles, NEW hold \in HoldOuts, FilterTraces(f, hold)
      PROVE  Inv'
  <2>1. RowsSeen'
        BY <1>0, <1>7, FilesListed DEF FilterTraces, RowsSeen
  <2>2. QED BY <1>0, <1>7, <2>1 DEF FilterTraces, Inv, CorpusSplit, RoundsSeen,
                                    BundlesSeen, DaggerSeen, ReportClean
<1>8. CASE TrainStudent
  <2>1. BundlesSeen'
        BY <1>0, <1>8, TrainClean, FilesListed DEF TrainStudent, RowsSeen
  <2>2. QED BY <1>0, <1>8, <2>1 DEF TrainStudent, Inv, CorpusSplit, RowsSeen, RoundsSeen,
                                    DaggerSeen, ReportClean
<1>9. CASE TrainMixed
  <2> DEFINE round1 == IF Rounds = 0 THEN {} ELSE rounds[1].train
  <2>1. round1 \subseteq Trainable
        BY <1>0, PipelineAssumption DEF RoundsSeen, Bundle
  <2>2. BundlesSeen'
    <3> DEFINE train == traces[<<"refsim", "train">>] \cup round1
                          \cup traces[<<"ns3", "train">>] \cup traces[<<"bridge", "train">>]
                          \cup traces[<<"llm", "train">>]
               val == traces[<<"refsim", "val">>] \cup traces[<<"ns3", "val">>]
    <3>1. train \in SUBSET Trainable /\ val \in SUBSET Trainable
          BY <1>0, <2>1, FilesListed DEF RowsSeen
    <3>2. Train(train, val)
          BY <1>9 DEF TrainMixed
    <3> HIDE DEF train, val
    <3>3. QED BY <1>0, <3>1, <3>2, TrainClean
  <2>3. QED BY <1>0, <1>9, <2>2 DEF TrainMixed, Inv, CorpusSplit, RowsSeen, RoundsSeen,
                                    DaggerSeen, ReportClean
<1>10. ASSUME NEW b \in bundles, Calibrate(b) PROVE Inv'
  <2>1. b \in Bundle /\ traces[<<"ns3", "val">>] \in SUBSET Trainable
        BY <1>0, FilesListed DEF BundlesSeen, RowsSeen
  <2>2. BundlesSeen'
        BY <1>0, <1>10, <2>1 DEF Calibrate, BundlesSeen, Bundle, Student
  <2>3. QED BY <1>0, <1>10, <2>2 DEF Calibrate, Inv, CorpusSplit, RowsSeen, RoundsSeen,
                                     DaggerSeen, ReportClean
<1>11. ASSUME NEW c \in Corpora, StartDagger(c) PROVE Inv'
  <2>1. DaggerSeen'
        BY <1>a, <1>11, PipelineAssumption DEF StartDagger, DaggerSeen
  <2>2. QED BY <1>0, <1>11, <2>1 DEF StartDagger, Inv, CorpusSplit, RowsSeen, RoundsSeen,
                                     BundlesSeen, ReportClean
<1>12. CASE DaggerRound
  <2> DEFINE k == dagger.next
             val == traces[<<"refsim", "val">>]
             union(relabelled) == traces[<<"refsim", "train">>] \cup relabelled
                                    \cup UNION {rounds[j].train : j \in 1 .. (k - 1)}
             kept == IF val = {} THEN rounds[k].val ELSE val
  <2>1. k \in 1 .. Rounds /\ dagger.files \subseteq Trainable
        BY <1>0, <1>12 DEF DaggerRound, DaggerSeen
  <2>2. PICK relabelled \in SUBSET dagger.files :
          rounds' = [rounds EXCEPT ![k] = Student(union(relabelled), kept)]
        BY <1>12 DEF DaggerRound
  <2>3. rounds[k] \in Bundle /\ kept \in SUBSET Trainable
        BY <1>0, <2>1, FilesListed DEF RoundsSeen, RowsSeen, Bundle
  <2>4. UNION {rounds[j].train : j \in 1 .. (k - 1)} \subseteq Trainable
        BY <1>0, <2>1, PipelineAssumption DEF RoundsSeen, Bundle
  <2>5. union(relabelled) \in SUBSET Trainable
        BY <1>0, <2>1, <2>2, <2>4, FilesListed DEF RowsSeen
  <2> HIDE DEF union, kept
  <2>6. RoundsSeen'
        BY <1>0, <2>1, <2>2, <2>3, <2>5 DEF RoundsSeen, Bundle, Student
  <2>7. BundlesSeen' /\ DaggerSeen'
    <3>1. CASE Train(rounds'[k].train, rounds'[k].val)
               /\ dagger' = IF k = Rounds THEN None ELSE [dagger EXCEPT !.next = k + 1]
      <4>1. rounds'[k].train \in SUBSET Trainable /\ rounds'[k].val \in SUBSET Trainable
            BY <2>1, <2>6 DEF RoundsSeen, Bundle
      <4>2. BundlesSeen'
            BY <1>0, <3>1, <4>1, TrainClean
      <4>3. DaggerSeen'
            BY <1>0, <1>12, <2>1, <3>1, PipelineAssumption DEF DaggerSeen, DaggerRound
      <4>4. QED BY <4>2, <4>3
    <3>2. CASE bundles' = bundles /\ dagger' = None
          BY <1>0, <3>2 DEF BundlesSeen, DaggerSeen
    <3>3. QED BY <1>12, <3>1, <3>2 DEF DaggerRound
  <2>8. QED BY <1>0, <1>12, <2>6, <2>7 DEF DaggerRound, Inv, CorpusSplit, RowsSeen,
                                           ReportClean
<1>13. ASSUME NEW c \in Corpora, NEW b \in bundles, Evaluate(c, b) PROVE Inv'
  <2>1. b \in Bundle /\ corpus[c]["test"] \subseteq OfSplit("test")
        BY <1>0 DEF BundlesSeen, CorpusSplit, Splits
  <2>2. ReportClean'
        BY <1>13, <2>1 DEF Evaluate, ReportClean
  <2>3. QED BY <1>0, <1>13, <2>2 DEF Evaluate, Inv, CorpusSplit, RowsSeen, RoundsSeen,
                                     BundlesSeen, DaggerSeen
<1>14. CASE UNCHANGED vars
  BY <1>0, <1>14 DEF vars, Inv, CorpusSplit, RowsSeen, RoundsSeen, BundlesSeen,
                     DaggerSeen, ReportClean
<1>15. QED BY <1>1, <1>2, <1>3, <1>4, <1>5, <1>6, <1>7, <1>8, <1>9, <1>10, <1>11,
              <1>12, <1>13, <1>14 DEF Next

\* The invariant holds of an empty data directory.
LEMMA InitClean == Init => Inv
<1> SUFFICES ASSUME Init PROVE Inv
    OBVIOUS
<1>1. CorpusSplit BY DEF Init, CorpusSplit
<1>2. RowsSeen BY DEF Init, RowsSeen
<1>3. RoundsSeen BY DEF Init, RoundsSeen, Bundle, Student
<1>4. QED BY <1>1, <1>2, <1>3 DEF Init, Inv, BundlesSeen, DaggerSeen, ReportClean

\* Every file keeps to names of the corpus.
THEOREM PipelineTypeCorrect == ASSUME Disciplined PROVE Spec => []TypeOK
<1>1. Inv => TypeOK
  BY DEF Inv, TypeOK, CorpusSplit, RowsSeen, RoundsSeen, BundlesSeen, DaggerSeen,
         ReportClean, Bundle, Trainable, OfSplit
<1>2. QED BY <1>1, InitClean, NextClean, PTL DEF Spec

\* No student is scored on a scenario it was trained or tuned on.
THEOREM ScoredOnUnseen == ASSUME Disciplined PROVE Spec => []EvaluatedClean
<1>1. Inv => EvaluatedClean
  BY TestNotTrainable DEF Inv, ReportClean, EvaluatedClean, Bundle
<1>2. QED BY <1>1, InitClean, NextClean, PTL DEF Spec
=============================================================================
