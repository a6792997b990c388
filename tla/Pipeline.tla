------------------------------ MODULE Pipeline ------------------------------
(***************************************************************************)
(* From scenarios to a reported number: the files the training scripts     *)
(* leave on disk and read from each other.  Every script is run by hand,   *)
(* in any order and more than once, from an environment of its own; what   *)
(* is tracked of a file is which scenarios its rows come from.  A file     *)
(* that is missing and one with no rows are both {}.                       *)
(***************************************************************************)
EXTENDS Naturals

CONSTANTS
    Names,      \* scenarios that corpus.validate accepts
    Family,     \* the family of each
    Bucket,     \* the split the hash of each name falls into
    HoldOuts,   \* values of HOLD_OUT_FAMILY scripts are run with; "" holds out none
    LlmSplits,  \* values of --split that llm_traces_to_rows is given
    Corpora,    \* corpus directories: data/corpus, data/corpus_all
    Rounds,     \* DAgger rounds
    None

Splits == {"train", "val", "test"}

ASSUME PipelineAssumption ==
    /\ Bucket \in [Names -> Splits]
    /\ LlmSplits \subseteq Splits \cup {"any"}
    /\ Rounds \in Nat

VARIABLES
    corpus,     \* scenario files of each directory and split
    traces,     \* names with rows in each row file
    rounds,     \* names with rows in _r{k}/train.jsonl and _r{k}/val.jsonl
    flown,      \* names with a trace of an LLM episode
    bundles,    \* students on disk, each by the names it was trained and tuned on
    dagger,     \* the DAgger run in progress: its next round and its scenario files
    report      \* the last evaluation: the student and the scenarios it was scored on

vars == <<corpus, traces, rounds, flown, bundles, dagger, report>>

Files == ({"refsim", "ns3"} \X {"train", "val"})
           \cup {<<"bridge", "train">>, <<"llm", "train">>}

\* The files filter_traces scans when it is given none.
DefaultFiles == Files \ {<<"llm", "train">>}

Student(train, val) == [train |-> train, val |-> val]

Init ==
    /\ corpus = [c \in Corpora |-> [s \in Splits |-> {}]]
    /\ traces = [f \in Files |-> {}]
    /\ rounds = [k \in 1 .. Rounds |-> Student({}, {})]
    /\ flown = {}
    /\ bundles = {}
    /\ dagger = None
    /\ report = None

-----------------------------------------------------------------------------
(* The split.  hold is the HOLD_OUT_FAMILY of the process that asks.       *)

IsHeldOut(n, hold) == hold # "" /\ Family[n] = hold

\* A slip: the hold-out is forgotten.
SplitSlip(n, hold) == Bucket[n]

\* split.split_of.
Split(n, hold) == IF IsHeldOut(n, hold) THEN "test" ELSE Bucket[n]

\* corpus.build has a copy of its own.
BuiltSplit(n, hold) == IF IsHeldOut(n, hold) THEN "test" ELSE Bucket[n]

-----------------------------------------------------------------------------
(* Scenarios and rows.                                                     *)

\* corpus.py: a scenario of each chosen name is written to the directory of its
\* split.  The directory is not emptied first.
Build(c, hold) ==
    /\ \E new \in SUBSET Names :
          corpus' = [corpus EXCEPT ![c] =
                       [s \in Splits |-> @[s] \cup {n \in new : BuiltSplit(n, hold) = s}]]
    /\ UNCHANGED <<traces, rounds, flown, bundles, dagger, report>>

\* gen_traces.py: the episodes that rejection sampling keeps; with --agent llm
\* each one flown also leaves a trace.
GenTraces(c, s) ==
    /\ \E kept \in SUBSET corpus[c][s] :
          traces' = [traces EXCEPT ![<<"refsim", s>>] = kept]
    /\ \E asked \in {{}, corpus[c][s]} : flown' = flown \cup asked
    /\ UNCHANGED <<corpus, rounds, bundles, dagger, report>>

\* gen_ns3_corpus.py and reextract_ns3.py: the episodes whose simulation ended,
\* or whose cached output can still be read.
GenNs3(c, s) ==
    /\ \E ok \in SUBSET corpus[c][s] :
          traces' = [traces EXCEPT ![<<"ns3", s>>] = ok]
    /\ UNCHANGED <<corpus, rounds, flown, bundles, dagger, report>>

\* bridge_dagger.py: the first scenarios of the directory, flown live by a student.
BridgeDagger(c) ==
    /\ bundles # {}
    /\ \E ok \in SUBSET corpus[c]["train"] :
          traces' = [traces EXCEPT ![<<"bridge", "train">>] = ok]
    /\ UNCHANGED <<corpus, rounds, flown, bundles, dagger, report>>

\* run_llm.py makes its own scenarios, valid ones of every split: the teacher's
\* column of the table needs them.
FlyTeacher ==
    /\ \E n \in Names \ flown : flown' = flown \cup {n}
    /\ UNCHANGED <<corpus, traces, rounds, bundles, dagger, report>>

\* llm_traces_to_rows.py.
LlmRows(s, hold) ==
    /\ flown # {}
    /\ traces' = [traces EXCEPT ![<<"llm", "train">>] =
                     {n \in flown : s = "any" \/ Split(n, hold) = s}]
    /\ UNCHANGED <<corpus, rounds, flown, bundles, dagger, report>>

\* filter_traces.py --write --in-place, for one of its files.
FilterTraces(f, hold) ==
    /\ traces[f] # {}
    /\ traces' = [traces EXCEPT ![f] = {n \in @ : Split(n, hold) # "test"}]
    /\ UNCHANGED <<corpus, rounds, flown, bundles, dagger, report>>

-----------------------------------------------------------------------------
(* Training.  A script that finds no training or no validation rows stops. *)

Train(train, val) ==
    /\ train # {} /\ val # {}
    /\ bundles' = bundles \cup {Student(train, val)}

\* train_student.py.
TrainStudent ==
    /\ Train(traces[<<"refsim", "train">>], traces[<<"refsim", "val">>])
    /\ UNCHANGED <<corpus, traces, rounds, flown, dagger, report>>

\* train_mixed.py: the rows of the first DAgger round that the base does not have
\* are added to it, so of a scenario in both one row or the other is used.
TrainMixed ==
    /\ LET round1 == IF Rounds = 0 THEN {} ELSE rounds[1].train
       IN  Train(traces[<<"refsim", "train">>] \cup round1
                   \cup traces[<<"ns3", "train">>] \cup traces[<<"bridge", "train">>]
                   \cup traces[<<"llm", "train">>],
                 traces[<<"refsim", "val">>] \cup traces[<<"ns3", "val">>])
    /\ UNCHANGED <<corpus, traces, rounds, flown, dagger, report>>

\* calibrate_abstain.py --write: the threshold is patched into the bundle.
Calibrate(b) ==
    /\ traces[<<"ns3", "val">>] # {}
    /\ bundles' = (bundles \ {b})
                     \cup {Student(b.train, b.val \cup traces[<<"ns3", "val">>])}
    /\ UNCHANGED <<corpus, traces, rounds, flown, dagger, report>>

\* dagger.main lists its scenarios once, before the first round.
StartDagger(c) ==
    /\ dagger = None /\ bundles # {} /\ Rounds > 0
    /\ dagger' = [next |-> 1, files |-> corpus[c]["train"]]
    /\ UNCHANGED <<corpus, traces, rounds, flown, bundles, report>>

\* A round: the student is rolled out, some of the states it reached relabelled,
\* and their union with the base and the earlier rounds moved into place with the
\* validation rows; an earlier run's stay when there are none to copy.
\* Training is the last step of the round and ends the run when it fails.
DaggerRound ==
    /\ dagger # None
    /\ LET k == dagger.next
           val == traces[<<"refsim", "val">>]
       IN  /\ \E relabelled \in SUBSET dagger.files :
                 rounds' = [rounds EXCEPT ![k] = Student(
                     traces[<<"refsim", "train">>] \cup relabelled
                        \cup UNION {rounds[j].train : j \in 1 .. (k - 1)},
                     IF val = {} THEN @.val ELSE val)]
           /\ \/ /\ Train(rounds'[k].train, rounds'[k].val)
                 /\ dagger' = IF k = Rounds THEN None ELSE [dagger EXCEPT !.next = k + 1]
              \/ /\ bundles' = bundles
                 /\ dagger' = None
    /\ UNCHANGED <<corpus, traces, flown, report>>

-----------------------------------------------------------------------------
\* evaluate.py: the student flies scenarios of a test directory.
Evaluate(c, b) ==
    /\ \E tested \in SUBSET corpus[c]["test"] :
          /\ tested # {}
          /\ report' = [student |-> b, tested |-> tested]
    /\ UNCHANGED <<corpus, traces, rounds, flown, bundles, dagger>>

Next ==
    \/ \E c \in Corpora :
          \/ \E hold \in HoldOuts : Build(c, hold)
          \/ \E s \in {"train", "val"} : GenTraces(c, s) \/ GenNs3(c, s)
          \/ BridgeDagger(c)
          \/ StartDagger(c)
          \/ \E b \in bundles : Evaluate(c, b)
    \/ \E hold \in HoldOuts :
          \/ \E s \in LlmSplits : LlmRows(s, hold)
          \/ \E f \in DefaultFiles : FilterTraces(f, hold)
    \/ FlyTeacher
    \/ TrainStudent
    \/ TrainMixed
    \/ \E b \in bundles : Calibrate(b)
    \/ DaggerRound

Spec == Init /\ [][Next]_vars

-----------------------------------------------------------------------------
TypeOK ==
    /\ corpus \in [Corpora -> [Splits -> SUBSET Names]]
    /\ traces \in [Files -> SUBSET Names]
    /\ rounds \in [1 .. Rounds -> [train : SUBSET Names, val : SUBSET Names]]
    /\ flown \subseteq Names
    /\ bundles \subseteq [train : SUBSET Names, val : SUBSET Names]
    /\ dagger = None \/ dagger \in [next : 1 .. Rounds, files : SUBSET Names]
    /\ \/ report = None
       \/ report \in [student : [train : SUBSET Names, val : SUBSET Names],
                      tested : SUBSET Names]

\* No scenario the student is scored on has been used to train it or to tune its
\* threshold (split.py 53-61, Makefile gate G4), whatever the order in which the
\* scripts were run.
EvaluatedClean ==
    report # None =>
        report.tested \cap (report.student.train \cup report.student.val) = {}
=============================================================================
