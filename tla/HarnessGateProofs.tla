-------------------------- MODULE HarnessGateProofs --------------------------
(***************************************************************************)
(* Theorems about the event gate, for every panel, mask, answer, heartbeat *)
(* and call budget.                                                        *)
(***************************************************************************)
EXTENDS HarnessGate, TLAPS

\* The assumption, with the intervals of the counters in mind.
LEMMA Naturals ==
    /\ Heartbeat \in Nat /\ Heartbeat > 0 /\ MaxCalls \in Nat /\ MaxCalls > 0
    /\ Ticks \in Nat /\ Novelty \in Nat /\ Novelty > 0
    /\ None \notin Panels /\ None \notin Calls
  BY HarnessAssumption

\* no_op is a call of the contract.
LEMMA NoOpIsCall == "no_op" \in Calls
  BY DEF Calls, Always

\* What an answer is turned into is a call of the contract, and one of the mask
\* unless it is no_op.
LEMMA ValidatedIsCall ==
    ASSUME NEW call, NEW avail
    PROVE  /\ Validated(call, avail) \in Calls
           /\ Validated(call, avail) # "no_op" => Validated(call, avail) \in avail
  BY NoOpIsCall DEF Validated

\* The values an episode starts with are typed.
LEMMA FreshTyped ==
    /\ 0 \in 0..Ticks /\ 0 \in 0..MaxCalls /\ 0 \in 0..(Heartbeat - 1) /\ 0 \in Nat
    /\ None \in Panels \cup {None} /\ {} \in Masks \cup {{}}
    /\ None \in Calls \cup {None} /\ "no_op" \in Calls /\ FALSE \in BOOLEAN
    /\ "start" \in {"start", "quiet", "stable", "asked"}
<1>1. 0 \in 0..Ticks /\ 0 \in 0..MaxCalls /\ 0 \in 0..(Heartbeat - 1) /\ 0 \in Nat
      BY Naturals
<1>2. QED BY <1>1, NoOpIsCall

\* Every step keeps the state typed: the runs stay below the heartbeat and the
\* questions within the cap, because the gate looks at both before it holds.
LEMMA NextTyped == TypeOK /\ [Next]_vars => TypeOK'
<1> SUFFICES ASSUME TypeOK, [Next]_vars PROVE TypeOK'
    OBVIOUS
<1> USE DEF TypeOK
<1>1. ASSUME NEW well, HoldQuiet(well) PROVE TypeOK'
  <2>1. (step \in 0..Ticks /\ quietRun \in 0..(Heartbeat - 1) /\ silent \in Nat)'
        BY <1>1, Naturals DEF HoldQuiet, Turn, QuietHold, Hold
  <2>2. issued' \in Calls /\ did' = "quiet"
        BY <1>1, NoOpIsCall DEF HoldQuiet, Hold
  <2>3. QED BY <1>1, <2>1, <2>2 DEF HoldQuiet, Hold, last
<1>2. ASSUME NEW p \in Panels, NEW well, NEW avail \in Masks, HoldStable(p, well, avail)
      PROVE  TypeOK'
  <2>1. (step \in 0..Ticks /\ silent \in Nat)'
        BY <1>2, Naturals DEF HoldStable, Turn, Hold
  <2>2. (quietRun \in 0..(Heartbeat - 1) /\ stableRun \in 0..(Heartbeat - 1))'
        BY <1>2, Naturals DEF HoldStable, StableHold, runs
  <2>3. issued' \in Calls /\ did' = "stable" /\ lastPanel' = p /\ lastAvail' = avail
        BY <1>2, NoOpIsCall DEF HoldStable, Hold
  <2>4. QED BY <1>2, <2>1, <2>2, <2>3 DEF HoldStable, Hold
<1>3. ASSUME NEW p \in Panels, NEW well, NEW avail \in Masks, Question(p, well, avail),
             issued' \in Calls, lastDecision' \in Calls \cup {None}, records' \in Nat,
             raised' \in BOOLEAN
      PROVE  TypeOK'
  <2>1. (step \in 0..Ticks /\ asked \in 0..MaxCalls)'
        BY <1>3, Naturals DEF Question, Turn, Capped
  <2>2. (quietRun \in 0..(Heartbeat - 1) /\ stableRun \in 0..(Heartbeat - 1))'
        BY <1>3, Naturals DEF Question
  <2>3. silent' \in Nat /\ did' = "asked" /\ lastPanel' = p /\ lastAvail' = avail
        /\ askedPanel' = p
        BY <1>3 DEF Question
  <2>4. QED BY <1>3, <2>1, <2>2, <2>3
<1>4. ASSUME NEW p \in Panels, NEW well, NEW avail \in Masks, NEW call \in Requests,
             Answered(p, well, avail, call)
      PROVE  TypeOK'
      BY <1>3, <1>4, ValidatedIsCall DEF Answered, Conclude
<1>5. ASSUME NEW p \in Panels, NEW well, NEW avail \in Masks, Abstained(p, well, avail)
      PROVE  TypeOK'
      BY <1>3, <1>5, NoOpIsCall DEF Abstained, Conclude
<1>6. ASSUME NEW p \in Panels, NEW well, NEW avail \in Masks, Malformed(p, well, avail)
      PROVE  TypeOK'
      BY <1>3, <1>6, NoOpIsCall DEF Malformed
<1>7. ASSUME SetEpisode PROVE TypeOK'
      BY <1>7, FreshTyped DEF SetEpisode
<1>8. ASSUME UNCHANGED vars PROVE TypeOK'
      BY <1>8 DEF vars, runs, last
<1>9. QED BY <1>1, <1>2, <1>4, <1>5, <1>6, <1>7, <1>8 DEF Next, Decide

\* The initial state is typed.
LEMMA InitTyped == Init => TypeOK
  BY FreshTyped DEF Init, TypeOK

\* Every variable of the gate keeps its type; the counters keep their bounds.
THEOREM GateTypeCorrect == Spec => []TypeOK
  BY InitTyped, NextTyped, PTL DEF Spec

-----------------------------------------------------------------------------
(* When the model is asked. *)

\* Before the first answer the ticks without a question are the quiet run, after
\* it they are the stable run; an episode that asked has an answer, or is over.
GateInv ==
    /\ asked > 0 /\ ~raised => lastDecision # None
    /\ lastPanel # None /\ ~raised => lastDecision # None
    /\ did = "stable" => lastDecision # None
    /\ ~raised /\ asked < MaxCalls
         => silent = IF lastDecision = None THEN quietRun ELSE stableRun
    /\ raised => silent = 0
    /\ lastDecision = None /\ ~raised => stableRun = 0

\* The initial state has it.
LEMMA GateInit == Init => GateInv
  BY DEF Init, GateInv

\* A question, whatever comes of it, starts the silence again.
LEMMA QuestionStep ==
    ASSUME TypeOK, GateInv, NEW p \in Panels, NEW well, NEW avail,
           Question(p, well, avail), raised' \/ lastDecision' # None
    PROVE  GateInv'
<1>1. /\ silent' = 0 /\ did' = "asked" /\ quietRun' = 0
      /\ lastPanel' = p
      BY DEF Question
<1>2. stableRun' = 0
  <2>1. ~raised BY DEF Question, Turn
  <2>2. CASE NothingWrong(well) BY <2>1, <2>2 DEF Question, NothingWrong, GateInv
  <2>3. CASE ~NothingWrong(well) BY <2>3 DEF Question
  <2>4. QED BY <2>2, <2>3
<1>3. QED BY <1>1, <1>2 DEF GateInv

\* Every step keeps it.
LEMMA GateStep == TypeOK /\ GateInv /\ [Next]_vars => GateInv'
<1> SUFFICES ASSUME TypeOK, GateInv, [Next]_vars PROVE GateInv'
    OBVIOUS
<1>1. ASSUME NEW well, HoldQuiet(well) PROVE GateInv'
  <2>1. ~raised /\ lastDecision = None /\ asked < MaxCalls
        BY <1>1, Naturals DEF HoldQuiet, Turn, QuietHold, Capped, NothingWrong, TypeOK
  <2>2. /\ quietRun' = quietRun + 1 /\ silent' = silent + 1 /\ did' = "quiet"
        /\ UNCHANGED <<asked, lastDecision, raised, stableRun, lastPanel>>
        BY <1>1 DEF HoldQuiet, Hold, last
  <2>3. QED BY <2>1, <2>2 DEF GateInv
<1>2. ASSUME NEW p, NEW well, NEW avail, HoldStable(p, well, avail) PROVE GateInv'
  <2>1. ~raised BY <1>2 DEF HoldStable, Turn
  <2>2. lastDecision # None
    <3>1. CASE Capped
      <4>1. asked > 0 BY <3>1, Naturals DEF Capped, TypeOK
      <4>2. QED BY <4>1, <2>1 DEF GateInv
    <3>2. CASE StableHold(p, well, avail)
          BY <2>1, <3>2 DEF StableHold, NothingNew, GateInv
    <3>3. QED BY <1>2, <3>1, <3>2 DEF HoldStable
  <2>3. /\ silent' = silent + 1 /\ did' = "stable"
        /\ UNCHANGED <<asked, lastDecision, raised>>
        BY <1>2 DEF HoldStable, Hold
  <2>4. asked < MaxCalls => stableRun' = stableRun + 1
        BY <1>2, Naturals DEF HoldStable, Capped, TypeOK
  <2>5. QED BY <2>1, <2>2, <2>3, <2>4 DEF GateInv
<1>3. ASSUME NEW p \in Panels, NEW well, NEW avail, NEW call,
             Question(p, well, avail), Conclude(call), call \in Calls
      PROVE  GateInv'
      BY <1>3, QuestionStep, Naturals DEF Conclude
<1>4. ASSUME NEW p \in Panels, NEW well, NEW avail, Malformed(p, well, avail)
      PROVE  GateInv'
      BY <1>4, QuestionStep DEF Malformed
<1>5. ASSUME SetEpisode PROVE GateInv'
      BY <1>5 DEF SetEpisode, GateInv
<1>6. ASSUME UNCHANGED vars PROVE GateInv'
      BY <1>6 DEF vars, runs, last, GateInv
<1>7. QED
  BY <1>1, <1>2, <1>3, <1>4, <1>5, <1>6, NoOpIsCall, ValidatedIsCall
  DEF Next, Decide, Answered, Abstained

\* Whatever the panels, masks and answers: a belief that is held was formed in
\* this episode, and until the cap the model is asked at least once in every
\* heartbeat_ticks decisions.
THEOREM NeverForgotten == Spec => [](HoldHasBelief /\ NeverSilentForLong)
<1>1. TypeOK /\ GateInv => HoldHasBelief /\ NeverSilentForLong
  <2> SUFFICES ASSUME TypeOK, GateInv PROVE HoldHasBelief /\ NeverSilentForLong
      OBVIOUS
  <2>1. HoldHasBelief BY DEF GateInv, HoldHasBelief
  <2>2. asked < MaxCalls => silent < Heartbeat
    <3>1. quietRun < Heartbeat /\ stableRun < Heartbeat BY Naturals DEF TypeOK
    <3>2. CASE raised BY <3>2, Naturals DEF GateInv
    <3>3. CASE ~raised BY <3>1, <3>3 DEF GateInv
    <3>4. QED BY <3>2, <3>3
  <2>3. QED BY <2>1, <2>2 DEF NeverSilentForLong
<1>2. QED BY GateInit, GateStep, GateTypeCorrect, <1>1, PTL DEF Spec

-----------------------------------------------------------------------------
(* How stale a held belief can be. *)

\* One more step of at most k makes n steps of at most k into n + 1 of them.
LEMMA OneMoreStep ==
    ASSUME NEW a \in Int, NEW b \in Int, NEW c \in Int, NEW n \in Nat, NEW k \in Nat,
           Abs(a - b) <= n * k, Abs(c - a) <= k
    PROVE  Abs(c - b) <= (n + 1) * k
<1>1. Abs(c - b) <= Abs(c - a) + Abs(a - b) BY DEF Abs
<1>2. n * k \in Nat /\ (n + 1) * k = n * k + k OBVIOUS
<1>3. Abs(c - a) \in Int /\ Abs(a - b) \in Int /\ Abs(c - b) \in Int BY DEF Abs
<1>4. QED BY <1>1, <1>2, <1>3

Drift == \A f \in Features :
            Abs(lastPanel[f] - askedPanel[f]) <= stableRun * (Novelty - 1)

\* The bound holds from the question on, not only on held ticks.
StaleInv ==
    /\ asked > 0 => lastPanel # None
    /\ lastPanel # None => askedPanel # None
    /\ lastPanel # None /\ asked < MaxCalls => Drift
    /\ did = "stable" => lastPanel # None

\* A panel is no distance away from itself.
LEMMA NoDrift ==
    ASSUME NEW p \in Panels, NEW f \in Features, NEW n \in Nat
    PROVE  Abs(p[f] - p[f]) <= n * (Novelty - 1)
<1>1. p[f] \in Int BY HarnessAssumption
<1>2. Abs(p[f] - p[f]) = 0 BY <1>1 DEF Abs
<1>3. n * (Novelty - 1) \in Nat
  <2>1. Novelty - 1 \in Nat BY Naturals
  <2>2. QED BY <2>1
<1>4. QED BY <1>2, <1>3

\* A stable hold lengthens the drift by less than one gate.
LEMMA DriftStep ==
    ASSUME TypeOK, StaleInv, NEW p \in Panels, NEW well, NEW avail,
           HoldStable(p, well, avail), asked < MaxCalls
    PROVE  Drift'
<1>1. /\ StableHold(p, well, avail) /\ stableRun' = stableRun + 1
      /\ lastPanel' = p /\ askedPanel' = askedPanel
      BY Naturals DEF HoldStable, Hold, Capped, TypeOK
<1>2. lastPanel \in Panels /\ askedPanel \in Panels /\ Drift /\ Near(p, lastPanel)
      BY <1>1 DEF StableHold, NothingNew, StaleInv, TypeOK
<1>3. ASSUME NEW f \in Features
      PROVE  Abs(p[f] - askedPanel[f]) <= (stableRun + 1) * (Novelty - 1)
  <2>1. p[f] \in Int /\ lastPanel[f] \in Int /\ askedPanel[f] \in Int
        BY <1>2, HarnessAssumption
  <2>2. Abs(p[f] - lastPanel[f]) \in Int BY <2>1 DEF Abs
  <2>3. Abs(p[f] - lastPanel[f]) <= Novelty - 1
        BY <1>2, <2>2, Naturals DEF Near
  <2>4. Abs(lastPanel[f] - askedPanel[f]) <= stableRun * (Novelty - 1)
        BY <1>2 DEF Drift
  <2>5. Novelty - 1 \in Nat /\ stableRun \in Nat BY Naturals DEF TypeOK
  <2>6. QED BY <2>1, <2>3, <2>4, <2>5, OneMoreStep
<1>4. QED BY <1>1, <1>3 DEF Drift

\* Every step keeps the bound.
LEMMA StaleStep == TypeOK /\ StaleInv /\ [Next]_vars => StaleInv'
<1> SUFFICES ASSUME TypeOK, StaleInv, [Next]_vars PROVE StaleInv'
    OBVIOUS
<1>1. ASSUME NEW well, HoldQuiet(well) PROVE StaleInv'
      BY <1>1 DEF HoldQuiet, Hold, last, StaleInv, Drift
<1>2. ASSUME NEW p \in Panels, NEW well, NEW avail, HoldStable(p, well, avail)
      PROVE  StaleInv'
  <2>1. lastPanel' = p /\ UNCHANGED <<asked, askedPanel>> BY <1>2 DEF HoldStable, Hold
  <2>2. asked < MaxCalls => Drift' BY <1>2, DriftStep
  <2>3. p # None BY Naturals
  <2>4. lastPanel # None
        BY <1>2, Naturals
        DEF HoldStable, StableHold, NothingNew, Capped, StaleInv, TypeOK
  <2>5. QED BY <2>1, <2>2, <2>3, <2>4 DEF StaleInv
<1>3. ASSUME NEW p \in Panels, NEW well, NEW avail, Question(p, well, avail)
      PROVE  StaleInv'
  <2>1. lastPanel' = p /\ askedPanel' = p /\ did' = "asked" /\ p # None
        BY <1>3, Naturals DEF Question
  <2>2. stableRun' \in Nat BY <1>3, Naturals DEF Question, TypeOK
  <2>3. Drift' BY <2>1, <2>2, NoDrift DEF Drift
  <2>4. QED BY <2>1, <2>3 DEF StaleInv
<1>4. ASSUME SetEpisode PROVE StaleInv'
      BY <1>4 DEF SetEpisode, StaleInv
<1>5. ASSUME UNCHANGED vars PROVE StaleInv'
      BY <1>5 DEF vars, runs, last, StaleInv, Drift
<1>6. QED
  BY <1>1, <1>2, <1>3, <1>4, <1>5 DEF Next, Decide, Answered, Abstained, Malformed

\* Until the cap, a held belief is about a panel less than one novelty gate per
\* held tick away from the present one.
THEOREM HeldBeliefIsNear == Spec => []StalenessBounded
<1>1. Init => StaleInv BY DEF Init, StaleInv
<1>2. StaleInv => StalenessBounded BY DEF StaleInv, StalenessBounded, Drift
<1>3. QED BY <1>1, <1>2, StaleStep, GateTypeCorrect, PTL DEF Spec

-----------------------------------------------------------------------------
(* What leaves the agent, and what it leaves in the trace. *)

\* Each decision of either kind of hold, of a question, of a new episode keeps
\* both facts; they need no strengthening.
LEMMA AccountStep ==
    TypeOK /\ CallIsFresh /\ OneRecordPerQuestion /\ [Next]_vars
        => CallIsFresh' /\ OneRecordPerQuestion'
<1> SUFFICES ASSUME TypeOK, CallIsFresh, OneRecordPerQuestion, [Next]_vars
             PROVE  CallIsFresh' /\ OneRecordPerQuestion'
    OBVIOUS
<1>1. ASSUME NEW p, NEW well, NEW avail, HoldQuiet(well) \/ HoldStable(p, well, avail)
      PROVE  CallIsFresh' /\ OneRecordPerQuestion'
  <2>1. issued' = "no_op" /\ UNCHANGED <<asked, records, raised>>
        BY <1>1 DEF HoldQuiet, HoldStable, Hold
  <2>2. QED BY <2>1 DEF CallIsFresh, OneRecordPerQuestion
<1>2. ASSUME NEW p, NEW well, NEW avail, NEW call, Question(p, well, avail),
             Conclude(call), call # "no_op" => call \in avail
      PROVE  CallIsFresh' /\ OneRecordPerQuestion'
  <2>1. /\ issued' = call /\ did' = "asked" /\ lastAvail' = avail
        /\ asked' = asked + 1 /\ records' = records + 1 /\ raised' = raised /\ ~raised
        BY <1>2 DEF Question, Turn, Conclude
  <2>2. CallIsFresh' BY <1>2, <2>1 DEF CallIsFresh
  <2>3. asked = records BY <2>1, Naturals DEF OneRecordPerQuestion, TypeOK
  <2>4. QED BY <2>1, <2>2, <2>3 DEF OneRecordPerQuestion
<1>3. ASSUME NEW p, NEW well, NEW avail, Malformed(p, well, avail)
      PROVE  CallIsFresh' /\ OneRecordPerQuestion'
  <2>1. /\ issued' = "no_op" /\ raised' = TRUE /\ ~raised
        /\ asked' = asked + 1 /\ records' = records
        BY <1>3 DEF Malformed, Question, Turn
  <2>2. asked = records BY <2>1, Naturals DEF OneRecordPerQuestion, TypeOK
  <2>3. QED BY <2>1, <2>2 DEF CallIsFresh, OneRecordPerQuestion
<1>4. ASSUME SetEpisode PROVE CallIsFresh' /\ OneRecordPerQuestion'
      BY <1>4 DEF SetEpisode, CallIsFresh, OneRecordPerQuestion
<1>5. ASSUME UNCHANGED vars PROVE CallIsFresh' /\ OneRecordPerQuestion'
      BY <1>5 DEF vars, last, CallIsFresh, OneRecordPerQuestion
<1>6. QED
  BY <1>1, <1>2, <1>3, <1>4, <1>5, ValidatedIsCall DEF Next, Decide, Answered, Abstained

\* Whatever the model answers and however often it fails: a call was asked for on
\* the tick it is issued and is in its mask, and each question has its record.
THEOREM AnswersAccounted == Spec => [](CallIsFresh /\ OneRecordPerQuestion)
<1>1. Init => CallIsFresh /\ OneRecordPerQuestion
      BY DEF Init, CallIsFresh, OneRecordPerQuestion
<1>2. QED BY <1>1, AccountStep, GateTypeCorrect, PTL DEF Spec

\* Every question leaves one record in the trace, failed ones included, but for the one
\* that raises and ends the episode, for every cadence and however the client fails.
THEOREM QuestionsRecorded == Spec => []OneRecordPerQuestion
  BY AnswersAccounted, PTL
=============================================================================
