-------------------------- MODULE ControllerProofs --------------------------
(***************************************************************************)
(* Theorems about the controller, for every model, world, budget and time  *)
(* constant.  Each step of the loop is Observe, which moves the clock and  *)
(* the percept, and one branch, which moves the rest.                      *)
(***************************************************************************)
EXTENDS Controller, TLAPS

EnvP == INSTANCE EnvelopeProofs WITH alarmed <- onset # None

\* The arithmetic part of the assumption on the constants.
LEMMA Naturals ==
    /\ Steps \in Nat /\ DecisionEvery \in Nat /\ DecisionEvery > 0
    /\ RecoveryHold \in Nat /\ NoLinkDeclare \in Nat /\ NoLinkDeclare > 0
    /\ RecoveryTimeout \in Nat /\ None \notin Nat /\ Pdr \subseteq Nat
  BY ControllerAssumption DEF Times

(* Type correctness, one lemma per group of variables. *)

\* Observing a sample keeps the clock and the percept typed.
LEMMA ObserveTyped ==
    ASSUME TypeOK, NEW p \in Pdr, Observe(p)
    PROVE  PerceptOK'
<1> USE Naturals DEF TypeOK, PerceptOK, Observe
<1>1. (step \in 0..Steps /\ phase \in 0..(DecisionEvery - 1))'
      BY DEF NextPhase
<1>2. (pdr \in Pdr)'
      OBVIOUS
<1>3. (noLinkFor \in 0..step)'
      OBVIOUS
<1>4. (baseline \in Pdr \cup {None} /\ onset \in Nat \cup {None})'
      OBVIOUS
<1>5. QED BY <1>1, <1>2, <1>3, <1>4

\* The end of a decision tick keeps the recovery bookkeeping typed.
LEMMA VerifyTyped == ASSUME TypeOK, VerifyRecovery PROVE RecoveryOK'
  BY Naturals DEF TypeOK, PerceptOK, RecoveryOK, VerifyRecovery

\* A call of the contract keeps the ladder statistic within the ladder.
LEMMA RaiseTyped == ASSUME rung \in 0..7, NEW c, Raise(c) PROVE rung' \in 0..7
<1>1. \A k \in DOMAIN Ladder : Ladder[k] \in 0..7
      BY DEF Ladder
<1>2. QED BY <1>1 DEF Raise

\* Applying a call keeps the ledger and the refusal typed: each counter it
\* raises stays a natural number.
LEMMA ApplyTyped ==
    ASSUME TypeOK, NEW c, Apply(c)
    PROVE  LedgerOK' /\ RefusalOK'
<1>0. used \in Env!Spend
      BY DEF TypeOK, LedgerOK
<1>1. /\ used.scans + 1 \in Nat /\ used.silent + 1 \in Nat /\ used.hops + 1 \in Nat
      /\ used.moves + 1 \in Nat /\ used.lora + 1 \in Nat
      /\ used.costly + 1 \in Nat /\ used.costly + 2 \in Nat
      BY <1>0 DEF Env!Spend
<1>2. step \in Nat
      BY Naturals DEF TypeOK, PerceptOK
<1> USE DEF TypeOK, LedgerOK, RefusalOK
<1>3. CASE ApplyFree(c) BY <1>3 DEF ApplyFree, ledger, refusal
<1>4. CASE ApplyScan(c) BY <1>1, <1>2, <1>4 DEF ApplyScan, refusal, Env!Spend
<1>5. CASE ApplySilent(c) BY <1>1, <1>5 DEF ApplySilent, refusal, Env!Spend
<1>6. CASE ApplyHop(c) BY <1>1, <1>6 DEF ApplyHop, refusal, Env!Spend
<1>7. CASE ApplyMove(c) BY <1>1, <1>7 DEF ApplyMove, refusal, Env!Spend
<1>8. CASE ApplyLora(c) BY <1>1, <1>8 DEF ApplyLora, refusal, Env!Spend
<1>9. CASE ApplyDeclare(c) BY <1>2, <1>9 DEF ApplyDeclare, DeclareLost, ledger
<1>10. QED BY <1>3, <1>4, <1>5, <1>6, <1>7, <1>8, <1>9, Apply(c) DEF Apply

\* The initial state is typed.
LEMMA InitTyped == Init => TypeOK
<1> SUFFICES ASSUME Init PROVE TypeOK
    OBVIOUS
<1>00. rung \in 0..7
  <2>1. rung = 0 BY DEF Init
  <2>2. QED BY <2>1
<1>0. step = 0 /\ phase = 0 /\ pdr \in Pdr /\ noLinkFor = 0
      BY DEF Init
<1>1. PerceptOK
  <2>1. baseline = None /\ onset = None BY DEF Init
  <2>2. QED BY <1>0, <2>1, Naturals DEF PerceptOK
<1> USE DEF Init
<1>2. LedgerOK BY DEF LedgerOK, Env!Spend, Env!NothingSpent
<1>3. MemoryOK
  <2>1. tried = {} /\ hung = FALSE OBVIOUS
  <2>3. hung \in BOOLEAN BY <2>1
  <2>4. tried \subseteq Hypotheses \X Remedies
        BY <2>1
  <2>5. QED BY <1>00, <2>3, <2>4 DEF MemoryOK
<1>4. RefusalOK BY DEF RefusalOK
<1>5. RecoveryOK BY DEF RecoveryOK
<1>6. QED BY <1>1, <1>2, <1>3, <1>4, <1>5 DEF TypeOK

\* Every branch of an iteration keeps the state typed.
LEMMA NextTyped == TypeOK /\ [Next]_vars => TypeOK'
<1> SUFFICES ASSUME TypeOK, [Next]_vars PROVE TypeOK'
    OBVIOUS
<1> USE DEF TypeOK
<1>1. ASSUME NEW p \in Pdr, Watch(p) PROVE TypeOK'
  <2>1. PerceptOK' BY <1>1, ObserveTyped DEF Watch
  <2>2. (LedgerOK /\ MemoryOK /\ RefusalOK /\ RecoveryOK)'
        BY <1>1 DEF Watch, LedgerOK, MemoryOK, RefusalOK, RecoveryOK, ledger, refusal,
                    recovery
  <2>3. QED BY <2>1, <2>2
<1>2. ASSUME NEW p \in Pdr, FailsafeDeclare(p) PROVE TypeOK'
  <2>1. PerceptOK' BY <1>2, ObserveTyped DEF FailsafeDeclare
  <2>2. RecoveryOK' BY <1>2, VerifyTyped DEF FailsafeDeclare
  <2>3. LedgerOK' BY <1>2 DEF FailsafeDeclare, DeclareLost, ledger, LedgerOK
  <2>4. RefusalOK'
    <3>1. step \in Nat BY Naturals DEF PerceptOK
    <3>2. /\ declared' = TRUE /\ declaredLostT' = step
          /\ endReason' = FailsafeReason
          BY <1>2 DEF FailsafeDeclare, DeclareLost
    <3>3. FailsafeReason \in {"no_usable_link_timeout", "recovery_timeout",
                              "budget_exhausted", "all_channels_jammed_no_escape"}
          BY DEF FailsafeReason
    <3>4. QED BY <3>1, <3>2, <3>3 DEF RefusalOK
  <2>5. MemoryOK' BY <1>2, RaiseTyped DEF FailsafeDeclare, MemoryOK
  <2>6. QED BY <2>1, <2>2, <2>3, <2>4, <2>5
<1>3. ASSUME NEW p \in Pdr, NEW top \in Hypotheses, NEW call \in AgentCalls,
             Decide(p, top, call)
      PROVE  TypeOK'
  <2>1. PerceptOK' BY <1>3, ObserveTyped DEF Decide
  <2>2. RecoveryOK' BY <1>3, VerifyTyped DEF Decide
  <2>3. LedgerOK' /\ RefusalOK' BY <1>3, ApplyTyped DEF Decide
  <2>4. rung' \in 0..7 BY <1>3, RaiseTyped DEF Decide, Apply, MemoryOK
  <2>5. MemoryOK' BY <1>3, <2>4 DEF Decide, Remember, MemoryOK
  <2>6. QED BY <2>1, <2>2, <2>3, <2>5
<1>4. ASSUME NEW p \in Pdr, Hang(p) PROVE TypeOK'
  <2>1. PerceptOK' BY <1>4, ObserveTyped DEF Hang
  <2>2. (LedgerOK /\ MemoryOK /\ RefusalOK /\ RecoveryOK)'
        BY <1>4 DEF Hang, LedgerOK, MemoryOK, RefusalOK, RecoveryOK, ledger, refusal,
                    recovery
  <2>3. QED BY <2>1, <2>2
<1>5. ASSUME Close \/ UNCHANGED vars PROVE TypeOK'
      BY <1>5 DEF Close, vars, percept, ledger, refusal, recovery, PerceptOK, LedgerOK,
                  MemoryOK, RefusalOK, RecoveryOK
<1>6. QED BY <1>1, <1>2, <1>3, <1>4, <1>5 DEF Next, Iterate

\* Every variable of the controller keeps its type, for every value of the
\* constants.
THEOREM TypeCorrect == Spec => []TypeOK
  BY InitTyped, NextTyped, PTL DEF Spec

-----------------------------------------------------------------------------
(* Refinement of the envelope. *)

\* What the mask lets through, applied with the gate open and the link not
\* declared lost, is a charge of the envelope, its refusal, or nothing to it.
LEMMA ApplyRefines ==
    ASSUME NEW c \in Available, Apply(c), ~declared, onset' # None
    PROVE  \/ Env!Charge
           \/ Env!Declare
           \/ UNCHANGED <<declared, used>>
<1>1. CASE ApplyFree(c) BY <1>1 DEF ApplyFree, ledger, refusal
<1>2. CASE ApplyScan(c)
  <2>1. ScanAllowed BY <1>2 DEF ApplyScan, Available, Always, Hops, Moves
  <2>2. Env!ChargeScan BY <1>2, <2>1 DEF ApplyScan, ScanAllowed, Env!ChargeScan
  <2>3. QED BY <1>2, <2>2 DEF Env!Charge, ApplyScan, refusal
<1>3. CASE ApplySilent(c)
  <2>1. used.silent < MaxSilent BY <1>3 DEF ApplySilent, Available, Always, Hops, Moves
  <2>2. Env!ChargeSilent BY <1>3, <2>1 DEF ApplySilent, Env!ChargeSilent
  <2>3. QED BY <1>3, <2>2 DEF Env!Charge, ApplySilent, refusal
<1>4. CASE ApplyHop(c)
  <2>1. HopAllowed BY <1>4 DEF ApplyHop, Available, Always, Hops, Moves
  <2>2. Env!ChargeHop
        BY <1>4, <2>1 DEF ApplyHop, HopAllowed, CostlyLeft, Env!CostlyLeft, Env!ChargeHop
  <2>3. QED BY <1>4, <2>2 DEF Env!Charge, ApplyHop, refusal
<1>5. CASE ApplyMove(c)
  <2>1. MoveAllowed BY <1>5 DEF ApplyMove, Available, Always, Hops, Moves
  <2>2. Env!ChargeMove
        BY <1>5, <2>1
        DEF ApplyMove, MoveAllowed, CostlyLeft, Env!CostlyLeft, Env!ChargeMove,
            Env!MoveCost
  <2>3. QED BY <1>5, <2>2 DEF Env!Charge, ApplyMove, refusal
<1>6. CASE ApplyLora(c)
  <2>1. CostlyLeft BY <1>6 DEF ApplyLora, Available, Always, Hops, Moves
  <2>2. Env!ChargeLora
        BY <1>6, <2>1 DEF ApplyLora, CostlyLeft, Env!CostlyLeft, Env!ChargeLora
  <2>3. QED BY <1>6, <2>2 DEF Env!Charge, ApplyLora, refusal
<1>7. CASE ApplyDeclare(c)
      BY <1>7 DEF ApplyDeclare, DeclareLost, ledger, Env!Declare
<1>8. QED BY <1>1, <1>2, <1>3, <1>4, <1>5, <1>6, <1>7, Apply(c) DEF Apply

\* no_op is never masked, so what is applied is always available.
LEMMA FilteredAvailable ==
    ASSUME NEW top, NEW call PROVE Filtered(top, call) \in Available
  BY DEF Filtered, Available, Always

\* An observation only ever opens the gate.
LEMMA ObserveGate ==
    ASSUME NEW p, Observe(p), TypeOK
    PROVE  onset' # onset => onset = None /\ onset' # None
  BY Naturals DEF Observe, TypeOK, PerceptOK

\* Every step of the controller is a step of the envelope or stutters in it.
LEMMA StepRefines == TypeOK /\ [Next]_vars => [Env!EnvNext]_(Env!envVars)
<1> SUFFICES ASSUME TypeOK, [Next]_vars PROVE [Env!EnvNext]_(Env!envVars)
    OBVIOUS
<1> DEFINE Quietly == UNCHANGED <<declared, used>>
           GateKept == onset' # onset => onset = None /\ onset' # None
<1>1. ASSUME Quietly, GateKept PROVE [Env!EnvNext]_(Env!envVars)
      BY <1>1 DEF Env!EnvNext, Env!Alarm, Env!envVars
<1>2. ASSUME NEW p \in Pdr, Watch(p) \/ Hang(p) PROVE [Env!EnvNext]_(Env!envVars)
  <2>1. Quietly BY <1>2 DEF Watch, Hang, ledger, refusal
  <2>2. GateKept BY <1>2, ObserveGate DEF Watch, Hang
  <2>3. QED BY <1>1, <2>1, <2>2
<1>3. ASSUME NEW p \in Pdr, FailsafeDeclare(p) PROVE Env!Declare
  <2>1. ~declared /\ onset' # None BY <1>3 DEF FailsafeDeclare, DecisionDue
  <2>2. declared' = TRUE /\ UNCHANGED used
        BY <1>3 DEF FailsafeDeclare, DeclareLost, ledger
  <2>3. QED BY <2>1, <2>2 DEF Env!Declare
<1>4. ASSUME NEW p \in Pdr, NEW top \in Hypotheses, NEW call \in AgentCalls,
             Decide(p, top, call)
      PROVE  [Env!EnvNext]_(Env!envVars)
  <2>1. ~declared /\ onset' # None BY <1>4 DEF Decide, DecisionDue
  <2>2. Env!Charge \/ Env!Declare \/ Quietly
        BY <1>4, <2>1, FilteredAvailable, ApplyRefines DEF Decide
  <2>3. GateKept BY <1>4, ObserveGate DEF Decide
  <2>4. QED BY <1>1, <2>2, <2>3 DEF Env!EnvNext
<1>5. ASSUME Close \/ UNCHANGED vars PROVE UNCHANGED Env!envVars
      BY <1>5 DEF Close, vars, percept, ledger, refusal, Env!envVars
<1>6. QED BY <1>2, <1>3, <1>4, <1>5 DEF Next, Iterate, Env!EnvNext

\* The controller implements the envelope: whatever the model asks for, what is
\* spent, and when, is what the envelope allows.
THEOREM EnvelopeRefined == Spec => EnvelopeKept
<1>1. Init => Env!EnvInit
      BY DEF Init, Env!EnvInit, Env!NothingSpent
<1>2. QED BY <1>1, StepRefines, TypeCorrect, PTL DEF Spec, EnvelopeKept, Env!EnvSpec

\* The ledger of the controller keeps what EnvelopeSound promises: each budget,
\* with the one unit of overshoot a last move can cause, and the account.
THEOREM BudgetsKept ==
    Spec => [](WithinBudget /\ Accounted /\ Env!QuietBeforeAlarm)
<1>1. Init => EnvP!EnvInv
  <2>1. Init => Env!EnvInit BY DEF Init, Env!EnvInit
  <2>2. Env!EnvInit => EnvP!EnvInv
        BY EnvP!EnvInvInit, ControllerAssumption
        DEF EnvP!EnvInit, Env!EnvInit, EnvP!NothingSpent, Env!NothingSpent,
            EnvP!BudgetsAreNat
  <2>3. QED BY <2>1, <2>2
<1>2. [Env!EnvNext]_(Env!envVars) => [EnvP!EnvNext]_(EnvP!envVars)
      BY DEF EnvP!EnvNext, Env!EnvNext, EnvP!Charge, Env!Charge, EnvP!Alarm, Env!Alarm,
             EnvP!Declare, Env!Declare, EnvP!ChargeScan, Env!ChargeScan,
             EnvP!ChargeSilent, Env!ChargeSilent, EnvP!ChargeHop, Env!ChargeHop,
             EnvP!ChargeMove, Env!ChargeMove, EnvP!ChargeLora, Env!ChargeLora,
             EnvP!CostlyLeft, Env!CostlyLeft, EnvP!MoveCost, Env!MoveCost,
             EnvP!envVars, Env!envVars
<1>3. EnvP!EnvInv /\ [EnvP!EnvNext]_(EnvP!envVars) => EnvP!EnvInv'
      BY EnvP!EnvInvStep, ControllerAssumption DEF EnvP!BudgetsAreNat
<1>4. EnvP!EnvInv => WithinBudget /\ Accounted /\ Env!QuietBeforeAlarm
      BY DEF WithinBudget, Accounted, EnvP!EnvInv, EnvP!WithinBudget, Env!WithinBudget, EnvP!MoveCost, Env!MoveCost,
             EnvP!Accounted, Env!Accounted, EnvP!QuietBeforeAlarm, Env!QuietBeforeAlarm,
             EnvP!NothingSpent, Env!NothingSpent
<1>5. QED BY <1>1, <1>2, <1>3, <1>4, StepRefines, TypeCorrect, PTL DEF Spec

-----------------------------------------------------------------------------
(* A rogue model cannot hop before a scan has shown a reason to. *)

\* `dirty` remembers what the last scan showed: that is what makes it inductive.
WarrantInv == (Dirty(lastScan) => dirty) /\ (used.hops > 0 => dirty)

\* A hop the mask lets through has its reason in the last scan.
LEMMA UsefulIsDirty == HopUseful => Dirty(lastScan)
  BY DEF HopUseful, HopPays, Dirty

\* Applying a call the mask offers keeps the warrant.
LEMMA ApplyWarranted ==
    ASSUME TypeOK, WarrantInv, NEW c \in Available, Apply(c)
    PROVE  WarrantInv'
<1>0. used \in Env!Spend /\ dirty \in BOOLEAN BY DEF TypeOK, LedgerOK
<1>1. CASE ApplyScan(c)
  <2>1. used'.hops = used.hops BY <1>0, <1>1 DEF ApplyScan, Env!Spend
  <2>2. dirty' = (dirty \/ Dirty(lastScan')) BY <1>1 DEF ApplyScan
  <2>3. QED BY <1>0, <2>1, <2>2 DEF WarrantInv, Dirty
<1>2. CASE ApplyHop(c)
  <2>1. Dirty(lastScan)
        BY <1>2, UsefulIsDirty DEF ApplyHop, HopAllowed, Available, Always, Hops, Moves
  <2>2. UNCHANGED <<dirty, lastScan>> BY <1>2 DEF ApplyHop
  <2>3. QED BY <2>1, <2>2 DEF WarrantInv, Dirty
<1>3. CASE ~ApplyScan(c) /\ ~ApplyHop(c)
  <2>1. used'.hops = used.hops
        BY <1>0, <1>3 DEF Apply, ApplyFree, ApplySilent, ApplyMove, ApplyLora,
                          ApplyDeclare, DeclareLost, ledger, Env!Spend
  <2>2. UNCHANGED <<dirty, lastScan>>
        BY <1>3 DEF Apply, ApplyFree, ApplySilent, ApplyMove, ApplyLora,
                    ApplyDeclare, DeclareLost, ledger
  <2>3. QED BY <2>1, <2>2 DEF WarrantInv, Dirty
<1>4. QED BY <1>1, <1>2, <1>3

\* Every step keeps the warrant.
LEMMA WarrantStep == TypeOK /\ WarrantInv /\ [Next]_vars => WarrantInv'
<1> SUFFICES ASSUME TypeOK, WarrantInv, [Next]_vars PROVE WarrantInv'
    OBVIOUS
<1>1. ASSUME NEW p \in Pdr, NEW top \in Hypotheses, NEW call \in AgentCalls,
             Decide(p, top, call)
      PROVE  WarrantInv'
      BY <1>1, FilteredAvailable, ApplyWarranted DEF Decide
<1>2. ASSUME UNCHANGED ledger PROVE WarrantInv'
      BY <1>2 DEF ledger, WarrantInv, Dirty
<1>3. ASSUME NEW p \in Pdr, Watch(p) \/ FailsafeDeclare(p) \/ Hang(p)
      PROVE  UNCHANGED ledger
      BY <1>3 DEF Watch, FailsafeDeclare, DeclareLost, Hang
<1>4. ASSUME Close \/ UNCHANGED vars PROVE UNCHANGED ledger
      BY <1>4 DEF Close, vars
<1>5. QED BY <1>1, <1>2, <1>3, <1>4 DEF Next, Iterate

\* Until a scan has shown a hot channel or a materially quieter one, no model of
\* any kind hops: the mask alone enforces it.
THEOREM CleanNeverHops == Spec => []NoHopOnCleanSpectrum
<1>1. Init => WarrantInv
  <2>1. Init => used.hops = 0
    <3>1. Init => used = Env!NothingSpent BY DEF Init
    <3>2. Env!NothingSpent.hops = 0 BY DEF Env!NothingSpent
    <3>3. QED BY <3>1, <3>2
  <2>2. Init => ~Dirty(lastScan) BY DEF Init, NoScan, Dirty
  <2>3. ~(0 > 0) OBVIOUS
  <2>4. QED BY <2>1, <2>2, <2>3 DEF WarrantInv
<1>2. TypeOK /\ WarrantInv => NoHopOnCleanSpectrum
  <2>1. TypeOK => used.hops \in Nat BY DEF TypeOK, LedgerOK, Env!Spend
  <2>2. QED BY <2>1 DEF WarrantInv, NoHopOnCleanSpectrum
<1>3. QED BY <1>1, <1>2, WarrantStep, TypeCorrect, PTL DEF Spec

-----------------------------------------------------------------------------
(* The deadlines of the failsafe. *)

\* Iterations since the last decision tick.
SinceTick == IF phase = 0 THEN DecisionEvery - 1 ELSE phase - 1

\* What the failsafe leaves undone is no older than the last decision tick: a
\* link dead for too long, and an episode that has timed out.
DeadInv ==
    ~declared /\ onset # None =>
        \/ noLinkFor - NoLinkDeclare + 1 <= SinceTick
        \/ step - onset <= SinceTick

TimeoutInv ==
    ~declared /\ onset # None /\ recoveryT = None =>
        step - onset - RecoveryTimeout <= SinceTick

\* The cadence: an iteration that is not a decision tick is one further from it.
LEMMA Cadence ==
    ASSUME TypeOK, NEW p \in Pdr, Observe(p)
    PROVE  /\ phase = 0 => SinceTick' = 0
           /\ phase # 0 => SinceTick' = SinceTick + 1 /\ SinceTick' >= 1
           /\ SinceTick \in 0..(DecisionEvery - 1)
           /\ step \in Nat /\ step' = step + 1
           /\ noLinkFor \in Nat /\ noLinkFor' \in Nat /\ noLinkFor' <= noLinkFor + 1
           /\ onset' \in Nat \cup {None} /\ onset \in Nat \cup {None}
           /\ onset' = onset \/ (onset = None /\ onset' = step)
<1> USE Naturals DEF TypeOK, PerceptOK
<1>1. phase \in 0..(DecisionEvery - 1) /\ phase' = NextPhase
      BY DEF Observe
<1>2. step \in Nat /\ step' = step + 1 /\ noLinkFor \in Nat
      BY DEF Observe
<1>3. noLinkFor' \in Nat /\ noLinkFor' <= noLinkFor + 1
      BY <1>2 DEF Observe
<1>4. /\ onset' \in Nat \cup {None} /\ onset \in Nat \cup {None}
      /\ onset' = onset \/ (onset = None /\ onset' = step)
      BY <1>2 DEF Observe
<1>5. SinceTick \in 0..(DecisionEvery - 1)
      BY <1>1 DEF SinceTick
<1>6. /\ phase = 0 => SinceTick' = 0
      /\ phase # 0 => SinceTick' = SinceTick + 1 /\ SinceTick' >= 1
      BY <1>1 DEF SinceTick, NextPhase
<1>7. QED BY <1>2, <1>3, <1>4, <1>5, <1>6

\* An iteration that leaves an onset undeclared was not due to declare it.
LEMMA NotDue ==
    ASSUME NEW p \in Pdr, Iterate(p), ~declared', onset' # None, phase = 0
    PROVE  /\ Observe(p)
           /\ ~declared
           /\ Monitoring \/ ~FailsafeDue
<1>1. CASE Watch(p) BY <1>1 DEF Watch, DecisionDue, refusal
<1>2. CASE FailsafeDeclare(p) BY <1>2 DEF FailsafeDeclare, DeclareLost
<1>3. CASE \E top \in Hypotheses, call \in AgentCalls : Decide(p, top, call)
      BY <1>3 DEF Decide, DecisionDue
<1>4. CASE Hang(p) BY <1>4 DEF Hang, DecisionDue
<1>5. QED BY <1>1, <1>2, <1>3, <1>4 DEF Iterate

\* No iteration takes a declaration, or a recorded recovery, back.
LEMMA Latched ==
    ASSUME NEW p \in Pdr, Iterate(p)
    PROVE  /\ Observe(p)
           /\ declared => declared'
           /\ recoveryT' = None => recoveryT = None
<1>1. CASE Watch(p) BY <1>1 DEF Watch, refusal, recovery
<1>2. CASE FailsafeDeclare(p)
      BY <1>2 DEF FailsafeDeclare, DeclareLost, VerifyRecovery
<1>3. CASE \E top \in Hypotheses, call \in AgentCalls : Decide(p, top, call)
      BY <1>3 DEF Decide, DecisionDue, VerifyRecovery
<1>4. CASE Hang(p) BY <1>4 DEF Hang, refusal, recovery
<1>5. QED BY <1>1, <1>2, <1>3, <1>4 DEF Iterate

\* Arithmetic of the deadlines.  A counter below its deadline at a tick is at
\* most at it one step on; a slip carried over a step grows by at most one.
LEMMA NotYetDue ==
    /\ \A n, d \in Nat : ~(n >= d) => n - d + 1 <= 0
    /\ \A s, t, o, r \in Nat : ~(s - o >= r) /\ t = s + 1 => t - o - r <= 0
OBVIOUS

LEMMA Carried ==
    /\ \A n, m, d \in Nat, k \in Int :
          m <= n + 1 /\ n - d + 1 <= k => m - d + 1 <= k + 1
    /\ \A s, t, o, r \in Nat, k \in Int :
          t = s + 1 /\ s - o - r <= k => t - o - r <= k + 1
    /\ \A s, t, o \in Nat, k \in Int :
          t = s + 1 /\ s - o <= k => t - o <= k + 1
    /\ \A s, t, r \in Nat, k \in Int :
          t = s + 1 /\ k >= 1 => t - s <= k /\ t - s - r <= k
OBVIOUS

\* A deadline that has passed since the last tick is noticed at the next one.
LEMMA DeadlineStep ==
    ASSUME TypeOK, NEW p \in Pdr, Iterate(p), DeadInv, TimeoutInv
    PROVE  DeadInv' /\ TimeoutInv'
<1>1. /\ phase = 0 => SinceTick' = 0
      /\ phase # 0 => SinceTick' = SinceTick + 1 /\ SinceTick' >= 1
      /\ SinceTick \in Int
      /\ step \in Nat /\ step' = step + 1 /\ step' \in Nat
      /\ noLinkFor \in Nat /\ noLinkFor' \in Nat /\ noLinkFor' <= noLinkFor + 1
      /\ onset' \in Nat \cup {None} /\ onset \in Nat \cup {None}
      /\ onset' = onset \/ (onset = None /\ onset' = step)
      /\ RecoveryTimeout \in Nat /\ NoLinkDeclare \in Nat
      BY Latched, Cadence, Naturals
<1>2. SUFFICES ASSUME ~declared', onset' # None
               PROVE  /\ \/ noLinkFor' - NoLinkDeclare + 1 <= SinceTick'
                         \/ step' - onset' <= SinceTick'
                      /\ recoveryT' = None =>
                            step' - onset' - RecoveryTimeout <= SinceTick'
    BY DEF DeadInv, TimeoutInv
<1>3. ~declared /\ onset' \in Nat BY <1>1, <1>2, Latched
<1>4. CASE phase = 0
  <2>1. Observe(p) /\ (Monitoring \/ ~FailsafeDue) BY <1>2, <1>4, NotDue
  <2>2. ~(noLinkFor' >= NoLinkDeclare)
    <3>1. CASE ~FailsafeDue BY <3>1 DEF FailsafeDue, NoUsableLink
    <3>2. CASE Monitoring
          BY <2>1, <3>2, Naturals DEF Monitoring, MonitorPdr, Observe, UsablePdr
    <3>3. QED BY <2>1, <3>1, <3>2
  <2>3. ASSUME recoveryT' = None PROVE ~(step - onset' >= RecoveryTimeout)
        BY <2>1, <2>3, Latched DEF Monitoring, FailsafeDue, TimedOut
  <2>4. noLinkFor' - NoLinkDeclare + 1 <= 0 BY <1>1, <2>2, NotYetDue
  <2>5. recoveryT' = None => step' - onset' - RecoveryTimeout <= 0
        BY <1>1, <1>3, <2>3, NotYetDue
  <2>6. QED BY <1>1, <1>4, <2>4, <2>5
<1>5. CASE phase # 0
  <2>1. CASE onset = None
    <3>1. onset' = step BY <1>1, <1>2, <2>1
    <3>2. SinceTick' \in Int /\ SinceTick' >= 1 BY <1>1, <1>5
    <3>3. step' - step <= SinceTick' /\ step' - step - RecoveryTimeout <= SinceTick'
          BY <1>1, <3>2, Carried
    <3>4. QED BY <3>1, <3>3
  <2>2. CASE onset # None
    <3>1. /\ \/ noLinkFor - NoLinkDeclare + 1 <= SinceTick
             \/ step - onset <= SinceTick
          /\ recoveryT' = None => step - onset - RecoveryTimeout <= SinceTick
          BY <1>3, <2>2, Latched DEF DeadInv, TimeoutInv
    <3>2. onset' = onset /\ onset \in Nat BY <1>1, <2>2
    <3>3. SinceTick' = SinceTick + 1 BY <1>1, <1>5
    <3>4. noLinkFor - NoLinkDeclare + 1 <= SinceTick
             => noLinkFor' - NoLinkDeclare + 1 <= SinceTick + 1
          BY <1>1, Carried
    <3>5. step - onset <= SinceTick => step' - onset <= SinceTick + 1
          BY <1>1, <3>2, Carried
    <3>6. step - onset - RecoveryTimeout <= SinceTick
             => step' - onset - RecoveryTimeout <= SinceTick + 1
          BY <1>1, <3>2, Carried
    <3>7. QED BY <3>1, <3>2, <3>3, <3>4, <3>5, <3>6
  <2>3. QED BY <2>1, <2>2
<1>6. QED BY <1>4, <1>5

\* A dead link, and an episode that never recovered, are declared lost within a
\* decision period of their deadlines, whatever the model answers.
THEOREM FailsafeDeadlines == Spec => [](DeadLinkDeclared /\ TimeoutDeclared)
<1>1. Init => DeadInv /\ TimeoutInv
      BY DEF Init, DeadInv, TimeoutInv
<1>2. TypeOK /\ DeadInv /\ TimeoutInv /\ [Next]_vars => (DeadInv /\ TimeoutInv)'
  <2>1. ASSUME Close \/ UNCHANGED vars, DeadInv, TimeoutInv PROVE (DeadInv /\ TimeoutInv)'
    <3>1. /\ UNCHANGED <<phase, noLinkFor, step, onset>>
          /\ UNCHANGED <<declared, recoveryT>>
          BY <2>1 DEF Close, vars, percept, refusal, recovery
    <3>2. SinceTick' = SinceTick BY <3>1 DEF SinceTick
    <3>3. QED BY <2>1, <3>1, <3>2 DEF DeadInv, TimeoutInv
  <2>2. QED BY <2>1, DeadlineStep DEF Next
<1>3. TypeOK /\ DeadInv /\ TimeoutInv => DeadLinkDeclared /\ TimeoutDeclared
  <2> SUFFICES ASSUME TypeOK, DeadInv, TimeoutInv
               PROVE  DeadLinkDeclared /\ TimeoutDeclared
      OBVIOUS
  <2>1. /\ SinceTick <= DecisionEvery - 1 /\ SinceTick \in Int
        /\ step \in Nat /\ noLinkFor \in Nat /\ (onset # None => onset \in Nat)
        BY Naturals DEF SinceTick, TypeOK, PerceptOK
  <2>2. DeadLinkDeclared BY <2>1, Naturals DEF DeadInv, DeadLinkDeclared
  <2>3. TimeoutDeclared BY <2>1, Naturals DEF TimeoutInv, TimeoutDeclared
  <2>4. QED BY <2>2, <2>3
<1>4. QED BY <1>1, <1>2, <1>3, TypeCorrect, PTL DEF Spec

\* The second deadline alone: an episode whose link was never verified as recovered is
\* declared lost one decision period after the recovery timeout at the latest, whatever
\* the timeout, the decision period and the budgets (agent/controller.py line 142).
THEOREM TimeoutKept == Spec => []TimeoutDeclared
  BY FailsafeDeadlines, PTL

-----------------------------------------------------------------------------
(* Recovery verification. *)

\* Every decision tick of a hold in progress found the level, and no tick was
\* skipped, as long as the model answers: the hold's age is the number of its ticks,
\* in steps.
HoldInv ==
    recoveryT = None /\ ~declared /\ ~hung =>
        /\ holdStart = None => goodTicks = 0
        /\ holdStart # None =>
              /\ onset # None
              /\ step - holdStart = (goodTicks - 1) * DecisionEvery + SinceTick + 1

\* One more tick is one more period.
LEMMA OneMoreTick ==
    \A n, d \in Nat : (n - 1) * d \in Int /\ (n - 1) * d + d = n * d
OBVIOUS

\* A tick that finds the level starts a hold or prolongs one.
LEMMA HoldAtTick ==
    ASSUME TypeOK, HoldInv, NEW p \in Pdr, Observe(p), DecisionDue, VerifyRecovery,
           recoveryT = None
    PROVE  /\ recoveryT' = None =>
                /\ holdStart' = None => goodTicks' = 0
                /\ holdStart' # None =>
                      /\ onset' # None
                      /\ step' - holdStart' = (goodTicks' - 1) * DecisionEvery + SinceTick' + 1
           /\ recoveryT' # None => (goodTicks' - 1) * DecisionEvery >= RecoveryHold
<1>1. /\ phase = 0 /\ ~declared /\ ~hung /\ onset' # None
      /\ step \in Nat /\ step' = step + 1 /\ SinceTick' = 0
      /\ DecisionEvery \in Nat /\ goodTicks \in Nat
      /\ holdStart \in Nat \cup {None} /\ None \notin Nat
      BY Cadence, Naturals DEF DecisionDue, Observe, TypeOK, RecoveryOK
<1>2. SinceTick = DecisionEvery - 1 BY <1>1 DEF SinceTick
<1>3. CASE ~Healthy(pdr', baseline')
      BY <1>3 DEF VerifyRecovery
<1>4. CASE Healthy(pdr', baseline') /\ holdStart = None
  <2>1. goodTicks' = 1 /\ holdStart' = step /\ recoveryT' = None
        BY <1>1, <1>4 DEF HoldInv, VerifyRecovery
  <2>2. step' - holdStart' = (goodTicks' - 1) * DecisionEvery + SinceTick' + 1
        BY <1>1, <2>1
  <2>3. QED BY <1>1, <2>1, <2>2
<1>5. CASE Healthy(pdr', baseline') /\ holdStart # None
  <2>1. step - holdStart = (goodTicks - 1) * DecisionEvery + SinceTick + 1
        BY <1>1, <1>5 DEF HoldInv
  <2>2. step - holdStart = goodTicks * DecisionEvery
        BY <1>1, <1>2, <2>1, OneMoreTick
  <2>3. goodTicks' = goodTicks + 1 /\ holdStart' = holdStart
        BY <1>5 DEF VerifyRecovery
  <2>4. recoveryT' # None => step - holdStart >= RecoveryHold
        BY <1>5 DEF VerifyRecovery
  <2>5. (goodTicks' - 1) * DecisionEvery = goodTicks * DecisionEvery
    <3>1. goodTicks' - 1 = goodTicks BY <1>1, <2>3
    <3>2. QED BY <3>1
  <2>6. step' - holdStart' = (goodTicks' - 1) * DecisionEvery + SinceTick' + 1
    <3>1. holdStart \in Nat BY <1>1, <1>5
    <3>2. step' - holdStart' = step - holdStart + 1 BY <1>1, <2>3, <3>1
    <3>3. goodTicks * DecisionEvery \in Nat BY <1>1
    <3>4. QED BY <1>1, <2>2, <2>5, <3>2, <3>3
  <2>7. recoveryT' # None => (goodTicks' - 1) * DecisionEvery >= RecoveryHold
        BY <2>2, <2>4, <2>5
  <2>8. holdStart' # None BY <1>5, <2>3
  <2>9. QED BY <1>1, <2>6, <2>7, <2>8
<1>6. QED BY <1>3, <1>4, <1>5

\* Every step of the loop keeps the count, and a recovery is recorded by it only.
LEMMA HoldStep ==
    TypeOK /\ HoldInv /\ [Next]_vars
        => /\ HoldInv'
           /\ recoveryT = None /\ recoveryT' # None
                => (goodTicks' - 1) * DecisionEvery >= RecoveryHold
<1> SUFFICES ASSUME TypeOK, HoldInv, [Next]_vars
             PROVE  /\ HoldInv'
                    /\ recoveryT = None /\ recoveryT' # None
                         => (goodTicks' - 1) * DecisionEvery >= RecoveryHold
    OBVIOUS
<1>1. ASSUME NEW p \in Pdr, Observe(p), DecisionDue, VerifyRecovery
      PROVE  /\ HoldInv'
             /\ recoveryT = None /\ recoveryT' # None
                  => (goodTicks' - 1) * DecisionEvery >= RecoveryHold
  <2>1. CASE recoveryT = None BY <1>1, <2>1, HoldAtTick DEF HoldInv
  <2>2. CASE recoveryT # None
    <3>1. recoveryT' # None BY <1>1, <2>2 DEF VerifyRecovery
    <3>2. QED BY <2>2, <3>1 DEF HoldInv
  <2>3. QED BY <2>1, <2>2
\* Between ticks the age grows with the count of iterations since the last one.
<1>2. ASSUME NEW p \in Pdr, Watch(p) PROVE HoldInv' /\ recoveryT' = recoveryT
  <2>1. /\ UNCHANGED <<declared, recoveryT, holdStart, goodTicks, hung>>
        /\ Observe(p) /\ ~hung
        BY <1>2 DEF Watch, Observe, refusal, recovery
  <2>2. CASE recoveryT # None \/ declared BY <2>1, <2>2 DEF HoldInv
  <2>3. CASE holdStart = None /\ recoveryT = None /\ ~declared
        BY <2>1, <2>3 DEF HoldInv
  <2>4. CASE holdStart # None /\ recoveryT = None /\ ~declared
    <3>1. /\ onset # None
          /\ step - holdStart = (goodTicks - 1) * DecisionEvery + SinceTick + 1
          BY <2>1, <2>4 DEF HoldInv
    <3>2. onset' # None BY <2>1, <3>1, ObserveGate
    <3>3. phase # 0 BY <1>2, <2>4, <3>2 DEF Watch, DecisionDue, Monitoring
    <3>4. SinceTick' = SinceTick + 1 /\ step' = step + 1 /\ step \in Nat /\ SinceTick \in Int
          BY <2>1, <3>3, Cadence
    <3>5. holdStart \in Nat BY <2>4 DEF TypeOK, RecoveryOK
    <3>6. DecisionEvery \in Nat /\ goodTicks \in Nat
          BY Naturals DEF TypeOK, RecoveryOK
    <3>7. (goodTicks - 1) * DecisionEvery \in Int BY <3>6, OneMoreTick
    <3>8. step' - holdStart = (goodTicks - 1) * DecisionEvery + SinceTick' + 1
          BY <3>1, <3>4, <3>5, <3>7
    <3>9. QED BY <2>1, <3>2, <3>8 DEF HoldInv
  <2>5. QED BY <2>2, <2>3, <2>4
<1>3. ASSUME NEW p \in Pdr, Hang(p) PROVE HoldInv' /\ recoveryT' = recoveryT
      BY <1>3 DEF Hang, recovery, HoldInv
<1>4. ASSUME Close \/ UNCHANGED vars PROVE HoldInv' /\ recoveryT' = recoveryT
  <2>1. UNCHANGED <<phase, step, onset, declared, recoveryT, holdStart, goodTicks, hung>>
        BY <1>4 DEF Close, vars, percept, refusal, recovery
  <2>2. SinceTick' = SinceTick BY <2>1 DEF SinceTick
  <2>3. QED BY <2>1, <2>2 DEF HoldInv
<1>5. QED
  BY <1>1, <1>2, <1>3, <1>4 DEF Next, Iterate, FailsafeDeclare, Decide

\* A recovery is recorded only when each decision tick of a whole hold found the
\* level, for every decision period and hold.
THEOREM RecoveryIsHeld == Spec => RecoveryHeldAtTicks
<1>1. Init => HoldInv BY DEF Init, HoldInv
<1>2. TypeOK /\ HoldInv /\ [Next]_vars
        => [recoveryT = None /\ recoveryT' # None
              => (goodTicks' - 1) * DecisionEvery >= RecoveryHold]_vars
      BY HoldStep
<1>3. TypeOK /\ HoldInv /\ [Next]_vars => HoldInv'
      BY HoldStep
<1>4. QED BY <1>1, <1>2, <1>3, TypeCorrect, PTL DEF Spec, RecoveryHeldAtTicks

\* A recovery is never later than the present, nor than a declaration.
OrderInv ==
    /\ recoveryT # None => recoveryT <= step
    /\ declared => declaredLostT \in Nat
    /\ NoRecoveryAfterDeclare

\* The end of a decision tick records a recovery now or not at all.
LEMMA VerifyOrder ==
    ASSUME TypeOK, VerifyRecovery
    PROVE  recoveryT' = recoveryT \/ recoveryT' = step
  BY DEF VerifyRecovery

\* The two outcomes of the log are ordered in every episode: nothing is recorded
\* as recovered after it was declared lost.
THEOREM OutcomesOrdered == Spec => []NoRecoveryAfterDeclare
<1>1. Init => OrderInv
      BY DEF Init, OrderInv, NoRecoveryAfterDeclare
<1>2. TypeOK /\ OrderInv /\ [Next]_vars => OrderInv'
  <2> SUFFICES ASSUME TypeOK, OrderInv, [Next]_vars PROVE OrderInv'
      OBVIOUS
  <2>0. step \in Nat /\ recoveryT \in Nat \cup {None} /\ None \notin Nat
        BY Naturals DEF TypeOK, PerceptOK, RecoveryOK
  <2>1. ASSUME NEW p \in Pdr, Observe(p), DecisionDue, VerifyRecovery,
               declared' => declaredLostT' = step
        PROVE  OrderInv'
    <3>1. ~declared /\ step' = step + 1 BY <2>1 DEF DecisionDue, Observe
    <3>2. recoveryT' # None => recoveryT' <= step /\ recoveryT' \in Nat
          BY <2>0, <2>1, VerifyOrder DEF OrderInv
    <3>3. QED BY <2>0, <2>1, <3>1, <3>2 DEF OrderInv, NoRecoveryAfterDeclare
  <2>2. ASSUME NEW p \in Pdr, Watch(p) \/ Hang(p) PROVE OrderInv'
    <3>1. UNCHANGED <<declared, declaredLostT, recoveryT>> /\ step' = step + 1
          BY <2>2 DEF Watch, Hang, Observe, refusal, recovery
    <3>2. QED BY <2>0, <3>1 DEF OrderInv, NoRecoveryAfterDeclare
  <2>3. ASSUME Close \/ UNCHANGED vars PROVE OrderInv'
    <3>1. UNCHANGED <<declared, declaredLostT, recoveryT, step>>
          BY <2>3 DEF Close, vars, percept, refusal, recovery
    <3>2. QED BY <3>1 DEF OrderInv, NoRecoveryAfterDeclare
  <2>4. ASSUME NEW p \in Pdr, FailsafeDeclare(p) PROVE OrderInv'
        BY <2>1, <2>4 DEF FailsafeDeclare, DeclareLost
  <2>5. ASSUME NEW p \in Pdr, NEW top \in Hypotheses, NEW call \in AgentCalls,
               Decide(p, top, call)
        PROVE  OrderInv'
    <3>1. Apply(Filtered(top, call)) /\ ~declared BY <2>5 DEF Decide, DecisionDue
    <3>2. declared' => declaredLostT' = step
          BY <3>1 DEF Apply, ApplyFree, ApplyScan, ApplySilent, ApplyHop, ApplyMove,
                      ApplyLora, ApplyDeclare, DeclareLost, refusal
    <3>3. QED BY <2>1, <2>5, <3>2 DEF Decide
  <2>6. QED BY <2>2, <2>3, <2>4, <2>5 DEF Next, Iterate
<1>3. OrderInv => NoRecoveryAfterDeclare BY DEF OrderInv
<1>4. QED BY <1>1, <1>2, <1>3, TypeCorrect, PTL DEF Spec
=============================================================================
