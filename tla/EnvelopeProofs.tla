--------------------------- MODULE EnvelopeProofs ---------------------------
(***************************************************************************)
(* The envelope's promises hold for every budget.                          *)
(***************************************************************************)
EXTENDS Envelope, TLAPS

Charges == ChargeScan \/ ChargeSilent \/ ChargeHop \/ ChargeMove \/ ChargeLora

\* Inductive as it stands: each charge is guarded by the counter it raises.
EnvInv == EnvTypeOK /\ WithinBudget /\ Accounted /\ QuietBeforeAlarm

\* A charge leaves the ledger a ledger.
LEMMA ChargeTyped == ASSUME used \in Spend, Charges PROVE used' \in Spend
<1>1. /\ used.scans + 1 \in Nat /\ used.silent + 1 \in Nat /\ used.hops + 1 \in Nat
      /\ used.moves + 1 \in Nat /\ used.lora + 1 \in Nat
      /\ used.costly + 1 \in Nat /\ used.costly + MoveCost \in Nat
      BY DEF Spend, MoveCost
<1>2. CASE ChargeScan BY <1>1, <1>2 DEF Spend, ChargeScan
<1>3. CASE ChargeSilent BY <1>1, <1>3 DEF Spend, ChargeSilent
<1>4. CASE ChargeHop BY <1>1, <1>4 DEF Spend, ChargeHop
<1>5. CASE ChargeMove BY <1>1, <1>5 DEF Spend, ChargeMove
<1>6. CASE ChargeLora BY <1>1, <1>6 DEF Spend, ChargeLora
<1>7. QED BY <1>2, <1>3, <1>4, <1>5, <1>6 DEF Charges

\* A charge keeps the budgets and the account: the guard of each bounds the
\* counter it raises, and the costly total moves with its parts.
LEMMA ChargeBounded ==
    ASSUME BudgetsAreNat, used \in Spend, WithinBudget, Accounted, Charges
    PROVE  WithinBudget' /\ Accounted'
<1> USE DEF BudgetsAreNat, Spend, WithinBudget, Accounted, MoveCost, CostlyLeft
<1>1. CASE ChargeScan BY <1>1 DEF ChargeScan
<1>2. CASE ChargeSilent BY <1>2 DEF ChargeSilent
<1>3. CASE ChargeHop BY <1>3 DEF ChargeHop
<1>4. CASE ChargeMove BY <1>4 DEF ChargeMove
<1>5. CASE ChargeLora BY <1>5 DEF ChargeLora
<1>6. QED BY <1>1, <1>2, <1>3, <1>4, <1>5 DEF Charges

\* Nothing has been spent in the initial state.
LEMMA EnvInvInit == ASSUME BudgetsAreNat, EnvInit PROVE EnvInv
<1>1. EnvTypeOK
      BY DEF EnvInit, EnvTypeOK, Spend, NothingSpent
<1>2. WithinBudget /\ Accounted
      BY DEF BudgetsAreNat, EnvInit, WithinBudget, Accounted, NothingSpent, MoveCost
<1>3. QED BY <1>1, <1>2 DEF EnvInv, EnvInit, QuietBeforeAlarm

\* A step of the envelope preserves its promises.
LEMMA EnvInvStep == ASSUME BudgetsAreNat, EnvInv, [EnvNext]_envVars PROVE EnvInv'
<1> USE DEF EnvInv
<1>1. CASE Charge
  <2>1. Charges /\ alarmed' = TRUE /\ UNCHANGED declared
        BY <1>1 DEF Charge, Charges
  <2>2. EnvTypeOK'
        BY <2>1, ChargeTyped DEF EnvTypeOK
  <2>3. WithinBudget' /\ Accounted'
        BY <2>1, ChargeBounded DEF EnvTypeOK
  <2>4. QED BY <2>1, <2>2, <2>3 DEF QuietBeforeAlarm
<1>2. CASE ~Charge
  <2>1. UNCHANGED used
        BY <1>2 DEF EnvNext, Alarm, Declare, envVars
  <2>2. EnvTypeOK'
        BY <1>2, <2>1 DEF EnvNext, Alarm, Declare, envVars, EnvTypeOK
  <2>3. WithinBudget' /\ Accounted'
        BY <2>1 DEF WithinBudget, Accounted
  <2>4. alarmed => alarmed'
        BY <1>2 DEF EnvNext, Alarm, Declare, envVars, EnvTypeOK
  <2>5. QED BY <2>1, <2>2, <2>3, <2>4 DEF QuietBeforeAlarm
<1>3. QED BY <1>1, <1>2

\* Whatever is asked for, the spend stays within the contract budgets, with the
\* overshoot of one unit that a last move can cause, the costly total is exactly
\* the sum of its charges, and nothing is spent before the gate fires.
THEOREM EnvelopeSound ==
    ASSUME BudgetsAreNat
    PROVE  EnvSpec => [](WithinBudget /\ Accounted /\ QuietBeforeAlarm)
<1>1. EnvInv => WithinBudget /\ Accounted /\ QuietBeforeAlarm
      BY DEF EnvInv
<1>2. QED BY EnvInvInit, EnvInvStep, <1>1, PTL DEF EnvSpec
=============================================================================
