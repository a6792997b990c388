------------------------------ MODULE Envelope ------------------------------
(***************************************************************************)
(* The safety envelope, abstractly: what the deterministic wrapper around  *)
(* a model promises about spending, whatever the model asks for.  It says  *)
(* nothing of time, links, scans or hypotheses.  The reference-simulator   *)
(* controller (Controller) and the Python end of the live ns-3 bridge      *)
(* (Bridge) are two separate programs that re-implement this envelope;     *)
(* each is checked to refine this module.                                  *)
(***************************************************************************)
EXTENDS Integers

CONSTANTS
    MaxCostly,   \* budgets.max_costly_actions
    MaxHops,     \* budgets.max_channel_hops
    MaxScans,    \* budgets.max_spectrum_scans
    MaxSilent,   \* budgets.max_silent_listens
    MaxMoves     \* budgets.max_moves

BudgetsAreNat ==
    /\ MaxCostly \in Nat
    /\ MaxHops \in Nat
    /\ MaxScans \in Nat
    /\ MaxSilent \in Nat
    /\ MaxMoves \in Nat

VARIABLES
    alarmed,     \* the anomaly gate has fired
    declared,    \* declare_link_lost has been issued
    used         \* what the episode has spent, per kind of action

envVars == <<alarmed, declared, used>>

Spend == [hops : Nat, scans : Nat, silent : Nat, moves : Nat, costly : Nat, lora : Nat]

NothingSpent ==
    [hops |-> 0, scans |-> 0, silent |-> 0, moves |-> 0, costly |-> 0, lora |-> 0]

\* BUDGET_COST of a position change; every other costly call is charged 1.
MoveCost == 2

-----------------------------------------------------------------------------
CostlyLeft == used.costly < MaxCostly

ChargeScan == used.scans < MaxScans /\ used' = [used EXCEPT !.scans = @ + 1]

ChargeSilent == used.silent < MaxSilent /\ used' = [used EXCEPT !.silent = @ + 1]

ChargeHop ==
    /\ CostlyLeft /\ used.hops < MaxHops
    /\ used' = [used EXCEPT !.hops = @ + 1, !.costly = @ + 1]

ChargeMove ==
    /\ CostlyLeft /\ used.moves < MaxMoves
    /\ used' = [used EXCEPT !.moves = @ + 1, !.costly = @ + MoveCost]

ChargeLora ==
    /\ CostlyLeft
    /\ used' = [used EXCEPT !.lora = @ + 1, !.costly = @ + 1]

\* One charge, made with the gate open (it may open in the same tick) and the
\* link not declared lost.
Charge ==
    /\ ~declared
    /\ alarmed' = TRUE
    /\ ChargeScan \/ ChargeSilent \/ ChargeHop \/ ChargeMove \/ ChargeLora
    /\ UNCHANGED declared

\* The gate opens; nothing is spent.
Alarm ==
    /\ ~alarmed
    /\ alarmed' = TRUE
    /\ UNCHANGED <<declared, used>>

\* The refusal, once, by the model or by the failsafe; nothing is spent.
Declare ==
    /\ ~declared
    /\ declared' = TRUE
    /\ alarmed' \in {alarmed, TRUE}
    /\ UNCHANGED used

EnvInit == alarmed = FALSE /\ declared = FALSE /\ used = NothingSpent

EnvNext == Charge \/ Alarm \/ Declare

EnvSpec == EnvInit /\ [][EnvNext]_envVars

-----------------------------------------------------------------------------
EnvTypeOK ==
    /\ alarmed \in BOOLEAN
    /\ declared \in BOOLEAN
    /\ used \in Spend

\* Every kind of action stays within its contract budget, except that the last
\* costly action may be a move: it is admitted while one unit is left and
\* charged MoveCost, so the costly total can pass its budget by MoveCost - 1.
WithinBudget ==
    /\ used.hops <= MaxHops
    /\ used.scans <= MaxScans
    /\ used.silent <= MaxSilent
    /\ used.moves <= MaxMoves
    /\ used.costly <= MaxCostly + MoveCost - 1

\* The costly total is exactly the sum of the charges that make it up.
Accounted == used.costly = used.hops + used.lora + MoveCost * used.moves

\* Nothing has been spent before the anomaly gate fired.
QuietBeforeAlarm == ~alarmed => used = NothingSpent
=============================================================================
