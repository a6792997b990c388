------------------------------ MODULE Verifier ------------------------------
(***************************************************************************)
(* verify/verifier.py: how an episode is scored.  A log is [trace,         *)
(* actions, tests, hops, recovery, lost]: the classification trace, a      *)
(* sequence of rows [t, top, sure, declared, abstained] with increasing t  *)
(* (sure: p reaches act_confidence); the actions [t, fn]; the times of the *)
(* tests; the hops spent; and the times recovery and loss were recorded    *)
(* at, or None.  The truth is [cause, onset, recoverable].                 *)
(***************************************************************************)
EXTENDS Contract, Sequences, FiniteSetsExt

CONSTANTS
    Within,         \* ticks in 2.0 s: an action so soon after a row acts on it
    LostDeadline,   \* budgets.declare_lost_deadline_s
    MaxHops         \* budgets.max_channel_hops

Jamming == {"barrage", "spot", "reactive", "sweep"}

\* A bug that reads the missing decision of an abstention as argmax.
ClaimSlip(row) == IF row.declared # None THEN row.declared ELSE row.top

\* What an agent claims: nothing when it abstains, else the decision it
\* separated from its posterior, else argmax.
Claim(row) ==
    CASE row.abstained -> None
      [] ~row.abstained /\ row.declared # None -> row.declared
      [] ~row.abstained /\ row.declared = None -> row.top

(***************************************************************************)
(* Detection: the first row with the right claim that is sustained into    *)
(* the next one, or acted on.                                              *)
(***************************************************************************)

Sustained(log, i, cause) ==
    /\ i < Len(log.trace)
    /\ Claim(log.trace[i + 1]) = cause
    /\ log.trace[i + 1].sure

ActedOn(log, i) ==
    LET t == log.trace[i].t
    IN  \E k \in DOMAIN log.actions : log.actions[k].t \in t..(t + Within)

Detects(log, i, cause) ==
    /\ Claim(log.trace[i]) = cause
    /\ log.trace[i].sure
    /\ Sustained(log, i, cause) \/ ActedOn(log, i)

FirstT(log, cause) ==
    LET right == {i \in DOMAIN log.trace : Detects(log, i, cause)}
    IN  IF right = {} THEN None ELSE log.trace[Min(right)].t

(***************************************************************************)
(* The claim that is scored: walking back over the actions, the belief the *)
(* agent held when it acted, if it kept it into the next row, or if the    *)
(* action is the last one and recovery followed.                           *)
(***************************************************************************)
Confident(log) ==
    {i \in DOMAIN log.trace : log.trace[i].sure /\ ~log.trace[i].abstained}

Prior(log, k) == {i \in Confident(log) : log.trace[i].t <= log.actions[k].t}

Causal(log, k) ==
    /\ k = Len(log.actions)
    /\ log.recovery # None
    /\ log.actions[k].t <= log.recovery

Kept(log, i) ==
    \/ i = Len(log.trace)
    \/ Claim(log.trace[i + 1]) = Claim(log.trace[i])

\* Bugs: any action anchors; only a belief that was kept does.
AnchorsAnySlip(log, k) == Prior(log, k) # {}
AnchorsKeptSlip(log, k) == Prior(log, k) # {} /\ Kept(log, Max(Prior(log, k)))

Anchors(log, k) ==
    /\ Prior(log, k) # {}
    /\ Kept(log, Max(Prior(log, k))) \/ Causal(log, k)

Final(log) ==
    LET anchored == {k \in DOMAIN log.actions : Anchors(log, k)}
    IN  CASE anchored # {} ->
               Claim(log.trace[Max(Prior(log, Max(anchored)))])
          [] anchored = {} /\ Confident(log) # {} ->
               Claim(log.trace[Max(Confident(log))])
          [] OTHER -> None

(***************************************************************************)
(* The expensive error, and the outcomes that need the truth.              *)
(***************************************************************************)

BelievedJam(log) ==
    \E i \in DOMAIN log.trace :
       Claim(log.trace[i]) \in Jamming /\ log.trace[i].sure

Hopped(log) == \E k \in DOMAIN log.actions : log.actions[k].fn \in Hops

\* A link that cannot be saved has to be declared lost in time, and without
\* more hops than the budget; None when the question does not arise.
RefusalOk(log, truth) ==
    IF truth.recoverable
      THEN None
      ELSE /\ log.lost # None
           /\ log.lost - truth.onset <= LostDeadline
           /\ log.hops <= MaxHops

Survived(log, truth) == log.recovery # None \/ (log.lost # None /\ ~truth.recoverable)

\* The entry of the cost matrix that is charged, None for the cost of abstaining.
Charged(cause, claim) == IF claim = None THEN None ELSE <<cause, claim>>

SinceOnset(t, truth) ==
    IF t = None THEN None ELSE IF t < truth.onset THEN 0 ELSE t - truth.onset

\* EpisodeScore.
Score(log, truth) ==
    LET first == FirstT(log, truth.cause)
        final == Final(log)
        fading == truth.cause = "fading"
    IN  [declared      |-> final,
         latency       |-> SinceOnset(first, truth),
         falsePositive |-> fading /\ BelievedJam(log),
         actedOnIt     |-> fading /\ Hopped(log),
         testsBefore   |-> IF first = None THEN None
                             ELSE Cardinality({k \in DOMAIN log.tests : log.tests[k] <= first}),
         recoveryTime  |-> SinceOnset(log.recovery, truth),
         refusalOk     |-> RefusalOk(log, truth),
         survived      |-> Survived(log, truth),
         cost          |-> Charged(truth.cause, final)]
=============================================================================
