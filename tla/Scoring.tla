------------------------------- MODULE Scoring -------------------------------
(***************************************************************************)
(* What the two controllers write into an episode log, and how the         *)
(* verifier scores it while it grows.  A tick of the agent appends a row;  *)
(* the repeat-suppressor and the mask may take its call away; the failsafe *)
(* declares the link lost in the agent's place.  Controller and Bridge     *)
(* model when each of these happens: here it may at any tick.              *)
(***************************************************************************)
EXTENDS Verifier

CONSTANTS
    Worlds,     \* the controllers that write the log: "refsim", "ns3"
    Beliefs,    \* rows an agent's decision can make: [top, sure, declared, abstained]
    Requests,   \* calls it may ask for with one
    MayMask,    \* does the agent ask for calls outside its mask?
    Gaps,       \* ticks from one row to the next
    RecoveryHold,   \* ticks in recovery_hold_s
    MaxRows

ASSUME ScoringAssumption ==
    /\ Worlds \subseteq {"refsim", "ns3"}
    /\ \A b \in Beliefs : b.sure \in BOOLEAN /\ b.abstained \in BOOLEAN
    /\ Requests \subseteq Calls
    /\ Gaps \subseteq Nat \ {0}
    /\ RecoveryHold \in Nat
    /\ MaxRows \in Nat

VARIABLES
    world,      \* the controller of this episode
    now,        \* time of the last tick
    tried,      \* (top, call) pairs the suppressor remembers
    held,       \* recovery_hold_start, or None
    log,        \* the episode log
    said        \* history: the trace, had each answer been logged as it was given

logVars == <<world, now, tried, held, log, said>>

NewLog == [trace |-> << >>, actions |-> << >>, tests |-> << >>, hops |-> 0,
           recovery |-> None, lost |-> None]

Row(t, b) == [t |-> t, top |-> b.top, sure |-> b.sure,
              declared |-> b.declared, abstained |-> b.abstained]

\* The decision the controller of refsim builds in place of the agent's has the
\* agent's belief and nothing else; the bridge only changes the call.
Rebuilt(b) ==
    IF world = "refsim"
      THEN [top |-> b.top, sure |-> b.sure, declared |-> None, abstained |-> FALSE]
      ELSE b

\* The log of a call: tests have a list of their own, and a hop that is a test is
\* on that list only.
LogCall(t, call) ==
    [log EXCEPT
       !.actions = IF call \in Diagnose \cup {"no_op"} THEN @
                     ELSE Append(@, [t |-> t, fn |-> call]),
       !.tests   = IF call \in Diagnose THEN Append(@, t) ELSE @,
       !.hops    = IF call \in Hops THEN @ + 1 ELSE @,
       !.lost    = IF call = "declare_link_lost" THEN t ELSE @]

\* Recovery is verified when the link has been well at every check for
\* RecoveryHold, the first time that it is.
VerifiedAt(t, well) ==
    IF log.recovery = None /\ well /\ held # None /\ t - held >= RecoveryHold
      THEN t ELSE log.recovery

\* The check of a tick: the hold goes on, starts or is over, and is not followed
\* any further once recovery is recorded, because nothing reads it then.
CheckRecovery(t, well) ==
    LET over == ~well \/ VerifiedAt(t, well) # None
    IN  held' = CASE over -> None
                  [] ~over /\ held = None -> t
                  [] ~over /\ held # None -> held

\* The row of belief b, the call made with it and the check of recovery; own is
\* what the agent answered.
Record(t, b, call, own) ==
    /\ now' = t
    /\ said' = Append(said, Row(t, own))
    /\ \E well \in BOOLEAN :
          /\ CheckRecovery(t, well)
          /\ log' = [LogCall(t, call) EXCEPT !.trace = Append(@, Row(t, b)),
                                             !.recovery = VerifiedAt(t, well)]

Repeats(b, call) == call \in Remedies /\ <<b.top, call>> \in tried

Remember(b, call) ==
    tried' = IF call = "no_op" THEN tried ELSE tried \cup {<<b.top, call>>}

\* The agent's call is made.
Made(t, b, call) ==
    /\ ~Repeats(b, call)
    /\ Remember(b, call)
    /\ Record(t, b, call, b)

\* It was tried before for the same hypothesis: no_op.
Suppressed(t, b, call) ==
    /\ Repeats(b, call)
    /\ Record(t, Rebuilt(b), "no_op", b)
    /\ UNCHANGED tried

\* It is not in the mask: no_op.  The controller of refsim has remembered it.
Masked(t, b, call) ==
    /\ MayMask /\ call # "no_op" /\ ~Repeats(b, call)
    /\ IF world = "refsim" THEN Remember(b, call) ELSE UNCHANGED tried
    /\ Record(t, Rebuilt(b), "no_op", b)

\* What the controller of refsim declares with: the agent's last belief, or the
\* uniform one, of which argmax is the first cause.
LastBelief ==
    IF log.trace = << >>
      THEN [top |-> "barrage", sure |-> FALSE, declared |-> None, abstained |-> FALSE]
      ELSE log.trace[Len(log.trace)]

\* The failsafe declares: with a row of the last belief in refsim, where no agent
\* was asked, and with none over the bridge.
Failsafe(t) ==
    /\ IF world = "refsim"
         THEN Record(t, Rebuilt(LastBelief), "declare_link_lost", Rebuilt(LastBelief))
         ELSE /\ now' = t
              /\ \E well \in BOOLEAN :
                    /\ CheckRecovery(t, well)
                    /\ log' = [LogCall(t, "declare_link_lost") EXCEPT
                                  !.recovery = VerifiedAt(t, well)]
              /\ UNCHANGED said
    /\ UNCHANGED tried

Tick ==
    /\ log.lost = None
    /\ Len(log.trace) < MaxRows
    /\ UNCHANGED world
    /\ \E gap \in Gaps :
          \/ \E b \in Beliefs, call \in Requests :
                \/ Made(now + gap, b, call)
                \/ Suppressed(now + gap, b, call)
                \/ Masked(now + gap, b, call)
          \/ Failsafe(now + gap)

\* No row is written before the gate opens, but the bridge has been checking
\* recovery: a hold may be on, and recovery recorded (at 0: before everything).
LogInit ==
    /\ world \in Worlds
    /\ now = RecoveryHold
    /\ tried = {}
    /\ said = << >>
    /\ \/ held = None /\ log = NewLog
       \/ world = "ns3" /\ held \in 0..now /\ log = NewLog
       \/ world = "ns3" /\ held = None /\ log = [NewLog EXCEPT !.recovery = 0]

LogSpec == LogInit /\ [][Tick]_logVars
-----------------------------------------------------------------------------
Causes == UNION {{b.top, b.declared} : b \in Beliefs} \ {None}

TypeOK ==
    /\ world \in Worlds /\ now \in Nat
    /\ tried \subseteq Causes \X Requests
    /\ held \in {None} \cup 0..now
    /\ Len(said) = Len(log.trace)
    /\ \A i \in DOMAIN log.trace : log.trace[i].t \in 1..now
    /\ \A i, j \in DOMAIN log.trace : i < j => log.trace[i].t < log.trace[j].t
    /\ \A k \in DOMAIN log.actions : log.actions[k].t \in 1..now
    /\ \A k \in DOMAIN log.tests : log.tests[k] \in 1..now
    /\ log.recovery \in {None} \cup 0..now /\ log.lost \in {None, now}
    /\ (log.lost # None) = (\E k \in DOMAIN log.actions :
                             log.actions[k].fn = "declare_link_lost")

\* The log had the agent, whenever it abstained, leaned to c.
LeaningTo(c) ==
    [log EXCEPT !.trace = [i \in DOMAIN @ |->
       IF @[i].abstained THEN [@[i] EXCEPT !.top = c] ELSE @[i]]]

\* A refusal to classify is scored in no way: had the agent declined to name
\* any other cause, however sure of it, the episode's score would be the same,
\* whatever the true cause.
AbstentionNeverScored ==
    \A c, cause \in Causes :
       (\E i \in DOMAIN log.trace : log.trace[i].abstained /\ log.trace[i].top # c) =>
       LET truth == [cause |-> cause, onset |-> 1, recoverable |-> FALSE]
       IN  Score(LeaningTo(c), truth) = Score(log, truth)

\* A guess of one row, dropped in the next, is not what the agent is scored on
\* when it also acted on a claim it kept, unless recovery made it good.
HedgeForgiven ==
    \A i, m \in Confident(log) :
       LET w == Claim(log.trace[i]) IN
       (/\ log.recovery = None
        /\ i < Len(log.trace) /\ Claim(log.trace[i + 1]) # w
        /\ \A n \in Confident(log) \ {i} : Claim(log.trace[n]) # w
        /\ m # i /\ m + 1 \in Confident(log)
        /\ Claim(log.trace[m]) = Claim(log.trace[m + 1])
        /\ \E k \in DOMAIN log.actions : log.actions[k].t = log.trace[m].t)
          => Final(log) # w

\* Drift after the incident is resolved is not a new claim: once the last action
\* was followed by recovery, rows without an action leave the score alone.
DriftIsNoClaim ==
    [][(/\ Len(log.actions) > 0
        /\ Causal(log, Len(log.actions))
        /\ Prior(log, Len(log.actions)) # {}
        /\ log'.actions = log.actions)
          => Final(log') = Final(log)]_logVars

\* The log with every answer as the agent gave it, its calls as they were made.
AsAnswered == [log EXCEPT !.trace = said]

\* An agent that separates its posterior from its decision is scored on the
\* decision (verifier.py 71-74): that its calls are taken away changes what is
\* done, never what it is held to have claimed.
ScoredAsDecided ==
    \A cause \in Causes :
       LET truth == [cause |-> cause, onset |-> 1, recoverable |-> FALSE]
       IN  Score(log, truth) = Score(AsAnswered, truth)
=============================================================================
