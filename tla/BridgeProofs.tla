---------------------------- MODULE BridgeProofs ----------------------------
(***************************************************************************)
(* Theorems about the two processes of the live bridge, for every model,   *)
(* budget, cadence and deadline, over lines that do not parse, agents that *)
(* raise, a simulator that dies anywhere and read timeouts.                *)
(***************************************************************************)
EXTENDS Bridge, TLAPS

EnvP == INSTANCE EnvelopeProofs WITH
           alarmed <- onset # None,
           used <- [hops |-> used.hops, scans |-> used.scans, silent |-> used.silent,
                    moves |-> used.moves, costly |-> used.costly, lora |-> 0]

\* The arithmetic part of the assumption on the constants.
LEMMA Naturals ==
    /\ FirstTick \in Nat /\ FirstTick > 0 /\ LastTick \in Nat
    /\ DecisionEvery \in Nat /\ DecisionEvery > 0
    /\ NoLinkDeclare \in Nat /\ NoLinkDeclare > 0
    /\ Pdr \subseteq Nat /\ None \notin Nat /\ None \notin Messages /\ None \notin Calls
  BY BridgeAssumption DEF Times

-----------------------------------------------------------------------------
(* Lockstep: who may be where. *)

\* How far the two processes can be apart.  A message that has not been read and
\* an answer other than the refusal keep Python at its socket; a closed socket
\* means that it has left for good; and once it has declared, it does not come
\* back.
Phases ==
    /\ py = "preflight" => sim = "none"
    /\ py = "accepting" => sim \in {"launched", "alone", "ended"}
    /\ sim = "running" => py = "reading"
    /\ state # None => py = "reading"
    /\ reply \notin {None, "declare_link_lost"} => py = "reading"
    /\ closed \/ declared => py \in {"waiting", "returned", "failed"}

\* The samples lie in the past, and the present is within the episode.
Clock == lastT <= tick /\ tick >= FirstTick

BridgeInv == TypeOK /\ Phases /\ Lockstep /\ Clock

LEMMA BridgeStarts == Init => BridgeInv
<1> SUFFICES ASSUME Init PROVE BridgeInv
    OBVIOUS
<1> USE DEF Init
<1>1. TypeOK
  <2>1. tried \subseteq Hypotheses \X Remedies OBVIOUS
  <2>2. used \in [hops : Nat, scans : Nat, silent : Nat, moves : Nat, costly : Nat]
        BY DEF NothingUsed
  <2>3. {closed, pendingScan, declared} \subseteq BOOLEAN OBVIOUS
  <2>4. {tick, hopsMade, movesMade, deadFor, noLinkFor, lastT, noted} \subseteq Nat
        BY Naturals
  <2>5. QED BY <2>1, <2>2, <2>3, <2>4 DEF TypeOK
<1>2. Phases BY DEF Phases
<1>3. Lockstep BY DEF Lockstep
<1>4. Clock BY Naturals DEF Clock
<1>5. QED BY <1>1, <1>2, <1>3, <1>4 DEF BridgeInv

\* The steps that leave the messages and Python's state alone.
LEMMA SimulateKeeps == ASSUME BridgeInv, Simulate \/ Connect \/ Die PROVE BridgeInv'
<1>1. CASE Connect
  <2> USE <1>1 DEF Connect, BridgeInv, percept, health, ledger, socket
  <2>1. TypeOK' BY DEF TypeOK
  <2>2. Phases' BY DEF Phases
  <2>3. Lockstep' /\ Clock' BY DEF Lockstep, Clock
  <2>4. QED BY <2>1, <2>2, <2>3
<1>2. CASE ConnectFails
  <2> USE <1>2 DEF ConnectFails, BridgeInv, percept, health, ledger, socket
  <2>1. TypeOK' BY DEF TypeOK
  <2>2. Phases' BY DEF Phases
  <2>3. Lockstep' /\ Clock' BY DEF Lockstep, Clock
  <2>4. QED BY <2>1, <2>2, <2>3
<1>3. ASSUME NEW p \in Pdr, NEW legible \in {TRUE, ~MayGarble}, Send(p, legible)
      PROVE  BridgeInv'
  <2> USE <1>3 DEF Send, BridgeInv, percept, health, ledger
  <2>1. TypeOK' 
    <3>1. legible \in BOOLEAN BY BridgeAssumption
    <3>2. state' \in Messages BY <3>1 DEF TypeOK, Messages
    <3>3. deadFor' \in Nat BY DEF TypeOK
    <3>4. QED BY <3>2, <3>3 DEF TypeOK
  <2>2. Phases' BY DEF Phases
  <2>3. Lockstep' /\ Clock' BY DEF Lockstep, Clock
  <2>4. QED BY <2>1, <2>2, <2>3
<1>4. CASE Act
  <2> USE <1>4 DEF Act, BridgeInv, percept, health, ledger
  <2>1. state = None BY DEF Lockstep
  <2>2. TypeOK'
    <3>1. channel' \in Channels /\ hopsMade' \in Nat /\ movesMade' \in Nat
          BY DEF TypeOK, Perform
    <3>2. tick' \in Nat BY DEF TypeOK
    <3>3. QED BY <3>1, <3>2 DEF TypeOK
  <2>3. Phases' BY <2>1 DEF Phases
  <2>4. Lockstep' /\ Clock' BY <2>1, Naturals DEF Lockstep, Clock, TypeOK
  <2>5. QED BY <2>2, <2>3, <2>4
<1>5. CASE RecvFails
  <2> USE <1>5 DEF RecvFails, BridgeInv, percept, health, ledger, socket
  <2>1. state = None BY DEF Phases
  <2>2. TypeOK' BY DEF TypeOK
  <2>3. Phases' BY DEF Phases
  <2>4. Lockstep' /\ Clock' BY <2>1 DEF Lockstep, Clock
  <2>5. QED BY <2>2, <2>3, <2>4
<1>6. CASE Finish
  <2> USE <1>6 DEF Finish, BridgeInv, percept, health, ledger, socket
  <2>1. TypeOK' BY DEF TypeOK
  <2>2. Phases' BY DEF Phases
  <2>3. Lockstep' /\ Clock' BY DEF Lockstep, Clock
  <2>4. QED BY <2>1, <2>2, <2>3
<1>7. CASE Die
  <2> USE <1>7 DEF Die, BridgeInv, percept, health, ledger
  <2>1. TypeOK' BY DEF TypeOK
  <2>2. Phases' BY DEF Phases
  <2>3. Lockstep' /\ Clock' BY DEF Lockstep, Clock
  <2>4. QED BY <2>1, <2>2, <2>3
<1>8. QED BY <1>1, <1>2, <1>3, <1>4, <1>5, <1>6, <1>7 DEF Simulate

\* The ways in and out of Python's loop.
LEMMA ServeKeeps ==
    ASSUME BridgeInv, Launch \/ PreflightFails \/ Eof \/ WaitEnds \/ GiveUp \/ Skip
    PROVE  BridgeInv'
<1> USE DEF BridgeInv, world, socket, percept, health, ledger
<1>1. CASE Launch BY <1>1 DEF Launch, TypeOK, Phases, Lockstep, Clock
<1>2. CASE PreflightFails
      BY <1>2 DEF PreflightFails, TypeOK, Phases, Lockstep, Clock
<1>3. CASE AcceptGivesUp
      BY <1>3 DEF AcceptGivesUp, Kill, Raise, TypeOK, Phases, Lockstep, Clock
<1>4. CASE ReadTimeout
      BY <1>4 DEF ReadTimeout, Kill, Raise, TypeOK, Phases, Lockstep, Clock
<1>5. CASE Eof BY <1>5 DEF Eof, TypeOK, Phases, Lockstep, Clock
<1>6. CASE WaitEnds BY <1>6 DEF WaitEnds, TypeOK, Phases, Lockstep, Clock
<1>7. CASE Skip BY <1>7 DEF Skip, TypeOK, Phases, Lockstep, Clock
<1>8. QED BY <1>1, <1>2, <1>3, <1>4, <1>5, <1>6, <1>7 DEF GiveUp

\* What Python hears is the present of a simulator that waits for the answer, or
\* has died waiting; it has no answer yet.
LEMMA Hears ==
    ASSUME BridgeInv, Hear
    PROVE  /\ py = "reading" /\ state # None /\ state \in Messages
           /\ state.t = tick /\ state.channel = channel /\ state.pdr \in Pdr
           /\ sim \in {"awaiting", "ended"} /\ reply = None
           /\ ~closed /\ ~declared
           /\ state' = None
           /\ onset' \in Nat \cup {None} /\ noted' \in Nat
           /\ lastScan' \in Bands \cup {NoScan}
<1> USE DEF BridgeInv, Hear
<1>1. state \in Messages /\ state # None BY DEF TypeOK
<1>2. state.t \in Nat /\ state.pdr \in Pdr BY <1>1 DEF Messages
<1>3. py = "reading" /\ ~closed /\ ~declared BY DEF Phases
<1>4. /\ state.t = tick /\ state.channel = channel
      /\ sim \in {"awaiting", "ended"} /\ reply = None
      BY <1>1 DEF Lockstep
<1>5. onset' \in Nat \cup {None} BY <1>2 DEF TypeOK
<1>6. noted' \in Nat /\ lastScan' \in Bands \cup {NoScan} BY DEF NoteScan, TypeOK
<1>7. QED BY <1>1, <1>2, <1>3, <1>4, <1>5, <1>6

LEMMA Samples ==
    ASSUME BridgeInv, Hear, Sample
    PROVE  /\ lastT' = tick /\ noLinkFor' \in Nat
           /\ baseline' \in Pdr \cup {None}
           /\ {holdStart', recoveryT'} \subseteq Nat \cup {None}
<1>1. state.t = tick /\ state.pdr \in Pdr BY Hears
<1>2. lastT \in Nat /\ tick \in Nat /\ noLinkFor \in Nat /\ lastT <= tick
      BY DEF BridgeInv, TypeOK, Clock
<1>3. lastT' = tick /\ noLinkFor' \in Nat BY <1>1, <1>2 DEF Sample, SinceSample
<1>4. baseline' \in Pdr \cup {None} BY DEF Sample, BridgeInv, TypeOK
<1>5. {holdStart', recoveryT'} \subseteq Nat \cup {None}
      BY <1>1, <1>2 DEF Sample, BridgeInv, TypeOK
<1>6. QED BY <1>3, <1>4, <1>5

\* A message that was heard and answered, or at which Python failed: of the
\* variables that are not the handler's own, what BridgeInv needs.
LEMMA HeardKeeps ==
    ASSUME BridgeInv, Hear, NEW call \in Calls, NEW next \in {"reading", "waiting"},
           Answer(call, next) \/ (Raise /\ UNCHANGED reply),
           next = "reading" <=> call # "declare_link_lost",
           declared' \in BOOLEAN,
           declared' => declared \/ call = "declare_link_lost",
           UNCHANGED world,
           noLinkFor' \in Nat, lastT' \in {lastT, tick},
           baseline' \in Pdr \cup {None},
           {holdStart', recoveryT', prevScanT'} \subseteq Nat \cup {None},
           used' \in [hops : Nat, scans : Nat, silent : Nat, moves : Nat, costly : Nat],
           tried' \subseteq Hypotheses \X Remedies,
           pendingScan' \in BOOLEAN
    PROVE  BridgeInv'
<1>1. TypeOK
      BY DEF BridgeInv
<1>2. UNCHANGED <<sim, tick, channel, hopsMade, movesMade, deadFor>> BY DEF world
<1>3. /\ reply' \in {None, call} /\ closed' \in BOOLEAN
      /\ py' \in {"reading", "waiting", "failed"}
      BY Hears DEF Answer, Raise
<1>4. TypeOK'
  <2>1. {tick, hopsMade, movesMade, deadFor, noLinkFor, lastT, noted}' \subseteq Nat
        BY <1>1, <1>2, Hears DEF TypeOK
  <2>2. {onset, holdStart, recoveryT, prevScanT}' \subseteq Nat \cup {None}
        BY Hears
  <2>3. /\ sim' = sim /\ channel' = channel /\ state' = None
        /\ reply' \in Calls \cup {None}
        /\ lastScan' \in Bands \cup {NoScan}
        /\ {closed, pendingScan, declared}' \subseteq BOOLEAN
        BY <1>2, <1>3, Hears
  <2>4. QED BY <1>1, <1>3, <2>1, <2>2, <2>3 DEF TypeOK
<1>5. Phases' BY <1>2, Hears DEF Phases, Answer, Raise
<1>6. Lockstep' BY <1>2, Hears DEF Lockstep, Answer, Raise
<1>7. Clock' BY <1>2 DEF Clock, BridgeInv, TypeOK
<1>8. QED BY <1>4, <1>5, <1>6, <1>7 DEF BridgeInv

\* What the mask and the suppressor leave is a call of the contract.
LEMMA FilteredIsCall ==
    ASSUME NEW top, NEW call
    PROVE  /\ Filtered(top, call) \in Available
           /\ Filtered(top, call) \in Calls
  BY DEF Filtered, Available, Always, Calls, Hops, Moves, Diagnose

LEMMA CostTyped ==
    ASSUME BridgeInv, NEW c
    PROVE  Cost(c) \in [hops : Nat, scans : Nat, silent : Nat, moves : Nat, costly : Nat]
<1>1. used \in [hops : Nat, scans : Nat, silent : Nat, moves : Nat, costly : Nat]
      BY DEF BridgeInv, TypeOK
<1>2. /\ used.hops + 1 \in Nat /\ used.scans + 1 \in Nat /\ used.silent + 1 \in Nat
      /\ used.moves + 1 \in Nat /\ used.costly + 1 \in Nat /\ used.costly + 2 \in Nat
      BY <1>1
<1>3. CASE c \in Hops BY <1>1, <1>2, <1>3 DEF Cost
<1>4. CASE c \in Moves BY <1>1, <1>2, <1>4 DEF Cost, Hops, Moves
<1>5. CASE c \notin Hops /\ c \notin Moves BY <1>1, <1>2, <1>5 DEF Cost
<1>6. QED BY <1>3, <1>4, <1>5

LEMMA HandleKeeps == ASSUME BridgeInv, Handle PROVE BridgeInv'
<1>0. /\ declared \in BOOLEAN /\ TypeOK
      /\ noLinkFor \in Nat /\ baseline \in Pdr \cup {None}
      /\ {holdStart, recoveryT, prevScanT} \subseteq Nat \cup {None}
      /\ used \in [hops : Nat, scans : Nat, silent : Nat, moves : Nat, costly : Nat]
      /\ tried \subseteq Hypotheses \X Remedies
      BY DEF BridgeInv, TypeOK
<1>1. "no_op" \in Calls /\ "declare_link_lost" \in Calls BY DEF Calls, Always
<1>2. CASE OffCadence
      BY <1>0, <1>1, <1>2, HeardKeeps DEF OffCadence, health, ledger
<1>3. CASE FailsafeDeclare
  <2>1. Hear /\ Sample BY <1>3 DEF FailsafeDeclare
  <2>2. QED BY <1>0, <1>1, <1>3, <2>1, Samples, HeardKeeps DEF FailsafeDeclare, ledger
<1>4. CASE Gated
  <2>1. Hear /\ Sample BY <1>4 DEF Gated
  <2>2. QED BY <1>0, <1>1, <1>4, <2>1, Samples, HeardKeeps DEF Gated, ledger
<1>5. ASSUME NEW top \in Hypotheses, NEW call \in AgentCalls, Decide(top, call)
      PROVE  BridgeInv'
  <2> DEFINE c == Filtered(top, call)
             next == IF c = "declare_link_lost" THEN "waiting" ELSE "reading"
  <2>1. Hear /\ Sample /\ UNCHANGED world /\ Issue(top, c) BY <1>5 DEF Decide
  <2>2. c \in Calls BY FilteredIsCall
  <2> HIDE DEF c
  <2>3. /\ tried' \subseteq Hypotheses \X Remedies
        /\ used' \in [hops : Nat, scans : Nat, silent : Nat, moves : Nat, costly : Nat]
        /\ prevScanT' \in Nat \cup {None}
        /\ pendingScan' \in BOOLEAN
        /\ declared' = (c = "declare_link_lost")
        /\ Answer(c, next)
    <3>1. used' = Cost(c) /\ Answer(c, next) BY <2>1 DEF Issue
    <3>2. state.t \in Nat BY <2>1, Hears DEF Messages
    <3>3. prevScanT' \in Nat \cup {None} BY <1>0, <2>1, <3>2 DEF Issue
    <3>4. tried' \subseteq Hypotheses \X Remedies BY <1>0, <2>1 DEF Issue
    <3>5. pendingScan' = (c = "spectrum_scan") /\ declared' = (c = "declare_link_lost")
          BY <2>1 DEF Issue
    <3>6. QED BY <3>1, <3>3, <3>4, <3>5, CostTyped
  <2>4. next \in {"reading", "waiting"} /\ (next = "reading" <=> c # "declare_link_lost")
        OBVIOUS
  <2> HIDE DEF next
  <2>5. QED BY <1>0, <2>1, <2>2, <2>3, <2>4, Samples, HeardKeeps
<1>6. CASE AgentRaises
  <2>1. Hear /\ Sample BY <1>6 DEF AgentRaises
  <2>2. QED BY <1>0, <1>1, <1>6, <2>1, Samples, HeardKeeps DEF AgentRaises, ledger
<1>7. CASE Skip BY <1>7, ServeKeeps
<1>8. QED BY <1>2, <1>3, <1>4, <1>5, <1>6, <1>7 DEF Handle

LEMMA BridgeStep == BridgeInv /\ [Next]_vars => BridgeInv'
<1> SUFFICES ASSUME BridgeInv, [Next]_vars PROVE BridgeInv'
    OBVIOUS
<1>1. CASE UNCHANGED vars
      BY <1>1 DEF vars, world, socket, percept, health, ledger, BridgeInv, TypeOK,
                  Phases, Lockstep, Clock
<1>2. QED BY <1>1, SimulateKeeps, ServeKeeps, HandleKeeps DEF Next, Serve

LEMMA BridgeAlways == Spec => []BridgeInv
  BY BridgeStarts, BridgeStep, PTL DEF Spec

\* The state of both processes and of the socket between them keeps its type.
THEOREM BridgeTypeCorrect == Spec => []TypeOK
<1>1. BridgeInv => TypeOK BY DEF BridgeInv
<1>2. QED BY <1>1, BridgeAlways, PTL

\* "One reply per state message" (SYSTEM_EXPLAINED.md 3.2): whoever dies, raises or
\* gives up, a message and an answer are never in flight together, and what Python
\* decides on is the present of the simulator.
THEOREM LockstepKept == Spec => []Lockstep
<1>1. BridgeInv => Lockstep BY DEF BridgeInv
<1>2. QED BY <1>1, BridgeAlways, PTL

-----------------------------------------------------------------------------
(* What is bought is charged: hops, moves and scans. *)

LEMMA NoneIsNoCall == None # "hop_channel" /\ None # "move"
  BY Naturals DEF Calls, Hops, Moves

\* The charge of a call covers what the call does to the radio and the percept.
LEMMA Charged ==
    ASSUME BridgeInv, NEW c
    PROVE  /\ Cost(c).hops >= used.hops + (IF c = "hop_channel" THEN 1 ELSE 0)
           /\ Cost(c).moves >= used.moves + (IF c = "move" THEN 1 ELSE 0)
           /\ Cost(c).scans = used.scans + (IF c = "spectrum_scan" THEN 1 ELSE 0)
<1>1. used \in [hops : Nat, scans : Nat, silent : Nat, moves : Nat, costly : Nat]
      BY DEF BridgeInv, TypeOK
<1>2. "hop_channel" \in Hops /\ "move" \in Moves BY DEF Hops, Moves
<1>3. "spectrum_scan" \notin Hops /\ "spectrum_scan" \notin Moves BY DEF Hops, Moves
<1>4. "move" \notin Hops /\ "hop_channel" \notin Moves BY DEF Hops, Moves
<1>5. CASE c \in Hops BY <1>1, <1>2, <1>3, <1>4, <1>5 DEF Cost
<1>6. CASE c \in Moves /\ c \notin Hops BY <1>1, <1>2, <1>3, <1>4, <1>6 DEF Cost
<1>7. CASE c \notin Hops /\ c \notin Moves BY <1>1, <1>2, <1>7 DEF Cost
<1>8. QED BY <1>5, <1>6, <1>7

\* The simulator does what it was sent, and nothing else.
LEMMA SimulatePays ==
    ASSUME BridgeInv, NothingUnpaid, Simulate \/ Connect \/ Die
    PROVE  NothingUnpaid'
<1>1. /\ hopsMade \in Nat /\ movesMade \in Nat
      /\ used \in [hops : Nat, scans : Nat, silent : Nat, moves : Nat, costly : Nat]
      BY DEF BridgeInv, TypeOK
<1>2. CASE Act
  <2>1. reply' = None /\ used' = used BY <1>2 DEF Act, ledger
  <2>2. /\ hopsMade' = hopsMade + (IF reply = "hop_channel" THEN 1 ELSE 0)
        /\ movesMade' = movesMade + (IF reply = "move" THEN 1 ELSE 0)
        BY <1>1, <1>2 DEF Act, Perform
  <2>3. QED BY <1>1, <2>1, <2>2, NoneIsNoCall DEF NothingUnpaid
<1>3. CASE ~Act
  <2>1. UNCHANGED <<hopsMade, movesMade, used>> /\ reply' \in {reply, None}
        BY <1>3 DEF Simulate, Connect, ConnectFails, Send, RecvFails, Finish, Die,
                    socket, ledger
  <2>2. QED BY <1>1, <2>1, NoneIsNoCall DEF NothingUnpaid
<1>4. QED BY <1>2, <1>3

\* Python charges before it answers, and an answer that is never read was charged.
LEMMA ServePays ==
    ASSUME BridgeInv, NothingUnpaid, Serve \/ GiveUp
    PROVE  NothingUnpaid'
<1>1. /\ hopsMade \in Nat /\ movesMade \in Nat
      /\ used \in [hops : Nat, scans : Nat, silent : Nat, moves : Nat, costly : Nat]
      BY DEF BridgeInv, TypeOK
<1>2. ASSUME NEW top \in Hypotheses, NEW call \in AgentCalls, Decide(top, call)
      PROVE  NothingUnpaid'
  <2> DEFINE c == Filtered(top, call)
  <2>1. Hear /\ UNCHANGED world /\ Issue(top, c) BY <1>2 DEF Decide
  <2> HIDE DEF c
  <2>2. reply = None /\ reply' \in {None, c} BY <2>1, Hears DEF Issue, Answer
  <2>3. used' = Cost(c) /\ UNCHANGED <<hopsMade, movesMade>> BY <2>1 DEF Issue, world
  <2>4. Cost(c) \in [hops : Nat, scans : Nat, silent : Nat, moves : Nat, costly : Nat]
        BY CostTyped
  <2>5. hopsMade <= used.hops /\ movesMade <= used.moves
        BY <1>1, <2>2, NoneIsNoCall DEF NothingUnpaid
  <2>6. QED BY <1>1, <2>2, <2>3, <2>4, <2>5, Charged, NoneIsNoCall DEF NothingUnpaid
<1>3. ASSUME OffCadence \/ FailsafeDeclare \/ Gated \/ AgentRaises PROVE NothingUnpaid'
  <2>1. reply' \in {reply, None, "no_op", "declare_link_lost"}
        BY <1>3 DEF OffCadence, FailsafeDeclare, Gated, AgentRaises, Answer
  <2>2. UNCHANGED <<hopsMade, movesMade, used>>
        BY <1>3 DEF OffCadence, FailsafeDeclare, Gated, AgentRaises, world, ledger
  <2>3. QED BY <1>1, <2>1, <2>2, NoneIsNoCall DEF NothingUnpaid
<1>4. ASSUME Launch \/ PreflightFails \/ Skip \/ Eof \/ WaitEnds \/ GiveUp
      PROVE  NothingUnpaid'
  <2>1. /\ UNCHANGED <<hopsMade, movesMade, used>>
        /\ reply' \in {reply, None}
        BY <1>4 DEF Launch, PreflightFails, Skip, Eof, WaitEnds, GiveUp, AcceptGivesUp,
                    ReadTimeout, Kill, world, socket, ledger
  <2>2. QED BY <1>1, <2>1, NoneIsNoCall DEF NothingUnpaid
<1>5. QED BY <1>2, <1>3, <1>4 DEF Serve, Handle

\* The simulator makes no hop and no move the ledger has not been charged for,
\* the one in flight included: however a session ends, what it cost is on the books
\* of Python before the radio does it.
THEOREM NothingUnpaidFor == Spec => []NothingUnpaid
<1>1. Init => NothingUnpaid
      BY NoneIsNoCall DEF Init, NothingUnpaid, NothingUsed
<1>2. BridgeInv /\ NothingUnpaid /\ [Next]_vars => NothingUnpaid'
  <2>1. ASSUME NothingUnpaid, UNCHANGED vars PROVE NothingUnpaid'
        BY <2>1 DEF vars, world, socket, ledger, NothingUnpaid
  <2>2. QED BY <2>1, SimulatePays, ServePays DEF Next
<1>3. QED BY <1>1, <1>2, BridgeAlways, PTL DEF Spec

\* Every message that is heard pays out the scan that is pending.
LEMMA HearPays ==
    ASSUME BridgeInv, SpectrumIsBought, Hear
    PROVE  noted' = used.scans /\ used.scans \in Nat
<1>1. noted \in Nat /\ used.scans \in Nat /\ pendingScan \in BOOLEAN
      BY DEF BridgeInv, TypeOK
<1>2. noted' = noted + (IF pendingScan THEN 1 ELSE 0) BY <1>1 DEF Hear, NoteScan
<1>3. QED BY <1>1, <1>2 DEF SpectrumIsBought

\* The percept is given the spectrum exactly once for every scan paid for, across
\* lines dropped, sessions broken off and decisions that raise (line 279).
THEOREM SpectrumBoughtOnce == Spec => []SpectrumIsBought
<1>1. Init => SpectrumIsBought
      BY DEF Init, SpectrumIsBought, NothingUsed
<1>2. BridgeInv /\ SpectrumIsBought /\ [Next]_vars => SpectrumIsBought'
  <2> SUFFICES ASSUME BridgeInv, SpectrumIsBought, [Next]_vars
               PROVE  SpectrumIsBought'
      OBVIOUS
  <2>1. ASSUME NEW top \in Hypotheses, NEW call \in AgentCalls, Decide(top, call)
        PROVE  SpectrumIsBought'
    <3> DEFINE c == Filtered(top, call)
    <3>1. Hear /\ Issue(top, c) BY <2>1 DEF Decide
    <3> HIDE DEF c
    <3>2. used' = Cost(c) /\ pendingScan' = (c = "spectrum_scan") BY <3>1 DEF Issue
    <3>3. QED BY <3>1, <3>2, HearPays, Charged DEF SpectrumIsBought
  <2>2. ASSUME OffCadence \/ FailsafeDeclare \/ Gated \/ AgentRaises
        PROVE  SpectrumIsBought'
    <3>1. Hear /\ pendingScan' = FALSE /\ UNCHANGED used
          BY <2>2 DEF OffCadence, FailsafeDeclare, Gated, AgentRaises, ledger
    <3>2. QED BY <3>1, HearPays DEF SpectrumIsBought
  <2>3. ASSUME UNCHANGED <<percept, ledger>> PROVE SpectrumIsBought'
        BY <2>3 DEF percept, ledger, SpectrumIsBought
  <2>4. UNCHANGED vars => UNCHANGED <<percept, ledger>> BY DEF vars
  <2>5. Connect \/ Simulate \/ Die => UNCHANGED <<percept, ledger>>
        BY DEF Connect, Simulate, ConnectFails, Send, Act, RecvFails, Finish, Die
  <2>6. Launch \/ PreflightFails \/ Skip \/ Eof \/ WaitEnds \/ GiveUp
           => UNCHANGED <<percept, ledger>>
        BY DEF Launch, PreflightFails, Skip, Eof, WaitEnds, GiveUp, AcceptGivesUp,
               ReadTimeout
  <2>7. QED BY <2>1, <2>2, <2>3, <2>4, <2>5, <2>6 DEF Next, Serve, Handle
<1>3. QED BY <1>1, <1>2, BridgeAlways, PTL DEF Spec

-----------------------------------------------------------------------------
(* Refinement of the envelope. *)

\* The ledger of the bridge is one of the envelope with nothing charged to a second
\* radio; a charge of two of its entries, entry by entry.
LEMMA TwoEntries ==
    ASSUME NEW r \in Env!Spend
    PROVE  /\ [r EXCEPT !.hops = @ + 1, !.costly = @ + 1]
                = [hops |-> r.hops + 1, scans |-> r.scans, silent |-> r.silent,
                   moves |-> r.moves, costly |-> r.costly + 1, lora |-> r.lora]
           /\ [r EXCEPT !.moves = @ + 1, !.costly = @ + 2]
                = [hops |-> r.hops, scans |-> r.scans, silent |-> r.silent,
                   moves |-> r.moves + 1, costly |-> r.costly + 2, lora |-> r.lora]
<1>1. ASSUME NEW q, q = [r EXCEPT !.hops = @ + 1, !.costly = @ + 1]
      PROVE  q = [hops |-> r.hops + 1, scans |-> r.scans, silent |-> r.silent,
                 moves |-> r.moves, costly |-> r.costly + 1, lora |-> r.lora]
      BY <1>1 DEF Env!Spend
<1>2. ASSUME NEW q, q = [r EXCEPT !.moves = @ + 1, !.costly = @ + 2]
      PROVE  q = [hops |-> r.hops, scans |-> r.scans, silent |-> r.silent,
                 moves |-> r.moves + 1, costly |-> r.costly + 2, lora |-> r.lora]
      BY <1>2 DEF Env!Spend
<1>3. QED BY <1>1, <1>2, Zenon

\* What the mask offers, charged with the gate open and the link not declared
\* lost, is a charge of the envelope, its refusal, or nothing to it.
LEMMA IssueRefines ==
    ASSUME BridgeInv, ~declared, onset' # None,
           NEW c \in Available, used' = Cost(c), declared' = (c = "declare_link_lost")
    PROVE  Env!Charge \/ Env!Declare \/ UNCHANGED <<declared, used>>
<1>1. /\ used \in [hops : Nat, scans : Nat, silent : Nat, moves : Nat, costly : Nat]
      /\ declared = FALSE
      BY DEF BridgeInv, TypeOK
<1>2. CASE c \in Hops
  <2>1. /\ c \notin Always /\ c \notin Moves
        /\ c \notin {"declare_link_lost", "spectrum_scan", "silent_listen"}
        BY <1>2 DEF Hops, Always, Moves
  <2>2. used.hops < MaxHops /\ CostlyLeft BY <1>2, <2>1 DEF Available
  <2>3. used' = [hops |-> used.hops + 1, scans |-> used.scans, silent |-> used.silent,
                 moves |-> used.moves, costly |-> used.costly + 1]
        BY <1>1, <1>2, <2>1 DEF Cost
  <2>4. Env!ChargeHop
    <3>1. Env!CostlyLeft BY <2>2 DEF Env!CostlyLeft, CostlyLeft
    <3> DEFINE r == [hops |-> used.hops, scans |-> used.scans, silent |-> used.silent,
                     moves |-> used.moves, costly |-> used.costly, lora |-> 0]
    <3>2. r \in Env!Spend BY <1>1 DEF Env!Spend
    <3>3. [r EXCEPT !.hops = @ + 1, !.costly = @ + 1]
             = [hops |-> r.hops + 1, scans |-> r.scans, silent |-> r.silent,
                moves |-> r.moves, costly |-> r.costly + 1, lora |-> r.lora]
          BY <3>2, TwoEntries
    <3>4. QED BY <2>2, <2>3, <3>1, <3>3 DEF Env!ChargeHop
  <2>5. QED BY <1>1, <2>1, <2>4 DEF Env!Charge
<1>3. CASE c \in Moves
  <2>1. /\ c \notin Always /\ c \notin Hops
        /\ c \notin {"declare_link_lost", "spectrum_scan", "silent_listen"}
        BY <1>3 DEF Hops, Always, Moves
  <2>2. used.moves < MaxMoves /\ CostlyLeft BY <1>3, <2>1 DEF Available
  <2>3. used' = [hops |-> used.hops, scans |-> used.scans, silent |-> used.silent,
                 moves |-> used.moves + 1, costly |-> used.costly + 2]
        BY <1>1, <1>3, <2>1 DEF Cost
  <2>4. Env!ChargeMove
    <3>1. Env!CostlyLeft BY <2>2 DEF Env!CostlyLeft, CostlyLeft
    <3> DEFINE r == [hops |-> used.hops, scans |-> used.scans, silent |-> used.silent,
                     moves |-> used.moves, costly |-> used.costly, lora |-> 0]
    <3>2. r \in Env!Spend BY <1>1 DEF Env!Spend
    <3>3. [r EXCEPT !.moves = @ + 1, !.costly = @ + 2]
             = [hops |-> r.hops, scans |-> r.scans, silent |-> r.silent,
                moves |-> r.moves + 1, costly |-> r.costly + 2, lora |-> r.lora]
          BY <3>2, TwoEntries
    <3>4. QED BY <2>2, <2>3, <3>1, <3>3 DEF Env!ChargeMove, Env!MoveCost
  <2>5. QED BY <1>1, <2>1, <2>4 DEF Env!Charge
<1>4. CASE c = "spectrum_scan"
  <2>1. c \notin Always /\ c \notin Hops /\ c \notin Moves
        BY <1>4 DEF Hops, Always, Moves
  <2>2. used.scans < MaxScans BY <1>4, <2>1 DEF Available
  <2>3. used' = [used EXCEPT !.scans = @ + 1] BY <1>4, <2>1 DEF Cost
  <2>4. Env!ChargeScan BY <1>1, <2>2, <2>3 DEF Env!ChargeScan
  <2>5. QED BY <1>1, <1>4, <2>4 DEF Env!Charge
<1>5. CASE c = "silent_listen"
  <2>1. c \notin Always /\ c \notin Hops /\ c \notin Moves
        BY <1>5 DEF Hops, Always, Moves
  <2>2. used.silent < MaxSilent BY <1>5, <2>1 DEF Available
  <2>3. used' = [used EXCEPT !.silent = @ + 1] BY <1>5, <2>1 DEF Cost
  <2>4. Env!ChargeSilent BY <1>1, <2>2, <2>3 DEF Env!ChargeSilent
  <2>5. QED BY <1>1, <1>5, <2>4 DEF Env!Charge
<1>6. CASE c = "declare_link_lost"
  <2>1. used' = used BY <1>6 DEF Cost, Hops, Moves
  <2>2. QED BY <1>1, <1>6, <2>1 DEF Env!Declare
<1>7. CASE c \in Always
  <2>1. used' = used BY <1>7 DEF Cost, Always, Hops, Moves
  <2>2. c # "declare_link_lost" BY <1>7 DEF Always
  <2>3. QED BY <1>1, <2>1, <2>2
<1>8. QED BY <1>2, <1>3, <1>4, <1>5, <1>6, <1>7 DEF Available

\* Hearing a message only ever opens the gate.
LEMMA HearGate ==
    ASSUME BridgeInv, Hear
    PROVE  onset' # onset => onset = None /\ onset' # None
<1>1. state.t \in Nat BY Hears DEF Messages
<1>2. QED BY <1>1, Naturals DEF Hear

\* Every step of the two processes is a step of the envelope or stutters in it.
LEMMA StepRefines == BridgeInv /\ [Next]_vars => [Env!EnvNext]_(Env!envVars)
<1> SUFFICES ASSUME BridgeInv, [Next]_vars PROVE [Env!EnvNext]_(Env!envVars)
    OBVIOUS
<1>1. ASSUME UNCHANGED <<declared, used>>, onset' # onset => onset = None /\ onset' # None
      PROVE  [Env!EnvNext]_(Env!envVars)
      BY <1>1 DEF Env!EnvNext, Env!Alarm, Env!envVars
<1>2. ASSUME UNCHANGED <<declared, used, onset>> PROVE [Env!EnvNext]_(Env!envVars)
      BY <1>1, <1>2
<1>3. ASSUME NEW top \in Hypotheses, NEW call \in AgentCalls, Decide(top, call)
      PROVE  [Env!EnvNext]_(Env!envVars)
  <2> DEFINE c == Filtered(top, call)
  <2>1. Hear /\ onset' # None /\ Issue(top, c) BY <1>3 DEF Decide, GateClosed
  <2>2. c \in Available BY FilteredIsCall
  <2> HIDE DEF c
  <2>3. ~declared BY <2>1, Hears
  <2>4. used' = Cost(c) /\ declared' = (c = "declare_link_lost") BY <2>1 DEF Issue
  <2>5. Env!Charge \/ Env!Declare \/ UNCHANGED <<declared, used>>
        BY <2>1, <2>2, <2>3, <2>4, IssueRefines
  <2>6. QED BY <1>1, <2>1, <2>5, HearGate DEF Env!EnvNext
<1>4. CASE FailsafeDeclare
  <2>1. Hear /\ declared' = TRUE /\ UNCHANGED used
        BY <1>4 DEF FailsafeDeclare, ledger
  <2>2. ~declared BY <2>1, Hears
  <2>3. Env!Declare BY <2>1, <2>2, HearGate DEF Env!Declare
  <2>4. QED BY <2>3 DEF Env!EnvNext
<1>5. ASSUME OffCadence \/ Gated \/ AgentRaises PROVE [Env!EnvNext]_(Env!envVars)
  <2>1. Hear /\ UNCHANGED <<declared, used>>
        BY <1>5 DEF OffCadence, Gated, AgentRaises, ledger
  <2>2. QED BY <1>1, <2>1, HearGate
<1>6. CASE Connect \/ Simulate \/ Die
      BY <1>2, <1>6 DEF Connect, Simulate, ConnectFails, Send, Act, RecvFails, Finish,
                        Die, percept, ledger
<1>7. CASE Launch \/ PreflightFails \/ Skip \/ Eof \/ WaitEnds \/ GiveUp
      BY <1>2, <1>7 DEF Launch, PreflightFails, Skip, Eof, WaitEnds, GiveUp,
                        AcceptGivesUp, ReadTimeout, percept, ledger
<1>8. CASE UNCHANGED vars
      BY <1>2, <1>8 DEF vars, percept, ledger
<1>9. QED BY <1>3, <1>4, <1>5, <1>6, <1>7, <1>8 DEF Next, Serve, Handle

\* The live bridge, a program of its own, implements the envelope that the
\* controller of the reference simulator implements: every charge is allowed by it,
\* after the gate and before the refusal, whatever either process does.
THEOREM BridgeKeepsEnvelope == Spec => EnvelopeKept
<1>1. Init => Env!EnvInit
      BY DEF Init, NothingUsed, Env!EnvInit, Env!NothingSpent
<1>2. QED BY <1>1, StepRefines, BridgeAlways, PTL DEF Spec, EnvelopeKept, Env!EnvSpec

\* Hence each budget of the contract holds in a live episode too, but for the one
\* unit a last move can overshoot; the charges add up; and before the anomaly gate
\* has fired nothing is spent.
THEOREM LiveBudgetsKept ==
    Spec => [](Env!WithinBudget /\ Env!Accounted /\ Env!QuietBeforeAlarm)
<1>0. EnvP!BudgetsAreNat BY BridgeAssumption DEF EnvP!BudgetsAreNat
<1>1. Init => EnvP!EnvInv
  <2>1. Init => EnvP!EnvInit
        BY DEF Init, NothingUsed, EnvP!EnvInit, EnvP!NothingSpent
  <2>2. QED BY <1>0, <2>1, EnvP!EnvInvInit
<1>2. [Env!EnvNext]_(Env!envVars) => [EnvP!EnvNext]_(EnvP!envVars)
      BY DEF EnvP!EnvNext, Env!EnvNext, EnvP!Charge, Env!Charge, EnvP!Alarm, Env!Alarm,
             EnvP!Declare, Env!Declare, EnvP!ChargeScan, Env!ChargeScan,
             EnvP!ChargeSilent, Env!ChargeSilent, EnvP!ChargeHop, Env!ChargeHop,
             EnvP!ChargeMove, Env!ChargeMove, EnvP!ChargeLora, Env!ChargeLora,
             EnvP!CostlyLeft, Env!CostlyLeft, EnvP!MoveCost, Env!MoveCost,
             EnvP!envVars, Env!envVars
<1>3. EnvP!EnvInv /\ [EnvP!EnvNext]_(EnvP!envVars) => EnvP!EnvInv'
      BY <1>0, EnvP!EnvInvStep
<1>4. EnvP!EnvInv => Env!WithinBudget /\ Env!Accounted /\ Env!QuietBeforeAlarm
      BY DEF EnvP!EnvInv, EnvP!WithinBudget, Env!WithinBudget, EnvP!MoveCost,
             Env!MoveCost, EnvP!Accounted, Env!Accounted, EnvP!QuietBeforeAlarm,
             Env!QuietBeforeAlarm, EnvP!NothingSpent, Env!NothingSpent
<1>5. QED BY <1>1, <1>2, <1>3, <1>4, StepRefines, BridgeAlways, PTL DEF Spec

-----------------------------------------------------------------------------
(* The failsafe of the live bridge. *)

\* Quotient and remainder are unique.
LEMMA DivisionUnique ==
    ASSUME NEW a \in Nat, NEW b \in Nat, NEW d \in Nat, d > 0,
           NEW x \in 0..(d - 1), NEW y \in 0..(d - 1), d * a + x = d * b + y
    PROVE  x = y
<1>1. CASE a < b
  <2>1. PICK k \in Nat : b = a + k + 1
        BY <1>1, b = a + (b - a - 1) + 1, b - a - 1 \in Nat
  <2>2. d * b = d * a + d * k + d BY <2>1
  <2>3. d * k \in Nat /\ d * a \in Nat OBVIOUS
  <2>4. QED BY <2>2, <2>3
<1>2. CASE b < a
  <2>1. PICK k \in Nat : a = b + k + 1
        BY <1>2, a = b + (a - b - 1) + 1, a - b - 1 \in Nat
  <2>2. d * a = d * b + d * k + d BY <2>1
  <2>3. d * k \in Nat /\ d * b \in Nat OBVIOUS
  <2>4. QED BY <2>2, <2>3
<1>3. QED BY <1>1, <1>2

\* A message that is not on the decision cadence is one further from the last one
\* that was.
LEMMA OffTheCadence ==
    ASSUME NEW t \in Nat, NEW d \in Nat, d > 0, t > 0, t % d # 0
    PROVE  t % d = ((t - 1) % d) + 1
<1>1. t % d \in 0..(d - 1) /\ t = d * (t \div d) + (t % d) /\ t \div d \in Nat
      OBVIOUS
<1>2. t - 1 \in Nat
      OBVIOUS
<1>3. /\ (t - 1) % d \in 0..(d - 1) /\ (t - 1) \div d \in Nat
      /\ t - 1 = d * ((t - 1) \div d) + ((t - 1) % d)
      BY <1>2
<1>4. (t % d) - 1 \in 0..(d - 1) BY <1>1
<1>5. d * (t \div d) \in Nat /\ d * ((t - 1) \div d) \in Nat BY <1>1, <1>3
<1>6. d * (t \div d) + ((t % d) - 1) = d * ((t - 1) \div d) + ((t - 1) % d)
      BY <1>1, <1>3, <1>5
<1>7. (t % d) - 1 = (t - 1) % d BY <1>1, <1>3, <1>4, <1>6, DivisionUnique
<1>8. QED BY <1>1, <1>3, <1>7

\* The last message Python has answered, and the last one it has sampled; the first
\* sample counts from the start of the simulation.
Answered == IF reply # None THEN tick ELSE tick - 1
Sampled == IF lastT < FirstTick THEN FirstTick - 1 ELSE lastT

\* The messages in a row that showed no link, but for the one that is on its way,
\* are in the failsafe's timer or were heard since its last sample, which is no older
\* than the decision cadence.
Timed ==
    /\ Answered - Sampled <= Answered % DecisionEvery
    /\ (IF state # None THEN deadFor - 1 ELSE deadFor) <= noLinkFor + (Answered - Sampled)

\* A message that was dropped as illegible is never answered: what it showed is
\* bounded, but no longer timed.
LinkInv ==
    /\ py \in {"preflight", "accepting"} =>
          tick = FirstTick /\ deadFor = 0 /\ noLinkFor = 0 /\ lastT = 0
    /\ py = "reading" =>
          /\ noLinkFor < NoLinkDeclare
          /\ state = None => deadFor < NoLinkDeclare + DecisionEvery
          /\ state # None /\ state.pdr > UsablePdr => deadFor = 0
          /\ sim = "running" \/ state # None \/ reply # None => Timed

\* The numbers LinkInv is about.
LEMMA LinkNumbers ==
    ASSUME BridgeInv
    PROVE  /\ {tick, deadFor, noLinkFor, lastT} \subseteq Nat
           /\ FirstTick \in Nat /\ FirstTick > 0 /\ tick >= FirstTick /\ lastT <= tick
           /\ NoLinkDeclare \in Nat /\ NoLinkDeclare > 0
           /\ DecisionEvery \in Nat /\ DecisionEvery > 0
           /\ Sampled \in Nat /\ lastT <= Sampled /\ Sampled <= tick
           /\ Answered \in Nat /\ tick % DecisionEvery \in 0..(DecisionEvery - 1)
           /\ Answered % DecisionEvery \in 0..(DecisionEvery - 1)
<1>1. /\ {tick, deadFor, noLinkFor, lastT} \subseteq Nat
      /\ tick >= FirstTick /\ lastT <= tick
      BY DEF BridgeInv, TypeOK, Clock
<1>2. Sampled \in Nat /\ lastT <= Sampled /\ Sampled <= tick
      BY <1>1, Naturals DEF Sampled
<1>3. Answered \in Nat BY <1>1, Naturals DEF Answered
<1>4. \A t \in Nat : t % DecisionEvery \in 0..(DecisionEvery - 1) BY Naturals
<1>5. QED BY <1>1, <1>2, <1>3, <1>4, Naturals

\* What the simulator showed and Python has timed is short of the deadline.
LEMMA TimedIsShort ==
    ASSUME BridgeInv, Timed, noLinkFor < NoLinkDeclare
    PROVE  deadFor <= NoLinkDeclare + DecisionEvery - 1
<1>1. Answered - Sampled <= DecisionEvery - 1 BY LinkNumbers DEF Timed
<1>2. deadFor - 1 <= noLinkFor + (Answered - Sampled)
      BY LinkNumbers DEF Timed
<1>3. CASE state = None BY <1>1, <1>3, LinkNumbers DEF Timed
<1>4. CASE state # None
  <2>1. QED BY <1>1, <1>2, <1>4, LinkNumbers
<1>5. QED BY <1>3, <1>4

\* Nothing the timer is about changes.
LEMMA LinkUntouched ==
    ASSUME LinkInv, UNCHANGED <<tick, deadFor, noLinkFor, lastT, state>>,
           reply' = reply \/ (reply' = None /\ (sim' # "running" /\ state = None)),
           py' \in {py, "waiting", "returned", "failed"},
           sim' = "running" => sim = "running"
    PROVE  LinkInv'
<1>1. CASE py' # "reading"
      BY <1>1 DEF LinkInv
<1>2. CASE py' = "reading" /\ reply' = reply
  <2>1. Timed' = Timed BY <1>2 DEF Timed, Answered, Sampled
  <2>2. QED BY <1>2, <2>1 DEF LinkInv
<1>3. CASE py' = "reading" /\ reply' = None /\ sim' # "running" /\ state = None
      BY <1>3 DEF LinkInv
<1>4. QED BY <1>1, <1>2, <1>3

LEMMA SimulateTimes ==
    ASSUME BridgeInv, LinkInv, Simulate \/ Connect \/ Die
    PROVE  LinkInv'
<1>0. Phases /\ Lockstep BY DEF BridgeInv
<1>1. CASE Connect
  <2>1. /\ state = None /\ reply = None /\ py' = "reading"
        /\ UNCHANGED <<tick, deadFor, noLinkFor, lastT, state, reply>>
        /\ tick = FirstTick /\ deadFor = 0 /\ noLinkFor = 0 /\ lastT = 0
        BY <1>0, <1>1 DEF Connect, socket, health, Phases, Lockstep, LinkInv
  <2>2. Sampled = FirstTick - 1 /\ Answered = FirstTick - 1
        BY <2>1, LinkNumbers DEF Sampled, Answered
  <2>3. Timed BY <2>1, <2>2, LinkNumbers DEF Timed
  <2>4. Timed' = Timed BY <2>1 DEF Timed, Answered, Sampled
  <2>5. QED BY <2>1, <2>3, <2>4, LinkNumbers DEF LinkInv
<1>2. ASSUME NEW p \in Pdr, NEW legible \in {TRUE, ~MayGarble}, Send(p, legible)
      PROVE  LinkInv'
  <2>1. state = None /\ reply = None /\ py = "reading" /\ sim = "running"
        BY <1>0, <1>2 DEF Lockstep, Phases, Send
  <2>2. /\ UNCHANGED <<tick, noLinkFor, lastT, reply>> /\ py' = py
        /\ state' = [t |-> tick, pdr |-> p, channel |-> channel, legible |-> legible]
        /\ deadFor' = IF p > UsablePdr THEN 0 ELSE deadFor + 1
        BY <1>2 DEF Send, health
  <2>3. state' # None /\ state'.pdr = p
    <3>1. legible \in BOOLEAN BY BridgeAssumption
    <3>2. state' \in Messages BY <2>2, <3>1 DEF BridgeInv, TypeOK, Messages
    <3>3. QED BY <2>2, <3>2, Naturals
  <2>4. Timed BY <2>1 DEF LinkInv
  <2>5. Answered' = Answered /\ Sampled' = Sampled /\ Answered = tick - 1
        BY <2>1, <2>2 DEF Answered, Sampled
  <2>6. deadFor' - 1 <= noLinkFor + (Answered - Sampled)
    <3>1. CASE p > UsablePdr BY <2>2, <2>5, <3>1, LinkNumbers
    <3>2. CASE ~(p > UsablePdr)
      <4>1. deadFor <= noLinkFor + (Answered - Sampled) BY <2>1, <2>4 DEF Timed
      <4>2. QED BY <2>2, <3>2, <4>1, LinkNumbers
    <3>3. QED BY <3>1, <3>2
  <2>7. Timed' BY <2>2, <2>3, <2>4, <2>5, <2>6 DEF Timed
  <2>8. QED BY <2>1, <2>2, <2>3, <2>7 DEF LinkInv
<1>3. CASE Act
  <2>1. /\ reply # None /\ sim = "awaiting" /\ reply' = None
        /\ UNCHANGED <<deadFor, noLinkFor, lastT, state, py>>
        BY <1>3 DEF Act, health
  <2>2. state = None BY <1>0, <2>1 DEF Lockstep
  <2>3. py # "preflight" /\ py # "accepting"
        BY <1>0, <2>1 DEF Phases
  <2>4. CASE sim' = "running"
    <3>1. tick' = tick + 1 /\ reply # "declare_link_lost" BY <1>3, <2>4 DEF Act
    <3>2. py = "reading" BY <1>0, <2>1, <3>1 DEF Phases
    <3>3. Timed BY <2>1, <3>2 DEF LinkInv
    <3>4. Answered' = Answered /\ Sampled' = Sampled
          BY <2>1, <3>1, LinkNumbers DEF Answered, Sampled
    <3>5. Timed' BY <2>1, <3>3, <3>4 DEF Timed
    <3>6. QED BY <2>1, <2>2, <3>2, <3>5 DEF LinkInv
  <2>5. CASE sim' # "running"
        BY <2>1, <2>2, <2>3, <2>5 DEF LinkInv
  <2>6. QED BY <2>4, <2>5
<1>4. CASE ConnectFails \/ RecvFails \/ Finish
      BY <1>4, LinkUntouched DEF ConnectFails, RecvFails, Finish, socket, health
<1>5. CASE Die
  <2>1. state # None => reply = None BY <1>0 DEF Lockstep
  <2>2. QED BY <1>5, <2>1, LinkUntouched DEF Die, health
<1>6. QED BY <1>1, <1>2, <1>3, <1>4, <1>5 DEF Simulate

\* The ways in and out of Python's loop.
LEMMA ServeTimes ==
    ASSUME BridgeInv, LinkInv,
           Launch \/ PreflightFails \/ Eof \/ WaitEnds \/ GiveUp \/ Skip
    PROVE  LinkInv'
<1>0. Phases /\ Lockstep BY DEF BridgeInv
<1>1. CASE Launch
      BY <1>1 DEF Launch, LinkInv, socket, health
<1>2. CASE PreflightFails
      BY <1>2, LinkUntouched DEF PreflightFails, world, socket, health
<1>3. CASE Eof BY <1>3, LinkUntouched DEF Eof, world, health
<1>4. CASE WaitEnds BY <1>4, LinkUntouched DEF WaitEnds, world, socket, health
<1>5. CASE GiveUp
  <2>1. /\ UNCHANGED <<tick, deadFor, noLinkFor, lastT, state>> /\ py' = "failed"
        BY <1>5 DEF GiveUp, AcceptGivesUp, ReadTimeout, Raise, health
  <2>2. QED BY <2>1 DEF LinkInv
<1>6. CASE Skip
  <2>1. /\ py = "reading" /\ state # None /\ state' = None
        /\ UNCHANGED <<tick, deadFor, noLinkFor, lastT, reply, sim, py>>
        BY <1>6 DEF Skip, world, health
  <2>2. Timed /\ noLinkFor < NoLinkDeclare BY <2>1 DEF LinkInv
  <2>3. deadFor < NoLinkDeclare + DecisionEvery BY <2>2, TimedIsShort, LinkNumbers
  <2>4. reply = None /\ sim # "running" BY <1>0, <2>1 DEF Lockstep
  <2>5. QED BY <2>1, <2>2, <2>3, <2>4 DEF LinkInv
<1>7. QED BY <1>1, <1>2, <1>3, <1>4, <1>5, <1>6

\* What the failsafe lets pass at a sample has all been timed.
LEMMA SampleTimes ==
    ASSUME BridgeInv, LinkInv, Hear, Sample, UNCHANGED world, ~NoUsableLink,
           py' = "reading" => reply' # None,
           py' \in {"reading", "waiting", "failed"}
    PROVE  LinkInv'
<1> SUFFICES ASSUME py' = "reading" PROVE LinkInv'
    BY DEF LinkInv
<1>1. /\ state # None /\ state' = None /\ state.t = tick /\ state.pdr \in Nat
      /\ py = "reading" /\ reply = None /\ sim \in {"awaiting", "ended"}
      BY Hears, Naturals
<1>2. sim' = sim /\ tick' = tick /\ deadFor' = deadFor BY DEF world
<1>3. Timed /\ noLinkFor < NoLinkDeclare BY <1>1 DEF LinkInv
<1>4. lastT' = tick /\ noLinkFor' \in Nat BY Samples
<1>5. noLinkFor' < NoLinkDeclare
      BY <1>4, LinkNumbers DEF NoUsableLink
<1>6. Answered = tick - 1 /\ Answered' = tick /\ Sampled' = tick
      BY <1>1, <1>2, <1>4, LinkNumbers DEF Answered, Sampled
<1>7. deadFor <= noLinkFor'
  <2>1. CASE state.pdr > UsablePdr
    <3>1. deadFor = 0 BY <1>1, <2>1 DEF LinkInv
    <3>2. QED BY <1>4, <3>1
  <2>2. CASE ~(state.pdr > UsablePdr)
    <3>1. noLinkFor' = noLinkFor + (tick - lastT)
          BY <1>1, <2>2 DEF Sample, SinceSample
    <3>2. deadFor - 1 <= noLinkFor + (tick - 1 - Sampled)
          BY <1>1, <1>3, <1>6 DEF Timed
    <3>3. QED BY <3>1, <3>2, LinkNumbers
  <2>3. QED BY <2>1, <2>2
<1>8. Timed'
  <2>1. tick - tick = 0 /\ tick % DecisionEvery >= 0 BY LinkNumbers
  <2>2. QED BY <1>1, <1>2, <1>4, <1>6, <1>7, <2>1, LinkNumbers DEF Timed
<1>9. deadFor' < NoLinkDeclare + DecisionEvery
      BY <1>2, <1>4, <1>5, <1>7, LinkNumbers
<1>10. QED BY <1>1, <1>5, <1>8, <1>9 DEF LinkInv

\* Off the cadence a message is answered and stays with the timer's arrears.
LEMMA OffCadenceTimes ==
    ASSUME BridgeInv, LinkInv, OffCadence
    PROVE  LinkInv'
<1>0. None \notin Calls /\ "no_op" \in Calls BY Naturals DEF Calls, Always
<1>1. Hear /\ ~OnCadence /\ UNCHANGED world /\ UNCHANGED health /\ Answer("no_op", "reading")
      BY DEF OffCadence
<1>2. /\ state # None /\ state' = None /\ state.t = tick
      /\ py = "reading" /\ reply = None
      BY <1>1, Hears
<1>3. /\ py' \in {"reading", "failed"}
      /\ py' = "reading" => reply' = "no_op" /\ reply' # None
      BY <1>0, <1>1, <1>2 DEF Answer, Raise
<1> SUFFICES ASSUME py' = "reading" PROVE LinkInv'
    BY <1>3 DEF LinkInv
<1>4. sim' = sim /\ UNCHANGED <<tick, deadFor, noLinkFor, lastT>>
      BY <1>1 DEF world, health
<1>5. Timed /\ noLinkFor < NoLinkDeclare BY <1>2 DEF LinkInv
<1>6. Answered = tick - 1 /\ Answered' = tick /\ Sampled' = Sampled
      BY <1>2, <1>3, <1>4 DEF Answered, Sampled
<1>7. tick % DecisionEvery = ((tick - 1) % DecisionEvery) + 1
  <2>1. tick \in Nat /\ tick > 0 /\ DecisionEvery \in Nat /\ DecisionEvery > 0
        BY LinkNumbers
  <2>2. tick % DecisionEvery # 0 BY <1>1, <1>2 DEF OnCadence
  <2>3. QED BY <2>1, <2>2, OffTheCadence
<1>8. (tick - 1) % DecisionEvery \in Nat BY <1>6, LinkNumbers
<1>9. Timed'
  <2>1. /\ tick - 1 - Sampled <= (tick - 1) % DecisionEvery
        /\ deadFor - 1 <= noLinkFor + (tick - 1 - Sampled)
        BY <1>2, <1>5, <1>6 DEF Timed
  <2>2. /\ tick - Sampled <= tick % DecisionEvery
        /\ deadFor <= noLinkFor + (tick - Sampled)
        BY <1>7, <1>8, <2>1, LinkNumbers
  <2>3. QED BY <1>2, <1>4, <1>6, <2>2 DEF Timed
<1>10. deadFor < NoLinkDeclare + DecisionEvery BY <1>5, TimedIsShort, LinkNumbers
<1>11. QED BY <1>2, <1>4, <1>5, <1>9, <1>10 DEF LinkInv

LEMMA HandleTimes == ASSUME BridgeInv, LinkInv, Handle PROVE LinkInv'
<1>0. None \notin Calls /\ "no_op" \in Calls BY Naturals DEF Calls, Always
<1>1. CASE Skip BY <1>1, ServeTimes
<1>2. CASE OffCadence BY <1>2, OffCadenceTimes
<1>3. CASE FailsafeDeclare
  <2>1. py' \in {"waiting", "failed"} BY <1>3 DEF FailsafeDeclare, Answer, Raise
  <2>2. QED BY <2>1 DEF LinkInv
<1>4. CASE Gated
  <2>1. Hear /\ Sample /\ UNCHANGED world /\ ~NoUsableLink BY <1>4 DEF Gated, FailsafeDue
  <2>2. py' \in {"reading", "failed"} /\ (py' = "reading" => reply' # None)
        BY <1>0, <1>4 DEF Gated, Answer, Raise
  <2>3. QED BY <2>1, <2>2, SampleTimes
<1>5. ASSUME NEW top \in Hypotheses, NEW call \in AgentCalls, Decide(top, call)
      PROVE  LinkInv'
  <2> DEFINE c == Filtered(top, call)
  <2>1. Hear /\ Sample /\ UNCHANGED world /\ ~NoUsableLink /\ Issue(top, c)
        BY <1>5 DEF Decide, FailsafeDue
  <2>2. c \in Calls BY FilteredIsCall
  <2> HIDE DEF c
  <2>3. /\ py' \in {"reading", "waiting", "failed"}
        /\ py' = "reading" => reply' # None
        BY <1>0, <2>1, <2>2 DEF Issue, Answer, Raise
  <2>4. QED BY <2>1, <2>3, SampleTimes
<1>6. CASE AgentRaises
  <2>1. py' = "failed" BY <1>6 DEF AgentRaises, Raise
  <2>2. QED BY <2>1 DEF LinkInv
<1>7. QED BY <1>1, <1>2, <1>3, <1>4, <1>5, <1>6 DEF Handle

\* The no-link failsafe of the live bridge, for every cadence and deadline, gate or
\* no gate, and over lines that do not parse: a link that every message showed dead
\* for no_link_declare_s and one decision period is given up, by a declaration or by
\* the end of the session.
THEOREM DeadLinksGivenUp == Spec => []DeadLinkGivenUp
<1>1. Init => LinkInv BY DEF Init, LinkInv
<1>2. BridgeInv /\ LinkInv /\ [Next]_vars => LinkInv'
  <2>1. ASSUME LinkInv, UNCHANGED vars PROVE LinkInv'
        BY <2>1, LinkUntouched DEF vars, world, socket, health
  <2>2. QED BY <2>1, SimulateTimes, ServeTimes, HandleTimes DEF Next, Serve
<1>3. BridgeInv /\ LinkInv => DeadLinkGivenUp
      BY LinkNumbers DEF LinkInv, DeadLinkGivenUp
<1>4. QED BY <1>1, <1>2, <1>3, BridgeAlways, PTL DEF Spec
=============================================================================
