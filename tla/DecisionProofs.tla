--------------------------- MODULE DecisionProofs ---------------------------
(***************************************************************************)
(* Theorems about decisions.  First the agents that decide from features,  *)
(* for any number of channels, any scan, policy file, feature vector and   *)
(* posterior; then what of any agent's decisions is scored, for any log    *)
(* that either controller can write.                                       *)
(***************************************************************************)
EXTENDS Agents, Scoring, FiniteSetTheorems, WellFoundedInduction, TLAPS

\* A set of naturals that is not empty has a least member.
LEMMA LeastNatural ==
    ASSUME NEW S \in SUBSET Nat, S # {}
    PROVE  \E n \in S : \A m \in S : n <= m
<1>1. PICK n \in S : \A m \in S : ~ (<<m, n>> \in OpToRel(<, Nat))
      BY WFMin, NatLessThanWellFounded
<1>2. \A m \in S : ~ (m < n) BY <1>1 DEF OpToRel
<1>3. QED BY <1>2

LEMMA UpTo == \A k, o \in Nat : (o <= k <=> o <= k - 1 \/ o = k) /\ ~ (k <= k - 1)
OBVIOUS

\* What puts a finite set of indices in order: any two compare, and it is transitive.
Ranks(R, S) ==
    /\ \A a, b \in S : <<a, b>> \in R \/ <<b, a>> \in R
    /\ \A a, b, c \in S : <<a, b>> \in R /\ <<b, c>> \in R => <<a, c>> \in R

\* Then one of them comes before the others.
LEMMA FirstExists ==
    ASSUME NEW n \in Nat, NEW S, S \subseteq 1 .. n, S # {}, NEW R, Ranks(R, S)
    PROVE  \E c \in S : \A o \in S : <<c, o>> \in R
<1> DEFINE First(k) == \E c \in S : c <= k /\ \A o \in S : o <= k => <<c, o>> \in R
           Any(k) == \E o \in S : o <= k
           Bad == {k \in Nat : Any(k) /\ ~ First(k)}
<1>0. \A o \in S : o \in Nat /\ o <= n OBVIOUS
<1>1. Bad = {}
  <2> SUFFICES ASSUME Bad # {} PROVE FALSE
      OBVIOUS
  <2>1. PICK k \in Bad : \A j \in Bad : k <= j BY LeastNatural
  <2>2. k \in Nat /\ Any(k) /\ ~ First(k) BY <2>1
  <2>3. k # 0 BY <2>2
  <2>4. k - 1 \in Nat /\ ~ (k <= k - 1) BY <2>2, <2>3
  <2>5. Any(k - 1) => First(k - 1) BY <2>1, <2>4
  <2>6. \A o \in S : (o <= k <=> o <= k - 1 \/ o = k) /\ ~ (k <= k - 1)
    <3>1. k \in Nat BY <2>2
    <3>2. QED BY <1>0, <3>1, UpTo, Zenon
  <2>7. CASE k \notin S
    <3>1. \A o \in S : o <= k <=> o <= k - 1 BY <2>7, <2>6
    <3>2. First(k) BY <2>2, <2>5, <3>1
    <3>3. QED BY <2>2, <3>2
  <2>8. CASE k \in S /\ ~ Any(k - 1)
    <3>1. \A o \in S : o <= k => o = k BY <2>8, <2>6
    <3>2. <<k, k>> \in R BY <2>8 DEF Ranks
    <3>3. First(k) BY <2>2, <2>8, <3>1, <3>2
    <3>4. QED BY <2>2, <3>3
  <2>9. CASE k \in S /\ Any(k - 1)
    <3>1. PICK c \in S : c <= k - 1 /\ \A o \in S : o <= k - 1 => <<c, o>> \in R
          BY <2>5, <2>9
    <3>2. \A o \in S : o <= k => o <= k - 1 \/ o = k BY <2>6
    <3>3. CASE <<c, k>> \in R
      <4>1. \A o \in S : o <= k => <<c, o>> \in R BY <3>1, <3>2, <3>3
      <4>2. c <= k BY <2>2, <3>1
      <4>3. QED BY <2>2, <4>1, <4>2
    <3>4. CASE <<k, c>> \in R
      <4>1. <<k, k>> \in R BY <2>9 DEF Ranks
      <4>2. \A o \in S : o <= k => <<k, o>> \in R BY <2>9, <3>1, <3>2, <3>4, <4>1 DEF Ranks
      <4>3. k <= k BY <2>2
      <4>4. QED BY <2>2, <2>9, <4>2, <4>3
    <3>5. QED BY <2>9, <3>3, <3>4 DEF Ranks
  <2>10. QED BY <2>7, <2>8, <2>9
<1>2. Any(n) BY <1>0
<1>3. First(n) BY <1>1, <1>2
<1>4. QED BY <1>0, <1>3

-----------------------------------------------------------------------------
(* Where a hop goes.                                                       *)

\* The least noisy channel scanned, or the next one: either way another channel.
LEMMA BestChannelMoves ==
    ASSUME NEW scan, ScanOK(scan), NEW ch \in Channels
    PROVE  BestChannel(scan, ch) \in Channels \ {ch}
<1> DEFINE n == Cardinality(Channels)
           alts == DOMAIN scan \ {ch}
<1>1. n \in Nat /\ n > 1 /\ Channels = 1 .. n BY AgentsAssumption
<1>2. CASE alts # {}
  <2> DEFINE R == {p \in alts \X alts : scan[p[1]] <= scan[p[2]]}
  <2>1. alts \subseteq 1 .. n /\ \A a \in alts : scan[a] \in Int BY <1>1 DEF ScanOK
  <2>2. Ranks(R, alts) BY <2>1 DEF Ranks
  <2>3. \E c \in alts : \A o \in alts : <<c, o>> \in R
    <3> HIDE DEF alts, R, n
    <3>1. QED BY <1>1, <1>2, <2>1, <2>2, FirstExists
  <2>4. \E c \in alts : \A other \in alts : scan[c] <= scan[other] BY <2>3
  <2>5. BestChannel(scan, ch) \in alts BY <1>2, <2>4 DEF BestChannel
  <2>6. QED BY <1>1, <2>1, <2>5
<1>3. CASE alts = {}
  <2> HIDE DEF n
  <2>1. BestChannel(scan, ch) = (ch % n) + 1 BY <1>3 DEF BestChannel, n
  <2>2. CASE ch = n
    <3>1. n % n = 0 BY <1>1
    <3>2. QED BY <1>1, <2>1, <2>2, <3>1
  <2>3. CASE ch # n
    <3>1. ch \in 1 .. n - 1 BY <1>1, <2>3
    <3>2. ch % n = ch BY <1>1, <3>1
    <3>3. QED BY <1>1, <2>1, <3>1, <3>2
  <2>4. QED BY <2>2, <2>3
<1>4. QED BY <1>2, <1>3

-----------------------------------------------------------------------------
(* What the baseline believes.                                             *)

LEMMA EightCauses ==
    KnownCauses = {"barrage", "spot", "reactive", "sweep",
                   "fading", "node_loss", "congestion", "hidden_term"}
<1>1. /\ CAUSES[1] = "barrage" /\ CAUSES[2] = "spot" /\ CAUSES[3] = "reactive"
      /\ CAUSES[4] = "sweep" /\ CAUSES[5] = "fading" /\ CAUSES[6] = "node_loss"
      /\ CAUSES[7] = "congestion" /\ CAUSES[8] = "hidden_term"
      BY DEF CAUSES
<1>2. 1 .. 8 = {1, 2, 3, 4, 5, 6, 7, 8} OBVIOUS
<1>3. QED BY <1>1, <1>2 DEF KnownCauses

LEMMA RaisedIs ==
    ASSUME NEW b
    PROVE  /\ DOMAIN Raised(b) = KnownCauses
           /\ \A c \in KnownCauses : Raised(b)[c] = IF c \in DOMAIN b THEN b[c] ELSE 2
BY DEF Raised, KnownCauses

\* A cause none outweighs is as heavy as the one chosen.
LEMMA HeaviestAmong ==
    ASSUME NEW b, DOMAIN b = KnownCauses, NEW c \in KnownCauses,
           \A o \in KnownCauses : b[o] <= b[c]
    PROVE  Heaviest(b) \in KnownCauses /\ b[c] <= b[Heaviest(b)] /\ b[Heaviest(b)] <= b[c]
<1>1. \E h \in DOMAIN b : \A other \in DOMAIN b : b[other] <= b[h] OBVIOUS
<1>2. /\ Heaviest(b) \in DOMAIN b
      /\ \A other \in DOMAIN b : b[other] <= b[Heaviest(b)]
      BY <1>1 DEF Heaviest
<1>3. QED BY <1>2

\* With one cause raised, it is the heaviest.
LEMMA HeaviestOfOne ==
    ASSUME NEW cause \in KnownCauses, NEW w \in 3 .. 100
    PROVE  Heaviest(One(cause, w)) = cause
<1> DEFINE b == One(cause, w)
<1>1. /\ DOMAIN b = KnownCauses /\ b[cause] = w
      /\ \A o \in KnownCauses : o # cause => b[o] = 2
      BY RaisedIs DEF One
<1> HIDE DEF b
<1>2. \A o \in KnownCauses : b[o] <= b[cause]
  <2> SUFFICES ASSUME NEW o \in KnownCauses PROVE b[o] <= b[cause]
      OBVIOUS
  <2>1. CASE o = cause BY <1>1, <2>1
  <2>2. CASE o # cause BY <1>1, <2>2
  <2>3. QED BY <2>1, <2>2
<1>3. Heaviest(b) \in KnownCauses /\ b[cause] <= b[Heaviest(b)] BY <1>1, <1>2, HeaviestAmong
<1>4. ASSUME Heaviest(b) # cause PROVE FALSE BY <1>1, <1>3, <1>4
<1>5. QED BY <1>4 DEF b

Accused == {"barrage", "spot", "sweep"}

Seen(x) == x.fresh /\ ~ x.tx /\ (x.moving \/ Jammed(x))

Sound(b, x) ==
    /\ Heaviest(b) \in KnownCauses
    /\ Heaviest(b) \in Accused /\ 10 * b[Heaviest(b)] >= 6 * Mass(b) => Seen(x)

\* Energy seen by an old scan only leaves the flavours of jamming too close to act on.
LEMMA StaleIsUnsure ==
    ASSUME NEW x,
           NEW b, b = Raised([c \in {"barrage", "spot", "sweep"} |->
                                IF c = "sweep" THEN 15 ELSE 30])
    PROVE  Sound(b, x)
<1>1. /\ DOMAIN b = KnownCauses
      /\ \A c \in KnownCauses :
            b[c] = IF c \in {"barrage", "spot", "sweep"}
                     THEN (IF c = "sweep" THEN 15 ELSE 30) ELSE 2
      BY RaisedIs
<1>2. /\ b["barrage"] = 30 /\ b["spot"] = 30 /\ b["reactive"] = 2 /\ b["sweep"] = 15
      /\ b["fading"] = 2 /\ b["node_loss"] = 2 /\ b["congestion"] = 2
      /\ b["hidden_term"] = 2
      BY <1>1, EightCauses
<1>3. Mass(b) = 85 BY <1>2 DEF Mass
<1>4. \A o \in KnownCauses : b[o] <= b["barrage"] BY <1>2, EightCauses
<1>5. "barrage" \in KnownCauses BY EightCauses
<1>6. Heaviest(b) \in KnownCauses /\ b[Heaviest(b)] <= b["barrage"]
      BY <1>1, <1>4, <1>5, HeaviestAmong
<1>7. b[Heaviest(b)] \in Int BY <1>2, <1>6, EightCauses
<1>8. ~ (10 * b[Heaviest(b)] >= 6 * Mass(b)) BY <1>2, <1>3, <1>6, <1>7
<1>9. QED BY <1>6, <1>8 DEF Sound

LEMMA FlatIsUnsure ==
    ASSUME NEW x, NEW b, b = Raised([c \in {} |-> 0])
    PROVE  Sound(b, x)
<1>1. DOMAIN b = KnownCauses /\ \A c \in KnownCauses : b[c] = 2 BY RaisedIs
<1>2. /\ b["barrage"] = 2 /\ b["spot"] = 2 /\ b["reactive"] = 2 /\ b["sweep"] = 2
      /\ b["fading"] = 2 /\ b["node_loss"] = 2 /\ b["congestion"] = 2
      /\ b["hidden_term"] = 2 /\ "barrage" \in KnownCauses
      BY <1>1, EightCauses
<1>3. Mass(b) = 16 BY <1>2 DEF Mass
<1>4. Heaviest(b) \in KnownCauses BY <1>1, <1>2, HeaviestAmong
<1>5. b[Heaviest(b)] = 2 BY <1>1, <1>4
<1>6. QED BY <1>3, <1>4, <1>5 DEF Sound

LEMMA EnergySound ==
    ASSUME NEW x \in AllCues, ~ x.tx, Jammed(x)
    PROVE  Sound(EnergyBelief(x), x)
<1>1. x.fresh \in BOOLEAN /\ x.split \in BOOLEAN /\ x.bad \in 0 .. 2 BY DEF AllCues
<1>2. "barrage" \in KnownCauses /\ "spot" \in KnownCauses BY EightCauses
<1>3. CASE ~ x.fresh
  <2>1. EnergyBelief(x) = Raised([c \in {"barrage", "spot", "sweep"} |->
                                    IF c = "sweep" THEN 15 ELSE 30])
        BY <1>3 DEF EnergyBelief
  <2>2. QED BY <2>1, StaleIsUnsure
<1>4. CASE x.fresh
  <2>1. Seen(x) BY <1>4 DEF Seen
  <2>2. CASE ~ x.split /\ x.bad > 0
    <3>1. EnergyBelief(x) = One("barrage", 85) BY <1>4, <2>2 DEF EnergyBelief
    <3>2. QED BY <1>2, <2>1, <3>1, HeaviestOfOne DEF Sound
  <2>3. CASE x.split
    <3>1. EnergyBelief(x) = One("spot", 85) BY <1>4, <2>3 DEF EnergyBelief
    <3>2. QED BY <1>2, <2>1, <3>1, HeaviestOfOne DEF Sound
  <2>4. CASE ~ x.split /\ x.bad = 0
    <3> DEFINE b == EnergyBelief(x)
    <3>1. b = Raised([c \in {"barrage", "spot"} |-> 30])
          BY <1>4, <2>4 DEF EnergyBelief
    <3>2. /\ DOMAIN b = KnownCauses
          /\ \A c \in KnownCauses : b[c] = IF c \in {"barrage", "spot"} THEN 30 ELSE 2
          BY <3>1, RaisedIs
    <3> HIDE DEF b
    <3>3. \A o \in KnownCauses : b[o] <= b["barrage"] BY <1>2, <3>2
    <3>4. Heaviest(b) \in KnownCauses BY <1>2, <3>2, <3>3, HeaviestAmong
    <3>5. QED BY <2>1, <3>4 DEF Sound, b
  <2>5. QED BY <1>1, <2>2, <2>3, <2>4
<1>5. QED BY <1>1, <1>3, <1>4

LEMMA QuietSound ==
    ASSUME NEW x
    PROVE  Sound(QuietBelief(x), x)
<1> DEFINE b == QuietBelief(x)
           Natural == KnownCauses \ Accused
<1> SUFFICES Sound(b, x)
    OBVIOUS
<1>1. {"node_loss", "congestion", "hidden_term", "fading"} \subseteq Natural
      BY EightCauses DEF Accused
<1>2. \/ b = One("node_loss", 80) \/ b = One("congestion", 80)
      \/ b = One("hidden_term", 70) \/ b = One("fading", 85)
      \/ b = Raised([c \in {"fading", "node_loss"} |-> IF c = "fading" THEN 75 ELSE 10])
      \/ b = Raised([c \in {} |-> 0])
      BY DEF QuietBelief
<1> HIDE DEF b, Natural
<1>3. ASSUME NEW cause \in Natural, NEW w \in 3 .. 100, b = One(cause, w)
      PROVE  Sound(b, x)
  <2>1. cause \in KnownCauses /\ cause \notin Accused BY DEF Natural
  <2>2. Heaviest(b) = cause BY <1>3, <2>1, HeaviestOfOne
  <2>3. QED BY <2>1, <2>2 DEF Sound
<1>4. CASE b = Raised([c \in {"fading", "node_loss"} |-> IF c = "fading" THEN 75 ELSE 10])
  <2>1. /\ DOMAIN b = KnownCauses
        /\ \A c \in KnownCauses :
              b[c] = IF c \in {"fading", "node_loss"}
                       THEN (IF c = "fading" THEN 75 ELSE 10) ELSE 2
        BY <1>4, RaisedIs
  <2>2. "fading" \in KnownCauses /\ "fading" \notin Accused BY EightCauses DEF Accused
  <2>3. \A o \in KnownCauses : b[o] <= b["fading"] BY <2>1, <2>2
  <2>4. Heaviest(b) \in KnownCauses /\ b["fading"] <= b[Heaviest(b)]
        BY <2>1, <2>2, <2>3, HeaviestAmong
  <2>5. Heaviest(b) = "fading" BY <2>1, <2>2, <2>4
  <2>6. QED BY <2>2, <2>5 DEF Sound
<1>5. CASE b = Raised([c \in {} |-> 0]) BY <1>5, FlatIsUnsure
<1>6. CASE b = One("node_loss", 80) BY <1>1, <1>3, <1>6
<1>7. CASE b = One("congestion", 80) BY <1>1, <1>3, <1>7
<1>8. CASE b = One("hidden_term", 70) BY <1>1, <1>3, <1>8
<1>9. CASE b = One("fading", 85) BY <1>1, <1>3, <1>9
<1>10. QED BY <1>2, <1>4, <1>5, <1>6, <1>7, <1>8, <1>9

LEMMA BeliefSound ==
    ASSUME NEW x \in AllCues
    PROVE  Sound(Belief(x), x)
<1>1. x.tx \in BOOLEAN /\ x.fresh \in BOOLEAN /\ x.moving \in BOOLEAN BY DEF AllCues
<1>2. CASE x.tx
  <2>1. Belief(x) = One("reactive", 85) BY <1>2 DEF Belief
  <2>2. "reactive" \in KnownCauses /\ "reactive" \notin Accused BY EightCauses DEF Accused
  <2>3. QED BY <2>1, <2>2, HeaviestOfOne DEF Sound
<1>3. CASE ~ x.tx /\ x.fresh /\ x.moving
  <2>1. Belief(x) = One("sweep", 80) BY <1>3 DEF Belief
  <2>2. "sweep" \in KnownCauses BY EightCauses
  <2>3. QED BY <1>3, <2>1, <2>2, HeaviestOfOne DEF Sound, Seen
<1>4. CASE ~ x.tx /\ ~ (x.fresh /\ x.moving) /\ Jammed(x)
  <2>1. Belief(x) = EnergyBelief(x) BY <1>4 DEF Belief
  <2>2. QED BY <1>4, <2>1, EnergySound
<1>5. CASE ~ x.tx /\ ~ (x.fresh /\ x.moving) /\ ~ Jammed(x)
  <2>1. Belief(x) = QuietBelief(x) BY <1>5 DEF Belief
  <2>2. QED BY <2>1, QuietSound
<1>6. QED BY <1>1, <1>2, <1>3, <1>4, <1>5

-----------------------------------------------------------------------------
(* What the baseline asks for.                                             *)

Costly == {"hop_channel", "fallback_to_lora", "declare_link_lost"}
Tests == {"spectrum_scan", "silent_listen", "neighbor_probe", "load_test",
          "mobility_test", "no_op"}

LEMMA TestsAreTests ==
    ASSUME NEW b, NEW s
    PROVE  CheapestTest(b, s) \in Tests
<1> DEFINE helpful == {n \in 1..4 : Unsure(b, b[Doubts[n][1]]) /\ Doubts[n][2] \in s.mask}
<1>1. CASE ~ s.cues.fresh /\ "spectrum_scan" \in s.mask
      BY <1>1 DEF CheapestTest, Tests
<1>2. CASE ~ (~ s.cues.fresh /\ "spectrum_scan" \in s.mask) /\ helpful # {}
  <2> DEFINE first == CHOOSE n \in helpful : \A m \in helpful : n <= m
  <2>1. helpful \in SUBSET Nat /\ helpful \subseteq 1 .. 4 OBVIOUS
  <2>2. CheapestTest(b, s) = Doubts[first][2] BY <1>2 DEF CheapestTest
  <2> HIDE DEF helpful
  <2>3. \E n \in helpful : \A m \in helpful : n <= m BY <1>2, <2>1, LeastNatural
  <2>4. first \in 1 .. 4 BY <2>1, <2>3
  <2> HIDE DEF first
  <2>5. \A n \in 1 .. 4 : Doubts[n][2] \in Tests
    <3>1. /\ Doubts[1][2] = "silent_listen" /\ Doubts[2][2] = "neighbor_probe"
          /\ Doubts[3][2] = "load_test" /\ Doubts[4][2] = "mobility_test"
          BY DEF Doubts
    <3>2. QED BY <3>1 DEF Tests
  <2>6. QED BY <2>2, <2>4, <2>5
<1>3. CASE ~ (~ s.cues.fresh /\ "spectrum_scan" \in s.mask) /\ helpful = {}
      BY <1>3 DEF CheapestTest, Tests
<1>4. QED BY <1>1, <1>2, <1>3

\* Only a jammer is answered with a costly call, and never with a probing hop.
LEMMA RemedyFits ==
    ASSUME NEW top \in KnownCauses, NEW s
    PROVE  /\ Remedy(top, s) \in Costly => top \in Accused
           /\ Remedy(top, s) # "channel_hop_probe"
<1>1. CASE top = "barrage"
  <2>1. Remedy(top, s) \in Costly \cup {"no_op"}
        BY <1>1 DEF Remedy, AgainstBarrage, Costly
  <2>2. QED BY <1>1, <2>1 DEF Costly, Accused
<1>2. CASE top # "barrage"
  <2>1. Remedy(top, s) \in {PLAYBOOK(top), "no_op"} BY <1>2 DEF Remedy, IfAvailable
  <2>2. /\ PLAYBOOK(top) \in {"hop_channel", "change_tdma_slot", "set_tx_power", "reroute"}
        /\ PLAYBOOK(top) = "hop_channel" => top \in {"spot", "sweep"}
        BY <1>2, EightCauses DEF PLAYBOOK
  <2>3. QED BY <2>1, <2>2 DEF Costly, Accused
<1>3. QED BY <1>1, <1>2

LEMMA BaselineFits ==
    ASSUME NEW s, s.cues \in AllCues
    PROVE  /\ Baseline(s).call \in Costly => Seen(s.cues)
           /\ Baseline(s).call # "channel_hop_probe"
           /\ Baseline(s).ch = IF Baseline(s).call = "hop_channel"
                                 THEN BestChannel(s.scan, s.ch) ELSE s.ch
<1> DEFINE b == Belief(s.cues)
           top == Heaviest(b)
           sure == 10 * b[top] >= 6 * Mass(b)
           call == IF sure THEN Remedy(top, s) ELSE CheapestTest(b, s)
<1>1. /\ Baseline(s).call = call
      /\ Baseline(s).ch = IF call = "hop_channel" THEN BestChannel(s.scan, s.ch) ELSE s.ch
      BY DEF Baseline, Says
<1>2. Sound(b, s.cues) BY BeliefSound
<1> HIDE DEF b
<1>3. top \in KnownCauses /\ (top \in Accused /\ sure => Seen(s.cues)) BY <1>2 DEF Sound
<1> HIDE DEF top, sure
<1>4. CASE sure
  <2>1. call = Remedy(top, s) BY <1>4
  <2>2. (call \in Costly => top \in Accused) /\ call # "channel_hop_probe"
        BY <1>3, <2>1, RemedyFits
  <2>3. QED BY <1>1, <1>3, <1>4, <2>2
<1>5. CASE ~ sure
  <2>1. call \in Tests BY <1>5, TestsAreTests
  <2>2. call \notin Costly /\ call # "channel_hop_probe" BY <2>1 DEF Tests, Costly
  <2>3. QED BY <1>1, <2>2
<1>6. QED BY <1>4, <1>5

-----------------------------------------------------------------------------
(* What an agent is shown, and which file it flies with.                   *)

SeenInv ==
    /\ d # None => seen # None
    /\ seen # None =>
         /\ seen.ch \in Channels /\ ScanOK(seen.scan)
         /\ agent = "baseline" => seen.cues \in AllCues
    /\ agent = "hybrid" => rules \in Files

Decides == BaselineDecides \/ StudentDecides \/ HybridDecides \/ RuleFires \/ BuyTest

LEMMA SeenStart == Init => SeenInv /\ d = None
BY DEF Init, SeenInv

LEMMA SeenStep ==
    ASSUME SeenInv, [Next]_vars
    PROVE  /\ SeenInv'
           /\ \/ Decides /\ seen # None /\ UNCHANGED <<agent, rules, seen>>
              \/ d' = None
              \/ UNCHANGED <<agent, rules, seen, d>>
<1>1. CASE Sense
  <2>1. d' = None /\ UNCHANGED <<agent, rules, d>> BY <1>1 DEF Sense, SeenInv
  <2> DEFINE Sees(x, cues, f, p) ==
               seen' = Shown(x, cues, f, p) /\ (agent = "baseline" => cues \in Cues)
  <2>6. PICK x \in Contexts : \E cues, f, p : Sees(x, cues, f, p) BY <1>1 DEF Sense
  <2>2. PICK cues, f, p : Sees(x, cues, f, p) BY <2>6
  <2>3. x.ch \in Channels /\ ScanOK(x.scan) /\ Cues \subseteq AllCues BY AgentsAssumption
  <2>4. /\ seen'.ch = x.ch /\ seen'.scan = x.scan /\ seen'.cues = cues
        BY <2>2 DEF Shown
  <2>5. QED BY <2>1, <2>2, <2>3, <2>4 DEF SeenInv
<1>2. CASE Decides
  <2>1. Asked BY <1>2 DEF Decides, BaselineDecides, StudentDecides, HybridDecides,
                          RuleFires, BuyTest
  <2>2. seen # None /\ UNCHANGED <<agent, rules, seen>> BY <2>1 DEF Asked
  <2>3. QED BY <1>2, <2>2 DEF SeenInv
<1>3. CASE Taken BY <1>3 DEF Taken, SeenInv
<1>4. CASE Reset BY <1>4 DEF Reset, SeenInv
<1>5. CASE UNCHANGED vars BY <1>5 DEF vars, SeenInv
<1>6. QED BY <1>1, <1>2, <1>3, <1>4, <1>5 DEF Next, Decides

\* Whatever the net answers, a hop it asks for leaves the channel, and it speaks for itself.
LEMMA StudentMoves ==
    ASSUME NEW s, s.ch \in Channels, ScanOK(s.scan), NEW dec \in Student(s)
    PROVE  /\ dec.call \in Hops => dec.ch \in Channels /\ dec.ch # s.ch
           /\ dec.by = "net"
<1>1. BestChannel(s.scan, s.ch) \in Channels \ {s.ch} BY BestChannelMoves
<1>2. CASE Abstains(s.p)
  <2>1. dec.call = "no_op" /\ dec.by = "net" BY <1>2 DEF Student
  <2>2. QED BY <2>1 DEF Hops
<1>3. CASE ~ Abstains(s.p)
  <2>1. PICK call \in s.mask :
           dec = [by |-> "net", call |-> call, declared |-> Declare(s.p), belief |-> s.p,
                  ch |-> IF call \in Hops THEN BestChannel(s.scan, s.ch) ELSE s.ch]
        BY <1>3 DEF Student
  <2>2. QED BY <1>1, <2>1
<1>4. QED BY <1>2, <1>3

LEMMA HybridMoves ==
    ASSUME NEW s, s.ch \in Channels, ScanOK(s.scan), NEW dec \in Hybrid(s)
    PROVE  dec.call \in Hops => dec.ch \in Channels /\ dec.ch # s.ch
<1> DEFINE hit == RuleHit(MostSpecific(rules, s.f))
           hyp == hit[1].hypothesis
           call == IfAvailable(PLAYBOOK(hyp), s.mask)
<1>1. CASE hit = << >>
  <2>1. dec \in Student(s) BY <1>1 DEF Hybrid
  <2>2. QED BY <2>1, StudentMoves
<1>2. CASE hit # << >> /\ Trust(rules, hit[1].id) >= LeadPrecision
  <2>1. dec = [by |-> "rule", call |-> call, declared |-> hyp, belief |-> LedBelief(s.p, hyp),
               ch |-> IF call \in Hops THEN BestChannel(s.scan, s.ch) ELSE s.ch]
        BY <1>2 DEF Hybrid
  <2>2. BestChannel(s.scan, s.ch) \in Channels \ {s.ch} BY BestChannelMoves
  <2> HIDE DEF call, hyp
  <2>3. QED BY <2>1, <2>2
<1>3. CASE hit # << >> /\ ~ (Trust(rules, hit[1].id) >= LeadPrecision)
  <2>1. PICK net \in Student(s) :
           dec = IF net.declared = None THEN [net EXCEPT !.by = "tie", !.declared = hyp] ELSE net
        BY <1>3 DEF Hybrid
  <2>2. dec.call = net.call /\ dec.ch = net.ch BY <2>1 DEF Student
  <2>3. QED BY <2>2, StudentMoves
<1>4. QED BY <1>1, <1>2, <1>3

\* A hop, whoever decides it, is to another channel of the radio, for every number
\* of channels and whatever the last scan covered; of the rules alone this is
\* not said (baseline._best_channel, student._args).
THEOREM HopsLeave == Spec => []HopGoesElsewhere
<1>1. Init => SeenInv /\ HopGoesElsewhere BY SeenStart DEF HopGoesElsewhere
<1>2. (SeenInv /\ HopGoesElsewhere) /\ [Next]_vars => (SeenInv /\ HopGoesElsewhere)'
  <2> SUFFICES ASSUME SeenInv, HopGoesElsewhere, [Next]_vars PROVE HopGoesElsewhere'
      BY SeenStep
  <2>1. CASE d' = None BY <2>1 DEF HopGoesElsewhere
  <2>2. CASE UNCHANGED <<agent, rules, seen, d>> BY <2>2 DEF HopGoesElsewhere
  <2>3. CASE Decides /\ seen # None /\ UNCHANGED <<agent, rules, seen>>
    <3>1. seen.ch \in Channels /\ ScanOK(seen.scan) BY <2>3 DEF SeenInv
    <3>2. CASE BaselineDecides
      <4>1. d' = Baseline(seen) /\ seen.cues \in AllCues
            BY <2>3, <3>2 DEF BaselineDecides, SeenInv
      <4>2. BestChannel(seen.scan, seen.ch) \in Channels \ {seen.ch}
            BY <3>1, BestChannelMoves
      <4>3. d'.call \in Hops => d'.call = "hop_channel" BY <4>1, BaselineFits DEF Hops
      <4>4. d'.call \in Hops => d'.ch \in Channels /\ d'.ch # seen.ch
            BY <4>1, <4>2, <4>3, BaselineFits
      <4>5. QED BY <2>3, <4>4 DEF HopGoesElsewhere
    <3>3. CASE StudentDecides
      <4>1. d' \in Student(seen) BY <3>3 DEF StudentDecides
      <4>2. QED BY <2>3, <3>1, <4>1, StudentMoves DEF HopGoesElsewhere
    <3>4. CASE HybridDecides
      <4>1. d' \in Hybrid(seen) BY <3>4 DEF HybridDecides
      <4>2. QED BY <2>3, <3>1, <4>1, HybridMoves DEF HopGoesElsewhere
    <3>5. CASE RuleFires \/ BuyTest
      <4>1. agent' = "rules" BY <2>3, <3>5 DEF RuleFires, BuyTest
      <4>2. QED BY <4>1 DEF HopGoesElsewhere
    <3>6. QED BY <2>3, <3>2, <3>3, <3>4, <3>5 DEF Decides
  <2>4. QED BY <2>1, <2>2, <2>3, SeenStep
<1>3. QED BY <1>1, <1>2, PTL DEF Spec

\* "THE point of the whole project: do not hop" (baseline.py 159): for every feature,
\* mask and scan, the baseline spends on a hop, on LoRa or on giving up only on what
\* a fresh scan showed.
THEOREM HopsHaveEvidence == Spec => []HopHasEvidence
<1>1. Init => SeenInv /\ HopHasEvidence BY SeenStart DEF HopHasEvidence
<1>2. (SeenInv /\ HopHasEvidence) /\ [Next]_vars => (SeenInv /\ HopHasEvidence)'
  <2> SUFFICES ASSUME SeenInv, HopHasEvidence, [Next]_vars PROVE HopHasEvidence'
      BY SeenStep
  <2>1. CASE d' = None BY <2>1 DEF HopHasEvidence
  <2>2. CASE UNCHANGED <<agent, rules, seen, d>> BY <2>2 DEF HopHasEvidence, Jammed
  <2>3. CASE Decides /\ seen # None /\ UNCHANGED <<agent, rules, seen>>
    <3>1. CASE BaselineDecides
      <4>1. d' = Baseline(seen) /\ seen.cues \in AllCues
            BY <2>3, <3>1 DEF BaselineDecides, SeenInv
      <4>2. d'.call \in Costly => Seen(seen.cues) BY <4>1, BaselineFits
      <4>3. QED BY <2>3, <4>2 DEF HopHasEvidence, Costly, Seen, Jammed
    <3>2. CASE StudentDecides \/ HybridDecides \/ RuleFires \/ BuyTest
      <4>1. agent' # "baseline"
            BY <2>3, <3>2 DEF StudentDecides, HybridDecides, RuleFires, BuyTest
      <4>2. QED BY <4>1 DEF HopHasEvidence
    <3>3. QED BY <2>3, <3>1, <3>2 DEF Decides
  <2>4. QED BY <2>1, <2>2, <2>3, SeenStep
<1>3. QED BY <1>1, <1>2, PTL DEF Spec

-----------------------------------------------------------------------------
(* Which rules overrule the net.                                           *)

\* No two rules of a file have the same id, which RuleSet.load does not check.
DistinctIds ==
    \A file \in Files : \A n, m \in DOMAIN file : file[n].id = file[m].id => n = m

\* The rule that speaks is one of those that fire.
LEMMA SpecificFires ==
    ASSUME NEW file \in Files, NEW f, MostSpecific(file, f) # << >>
    PROVE  \E n \in DOMAIN file : Matches(file[n], f) /\ MostSpecific(file, f) = <<file[n]>>
<1> DEFINE fired == Fires(file, f)
           first == CHOOSE n \in fired : \A m \in fired : Ahead(file, n, m)
           k == Len(file)
           R == {p \in (1 .. k) \X (1 .. k) : Ahead(file, p[1], p[2])}
<1>1. /\ k \in Nat /\ DOMAIN file = 1 .. k
      /\ \A n \in 1 .. k : Len(file[n].clauses) \in Nat
      BY AgentsAssumption DEF FileOK
<1>2. fired \subseteq 1 .. k BY <1>1 DEF Fires
<1>3. fired # {} /\ MostSpecific(file, f) = <<file[first]>> BY DEF MostSpecific
<1>4. Ranks(R, fired)
  <2> HIDE DEF k, fired
  <2>1. \A a, b \in 1 .. k : <<a, b>> \in R <=> Ahead(file, a, b) OBVIOUS
  <2>2. \A a, b \in 1 .. k : Ahead(file, a, b) \/ Ahead(file, b, a) BY <1>1 DEF Ahead
  <2>3. \A a, b, c \in 1 .. k : Ahead(file, a, b) /\ Ahead(file, b, c) => Ahead(file, a, c)
        BY <1>1 DEF Ahead
  <2> HIDE DEF R
  <2>4. QED BY <1>2, <2>1, <2>2, <2>3 DEF Ranks
<1>5. \E n \in fired : \A m \in fired : Ahead(file, n, m)
  <2> HIDE DEF k, fired
  <2>1. PICK n \in fired : \A m \in fired : <<n, m>> \in R
    <3> HIDE DEF R
    <3>1. QED BY <1>1, <1>2, <1>3, <1>4, FirstExists
  <2>2. \A m \in fired : Ahead(file, n, m) BY <2>1
  <2>3. QED BY <2>2
<1>6. first \in fired BY <1>5
<1>7. QED BY <1>3, <1>6 DEF Fires

\* With distinct ids a rule is trusted for what it is itself.
LEMMA TrustsItself ==
    ASSUME DistinctIds, NEW file \in Files, NEW n \in DOMAIN file
    PROVE  Trust(file, file[n].id) = IF Leans(file[n]) THEN 0 ELSE file[n].precision
<1> DEFINE id == file[n].id
           last == CHOOSE i \in DOMAIN file :
                      /\ file[i].id = id
                      /\ \A m \in DOMAIN file : file[m].id = id => m <= i
<1>1. DOMAIN file = 1 .. Len(file) /\ Len(file) \in Nat BY AgentsAssumption DEF FileOK
<1>2. \A m \in DOMAIN file : file[m].id = id => m = n BY DEF DistinctIds
<1>3. n <= n BY <1>1
<1>4. file[n].id = id /\ \A m \in DOMAIN file : file[m].id = id => m <= n BY <1>2, <1>3
<1> HIDE DEF id
<1>5. last \in DOMAIN file /\ file[last].id = id BY <1>4
<1>6. last = n BY <1>2, <1>5
<1>7. Trust(file, id) = IF Leans(file[last]) THEN 0 ELSE file[last].precision BY DEF Trust
<1> HIDE DEF last
<1>8. QED BY <1>6, <1>7 DEF id

LEMMA LeadsByRight ==
    ASSUME DistinctIds, rules \in Files, NEW s, s.ch \in Channels, ScanOK(s.scan),
           NEW dec \in Hybrid(s), dec.by = "rule"
    PROVE  \E n \in DOMAIN rules :
              /\ Matches(rules[n], s.f) /\ rules[n].hypothesis = dec.declared
              /\ rules[n].precision >= LeadPrecision /\ ~ Leans(rules[n])
<1> DEFINE found == MostSpecific(rules, s.f)
           hit == RuleHit(found)
           hyp == hit[1].hypothesis
           call == IfAvailable(PLAYBOOK(hyp), s.mask)
<1>1. CASE hit = << >>
  <2>1. dec \in Student(s) BY <1>1 DEF Hybrid
  <2>2. dec.by = "net" BY <2>1, StudentMoves
  <2>3. QED BY <2>2
<1>2. CASE hit # << >> /\ ~ (Trust(rules, hit[1].id) >= LeadPrecision)
  <2>1. PICK net \in Student(s) :
           dec = IF net.declared = None THEN [net EXCEPT !.by = "tie", !.declared = hyp] ELSE net
        BY <1>2 DEF Hybrid
  <2>2. net.by = "net" BY StudentMoves
  <2>3. dec.by \in {"tie", "net"} BY <2>1, <2>2 DEF Student
  <2>4. QED BY <2>3
<1>3. CASE hit # << >> /\ Trust(rules, hit[1].id) >= LeadPrecision
  <2>1. dec = [by |-> "rule", call |-> call, declared |-> hyp, belief |-> LedBelief(s.p, hyp),
               ch |-> IF call \in Hops THEN BestChannel(s.scan, s.ch) ELSE s.ch]
        BY <1>3 DEF Hybrid
  <2>2. dec.declared = hyp
    <3> HIDE DEF hyp, call
    <3>1. QED BY <2>1
  <2>3. hit = found /\ found # << >> BY <1>3 DEF RuleHit
  <2> HIDE DEF hit, found
  <2>4. PICK n \in DOMAIN rules : Matches(rules[n], s.f) /\ found = <<rules[n]>>
        BY <2>3, SpecificFires DEF found
  <2>5. hit[1] = rules[n] BY <2>3, <2>4
  <2>6. Trust(rules, rules[n].id) = IF Leans(rules[n]) THEN 0 ELSE rules[n].precision
        BY TrustsItself
  <2>7. Trust(rules, rules[n].id) >= LeadPrecision BY <1>3, <2>5
  <2>8. LeadPrecision \in 1 .. 100 BY AgentsAssumption
  <2>9. CASE Leans(rules[n]) BY <2>6, <2>7, <2>8, <2>9
  <2>10. CASE ~ Leans(rules[n])
    <3>1. rules[n].precision >= LeadPrecision BY <2>6, <2>7, <2>10
    <3>2. QED BY <2>2, <2>4, <2>5, <2>10, <3>1
  <2>11. QED BY <2>9, <2>10
<1>4. QED BY <1>1, <1>2, <1>3

\* The net is overruled only by a rule that fires for the cause declared, earned it on
\* held-out rows and reads no feature known to be unreliable, for every policy file
\* whose rules have ids of their own and every posterior (hybrid.py 37-40).
THEOREM RulesEarnTheLead ==
    ASSUME DistinctIds
    PROVE  Spec => []UnreliableNeverOverrules
<1>1. Init => SeenInv /\ UnreliableNeverOverrules
      BY SeenStart DEF UnreliableNeverOverrules
<1>2. (SeenInv /\ UnreliableNeverOverrules) /\ [Next]_vars
         => (SeenInv /\ UnreliableNeverOverrules)'
  <2> SUFFICES ASSUME SeenInv, UnreliableNeverOverrules, [Next]_vars
               PROVE  UnreliableNeverOverrules'
      BY SeenStep
  <2>1. CASE d' = None BY <2>1 DEF UnreliableNeverOverrules
  <2>2. CASE UNCHANGED <<agent, rules, seen, d>> BY <2>2 DEF UnreliableNeverOverrules
  <2>3. CASE Decides /\ seen # None /\ UNCHANGED <<agent, rules, seen>>
    <3>1. CASE HybridDecides
      <4>1. d' \in Hybrid(seen) /\ rules \in Files BY <3>1 DEF HybridDecides, SeenInv
      <4>2. seen.ch \in Channels /\ ScanOK(seen.scan) BY <2>3 DEF SeenInv
      <4>3. d'.by = "rule" =>
               \E n \in DOMAIN rules :
                  /\ Matches(rules[n], seen.f) /\ rules[n].hypothesis = d'.declared
                  /\ rules[n].precision >= LeadPrecision /\ ~ Leans(rules[n])
            BY <4>1, <4>2, LeadsByRight
      <4>4. QED BY <2>3, <4>3 DEF UnreliableNeverOverrules
    <3>2. CASE StudentDecides \/ BaselineDecides \/ RuleFires \/ BuyTest
      <4>1. agent' # "hybrid"
            BY <2>3, <3>2 DEF StudentDecides, BaselineDecides, RuleFires, BuyTest
      <4>2. QED BY <4>1 DEF UnreliableNeverOverrules
    <3>3. QED BY <2>3, <3>1, <3>2 DEF Decides
  <2>4. QED BY <2>1, <2>2, <2>3, SeenStep
<1>3. QED BY <1>1, <1>2, PTL DEF Spec

-----------------------------------------------------------------------------
(* What a mistake costs: the net's decision rule.                          *)

Pick(s) == CHOOSE x \in s : TRUE

\* One step of the sum of f over s, g being the sums over smaller sets.
SumStep(f, g, s) == IF s = {} THEN 0 ELSE f[Pick(s)] + g[s \ {Pick(s)}]

\* The sum is the value, at the whole domain, of the function that the fold chooses.
LEMMA SumIsFold ==
    ASSUME NEW f, NEW g, g = CHOOSE h : h = [s \in SUBSET DOMAIN f |-> SumStep(f, h, s)]
    PROVE  SumOver(f) = g[DOMAIN f]
  BY DEF SumOver, FoldFunction, FoldFunctionOnSet, MapThenFoldSet, SumStep, Pick

LEMMA PickSmaller ==
    ASSUME NEW D, IsFiniteSet(D), NEW s \in SUBSET D
    PROVE  /\ Cardinality(s) \in Nat
           /\ s # {} => /\ Pick(s) \in s /\ Cardinality(s) > 0
                        /\ s \ {Pick(s)} \in SUBSET D
                        /\ Cardinality(s \ {Pick(s)}) = Cardinality(s) - 1
<1>1. IsFiniteSet(s) BY FS_Subset
<1>2. Cardinality(s) \in Nat /\ (s # {} => Cardinality(s) # 0)
      BY <1>1, FS_CardinalityType, FS_EmptySet
<1>3. ASSUME s # {} PROVE Pick(s) \in s BY <1>3 DEF Pick
<1>4. ASSUME s # {} PROVE Cardinality(s \ {Pick(s)}) = Cardinality(s) - 1
      BY <1>1, <1>3, <1>4, FS_RemoveElement
<1>5. QED BY <1>2, <1>3, <1>4

\* What holds of a set when it holds of it without the element picked, holds of all.
LEMMA PickByPick ==
    ASSUME NEW D, IsFiniteSet(D), NEW H \in SUBSET SUBSET D,
           \A s \in SUBSET D : (s # {} => s \ {Pick(s)} \in H) => s \in H
    PROVE  \A s \in SUBSET D : s \in H
<1> DEFINE Sizes == {n \in Nat : \E s \in SUBSET D : Cardinality(s) = n /\ s \notin H}
<1>1. Sizes = {}
  <2> SUFFICES ASSUME Sizes # {} PROVE FALSE
      OBVIOUS
  <2>1. PICK n \in Sizes : \A m \in Sizes : n <= m BY LeastNatural
  <2>2. PICK s \in SUBSET D : Cardinality(s) = n /\ s \notin H BY <2>1
  <2>3. s # {} /\ s \ {Pick(s)} \notin H BY <2>2
  <2>4. /\ n \in Nat /\ n > 0 /\ s \ {Pick(s)} \in SUBSET D
        /\ Cardinality(s \ {Pick(s)}) = n - 1
        BY <2>2, <2>3, PickSmaller
  <2>5. n - 1 \in Nat /\ ~ (n <= n - 1) BY <2>4
  <2>6. n - 1 \in Sizes BY <2>3, <2>4, <2>5
  <2>7. QED BY <2>1, <2>5, <2>6
<1>2. QED BY <1>1, PickSmaller

\* There is such a function: the sums over all sets of up to n elements are those of
\* up to n - 1 and one step.
LEMMA SumExists ==
    ASSUME NEW D, IsFiniteSet(D), NEW f \in [D -> Int]
    PROVE  \E g : g = [s \in SUBSET D |-> SumStep(f, g, s)]
<1> DEFINE Upto(n) == \E g : \A s \in SUBSET D : Cardinality(s) <= n => g[s] = SumStep(f, g, s)
           Bad == {n \in Nat : ~ Upto(n)}
<1>1. Upto(0)
  <2> DEFINE g == [s \in SUBSET D |-> 0]
  <2>1. ASSUME NEW s \in SUBSET D, Cardinality(s) <= 0 PROVE g[s] = SumStep(f, g, s)
    <3>1. Cardinality(s) \in Nat /\ (s # {} => Cardinality(s) > 0) BY <2>1, PickSmaller
    <3>2. s = {} BY <2>1, <3>1
    <3>3. QED BY <3>2 DEF SumStep
  <2>2. QED BY <2>1
<1>2. ASSUME NEW n \in Nat, Upto(n) PROVE Upto(n + 1)
  <2>1. PICK g : \A s \in SUBSET D : Cardinality(s) <= n => g[s] = SumStep(f, g, s)
        BY <1>2
  <2> DEFINE h == [s \in SUBSET D |-> SumStep(f, g, s)]
  <2>2. ASSUME NEW s \in SUBSET D, Cardinality(s) <= n + 1 PROVE h[s] = SumStep(f, h, s)
    <3>1. h[s] = SumStep(f, g, s) OBVIOUS
    <3>2. CASE s = {} BY <3>1, <3>2 DEF SumStep
    <3>3. CASE s # {}
      <4> DEFINE r == s \ {Pick(s)}
      <4>1. r \in SUBSET D /\ Cardinality(r) <= n BY <2>2, <3>3, PickSmaller
      <4>2. g[r] = h[r] BY <2>1, <4>1
      <4>3. QED BY <3>1, <3>3, <4>2 DEF SumStep
    <3>4. QED BY <3>2, <3>3
  <2> HIDE DEF h
  <2>3. QED BY <2>2
<1> HIDE DEF Upto
<1>3. Bad = {}
  <2> SUFFICES ASSUME Bad # {} PROVE FALSE
      OBVIOUS
  <2>1. PICK n \in Bad : \A m \in Bad : n <= m BY LeastNatural
  <2>2. n \in Nat /\ n # 0 /\ ~ Upto(n) BY <1>1
  <2>3. n - 1 \in Nat /\ ~ (n <= n - 1) BY <2>2
  <2>4. Upto(n - 1) BY <2>1, <2>3
  <2>5. Upto((n - 1) + 1) BY <1>2, <2>3, <2>4
  <2>6. (n - 1) + 1 = n BY <2>2
  <2>7. QED BY <2>2, <2>5, <2>6
<1>4. Cardinality(D) \in Nat BY FS_CardinalityType
<1>5. PICK g : \A s \in SUBSET D : Cardinality(s) <= Cardinality(D) => g[s] = SumStep(f, g, s)
  <2>1. Upto(Cardinality(D)) BY <1>3, <1>4
  <2>2. QED BY <2>1 DEF Upto
<1>6. \A s \in SUBSET D : g[s] = SumStep(f, g, s) BY <1>5, FS_Subset
<1> DEFINE h == [s \in SUBSET D |-> g[s]]
<1>7. ASSUME NEW s \in SUBSET D PROVE h[s] = SumStep(f, h, s)
  <2>1. CASE s = {} BY <2>1, <1>6 DEF SumStep
  <2>2. CASE s # {}
    <3>1. s \ {Pick(s)} \in SUBSET D OBVIOUS
    <3>2. g[s] = f[Pick(s)] + g[s \ {Pick(s)}] BY <1>6, <2>2 DEF SumStep
    <3>3. QED BY <2>2, <3>1, <3>2 DEF SumStep
  <2>3. QED BY <2>1, <2>2
<1>8. h = [s \in SUBSET D |-> SumStep(f, h, s)]
  <2>1. DOMAIN h = SUBSET D OBVIOUS
  <2>2. h = [s \in SUBSET D |-> h[s]] OBVIOUS
  <2> HIDE DEF h
  <2>3. QED BY <2>2, <1>7
<1>9. QED BY <1>8

\* g gives the sums of f over the sets of D.
Sums(f, D, g) ==
    /\ SumOver(f) = g[D]
    /\ \A s \in SUBSET D : g[s] \in Int /\ g[s] = SumStep(f, g, s)

\* A sum is got together one element at a time, whatever is summed in the same order.
LEMMA SumSteps ==
    ASSUME NEW D, IsFiniteSet(D), NEW f \in [D -> Int]
    PROVE  \E g : Sums(f, D, g)
<1> DEFINE g == CHOOSE h : h = [s \in SUBSET D |-> SumStep(f, h, s)]
           H == {s \in SUBSET D : g[s] \in Int}
<1>1. SumOver(f) = g[D]
  <2>1. DOMAIN f = D OBVIOUS
  <2>2. QED BY <2>1, SumIsFold
<1>2. g = [s \in SUBSET D |-> SumStep(f, g, s)] BY SumExists
<1> HIDE DEF g
<1>3. \A s \in SUBSET D : g[s] = SumStep(f, g, s) BY <1>2
<1>4. \A s \in SUBSET D : s \in H
  <2>1. ASSUME NEW s \in SUBSET D, s # {} => s \ {Pick(s)} \in H PROVE s \in H
    <3>1. CASE s = {}
      <4>1. g[s] = 0 BY <3>1, <1>3 DEF SumStep
      <4>2. QED BY <4>1
    <3>2. CASE s # {}
      <4>1. Pick(s) \in D BY <3>2, PickSmaller
      <4>2. g[s] = f[Pick(s)] + g[s \ {Pick(s)}] BY <1>3, <3>2 DEF SumStep
      <4>3. QED BY <4>1, <4>2, <2>1, <3>2
    <3>3. QED BY <3>1, <3>2
  <2> HIDE DEF H
  <2>2. H \in SUBSET SUBSET D BY DEF H
  <2>3. QED BY <2>1, <2>2, PickByPick
<1>5. \A s \in SUBSET D : g[s] \in Int BY <1>4
<1> HIDE DEF H
<1>6. Sums(f, D, g) BY <1>1, <1>3, <1>5 DEF Sums
<1>7. QED BY <1>6

\* Of two calls that weigh a and b on each truth, the one that is not dearer in all
\* leaves little room for a truth on which it is by far the dearer.
LEMMA Product == \A n \in Nat : \A u, v \in Int :
    /\ n * u \in Int
    /\ v - u <= 4 => n * u - n * v + 4 * n >= 0
    /\ u - v >= 10 => n * u - n * v + 4 * n >= 14 * n
<1> SUFFICES ASSUME NEW n \in Nat, NEW u \in Int, NEW v \in Int
             PROVE  /\ n * u \in Int
                    /\ v - u <= 4 => n * u - n * v + 4 * n >= 0
                    /\ u - v >= 10 => n * u - n * v + 4 * n >= 14 * n
    OBVIOUS
<1>1. n * u - n * v + 4 * n = n * (u - v + 4) OBVIOUS
<1>2. \A k \in Int : k >= 0 => n * k >= 0 OBVIOUS
<1>3. \A k \in Int : k >= 14 => n * k >= 14 * n OBVIOUS
<1>4. QED BY <1>1, <1>2, <1>3

Weighs(p, a) == [x \in DOMAIN p |-> p[x] * a[x]]

LEMMA CheaperLeavesLittle ==
    ASSUME NEW D, IsFiniteSet(D), NEW p \in [D -> Nat], NEW a \in [D -> Int],
           NEW b \in [D -> Int], NEW dear \in D,
           \A x \in D : b[x] - a[x] <= 4, a[dear] - b[dear] >= 10,
           SumOver(Weighs(p, a)) <= SumOver(Weighs(p, b))
    PROVE  7 * p[dear] <= 2 * SumOver(p)
<1> DEFINE fa == Weighs(p, a)
           fb == Weighs(p, b)
<1>1. /\ fa \in [D -> Int] /\ fb \in [D -> Int] /\ p \in [D -> Int]
      /\ \A x \in D : /\ fa[x] \in Int /\ fb[x] \in Int /\ p[x] \in Nat
                      /\ fa[x] - fb[x] + 4 * p[x] >= 0
                      /\ x = dear => fa[x] - fb[x] + 4 * p[x] >= 14 * p[dear]
  <2>1. \A x \in D : p[x] \in Nat /\ a[x] \in Int /\ b[x] \in Int /\ p[x] \in Int OBVIOUS
  <2>2. \A x \in D : p[x] * a[x] \in Int /\ p[x] * b[x] \in Int BY <2>1, Product
  <2>3. ASSUME NEW x \in D PROVE p[x] * a[x] - p[x] * b[x] + 4 * p[x] >= 0
        BY <2>1, Product
  <2>4. p[dear] * a[dear] - p[dear] * b[dear] + 4 * p[dear] >= 14 * p[dear]
        BY <2>1, Product
  <2>5. p \in [D -> Int] BY <2>1
  <2>6. QED BY <2>1, <2>2, <2>3, <2>4, <2>5 DEF Weighs
<1>11. fa \in [D -> Int] /\ fb \in [D -> Int] /\ p \in [D -> Int] BY <1>1
<1> HIDE DEF fa, fb
<1>2. PICK ga : Sums(fa, D, ga) BY <1>11, SumSteps
<1>3. PICK gb : Sums(fb, D, gb) BY <1>11, SumSteps
<1>4. PICK gp : Sums(p, D, gp) BY <1>11, SumSteps
<1>12. /\ SumOver(fa) = ga[D] /\ SumOver(fb) = gb[D] /\ SumOver(p) = gp[D]
       /\ \A s \in SUBSET D : /\ ga[s] \in Int /\ ga[s] = SumStep(fa, ga, s)
                               /\ gb[s] \in Int /\ gb[s] = SumStep(fb, gb, s)
                               /\ gp[s] \in Int /\ gp[s] = SumStep(p, gp, s)
       BY <1>2, <1>3, <1>4 DEF Sums
<1> DEFINE k(s) == ga[s] - gb[s] + 4 * gp[s]
           H == {s \in SUBSET D : k(s) >= 0 /\ (dear \in s => k(s) >= 14 * p[dear])}
<1>5. ASSUME NEW s \in SUBSET D, s # {} => s \ {Pick(s)} \in H PROVE s \in H
  <2>1. CASE s = {}
    <3>1. ga[s] = 0 /\ gb[s] = 0 /\ gp[s] = 0 BY <2>1, <1>12 DEF SumStep
    <3>2. QED BY <2>1, <3>1
  <2>2. CASE s # {}
    <3> DEFINE x == Pick(s)
               r == s \ {x}
    <3>1. x \in s /\ x \in D /\ r \in SUBSET D BY <2>2, PickSmaller
    <3>2. /\ ga[s] = fa[x] + ga[r] /\ gb[s] = fb[x] + gb[r] /\ gp[s] = p[x] + gp[r]
          BY <2>2, <1>12 DEF SumStep
    <3>3. ga[r] \in Int /\ gb[r] \in Int /\ gp[r] \in Int BY <3>1, <1>12
    <3>4. /\ ga[r] - gb[r] + 4 * gp[r] >= 0
          /\ dear \in r => ga[r] - gb[r] + 4 * gp[r] >= 14 * p[dear]
          BY <1>5, <2>2
    <3>5. /\ fa[x] \in Int /\ fb[x] \in Int /\ p[x] \in Nat /\ p[dear] \in Nat
          /\ fa[x] - fb[x] + 4 * p[x] >= 0
          /\ x = dear => fa[x] - fb[x] + 4 * p[x] >= 14 * p[dear]
          BY <1>1, <3>1
    <3>6. dear \in s => dear \in r \/ x = dear OBVIOUS
    <3> HIDE DEF x, r
    <3>7. k(s) >= 0 BY <3>2, <3>3, <3>4, <3>5
    <3>8. dear \in s => k(s) >= 14 * p[dear] BY <3>2, <3>3, <3>4, <3>5, <3>6
    <3>9. QED BY <3>7, <3>8
  <2>3. QED BY <2>1, <2>2
<1>6. D \in H
  <2> HIDE DEF H
  <2>1. H \in SUBSET SUBSET D BY DEF H
  <2>2. \A s \in SUBSET D : (s # {} => s \ {Pick(s)} \in H) => s \in H BY <1>5
  <2>3. \A s \in SUBSET D : s \in H BY <2>1, <2>2, PickByPick
  <2>4. QED BY <2>3
<1>7. ga[D] - gb[D] + 4 * gp[D] >= 14 * p[dear] BY <1>6
<1>8. ga[D] <= gb[D] BY <1>12 DEF fa, fb
<1>9. ga[D] \in Int /\ gb[D] \in Int /\ gp[D] \in Int /\ p[dear] \in Nat
      BY <1>1, <1>12
<1>10. QED BY <1>12, <1>7, <1>8, <1>9

LEMMA WeighedFinite == IsFiniteSet(Weighed)
<1> DEFINE D == DOMAIN CostOrder
           f == [n \in D |-> CostOrder[n]]
<1>1. D = 1 .. Len(CostOrder) /\ Len(CostOrder) \in Nat BY AgentsAssumption
<1>2. IsFiniteSet(D) BY <1>1, FS_Interval
<1>3. f \in Surjection(D, Weighed) BY DEF Surjection, Weighed
<1>4. QED BY <1>2, <1>3, FS_Surjection

\* The cause declared is one of those weighed, and none costs less.
LEMMA CheapestDeclared ==
    ASSUME NEW p \in Posteriors
    PROVE  /\ Declare(p) \in Weighed
           /\ \A c \in Weighed : ExpectedCost(p, Declare(p)) <= ExpectedCost(p, c)
<1> DEFINE S == DOMAIN CostOrder
           e(n) == ExpectedCost(p, CostOrder[n])
           Best(n) == \A m \in S : e(n) < e(m) \/ (e(n) = e(m) /\ n <= m)
           Earlier(r) == e(r[1]) < e(r[2]) \/ (e(r[1]) = e(r[2]) /\ r[1] <= r[2])
           R == {r \in S \X S : Earlier(r)}
<1>1. /\ S = 1 .. Len(CostOrder) /\ Len(CostOrder) \in Nat \ {0}
      /\ p \in [Weighed -> Nat] /\ Cost \in [Weighed -> [Weighed -> Int]]
      BY AgentsAssumption
<1>2. IsFiniteSet(Weighed) BY WeighedFinite
<1>3. ASSUME NEW c \in Weighed PROVE ExpectedCost(p, c) \in Int
  <2> DEFINE f == [truth \in DOMAIN p |-> p[truth] * Cost[truth][c]]
  <2>1. \A x \in Weighed : p[x] \in Nat /\ Cost[x][c] \in Int BY <1>1, <1>3
  <2>2. \A x \in Weighed : p[x] * Cost[x][c] \in Int BY <2>1, Product
  <2>3. f \in [Weighed -> Int] BY <1>1, <2>2
  <2> HIDE DEF f
  <2>4. PICK g : Sums(f, Weighed, g) BY <1>2, <2>3, SumSteps
  <2>6. SumOver(f) \in Int BY <2>4 DEF Sums
  <2>5. QED BY <2>6 DEF f, ExpectedCost
<1>4. \A n \in S : e(n) \in Int /\ CostOrder[n] \in Weighed BY <1>3 DEF Weighed
<1>5. Ranks(R, S)
  <2> HIDE DEF e
  <2>1. \A a, b \in S : <<a, b>> \in R <=> (e(a) < e(b) \/ (e(a) = e(b) /\ a <= b))
        OBVIOUS
  <2>2. \A a \in S : a \in Int /\ e(a) \in Int BY <1>1, <1>4
  <2> HIDE DEF R, S
  <2>3. ASSUME NEW a \in S, NEW b \in S PROVE <<a, b>> \in R \/ <<b, a>> \in R
    <3>1. a \in Int /\ b \in Int /\ e(a) \in Int /\ e(b) \in Int BY <2>2
    <3>2. \/ e(a) < e(b) \/ (e(a) = e(b) /\ a <= b)
          \/ e(b) < e(a) \/ (e(b) = e(a) /\ b <= a)
          BY <3>1
    <3>3. QED BY <2>1, <3>2
  <2>4. \A a, b, c \in S : <<a, b>> \in R /\ <<b, c>> \in R => <<a, c>> \in R
        BY <2>1, <2>2
  <2>5. QED BY <2>3, <2>4 DEF Ranks
<1>6. \E n \in S : Best(n)
  <2>1. S # {} /\ S \subseteq 1 .. Len(CostOrder) /\ Len(CostOrder) \in Nat
    <3>1. 1 \in 1 .. Len(CostOrder) BY <1>1
    <3>2. QED BY <1>1, <3>1
  <2> HIDE DEF S, R
  <2>2. PICK n \in S : \A m \in S : <<n, m>> \in R BY <2>1, <1>5, FirstExists
  <2> HIDE DEF e
  <2>3. QED BY <2>2 DEF R
<1> DEFINE n == CHOOSE n \in S : Best(n)
<1>7. n \in S /\ Best(n)
  <2> HIDE DEF Best
  <2>1. QED BY <1>6
<1>8. Declare(p) = CostOrder[n] BY DEF Declare
<1> HIDE DEF n
<1>9. ASSUME NEW c \in Weighed PROVE ExpectedCost(p, Declare(p)) <= ExpectedCost(p, c)
  <2>1. PICK m \in S : c = CostOrder[m] BY DEF Weighed
  <2>2. e(n) \in Int /\ e(m) \in Int BY <1>4, <1>7
  <2>3. e(n) < e(m) \/ e(n) = e(m) BY <1>7
  <2>4. e(n) <= e(m)
    <3> HIDE DEF e
    <3>1. QED BY <2>2, <2>3
  <2>5. QED BY <2>1, <2>4, <1>8
<1>10. QED BY <1>4, <1>7, <1>8, <1>9

\* A false alarm on fading costs 10, and naming fading for anything else 4 at the most:
\* the matrix of contract/cost_matrix.yaml.
FadingIsDear ==
    /\ "fading" \in Weighed
    /\ \A j \in Weighed \cap Accused :
          /\ Cost["fading"][j] - Cost["fading"]["fading"] >= 10
          /\ \A truth \in Weighed : Cost[truth]["fading"] - Cost[truth][j] <= 4

LEMMA AccusesWithReason ==
    ASSUME FadingIsDear, NEW p \in Posteriors, Declare(p) \in Accused
    PROVE  7 * p["fading"] <= 2 * SumOver(p)
<1> DEFINE j == Declare(p)
           a == [x \in Weighed |-> Cost[x][j]]
           b == [x \in Weighed |-> Cost[x]["fading"]]
<1>1. /\ j \in Weighed \cap Accused /\ "fading" \in Weighed
      /\ ExpectedCost(p, j) <= ExpectedCost(p, "fading")
      BY CheapestDeclared DEF FadingIsDear
<1>2. p \in [Weighed -> Nat] /\ Cost \in [Weighed -> [Weighed -> Int]] /\ DOMAIN p = Weighed
      BY AgentsAssumption
<1> HIDE DEF j
<1>3. a \in [Weighed -> Int] /\ b \in [Weighed -> Int]
  <2>1. \A x \in Weighed : Cost[x][j] \in Int /\ Cost[x]["fading"] \in Int BY <1>1, <1>2
  <2>2. QED BY <2>1
<1>4. /\ \A x \in Weighed : b[x] - a[x] <= 4
      /\ a["fading"] - b["fading"] >= 10
      BY <1>1 DEF FadingIsDear
<1>5. ExpectedCost(p, j) = SumOver(Weighs(p, a))
  <2>1. Weighs(p, a) = [truth \in DOMAIN p |-> p[truth] * Cost[truth][j]] BY <1>2 DEF Weighs
  <2>2. QED BY <2>1 DEF ExpectedCost
<1>6. ExpectedCost(p, "fading") = SumOver(Weighs(p, b))
  <2>1. Weighs(p, b) = [truth \in DOMAIN p |-> p[truth] * Cost[truth]["fading"]]
        BY <1>2 DEF Weighs
  <2>2. QED BY <2>1 DEF ExpectedCost
<1> HIDE DEF a, b
<1>7. SumOver(Weighs(p, a)) <= SumOver(Weighs(p, b)) BY <1>1, <1>5, <1>6
<1>8. QED BY <1>1, <1>2, <1>3, <1>4, <1>7, WeighedFinite, CheaperLeavesLittle

\* The net is shown one of its posteriors.
NetInv == agent \in {"student", "hybrid"} /\ seen # None => seen.p \in Posteriors

LEMMA NetStep ==
    ASSUME NetInv, [Next]_vars
    PROVE  NetInv'
<1>1. CASE Sense BY <1>1 DEF Sense, Shown, NetInv
<1>2. CASE Decides \/ Reset \/ UNCHANGED vars
  <2>1. UNCHANGED <<agent, seen>>
        BY <1>2 DEF Decides, BaselineDecides, StudentDecides, HybridDecides, RuleFires, BuyTest,
                    Asked, Reset, vars
  <2>2. QED BY <2>1 DEF NetInv
<1>3. CASE Taken BY <1>3 DEF Taken, NetInv
<1>4. QED BY <1>1, <1>2, <1>3 DEF Next, Decides

\* What the net says for itself is of the posterior it is shown.
LEMMA NetSpeaks ==
    ASSUME None \notin Accused, NEW s, NEW dec \in Student(s) \cup Hybrid(s), dec.by = "net",
           dec.declared \in Accused
    PROVE  dec.belief = s.p /\ dec.declared = Declare(s.p)
<1>1. ASSUME NEW net \in Student(s), net.declared \in Accused
      PROVE  net.belief = s.p /\ net.declared = Declare(s.p)
      BY <1>1 DEF Student
<1>2. CASE dec \in Student(s) BY <1>1, <1>2
<1>3. CASE dec \in Hybrid(s) /\ dec \notin Student(s)
  <2> DEFINE hit == RuleHit(MostSpecific(rules, s.f))
             hyp == hit[1].hypothesis
             call == IfAvailable(PLAYBOOK(hyp), s.mask)
  <2>1. hit # << >> BY <1>3 DEF Hybrid
  <2>2. CASE Trust(rules, hit[1].id) >= LeadPrecision
    <3>1. dec.by = "rule" BY <1>3, <2>1, <2>2 DEF Hybrid
    <3>2. QED BY <3>1
  <2>3. CASE ~ (Trust(rules, hit[1].id) >= LeadPrecision)
    <3>1. PICK net \in Student(s) :
             dec = IF net.declared = None THEN [net EXCEPT !.by = "tie", !.declared = hyp] ELSE net
          BY <1>3, <2>1, <2>3 DEF Hybrid
    <3>2. CASE net.declared = None
      <4>1. dec.by = "tie" BY <3>1, <3>2 DEF Student
      <4>2. QED BY <4>1
    <3>3. CASE net.declared # None BY <3>1, <3>3, <1>3
    <3>4. QED BY <3>2, <3>3
  <2>4. QED BY <2>2, <2>3
<1>4. QED BY <1>2, <1>3

\* "Declaring jamming when the truth is fading costs 10, so the model must be far more
\* confident" (student.py 8-11): whatever the posterior, the threshold of abstention and
\* the rules, the net names a jammer that is answered with a hop only with at most two
\* sevenths of its belief on fading, for every cost matrix in which that mistake is dear.
THEOREM AccusationsWarranted ==
    ASSUME FadingIsDear, None \notin Accused
    PROVE  Spec => []AccusationIsWarranted
<1>1. Init => NetInv /\ AccusationIsWarranted BY DEF Init, NetInv, AccusationIsWarranted
<1>2. (NetInv /\ AccusationIsWarranted) /\ [Next]_vars => (NetInv /\ AccusationIsWarranted)'
  <2> SUFFICES ASSUME NetInv, AccusationIsWarranted, [Next]_vars PROVE AccusationIsWarranted'
      BY NetStep
  <2>1. CASE Sense \/ Taken \/ Reset \/ UNCHANGED vars
    <3>1. d' = None \/ d' = d BY <2>1 DEF Sense, Taken, Reset, vars
    <3>2. QED BY <3>1 DEF AccusationIsWarranted
  <2>2. CASE StudentDecides \/ HybridDecides
    <3>1. d' \in Student(seen) \cup Hybrid(seen) BY <2>2 DEF StudentDecides, HybridDecides
    <3>2. seen.p \in Posteriors
          BY <2>2 DEF StudentDecides, HybridDecides, Asked, NetInv
    <3>3. ASSUME d'.by = "net", d'.declared \in Accused
          PROVE  7 * d'.belief["fading"] <= 2 * SumOver(d'.belief)
      <4>1. d'.belief = seen.p /\ Declare(seen.p) \in Accused BY <3>1, <3>3, NetSpeaks
      <4>2. 7 * seen.p["fading"] <= 2 * SumOver(seen.p) BY <3>2, <4>1, AccusesWithReason
      <4>3. QED BY <4>1, <4>2
    <3>4. QED BY <3>3 DEF AccusationIsWarranted, Accused
  <2>3. CASE BaselineDecides \/ RuleFires \/ BuyTest
    <3>1. d'.by # "net"
          BY <2>3 DEF BaselineDecides, RuleFires, BuyTest, Baseline, Says, RuleSays
    <3>2. QED BY <3>1 DEF AccusationIsWarranted
  <2>4. QED BY <2>1, <2>2, <2>3 DEF Next
<1>3. QED BY <1>1, <1>2, PTL DEF Spec

-----------------------------------------------------------------------------
(* What the log says, and what is scored of it.                            *)

\* The first and the last of a set of positions.
LEMMA MinOfPositions ==
    ASSUME NEW n \in Nat, NEW S \in SUBSET (1 .. n), S # {}
    PROVE  Min(S) \in S /\ \A i \in S : Min(S) <= i
<1>1. \E i \in S : \A j \in S : i <= j BY LeastNatural
<1>2. \E i \in S : \A j \in S : j >= i BY <1>1
<1>3. QED BY <1>1, <1>2 DEF Min

LEMMA MaxOfPositions ==
    ASSUME NEW n \in Nat, NEW S \in SUBSET (1 .. n), S # {}
    PROVE  Max(S) \in S /\ \A i \in S : i <= Max(S)
<1> DEFINE Down == {n - i : i \in S}
<1>0. PICK s \in S : TRUE OBVIOUS
<1>1. Down \in SUBSET Nat /\ n - s \in Down OBVIOUS
<1>2. PICK gap \in Down : \A e \in Down : gap <= e
  <2> HIDE DEF Down
  <2> QED BY <1>1, LeastNatural
<1>3. PICK i \in S : gap = n - i BY <1>2
<1>4. \A j \in S : i >= j
  <2> SUFFICES ASSUME NEW j \in S PROVE i >= j
      OBVIOUS
  <2>1. n - i <= n - j BY <1>2, <1>3
  <2>2. QED BY <2>1
<1>5. \E k \in S : \A j \in S : k >= j BY <1>4
<1>6. QED BY <1>5 DEF Max

-----------------------------------------------------------------------------
(* What a log is.                                                          *)

Rows == [t         : Nat,
         top       : {b.top : b \in Beliefs} \cup {"barrage"},
         sure      : BOOLEAN,
         declared  : {b.declared : b \in Beliefs} \cup {None},
         abstained : BOOLEAN]

Actions == [t : Nat, fn : Calls]

Logs == [trace : Seq(Rows), actions : Seq(Actions), tests : Seq(Nat), hops : Nat,
         recovery : Nat \cup {None}, lost : Nat \cup {None}]

\* Rows are in the order they were made.
Ordered(l) ==
    \A i, j \in DOMAIN l.trace : i < j => l.trace[i].t < l.trace[j].t

\* Nothing in the log is of a later time than now.
Past ==
    /\ \A i \in DOMAIN log.trace : log.trace[i].t <= now
    /\ \A k \in DOMAIN log.actions : log.actions[k].t <= now

LogInv == log \in Logs /\ now \in Nat /\ Ordered(log) /\ Past

\* A log keeps its rows and actions, each with its time.
LEMMA Stamped ==
    ASSUME NEW l \in Logs
    PROVE  /\ \A i \in DOMAIN l.trace : l.trace[i] \in Rows /\ l.trace[i].t \in Nat
           /\ \A k \in DOMAIN l.actions : l.actions[k] \in Actions /\ l.actions[k].t \in Nat
<1>1. l.trace \in Seq(Rows) /\ l.actions \in Seq(Actions) BY DEF Logs
<1>2. /\ \A i \in DOMAIN l.trace : l.trace[i] \in Rows
      /\ \A k \in DOMAIN l.actions : l.actions[k] \in Actions
      BY <1>1
<1>3. QED BY <1>2 DEF Rows, Actions

\* What a step may do to the log: a row or none, an action or none.
Grows(t) ==
    /\ log' \in Logs
    /\ \/ log'.trace = log.trace
       \/ \E row \in Rows : row.t = t /\ log'.trace = Append(log.trace, row)
    /\ \/ log'.actions = log.actions
       \/ \E a \in Actions : a.t = t /\ log'.actions = Append(log.actions, a)
    /\ log.recovery # None => log'.recovery = log.recovery
    /\ log'.actions = log.actions => log'.trace # log.trace

\* What the log of a call at t is.
Filed(t, call) ==
    /\ LogCall(t, call) \in Logs
    /\ LogCall(t, call).trace = log.trace
    /\ LogCall(t, call).recovery = log.recovery
    /\ \/ LogCall(t, call).actions = log.actions /\ call # "declare_link_lost"
       \/ \E a \in Actions : a.t = t /\ LogCall(t, call).actions = Append(log.actions, a)

\* A call is an action or a test, and giving up is an action.
LEMMA CallFiled ==
    ASSUME log \in Logs, NEW t \in Nat, NEW call \in Calls
    PROVE  Filed(t, call)
<1> DEFINE a == [t |-> t, fn |-> call]
<1>1. a \in Actions BY DEF Actions
<1>2. Append(log.actions, a) \in Seq(Actions) /\ Append(log.tests, t) \in Seq(Nat)
      BY <1>1 DEF Logs
<1>3. log.hops + 1 \in Nat BY DEF Logs
<1>4. LogCall(t, call).actions \in {log.actions, Append(log.actions, a)} BY DEF LogCall, Logs
<1>5. call = "declare_link_lost" => LogCall(t, call).actions = Append(log.actions, a)
      BY DEF LogCall, Logs, Diagnose
<1>6. LogCall(t, call) \in Logs BY <1>2, <1>3 DEF LogCall, Logs
<1>7. LogCall(t, call).trace = log.trace /\ LogCall(t, call).recovery = log.recovery
      BY DEF LogCall, Logs
<1>8. QED BY <1>1, <1>4, <1>5, <1>6, <1>7 DEF Filed

\* Recovery is recorded once, at the time of the check.
LEMMA VerifiedOnce ==
    ASSUME log \in Logs, NEW t \in Nat, NEW well \in BOOLEAN
    PROVE  /\ VerifiedAt(t, well) \in Nat \cup {None}
           /\ log.recovery # None => VerifiedAt(t, well) = log.recovery
<1>1. log.recovery \in Nat \cup {None} BY DEF Logs
<1>2. VerifiedAt(t, well) \in {t, log.recovery} BY DEF VerifiedAt
<1>3. log.recovery # None => VerifiedAt(t, well) = log.recovery BY DEF VerifiedAt
<1>4. QED BY <1>1, <1>2, <1>3

\* A row with a call.
LEMMA RecordGrows ==
    ASSUME log \in Logs, NEW t \in Nat, NEW call \in Calls, NEW b, NEW own,
           Row(t, b) \in Rows, Record(t, b, call, own)
    PROVE  Grows(t) /\ now' = t
<1> DEFINE l == LogCall(t, call)
           row == Row(t, b)
<1>1. Filed(t, call) BY CallFiled
<1>2. PICK well \in BOOLEAN :
             log' = [l EXCEPT !.trace = Append(@, row), !.recovery = VerifiedAt(t, well)]
      BY DEF Record
<1>3. row.t = t BY DEF Row
<1>4. l \in Logs /\ l.trace = log.trace BY <1>1 DEF Filed
<1> DEFINE rec == VerifiedAt(t, well)
<1>5. rec \in Nat \cup {None} /\ (log.recovery # None => rec = log.recovery)
      BY VerifiedOnce
<1> HIDE DEF l, row, rec
<1>6. Append(l.trace, row) \in Seq(Rows) /\ Append(l.trace, row) # l.trace
      BY <1>4 DEF Logs, row
<1>7. /\ log' \in Logs /\ log'.trace = Append(log.trace, row)
      /\ log'.actions = l.actions /\ log'.recovery = rec
      BY <1>2, <1>4, <1>5, <1>6 DEF Logs, rec
<1>8. QED BY <1>1, <1>3, <1>4, <1>5, <1>6, <1>7 DEF Grows, Filed, Record, l, row

\* What the agent, the suppressor, the mask and the failsafe write.
LEMMA BeliefsAreRows ==
    ASSUME NEW t \in Nat, NEW b \in Beliefs
    PROVE  Row(t, b) \in Rows /\ Row(t, Rebuilt(b)) \in Rows
<1>1. b.sure \in BOOLEAN /\ b.abstained \in BOOLEAN BY ScoringAssumption
<1>2. Row(t, b) \in Rows BY <1>1 DEF Row, Rows
<1>3. CASE world = "refsim" BY <1>1, <1>3 DEF Row, Rows, Rebuilt
<1>4. CASE world # "refsim" BY <1>2, <1>4 DEF Rebuilt
<1>5. QED BY <1>2, <1>3, <1>4

\* The failsafe's row copies the last one, if there is one.
LEMMA LastBeliefIsRow ==
    ASSUME log \in Logs, NEW t \in Nat
    PROVE  Row(t, Rebuilt(LastBelief)) \in Rows
<1>1. CASE log.trace = << >>
      BY <1>1 DEF Row, Rows, Rebuilt, LastBelief
<1>2. CASE log.trace # << >>
  <2>1. log.trace[Len(log.trace)] \in Rows BY <1>2 DEF Logs
  <2>2. LastBelief \in Rows BY <1>2, <2>1 DEF LastBelief
  <2>3. QED BY <2>2 DEF Row, Rows, Rebuilt
<1>3. QED BY <1>1, <1>2

\* A tick is later than what is in the log, and adds to it.
LEMMA TickGrows ==
    ASSUME log \in Logs, now \in Nat, Tick
    PROVE  \E t \in Nat : t > now /\ now' = t /\ Grows(t)
<1>1. PICK gap \in Gaps :
         \/ \E b \in Beliefs, call \in Requests :
               \/ Made(now + gap, b, call)
               \/ Suppressed(now + gap, b, call)
               \/ Masked(now + gap, b, call)
         \/ Failsafe(now + gap)
      BY DEF Tick
<1> DEFINE t == now + gap
<1>2. t \in Nat /\ t > now BY ScoringAssumption
<1>3. Requests \subseteq Calls /\ {"no_op", "declare_link_lost"} \subseteq Calls
      BY ScoringAssumption DEF Calls, Always
<1> SUFFICES now' = t /\ Grows(t)
    BY <1>2
<1> HIDE DEF t
<1>4. CASE \E b \in Beliefs, call \in Requests :
               Made(t, b, call) \/ Suppressed(t, b, call) \/ Masked(t, b, call)
  <2>1. PICK b \in Beliefs, call \in Requests :
               Made(t, b, call) \/ Suppressed(t, b, call) \/ Masked(t, b, call)
        BY <1>4
  <2>2. Row(t, b) \in Rows /\ Row(t, Rebuilt(b)) \in Rows BY <1>2, BeliefsAreRows
  <2>3. \/ Record(t, b, call, b)
        \/ Record(t, Rebuilt(b), "no_op", b)
        BY <2>1 DEF Made, Suppressed, Masked
  <2>4. QED BY <1>2, <1>3, <2>2, <2>3, RecordGrows
<1>5. CASE Failsafe(t)
  <2>1. CASE world = "refsim"
    <3>1. Record(t, Rebuilt(LastBelief), "declare_link_lost", Rebuilt(LastBelief))
          BY <1>5, <2>1 DEF Failsafe
    <3>2. QED BY <1>2, <1>3, <3>1, LastBeliefIsRow, RecordGrows
  <2>2. CASE world # "refsim"
    <3> DEFINE l == LogCall(t, "declare_link_lost")
    <3>1. PICK well \in BOOLEAN :
             now' = t /\ log' = [l EXCEPT !.recovery = VerifiedAt(t, well)]
          BY <1>5, <2>2 DEF Failsafe
    <3> DEFINE rec == VerifiedAt(t, well)
    <3>2. Filed(t, "declare_link_lost") BY <1>2, <1>3, CallFiled
    <3>3. \A a \in Actions : Append(log.actions, a) # log.actions BY DEF Logs
    <3>4. rec \in Nat \cup {None} /\ (log.recovery # None => rec = log.recovery)
          BY <1>2, VerifiedOnce
    <3>5. /\ l \in Logs /\ l.trace = log.trace
          /\ \E a \in Actions : a.t = t /\ l.actions = Append(log.actions, a)
          BY <3>2 DEF Filed
    <3> HIDE DEF l, rec
    <3>6. /\ log' \in Logs /\ log'.trace = log.trace
          /\ log'.actions = l.actions /\ log'.recovery = rec
          BY <3>1, <3>4, <3>5 DEF Logs, rec
    <3>7. QED BY <3>1, <3>3, <3>4, <3>5, <3>6 DEF Grows
  <2>3. QED BY <2>1, <2>2
<1>6. QED BY <1>1, <1>4, <1>5 DEF t

\* An empty log is in order.
LEMMA LogInvInit == LogInit => LogInv
<1> SUFFICES ASSUME LogInit PROVE LogInv
    OBVIOUS
<1>1. now = RecoveryHold /\ log \in {NewLog, [NewLog EXCEPT !.recovery = 0]}
      BY DEF LogInit
<1>2. << >> \in Seq(Rows) /\ << >> \in Seq(Actions) /\ << >> \in Seq(Nat) OBVIOUS
<1>3. log \in Logs
  <2>1. NewLog \in Logs BY <1>2 DEF NewLog, Logs
  <2>2. [NewLog EXCEPT !.recovery = 0] \in Logs BY <2>1 DEF Logs
  <2>3. QED BY <1>1, <2>1, <2>2
<1>4. DOMAIN log.trace = {} /\ DOMAIN log.actions = {} BY <1>1 DEF NewLog
<1>5. now \in Nat BY <1>1, ScoringAssumption
<1>6. QED BY <1>3, <1>4, <1>5 DEF LogInv, Ordered, Past

\* Rows and actions are added in the order of time.
LEMMA LogInvStep == LogInv /\ [Tick]_logVars => LogInv'
<1> SUFFICES ASSUME LogInv, [Tick]_logVars PROVE LogInv'
    OBVIOUS
<1> USE DEF LogInv
<1>1. CASE UNCHANGED logVars BY <1>1 DEF logVars, Ordered, Past
<1>2. CASE Tick
  <2>1. PICK t \in Nat : t > now /\ now' = t /\ Grows(t) BY <1>2, TickGrows
  <2>2. log' \in Logs /\ now' \in Nat BY <2>1 DEF Grows
  <2>3. /\ \A i \in DOMAIN log.trace : log.trace[i].t \in Nat /\ log.trace[i].t < t
        /\ \A k \in DOMAIN log.actions : log.actions[k].t \in Nat /\ log.actions[k].t < t
    <3>1. /\ \A i \in DOMAIN log.trace : log.trace[i].t \in Nat
          /\ \A k \in DOMAIN log.actions : log.actions[k].t \in Nat
          BY Stamped
    <3>2. QED BY <2>1, <3>1 DEF Past
  <2>4. Ordered(log') /\ \A i \in DOMAIN log'.trace : log'.trace[i].t <= t
    <3>1. CASE log'.trace = log.trace BY <2>1, <2>3, <3>1 DEF Ordered
    <3>2. CASE \E row \in Rows : row.t = t /\ log'.trace = Append(log.trace, row)
      <4>1. PICK row \in Rows : row.t = t /\ log'.trace = Append(log.trace, row)
            BY <3>2
      <4>2. log.trace \in Seq(Rows) BY DEF Logs
      <4>3. \A i \in DOMAIN log'.trace :
               \/ i \in DOMAIN log.trace /\ log'.trace[i] = log.trace[i]
               \/ i = Len(log.trace) + 1 /\ log'.trace[i].t = t
            BY <4>1, <4>2
      <4>4. \A i \in DOMAIN log.trace : i \in Nat /\ i <= Len(log.trace)
            BY <4>2
      <4>5. QED BY <2>1, <2>3, <4>2, <4>3, <4>4 DEF Ordered
    <3>3. QED BY <2>1, <3>1, <3>2 DEF Grows
  <2>5. \A k \in DOMAIN log'.actions : log'.actions[k].t <= t
    <3>1. CASE log'.actions = log.actions BY <2>1, <2>3, <3>1
    <3>2. CASE \E a \in Actions : a.t = t /\ log'.actions = Append(log.actions, a)
          BY <2>1, <2>3, <3>2 DEF Logs, Actions
    <3>3. QED BY <2>1, <3>1, <3>2 DEF Grows
  <2>6. QED BY <2>1, <2>2, <2>4, <2>5 DEF Past
<1>3. QED BY <1>1, <1>2

\* Every log is in order.
LEMMA LogSound == LogSpec => []LogInv
BY LogInvInit, LogInvStep, PTL DEF LogSpec

-----------------------------------------------------------------------------
(* The claim that is scored.                                               *)

\* The rows an action may be said to act on, and the actions that anchor a claim,
\* are positions of the log.
LEMMA Positions ==
    ASSUME NEW l \in Logs
    PROVE  /\ DOMAIN l.trace = 1 .. Len(l.trace) /\ Len(l.trace) \in Nat
           /\ DOMAIN l.actions = 1 .. Len(l.actions) /\ Len(l.actions) \in Nat
           /\ Confident(l) \subseteq 1 .. Len(l.trace)
           /\ \A k : Prior(l, k) \subseteq Confident(l)
<1>1. l.trace \in Seq(Rows) /\ l.actions \in Seq(Actions) BY DEF Logs
<1>2. QED BY <1>1 DEF Confident, Prior

\* The belief held when action k was made.
LEMMA PriorLast ==
    ASSUME NEW l \in Logs, NEW k, Prior(l, k) # {}
    PROVE  /\ Max(Prior(l, k)) \in Prior(l, k)
           /\ Max(Prior(l, k)) \in Confident(l)
           /\ \A i \in Prior(l, k) : i <= Max(Prior(l, k))
<1>1. Len(l.trace) \in Nat /\ Prior(l, k) \in SUBSET (1 .. Len(l.trace)) BY Positions
<1>2. Max(Prior(l, k)) \in Prior(l, k) /\ \A i \in Prior(l, k) : i <= Max(Prior(l, k))
      BY <1>1, MaxOfPositions
<1>3. QED BY <1>2, Positions

Anchored(l) == {k \in DOMAIN l.actions : Anchors(l, k)}

\* The scored claim is that of the last action that anchors one.
LEMMA FinalOf ==
    ASSUME NEW l \in Logs, Anchored(l) # {}
    PROVE  /\ Max(Anchored(l)) \in Anchored(l)
           /\ \A k \in Anchored(l) : k <= Max(Anchored(l))
           /\ Final(l) = Claim(l.trace[Max(Prior(l, Max(Anchored(l))))])
<1>1. Len(l.actions) \in Nat /\ Anchored(l) \in SUBSET (1 .. Len(l.actions))
      BY Positions DEF Anchored
<1>2. /\ Max(Anchored(l)) \in Anchored(l)
      /\ \A k \in Anchored(l) : k <= Max(Anchored(l))
      BY <1>1, MaxOfPositions
<1>3. Final(l) = Claim(l.trace[Max(Prior(l, Max(Anchored(l))))])
      BY DEF Final, Anchored
<1>4. QED BY <1>2, <1>3

\* When the last action was followed by recovery, what was believed then is scored.
LEMMA ResolvedFinal ==
    ASSUME NEW l \in Logs, Len(l.actions) > 0, Causal(l, Len(l.actions)),
           Prior(l, Len(l.actions)) # {}
    PROVE  Final(l) = Claim(l.trace[Max(Prior(l, Len(l.actions)))])
<1> DEFINE last == Len(l.actions)
<1>1. DOMAIN l.actions = 1 .. last /\ last \in Nat BY Positions
<1>2. last \in Anchored(l) BY <1>1 DEF Anchored, Anchors
<1>3. Max(Anchored(l)) \in 1 .. last /\ last <= Max(Anchored(l))
      BY <1>1, <1>2, FinalOf DEF Anchored
<1>4. Max(Anchored(l)) = last BY <1>1, <1>3
<1>5. QED BY <1>2, <1>4, FinalOf

\* Claims of later rows change nothing then.
LEMMA DriftStep ==
    LogInv /\ [Tick]_logVars =>
       ((/\ Len(log.actions) > 0
         /\ Causal(log, Len(log.actions))
         /\ Prior(log, Len(log.actions)) # {}
         /\ log'.actions = log.actions)
           => Final(log') = Final(log))
<1> SUFFICES ASSUME LogInv, [Tick]_logVars, Len(log.actions) > 0,
                    Causal(log, Len(log.actions)), Prior(log, Len(log.actions)) # {},
                    log'.actions = log.actions
             PROVE  Final(log') = Final(log)
    OBVIOUS
<1> DEFINE last == Len(log.actions)
<1>0. log \in Logs /\ now \in Nat BY DEF LogInv
<1>1. CASE UNCHANGED logVars
  <2>1. log' = log BY <1>1 DEF logVars
  <2>2. QED BY <2>1
<1>2. CASE Tick
  <2>1. PICK t \in Nat : t > now /\ now' = t /\ Grows(t) BY <1>0, <1>2, TickGrows
  <2>2. log' \in Logs /\ log'.recovery = log.recovery
        BY <2>1 DEF Grows, Causal
  <2>3. PICK row \in Rows : row.t = t /\ log'.trace = Append(log.trace, row)
        BY <2>1 DEF Grows
  <2>4. /\ DOMAIN log.trace \subseteq DOMAIN log'.trace
        /\ \A i \in DOMAIN log.trace : log'.trace[i] = log.trace[i]
        /\ \A i \in DOMAIN log'.trace \ DOMAIN log.trace : log'.trace[i].t = t
    <3>1. log.trace \in Seq(Rows) BY <1>0 DEF Logs
    <3>2. QED BY <2>3, <3>1
  <2>5. last \in DOMAIN log.actions BY <1>0, Positions
  <2>6. log.actions[last].t \in Nat /\ log.actions[last].t <= now
        BY <1>0, <2>5, Stamped DEF LogInv, Past
  <2>7. ~ (t <= log.actions[last].t) BY <1>0, <2>1, <2>6
  <2>8. Prior(log', last) = Prior(log, last)
        BY <2>4, <2>7 DEF Prior, Confident
  <2>9. Causal(log', last) BY <2>2 DEF Causal
  <2>10. /\ Final(log) = Claim(log.trace[Max(Prior(log, last))])
         /\ Final(log') = Claim(log'.trace[Max(Prior(log', last))])
         BY <1>0, <2>2, <2>8, <2>9, ResolvedFinal
  <2>11. Max(Prior(log, last)) \in DOMAIN log.trace
         BY <1>0, PriorLast, Positions
  <2>12. QED BY <2>4, <2>8, <2>10, <2>11
<1>3. QED BY <1>1, <1>2

\* Once the last action was followed by recovery, no row without an action changes
\* the claim that is scored, for any agent, log and window (verifier.py 147-178).
THEOREM DriftScoresNothing == LogSpec => DriftIsNoClaim
<1>1. LogInv /\ [Tick]_logVars => 
       [(/\ Len(log.actions) > 0
         /\ Causal(log, Len(log.actions))
         /\ Prior(log, Len(log.actions)) # {}
         /\ log'.actions = log.actions)
           => Final(log') = Final(log)]_logVars
      BY DriftStep
<1>2. QED BY <1>1, LogSound, PTL DEF LogSpec, DriftIsNoClaim

\* A guess dropped in the next row anchors nothing, and the claim kept does.
LEMMA HedgeLoses == LogInv => HedgeForgiven
<1> DEFINE w(i) == Claim(log.trace[i])
<1> SUFFICES ASSUME LogInv, NEW i \in Confident(log), NEW m \in Confident(log),
                    log.recovery = None,
                    i < Len(log.trace), Claim(log.trace[i + 1]) # w(i),
                    \A n \in Confident(log) \ {i} : Claim(log.trace[n]) # w(i),
                    m # i, m + 1 \in Confident(log),
                    Claim(log.trace[m]) = Claim(log.trace[m + 1]),
                    NEW k \in DOMAIN log.actions, log.actions[k].t = log.trace[m].t
             PROVE  Final(log) # w(i)
    BY DEF HedgeForgiven
<1>0. log \in Logs /\ Ordered(log) BY DEF LogInv
<1>1. m \in Prior(log, k) /\ m \in DOMAIN log.trace
  <2>1. m \in DOMAIN log.trace BY DEF Confident
  <2>2. log.trace[m].t \in Nat BY <1>0, <2>1, Stamped
  <2>3. QED BY <2>1, <2>2 DEF Prior
<1>2. Max(Prior(log, k)) = m
  <2> DEFINE p == Max(Prior(log, k))
  <2>1. p \in Prior(log, k) /\ m <= p /\ p \in DOMAIN log.trace
        BY <1>0, <1>1, PriorLast, Positions
  <2>2. log.trace[p].t <= log.trace[m].t BY <2>1 DEF Prior
  <2>3. ~ (m < p)
    <3>1. m < p => log.trace[m].t < log.trace[p].t BY <1>0, <1>1, <2>1 DEF Ordered
    <3>2. log.trace[m].t \in Nat /\ log.trace[p].t \in Nat BY <1>0, <1>1, <2>1, Stamped
    <3>3. QED BY <2>2, <3>1, <3>2
  <2>4. m \in Nat /\ p \in Nat BY <1>0, <1>1, <2>1, Positions
  <2> HIDE DEF p
  <2>5. p = m BY <2>1, <2>3, <2>4
  <2>6. QED BY <2>5 DEF p
<1>3. k \in Anchored(log) BY <1>1, <1>2 DEF Anchored, Anchors, Kept
<1> DEFINE a == Max(Anchored(log))
           p == Max(Prior(log, a))
<1>4. /\ a \in Anchored(log)
      /\ Final(log) = Claim(log.trace[p])
      BY <1>0, <1>3, FinalOf
<1>5. Anchors(log, a) BY <1>4 DEF Anchored
<1>6. Kept(log, p) BY <1>5 DEF Anchors, Causal
<1>7. p \in Confident(log) BY <1>0, <1>5, PriorLast DEF Anchors
<1>8. p # i
  <2>1. i \in Nat /\ Len(log.trace) \in Nat BY <1>0, Positions
  <2>2. i # Len(log.trace) BY <2>1
  <2> HIDE DEF p
  <2>3. QED BY <1>6, <2>2 DEF Kept
<1>9. QED BY <1>4, <1>7, <1>8

\* A guess that is dropped in the next row is not what the agent is scored on when it
\* acted on a claim it kept: any number of rows and actions later (verifier.py 150-173).
THEOREM HedgesForgiven == LogSpec => []HedgeForgiven
BY LogSound, HedgeLoses, PTL

-----------------------------------------------------------------------------
(* What the score reads of a log.                                          *)

\* Two logs that differ in nothing the verifier looks at.
SameStory(l, m) ==
    /\ DOMAIN m.trace = DOMAIN l.trace /\ Len(m.trace) = Len(l.trace)
    /\ \A i \in DOMAIN l.trace :
          /\ m.trace[i].t = l.trace[i].t
          /\ m.trace[i].sure = l.trace[i].sure
          /\ m.trace[i].abstained = l.trace[i].abstained
          /\ Claim(m.trace[i]) = Claim(l.trace[i])
    /\ m.actions = l.actions /\ m.tests = l.tests /\ m.hops = l.hops
    /\ m.recovery = l.recovery /\ m.lost = l.lost

\* They agree on when the true cause was detected.
LEMMA SameFirst ==
    ASSUME NEW l \in Logs, NEW m, SameStory(l, m), NEW cause
    PROVE  FirstT(m, cause) = FirstT(l, cause)
<1> DEFINE R(x) == {i \in DOMAIN x.trace : Detects(x, i, cause)}
<1>1. Len(l.trace) \in Nat /\ DOMAIN l.trace = 1 .. Len(l.trace) BY Positions
<1>2. \A i \in DOMAIN l.trace : Detects(m, i, cause) <=> Detects(l, i, cause)
  <2> SUFFICES ASSUME NEW i \in DOMAIN l.trace
               PROVE  Detects(m, i, cause) <=> Detects(l, i, cause)
      OBVIOUS
  <2>1. ActedOn(m, i) <=> ActedOn(l, i) BY DEF ActedOn, SameStory
  <2>2. i < Len(l.trace) => i + 1 \in DOMAIN l.trace BY <1>1
  <2>3. Sustained(m, i, cause) <=> Sustained(l, i, cause)
        BY <2>2 DEF Sustained, SameStory
  <2>4. QED BY <2>1, <2>3 DEF Detects, SameStory
<1>3. R(m) = R(l) BY <1>2 DEF SameStory
<1>4. R(l) # {} => Min(R(l)) \in DOMAIN l.trace
  <2>1. R(l) \in SUBSET (1 .. Len(l.trace)) BY <1>1
  <2> HIDE DEF R
  <2>2. QED BY <1>1, <2>1, MinOfPositions
<1>5. R(l) # {} => m.trace[Min(R(l))].t = l.trace[Min(R(l))].t
      BY <1>4 DEF SameStory
<1>6. QED BY <1>3, <1>5 DEF FirstT

\* They agree on the claim that is scored.
LEMMA SameFinal ==
    ASSUME NEW l \in Logs, NEW m, SameStory(l, m)
    PROVE  Final(m) = Final(l)
<1>1. Len(l.trace) \in Nat /\ DOMAIN l.trace = 1 .. Len(l.trace)
      /\ Confident(l) \in SUBSET (1 .. Len(l.trace)) BY Positions
<1>2. Confident(m) = Confident(l) BY DEF Confident, SameStory
<1>3. \A k : Prior(m, k) = Prior(l, k) BY <1>2 DEF Prior, Confident, SameStory
<1>4. \A i \in DOMAIN l.trace : Kept(m, i) <=> Kept(l, i)
  <2> SUFFICES ASSUME NEW i \in DOMAIN l.trace PROVE Kept(m, i) <=> Kept(l, i)
      OBVIOUS
  <2>1. i # Len(l.trace) => i + 1 \in DOMAIN l.trace BY <1>1
  <2>2. QED BY <2>1 DEF Kept, SameStory
<1>5. \A k : Causal(m, k) <=> Causal(l, k) BY DEF Causal, SameStory
<1>6. \A k : Prior(l, k) # {} => Max(Prior(l, k)) \in DOMAIN l.trace
      BY <1>1, PriorLast
<1>7. \A k : Anchors(m, k) <=> Anchors(l, k)
      BY <1>3, <1>4, <1>5, <1>6 DEF Anchors
<1>8. Anchored(m) = Anchored(l) BY <1>7 DEF Anchored, SameStory
<1>9. CASE Anchored(l) # {}
  <2> DEFINE p == Max(Prior(l, Max(Anchored(l))))
  <2>1. Anchors(l, Max(Anchored(l))) BY <1>9, FinalOf DEF Anchored
  <2>2. p \in DOMAIN l.trace BY <1>6, <2>1 DEF Anchors
  <2>3. Final(l) = Claim(l.trace[p]) BY <1>9, FinalOf
  <2>4. Final(m) = Claim(m.trace[p])
        BY <1>3, <1>8, <1>9 DEF Final, Anchored
  <2>5. QED BY <2>2, <2>3, <2>4 DEF SameStory
<1>10. CASE Anchored(l) = {} /\ Confident(l) # {}
  <2> DEFINE p == Max(Confident(l))
  <2>1. p \in DOMAIN l.trace BY <1>1, <1>10, MaxOfPositions
  <2>2. Final(l) = Claim(l.trace[p]) BY <1>10 DEF Final, Anchored
  <2>3. Final(m) = Claim(m.trace[p]) BY <1>2, <1>8, <1>10 DEF Final, Anchored
  <2>4. QED BY <2>1, <2>2, <2>3 DEF SameStory
<1>11. CASE Anchored(l) = {} /\ Confident(l) = {}
      BY <1>2, <1>8, <1>11 DEF Final, Anchored
<1>12. QED BY <1>9, <1>10, <1>11

\* So they have the same score.
LEMMA SameScore ==
    ASSUME NEW l \in Logs, NEW m, SameStory(l, m), NEW truth
    PROVE  Score(m, truth) = Score(l, truth)
<1>1. FirstT(m, truth.cause) = FirstT(l, truth.cause) BY SameFirst
<1>2. Final(m) = Final(l) BY SameFinal
<1>3. BelievedJam(m) = BelievedJam(l) BY DEF BelievedJam, SameStory
<1>4. Hopped(m) = Hopped(l) BY DEF Hopped, SameStory
<1>5. RefusalOk(m, truth) = RefusalOk(l, truth) BY DEF RefusalOk, SameStory
<1>6. Survived(m, truth) = Survived(l, truth) BY DEF Survived, SameStory
<1>7. m.tests = l.tests /\ m.recovery = l.recovery BY DEF SameStory
<1>8. QED BY <1>1, <1>2, <1>3, <1>4, <1>5, <1>6, <1>7, Zenon DEF Score

\* What an agent that abstains leans to is not part of the story.
LEMMA LeaningIsUntold ==
    ASSUME log \in Logs, NEW c
    PROVE  SameStory(log, LeaningTo(c))
<1> DEFINE other(i) == IF log.trace[i].abstained THEN [log.trace[i] EXCEPT !.top = c]
                                                 ELSE log.trace[i]
           tr == [i \in DOMAIN log.trace |-> other(i)]
<1>1. LeaningTo(c) = [log EXCEPT !.trace = tr] BY DEF LeaningTo
<1>2. DOMAIN log.trace = 1 .. Len(log.trace) /\ Len(log.trace) \in Nat BY Positions
<1>3. Len(tr) = Len(log.trace) BY <1>2
<1>4. \A i \in DOMAIN log.trace :
         /\ other(i).t = log.trace[i].t /\ other(i).sure = log.trace[i].sure
         /\ other(i).abstained = log.trace[i].abstained
         /\ Claim(other(i)) = Claim(log.trace[i])
  <2> SUFFICES ASSUME NEW i \in DOMAIN log.trace, NEW row, row = log.trace[i]
               PROVE  LET o == IF row.abstained THEN [row EXCEPT !.top = c] ELSE row
                      IN  /\ o.t = row.t /\ o.sure = row.sure
                          /\ o.abstained = row.abstained /\ Claim(o) = Claim(row)
      OBVIOUS
  <2>1. row \in Rows BY Stamped
  <2>2. CASE row.abstained BY <2>1, <2>2 DEF Rows, Claim
  <2>3. CASE ~ row.abstained BY <2>3
  <2>4. QED BY <2>2, <2>3
<1> HIDE DEF other
<1>5. /\ LeaningTo(c).trace = tr
      /\ LeaningTo(c).actions = log.actions /\ LeaningTo(c).tests = log.tests
      /\ LeaningTo(c).hops = log.hops /\ LeaningTo(c).recovery = log.recovery
      /\ LeaningTo(c).lost = log.lost
      BY <1>1 DEF Logs
<1>6. DOMAIN tr = DOMAIN log.trace /\ \A i \in DOMAIN log.trace : tr[i] = other(i)
      OBVIOUS
<1>7. QED BY <1>3, <1>4, <1>5, <1>6 DEF SameStory

\* Whatever an agent leans to when it abstains, no field of the score depends on it, for
\* any log and any true cause (verifier.py 75-83, 129-130).
THEOREM AbstentionsUnscored == LogSpec => []AbstentionNeverScored
<1>1. LogInv => AbstentionNeverScored
      BY LeaningIsUntold, SameScore DEF LogInv, AbstentionNeverScored
<1>2. QED BY <1>1, LogSound, PTL
=============================================================================
