------------------------------ MODULE MCFlight ------------------------------
(***************************************************************************)
(* The scenario families of scenario/library.py, cut down to three         *)
(* channels and two peers, with the fault at tick 3.                       *)
(***************************************************************************)
EXTENDS Flight

Jam(kind, chans) == [kind |-> kind, channels |-> chans, db |-> 25]
Event(time, kind, target) == [t |-> time, kind |-> kind, target |-> target]

Nominal == [channel |-> 2, jammers |-> <<>>, events |-> <<>>, fading |-> FALSE,
            fadesTo |-> {0, 100}, mission |-> 0, loraJammed |-> FALSE]

Jammed(kind, chans) ==
    [Nominal EXCEPT !.jammers = [J1 |-> Jam(kind, chans)],
                    !.events = <<Event(3, "jammer_on", "J1")>>]

Spot == Jammed("spot", {2})
Barrage == [Jammed("barrage", {}) EXCEPT !.loraJammed = TRUE]
Sweep == Jammed("sweep", {})
Reactive == Jammed("reactive", {})
Pulsed == [Jammed("spot", {3}) EXCEPT
              !.events = <<Event(3, "jammer_on", "J1"), Event(4, "jammer_off", "J1")>>]
NodeLoss == [Nominal EXCEPT !.events = <<Event(3, "node_down", "p1")>>]
NodeBack == [Nominal EXCEPT !.events = <<Event(3, "node_down", "p1"), Event(5, "node_up", "p1")>>]
Fading == [Nominal EXCEPT !.fading = TRUE, !.mission = 2,
                            !.events = <<Event(3, "fade_enter", "")>>]
Shadowed == [Nominal EXCEPT !.fadesTo = {90, 100}, !.events = <<Event(3, "fade_enter", "")>>]
Congestion == [Nominal EXCEPT
    !.events = <<[t |-> 3, kind |-> "load_spike", target |-> "", factor |-> 12, hidden |-> FALSE]>>]
Hidden == [Nominal EXCEPT
    !.events = <<[t |-> 3, kind |-> "load_spike", target |-> "", factor |-> 8, hidden |-> TRUE]>>]

Library == {Spot, Barrage, Sweep, Reactive, Pulsed, NodeLoss, NodeBack, Fading, Shadowed, Congestion, Hidden}
=============================================================================
