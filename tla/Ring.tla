-------------------------------- MODULE Ring --------------------------------
(***************************************************************************)
(* percept/ring.py: the circular buffer behind every windowed statistic,   *)
(* and the run-length counter of fades.  Values are integers.              *)
(***************************************************************************)
EXTENDS Integers, Sequences

\* A ring of `cap` slots: `n` of them filled, the next value goes to `head`.
NewRing(cap) == [cap |-> cap, buf |-> [i \in 0 .. cap - 1 |-> 0], n |-> 0, head |-> 0]

\* (i + 1) % cap of a slot.
After(r, i) == IF i + 1 = r.cap THEN 0 ELSE i + 1

\* The value goes to the head, which moves on.
Push(r, v) == [cap  |-> r.cap,
               buf  |-> [r.buf EXCEPT ![r.head] = v],
               n    |-> IF r.n < r.cap THEN r.n + 1 ELSE r.n,
               head |-> After(r, r.head)]

\* The slot of the i-th oldest value of a full ring.
SlotOf(r, i) == IF r.head + i - 1 < r.cap THEN r.head + i - 1 ELSE r.head + i - 1 - r.cap

\* The values, oldest first.
Values(r) == IF r.n < r.cap THEN [i \in 1 .. r.n |-> r.buf[i - 1]]
                            ELSE [i \in 1 .. r.cap |-> r.buf[SlotOf(r, i)]]

Rings(cap, S) == [cap : {cap}, buf : [0 .. cap - 1 -> S], n : 0 .. cap, head : 0 .. cap - 1]

\* A ring that is not full was filled from its first slot.
RingOK(r) == r.n < r.cap => r.head = r.n

\* What a window of the last `cap` values does with one more.
Slide(w, cap, v) == IF Len(w) < cap THEN Append(w, v) ELSE Append(Tail(w), v)
-----------------------------------------------------------------------------
(* RunLength: how long the link stays below a threshold, run by run.       *)

NewRuns == [cur |-> 0, runs |-> <<>>]

\* The run that ends is kept, but the counter goes on.
RunUpdateSlip(f, below, cap) ==
    IF below THEN [f EXCEPT !.cur = @ + 1]
    ELSE IF f.cur > 0
    THEN [f EXCEPT !.runs = IF Len(@) = cap THEN Append(Tail(@), f.cur) ELSE Append(@, f.cur)]
    ELSE f

RunUpdate(f, below, cap) ==
    IF below THEN [f EXCEPT !.cur = @ + 1]
    ELSE IF f.cur > 0
    THEN [cur |-> 0,
          runs |-> IF Len(f.runs) = cap THEN Append(Tail(f.runs), f.cur)
                                        ELSE Append(f.runs, f.cur)]
    ELSE f
=============================================================================
