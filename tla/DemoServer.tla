------------------------------ MODULE DemoServer ------------------------------
(***************************************************************************)
(* demo/live_demo.py and the page it serves (demo.html): one episode at a  *)
(* time, streamed as events to every connected tab.                        *)
(*                                                                         *)
(* The threads are the HTTP handler of a tab's POST, the episode thread    *)
(* (run_episode), the thread that drains the simulator's log               *)
(* (bridge_server.run) and a stream thread per tab.  _emit copies the set  *)
(* of queues under the lock and then puts the event into one after the     *)
(* other, so two emitters interleave.  A tab that is not reading fills its *)
(* queue and loses what does not fit; one that loses its connection gets a *)
(* new queue.  The bridge and the agent are arbitrary here (module Bridge).*)
(***************************************************************************)
EXTENDS Naturals, Sequences, FiniteSets

CONSTANTS
    Tabs,       \* the pages open on the server
    Clickers,   \* the tabs whose Run button is used
    Readers,    \* the tabs that read, however slowly; the others are wedged
    Capacity,   \* Queue(maxsize)
    MaxStarts,  \* bound: runs started
    MaxTicks,   \* bound: decisions of a run
    MaxLosses,  \* bound: connections lost and pages loaded again
    MaxAborts   \* bound: simulators that die

ASSUME DemoAssumption ==
    /\ Clickers \subseteq Tabs /\ Readers \subseteq Tabs
    /\ Capacity \in Nat \ {0}
    /\ MaxStarts \in Nat /\ MaxTicks \in Nat /\ MaxLosses \in Nat /\ MaxAborts \in Nat

Runs == 1..MaxStarts

VARIABLES
    running,    \* _running
    handler,    \* a tab's POST: "none", or "checked" before _running.set()
    started,    \* runs started so far
    at,         \* what run_episode does next, per run
    ticks,      \* decisions of the run
    sim,        \* its simulator: "up", "aborted" with its log unread, "logged"
    sending,    \* per emitting thread: the event, and the queues still to get it
    connected,  \* _subs
    queue,      \* the queue of each tab
    page,       \* what each page shows
    losses,
    seen,       \* history: <<c, r>>, a reader was sent the start of run r
    missed      \* history: the readers that an event of a run did not reach

serverVars == <<running, started, at, ticks, sim>>
tabVars == <<connected, queue, page>>
demoVars == <<serverVars, handler, sending, tabVars, losses, seen, missed>>

\* `run` is the run the events belong to; the code's events do not say.
Event(kind, r) == [kind |-> kind, run |-> r]

\* The two threads that emit for run r.
Episode(r) == <<"episode", r>>
Log(r) == <<"log", r>>
Threads == {"episode", "log"} \X Runs

-----------------------------------------------------------------------------
(* _emit *)

Nothing == [event |-> Event("none", 0), to |-> {}]
Sent(t) == sending[t].to = {}

\* The copy of _subs, under the lock.
Emit(t, event) ==
    /\ sending' = [sending EXCEPT ![t] =
                      IF connected = {} THEN Nothing ELSE [event |-> event, to |-> connected]]
    /\ missed' = missed \cup (Readers \ connected)

Without(send, c) == IF send.to \subseteq {c} THEN Nothing ELSE [send EXCEPT !.to = @ \ {c}]

\* put() instead of put_nowait().
PutSlip(t, c) ==
    LET event == sending[t].event IN
    /\ c \in sending[t].to
    /\ Len(queue[c]) < Capacity
    /\ sending' = [sending EXCEPT ![t] = Without(@, c)]
    /\ queue' = [queue EXCEPT ![c] = Append(@, event)]
    /\ seen' = IF event.kind = "start" THEN seen \cup {<<c, event.run>>} ELSE seen
    /\ UNCHANGED <<serverVars, handler, connected, page, losses, missed>>

\* put_nowait; queue.Full is passed over.
Put(t, c) ==
    LET event == sending[t].event
        fits == Len(queue[c]) < Capacity IN
    /\ c \in sending[t].to
    /\ sending' = [sending EXCEPT ![t] = Without(@, c)]
    /\ queue' = IF fits THEN [queue EXCEPT ![c] = Append(@, event)] ELSE queue
    /\ seen' = IF fits /\ event.kind = "start" THEN seen \cup (({c} \cap Readers) \X {event.run})
                                              ELSE seen
    /\ missed' = IF fits THEN missed ELSE missed \cup ({c} \cap Readers)
    /\ UNCHANGED <<serverVars, handler, connected, page, losses>>

-----------------------------------------------------------------------------
(* /api/run *)

\* The Run button: the request is answered 409, or the flag was found clear.
Click(c) ==
    /\ handler[c] = "none" /\ ~page[c].disabled /\ started < MaxStarts
    /\ IF running
       THEN UNCHANGED <<handler, page>>
       ELSE /\ handler' = [handler EXCEPT ![c] = "checked"]
            /\ page' = [page EXCEPT ![c].disabled = TRUE]
    /\ UNCHANGED <<serverVars, sending, connected, queue, losses, seen, missed>>

\* _running.set(), and the episode's thread.
StartRun(c) ==
    /\ handler[c] = "checked" /\ started < MaxStarts
    /\ handler' = [handler EXCEPT ![c] = "none"]
    /\ running' = TRUE
    /\ started' = started + 1
    /\ at' = [at EXCEPT ![started + 1] = "start"]
    /\ UNCHANGED <<ticks, sim, sending, tabVars, losses, seen, missed>>

-----------------------------------------------------------------------------
(* run_episode *)

\* Run r's thread emits and goes on to `next`.
Say(r, from, kind, next) ==
    /\ at[r] = from /\ Sent(Episode(r))
    /\ Emit(Episode(r), Event(kind, r))
    /\ at' = [at EXCEPT ![r] = next]
    /\ UNCHANGED <<running, handler, started, sim, tabVars, losses, seen>>

Begin(r) == Say(r, "start", "start", "play") /\ UNCHANGED ticks

\* _state and _tick: what the bridge reports while the episode runs.
Tick(r) ==
    /\ ticks[r] < MaxTicks
    /\ Say(r, "play", "tick", "play")
    /\ ticks' = [ticks EXCEPT ![r] = @ + 1]

\* bridge_run returns: at the end, or at the end of file an abort leaves.
Done(r) == Say(r, "play", "done", "clear") /\ UNCHANGED ticks

\* What is raised is swallowed, and the page is not told.
ReportErrorSlip(r) ==
    /\ at[r] = "play" /\ Sent(Episode(r))
    /\ at' = [at EXCEPT ![r] = "clear"]
    /\ UNCHANGED <<running, handler, started, ticks, sim, sending, tabVars, losses, seen, missed>>

\* No model, no simulator, or what bridge_run raises.
ReportError(r) == Say(r, "play", "error", "clear") /\ UNCHANGED ticks

\* The flag is cleared when bridge_run returns.
ClearSlip(r) ==
    /\ at[r] \in {"play", "clear"} /\ Sent(Episode(r))
    /\ running' = FALSE
    /\ at' = [at EXCEPT ![r] = IF @ = "clear" THEN "over" ELSE "play"]
    /\ UNCHANGED <<handler, started, ticks, sim, sending, tabVars, losses, seen, missed>>

\* `finally`, once done or error is out.
Clear(r) ==
    /\ at[r] = "clear" /\ Sent(Episode(r))
    /\ running' = FALSE
    /\ at' = [at EXCEPT ![r] = "over"]
    /\ ticks' = [ticks EXCEPT ![r] = 0]
    /\ UNCHANGED <<handler, started, sim, sending, tabVars, losses, seen, missed>>

\* ns-3 dies with NS_FATAL.
Abort(r) ==
    /\ at[r] = "play" /\ sim[r] = "up"
    /\ Cardinality({s \in Runs : sim[s] # "up"}) < MaxAborts
    /\ sim' = [sim EXCEPT ![r] = "aborted"]
    /\ UNCHANGED <<running, handler, started, at, ticks, sending, tabVars, losses, seen, missed>>

\* The drain thread comes to the line, whenever that is.
ReportCrash(r) ==
    /\ sim[r] = "aborted" /\ Sent(Log(r))
    /\ sim' = [sim EXCEPT ![r] = "logged"]
    /\ Emit(Log(r), Event("simcrash", r))
    /\ UNCHANGED <<running, handler, started, at, ticks, tabVars, losses, seen>>

-----------------------------------------------------------------------------
(* The tabs. *)

Fresh == [run |-> 0, ended |-> TRUE, disabled |-> FALSE, crashed |-> FALSE, scored |-> 0]

\* onmessage.  A tick on a page that has shown no run is a page joining a run.
Shown(pg, event) ==
    CASE event.kind = "start" ->
            [pg EXCEPT !.run = event.run, !.ended = FALSE, !.crashed = FALSE, !.scored = 0]
      [] event.kind = "tick" /\ pg.run = 0 ->
            [pg EXCEPT !.run = event.run, !.ended = FALSE, !.disabled = TRUE]
      [] event.kind = "done" ->
            [pg EXCEPT !.ended = TRUE, !.disabled = FALSE,
                       !.scored = IF pg.crashed THEN @ ELSE event.run]
      [] event.kind = "error" -> [pg EXCEPT !.ended = TRUE, !.disabled = FALSE]
      [] event.kind = "simcrash" -> [pg EXCEPT !.crashed = TRUE, !.scored = 0]
      [] OTHER -> pg

\* The stream thread gets an event and writes it, and the page shows it.
Deliver(c) ==
    /\ c \in connected \cap Readers /\ queue[c] # <<>>
    /\ page' = [page EXCEPT ![c] = Shown(@, Head(queue[c]))]
    /\ queue' = [queue EXCEPT ![c] = Tail(@)]
    /\ UNCHANGED <<serverVars, handler, sending, connected, losses, seen, missed>>

\* The queue of a tab is gone with its connection, and what is being put into it.
\* (A wedged tab keeps its connection, which is the worst it can do.)
Forget(c) ==
    /\ c \in connected \cap Readers /\ losses < MaxLosses
    /\ losses' = losses + 1
    /\ queue' = [queue EXCEPT ![c] = <<>>]
    /\ sending' = [t \in Threads |-> Without(sending[t], c)]
    /\ seen' = {s \in seen : s[1] # c}
    /\ missed' = missed \cup {c}
    /\ UNCHANGED <<serverVars, handler>>

\* The connection breaks.
Lose(c) == Forget(c) /\ connected' = connected \ {c} /\ UNCHANGED page

\* The page is loaded again, and connects.
Reload(c) == Forget(c) /\ page' = [page EXCEPT ![c] = Fresh] /\ UNCHANGED connected

\* The EventSource connects, or connects again: a new queue.
Connect(c) ==
    /\ c \notin connected
    /\ connected' = connected \cup {c}
    /\ UNCHANGED <<serverVars, handler, sending, queue, page, losses, seen, missed>>

\* The page's watchdog.  A ping comes every 15 s and counts as an event, so only a
\* page without a stream is silent for its 150 s.
Watchdog(c) ==
    /\ c \notin connected /\ ~page[c].ended
    /\ page' = [page EXCEPT ![c].ended = TRUE, ![c].disabled = FALSE]
    /\ UNCHANGED <<serverVars, handler, sending, connected, queue, losses, seen, missed>>

-----------------------------------------------------------------------------

DemoInit ==
    /\ running = FALSE
    /\ handler = [c \in Tabs |-> "none"]
    /\ started = 0
    /\ at = [r \in Runs |-> "none"] /\ ticks = [r \in Runs |-> 0]
    /\ sim = [r \in Runs |-> "up"]
    /\ sending = [t \in Threads |-> Nothing]
    /\ connected = Tabs
    /\ queue = [c \in Tabs |-> <<>>]
    /\ page = [c \in Tabs |-> Fresh]
    /\ losses = 0 /\ seen = {} /\ missed = {}

RunEpisode(r) ==
    \/ Begin(r) \/ Tick(r) \/ Done(r) \/ ReportError(r) \/ Clear(r)
    \/ \E c \in Tabs : Put(Episode(r), c)

DrainLog(r) == ReportCrash(r) \/ \E c \in Tabs : Put(Log(r), c)

DemoNext ==
    \/ \E c \in Clickers : Click(c)
    \/ \E c \in Tabs : StartRun(c)
    \/ \E r \in Runs : RunEpisode(r) \/ Abort(r) \/ DrainLog(r)
    \/ \E c \in Readers : Deliver(c) \/ Lose(c) \/ Reload(c) \/ Connect(c) \/ Watchdog(c)

\* Threads run; a tab in Readers reads and connects again.  The bridge returns or
\* raises (Bridge!BothStop).
DemoSpec ==
    /\ DemoInit /\ [][DemoNext]_demoVars
    /\ \A c \in Tabs : WF_demoVars(StartRun(c))
    /\ \A r \in Runs : WF_demoVars(RunEpisode(r)) /\ WF_demoVars(DrainLog(r))
    /\ \A c \in Readers : WF_demoVars(Deliver(c)) /\ WF_demoVars(Connect(c))

-----------------------------------------------------------------------------
(* Properties. *)

Kinds == {"start", "tick", "done", "error", "simcrash"}
Events == [kind : Kinds, run : Runs]
Sends == [event : [kind : Kinds \cup {"none"}, run : 0..MaxStarts], to : SUBSET Tabs]
Pages == [run : 0..MaxStarts, ended : BOOLEAN, disabled : BOOLEAN, crashed : BOOLEAN,
          scored : 0..MaxStarts]

DemoTypeOK ==
    /\ running \in BOOLEAN /\ handler \in [Tabs -> {"none", "checked"}]
    /\ started \in 0..MaxStarts
    /\ at \in [Runs -> {"none", "start", "play", "clear", "over"}]
    /\ ticks \in [Runs -> 0..MaxTicks]
    /\ sim \in [Runs -> {"up", "aborted", "logged"}]
    /\ sending \in [Threads -> Sends] /\ connected \subseteq Tabs
    /\ queue \in [Tabs -> Seq(Events)] /\ page \in [Tabs -> Pages]
    /\ losses \in 0..MaxLosses /\ seen \subseteq Tabs \X Runs /\ missed \subseteq Tabs

\* 409, "a run is already in progress" (live_demo.py 300-301): no two episodes run
\* at once, whatever tabs reload and however late a run clears the flag.  Two tabs
\* that press Run together do get two (the flag is tested and set in two steps).
OneEpisode ==
    \A r, s \in Runs : {at[r], at[s]} \subseteq {"start", "play", "clear"} => r = s

\* live_demo.py 41-48, "narrated the previous episode on top of the current one".
\* A page takes an event for one of the run it shows, whatever other tabs, full
\* queues and reloads do; only a run whose start it was not sent is shown under
\* the one before, and never an earlier run under a later one.  It holds while no
\* two requests race (OneEpisode).
OneStory ==
    [][\A c \in Readers :
          LET event == Head(queue[c]) IN
          losses' = losses /\ Len(queue'[c]) < Len(queue[c]) /\ event.kind # "simcrash"
          => \/ page'[c].run = event.run
             \/ page'[c].run < event.run /\ <<c, event.run>> \notin seen]_demoVars

\* live_demo.py 58-62, "a wedged client must not stall the run"; 200-211.  Whoever
\* reads, wedges, leaves or joins, a run that is started comes to its end.
RunsEnd == running ~> ~running

\* demo.html 359-368.  A page that reads and shows a run as going on is told of its
\* end, unless its connection broke or its queue was full.
EndIsShown ==
    \A c \in Readers : ~page[c].ended ~> (page[c].ended \/ c \in missed)
=============================================================================
