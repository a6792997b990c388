-------------------------------- MODULE RunLlm --------------------------------
(***************************************************************************)
(* harness/run_llm.py: a batch of teacher episodes on a process pool, with *)
(* their traces on disk (harness/trace.py), the summary file, --resume     *)
(* after the container was reclaimed, and the gateway of each worker.      *)
(*                                                                         *)
(* main() is a run of the batch; run_one is a worker's way through one     *)
(* episode: make_provider("auto") probes the model once and falls back to  *)
(* the stub, then every question of the agent goes through the gateway and *)
(* leaves a record.  What the episode does between questions, and whether  *)
(* its world fails, is arbitrary (HarnessGate, Controller and Bridge).     *)
(***************************************************************************)
EXTENDS Gateway

CONSTANTS
    Jobs,        \* the episodes, in the order main() submits them
    Probe,       \* the prompt make_provider probes with
    MaxAsks,     \* bound: questions of an episode
    MaxRuns,     \* bound: times the batch is started
    MaxFaults    \* bound: stuck children, broken pools and reclaimed containers

Episodes == {Jobs[i] : i \in DOMAIN Jobs}

ASSUME RunAssumption ==
    /\ \A i, j \in DOMAIN Jobs : Jobs[i] = Jobs[j] => i = j
    /\ None \notin Episodes
    /\ Probe \in Prompts
    /\ MaxAsks \in Nat /\ MaxRuns \in Nat /\ MaxFaults \in Nat

VARIABLES
    phase,     \* of main(): "off", "running", "late", "done", "failed"
    todo,      \* which of Jobs are submitted and not taken by a worker
    result,    \* what came of each job of the run: --out holds it once "done"
    trace,     \* the records of each trace file: the run that wrote each
    stage,     \* of a worker: "free", "probe", "play", "stuck"
    job,       \* its episode
    asked,     \* questions of that episode
    stub,      \* it answers from the stub
    runs,      \* times main() was started
    resume,    \* a.resume of the last one
    faults

mainVars == <<phase, todo, runs, resume>>
workerVars == <<stage, job, asked, stub>>
vars == <<gatewayVars, mainVars, workerVars, result, trace, faults>>

-----------------------------------------------------------------------------
(* main(): the jobs and --resume. *)

\* The last summary says which episodes are done, not the traces.
SkippedSlip(e) == phase = "done" /\ e \in DOMAIN result /\ result[e] = "ok"

\* "an existing non-empty file IS the completed work"
Skipped(e) == trace[e] # <<>>

Off == phase \in {"off", "done", "failed"}

Start(resuming) ==
    /\ Off /\ runs < MaxRuns
    /\ todo' = {i \in DOMAIN Jobs : ~(resuming /\ Skipped(Jobs[i]))}
    /\ result' = [e \in {Jobs[i] : i \in todo'} |-> "pending"]
    /\ phase' = "running"
    /\ runs' = runs + 1
    /\ resume' = resuming
    /\ UNCHANGED <<gatewayVars, workerVars, trace, faults>>

\* as_completed hands over every future, and --out is written.
Summarise ==
    /\ phase = "running" /\ todo = {}
    /\ \A w \in Workers : stage[w] = "free"
    /\ phase' = "done"
    /\ UNCHANGED <<gatewayVars, workerVars, todo, runs, resume, result, trace, faults>>

\* The deadline of as_completed passes: TimeoutError leaves the loop, and
\* ProcessPoolExecutor.__exit__ waits for every job submitted.
Deadline ==
    /\ phase = "running"
    /\ \E w \in Workers : stage[w] # "free"
    /\ phase' = "late"
    /\ UNCHANGED <<gatewayVars, workerVars, todo, runs, resume, result, trace, faults>>

\* The wait is over: main() ends with the TimeoutError, and no summary.
LeavePool ==
    /\ phase = "late" /\ todo = {}
    /\ \A w \in Workers : stage[w] = "free"
    /\ phase' = "failed"
    /\ UNCHANGED <<gatewayVars, workerVars, todo, runs, resume, result, trace, faults>>

-----------------------------------------------------------------------------
(* run_one() in a worker. *)

Unchanged == UNCHANGED <<phase, runs, resume, faults>>

\* The worker gets to the next job: the trace is opened for appending (the
\* records of an earlier run stay) and the provider is probed.
Take(w) ==
    /\ phase \in {"running", "late"}
    /\ stage[w] = "free"
    /\ Complete(w, Probe)
    /\ \E i \in todo :
          /\ \A j \in todo : i <= j
          /\ job' = [job EXCEPT ![w] = Jobs[i]]
          /\ todo' = todo \ {i}
    /\ stage' = [stage EXCEPT ![w] = "probe"]
    /\ UNCHANGED <<asked, stub, result, trace>> /\ Unchanged

\* make_provider("auto"): any exception of the probe means the stub.
Probed(w) ==
    /\ stage[w] = "probe" /\ Returned(w)
    /\ stub' = [stub EXCEPT ![w] = pc[w] # "answered"]
    /\ stage' = [stage EXCEPT ![w] = "play"]
    /\ Taken(w)
    /\ UNCHANGED <<job, asked, todo, result, trace>>
    /\ Unchanged

\* The agent has a question.
Ask(w, p) ==
    /\ stage[w] = "play" /\ ~stub[w] /\ asked[w] < MaxAsks
    /\ Complete(w, p)
    /\ asked' = [asked EXCEPT ![w] = @ + 1]
    /\ UNCHANGED <<stage, job, stub, todo, result, trace>> /\ Unchanged

\* TraceStore.append
Append1(w) == trace' = [trace EXCEPT ![job[w]] = Append(@, runs)]

\* The stub answers.
AskStub(w) ==
    /\ stage[w] = "play" /\ stub[w] /\ asked[w] < MaxAsks
    /\ asked' = [asked EXCEPT ![w] = @ + 1]
    /\ Append1(w)
    /\ UNCHANGED <<gatewayVars, stage, job, stub, todo, result>>
    /\ Unchanged

\* The answer, or the abstention after an LlmError, is recorded.
Record(w) ==
    /\ stage[w] = "play" /\ pc[w] \in {"answered", "llm_error"}
    /\ Append1(w)
    /\ Taken(w)
    /\ UNCHANGED <<workerVars, todo, result>>
    /\ Unchanged

\* The worker hands its result over.  The future of a run that is late is not
\* collected, but the episode is done all the same.
Leave(w, ok) ==
    /\ result' = [result EXCEPT ![job[w]] = IF ok THEN "ok" ELSE "error"]
    /\ stage' = [stage EXCEPT ![w] = "free"]
    /\ job' = [job EXCEPT ![w] = None]
    /\ asked' = [asked EXCEPT ![w] = 0]
    /\ stub' = [stub EXCEPT ![w] = FALSE]

\* An exception that is not an LlmError leaves decide(); run_one catches it and
\* closes the trace.
Raise(w) ==
    /\ stage[w] = "play" /\ pc[w] = "raised"
    /\ Leave(w, FALSE)
    /\ Taken(w)
    /\ UNCHANGED <<todo, trace>>
    /\ Unchanged

\* The episode ends; it is an error if its world failed or never formed a link.
Return(w, ok) ==
    /\ stage[w] = "play" /\ pc[w] = "idle"
    /\ Leave(w, ok)
    /\ UNCHANGED <<gatewayVars, todo, trace>>
    /\ Unchanged

-----------------------------------------------------------------------------
(* Faults. *)

Fault == faults < MaxFaults /\ faults' = faults + 1

\* A simulator that does not exit, or a call that never comes back.
Stick(w) ==
    /\ Fault
    /\ stage[w] = "play"
    /\ stage' = [stage EXCEPT ![w] = "stuck"]
    /\ UNCHANGED <<gatewayVars, mainVars, job, asked, stub, result, trace>>

\* Every process of the pool is gone, in the middle of what it did.
WorkersGone ==
    /\ stage' = [w \in Workers |-> "free"]
    /\ job' = [w \in Workers |-> None]
    /\ asked' = [w \in Workers |-> 0]
    /\ stub' = [w \in Workers |-> FALSE]
    /\ pc' = [w \in Workers |-> "idle"]
    /\ prompt' = [w \in Workers |-> None]
    /\ attempt' = [w \in Workers |-> 0]
    /\ reply' = [w \in Workers |-> None]
    /\ todo' = {}
    /\ UNCHANGED <<cache, trace>>

\* The jobs of a broken pool are dropped.
PoolBreaksSlip ==
    /\ Fault
    /\ phase \in {"running", "late"} /\ \E w \in Workers : stage[w] # "free"
    /\ UNCHANGED result
    /\ WorkersGone
    /\ UNCHANGED <<phase, runs, resume>>

\* A worker process dies: every job not done gets BrokenProcessPool, which main()
\* writes down as its error.
PoolBreaks ==
    /\ Fault
    /\ phase \in {"running", "late"} /\ \E w \in Workers : stage[w] # "free"
    /\ result' = [e \in DOMAIN result |-> IF result[e] = "pending" THEN "error" ELSE result[e]]
    /\ WorkersGone
    /\ UNCHANGED <<phase, runs, resume>>

\* The container is reclaimed; only the disk is left.
Reclaimed ==
    /\ Fault
    /\ phase \in {"running", "late"}
    /\ phase' = "off"
    /\ WorkersGone
    /\ UNCHANGED <<result, runs, resume>>

-----------------------------------------------------------------------------

Init ==
    /\ GatewayInit
    /\ phase = "off" /\ todo = {} /\ result = <<>>
    /\ trace = [e \in Episodes |-> <<>>]
    /\ stage = [w \in Workers |-> "free"] /\ job = [w \in Workers |-> None]
    /\ asked = [w \in Workers |-> 0] /\ stub = [w \in Workers |-> FALSE]
    /\ runs = 0 /\ resume = FALSE
    /\ faults = 0

InGateway(w) ==
    /\ stage[w] # "stuck"
    /\ Work(w)
    /\ UNCHANGED <<mainVars, workerVars, result, trace, faults>>

RunOne(w) ==
    \/ Take(w)
    \/ InGateway(w)
    \/ Probed(w)
    \/ \E p \in Prompts \ {Probe} : Ask(w, p)
    \/ AskStub(w)
    \/ Record(w)
    \/ Raise(w)
    \/ \E ok \in BOOLEAN : Return(w, ok)

Main == Summarise \/ LeavePool

Next ==
    \/ \E resuming \in BOOLEAN : Start(resuming)
    \/ Main \/ Deadline
    \/ \E w \in Workers : RunOne(w)
    \/ \E w \in Workers : Stick(w)
    \/ PoolBreaks \/ Reclaimed

\* The processes run: a worker that is not stuck goes on, and main() with it.
Spec == Init /\ [][Next]_vars /\ WF_vars(Main) /\ \A w \in Workers : WF_vars(RunOne(w))

-----------------------------------------------------------------------------
(* Properties. *)

TypeOK ==
    /\ GatewayTypeOK
    /\ phase \in {"off", "running", "late", "done", "failed"}
    /\ todo \subseteq DOMAIN Jobs
    /\ DOMAIN result \subseteq Episodes
    /\ \A e \in DOMAIN result : result[e] \in {"pending", "ok", "error"}
    /\ \A e \in Episodes : \A i \in DOMAIN trace[e] : trace[e][i] \in 1..runs
    /\ stage \in [Workers -> {"free", "probe", "play", "stuck"}]
    /\ job \in [Workers -> Episodes \cup {None}]
    /\ asked \in [Workers -> 0..MaxAsks] /\ stub \in [Workers -> BOOLEAN]
    /\ runs \in 0..MaxRuns /\ resume \in BOOLEAN /\ faults \in 0..MaxFaults

\* run_llm.py 161-172, trace.py 54-58.  A trace is appended to, so a run that played
\* an episode again would leave two tellings of it in one file: with --resume that
\* never happens, however the runs before it ended.
OneStoryPerTrace ==
    [][\A e \in Episodes : resume /\ trace'[e] # trace[e]
          => \A i \in DOMAIN trace[e] : trace[e][i] = runs]_vars

\* run_llm.py 184-192.  A summary says of every job submitted what came of it, in
\* a pool that broke, too.
EveryJobReported ==
    phase = "done" => \A e \in DOMAIN result : result[e] \in {"ok", "error"}

\* run_llm.py 122-124, 174-192.  A batch that is started ends, with a summary or
\* with the deadline's error, unless a child is stuck: no provider error, cache
\* file or broken pool holds it up.
HangsOnlyOnStuck ==
    (phase = "running") ~> (Off \/ \E w \in Workers : stage[w] = "stuck")
=============================================================================
