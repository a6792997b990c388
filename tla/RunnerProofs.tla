---------------------------- MODULE RunnerProofs ----------------------------
(***************************************************************************)
(* Theorems about the two programs that run episodes for somebody else.    *)
(* The batch runner: workers that share a cache never pass on an answer to *)
(* another prompt, and a batch that is started, killed and resumed tells   *)
(* no episode twice.  The live demo: a page tells one run's story, while   *)
(* no two requests race for the server.                                    *)
(***************************************************************************)
EXTENDS RunLlm, DemoServer, SequenceTheorems, TLAPS

-----------------------------------------------------------------------------
(* The gateway. *)

\* A file that parses holds an answer to the prompt it is named after.
Filed == \A p \in Prompts :
    cache[p] # None /\ cache[p].reply # None => cache[p].reply.to = p

\* A worker inside complete() has its prompt; the file it is to read, or is
\* writing, is there and stays; what it writes is the answer to its prompt.
Inside == \A w \in Workers :
    /\ pc[w] \in {"reading", "calling", "storing"} => prompt[w] \in Prompts
    /\ pc[w] = "reading" => cache[prompt[w]] # None
    /\ pc[w] = "storing" => /\ reply[w] # None /\ reply[w].to = prompt[w]
                            /\ cache[prompt[w]] # None

GatewayInv == GatewayTypeOK /\ Filed /\ Inside /\ AnswersAreGiven

LEMMA CompleteKeeps ==
    ASSUME GatewayInv, NEW w \in Workers, NEW p \in Prompts, Complete(w, p)
    PROVE  GatewayInv'
<1> USE DEF GatewayInv, Complete, Set, Exists, Key
<1>1. GatewayTypeOK' BY GatewayAssumption DEF GatewayTypeOK
<1>2. Filed' BY DEF Filed
<1>3. Inside' BY DEF Inside, GatewayTypeOK
<1>4. AnswersAreGiven' BY DEF AnswersAreGiven, GatewayTypeOK
<1>5. QED BY <1>1, <1>2, <1>3, <1>4

LEMMA ReadKeeps ==
    ASSUME GatewayInv, NEW w \in Workers, Read(w)
    PROVE  GatewayInv'
<1>1. /\ pc[w] = "reading" /\ prompt[w] \in Prompts
      /\ cache[prompt[w]] \in Files
      /\ cache[prompt[w]].reply # None => cache[prompt[w]].reply.to = prompt[w]
      BY DEF GatewayInv, Read, Inside, Filed, GatewayTypeOK
<1>2. cache[prompt[w]].reply \in Answers \cup {None} BY <1>1 DEF Files
<1>3. /\ pc' = [pc EXCEPT ![w] = IF cache[prompt[w]].reply = None THEN "raised"
                                                                  ELSE "answered"]
      /\ reply' = [reply EXCEPT ![w] = cache[prompt[w]].reply]
      /\ cache' = cache /\ prompt' = prompt /\ attempt' = attempt
      BY DEF Read, Set, Key
<1>4. GatewayTypeOK' BY <1>2, <1>3 DEF GatewayInv, GatewayTypeOK
<1>5. Filed' BY <1>3 DEF GatewayInv, Filed
<1>6. Inside' BY <1>1, <1>3 DEF GatewayInv, GatewayTypeOK, Inside
<1>7. AnswersAreGiven' BY <1>1, <1>3 DEF GatewayInv, GatewayTypeOK, AnswersAreGiven
<1>8. QED BY <1>4, <1>5, <1>6, <1>7 DEF GatewayInv

LEMMA ReplyKeeps ==
    ASSUME GatewayInv, NEW w \in Workers, NEW r \in Replies, Reply(w, r)
    PROVE  GatewayInv'
<1> DEFINE a == [to |-> prompt[w], text |-> r]
<1>1. pc[w] = "calling" /\ prompt[w] \in Prompts
      BY DEF GatewayInv, Reply, Inside
<1>2. a \in Answers /\ a # None /\ a.to = prompt[w]
      BY <1>1, GatewayAssumption DEF Answers
<1>3. Emptied \in Files /\ Emptied # None /\ Emptied.reply = None
      BY GatewayAssumption DEF Emptied, Files
<1>4. /\ pc' = [pc EXCEPT ![w] = "storing"]
      /\ reply' = [reply EXCEPT ![w] = a]
      /\ cache' = [cache EXCEPT ![prompt[w]] = Emptied]
      /\ prompt' = prompt /\ attempt' = attempt
      BY DEF Reply, Set, Key
<1> HIDE DEF a
<1>5. GatewayTypeOK' BY <1>1, <1>2, <1>3, <1>4 DEF GatewayInv, GatewayTypeOK
<1>6. Filed' BY <1>1, <1>3, <1>4 DEF GatewayInv, GatewayTypeOK, Filed
<1>7. Inside' BY <1>1, <1>2, <1>3, <1>4 DEF GatewayInv, GatewayTypeOK, Inside
<1>8. AnswersAreGiven' BY <1>1, <1>4 DEF GatewayInv, GatewayTypeOK, AnswersAreGiven
<1>9. QED BY <1>5, <1>6, <1>7, <1>8 DEF GatewayInv

LEMMA StoreKeeps ==
    ASSUME GatewayInv, NEW w \in Workers, Store(w)
    PROVE  GatewayInv'
<1> DEFINE f == Written(cache[prompt[w]], reply[w])
<1>1. /\ pc[w] = "storing" /\ prompt[w] \in Prompts
      /\ reply[w] \in Answers /\ reply[w].to = prompt[w] /\ reply[w] # None
      /\ cache[prompt[w]] \in Files
      BY DEF GatewayInv, GatewayTypeOK, Store, Inside
<1>2. Size[reply[w].text] \in Nat BY <1>1, GatewayAssumption DEF Answers
<1>3. f \in Files /\ (f.reply = None \/ f.reply = reply[w])
      BY <1>1, <1>2 DEF Written, Files
<1>4. f # None BY <1>3, GatewayAssumption
<1>5. /\ pc' = [pc EXCEPT ![w] = "answered"]
      /\ cache' = [cache EXCEPT ![prompt[w]] = f]
      /\ prompt' = prompt /\ attempt' = attempt /\ reply' = reply
      BY DEF Store, Set, Key
<1> HIDE DEF f
<1>6. GatewayTypeOK' BY <1>1, <1>3, <1>5 DEF GatewayInv, GatewayTypeOK
<1>7. Filed' BY <1>1, <1>3, <1>5 DEF GatewayInv, GatewayTypeOK, Filed
<1>8. Inside' BY <1>1, <1>4, <1>5 DEF GatewayInv, GatewayTypeOK, Inside
<1>9. AnswersAreGiven' BY <1>1, <1>5 DEF GatewayInv, GatewayTypeOK, AnswersAreGiven
<1>10. QED BY <1>6, <1>7, <1>8, <1>9 DEF GatewayInv

LEMMA RetryKeeps ==
    ASSUME GatewayInv, NEW w \in Workers, Retry(w)
    PROVE  GatewayInv'
<1> USE DEF GatewayInv, Retry
<1>1. GatewayTypeOK' BY GatewayAssumption DEF GatewayTypeOK
<1>2. Filed' /\ Inside' /\ AnswersAreGiven' BY DEF Filed, Inside, AnswersAreGiven
<1>3. QED BY <1>1, <1>2

LEMMA FailKeeps ==
    ASSUME GatewayInv, NEW w \in Workers, Fail(w)
    PROVE  GatewayInv'
<1> USE DEF GatewayInv, Fail, Set
<1>1. GatewayTypeOK' BY DEF GatewayTypeOK
<1>2. Filed' BY DEF Filed
<1>3. Inside' BY DEF Inside, GatewayTypeOK
<1>4. AnswersAreGiven' BY DEF AnswersAreGiven, GatewayTypeOK
<1>5. QED BY <1>1, <1>2, <1>3, <1>4

LEMMA WorkKeeps ==
    ASSUME GatewayInv, NEW w \in Workers, Work(w)
    PROVE  GatewayInv'
BY ReadKeeps, ReplyKeeps, StoreKeeps, RetryKeeps, FailKeeps DEF Work

LEMMA TakenKeeps ==
    ASSUME GatewayInv, NEW w \in Workers, Taken(w)
    PROVE  GatewayInv'
<1> USE DEF GatewayInv, Taken, Set
<1>1. GatewayTypeOK' BY GatewayAssumption DEF GatewayTypeOK
<1>2. Filed' BY DEF Filed
<1>3. Inside' BY DEF Inside, GatewayTypeOK
<1>4. AnswersAreGiven' BY DEF AnswersAreGiven, GatewayTypeOK
<1>5. QED BY <1>1, <1>2, <1>3, <1>4

\* The processes die; what they left on disk is as it was.
LEMMA GoneKeeps ==
    ASSUME GatewayInv, WorkersGone
    PROVE  GatewayInv'
<1> USE DEF GatewayInv, WorkersGone
<1>1. GatewayTypeOK' BY GatewayAssumption DEF GatewayTypeOK
<1>2. Filed' BY DEF Filed
<1>3. Inside' BY DEF Inside
<1>4. AnswersAreGiven' BY DEF AnswersAreGiven
<1>5. QED BY <1>1, <1>2, <1>3, <1>4

LEMMA StutterKeeps ==
    ASSUME GatewayInv, UNCHANGED gatewayVars
    PROVE  GatewayInv'
BY DEF GatewayInv, gatewayVars, GatewayTypeOK, Filed, Inside, AnswersAreGiven

LEMMA GatewayStep ==
    ASSUME GatewayInv, [Next]_vars
    PROVE  GatewayInv'
<1>1. CASE \E resuming \in BOOLEAN : Start(resuming)
      BY <1>1, StutterKeeps DEF Start
<1>2. CASE Main BY <1>2, StutterKeeps DEF Main, Summarise, LeavePool
<1>3. CASE Deadline BY <1>3, StutterKeeps DEF Deadline
<1>4. ASSUME NEW w \in Workers, RunOne(w) PROVE GatewayInv'
  <2>1. CASE Take(w) BY <2>1, CompleteKeeps, RunAssumption DEF Take
  <2>2. CASE InGateway(w) BY <2>2, WorkKeeps DEF InGateway
  <2>3. CASE Probed(w) BY <2>3, TakenKeeps DEF Probed
  <2>4. CASE \E p \in Prompts \ {Probe} : Ask(w, p) BY <2>4, CompleteKeeps DEF Ask
  <2>5. CASE AskStub(w) BY <2>5, StutterKeeps DEF AskStub
  <2>6. CASE Record(w) BY <2>6, TakenKeeps DEF Record
  <2>7. CASE Raise(w) BY <2>7, TakenKeeps DEF Raise
  <2>8. CASE \E ok \in BOOLEAN : Return(w, ok) BY <2>8, StutterKeeps DEF Return
  <2>9. QED BY <1>4, <2>1, <2>2, <2>3, <2>4, <2>5, <2>6, <2>7, <2>8 DEF RunOne
<1>5. ASSUME NEW w \in Workers, Stick(w) PROVE GatewayInv' BY <1>5, StutterKeeps DEF Stick
<1>6. CASE PoolBreaks BY <1>6, GoneKeeps DEF PoolBreaks
<1>7. CASE Reclaimed BY <1>7, GoneKeeps DEF Reclaimed
<1>8. CASE UNCHANGED vars BY <1>8, StutterKeeps DEF vars
<1>9. QED BY <1>1, <1>2, <1>3, <1>4, <1>5, <1>6, <1>7, <1>8 DEF Next

LEMMA GatewayStarts == ASSUME Init PROVE GatewayInv
<1> USE DEF Init, GatewayInit, GatewayInv
<1>1. GatewayTypeOK BY GatewayAssumption DEF GatewayTypeOK
<1>2. Filed BY DEF Filed
<1>3. Inside BY DEF Inside
<1>4. AnswersAreGiven BY DEF AnswersAreGiven
<1>5. QED BY <1>1, <1>2, <1>3, <1>4

\* provider.py 96-100, 123-131, 196-199: an answer is one the model gave to that
\* very prompt, however many workers empty, overwrite and read the files.
THEOREM AnswersGiven == Spec => []AnswersAreGiven
<1>1. Init => GatewayInv BY GatewayStarts
<1>2. GatewayInv /\ [Next]_vars => GatewayInv' BY GatewayStep
<1>3. GatewayInv => AnswersAreGiven BY DEF GatewayInv
<1>4. QED BY <1>1, <1>2, <1>3, PTL DEF Spec

\* A step of a worker inside complete() leaves a file alone that is there while
\* nobody is on the way to writing it, and puts nobody on that way.
LEMMA WorkSettles ==
    ASSUME GatewayInv, NEW w \in Workers, NEW p \in Prompts, Exists(p), Quiescent(p),
           Work(w)
    PROVE  Quiescent(p)' /\ cache'[p] = cache[p]
<1> USE DEF GatewayInv, GatewayTypeOK, Quiescent, Set, Key
<1>1. CASE Read(w) BY <1>1 DEF Read
<1>2. CASE \E r \in Replies : Reply(w, r) BY <1>2 DEF Reply
<1>3. CASE Store(w) BY <1>3 DEF Store
<1>4. CASE Retry(w) BY <1>4 DEF Retry
<1>5. CASE Fail(w) BY <1>5 DEF Fail
<1>6. QED BY <1>1, <1>2, <1>3, <1>4, <1>5 DEF Work

\* So does whatever happens around it.
LEMMA AroundSettles ==
    ASSUME GatewayInv, NEW p \in Prompts, Exists(p), Quiescent(p),
           \/ \E w \in Workers : Taken(w) \/ \E q \in Prompts : Complete(w, q)
           \/ WorkersGone
           \/ UNCHANGED gatewayVars
    PROVE  Quiescent(p)' /\ cache'[p] = cache[p]
<1> USE DEF GatewayInv, GatewayTypeOK, Quiescent, Set, Key
<1>1. CASE \E w \in Workers : Taken(w) BY <1>1 DEF Taken
<1>2. CASE \E w \in Workers, q \in Prompts : Complete(w, q) BY <1>2 DEF Complete
<1>3. CASE WorkersGone BY <1>3 DEF WorkersGone
<1>4. CASE UNCHANGED gatewayVars BY <1>4 DEF gatewayVars
<1>5. QED BY <1>1, <1>2, <1>3, <1>4

\* provider.py 8-10, 126-128: a file that is there and that nobody is writing stays
\* as it is for good, readable or not.
THEOREM CacheIsFinal == Spec => CacheSettles
<1> DEFINE Settled == \A p \in Prompts : Exists(p) /\ Quiescent(p)
                         => Quiescent(p)' /\ cache'[p] = cache[p]
<1>1. ASSUME GatewayInv, [Next]_vars PROVE [Settled]_gatewayVars
  <2> SUFFICES ASSUME NEW p \in Prompts, Exists(p), Quiescent(p)
               PROVE  Quiescent(p)' /\ cache'[p] = cache[p]
      OBVIOUS
  <2>1. CASE \E resuming \in BOOLEAN : Start(resuming)
        BY <1>1, <2>1, AroundSettles DEF Start
  <2>2. CASE Main \/ Deadline
        BY <1>1, <2>2, AroundSettles DEF Main, Summarise, LeavePool, Deadline
  <2>3. ASSUME NEW w \in Workers, RunOne(w) PROVE Quiescent(p)' /\ cache'[p] = cache[p]
    <3>1. CASE Take(w) BY <1>1, <3>1, AroundSettles, RunAssumption DEF Take
    <3>2. CASE InGateway(w) BY <1>1, <3>2, WorkSettles DEF InGateway
    <3>3. CASE Probed(w) \/ Record(w) \/ Raise(w)
          BY <1>1, <3>3, AroundSettles DEF Probed, Record, Raise
    <3>4. CASE \E q \in Prompts \ {Probe} : Ask(w, q)
          BY <1>1, <3>4, AroundSettles DEF Ask
    <3>5. CASE AskStub(w) \/ \E ok \in BOOLEAN : Return(w, ok)
          BY <1>1, <3>5, AroundSettles DEF AskStub, Return
    <3>6. QED BY <2>3, <3>1, <3>2, <3>3, <3>4, <3>5 DEF RunOne
  <2>4. CASE \E w \in Workers : Stick(w) BY <1>1, <2>4, AroundSettles DEF Stick
  <2>5. CASE PoolBreaks \/ Reclaimed
        BY <1>1, <2>5, AroundSettles DEF PoolBreaks, Reclaimed
  <2>6. CASE UNCHANGED vars BY <1>1, <2>6, AroundSettles DEF vars
  <2>7. QED BY <1>1, <2>1, <2>2, <2>3, <2>4, <2>5, <2>6 DEF Next
<1>2. Init => GatewayInv BY GatewayStarts
<1>3. GatewayInv /\ [Next]_vars => GatewayInv' BY GatewayStep
<1>4. QED BY <1>1, <1>2, <1>3, PTL DEF Spec, CacheSettles

-----------------------------------------------------------------------------
(* The batch. *)

BatchTypeOK ==
    /\ phase \in {"off", "running", "late", "done", "failed"}
    /\ todo \subseteq DOMAIN Jobs
    /\ stage \in [Workers -> {"free", "probe", "play", "stuck"}]
    /\ job \in [Workers -> Episodes \cup {None}]
    /\ DOMAIN result \subseteq Episodes
    /\ result \in [DOMAIN result -> {"pending", "ok", "error"}]
    /\ trace \in [Episodes -> Seq(Nat)]
    /\ runs \in Nat /\ resume \in BOOLEAN

\* A worker has a job until it hands over its result; main() is over only when no
\* job is left and nobody has one.
Occupied ==
    /\ \A w \in Workers : stage[w] = "free" <=> job[w] = None
    /\ Off => todo = {} /\ \A w \in Workers : stage[w] = "free"

\* The episode is waiting, or a worker has it.
Held(e) == (\E i \in todo : Jobs[i] = e) \/ \E w \in Workers : job[w] = e

\* All of its trace is this run's.
OwnTrace(e) == \A k \in DOMAIN trace[e] : trace[e][k] = runs

\* What is still to be played, or being played, was not told by an earlier run.
Untold == resume => \A e \in Episodes : Held(e) => OwnTrace(e)

\* A job without a result is held.
Owed == phase \in {"running", "done"} =>
           \A e \in DOMAIN result : result[e] \in {"ok", "error"} \/ Held(e)

BatchInv == BatchTypeOK /\ Occupied /\ Untold /\ Owed

batchVars == <<mainVars, stage, job, result, trace>>

LEMMA BatchStutter ==
    ASSUME BatchInv, UNCHANGED batchVars
    PROVE  BatchInv'
BY DEF BatchInv, BatchTypeOK, Occupied, Untold, Owed, Held, OwnTrace, Off, batchVars, mainVars

LEMMA BatchStarts == ASSUME Init PROVE BatchInv
<1> USE DEF Init, BatchInv
<1>1. DOMAIN result = {} /\ result \in [DOMAIN result -> {"pending", "ok", "error"}]
      BY DEF Init
<1>2. trace \in [Episodes -> Seq(Nat)]
  <2>1. << >> \in Seq(Nat) BY EmptySeq
  <2>2. QED BY <2>1
<1>3. BatchTypeOK BY <1>1, <1>2 DEF BatchTypeOK
<1>4. Occupied BY RunAssumption DEF Occupied, Off
<1>5. Untold BY DEF Untold
<1>6. Owed BY DEF Owed
<1>7. QED BY <1>3, <1>4, <1>5, <1>6

LEMMA StartKeeps ==
    ASSUME BatchInv, NEW resuming \in BOOLEAN, Start(resuming)
    PROVE  BatchInv'
<1>1. /\ Off /\ todo' \subseteq DOMAIN Jobs
      /\ phase' = "running" /\ runs' = runs + 1 /\ resume' = resuming
      /\ stage' = stage /\ job' = job /\ trace' = trace
      /\ result' = [e \in {Jobs[i] : i \in todo'} |-> "pending"]
      BY DEF Start, workerVars
<1>2. \A w \in Workers : stage[w] = "free" /\ job[w] = None
      BY <1>1 DEF BatchInv, Occupied
<1>3. BatchTypeOK' BY <1>1 DEF BatchInv, BatchTypeOK, Episodes
<1>4. Occupied' BY <1>1, <1>2 DEF Occupied, Off
<1>5. Untold'
  <2> SUFFICES ASSUME resume', NEW e \in Episodes, Held(e)' PROVE OwnTrace(e)'
      BY DEF Untold
  <2>1. PICK i \in todo' : Jobs[i] = e
        BY <1>1, <1>2, RunAssumption DEF Held
  <2>2. trace[e] = <<>> BY <1>1, <2>1 DEF Start, Skipped
  <2>3. QED BY <1>1, <2>2 DEF OwnTrace
<1>6. Owed'
  <2> SUFFICES ASSUME NEW e \in DOMAIN result' PROVE Held(e)'
      BY DEF Owed
  <2>1. PICK i \in todo' : Jobs[i] = e BY <1>1
  <2>2. QED BY <2>1 DEF Held
<1>7. QED BY <1>3, <1>4, <1>5, <1>6 DEF BatchInv

\* main() ends.
LEMMA EndKeeps ==
    ASSUME BatchInv, Main \/ Deadline
    PROVE  BatchInv'
<1>1. /\ todo' = todo /\ runs' = runs /\ resume' = resume
      /\ stage' = stage /\ job' = job /\ result' = result /\ trace' = trace
      BY DEF Main, Deadline, Summarise, LeavePool, workerVars
<1>2. /\ phase' \in {"done", "failed", "late"}
      /\ phase' # "late" => todo = {} /\ \A w \in Workers : stage[w] = "free"
      /\ phase' = "done" => phase = "running"
      BY DEF Main, Deadline, Summarise, LeavePool
<1>3. BatchTypeOK' BY <1>1, <1>2 DEF BatchInv, BatchTypeOK
<1>4. Occupied' BY <1>1, <1>2 DEF BatchInv, Occupied, Off
<1>5. Untold' BY <1>1 DEF BatchInv, Untold, Held, OwnTrace
<1>6. Owed' BY <1>1, <1>2 DEF BatchInv, Owed, Held
<1>7. QED BY <1>3, <1>4, <1>5, <1>6 DEF BatchInv

LEMMA TakeKeeps ==
    ASSUME BatchInv, NEW w \in Workers, Take(w)
    PROVE  BatchInv'
<1>1. PICK i \in todo : job' = [job EXCEPT ![w] = Jobs[i]] /\ todo' = todo \ {i}
      BY DEF Take
<1>2. /\ phase \in {"running", "late"} /\ phase' = phase /\ stage[w] = "free"
      /\ stage' = [stage EXCEPT ![w] = "probe"]
      /\ runs' = runs /\ resume' = resume /\ result' = result /\ trace' = trace
      BY DEF Take, Unchanged
<1>3. Jobs[i] \in Episodes /\ Jobs[i] # None
      BY <1>1, RunAssumption DEF BatchInv, BatchTypeOK, Episodes
<1>4. job[w] = None BY <1>2 DEF BatchInv, Occupied
<1>5. \A e \in Episodes : Held(e)' <=> Held(e)
      BY <1>1, <1>3, <1>4, RunAssumption DEF BatchInv, BatchTypeOK, Held
<1>6. \A e : Held(e) /\ e # None => Held(e)'
      BY <1>1, <1>3, <1>4 DEF BatchInv, BatchTypeOK, Held
<1>7. BatchTypeOK' BY <1>1, <1>2, <1>3 DEF BatchInv, BatchTypeOK
<1>8. Occupied' BY <1>1, <1>2, <1>3 DEF BatchInv, BatchTypeOK, Occupied, Off
<1>9. Untold' BY <1>2, <1>5 DEF BatchInv, Untold, OwnTrace
<1>10. Owed' BY <1>2, <1>6, RunAssumption DEF BatchInv, BatchTypeOK, Owed
<1>11. QED BY <1>7, <1>8, <1>9, <1>10 DEF BatchInv

\* The stub's answer, or the gateway's, is recorded: in the trace of an episode
\* that the worker has, with the number of this run.
LEMMA AppendKeeps ==
    ASSUME BatchInv, NEW w \in Workers, stage[w] = "play", Append1(w),
           UNCHANGED <<mainVars, stage, job, result>>
    PROVE  BatchInv'
<1>1. job[w] \in Episodes BY DEF BatchInv, BatchTypeOK, Occupied
<1>2. /\ trace' = [trace EXCEPT ![job[w]] = Append(trace[job[w]], runs)]
      /\ UNCHANGED <<mainVars, stage, job, result>>
      BY DEF Append1
<1>3. /\ trace[job[w]] \in Seq(Nat) /\ runs \in Nat
      BY <1>1 DEF BatchInv, BatchTypeOK
<1>4. /\ Append(trace[job[w]], runs) \in Seq(Nat)
      /\ Len(Append(trace[job[w]], runs)) = Len(trace[job[w]]) + 1
      /\ \A k \in 1 .. Len(trace[job[w]]) :
            Append(trace[job[w]], runs)[k] = trace[job[w]][k]
      /\ Append(trace[job[w]], runs)[Len(trace[job[w]]) + 1] = runs
      BY <1>3, AppendProperties
<1>5. /\ DOMAIN Append(trace[job[w]], runs) = 1 .. Len(trace[job[w]]) + 1
      /\ DOMAIN trace[job[w]] = 1 .. Len(trace[job[w]])
      /\ Len(trace[job[w]]) \in Nat
      BY <1>3, <1>4, LenProperties
<1>6. BatchTypeOK' BY <1>2, <1>4 DEF BatchInv, BatchTypeOK, mainVars
<1>7. Occupied' BY <1>2 DEF BatchInv, Occupied, Off, mainVars
<1>8. Untold'
  <2> SUFFICES ASSUME resume, NEW e \in Episodes, Held(e) PROVE OwnTrace(e)'
      BY <1>2 DEF Untold, Held, mainVars
  <2>1. OwnTrace(e) BY DEF BatchInv, Untold
  <2>2. CASE e = job[w]
    <3>1. trace'[e] = Append(trace[e], runs) BY <1>1, <1>2, <2>2 DEF BatchInv, BatchTypeOK
    <3>2. \A k \in 1 .. Len(trace[e]) + 1 : k \in 1 .. Len(trace[e]) \/ k = Len(trace[e]) + 1
          BY <1>5, <2>2
    <3>3. QED BY <3>1, <3>2, <2>1, <2>2, <1>2, <1>4, <1>5 DEF OwnTrace, mainVars
  <2>3. CASE e # job[w] BY <2>1, <2>3, <1>2 DEF OwnTrace, mainVars, BatchInv, BatchTypeOK
  <2>4. QED BY <2>2, <2>3
<1>9. Owed' BY <1>2 DEF BatchInv, Owed, Held, mainVars
<1>10. QED BY <1>6, <1>7, <1>8, <1>9 DEF BatchInv

LEMMA LeaveKeeps ==
    ASSUME BatchInv, NEW w \in Workers, NEW ok \in BOOLEAN, stage[w] = "play",
           Leave(w, ok), UNCHANGED <<mainVars, trace>>
    PROVE  BatchInv'
<1>1. /\ result' = [result EXCEPT ![job[w]] = IF ok THEN "ok" ELSE "error"]
      /\ stage' = [stage EXCEPT ![w] = "free"]
      /\ job' = [job EXCEPT ![w] = None]
      /\ UNCHANGED <<mainVars, trace>>
      BY DEF Leave
<1>2. DOMAIN result' = DOMAIN result BY <1>1
<1>3. \A e \in DOMAIN result : result'[e] = IF e = job[w] THEN (IF ok THEN "ok" ELSE "error")
                                                           ELSE result[e]
      BY <1>1
<1>4. BatchTypeOK' BY <1>1, <1>2, <1>3 DEF BatchInv, BatchTypeOK, mainVars
<1>5. Occupied' BY <1>1 DEF BatchInv, BatchTypeOK, Occupied, Off, mainVars
<1>6. \A e \in Episodes : Held(e)' => Held(e)
      BY <1>1, RunAssumption DEF BatchInv, BatchTypeOK, Held, mainVars
<1>7. \A e : Held(e) /\ e # job[w] => Held(e)'
      BY <1>1 DEF BatchInv, BatchTypeOK, Held, mainVars
<1>8. Untold' BY <1>1, <1>6 DEF BatchInv, Untold, OwnTrace, mainVars
<1>9. Owed' BY <1>1, <1>2, <1>3, <1>7 DEF BatchInv, Owed, mainVars
<1>10. QED BY <1>4, <1>5, <1>8, <1>9 DEF BatchInv

\* The rest of what a worker does moves it between stages at most.
LEMMA StageKeeps ==
    ASSUME BatchInv, NEW w \in Workers, NEW s \in {"play", "stuck"}, stage[w] # "free",
           stage' = [stage EXCEPT ![w] = s], UNCHANGED <<mainVars, job, result, trace>>
    PROVE  BatchInv'
<1>1. BatchTypeOK' BY DEF BatchInv, BatchTypeOK, mainVars
<1>2. Occupied' BY DEF BatchInv, BatchTypeOK, Occupied, Off, mainVars
<1>3. Untold' BY DEF BatchInv, Untold, Held, OwnTrace, mainVars
<1>4. Owed' BY DEF BatchInv, Owed, Held, mainVars
<1>5. QED BY <1>1, <1>2, <1>3, <1>4 DEF BatchInv

LEMMA PoolGoneKeeps ==
    ASSUME BatchInv, WorkersGone, runs' = runs, resume' = resume,
           \/ /\ phase' = phase /\ phase \in {"running", "late"}
              /\ result' = [e \in DOMAIN result |->
                               IF result[e] = "pending" THEN "error" ELSE result[e]]
           \/ phase' = "off" /\ result' = result
    PROVE  BatchInv'
<1>1. /\ stage' = [v \in Workers |-> "free"] /\ job' = [v \in Workers |-> None]
      /\ todo' = {} /\ trace' = trace
      BY DEF WorkersGone
<1>2. BatchTypeOK' BY <1>1 DEF BatchInv, BatchTypeOK
<1>3. Occupied' BY <1>1 DEF Occupied
<1>4. Untold' BY <1>1, RunAssumption DEF Untold, Held
<1>5. Owed' BY DEF BatchInv, BatchTypeOK, Owed
<1>6. QED BY <1>2, <1>3, <1>4, <1>5 DEF BatchInv

LEMMA BatchStep ==
    ASSUME BatchInv, [Next]_vars
    PROVE  BatchInv'
<1> USE DEF mainVars, workerVars, batchVars, Unchanged
<1>1. CASE \E resuming \in BOOLEAN : Start(resuming) BY <1>1, StartKeeps
<1>2. CASE Main \/ Deadline BY <1>2, EndKeeps
<1>3. ASSUME NEW w \in Workers, RunOne(w) PROVE BatchInv'
  <2>1. CASE Take(w) BY <2>1, TakeKeeps
  <2>2. CASE InGateway(w) BY <2>2, BatchStutter DEF InGateway
  <2>3. CASE Probed(w) BY <2>3, StageKeeps DEF Probed
  <2>4. CASE \E p \in Prompts \ {Probe} : Ask(w, p) BY <2>4, BatchStutter DEF Ask
  <2>5. CASE AskStub(w) BY <2>5, AppendKeeps DEF AskStub
  <2>6. CASE Record(w) BY <2>6, AppendKeeps DEF Record
  <2>7. CASE Raise(w) BY <2>7, LeaveKeeps DEF Raise
  <2>8. CASE \E ok \in BOOLEAN : Return(w, ok) BY <2>8, LeaveKeeps DEF Return
  <2>9. QED BY <1>3, <2>1, <2>2, <2>3, <2>4, <2>5, <2>6, <2>7, <2>8 DEF RunOne
<1>4. ASSUME NEW w \in Workers, Stick(w) PROVE BatchInv' BY <1>4, StageKeeps DEF Stick
<1>5. CASE PoolBreaks BY <1>5, PoolGoneKeeps DEF PoolBreaks
<1>6. CASE Reclaimed BY <1>6, PoolGoneKeeps DEF Reclaimed
<1>7. CASE UNCHANGED vars BY <1>7, BatchStutter DEF vars
<1>8. QED BY <1>1, <1>2, <1>3, <1>4, <1>5, <1>6, <1>7 DEF Next

LEMMA BatchAlways == Spec => []BatchInv
<1>1. Init => BatchInv BY BatchStarts
<1>2. BatchInv /\ [Next]_vars => BatchInv' BY BatchStep
<1>3. QED BY <1>1, <1>2, PTL DEF Spec

\* run_llm.py 184-192: a summary says of every job submitted what came of it.
THEOREM JobsReported == Spec => []EveryJobReported
<1>1. BatchInv => EveryJobReported
      BY RunAssumption DEF BatchInv, BatchTypeOK, Occupied, Owed, Held, Off, EveryJobReported
<1>2. QED BY <1>1, BatchAlways, PTL

\* run_llm.py 161-172, trace.py 54-58: a resumed batch writes only to traces that
\* no run before it wrote to, however often it was killed.
THEOREM StoriesToldOnce == Spec => OneStoryPerTrace
<1> DEFINE Told == \A e \in Episodes : resume /\ trace'[e] # trace[e]
                      => \A i \in DOMAIN trace[e] : trace[e][i] = runs
<1>1. ASSUME BatchInv, [Next]_vars PROVE [Told]_vars
  <2> SUFFICES ASSUME NEW e \in Episodes, resume, trace'[e] # trace[e] PROVE OwnTrace(e)
      BY DEF OwnTrace
  <2>1. \E w \in Workers : stage[w] = "play" /\ Append1(w)
    <3> USE DEF mainVars, workerVars, Unchanged
    <3>1. CASE \E resuming \in BOOLEAN : Start(resuming) BY <3>1 DEF Start
    <3>2. CASE Main \/ Deadline BY <3>2 DEF Main, Summarise, LeavePool, Deadline
    <3>3. ASSUME NEW w \in Workers, RunOne(w) PROVE stage[w] = "play" /\ Append1(w)
          BY <3>3 DEF RunOne, Take, InGateway, Probed, Ask, AskStub, Record, Raise, Return
    <3>4. CASE \E w \in Workers : Stick(w) BY <3>4 DEF Stick
    <3>5. CASE PoolBreaks \/ Reclaimed BY <3>5 DEF PoolBreaks, Reclaimed, WorkersGone
    <3>6. CASE UNCHANGED vars BY <3>6 DEF vars
    <3>7. QED BY <1>1, <3>1, <3>2, <3>3, <3>4, <3>5, <3>6 DEF Next
  <2>2. PICK w \in Workers : stage[w] = "play" /\ Append1(w) BY <2>1
  <2>3. job[w] = e BY <2>2, <1>1 DEF Append1, BatchInv, BatchTypeOK
  <2>4. QED BY <2>3, <1>1 DEF BatchInv, Untold, Held
<1>2. QED BY <1>1, BatchAlways, PTL DEF Spec, OneStoryPerTrace

-----------------------------------------------------------------------------
(* The live demo. *)

\* No request finds the flag clear and sets it when another has.
NoRace == \A c \in Tabs : ~(handler[c] = "checked" /\ running)

Live == {"start", "play", "clear"}

\* The runs are told one after the other, and the flag says that one is.
OneAtATime ==
    /\ \A r \in Runs : /\ r > started => at[r] = "none"
                       /\ r < started => at[r] = "over"
                       /\ r = started => at[r] # "none"
    /\ ~running => \A r \in Runs : at[r] \notin Live

\* What a thread is sending is of its own run, which has begun to talk; the log
\* drain sends nothing else than crashes.
Telling == {"start", "tick", "done", "error"}
Tells(event) == event.kind \in Telling
Own(t, event) == event.run = t[2] /\ IF t[1] = "log" THEN event.kind = "simcrash" ELSE Tells(event)

Outgoing == \A t \in Threads : sending[t].to # {} =>
                /\ Own(t, sending[t].event)
                /\ t[1] = "episode" => at[t[2]] \in {"play", "clear"}

\* A queue, and the page before it, tell of the runs in order, each from its start.
Aloud(a, r) == a[r] \in {"play", "clear", "over"}
Ascends(q) == \A j \in 1 .. Len(q) : Tells(q[j]) => \A i \in 1 .. j - 1 : Tells(q[i]) =>
                 IF q[j].kind = "start" THEN q[i].run < q[j].run ELSE q[i].run <= q[j].run
Follows(q, r, a) == \A i \in 1 .. Len(q) : Tells(q[i]) => r <= q[i].run /\ Aloud(a, q[i].run)

InOrder == \A c \in Tabs : Ascends(queue[c]) /\ Follows(queue[c], page[c].run, at)
                           /\ page[c].run <= started

\* The start of a run that is being sent is the first its receiver hears of it.
Silent(q, r) == \A i \in 1 .. Len(q) : Tells(q[i]) => q[i].run # r
Unheard == \A t \in Threads : \A c \in sending[t].to :
               sending[t].event.kind = "start" => Silent(queue[c], t[2])

\* A start that was sent is shown, or on its way.
Holds(q, r) == \E i \in 1 .. Len(q) : q[i] = Event("start", r)
Remembered == \A s \in seen : s[2] <= page[s[1]].run \/ Holds(queue[s[1]], s[2])

DemoInv == DemoTypeOK /\ OneAtATime /\ Outgoing /\ InOrder /\ Unheard /\ Remembered

LEMMA Named ==
    /\ Runs \subseteq Nat \ {0} /\ MaxStarts \in Nat /\ Capacity \in Nat \ {0}
    /\ Readers \subseteq Tabs
    /\ \A r \in Runs : /\ Episode(r) \in Threads /\ Episode(r)[1] = "episode" /\ Episode(r)[2] = r
                       /\ Log(r) \in Threads /\ Log(r)[1] = "log" /\ Log(r)[2] = r
    /\ \A t \in Threads : t[2] \in Runs
  BY DemoAssumption DEF Runs, Episode, Log, Threads

\* One queue fewer to send to.
LEMMA WithoutOne ==
    ASSUME NEW send \in Sends, NEW c
    PROVE  /\ Without(send, c) \in Sends
           /\ Without(send, c).to = send.to \ {c}
           /\ Without(send, c).to # {} => Without(send, c).event = send.event
  BY Named DEF Without, Sends, Nothing, Event

LEMMA NothingSent == Nothing \in Sends /\ Nothing.to = {}
  BY Named DEF Nothing, Sends, Event

\* A copy of the set of queues, under the lock.
LEMMA EmitSends ==
    ASSUME DemoTypeOK, NEW t \in Threads, NEW event \in Events, Emit(t, event)
    PROVE  /\ sending' \in [Threads -> Sends]
           /\ \A u \in Threads : u # t => sending'[u] = sending[u]
           /\ sending'[t].to # {} => sending'[t].event = event
<1>1. event \in [kind : Kinds \cup {"none"}, run : 0..MaxStarts] BY Named DEF Events, Runs
<1>2. connected \subseteq Tabs /\ sending \in [Threads -> Sends] BY DEF DemoTypeOK
<1> DEFINE send == IF connected = {} THEN Nothing ELSE [event |-> event, to |-> connected]
<1>3. send \in Sends /\ (send.to # {} => send.event = event)
      BY <1>1, <1>2, NothingSent DEF Sends
<1>4. sending' = [sending EXCEPT ![t] = send] BY DEF Emit
<1> HIDE DEF send
<1>5. QED BY <1>2, <1>3, <1>4

LEMMA DemoStarts == ASSUME DemoInit PROVE DemoInv
<1> USE Named, NothingSent DEF DemoInit
<1>1. DemoTypeOK
  <2>1. Fresh \in Pages BY DEF Fresh, Pages
  <2>2. << >> \in Seq(Events) OBVIOUS
  <2>3. 0 \in 0 .. MaxStarts /\ 0 \in 0 .. MaxTicks /\ 0 \in 0 .. MaxLosses BY DemoAssumption
  <2>4. /\ running \in BOOLEAN /\ handler \in [Tabs -> {"none", "checked"}]
        /\ at \in [Runs -> {"none", "start", "play", "clear", "over"}]
        /\ sim \in [Runs -> {"up", "aborted", "logged"}]
        /\ queue \in [Tabs -> Seq(Events)] /\ page \in [Tabs -> Pages]
        /\ sending \in [Threads -> Sends]
        BY <2>1, <2>2
  <2>5. ticks \in [Runs -> 0 .. MaxTicks] BY <2>3
  <2>6. QED BY <2>3, <2>4, <2>5 DEF DemoTypeOK
<1>2. OneAtATime
  <2>1. \A r \in Runs : at[r] = "none" /\ r > 0 /\ ~(r < 0) /\ r # 0 OBVIOUS
  <2>2. QED BY <2>1 DEF OneAtATime, Live
<1>3. Outgoing BY DEF Outgoing
<1>4. InOrder BY DEF InOrder, Ascends, Follows, Fresh
<1>5. Unheard BY DEF Unheard
<1>6. Remembered BY DEF Remembered
<1>7. QED BY <1>1, <1>2, <1>3, <1>4, <1>5, <1>6 DEF DemoInv

\* What leaves the queues, the sending and what pages show of a run alone.
LEMMA QuietStep ==
    ASSUME DemoInv, DemoTypeOK', UNCHANGED <<sending, queue, seen>>,
           \A c \in Tabs : page'[c].run = page[c].run,
           started' \in started .. MaxStarts,
           \A r \in Runs : Aloud(at, r) => Aloud(at', r),
           \A t \in Threads : sending[t].to # {} /\ t[1] = "episode" =>
                                  at'[t[2]] \in {"play", "clear"}
    PROVE  Outgoing' /\ InOrder' /\ Unheard' /\ Remembered'
<1> USE Named DEF DemoInv
<1>1. Outgoing' BY DEF Outgoing
<1>2. InOrder'
  <2> SUFFICES ASSUME NEW c \in Tabs
               PROVE  Ascends(queue[c]) /\ Follows(queue[c], page[c].run, at')
                      /\ page[c].run <= started'
      BY DEF InOrder
  <2>1. queue[c] \in Seq(Events) /\ page[c].run \in 0 .. MaxStarts /\ started \in 0 .. MaxStarts
        BY DEF DemoTypeOK, Pages
  <2>2. Follows(queue[c], page[c].run, at')
    <3>1. \A i \in 1 .. Len(queue[c]) : queue[c][i] \in Events BY <2>1, ElementOfSeq
    <3>2. QED BY <3>1 DEF InOrder, Follows, Events
  <2>3. QED BY <2>1, <2>2 DEF InOrder
<1>3. Unheard' BY DEF Unheard
<1>4. Remembered'
  <2>1. \A s \in seen : s[1] \in Tabs BY DEF DemoTypeOK
  <2>2. QED BY <2>1 DEF Remembered
<1>5. QED BY <1>1, <1>2, <1>3, <1>4

\* A step that queues nothing and shows nothing: who sends what it should.
LEMMA SendStep ==
    ASSUME DemoInv, NEW r \in Runs, NEW t \in Threads, NEW event \in Events, Emit(t, event),
           t[2] = r, Own(t, event),
           t[1] = "episode" => at' = [at EXCEPT ![r] = at'[r]] /\ at'[r] \in {"play", "clear"},
           t[1] = "log" => at' = at,
           event.kind = "start" => ~ Aloud(at, r),
           UNCHANGED <<started, queue, page, seen>>
    PROVE  Outgoing' /\ InOrder' /\ Unheard' /\ Remembered'
<1> USE Named DEF DemoInv
<1>0. /\ \A u \in Threads : u # t => sending'[u] = sending[u]
      /\ sending'[t].to # {} => sending'[t].event = event
      BY EmitSends
<1>1. t[1] \in {"episode", "log"} BY DEF Threads
<1>2. at \in [Runs -> {"none", "start", "play", "clear", "over"}] BY DEF DemoTypeOK
<1>3. Outgoing'
  <2>1. \A u \in Threads : u # t /\ u[1] = "episode" /\ t[1] = "episode" => u[2] # t[2]
        BY DEF Threads
  <2> SUFFICES ASSUME NEW u \in Threads, sending'[u].to # {}
               PROVE  Own(u, sending'[u].event) /\ (u[1] = "episode" => at'[u[2]] \in {"play", "clear"})
      BY DEF Outgoing
  <2>2. CASE u = t BY <2>2, <1>0, <1>1
  <2>3. CASE u # t
    <3>1. Own(u, sending'[u].event) /\ (u[1] = "episode" => at[u[2]] \in {"play", "clear"})
          BY <2>3, <1>0 DEF Outgoing
    <3>2. u[1] = "episode" => at'[u[2]] = at[u[2]] BY <2>1, <2>3, <1>1, <1>2
    <3>3. QED BY <3>1, <3>2
  <2>4. QED BY <2>2, <2>3
<1>4. InOrder'
  <2>1. \A s \in Runs : Aloud(at, s) => Aloud(at', s) BY <1>1, <1>2 DEF Aloud
  <2> SUFFICES ASSUME NEW c \in Tabs PROVE Follows(queue[c], page[c].run, at')
      BY DEF InOrder
  <2>2. queue[c] \in Seq(Events) BY DEF DemoTypeOK
  <2>3. \A i \in 1 .. Len(queue[c]) : queue[c][i] \in Events BY <2>2, ElementOfSeq
  <2>4. QED BY <2>1, <2>3 DEF InOrder, Follows, Events
<1>5. Unheard'
  <2> SUFFICES ASSUME NEW u \in Threads, NEW c \in sending'[u].to,
                      sending'[u].event.kind = "start"
               PROVE  Silent(queue[c], u[2])
      BY DEF Unheard
  <2>1. CASE u # t BY <2>1, <1>0 DEF Unheard
  <2>2. CASE u = t
    <3>1. event.kind = "start" BY <2>2, <1>0
    <3>2. c \in Tabs BY EmitSends, <2>2 DEF Sends
    <3>3. Follows(queue[c], page[c].run, at) BY <3>2 DEF InOrder
    <3>4. QED BY <3>1, <3>3, <2>2 DEF Follows, Silent
  <2>3. QED BY <2>1, <2>2
<1>6. Remembered' BY DEF Remembered
<1>7. QED BY <1>3, <1>4, <1>5, <1>6

\* The run's thread talks.
LEMMA SayStep ==
    ASSUME DemoInv, NEW r \in Runs, NEW from, NEW kind \in Telling, NEW next \in {"play", "clear"},
           from = "start" <=> kind = "start", from \in {"start", "play"},
           Say(r, from, kind, next), ticks' \in [Runs -> 0 .. MaxTicks]
    PROVE  DemoInv'
<1> USE Named
<1> DEFINE event == Event(kind, r)
<1>1. event \in Events /\ event.run = r /\ event.kind = kind
      BY DEF Event, Events, Telling, Kinds
<1>2. DemoTypeOK BY DEF DemoInv
<1>3. /\ Emit(Episode(r), event) /\ at[r] = from /\ at' = [at EXCEPT ![r] = next]
      /\ UNCHANGED <<running, handler, started, sim, tabVars, losses, seen>>
      BY DEF Say
<1>4. at \in [Runs -> {"none", "start", "play", "clear", "over"}] /\ connected \subseteq Tabs
      BY <1>2 DEF DemoTypeOK
<1> HIDE DEF event
<1>5. DemoTypeOK'
  <2>1. sending' \in [Threads -> Sends] BY <1>1, <1>2, <1>3, EmitSends
  <2>2. at' \in [Runs -> {"none", "start", "play", "clear", "over"}] BY <1>3, <1>4
  <2>3. missed' \subseteq Tabs BY <1>2, <1>3 DEF Emit, DemoTypeOK
  <2>4. QED BY <1>2, <1>3, <2>1, <2>2, <2>3 DEF DemoTypeOK, tabVars
<1>6. OneAtATime'
  <2>1. OneAtATime BY DEF DemoInv
  <2>2. \A s \in Runs : at'[s] = IF s = r THEN next ELSE at[s] BY <1>3, <1>4
  <2>3. ~(r > started) /\ ~(r < started) /\ running BY <2>1, <1>3 DEF OneAtATime, Live
  <2>4. QED BY <2>1, <2>2, <2>3, <1>3 DEF OneAtATime
<1>7. Outgoing' /\ InOrder' /\ Unheard' /\ Remembered'
  <2>1. /\ Own(Episode(r), event) /\ at' = [at EXCEPT ![r] = at'[r]] /\ at'[r] = next
        /\ event.kind = "start" => ~ Aloud(at, r)
        BY <1>1, <1>3, <1>4 DEF Own, Tells, Aloud
  <2>2. UNCHANGED <<started, queue, page, seen>> BY <1>3 DEF tabVars
  <2>3. QED BY <2>1, <2>2, <1>1, <1>3, SendStep
<1>8. QED BY <1>5, <1>6, <1>7 DEF DemoInv

-----------------------------------------------------------------------------
(* Queues. *)

LEMMA AppendIs ==
    ASSUME NEW q \in Seq(Events), NEW e \in Events
    PROVE  /\ Append(q, e) \in Seq(Events) /\ Len(Append(q, e)) = Len(q) + 1 /\ Len(q) \in Nat
           /\ \A i \in 1 .. Len(q) : Append(q, e)[i] = q[i]
           /\ Append(q, e)[Len(q) + 1] = e
           /\ \A i \in 1 .. Len(q) : q[i] \in Events
  BY AppendProperties, LenProperties, ElementOfSeq

LEMMA TailIs ==
    ASSUME NEW q \in Seq(Events), q # << >>
    PROVE  /\ Head(q) = q[1] /\ q[1] \in Events /\ Len(q) \in Nat \ {0}
           /\ Tail(q) \in Seq(Events) /\ Len(Tail(q)) = Len(q) - 1
           /\ \A i \in 1 .. Len(q) - 1 : Tail(q)[i] = q[i + 1] /\ i + 1 \in 2 .. Len(q)
           /\ \A i \in 1 .. Len(q) : q[i] \in Events
<1>1. Len(q) \in Nat \ {0} BY LenProperties, EmptySeq
<1>2. QED BY <1>1, HeadTailProperties, ElementOfSeq

LEMMA AppendInOrder ==
    ASSUME NEW q \in Seq(Events), NEW e \in Events, Ascends(q),
           Tells(e) => \A i \in 1 .. Len(q) : Tells(q[i]) =>
                          IF e.kind = "start" THEN q[i].run < e.run ELSE q[i].run <= e.run
    PROVE  Ascends(Append(q, e))
<1> DEFINE w == Append(q, e)
<1>1. /\ Len(w) = Len(q) + 1 /\ Len(q) \in Nat /\ w[Len(q) + 1] = e
      /\ \A i \in 1 .. Len(q) : w[i] = q[i]
      BY AppendIs
<1> HIDE DEF w
<1> SUFFICES ASSUME NEW j \in 1 .. Len(w), Tells(w[j]), NEW i \in 1 .. j - 1, Tells(w[i])
             PROVE  IF w[j].kind = "start" THEN w[i].run < w[j].run ELSE w[i].run <= w[j].run
    BY DEF Ascends, w
<1>2. CASE j \in 1 .. Len(q) BY <1>1, <1>2 DEF Ascends
<1>3. CASE j = Len(q) + 1 BY <1>1, <1>3
<1>4. QED BY <1>1, <1>2, <1>3

LEMMA TailInOrder ==
    ASSUME NEW q \in Seq(Events), q # << >>, Ascends(q)
    PROVE  Ascends(Tail(q))
<1> DEFINE w == Tail(q)
<1>1. /\ Len(w) = Len(q) - 1 /\ Len(q) \in Nat
      /\ \A i \in 1 .. Len(q) - 1 : w[i] = q[i + 1] /\ i + 1 \in 2 .. Len(q)
      BY TailIs
<1> HIDE DEF w
<1> SUFFICES ASSUME NEW j \in 1 .. Len(w), Tells(w[j]), NEW i \in 1 .. j - 1, Tells(w[i])
             PROVE  IF w[j].kind = "start" THEN w[i].run < w[j].run ELSE w[i].run <= w[j].run
    BY DEF Ascends, w
<1>2. w[j] = q[j + 1] /\ w[i] = q[i + 1] /\ i + 1 \in 1 .. (j + 1) - 1 /\ j + 1 \in 1 .. Len(q)
      BY <1>1
<1>3. QED BY <1>2 DEF Ascends

\* What a page shows of an event.
LEMMA ShownRun ==
    ASSUME NEW pg \in Pages, NEW e \in Events
    PROVE  /\ Shown(pg, e) \in Pages
           /\ Shown(pg, e).run = IF e.kind = "start" \/ (e.kind = "tick" /\ pg.run = 0)
                                 THEN e.run ELSE pg.run
<1>1. e.run \in 0 .. MaxStarts /\ 0 \in 0 .. MaxStarts BY Named DEF Events, Runs
<1>2. e.kind \in Kinds BY DEF Events
<1>3. CASE e.kind = "start" BY <1>1, <1>3 DEF Shown, Pages
<1>4. CASE e.kind = "tick" BY <1>1, <1>4 DEF Shown, Pages
<1>5. CASE e.kind = "done"
  <2>1. Shown(pg, e) = [pg EXCEPT !.ended = TRUE, !.disabled = FALSE,
                                  !.scored = IF pg.crashed THEN @ ELSE e.run]
        BY <1>5 DEF Shown
  <2>2. CASE pg.crashed BY <2>1, <2>2, <1>1, <1>5 DEF Pages
  <2>3. CASE ~ pg.crashed BY <2>1, <2>3, <1>1, <1>5 DEF Pages
  <2>4. QED BY <2>2, <2>3
<1>6. CASE e.kind = "error" BY <1>1, <1>6 DEF Shown, Pages
<1>7. CASE e.kind = "simcrash" BY <1>1, <1>7 DEF Shown, Pages
<1>8. QED BY <1>2, <1>3, <1>4, <1>5, <1>6, <1>7 DEF Kinds

-----------------------------------------------------------------------------
(* The steps. *)

\* The runs a queue or a page tells of have begun; the one that talks is the last.
LEMMA LastTalks ==
    ASSUME DemoInv, NEW r \in Runs
    PROVE  /\ Aloud(at, r) => r <= started
           /\ at[r] \in Live => r = started
  BY Named DEF DemoInv, DemoTypeOK, OneAtATime, Aloud, Live

\* What a thread is sending, as its receivers' queues find it.
LEMMA SendFits ==
    ASSUME DemoInv, NEW t \in Threads, NEW c \in sending[t].to
    PROVE  /\ c \in Tabs /\ t[2] \in Runs
           /\ sending[t].event \in Events /\ sending[t].event.run = t[2]
           /\ Tells(sending[t].event) =>
                 /\ t[1] = "episode" /\ Aloud(at, t[2]) /\ t[2] = started
                 /\ \A i \in 1 .. Len(queue[c]) : Tells(queue[c][i]) =>
                       IF sending[t].event.kind = "start"
                       THEN queue[c][i].run < t[2] ELSE queue[c][i].run <= t[2]
<1> DEFINE e == sending[t].event
           q == queue[c]
<1>1. sending[t] \in Sends BY DEF DemoInv, DemoTypeOK
<1>2. c \in Tabs /\ e \in [kind : Kinds \cup {"none"}, run : 0 .. MaxStarts] BY <1>1 DEF Sends
<1>3. Own(t, e) /\ (t[1] = "episode" => at[t[2]] \in {"play", "clear"}) BY DEF DemoInv, Outgoing
<1>4. t[2] \in Runs /\ t[1] \in {"episode", "log"} BY Named DEF Threads
<1>5. e.run = t[2] /\ e.kind \in Kinds BY <1>3 DEF Own, Tells, Telling, Kinds
<1>6. e \in Events BY <1>2, <1>4, <1>5 DEF Events
<1>7. ASSUME Tells(e) PROVE t[1] = "episode" /\ Aloud(at, t[2]) /\ t[2] = started
  <2>1. t[1] = "episode" BY <1>3, <1>4, <1>7 DEF Own, Tells, Telling
  <2>2. QED BY <2>1, <1>3, <1>4, LastTalks DEF Aloud, Live
<1>8. ASSUME Tells(e), NEW i \in 1 .. Len(q), Tells(q[i])
      PROVE  IF e.kind = "start" THEN q[i].run < t[2] ELSE q[i].run <= t[2]
  <2>1. q \in Seq(Events) BY <1>2 DEF DemoInv, DemoTypeOK
  <2>2. q[i] \in Events BY <2>1, ElementOfSeq
  <2>3. q[i].run \in Runs /\ q[i].run \in Nat /\ t[2] \in Nat BY <2>2, <1>4, Named DEF Events
  <2>4. Aloud(at, q[i].run) BY <1>2, <1>8 DEF DemoInv, InOrder, Follows
  <2>5. q[i].run <= t[2] BY <2>3, <2>4, <1>7, <1>8, LastTalks
  <2>6. e.kind = "start" => q[i].run # t[2] BY <1>8 DEF DemoInv, Unheard, Silent
  <2>7. QED BY <2>3, <2>5, <2>6
<1>9. QED BY <1>2, <1>4, <1>5, <1>6, <1>7, <1>8

\* Sends reach no queue they did not before, with the event they had; t's no longer c's.
Delivered(t, c) ==
    /\ sending' \in [Threads -> Sends]
    /\ \A u \in Threads : /\ sending'[u].to \subseteq sending[u].to
                          /\ sending'[u].to # {} => sending'[u].event = sending[u].event
    /\ c \notin sending'[t].to

LEMMA PutDelivers ==
    ASSUME DemoInv, NEW t \in Threads, NEW c \in Tabs, Put(t, c)
    PROVE  Delivered(t, c)
<1>1. sending \in [Threads -> Sends] BY DEF DemoInv, DemoTypeOK
<1>2. sending' = [sending EXCEPT ![t] = Without(sending[t], c)] BY DEF Put
<1>3. /\ Without(sending[t], c) \in Sends
      /\ Without(sending[t], c).to = sending[t].to \ {c}
      /\ Without(sending[t], c).to # {} => Without(sending[t], c).event = sending[t].event
      BY <1>1, WithoutOne
<1>4. QED BY <1>1, <1>2, <1>3 DEF Delivered

LEMMA PutStep ==
    ASSUME DemoInv, NEW t \in Threads, NEW c \in Tabs, Put(t, c)
    PROVE  DemoInv'
<1> USE Named
<1> DEFINE e == sending[t].event
           q == queue[c]
           fits == Len(q) < Capacity
<1>0. /\ c \in sending[t].to
      /\ queue' = IF fits THEN [queue EXCEPT ![c] = Append(q, e)] ELSE queue
      /\ seen' = IF fits /\ e.kind = "start" THEN seen \cup (({c} \cap Readers) \X {e.run})
                                             ELSE seen
      /\ missed' = IF fits THEN missed ELSE missed \cup ({c} \cap Readers)
      /\ UNCHANGED <<running, started, at, ticks, sim, handler, connected, page, losses>>
      BY DEF Put, serverVars
<1>1. /\ DemoTypeOK /\ OneAtATime /\ Outgoing /\ InOrder /\ Unheard /\ Remembered
      BY DEF DemoInv
<1>2. Delivered(t, c) BY PutDelivers
<1>3. /\ t[2] \in Runs /\ e \in Events /\ e.run = t[2]
      /\ Tells(e) => t[1] = "episode" /\ Aloud(at, t[2]) /\ t[2] = started
      /\ Tells(e) => \A i \in 1 .. Len(q) : Tells(q[i]) =>
                       IF e.kind = "start" THEN q[i].run < t[2] ELSE q[i].run <= t[2]
      BY <1>0, SendFits
<1>4. queue \in [Tabs -> Seq(Events)] /\ q \in Seq(Events) BY <1>1 DEF DemoTypeOK
<1>5. /\ Append(q, e) \in Seq(Events) /\ Len(Append(q, e)) = Len(q) + 1 /\ Len(q) \in Nat
      /\ \A i \in 1 .. Len(q) : Append(q, e)[i] = q[i] /\ q[i] \in Events
      /\ Append(q, e)[Len(q) + 1] = e
      BY <1>3, <1>4, AppendIs
<1>6. /\ queue' \in [Tabs -> Seq(Events)]
      /\ \A x \in Tabs : queue'[x] = IF fits /\ x = c THEN Append(q, e) ELSE queue[x]
      BY <1>0, <1>4, <1>5
<1>7. DemoTypeOK'
  <2>1. seen' \subseteq Tabs \X Runs /\ missed' \subseteq Tabs
        BY <1>0, <1>1, <1>3 DEF DemoTypeOK
  <2>2. QED BY <2>1, <1>0, <1>1, <1>2, <1>6 DEF DemoTypeOK, Delivered
<1>8. OneAtATime' BY <1>0, <1>1 DEF OneAtATime
<1> HIDE DEF fits
<1>9. Outgoing' BY <1>0, <1>1, <1>2 DEF Outgoing, Delivered
<1>10. InOrder'
  <2> SUFFICES ASSUME NEW x \in Tabs
               PROVE  Ascends(queue'[x]) /\ Follows(queue'[x], page[x].run, at)
      BY <1>0, <1>1 DEF InOrder
  <2>1. Ascends(queue[x]) /\ Follows(queue[x], page[x].run, at) /\ page[x].run <= started
        BY <1>1 DEF InOrder
  <2>2. CASE queue'[x] = queue[x] BY <2>1, <2>2
  <2>3. CASE queue'[x] # queue[x]
    <3>1. x = c /\ queue'[x] = Append(q, e) BY <2>3, <1>6
    <3>2. Ascends(Append(q, e)) BY <2>1, <3>1, <1>3, <1>4, AppendInOrder
    <3>3. Follows(Append(q, e), page[c].run, at)
      <4> SUFFICES ASSUME NEW i \in 1 .. Len(Append(q, e)), Tells(Append(q, e)[i])
                   PROVE  page[c].run <= Append(q, e)[i].run /\ Aloud(at, Append(q, e)[i].run)
          BY DEF Follows
      <4>1. CASE i \in 1 .. Len(q) BY <4>1, <2>1, <3>1, <1>5 DEF Follows
      <4>2. CASE i = Len(q) + 1
        <5>1. Append(q, e)[i] = e BY <4>2, <1>5
        <5>2. QED BY <5>1, <2>1, <3>1, <1>3
      <4>3. QED BY <4>1, <4>2, <1>5
    <3>4. QED BY <3>1, <3>2, <3>3
  <2>4. QED BY <2>2, <2>3
<1>11. Unheard'
  <2> SUFFICES ASSUME NEW u \in Threads, NEW x \in sending'[u].to,
                      sending'[u].event.kind = "start"
               PROVE  Silent(queue'[x], u[2])
      BY DEF Unheard
  <2>1. x \in sending[u].to /\ sending[u].event.kind = "start" BY <1>2 DEF Delivered
  <2>2. Silent(queue[x], u[2]) /\ x \in Tabs BY <2>1, <1>1, SendFits DEF Unheard
  <2>3. CASE queue'[x] = queue[x] BY <2>2, <2>3
  <2>4. CASE queue'[x] # queue[x]
    <3>1. x = c /\ queue'[x] = Append(q, e) BY <2>2, <2>4, <1>6
    <3>2. u # t BY <3>1, <1>2 DEF Delivered
    <3>3. u[1] = "episode" BY <2>1, SendFits DEF Tells, Telling
    <3>4. Tells(e) => u[2] # t[2] BY <3>2, <3>3, <1>3 DEF Threads
    <3>5. ASSUME NEW i \in 1 .. Len(Append(q, e)), Tells(Append(q, e)[i])
          PROVE  Append(q, e)[i].run # u[2]
      <4>1. CASE i \in 1 .. Len(q) BY <4>1, <3>5, <2>2, <3>1, <1>5 DEF Silent
      <4>2. CASE i = Len(q) + 1
        <5>1. Append(q, e)[i] = e BY <4>2, <1>5
        <5>2. QED BY <5>1, <3>4, <3>5, <1>3
      <4>3. QED BY <4>1, <4>2, <1>5
    <3>6. QED BY <3>1, <3>5 DEF Silent
  <2>5. QED BY <2>3, <2>4
<1>12. Remembered'
  <2> SUFFICES ASSUME NEW s \in seen'
               PROVE  s[2] <= page[s[1]].run \/ Holds(queue'[s[1]], s[2])
      BY <1>0 DEF Remembered
  <2>1. CASE s \in seen
    <3>1. s[2] <= page[s[1]].run \/ Holds(queue[s[1]], s[2]) BY <2>1, <1>1 DEF Remembered
    <3>2. s[1] \in Tabs BY <2>1, <1>1 DEF DemoTypeOK
    <3>3. Holds(queue[s[1]], s[2]) => Holds(queue'[s[1]], s[2])
      <4>1. CASE queue'[s[1]] = queue[s[1]] BY <4>1
      <4>2. CASE queue'[s[1]] # queue[s[1]]
        <5>1. s[1] = c /\ queue'[s[1]] = Append(q, e) BY <4>2, <3>2, <1>6
        <5>2. QED BY <5>1, <1>5 DEF Holds
      <4>3. QED BY <4>1, <4>2
    <3>4. QED BY <3>1, <3>3
  <2>2. CASE s \notin seen
    <3>1. fits /\ e.kind = "start" /\ s[1] = c /\ s[2] = e.run BY <2>2, <1>0
    <3>2. queue'[c] = Append(q, e) BY <3>1, <1>0, <1>6, SendFits
    <3>3. e = Event("start", e.run) BY <3>1, <1>3 DEF Events, Event
    <3>4. QED BY <3>1, <3>2, <3>3, <1>5 DEF Holds
  <2>3. QED BY <2>1, <2>2
<1>13. QED BY <1>7, <1>8, <1>9, <1>10, <1>11, <1>12 DEF DemoInv

LEMMA DeliverStep ==
    ASSUME DemoInv, NEW c \in Readers, Deliver(c)
    PROVE  DemoInv'
<1> USE Named
<1> DEFINE q == queue[c]
           e == Head(q)
           pg == page[c]
<1>0. /\ q # << >>
      /\ page' = [page EXCEPT ![c] = Shown(pg, e)]
      /\ queue' = [queue EXCEPT ![c] = Tail(q)]
      /\ UNCHANGED <<running, started, at, ticks, sim, handler, sending, connected, losses,
                     seen, missed>>
      BY DEF Deliver, serverVars
<1>1. /\ DemoTypeOK /\ OneAtATime /\ Outgoing /\ InOrder /\ Unheard /\ Remembered
      BY DEF DemoInv
<1>2. /\ queue \in [Tabs -> Seq(Events)] /\ page \in [Tabs -> Pages]
      /\ q \in Seq(Events) /\ pg \in Pages /\ c \in Tabs
      BY <1>1 DEF DemoTypeOK
<1>3. /\ e = q[1] /\ e \in Events /\ Len(q) \in Nat \ {0}
      /\ Tail(q) \in Seq(Events) /\ Len(Tail(q)) = Len(q) - 1
      /\ \A i \in 1 .. Len(q) - 1 : Tail(q)[i] = q[i + 1] /\ i + 1 \in 2 .. Len(q)
      /\ \A i \in 1 .. Len(q) : q[i] \in Events
      BY <1>0, <1>2, TailIs
<1>4. /\ Shown(pg, e) \in Pages
      /\ Shown(pg, e).run = IF e.kind = "start" \/ (e.kind = "tick" /\ pg.run = 0)
                            THEN e.run ELSE pg.run
      BY <1>2, <1>3, ShownRun
<1>5. /\ \A x \in Tabs : queue'[x] = IF x = c THEN Tail(q) ELSE queue[x]
      /\ \A x \in Tabs : page'[x] = IF x = c THEN Shown(pg, e) ELSE page[x]
      /\ queue' \in [Tabs -> Seq(Events)] /\ page' \in [Tabs -> Pages]
      BY <1>0, <1>2, <1>3, <1>4
<1> HIDE DEF e, pg, q
<1>6. /\ Ascends(q) /\ Follows(q, pg.run, at) /\ pg.run <= started
      /\ Tells(e) => pg.run <= e.run /\ Aloud(at, e.run) /\ e.run <= started
      /\ e.run \in Nat /\ pg.run \in Nat /\ started \in Nat
  <2>1. Ascends(q) /\ Follows(q, pg.run, at) /\ pg.run <= started
        BY <1>1, <1>2 DEF InOrder, q, pg
  <2>2. e.run \in Runs /\ e.run \in Nat /\ pg.run \in Nat /\ started \in Nat
    <3>1. e.run \in Runs BY <1>3 DEF Events
    <3>2. pg.run \in 0 .. MaxStarts BY <1>2 DEF Pages
    <3>3. started \in 0 .. MaxStarts BY <1>1 DEF DemoTypeOK
    <3>4. \A n \in 0 .. MaxStarts : n \in Nat OBVIOUS
    <3>5. e.run \in Nat BY <3>1
    <3>6. pg.run \in Nat BY <3>2, <3>4, Zenon
    <3>7. started \in Nat BY <3>3, <3>4, Zenon
    <3>8. QED BY <3>1, <3>5, <3>6, <3>7
  <2>3. Tells(e) => pg.run <= e.run /\ Aloud(at, e.run) BY <2>1, <1>3 DEF Follows
  <2>4. QED BY <2>1, <2>2, <2>3, LastTalks
<1>7. \/ Shown(pg, e).run = pg.run
      \/ Tells(e) /\ Shown(pg, e).run = e.run
      BY <1>4 DEF Tells, Telling
<1>8. DemoTypeOK' BY <1>0, <1>1, <1>5 DEF DemoTypeOK
<1>9. OneAtATime' BY <1>0, <1>1 DEF OneAtATime
<1>10. Outgoing' BY <1>0, <1>1 DEF Outgoing
<1>11. Follows(Tail(q), Shown(pg, e).run, at)
  <2> SUFFICES ASSUME NEW i \in 1 .. Len(Tail(q)), Tells(Tail(q)[i])
               PROVE  Shown(pg, e).run <= Tail(q)[i].run /\ Aloud(at, Tail(q)[i].run)
      BY DEF Follows
  <2>1. Tail(q)[i] = q[i + 1] /\ i + 1 \in 1 .. Len(q) /\ 1 \in 1 .. (i + 1) - 1 BY <1>3
  <2>2. Tells(q[i + 1]) /\ q[i + 1].run \in Nat BY <2>1, <1>3 DEF Events
  <2>3. pg.run <= q[i + 1].run /\ Aloud(at, q[i + 1].run) BY <2>1, <2>2, <1>6 DEF Follows
  <2>4. Tells(e) => e.run <= q[i + 1].run BY <2>1, <2>2, <1>3, <1>6 DEF Ascends
  <2>5. QED BY <2>1, <2>3, <2>4, <1>7
<1>12. InOrder'
  <2>1. Ascends(Tail(q)) BY <1>0, <1>2, <1>6, TailInOrder
  <2>2. Shown(pg, e).run <= started BY <1>6, <1>7
  <2>3. QED BY <2>1, <2>2, <1>0, <1>1, <1>5, <1>11 DEF InOrder
<1>13. Unheard'
  <2> SUFFICES ASSUME NEW u \in Threads, NEW x \in sending[u].to,
                      sending[u].event.kind = "start"
               PROVE  Silent(queue'[x], u[2])
      BY <1>0 DEF Unheard
  <2>1. Silent(queue[x], u[2]) /\ x \in Tabs BY <1>1, SendFits DEF Unheard
  <2>2. Silent(q, u[2]) => Silent(Tail(q), u[2]) BY <1>3 DEF Silent
  <2>3. QED BY <2>1, <2>2, <1>5 DEF q
<1>14. Remembered'
  <2> SUFFICES ASSUME NEW s \in seen
               PROVE  s[2] <= page'[s[1]].run \/ Holds(queue'[s[1]], s[2])
      BY <1>0 DEF Remembered
  <2>1. /\ s[2] <= page[s[1]].run \/ Holds(queue[s[1]], s[2])
        /\ s[1] \in Tabs /\ s[2] \in Nat
        BY <1>1 DEF Remembered, DemoTypeOK
  <2>2. CASE s[1] # c BY <2>1, <2>2, <1>5
  <2>3. CASE s[1] = c
    <3>1. CASE s[2] <= pg.run
      <4>1. s[2] <= Shown(pg, e).run BY <3>1, <2>1, <1>6, <1>7
      <4>2. QED BY <4>1, <2>3, <1>5, <1>2
    <3>2. CASE Holds(q, s[2])
      <4>1. PICK i \in 1 .. Len(q) : q[i] = Event("start", s[2]) BY <3>2 DEF Holds
      <4>2. CASE i = 1
        <5>1. Shown(pg, e).run = s[2] BY <4>1, <4>2, <1>3, <1>4 DEF Event
        <5>2. QED BY <5>1, <2>1, <2>3, <1>5, <1>2
      <4>3. CASE i # 1
        <5>1. i - 1 \in 1 .. Len(Tail(q)) /\ Tail(q)[i - 1] = q[i] BY <4>3, <1>3
        <5>2. Holds(Tail(q), s[2]) BY <4>1, <5>1 DEF Holds
        <5>3. QED BY <5>2, <2>3, <1>5, <1>2
      <4>4. QED BY <4>2, <4>3
    <3>3. QED BY <3>1, <3>2, <2>1, <2>3 DEF q, pg
  <2>4. QED BY <2>2, <2>3
<1>15. QED BY <1>8, <1>9, <1>10, <1>12, <1>13, <1>14 DEF DemoInv

\* A connection that breaks, or a page loaded again.
LEMMA ForgetStep ==
    ASSUME DemoInv, NEW c \in Readers, Lose(c) \/ Reload(c)
    PROVE  DemoInv'
<1> USE Named
<1>0. /\ queue' = [queue EXCEPT ![c] = << >>]
      /\ sending' = [t \in Threads |-> Without(sending[t], c)]
      /\ seen' = {s \in seen : s[1] # c}
      /\ missed' = missed \cup {c} /\ losses < MaxLosses /\ losses' = losses + 1
      /\ UNCHANGED <<running, started, at, ticks, sim, handler>>
      /\ connected' \subseteq connected /\ page' \in {page, [page EXCEPT ![c] = Fresh]}
      BY DEF Lose, Reload, Forget, serverVars
<1>1. /\ DemoTypeOK /\ OneAtATime /\ Outgoing /\ InOrder /\ Unheard /\ Remembered
      BY DEF DemoInv
<1>2. c \in Tabs /\ << >> \in Seq(Events) /\ Len(<< >>) = 0 BY EmptySeq
<1>3. Fresh \in Pages /\ Fresh.run = 0 BY DEF Fresh, Pages
<1>4. /\ queue' \in [Tabs -> Seq(Events)] /\ page' \in [Tabs -> Pages]
      /\ queue'[c] = << >> /\ \A x \in Tabs : x # c => queue'[x] = queue[x]
      /\ \A x \in Tabs : page'[x] = page[x] \/ (x = c /\ page'[x].run = 0)
  <2>1. queue \in [Tabs -> Seq(Events)] /\ page \in [Tabs -> Pages] BY <1>1 DEF DemoTypeOK
  <2>2. /\ queue' \in [Tabs -> Seq(Events)]
        /\ queue'[c] = << >> /\ \A x \in Tabs : x # c => queue'[x] = queue[x]
        BY <2>1, <1>0, <1>2
  <2>3. CASE page' = page BY <2>1, <2>2, <2>3
  <2>4. CASE page' = [page EXCEPT ![c] = Fresh]
    <3>1. page'[c] = Fresh /\ \A x \in Tabs : x # c => page'[x] = page[x]
          BY <2>1, <2>4, <1>2
    <3>2. page' \in [Tabs -> Pages] BY <2>1, <2>4, <1>3
    <3>3. QED BY <3>1, <3>2, <2>2, <1>3
  <2>5. QED BY <2>3, <2>4, <1>0
<1>5. \A t \in Threads : /\ sending'[t] \in Sends /\ sending'[t].to = sending[t].to \ {c}
                         /\ sending'[t].to # {} => sending'[t].event = sending[t].event
      BY <1>0, <1>1, WithoutOne DEF DemoTypeOK
<1>6. DemoTypeOK'
  <2>1. losses' \in 0 .. MaxLosses BY <1>0, <1>1, DemoAssumption DEF DemoTypeOK
  <2>2. sending' \in [Threads -> Sends] BY <1>0, <1>5
  <2>3. seen' \subseteq Tabs \X Runs /\ missed' \subseteq Tabs /\ connected' \subseteq Tabs
        BY <1>0, <1>1 DEF DemoTypeOK
  <2>4. QED BY <2>1, <2>2, <2>3, <1>0, <1>1, <1>4 DEF DemoTypeOK
<1>7. OneAtATime' BY <1>0, <1>1 DEF OneAtATime
<1>8. Outgoing' BY <1>0, <1>1, <1>5 DEF Outgoing
<1>9. InOrder'
  <2> SUFFICES ASSUME NEW x \in Tabs
               PROVE  Ascends(queue'[x]) /\ Follows(queue'[x], page'[x].run, at)
                      /\ page'[x].run <= started
      BY <1>0 DEF InOrder
  <2>1. Ascends(queue[x]) /\ Follows(queue[x], page[x].run, at) /\ page[x].run <= started
        BY <1>1 DEF InOrder
  <2>2. page'[x].run <= started
    <3>1. started \in 0 .. MaxStarts BY <1>1 DEF DemoTypeOK
    <3>2. 0 <= started BY <3>1
    <3>3. QED BY <3>2, <2>1, <1>4
  <2>3. CASE x = c BY <2>2, <2>3, <1>2, <1>4 DEF Ascends, Follows
  <2>4. CASE x # c BY <2>1, <2>4, <1>4
  <2>5. QED BY <2>3, <2>4
<1>10. Unheard'
  <2> SUFFICES ASSUME NEW u \in Threads, NEW x \in sending'[u].to,
                      sending'[u].event.kind = "start"
               PROVE  Silent(queue'[x], u[2])
      BY DEF Unheard
  <2>1. x \in sending[u].to /\ x # c /\ sending[u].event.kind = "start" BY <1>5
  <2>2. Silent(queue[x], u[2]) /\ x \in Tabs BY <2>1, <1>1, SendFits DEF Unheard
  <2>3. QED BY <2>1, <2>2, <1>4
<1>11. Remembered'
  <2> SUFFICES ASSUME NEW s \in seen, s[1] # c
               PROVE  s[2] <= page'[s[1]].run \/ Holds(queue'[s[1]], s[2])
      BY <1>0 DEF Remembered
  <2>1. s[2] <= page[s[1]].run \/ Holds(queue[s[1]], s[2]) BY <1>1 DEF Remembered
  <2>2. s[1] \in Tabs BY <1>1 DEF DemoTypeOK
  <2>3. page'[s[1]] = page[s[1]] /\ queue'[s[1]] = queue[s[1]] BY <2>2, <1>4
  <2>4. QED BY <2>1, <2>3
<1>12. QED BY <1>6, <1>7, <1>8, <1>9, <1>10, <1>11 DEF DemoInv

\* A request that is accepted.
LEMMA StartStep ==
    ASSUME DemoInv, NoRace, NEW c \in Tabs, StartRun(c)
    PROVE  DemoInv'
<1> USE Named
<1> DEFINE new == started + 1
<1>0. /\ handler[c] = "checked" /\ started < MaxStarts
      /\ handler' = [handler EXCEPT ![c] = "none"] /\ running' = TRUE
      /\ started' = new /\ at' = [at EXCEPT ![new] = "start"]
      /\ UNCHANGED <<ticks, sim, sending, connected, queue, page, losses, seen, missed>>
      BY DEF StartRun, tabVars
<1>1. DemoTypeOK /\ OneAtATime BY DEF DemoInv
<1>2. /\ started \in 0 .. MaxStarts /\ new \in Runs
      /\ at \in [Runs -> {"none", "start", "play", "clear", "over"}]
      BY <1>0, <1>1 DEF DemoTypeOK, Runs
<1>3. /\ at' \in [Runs -> {"none", "start", "play", "clear", "over"}]
      /\ \A r \in Runs : at'[r] = IF r = new THEN "start" ELSE at[r]
      BY <1>0, <1>2
<1>4. ~ running BY <1>0 DEF NoRace
<1>5. DemoTypeOK'
  <2>1. started' \in 0 .. MaxStarts BY <1>0, <1>2
  <2>2. handler' \in [Tabs -> {"none", "checked"}] BY <1>0, <1>1 DEF DemoTypeOK
  <2>3. QED BY <2>1, <2>2, <1>0, <1>1, <1>3 DEF DemoTypeOK
<1>6. OneAtATime'
  <2> SUFFICES ASSUME NEW r \in Runs
               PROVE  /\ r > new => at'[r] = "none"
                      /\ r < new => at'[r] = "over"
                      /\ r = new => at'[r] # "none"
      BY <1>0 DEF OneAtATime
  <2>1. /\ r > started => at[r] = "none"
        /\ r < started => at[r] = "over"
        /\ r = started => at[r] # "none" /\ at[r] \notin Live
        BY <1>1, <1>4 DEF OneAtATime
  <2>2. r = started => at[r] = "over" BY <2>1, <1>2 DEF Live
  <2>3. r \in Nat /\ started \in Nat BY <1>2
  <2>4. QED BY <2>1, <2>2, <2>3, <1>3
<1>7. Outgoing' /\ InOrder' /\ Unheard' /\ Remembered'
  <2>1. at[new] = "none" BY <1>1, <1>2 DEF OneAtATime
  <2>2. \A r \in Runs : Aloud(at, r) => Aloud(at', r) BY <2>1, <1>3 DEF Aloud
  <2>3. \A t \in Threads : sending[t].to # {} /\ t[1] = "episode" =>
                              at'[t[2]] \in {"play", "clear"}
        BY <2>1, <1>3 DEF DemoInv, Outgoing
  <2>4. started' \in started .. MaxStarts BY <1>0, <1>2
  <2>5. UNCHANGED <<sending, queue, seen>> /\ \A x \in Tabs : page'[x].run = page[x].run
        BY <1>0
  <2>6. QED BY <2>2, <2>3, <2>4, <2>5, <1>5, QuietStep
<1>8. QED BY <1>5, <1>6, <1>7 DEF DemoInv

\* `finally`.
LEMMA ClearStep ==
    ASSUME DemoInv, NEW r \in Runs, Clear(r)
    PROVE  DemoInv'
<1> USE Named
<1>0. /\ at[r] = "clear" /\ Sent(Episode(r)) /\ running' = FALSE
      /\ at' = [at EXCEPT ![r] = "over"] /\ ticks' = [ticks EXCEPT ![r] = 0]
      /\ UNCHANGED <<handler, started, sim, sending, connected, queue, page, losses, seen, missed>>
      BY DEF Clear, tabVars
<1>1. DemoTypeOK /\ OneAtATime BY DEF DemoInv
<1>2. /\ at' \in [Runs -> {"none", "start", "play", "clear", "over"}]
      /\ \A s \in Runs : at'[s] = IF s = r THEN "over" ELSE at[s]
      BY <1>0, <1>1 DEF DemoTypeOK
<1>3. DemoTypeOK'
  <2>1. ticks' \in [Runs -> 0 .. MaxTicks] BY <1>0, <1>1, DemoAssumption DEF DemoTypeOK
  <2>2. QED BY <2>1, <1>0, <1>1, <1>2 DEF DemoTypeOK
<1>4. OneAtATime'
  <2>1. r = started /\ started' = started BY <1>0, LastTalks DEF Live
  <2>2. \A s \in Runs : s # r => at[s] \notin Live BY <2>1, LastTalks
  <2>3. QED BY <2>1, <2>2, <1>0, <1>1, <1>2 DEF OneAtATime, Live
<1>5. Outgoing' /\ InOrder' /\ Unheard' /\ Remembered'
  <2>1. \A s \in Runs : Aloud(at, s) => Aloud(at', s) BY <1>2 DEF Aloud
  <2>2. ASSUME NEW t \in Threads, sending[t].to # {}, t[1] = "episode"
        PROVE  at'[t[2]] \in {"play", "clear"}
    <3>1. at[t[2]] \in {"play", "clear"} /\ t[2] \in Runs BY <2>2 DEF DemoInv, Outgoing
    <3>2. t[2] = r => t = Episode(r) BY <2>2 DEF Episode, Threads
    <3>3. t[2] # r BY <3>2, <2>2, <1>0 DEF Sent
    <3>4. QED BY <3>1, <3>3, <1>2
  <2>3. started' \in started .. MaxStarts BY <1>0, <1>1 DEF DemoTypeOK
  <2>4. UNCHANGED <<sending, queue, seen>> /\ \A x \in Tabs : page'[x].run = page[x].run
        BY <1>0
  <2>5. QED BY <2>1, <2>2, <2>3, <2>4, <1>3, QuietStep
<1>6. QED BY <1>3, <1>4, <1>5 DEF DemoInv

\* The drain thread.
LEMMA CrashStep ==
    ASSUME DemoInv, NEW r \in Runs, ReportCrash(r)
    PROVE  DemoInv'
<1> USE Named
<1> DEFINE event == Event("simcrash", r)
<1>0. /\ Emit(Log(r), event) /\ sim' = [sim EXCEPT ![r] = "logged"]
      /\ UNCHANGED <<running, handler, started, at, ticks, connected, queue, page, losses, seen>>
      BY DEF ReportCrash, tabVars
<1>1. DemoTypeOK /\ OneAtATime BY DEF DemoInv
<1>2. event \in Events /\ event.run = r /\ event.kind = "simcrash"
      BY DEF Event, Events, Kinds
<1> HIDE DEF event
<1>3. DemoTypeOK'
  <2>1. sending' \in [Threads -> Sends] BY <1>0, <1>1, <1>2, EmitSends
  <2>2. missed' \subseteq Tabs BY <1>0, <1>1 DEF Emit, DemoTypeOK
  <2>3. sim' \in [Runs -> {"up", "aborted", "logged"}] BY <1>0, <1>1 DEF DemoTypeOK
  <2>4. QED BY <2>1, <2>2, <2>3, <1>0, <1>1 DEF DemoTypeOK
<1>4. OneAtATime' BY <1>0, <1>1 DEF OneAtATime
<1>5. Own(Log(r), event) BY <1>2 DEF Own
<1>6. Outgoing' /\ InOrder' /\ Unheard' /\ Remembered' BY <1>0, <1>2, <1>5, SendStep
<1>7. QED BY <1>3, <1>4, <1>6 DEF DemoInv

\* What is between the tabs and the flag, and the steps that touch none of it.
LEMMA OtherSteps ==
    ASSUME DemoInv,
           \/ \E c \in Clickers : Click(c)
           \/ \E r \in Runs : Abort(r)
           \/ \E c \in Readers : Connect(c) \/ Watchdog(c)
           \/ UNCHANGED demoVars
    PROVE  DemoInv'
<1> USE Named
<1>1. /\ DemoTypeOK /\ OneAtATime BY DEF DemoInv
<1>2. /\ UNCHANGED <<running, started, at, ticks, sending, queue, losses, seen, missed>>
      BY DEF Click, Abort, Connect, Watchdog, serverVars, tabVars, demoVars
<1> DEFINE Rest == /\ handler' \in [Tabs -> {"none", "checked"}] /\ connected' \subseteq Tabs
                   /\ sim' \in [Runs -> {"up", "aborted", "logged"}]
           Pressed(c) == [page[c] EXCEPT !.disabled = TRUE]
           Stalled(c) == [page[c] EXCEPT !.ended = TRUE, !.disabled = FALSE]
           Looks == \/ page' = page
                    \/ \E c \in Tabs : page' = [page EXCEPT ![c] = Pressed(c)]
                    \/ \E c \in Tabs : page' = [page EXCEPT ![c] = Stalled(c)]
<1>3. Rest /\ Looks
  <2>1. /\ handler \in [Tabs -> {"none", "checked"}] /\ connected \subseteq Tabs
        /\ sim \in [Runs -> {"up", "aborted", "logged"}] /\ Clickers \subseteq Tabs
        BY <1>1, DemoAssumption DEF DemoTypeOK
  <2>2. ASSUME NEW c \in Clickers, Click(c) PROVE Rest /\ Looks
    <3>1. c \in Tabs /\ UNCHANGED <<sim, connected>> BY <2>1, <2>2 DEF Click, serverVars
    <3>2. CASE running
      <4>1. UNCHANGED <<handler, page>> BY <2>2, <3>2 DEF Click
      <4>2. QED BY <2>1, <3>1, <4>1
    <3>3. CASE ~ running
      <4>1. /\ handler' = [handler EXCEPT ![c] = "checked"]
            /\ page' = [page EXCEPT ![c] = Pressed(c)]
            BY <2>2, <3>3 DEF Click
      <4>2. QED BY <2>1, <3>1, <4>1
    <3>4. QED BY <3>2, <3>3
  <2>3. ASSUME NEW r \in Runs, Abort(r) PROVE Rest /\ Looks
    <3>1. UNCHANGED <<handler, connected, page>> /\ sim' = [sim EXCEPT ![r] = "aborted"]
          BY <2>3 DEF Abort, tabVars
    <3>2. QED BY <2>1, <3>1
  <2>4. ASSUME NEW c \in Readers, Connect(c) PROVE Rest /\ Looks
    <3>1. UNCHANGED <<handler, sim, page>> /\ connected' = connected \cup {c}
          BY <2>4 DEF Connect, serverVars
    <3>2. QED BY <2>1, <3>1
  <2>5. ASSUME NEW c \in Readers, Watchdog(c) PROVE Rest /\ Looks
    <3>1. UNCHANGED <<handler, sim, connected>> BY <2>5 DEF Watchdog, serverVars
    <3>2. page' = [page EXCEPT ![c] = Stalled(c)] BY <2>5 DEF Watchdog
    <3>3. c \in Tabs OBVIOUS
    <3>4. QED BY <2>1, <3>1, <3>2, <3>3
  <2>6. CASE UNCHANGED demoVars BY <2>1, <2>6 DEF demoVars, serverVars, tabVars
  <2>7. QED BY <2>2, <2>3, <2>4, <2>5, <2>6
<1>4. page' \in [Tabs -> Pages] /\ \A x \in Tabs : page'[x].run = page[x].run
  <2>1. page \in [Tabs -> Pages] BY <1>1 DEF DemoTypeOK
  <2>2. \A x \in Tabs : /\ Pressed(x) \in Pages /\ Pressed(x).run = page[x].run
                        /\ Stalled(x) \in Pages /\ Stalled(x).run = page[x].run
    <3>1. ASSUME NEW pg \in Pages
          PROVE  /\ [pg EXCEPT !.disabled = TRUE] \in Pages
                 /\ [pg EXCEPT !.disabled = TRUE].run = pg.run
          BY DEF Pages
    <3>2. ASSUME NEW pg \in Pages
          PROVE  /\ [pg EXCEPT !.ended = TRUE, !.disabled = FALSE] \in Pages
                 /\ [pg EXCEPT !.ended = TRUE, !.disabled = FALSE].run = pg.run
          BY DEF Pages
    <3>3. QED BY <2>1, <3>1, <3>2
  <2> HIDE DEF Pressed, Stalled
  <2>3. QED BY <2>1, <2>2, <1>3
<1>5. DemoTypeOK' BY <1>1, <1>2, <1>3, <1>4 DEF DemoTypeOK
<1>6. OneAtATime' BY <1>1, <1>2 DEF OneAtATime
<1>7. Outgoing' /\ InOrder' /\ Unheard' /\ Remembered'
  <2>1. started' \in started .. MaxStarts BY <1>1, <1>2 DEF DemoTypeOK
  <2>2. \A t \in Threads : sending[t].to # {} /\ t[1] = "episode" =>
                              at'[t[2]] \in {"play", "clear"}
        BY <1>2 DEF DemoInv, Outgoing
  <2>3. \A r \in Runs : Aloud(at, r) => Aloud(at', r) BY <1>2
  <2>4. QED BY <2>1, <2>2, <2>3, <1>2, <1>4, <1>5, QuietStep
<1>8. QED BY <1>5, <1>6, <1>7 DEF DemoInv

LEMMA DemoStep == ASSUME DemoInv, NoRace, [DemoNext]_demoVars PROVE DemoInv'
<1>1. ASSUME NEW c \in Tabs, StartRun(c) PROVE DemoInv' BY <1>1, StartStep
<1>2. ASSUME NEW r \in Runs, RunEpisode(r) PROVE DemoInv'
  <2>1. ticks \in [Runs -> 0 .. MaxTicks] BY DEF DemoInv, DemoTypeOK
  <2>2. CASE Begin(r)
    <3>1. ticks' \in [Runs -> 0 .. MaxTicks] BY <2>1, <2>2 DEF Begin
    <3>2. "start" \in Telling BY DEF Telling
    <3>3. QED BY <2>2, <3>1, <3>2, SayStep DEF Begin
  <2>3. CASE Tick(r)
    <3>1. ticks' \in [Runs -> 0 .. MaxTicks] BY <2>1, <2>3, DemoAssumption DEF Tick
    <3>2. "tick" \in Telling BY DEF Telling
    <3>3. Say(r, "play", "tick", "play") BY <2>3 DEF Tick
    <3>4. QED BY <3>1, <3>2, <3>3, SayStep
  <2>4. CASE Done(r)
    <3>1. ticks' \in [Runs -> 0 .. MaxTicks] BY <2>1, <2>4 DEF Done
    <3>2. "done" \in Telling BY DEF Telling
    <3>3. QED BY <2>4, <3>1, <3>2, SayStep DEF Done
  <2>5. CASE ReportError(r)
    <3>1. ticks' \in [Runs -> 0 .. MaxTicks] BY <2>1, <2>5 DEF ReportError
    <3>2. "error" \in Telling BY DEF Telling
    <3>3. QED BY <2>5, <3>1, <3>2, SayStep DEF ReportError
  <2>6. CASE Clear(r) BY <2>6, ClearStep
  <2>7. ASSUME NEW c \in Tabs, Put(Episode(r), c) PROVE DemoInv' BY <2>7, Named, PutStep
  <2>8. QED BY <1>2, <2>2, <2>3, <2>4, <2>5, <2>6, <2>7 DEF RunEpisode
<1>3. ASSUME NEW r \in Runs, DrainLog(r) PROVE DemoInv'
  <2>1. CASE ReportCrash(r) BY <2>1, CrashStep
  <2>2. ASSUME NEW c \in Tabs, Put(Log(r), c) PROVE DemoInv' BY <2>2, Named, PutStep
  <2>3. QED BY <1>3, <2>1, <2>2 DEF DrainLog
<1>4. ASSUME NEW c \in Readers, Deliver(c) PROVE DemoInv' BY <1>4, DeliverStep
<1>5. ASSUME NEW c \in Readers, Lose(c) \/ Reload(c) PROVE DemoInv' BY <1>5, ForgetStep
<1>6. QED BY <1>1, <1>2, <1>3, <1>4, <1>5, OtherSteps DEF DemoNext

\* What a step shows a page, and of which run.
LEMMA StoryStep ==
    ASSUME DemoInv, [DemoNext]_demoVars, NEW c \in Readers, losses' = losses,
           Len(queue'[c]) < Len(queue[c]), Head(queue[c]).kind # "simcrash"
    PROVE  \/ page'[c].run = Head(queue[c]).run
           \/ page'[c].run < Head(queue[c]).run /\ <<c, Head(queue[c]).run>> \notin seen
<1> USE Named
<1> DEFINE q == queue[c]
           e == Head(q)
           pg == page[c]
<1>1. queue \in [Tabs -> Seq(Events)] /\ page \in [Tabs -> Pages] /\ c \in Tabs
      BY DEF DemoInv, DemoTypeOK
<1>2. q \in Seq(Events) /\ pg \in Pages /\ Len(q) \in Nat BY <1>1, LenProperties
<1>3. Deliver(c)
  <2>1. ~ UNCHANGED queue BY <1>2
  <2>2. ASSUME NEW t \in Threads, NEW x \in Tabs, Put(t, x) PROVE FALSE
    <3>1. queue'[c] = q \/ (x = c /\ queue'[c] = Append(q, sending[t].event))
          BY <2>2, <1>1 DEF Put
    <3>2. x = c => sending[t].event \in Events BY <2>2, SendFits DEF Put
    <3>3. Len(queue'[c]) = Len(q) \/ Len(queue'[c]) = Len(q) + 1
          BY <3>1, <3>2, <1>2, AppendIs
    <3>4. QED BY <3>3, <1>2
  <2>3. ASSUME NEW x \in Readers, Deliver(x), x # c PROVE FALSE
    <3>1. queue'[c] = q BY <2>3, <1>1 DEF Deliver
    <3>2. QED BY <3>1, <1>2
  <2>4. ASSUME NEW x \in Readers, Lose(x) \/ Reload(x) PROVE FALSE
    <3>1. losses' = losses + 1 /\ losses \in Nat
          BY <2>4, DemoAssumption DEF Lose, Reload, Forget, DemoInv, DemoTypeOK
    <3>2. QED BY <3>1
  <2>5. QED BY <2>1, <2>2, <2>3, <2>4
            DEF DemoNext, RunEpisode, DrainLog, Click, StartRun, Begin, Tick, Done, ReportError,
                Say, Clear, Abort, ReportCrash, Connect, Watchdog, serverVars, tabVars, demoVars
<1>4. q # << >> /\ page'[c] = Shown(pg, e) BY <1>1, <1>3 DEF Deliver
<1>5. /\ e = q[1] /\ e \in Events /\ Len(q) \in Nat \ {0}
      /\ \A i \in 1 .. Len(q) : q[i] \in Events
      BY <1>2, <1>4, TailIs
<1>6. /\ Ascends(q) /\ Follows(q, pg.run, at)
      /\ <<c, e.run>> \in seen => e.run <= pg.run \/ Holds(q, e.run)
      BY <1>1 DEF DemoInv, InOrder, Remembered
<1>7. Shown(pg, e).run = e.run \/ (Shown(pg, e).run = pg.run /\ e.kind # "start")
      BY <1>2, <1>5, ShownRun
<1> HIDE DEF e, pg, q
<1>8. Tells(e) /\ e.run \in Nat /\ pg.run \in Nat
  <2>1. e.kind \in Kinds \ {"simcrash"} /\ e.run \in Runs BY <1>5 DEF Events, e, q
  <2>2. pg.run \in 0 .. MaxStarts BY <1>2 DEF Pages
  <2>3. \A n \in 0 .. MaxStarts : n \in Nat OBVIOUS
  <2>4. pg.run \in Nat BY <2>2, <2>3, Zenon
  <2>5. QED BY <2>1, <2>4 DEF Tells, Telling, Kinds
<1>9. pg.run <= e.run BY <1>5, <1>6, <1>8 DEF Follows
<1>10. ASSUME e.kind # "start", pg.run < e.run PROVE <<c, e.run>> \notin seen
  <2> SUFFICES ASSUME Holds(q, e.run) PROVE FALSE BY <1>6, <1>8, <1>10
  <2>1. PICK i \in 1 .. Len(q) : q[i] = Event("start", e.run) BY DEF Holds
  <2>2. q[i].kind = "start" /\ q[i].run = e.run /\ Tells(q[i])
        BY <2>1 DEF Event, Tells, Telling
  <2>3. i # 1 BY <2>2, <1>5, <1>10
  <2>4. 1 \in 1 .. i - 1 BY <2>3, <1>5
  <2>5. q[1].run < q[i].run BY <2>2, <2>4, <1>5, <1>8, <1>6 DEF Ascends
  <2>6. QED BY <2>2, <2>5, <1>5, <1>8
<1>11. page'[c].run = e.run \/ (page'[c].run < e.run /\ <<c, e.run>> \notin seen)
       BY <1>4, <1>7, <1>8, <1>9, <1>10
<1>12. QED BY <1>11 DEF e, q

\* live_demo.py 41-48, 300-307: while no two requests race for the flag, a page
\* takes an event for one of the run it shows, for every number of tabs, runs and
\* events, whatever queues fill and connections break.
THEOREM StoriesWithoutRace == DemoSpec /\ []NoRace => OneStory /\ []OneEpisode
<1> DEFINE Told(c) == LET event == Head(queue[c]) IN
               losses' = losses /\ Len(queue'[c]) < Len(queue[c]) /\ event.kind # "simcrash"
               => \/ page'[c].run = event.run
                  \/ page'[c].run < event.run /\ <<c, event.run>> \notin seen
<1>1. DemoInit => DemoInv BY DemoStarts
<1>2. DemoInv /\ NoRace /\ [DemoNext]_demoVars => DemoInv' BY DemoStep
<1>3. DemoInv /\ [DemoNext]_demoVars => [\A c \in Readers : Told(c)]_demoVars BY StoryStep
<1>4. DemoInv => OneEpisode
  <2> SUFFICES ASSUME DemoInv, NEW r \in Runs, NEW s \in Runs, {at[r], at[s]} \subseteq Live
               PROVE  r = s
      BY DEF OneEpisode, Live
  <2>1. QED BY LastTalks
<1> HIDE DEF Told
<1>5. QED BY <1>1, <1>2, <1>3, <1>4, PTL DEF DemoSpec, OneStory, Told

\* With one tab whose Run button is used nobody races.
OneClicker == \A a, b \in Clickers : a = b
Alone == /\ handler \in [Tabs -> {"none", "checked"}]
         /\ \A c \in Tabs : handler[c] = "checked" => c \in Clickers /\ ~ running

LEMMA AloneStep ==
    ASSUME OneClicker, DemoInv, Alone, [DemoNext]_demoVars
    PROVE  Alone'
<1>1. Clickers \subseteq Tabs BY DemoAssumption
<1>2. ASSUME NEW c \in Clickers, Click(c) PROVE Alone'
      BY <1>1, <1>2 DEF Alone, Click, serverVars
<1>3. ASSUME NEW c \in Tabs, StartRun(c) PROVE Alone'
      BY <1>1, <1>3 DEF Alone, StartRun, OneClicker
<1>4. ASSUME UNCHANGED handler, running' = running \/ running' = FALSE PROVE Alone'
      BY <1>4 DEF Alone
<1>5. QED BY <1>2, <1>3, <1>4
          DEF DemoNext, RunEpisode, DrainLog, Put, Begin, Tick, Done, ReportError, Say, Clear, Abort,
              ReportCrash, Deliver, Lose, Reload, Forget, Connect, Watchdog,
              serverVars, tabVars, demoVars

LEMMA NobodyRaces == ASSUME OneClicker PROVE DemoSpec => []NoRace
<1>1. DemoInit => DemoInv /\ Alone
  <2>1. DemoInit => Alone BY DEF DemoInit, Alone
  <2>2. QED BY <2>1, DemoStarts
<1>2. Alone => NoRace BY DEF Alone, NoRace
<1>3. DemoInv /\ Alone /\ [DemoNext]_demoVars => DemoInv' /\ Alone'
      BY <1>2, DemoStep, AloneStep
<1>4. QED BY <1>1, <1>2, <1>3, PTL DEF DemoSpec

\* live_demo.py 300-307, for every number of runs and whatever is reloaded: with one
\* tab that starts episodes, the flag keeps them one at a time.
THEOREM EpisodesInTurn == ASSUME OneClicker PROVE DemoSpec => []OneEpisode
<1>1. QED BY NobodyRaces, StoriesWithoutRace, PTL

\* live_demo.py 41-48: then no page mixes two runs up, for every number of tabs,
\* readers, runs and events.
THEOREM OneStoryTold == ASSUME OneClicker PROVE DemoSpec => OneStory
<1>1. QED BY NobodyRaces, StoriesWithoutRace, PTL
=============================================================================
