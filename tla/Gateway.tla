------------------------------- MODULE Gateway -------------------------------
(***************************************************************************)
(* gateway/provider.py: ClaudeCliProvider.complete in several worker       *)
(* processes that share the cache directory.                               *)
(*                                                                         *)
(* The processes meet on disk only.  The check that the file of a prompt   *)
(* exists, its reading, the call of the CLI and the two halves of a write  *)
(* (open(path, "w") empties the file, the close fills it) are steps that   *)
(* other workers interleave with.  Nothing locks, and nothing renames a    *)
(* finished file into place.                                               *)
(***************************************************************************)
EXTENDS Naturals, FiniteSets, Sequences

CONSTANTS
    Workers,      \* the processes of the pool
    Prompts,      \* pairs <<system prompt, prompt>>
    Replies,      \* what the model may say
    Size,         \* the length of a reply's cache file
    MaxAttempts,  \* LLM_MAX_ATTEMPTS
    None

VARIABLES
    cache,     \* the file of each prompt, None if there is none
    pc,        \* where a worker's complete() is
    prompt,    \* what it was called with
    attempt,   \* the attempt it is at
    reply      \* the answer it has

gatewayVars == <<cache, pc, prompt, attempt, reply>>

-----------------------------------------------------------------------------
(* The files. *)

\* An answer, with the prompt the model gave it to; the file holds both.
Answers == [to : Prompts, text : Replies]

\* `reply` is what json.load finds in the file, None when it does not parse.
Files == [reply : Answers \cup {None}, size : Nat]
Emptied == [reply |-> None, size |-> 0]

ASSUME GatewayAssumption ==
    /\ Size \in [Replies -> Nat \ {0}]
    /\ MaxAttempts \in Nat \ {0}
    /\ None \notin Prompts \cup Answers \cup Files

Exists(p) == cache[p] # None

\* What a close leaves: it writes from the beginning of the file, so the tail of
\* a longer answer that another worker has just written stays behind it.
Written(file, r) ==
    IF file.size > Size[r.text] THEN [file EXCEPT !.reply = None]
                                ELSE [reply |-> r, size |-> Size[r.text]]

\* The key is the model and the effort: the prompts are left out of it.
KeySlip(p) == CHOOSE q \in Prompts : TRUE

\* _key: the hash covers the system prompt and the prompt.
Key(p) == p

-----------------------------------------------------------------------------
(* complete() *)

Set(w, stage) == pc' = [pc EXCEPT ![w] = stage]

\* The cache is not looked up.
CompleteSlip(w, p) ==
    /\ pc[w] = "idle"
    /\ Set(w, "calling")
    /\ prompt' = [prompt EXCEPT ![w] = p]
    /\ attempt' = [attempt EXCEPT ![w] = 1]
    /\ UNCHANGED <<cache, reply>>

\* Entry, up to os.path.exists.
Complete(w, p) ==
    /\ pc[w] = "idle"
    /\ Set(w, IF Exists(Key(p)) THEN "reading" ELSE "calling")
    /\ prompt' = [prompt EXCEPT ![w] = p]
    /\ attempt' = [attempt EXCEPT ![w] = 1]
    /\ UNCHANGED <<cache, reply>>

\* json.load: a file that does not parse raises, and not an LlmError.
Read(w) ==
    /\ pc[w] = "reading"
    /\ LET file == cache[Key(prompt[w])] IN
       /\ Set(w, IF file.reply = None THEN "raised" ELSE "answered")
       /\ reply' = [reply EXCEPT ![w] = file.reply]
    /\ UNCHANGED <<cache, prompt, attempt>>

\* The CLI answers, and the file is opened for writing.
Reply(w, r) ==
    /\ pc[w] = "calling"
    /\ reply' = [reply EXCEPT ![w] = [to |-> prompt[w], text |-> r]]
    /\ cache' = [cache EXCEPT ![Key(prompt[w])] = Emptied]
    /\ Set(w, "storing")
    /\ UNCHANGED <<prompt, attempt>>

\* The file is flushed and closed.
Store(w) ==
    /\ pc[w] = "storing"
    /\ cache' = [cache EXCEPT ![Key(prompt[w])] = Written(@, reply[w])]
    /\ Set(w, "answered")
    /\ UNCHANGED <<prompt, attempt, reply>>

\* The bound starts the count again instead of giving up.
RetrySlip(w) ==
    /\ pc[w] = "calling"
    /\ attempt' = [attempt EXCEPT ![w] = (@ % MaxAttempts) + 1]
    /\ UNCHANGED <<cache, pc, prompt, reply>>

\* The CLI died, was overloaded or timed out: it is asked again.
Retry(w) ==
    /\ pc[w] = "calling"
    /\ attempt[w] < MaxAttempts
    /\ attempt' = [attempt EXCEPT ![w] = @ + 1]
    /\ UNCHANGED <<cache, pc, prompt, reply>>

\* The last attempt failed, or one failed in a way that is not worth replaying.
Fail(w) ==
    /\ pc[w] = "calling"
    /\ Set(w, "llm_error")
    /\ reply' = [reply EXCEPT ![w] = None]
    /\ UNCHANGED <<cache, prompt, attempt>>

Returned(w) == pc[w] \in {"answered", "llm_error", "raised"}

\* The caller has what complete() returned, and goes on.
Taken(w) ==
    /\ Set(w, "idle")
    /\ prompt' = [prompt EXCEPT ![w] = None]
    /\ attempt' = [attempt EXCEPT ![w] = 0]
    /\ reply' = [reply EXCEPT ![w] = None]
    /\ UNCHANGED cache

GatewayInit ==
    /\ cache = [p \in Prompts |-> None]
    /\ pc = [w \in Workers |-> "idle"]
    /\ prompt = [w \in Workers |-> None]
    /\ attempt = [w \in Workers |-> 0]
    /\ reply = [w \in Workers |-> None]

\* The steps of a worker inside complete().
Work(w) ==
    \/ Read(w)
    \/ \E r \in Replies : Reply(w, r)
    \/ Store(w)
    \/ Retry(w)
    \/ Fail(w)

-----------------------------------------------------------------------------
(* Properties. *)

GatewayTypeOK ==
    /\ cache \in [Prompts -> Files \cup {None}]
    /\ pc \in [Workers -> {"idle", "reading", "calling", "storing",
                           "answered", "llm_error", "raised"}]
    /\ prompt \in [Workers -> Prompts \cup {None}]
    /\ attempt \in [Workers -> 0..MaxAttempts]
    /\ reply \in [Workers -> Answers \cup {None}]

\* provider.py 96-100, 123-131, 196-199.  Whoever empties, overwrites or reads the files
\* meanwhile, an answer is one the model gave to that very system prompt and
\* prompt, and an unreadable file never passes for one.
AnswersAreGiven == \A w \in Workers : pc[w] = "answered" =>
    reply[w] # None /\ reply[w].to = prompt[w]

\* Nobody is between the check that the file of p does not exist and its close.
Quiescent(p) ==
    \A w \in Workers : pc[w] \in {"calling", "storing"} => prompt[w] # p

\* provider.py 8-10, 126-128.  Once its file exists and nobody is at it, a prompt
\* is never asked of the model again and the file never changes, readable or not:
\* what is in it answers every later question, and a file spoilt by a kill or by
\* two writers makes every later one fail.
CacheSettles ==
    [][\A p \in Prompts : Exists(p) /\ Quiescent(p)
          => Quiescent(p)' /\ cache'[p] = cache[p]]_gatewayVars
=============================================================================
