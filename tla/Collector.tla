------------------------------- MODULE Collector -------------------------------
(***************************************************************************)
(* The trace collector of benchmarks/cmd/collect: main's loop over the     *)
(* selected prompts, a worker goroutine per prompt behind a semaphore,     *)
(* Collector.Collect with the drafter, the heavyweight and the judge, the  *)
(* retries after a rate limit, the interrupt, and the reruns of the same   *)
(* command that resume from the record file.                               *)
(***************************************************************************)
EXTENDS RecordStore, FiniteSets

CONSTANTS
    NumPrompts,    \* the selected prompts, in the order main dispatches them
    Exact,         \* those graded against a known answer, without the judge
    Concurrency,   \* capacity of the semaphore
    Retries,       \* retries of a rate-limited prompt (3 in main)
    MaxRuns,       \* bound on the runs of the command
    MaxTears       \* bound on the writes that fall short

Prompts == 1 .. NumPrompts

ASSUME CollectorAssumption ==
    /\ NumPrompts \in Nat \ {0} /\ Exact \subseteq Prompts
    /\ Concurrency \in Nat \ {0} /\ Retries \in Nat
    /\ MaxRuns \in Nat \ {0} /\ MaxTears \in Nat

VARIABLES
    drafterOnly,   \* the -drafter-only flag, the same in every run
    run,           \* how often the command was started
    cancelled,     \* the interrupt has cancelled ctx
    main,          \* where main is: "loop", "wait" (wg.Wait), "exited"
    next,          \* the next prompt of the loop
    workers,       \* the worker of each prompt
    disturbed      \* history: an Append of this run failed, or it crashed

vars == <<storeVars, drafterOnly, run, cancelled, main, next, workers, disturbed>>

(***************************************************************************)
(* A record, by what it reports: no error and a draft that is whole or was *)
(* cut short, an error of a provider, or one the cancelled context caused  *)
(* ("new" is a record Collect has only begun).  retry counts the           *)
(* rate-limit retries, reasked that the judge is in its second attempt.    *)
(***************************************************************************)
Failures == {"error", "interrupt"}
Record == [prompt : Prompts, reports : {"new", "whole", "cut"} \cup Failures]
NewRecord(p) == [prompt |-> p, reports |-> "new"]

Places == {"idle", "draft", "read", "heavy", "judge", "backoff", "append"}
Worker == [pc : Places, retry : 0 .. Retries, reasked : BOOLEAN, rec : Record]
Idle(p) == [pc |-> "idle", retry |-> 0, reasked |-> FALSE, rec |-> NewRecord(p)]

At(p, pc) == workers[p].pc = pc
Running == {p \in Prompts : ~At(p, "idle")}
Bystanders == <<drafterOnly, run, cancelled, main, next>>

Init ==
    /\ StoreInit
    /\ drafterOnly \in BOOLEAN
    /\ run = 1 /\ cancelled = FALSE
    /\ main = "loop" /\ next = 1
    /\ workers = [p \in Prompts |-> Idle(p)]
    /\ disturbed = FALSE

-----------------------------------------------------------------------------
(***************************************************************************)
(* main's loop.  A prompt identifier is unique in the dataset, so that     *)
(* nobody else can collect it between AlreadyCollected and the dispatch.   *)
(***************************************************************************)
InLoop == main = "loop" /\ ~cancelled /\ next <= NumPrompts

SkipCollected ==
    /\ InLoop /\ next \in collected
    /\ next' = next + 1
    /\ UNCHANGED <<storeVars, drafterOnly, run, cancelled, main, workers, disturbed>>

\* Mutant of Dispatch: the resumed run does not ask AlreadyCollected.
DispatchAgain ==
    /\ InLoop
    /\ Cardinality(Running) < Concurrency
    /\ workers' = [workers EXCEPT ![next] = [Idle(next) EXCEPT !.pc = "draft"]]
    /\ next' = next + 1
    /\ UNCHANGED <<storeVars, drafterOnly, run, cancelled, main, disturbed>>

Dispatch ==
    /\ InLoop /\ next \notin collected
    /\ Cardinality(Running) < Concurrency
    /\ workers' = [workers EXCEPT ![next] = [Idle(next) EXCEPT !.pc = "draft"]]
    /\ next' = next + 1
    /\ UNCHANGED <<storeVars, drafterOnly, run, cancelled, main, disturbed>>

\* The loop ends, or breaks at one of its two tests of ctx.Err().
LeaveLoop ==
    /\ main = "loop" /\ (cancelled \/ next > NumPrompts)
    /\ main' = "wait"
    /\ UNCHANGED <<storeVars, drafterOnly, run, cancelled, next, workers, disturbed>>

\* Mutant of Exit: main does not wait for the workers.
ExitAtOnce ==
    /\ main = "wait"
    /\ main' = "exited"
    /\ UNCHANGED <<storeVars, drafterOnly, run, cancelled, next, workers, disturbed>>

Exit ==
    /\ main = "wait" /\ Running = {}
    /\ main' = "exited"
    /\ UNCHANGED <<storeVars, drafterOnly, run, cancelled, next, workers, disturbed>>

-----------------------------------------------------------------------------
(* A worker.  Collect makes its calls in order and returns at the first    *)
(* error; a call on a cancelled context fails.                             *)

Step(p, w) == workers' = [workers EXCEPT ![p] = w] /\ UNCHANGED <<storeVars, Bystanders, disturbed>>
CallErrors == IF cancelled THEN {"interrupt"} ELSE {"rate limit", "error"}

\* Collect returns a record without an error.
Complete(w) == [w EXCEPT !.pc = "append"]

\* Mutant of Fail: a worker that is interrupted gives its record in as it
\* stands.
FailIgnoringInterrupt(w, error) ==
    IF error = "rate limit" /\ w.retry < Retries THEN [w EXCEPT !.pc = "backoff"]
    ELSE IF error = "interrupt" THEN Complete(w)
    ELSE [w EXCEPT !.pc = "append", !.rec.reports = "error"]

\* Collect returns a record with this error: a rate limit is waited out while
\* there are retries left.
Fail(w, error) ==
    IF error = "rate limit" /\ w.retry < Retries THEN [w EXCEPT !.pc = "backoff"]
    ELSE [w EXCEPT !.pc = "append",
                   !.rec.reports = IF error = "interrupt" THEN error ELSE "error"]

OpenDraft(p) ==
    /\ At(p, "draft")
    /\ \/ ~cancelled /\ Step(p, [workers[p] EXCEPT !.pc = "read"])
       \/ \E e \in CallErrors : Step(p, Fail(workers[p], e))

\* The channel closes after the whole body, or after a send the cancelled
\* context aborted, which looks the same; or it delivers an error.
ReadDraft(p) ==
    /\ At(p, "read")
    /\ \/ \E d \in {"whole"} \cup (IF cancelled THEN {"cut"} ELSE {}) :
             LET w == [workers[p] EXCEPT !.rec.reports = d]
             IN  Step(p, IF drafterOnly THEN Complete(w) ELSE [w EXCEPT !.pc = "heavy"])
       \/ \E e \in CallErrors \cup {"error"} : Step(p, Fail(workers[p], e))

AskHeavy(p) ==
    /\ At(p, "heavy")
    /\ \/ /\ ~cancelled
          /\ Step(p, IF p \in Exact THEN Complete(workers[p])
                     ELSE [workers[p] EXCEPT !.pc = "judge", !.reasked = FALSE])
       \/ \E e \in CallErrors : Step(p, Fail(workers[p], e))

\* Evaluate: an answer that does not parse is asked for once more.
AskJudge(p) ==
    /\ At(p, "judge")
    /\ \/ ~cancelled /\ Step(p, Complete(workers[p]))
       \/ ~cancelled /\ ~workers[p].reasked /\ Step(p, [workers[p] EXCEPT !.reasked = TRUE])
       \/ \E e \in CallErrors : Step(p, Fail(workers[p], e))

\* Mutant of Retry: the retries are not counted.
RetryUncounted(p) ==
    /\ At(p, "backoff")
    /\ Step(p, [Idle(p) EXCEPT !.pc = "draft", !.retry = workers[p].retry])

\* After the wait Collect begins a record anew.
Retry(p) ==
    /\ At(p, "backoff")
    /\ Step(p, [Idle(p) EXCEPT !.pc = "draft", !.retry = workers[p].retry + 1])

\* Interrupted while it waits, or with a record that has an error.
GiveUp(p) ==
    /\ cancelled
    /\ At(p, "backoff") \/ (At(p, "append") /\ workers[p].rec.reports \in Failures)
    /\ Step(p, Idle(p))

\* store.Append, under the store's mutex, and the end of the worker.
Store(p) ==
    /\ At(p, "append")
    /\ cancelled => workers[p].rec.reports \notin Failures
    /\ LET rec == workers[p].rec
       IN  \/ AppendOk(rec) /\ UNCHANGED disturbed
           \/ /\ AppendFails \/ AppendUnsynced(rec) \/ (tears < MaxTears /\ AppendShort(rec))
              /\ disturbed' = TRUE
    /\ workers' = [workers EXCEPT ![p] = Idle(p)]
    /\ UNCHANGED Bystanders

Work(p) ==
    \/ OpenDraft(p) \/ ReadDraft(p) \/ AskHeavy(p) \/ AskJudge(p)
    \/ Retry(p) \/ GiveUp(p) \/ Store(p)

-----------------------------------------------------------------------------
Interrupt ==
    /\ main # "exited" /\ ~cancelled
    /\ cancelled' = TRUE
    /\ UNCHANGED <<storeVars, drafterOnly, run, main, next, workers, disturbed>>

\* The process or its machine stops, perhaps in the middle of an Append.
Crash ==
    /\ main # "exited"
    /\ \/ UNCHANGED storeVars
       \/ \E p \in Running :
             /\ At(p, "append")
             /\ cancelled => workers[p].rec.reports \notin Failures
             /\ \/ AppendUnsynced(workers[p].rec)
                \/ tears < MaxTears /\ AppendShort(workers[p].rec)
    /\ main' = "exited"
    /\ workers' = [p \in Prompts |-> Idle(p)]
    /\ disturbed' = TRUE
    /\ UNCHANGED <<drafterOnly, run, cancelled, next>>

\* The same command again: NewStore reads the file, the loop starts over.
Rerun ==
    /\ main = "exited" /\ run < MaxRuns
    /\ NewStore
    /\ run' = run + 1
    /\ cancelled' = FALSE /\ main' = "loop" /\ next' = 1 /\ disturbed' = FALSE
    /\ UNCHANGED <<drafterOnly, workers>>

Program == SkipCollected \/ Dispatch \/ LeaveLoop \/ Exit
Environment == Interrupt \/ Crash \/ Rerun

Next == Program \/ (\E p \in Prompts : Work(p)) \/ Environment

Fairness == WF_vars(Program) /\ \A p \in Prompts : WF_vars(Work(p))

Spec == Init /\ [][Next]_vars /\ Fairness

-----------------------------------------------------------------------------
\* At most Concurrency workers are between their dispatch and their end, the
\* ones that wait out a rate limit included.
TypeOK ==
    /\ file \in Seq(Record) /\ tail \in Seq(Record \cup {Torn})
    /\ collected \subseteq Prompts /\ acked \subseteq Prompts /\ tears \in Nat
    /\ drafterOnly \in BOOLEAN /\ cancelled \in BOOLEAN /\ disturbed \in BOOLEAN
    /\ run \in 1 .. MaxRuns /\ main \in {"loop", "wait", "exited"}
    /\ next \in 1 .. NumPrompts + 1
    /\ workers \in [Prompts -> Worker] /\ Cardinality(Running) <= Concurrency

\* However often the command is interrupted, crashes or fails to write, and is
\* started again, LoadRecords never finds two records of one prompt: neither
\* a rerun nor a retry collects a prompt that the file already has.
NoDuplicateRecords ==
    \A i, j \in DOMAIN Loaded : Loaded[i].prompt = Loaded[j].prompt => i = j

\* A write that fell short costs at most one of the records that Append
\* reported as written: the first one glued to the unterminated line.
LossIsBounded == Cardinality(acked \ PromptsOf(Loaded)) <= tears

\* An interrupt leaves no trace in the file: no error it caused, and no
\* record without an error whose draft it cut short, although the client
\* reports a cut draft like a finished one.  (With -drafter-only nothing after
\* the draft would notice: those records are excepted.)
Sound(rec) == rec.reports \in {"whole", "error"} \/ (drafterOnly /\ rec.reports = "cut")
InterruptLeavesNoTrace == \A r \in ToSet(Loaded) : Sound(r)

\* A run that nobody interrupted and whose writes worked has collected every
\* prompt when it ends, whatever it shared with earlier, interrupted runs.
UndisturbedRunCollectsAll ==
    main = "exited" /\ ~cancelled /\ ~disturbed => collected = Prompts

\* Each run ends: the loop, the semaphore, the waits after a rate limit and
\* wg.Wait never wait for each other, and an interrupt is always followed.
EveryRunEnds == main # "exited" ~> main = "exited"

-----------------------------------------------------------------------------
(***************************************************************************)
(* The inductive invariant behind the safety properties.                   *)
(***************************************************************************)
\* What a worker's record can report at each place of Collect.
WorkerOk(p, w) ==
    /\ w.rec.prompt = p
    /\ w.pc # "idle" => p < next /\ main # "exited"
    /\ w.pc = "backoff" => w.retry < Retries
    /\ w.pc \in {"heavy", "judge"} =>
          w.rec.reports = "whole" \/ (cancelled /\ w.rec.reports = "cut")
    /\ w.pc = "append" => Sound(w.rec) \/ (cancelled /\ w.rec.reports = "interrupt")

WorkerInv == \A p \in Prompts : WorkerOk(p, workers[p])

\* A prompt that is or may yet be collected in this run has no record.
FreshInv ==
    main # "exited" =>
        \A p \in Prompts :
            ~At(p, "idle") \/ (p >= next /\ p \notin collected) => p \notin PromptsOf(Loaded)

\* A torn line that is still unterminated has its loss before it.
LossInv ==
    Cardinality(acked \ PromptsOf(file)) + (IF tail = <<>> THEN 0 ELSE 1) <= tears

\* In a run that nothing disturbed each dispatched prompt is in work or
\* collected, and main only waits when it has dispatched them all.
CoverInv ==
    ~cancelled /\ ~disturbed =>
        /\ main # "exited" => \A p \in Prompts : p < next => ~At(p, "idle") \/ p \in collected
        /\ main = "wait" => next > NumPrompts
        /\ main = "exited" => Prompts \subseteq collected

IInv ==
    /\ TypeOK /\ WorkerInv /\ FreshInv
    /\ NoDuplicateRecords /\ InterruptLeavesNoTrace /\ LossInv

-----------------------------------------------------------------------------
\* load.go:15: a partially written line does not invalidate the rest of the
\* dataset: what Append reported as written is found by LoadRecords.
AppendedIsLoaded == acked \subseteq PromptsOf(Loaded)

=============================================================================
