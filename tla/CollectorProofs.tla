---------------------------- MODULE CollectorProofs ----------------------------
(***************************************************************************)
(* Proofs about the collector: its invariant is inductive for any number   *)
(* of prompts, workers, retries, runs and short writes.                    *)
(***************************************************************************)
EXTENDS Collector, SequenceTheorems, FiniteSetTheorems, TLAPS

(***************************************************************************)
(* The record file.                                                        *)
(***************************************************************************)
FileType == file \in Seq(Record) /\ tail \in Seq(Record \cup {Torn})

\* The records that readers find are those of the file, or one more.
LEMMA LoadedRange ==
    ASSUME FileType
    PROVE  /\ Loaded \in Seq(Record)
           /\ tail = <<>> => Loaded = file
           /\ ToSet(file) \subseteq ToSet(Loaded)
           /\ Len(file) <= Len(Loaded)
           /\ \A i \in DOMAIN file : i \in DOMAIN Loaded /\ Loaded[i] = file[i]
  <1>1. CASE IsRecord(tail)
    <2>1. tail \in Seq(Record) /\ Len(tail) = 1 /\ tail # <<>>
      <3>1. Len(tail) = 1 /\ tail[1] # Torn /\ tail \in Seq(Record \cup {Torn})
        BY <1>1 DEF FileType, IsRecord
      <3>2. tail[1] \in Record
        BY <3>1, ElementOfSeq
      <3>3. <<tail[1]>> \in Seq(Record \cup {Torn}) /\ <<tail[1]>> \in Seq(Record)
            /\ Len(<<tail[1]>>) = 1 /\ <<tail[1]>>[1] = tail[1]
        BY <3>2
      <3>4. tail = <<tail[1]>>
        BY <3>1, <3>3, SeqEqual
      <3>. QED
        BY <3>1, <3>3, <3>4, EmptySeq
    <2>2. Loaded = file \o tail
      BY <1>1 DEF Loaded
    <2>3. /\ Loaded \in Seq(Record) /\ Len(Loaded) = Len(file) + 1
          /\ \A i \in 1 .. Len(file) : Loaded[i] = file[i]
      <3>1. /\ file \o tail \in Seq(Record) /\ Len(file \o tail) = Len(file) + Len(tail)
            /\ \A i \in 1 .. Len(file) + Len(tail) :
                  (file \o tail)[i] = IF i <= Len(file) THEN file[i] ELSE tail[i - Len(file)]
        BY <2>1, ConcatProperties DEF FileType
      <3>2. Len(file) \in Nat
        BY DEF FileType
      <3>. QED
        BY <2>1, <2>2, <3>1, <3>2
    <2>. QED
      BY <2>1, <2>3 DEF FileType, ToSet
  <1>2. CASE ~IsRecord(tail)
    <2>1. Loaded = file \o <<>>
      BY <1>2 DEF Loaded
    <2>2. Loaded = file
      BY <2>1 DEF FileType
    <2>. QED
      BY <2>2 DEF FileType
  <1>. QED
    BY <1>1, <1>2

\* Appending one record.
LEMMA OneMore ==
    ASSUME NEW S, NEW s \in Seq(S), NEW r \in S
    PROVE  /\ Append(s, r) \in Seq(S)
           /\ ToSet(Append(s, r)) = ToSet(s) \cup {r}
           /\ Append(s, r) # <<>>
           /\ Len(Append(s, r)) = Len(s) + 1
           /\ \A i \in DOMAIN Append(s, r) :
                 \/ i \in DOMAIN s /\ Append(s, r)[i] = s[i]
                 \/ i = Len(s) + 1 /\ Append(s, r)[i] = r
  <1>1. /\ Append(s, r) \in Seq(S) /\ Len(Append(s, r)) = Len(s) + 1
        /\ \A i \in 1 .. Len(s) : Append(s, r)[i] = s[i]
        /\ Append(s, r)[Len(s) + 1] = r
    OBVIOUS
  <1>2. DOMAIN s = 1 .. Len(s) /\ DOMAIN Append(s, r) = 1 .. (Len(s) + 1) /\ Len(s) \in Nat
    BY <1>1
  <1>3. \A i \in DOMAIN Append(s, r) : i \in DOMAIN s \/ i = Len(s) + 1
    BY <1>2
  <1>4. DOMAIN s \subseteq DOMAIN Append(s, r) /\ Len(s) + 1 \in DOMAIN Append(s, r)
    BY <1>2
  <1>5. ToSet(Append(s, r)) = ToSet(s) \cup {r}
    BY <1>1, <1>2, <1>3, <1>4 DEF ToSet
  <1>. QED
    BY <1>1, <1>2, <1>3, <1>5

Writes(rec) == AppendOk(rec) \/ AppendUnsynced(rec) \/ AppendShort(rec)

\* Whatever becomes of a write, readers find the records of the file, and
\* perhaps the one written, at the end.
LEMMA WritesLoaded ==
    ASSUME FileType, NEW rec \in Record, Writes(rec)
    PROVE  FileType' /\ (Loaded' = file \/ Loaded' = Append(file, rec))
  <1>1. CASE WriteLine(rec)
    <2>1. tail' = <<>> /\ (file' = file \/ file' = Append(file, rec))
      BY <1>1 DEF WriteLine
    <2>2. FileType'
      BY <2>1, OneMore DEF FileType
    <2>3. Loaded' = file'
      BY <2>1, <2>2 DEF Loaded, IsRecord, FileType
    <2>. QED
      BY <2>1, <2>2, <2>3
  <1>2. CASE AppendShort(rec)
    <2>1. PICK piece \in {Torn, rec} : tail' = Append(tail, piece) /\ file' = file
      BY <1>2 DEF AppendShort
    <2>2. piece \in Record \cup {Torn}
      OBVIOUS
    <2>3. FileType'
      BY <2>1, <2>2, OneMore DEF FileType
    <2>4. Loaded' = file \o (IF IsRecord(tail') THEN tail' ELSE <<>>)
      BY <2>1 DEF Loaded
    <2>5. CASE IsRecord(tail')
      <3>1. Len(tail') = Len(tail) + 1 /\ Len(tail') = 1 /\ Len(tail) \in Nat /\ tail'[1] # Torn
        BY <2>1, <2>2, <2>5 DEF FileType, IsRecord
      <3>2. tail = <<>>
        <4>1. Len(tail) = 0
          <5>. DEFINE n == Len(tail)
          <5>1. n \in Nat /\ n + 1 = 1
            BY <3>1
          <5>. QED
            BY <5>1
        <4>2. tail # <<>> => Len(tail) # 0
          BY EmptySeq DEF FileType
        <4>. QED
          BY <4>1, <4>2
      <3>3. tail' = <<piece>> /\ piece = rec
        BY <2>1, <3>1, <3>2
      <3>4. file \o <<rec>> = Append(file, rec)
        BY DEF FileType
      <3>. QED
        BY <2>3, <2>4, <2>5, <3>3, <3>4
    <2>6. CASE ~IsRecord(tail')
      BY <2>3, <2>4, <2>6 DEF FileType
    <2>. QED
      BY <2>5, <2>6
  <1>. QED
    BY <1>1, <1>2 DEF Writes, AppendOk, AppendUnsynced

\* Without a write the readers find what they found.
LEMMA NoWriteLoaded ==
    ASSUME UNCHANGED <<file, tail>>
    PROVE  Loaded' = Loaded
  BY DEF Loaded, IsRecord

-----------------------------------------------------------------------------
(***************************************************************************)
(* Types, the semaphore, and what a worker's record can report.            *)
(***************************************************************************)
USE DEF At

LEMMA FinitePrompts == IsFiniteSet(Prompts)
  BY CollectorAssumption, FS_Interval DEF Prompts

\* A set that gains one element at most.
LEMMA OneElement ==
  ASSUME NEW S, IsFiniteSet(S), NEW x, NEW T, T \subseteq S \cup {x}
  PROVE  /\ IsFiniteSet(T) /\ Cardinality(T) \in Nat /\ Cardinality(S) \in Nat
         /\ Cardinality(T) <= Cardinality(S) + 1
  <1>1. /\ IsFiniteSet(S \cup {x})
        /\ Cardinality(S \cup {x}) = IF x \in S THEN Cardinality(S) ELSE Cardinality(S) + 1
    BY FS_AddElement
  <1>2. IsFiniteSet(T) /\ Cardinality(T) <= Cardinality(S \cup {x})
    BY <1>1, FS_Subset
  <1>3. Cardinality(T) \in Nat /\ Cardinality(S) \in Nat
    BY <1>2, FS_CardinalityType
  <1>4. Cardinality(S \cup {x}) = Cardinality(S) \/ Cardinality(S \cup {x}) = Cardinality(S) + 1
    BY <1>1
  <1>. QED
    BY <1>2, <1>3, <1>4

LEMMA IdleType ==
  ASSUME NEW p \in Prompts
  PROVE  /\ Idle(p) \in Worker /\ Idle(p).pc = "idle" /\ Idle(p).rec = NewRecord(p)
         /\ NewRecord(p) \in Record /\ NewRecord(p).prompt = p
  BY CollectorAssumption DEF Idle, Worker, Places, NewRecord, Record

\* A step after which no more workers run keeps to the semaphore.
LEMMA Shrinking ==
  ASSUME TypeOK, Running' \subseteq Running
  PROVE  (Cardinality(Running) <= Concurrency)'
  <1>1. Running \subseteq Prompts /\ Cardinality(Running) <= Concurrency
    BY DEF Running, TypeOK
  <1>2. IsFiniteSet(Running)
    BY <1>1, FinitePrompts, FS_Subset
  <1>3. IsFiniteSet(Running') /\ Cardinality(Running') <= Cardinality(Running)
    BY <1>2, FS_Subset
  <1>4. Cardinality(Running) \in Nat /\ Cardinality(Running') \in Nat
    BY <1>2, <1>3, FS_CardinalityType
  <1>. QED
    BY <1>1, <1>3, <1>4, CollectorAssumption

Calls(p) == OpenDraft(p) \/ ReadDraft(p) \/ AskHeavy(p) \/ AskJudge(p) \/ Retry(p) \/ GiveUp(p)

\* Collect's two ways to return keep the worker's record in order.
LEMMA FailOk ==
  ASSUME TypeOK, NEW p \in Prompts, NEW w \in Worker, WorkerOk(p, w), w.pc # "idle",
         NEW e \in {"rate limit", "error", "interrupt"}, e = "interrupt" => cancelled
  PROVE  Fail(w, e) \in Worker /\ WorkerOk(p, Fail(w, e))
  <1>1. CASE e = "rate limit" /\ w.retry < Retries
    BY <1>1 DEF Fail, Worker, Places, WorkerOk
  <1>2. CASE ~(e = "rate limit" /\ w.retry < Retries)
    <2>1. PICK r \in Failures : /\ r = (IF e = "interrupt" THEN e ELSE "error")
                              /\ Fail(w, e) = [w EXCEPT !.pc = "append", !.rec.reports = r]
      BY <1>2 DEF Fail, Failures
    <2>. DEFINE q == [w.rec EXCEPT !.reports = r]
    <2>2. w.rec \in Record
      BY DEF Worker
    <2>3. q \in Record /\ q.prompt = w.rec.prompt /\ q.reports = r
      BY <2>2 DEF Record, Failures
    <2>5. Fail(w, e) = [w EXCEPT !.pc = "append", !.rec = q]
      BY <2>1
    <2>. HIDE DEF q
    <2>4. /\ Fail(w, e) \in Worker /\ Fail(w, e).pc = "append" /\ Fail(w, e).rec = q
      BY <2>3, <2>5 DEF Worker, Places
    <2>. QED
      BY <2>1, <2>3, <2>4 DEF WorkerOk, Sound
  <1>. QED
    BY <1>1, <1>2

LEMMA CallsOk ==
  ASSUME TypeOK, WorkerInv, NEW p \in Prompts, Calls(p)
  PROVE  ~At(p, "idle") /\ \E w \in Worker : Step(p, w) /\ WorkerOk(p, w)
  <1>. DEFINE v == workers[p]
  <1>1. v \in Worker /\ WorkerOk(p, v)
    BY DEF TypeOK, WorkerInv
  <1>2. \A e \in CallErrors \cup {"error"} :
           e \in {"rate limit", "error", "interrupt"} /\ (e = "interrupt" => cancelled)
    BY DEF CallErrors
  <1>3. ASSUME NEW e \in CallErrors \cup {"error"}, v.pc # "idle"
        PROVE  Fail(v, e) \in Worker /\ WorkerOk(p, Fail(v, e))
    BY <1>1, <1>2, <1>3, FailOk
  <1>4. CASE OpenDraft(p)
    <2>1. v.pc = "draft"
      BY <1>4 DEF OpenDraft
    <2>2. [v EXCEPT !.pc = "read"] \in Worker /\ WorkerOk(p, [v EXCEPT !.pc = "read"])
      BY <1>1, <2>1 DEF Worker, Places, WorkerOk
    <2>. QED
      BY <1>3, <1>4, <2>1, <2>2 DEF OpenDraft
  <1>5. CASE ReadDraft(p)
    <2>1. v.pc = "read"
      BY <1>5 DEF ReadDraft
    <2>2. ASSUME NEW d \in {"whole"} \cup (IF cancelled THEN {"cut"} ELSE {}),
                 NEW w, w = [v EXCEPT !.rec.reports = d]
          PROVE  LET u == IF drafterOnly THEN Complete(w) ELSE [w EXCEPT !.pc = "heavy"]
                 IN  u \in Worker /\ WorkerOk(p, u)
      <3>1. w \in Worker /\ w.rec.reports = d /\ w.rec.prompt = p /\ w.pc = "read" /\ p < next
            /\ main # "exited"
        BY <1>1, <2>1, <2>2 DEF Worker, Record, WorkerOk
      <3>2. d = "whole" \/ (d = "cut" /\ cancelled)
        OBVIOUS
      <3>3. CASE drafterOnly
        BY <3>1, <3>2, <3>3 DEF Complete, Worker, Places, WorkerOk, Sound
      <3>4. CASE ~drafterOnly
        BY <3>1, <3>2, <3>4 DEF Worker, Places, WorkerOk
      <3>. QED
        BY <3>3, <3>4
    <2>. QED
      BY <1>3, <1>5, <2>1, <2>2 DEF ReadDraft
  <1>6. CASE AskHeavy(p)
    <2>1. v.pc = "heavy"
      BY <1>6 DEF AskHeavy
    <2>2. ~cancelled => /\ Complete(v) \in Worker /\ WorkerOk(p, Complete(v))
                        /\ [v EXCEPT !.pc = "judge", !.reasked = FALSE] \in Worker
                        /\ WorkerOk(p, [v EXCEPT !.pc = "judge", !.reasked = FALSE])
      BY <1>1, <2>1 DEF Complete, Worker, Places, WorkerOk, Sound
    <2>. QED
      BY <1>3, <1>6, <2>1, <2>2 DEF AskHeavy
  <1>7. CASE AskJudge(p)
    <2>1. v.pc = "judge"
      BY <1>7 DEF AskJudge
    <2>2. ~cancelled => /\ Complete(v) \in Worker /\ WorkerOk(p, Complete(v))
                        /\ [v EXCEPT !.reasked = TRUE] \in Worker
                        /\ WorkerOk(p, [v EXCEPT !.reasked = TRUE])
      BY <1>1, <2>1 DEF Complete, Worker, Places, WorkerOk, Sound
    <2>. QED
      BY <1>3, <1>7, <2>1, <2>2 DEF AskJudge
  <1>8. CASE Retry(p)
    <2>1. v.pc = "backoff" /\ v.retry < Retries /\ v.retry \in Nat /\ p < next /\ main # "exited"
      BY <1>1, <1>8, CollectorAssumption DEF Retry, WorkerOk, Worker
    <2>2. v.retry + 1 \in 0 .. Retries
      BY <2>1, CollectorAssumption
    <2>3. LET u == [Idle(p) EXCEPT !.pc = "draft", !.retry = v.retry + 1]
          IN  u \in Worker /\ WorkerOk(p, u)
      BY <2>1, <2>2 DEF Idle, NewRecord, Record, Worker, Places, WorkerOk
    <2>. QED
      BY <1>8, <2>1, <2>3 DEF Retry
  <1>9. CASE GiveUp(p)
    BY <1>9, IdleType DEF GiveUp, WorkerOk
  <1>. QED
    BY <1>4, <1>5, <1>6, <1>7, <1>8, <1>9 DEF Calls

\* The three outcomes of a write keep the store's types.
LEMMA WritesType ==
  ASSUME TypeOK, NEW rec \in Record, Writes(rec)
  PROVE  /\ FileType' /\ tears' \in Nat
         /\ collected' \subseteq Prompts /\ acked' \subseteq Prompts
  <1>1. FileType'
    BY WritesLoaded DEF TypeOK, FileType
  <1>2. rec.prompt \in Prompts
    BY DEF Record
  <1>. QED
    BY <1>1, <1>2 DEF Writes, AppendOk, AppendUnsynced, AppendShort, WriteLine, TypeOK

\* A step writes one record to the file or none.
Written(p) ==
    /\ At(p, "append") /\ Writes(workers[p].rec)
    /\ cancelled => workers[p].rec.reports \notin Failures

LEMMA NextType == TypeOK /\ WorkerInv /\ [Next]_vars => TypeOK'
  <1>. SUFFICES ASSUME TypeOK, WorkerInv, [Next]_vars PROVE TypeOK'
    OBVIOUS
  <1>0. /\ \A p \in Prompts : Idle(p) \in Worker /\ Idle(p).pc = "idle"
        /\ workers \in [Prompts -> Worker]
        /\ \A p \in Prompts : workers[p].rec \in Record
    BY IdleType DEF TypeOK, Worker
  <1>1. CASE SkipCollected
    <2>1. Running' = Running
      BY <1>1 DEF SkipCollected, Running
    <2>2. next' \in 1 .. NumPrompts + 1
      BY <1>1, CollectorAssumption DEF SkipCollected, InLoop, TypeOK
    <2>. QED
      BY <1>1, <2>1, <2>2, Shrinking DEF SkipCollected, TypeOK, storeVars
  <1>2. CASE Dispatch
    <2>1. next \in Prompts /\ next' \in 1 .. NumPrompts + 1
      BY <1>2, CollectorAssumption DEF Dispatch, InLoop, TypeOK, Prompts
    <2>2. [Idle(next) EXCEPT !.pc = "draft"] \in Worker
      BY <1>0, <2>1 DEF Worker, Places
    <2>3. workers' \in [Prompts -> Worker]
      BY <1>0, <1>2, <2>2 DEF Dispatch
    <2>4. Running' \subseteq Running \cup {next}
      BY <1>0, <1>2 DEF Dispatch, Running
    <2>5. (Cardinality(Running) <= Concurrency)'
      <3>1. IsFiniteSet(Running)
        BY FinitePrompts, FS_Subset DEF Running
      <3>2. /\ Cardinality(Running) \in Nat /\ Cardinality(Running') \in Nat
            /\ Cardinality(Running') <= Cardinality(Running) + 1
        BY <2>4, <3>1, OneElement
      <3>3. Cardinality(Running) < Concurrency
        BY <1>2 DEF Dispatch
      <3>. QED
        BY <3>2, <3>3, CollectorAssumption
    <2>. QED
      BY <1>2, <2>1, <2>3, <2>5 DEF Dispatch, TypeOK, storeVars
  <1>3. CASE LeaveLoop \/ Exit \/ Interrupt
    <2>1. Running' = Running
      BY <1>3 DEF LeaveLoop, Exit, Interrupt, Running
    <2>. QED
      BY <1>3, <2>1, Shrinking DEF LeaveLoop, Exit, Interrupt, TypeOK, storeVars
  <1>4. ASSUME NEW p \in Prompts, Calls(p) PROVE TypeOK'
    <2>1. PICK w \in Worker : Step(p, w) /\ ~At(p, "idle")
      BY <1>4, CallsOk
    <2>2. workers' \in [Prompts -> Worker] /\ Running' \subseteq Running
      BY <1>0, <2>1 DEF Step, Running
    <2>. QED
      BY <2>1, <2>2, Shrinking DEF Step, Bystanders, TypeOK, storeVars
  <1>5. ASSUME NEW p \in Prompts, Store(p) PROVE TypeOK'
    <2>1. workers' \in [Prompts -> Worker] /\ Running' \subseteq Running
      BY <1>0, <1>5 DEF Store, Running
    <2>2. UNCHANGED storeVars \/ Writes(workers[p].rec)
      BY <1>5 DEF Store, Writes, AppendFails
    <2>3. /\ file' \in Seq(Record) /\ tail' \in Seq(Record \cup {Torn})
          /\ collected' \subseteq Prompts /\ acked' \subseteq Prompts /\ tears' \in Nat
      BY <1>0, <2>2, WritesType DEF FileType, TypeOK, storeVars
    <2>4. disturbed' \in BOOLEAN
      BY <1>5 DEF Store, TypeOK
    <2>. QED
      BY <1>5, <2>1, <2>3, <2>4, Shrinking DEF Store, Bystanders, TypeOK
  <1>6. CASE Crash
    <2>1. workers' \in [Prompts -> Worker] /\ Running' \subseteq Running
      BY <1>0, <1>6 DEF Crash, Running
    <2>2. UNCHANGED storeVars \/ \E p \in Prompts : Writes(workers[p].rec)
      BY <1>6 DEF Crash, Writes, Running
    <2>3. /\ file' \in Seq(Record) /\ tail' \in Seq(Record \cup {Torn})
          /\ collected' \subseteq Prompts /\ acked' \subseteq Prompts /\ tears' \in Nat
      BY <1>0, <2>2, WritesType DEF FileType, TypeOK, storeVars
    <2>. QED
      BY <1>6, <2>1, <2>3, Shrinking DEF Crash, TypeOK
  <1>7. CASE Rerun
    <2>1. Running' = Running
      BY <1>7 DEF Rerun, Running
    <2>2. Loaded \in Seq(Record)
      BY LoadedRange DEF FileType, TypeOK
    <2>3. PromptsOf(Loaded) \subseteq Prompts
      <3>1. \A i \in DOMAIN Loaded : Loaded[i] \in Record
        BY <2>2, ElementOfSeq
      <3>2. \A r \in Record : r.prompt \in Prompts
        BY DEF Record
      <3>. QED
        BY <3>1, <3>2 DEF PromptsOf, ToSet
    <2>4. run' \in 1 .. MaxRuns /\ next' \in 1 .. NumPrompts + 1
      BY <1>7, CollectorAssumption DEF Rerun, TypeOK
    <2>. QED
      BY <1>7, <2>1, <2>3, <2>4, Shrinking DEF Rerun, NewStore, TypeOK
  <1>8. CASE UNCHANGED vars
    BY <1>8 DEF vars, storeVars, TypeOK, Running
  <1>. QED
    BY <1>1, <1>2, <1>3, <1>4, <1>5, <1>6, <1>7, <1>8
    DEF Next, Program, Environment, Work, Calls

LEMMA NextWorker == TypeOK /\ WorkerInv /\ [Next]_vars => WorkerInv'
  <1>. SUFFICES ASSUME TypeOK, WorkerInv, [Next]_vars, NEW q \in Prompts
                PROVE  WorkerOk(q, workers[q])'
    BY DEF WorkerInv
  <1>0. /\ \A p \in Prompts : /\ WorkerOk(p, workers[p]) /\ Idle(p) \in Worker
                             /\ Idle(p).pc = "idle" /\ Idle(p).rec.prompt = p
        /\ workers \in [Prompts -> Worker] /\ next \in Nat
    BY IdleType DEF TypeOK, WorkerInv
  <1>1. CASE SkipCollected
    BY <1>0, <1>1 DEF SkipCollected, WorkerOk, Sound, Prompts
  <1>2. CASE Dispatch
    <2>1. CASE q = next
      <3>1. workers'[q] = [Idle(q) EXCEPT !.pc = "draft"]
        BY <1>0, <1>2, <2>1 DEF Dispatch
      <3>2. workers'[q].pc = "draft" /\ workers'[q].rec.prompt = q
        BY <1>0, <3>1 DEF Worker
      <3>. QED
        BY <1>0, <1>2, <2>1, <3>2 DEF Dispatch, InLoop, WorkerOk
    <2>2. CASE q # next
      <3>1. workers'[q] = workers[q]
        BY <1>0, <1>2, <2>2 DEF Dispatch
      <3>2. /\ q < next => q < next'
            /\ UNCHANGED <<main, cancelled, drafterOnly>>
        BY <1>0, <1>2, CollectorAssumption DEF Dispatch, Prompts
      <3>. QED
        BY <1>0, <3>1, <3>2 DEF WorkerOk, Sound
    <2>. QED
      BY <2>1, <2>2
  <1>3. CASE LeaveLoop
    BY <1>0, <1>3 DEF LeaveLoop, WorkerOk, Sound
  <1>4. CASE Exit
    BY <1>0, <1>4 DEF Exit, Running, WorkerOk, Sound
  <1>5. CASE Interrupt
    BY <1>0, <1>5 DEF Interrupt, WorkerOk, Sound
  <1>6. ASSUME NEW p \in Prompts, Calls(p) PROVE WorkerOk(q, workers[q])'
    <2>1. PICK w \in Worker : Step(p, w) /\ WorkerOk(p, w)
      BY <1>6, CallsOk
    <2>2. workers'[q] = IF q = p THEN w ELSE workers[q]
      BY <1>0, <2>1 DEF Step
    <2>. QED
      BY <1>0, <2>1, <2>2 DEF Step, Bystanders, WorkerOk, Sound
  <1>7. ASSUME NEW p \in Prompts, Store(p) PROVE WorkerOk(q, workers[q])'
    <2>1. workers'[q] = IF q = p THEN Idle(p) ELSE workers[q]
      BY <1>0, <1>7 DEF Store
    <2>. QED
      BY <1>0, <1>7, <2>1 DEF Store, Bystanders, WorkerOk, Sound
  <1>8. CASE Crash
    <2>1. workers'[q] = Idle(q)
      BY <1>8 DEF Crash
    <2>. QED
      BY <1>0, <2>1 DEF WorkerOk
  <1>9. CASE Rerun
    <2>1. workers'[q] = workers[q] /\ workers[q].pc = "idle"
      BY <1>0, <1>9 DEF Rerun, WorkerOk
    <2>. QED
      BY <1>0, <2>1 DEF WorkerOk
  <1>10. CASE UNCHANGED vars
    BY <1>0, <1>10 DEF vars, WorkerOk, Sound
  <1>. QED
    BY <1>1, <1>2, <1>3, <1>4, <1>5, <1>6, <1>7, <1>8, <1>9, <1>10
    DEF Next, Program, Environment, Work, Calls

-----------------------------------------------------------------------------
(***************************************************************************)
(* The records: what one step can do to those that readers find.           *)
(***************************************************************************)
LEMMA StepKind ==
  ASSUME TypeOK, WorkerInv, [Next]_vars
  PROVE  UNCHANGED <<file, tail, acked, tears>> \/ \E p \in Prompts : Written(p)
  <1>1. ASSUME NEW p \in Prompts, Calls(p) PROVE UNCHANGED storeVars
    BY <1>1, CallsOk DEF Step
  <1>2. ASSUME NEW p \in Prompts, Store(p) PROVE UNCHANGED storeVars \/ Written(p)
    BY <1>2 DEF Store, Written, Writes, AppendFails
  <1>3. CASE Crash
    BY <1>3 DEF Crash, Written, Writes, Running, storeVars
  <1>4. CASE Rerun
    BY <1>4 DEF Rerun, NewStore
  <1>5. CASE Program \/ Interrupt \/ UNCHANGED vars
    BY <1>5 DEF Program, SkipCollected, Dispatch, LeaveLoop, Exit, Interrupt, vars, storeVars
  <1>. QED
    BY <1>1, <1>2, <1>3, <1>4, <1>5 DEF Next, Environment, Work, Calls, storeVars

\* A record is written for a prompt that has none, and it is sound.
LEMMA WrittenRecord ==
  ASSUME TypeOK, WorkerInv, FreshInv, NEW p \in Prompts, Written(p)
  PROVE  LET rec == workers[p].rec
         IN  /\ rec \in Record /\ rec.prompt = p /\ Sound(rec)
             /\ p \notin PromptsOf(Loaded)
             /\ Loaded' = file \/ Loaded' = Append(file, rec)
  <1>1. workers[p] \in Worker /\ WorkerOk(p, workers[p]) /\ At(p, "append")
    BY DEF TypeOK, WorkerInv, Written
  <1>2. /\ workers[p].rec \in Record /\ workers[p].rec.prompt = p
        /\ Sound(workers[p].rec) /\ main # "exited"
    BY <1>1 DEF Worker, WorkerOk, Written, Failures
  <1>3. p \notin PromptsOf(Loaded)
    BY <1>1, <1>2 DEF FreshInv
  <1>4. Loaded' = file \/ Loaded' = Append(file, workers[p].rec)
    BY <1>2, WritesLoaded DEF Written, TypeOK, FileType
  <1>. QED
    BY <1>2, <1>3, <1>4

\* The prompts that readers find after a write.
LEMMA WrittenPrompts ==
  ASSUME TypeOK, WorkerInv, FreshInv, NEW p \in Prompts, Written(p)
  PROVE  PromptsOf(Loaded') \subseteq PromptsOf(Loaded) \cup {p}
  <1>1. PromptsOf(file) \subseteq PromptsOf(Loaded)
    BY LoadedRange DEF TypeOK, FileType, PromptsOf
  <1>2. PICK rec \in Record : rec.prompt = p /\ (Loaded' = file \/ Loaded' = Append(file, rec))
    BY WrittenRecord
  <1>3. ToSet(Append(file, rec)) = ToSet(file) \cup {rec}
    BY OneMore DEF TypeOK
  <1>. QED
    BY <1>1, <1>2, <1>3 DEF PromptsOf

LEMMA NextFresh == TypeOK /\ WorkerInv /\ FreshInv /\ [Next]_vars => FreshInv'
  <1>. SUFFICES ASSUME TypeOK, WorkerInv, FreshInv, [Next]_vars, main' # "exited", NEW q \in Prompts,
                       workers'[q].pc # "idle" \/ (q >= next' /\ q \notin collected')
                PROVE  q \notin PromptsOf(Loaded')
    BY DEF FreshInv, PromptsOf, ToSet
  <1>0. /\ workers \in [Prompts -> Worker] /\ next \in Nat /\ q \in Nat
        /\ WorkerOk(q, workers[q])
        /\ \A p \in Prompts : Idle(p).pc = "idle"
    BY CollectorAssumption, IdleType DEF TypeOK, WorkerInv, Prompts
  <1>1. CASE SkipCollected
    <2>1. UNCHANGED <<file, tail, workers, main, collected>> /\ next' = next + 1
      BY <1>1 DEF SkipCollected, storeVars
    <2>. QED
      BY <1>0, <2>1, NoWriteLoaded DEF FreshInv
  <1>2. CASE Dispatch
    <2>1. /\ UNCHANGED <<file, tail, main, collected>> /\ next' = next + 1 /\ next \notin collected
          /\ workers' = [workers EXCEPT ![next] = [Idle(next) EXCEPT !.pc = "draft"]]
      BY <1>2 DEF Dispatch, storeVars
    <2>2. q = next \/ workers'[q] = workers[q]
      BY <1>0, <2>1
    <2>. QED
      BY <1>0, <2>1, <2>2, NoWriteLoaded DEF FreshInv
  <1>3. CASE LeaveLoop \/ Interrupt \/ UNCHANGED vars
    <2>1. UNCHANGED <<file, tail, workers, next, collected>> /\ main # "exited"
      BY <1>3 DEF LeaveLoop, Interrupt, vars, storeVars
    <2>. QED
      BY <2>1, NoWriteLoaded DEF FreshInv
  <1>4. ASSUME NEW p \in Prompts, Calls(p) PROVE q \notin PromptsOf(Loaded')
    <2>1. PICK w \in Worker : Step(p, w) /\ ~At(p, "idle")
      BY <1>4, CallsOk
    <2>2. /\ UNCHANGED <<file, tail, main, next, collected>>
          /\ q = p \/ workers'[q] = workers[q]
      BY <1>0, <2>1 DEF Step, Bystanders, storeVars
    <2>. QED
      BY <2>1, <2>2, NoWriteLoaded DEF FreshInv
  <1>5. ASSUME NEW p \in Prompts, Store(p) PROVE q \notin PromptsOf(Loaded')
    <2>1. /\ UNCHANGED <<main, next>> /\ At(p, "append")
          /\ workers' = [workers EXCEPT ![p] = Idle(p)]
      BY <1>5 DEF Store, Bystanders
    <2>2. UNCHANGED storeVars \/ Written(p)
      BY <1>5 DEF Store, Written, Writes, AppendFails
    <2>3. collected \subseteq collected'
      BY <2>2 DEF Written, Writes, AppendOk, AppendUnsynced, AppendShort, storeVars
    <2>4. q # p
      BY <1>0, <2>1 DEF WorkerOk
    <2>5. q \notin PromptsOf(Loaded)
      BY <1>0, <2>1, <2>3, <2>4 DEF FreshInv
    <2>6. CASE UNCHANGED storeVars
      BY <2>5, <2>6, NoWriteLoaded DEF storeVars
    <2>7. CASE Written(p)
      BY <2>4, <2>5, <2>7, WrittenPrompts
    <2>. QED
      BY <2>2, <2>6, <2>7
  <1>6. CASE Rerun
    <2>1. UNCHANGED <<file, tail, workers>> /\ collected' = PromptsOf(Loaded) /\ main = "exited"
      BY <1>6 DEF Rerun, NewStore
    <2>2. workers'[q].pc = "idle"
      BY <1>0, <2>1 DEF WorkerOk
    <2>. QED
      BY <2>1, <2>2, NoWriteLoaded
  <1>7. ~Exit /\ ~Crash
    BY DEF Exit, Crash
  <1>. QED
    BY <1>1, <1>2, <1>3, <1>4, <1>5, <1>6, <1>7
    DEF Next, Program, Environment, Work, Calls

LEMMA NextNoDup ==
  TypeOK /\ WorkerInv /\ FreshInv /\ NoDuplicateRecords /\ [Next]_vars => NoDuplicateRecords'
  <1>. SUFFICES ASSUME TypeOK, WorkerInv, FreshInv, NoDuplicateRecords, [Next]_vars
                PROVE  NoDuplicateRecords'
    OBVIOUS
  <1>1. CASE UNCHANGED <<file, tail>>
    BY <1>1, NoWriteLoaded DEF NoDuplicateRecords
  <1>2. ASSUME NEW p \in Prompts, Written(p) PROVE NoDuplicateRecords'
    <2>1. \A i, j \in DOMAIN file : file[i].prompt = file[j].prompt => i = j
      BY LoadedRange DEF NoDuplicateRecords, TypeOK, FileType
    <2>2. \A i \in DOMAIN file : file[i].prompt # p
      <3>1. p \notin PromptsOf(Loaded)
        BY <1>2, WrittenRecord
      <3>. QED
        BY <3>1, LoadedRange DEF TypeOK, FileType, PromptsOf, ToSet
    <2>3. PICK rec \in Record : rec.prompt = p /\ (Loaded' = file \/ Loaded' = Append(file, rec))
      BY <1>2, WrittenRecord
    <2>4. CASE Loaded' = file
      BY <2>1, <2>4 DEF NoDuplicateRecords
    <2>5. CASE Loaded' = Append(file, rec)
      <3>. DEFINE s == Append(file, rec)
      <3>1. \A i \in DOMAIN s : (i \in DOMAIN file /\ s[i] = file[i]) \/ (i = Len(file) + 1 /\ s[i] = rec)
        BY OneMore DEF TypeOK
      <3>. HIDE DEF s
      <3>2. \A i, j \in DOMAIN s : s[i].prompt = s[j].prompt => i = j
        BY <2>1, <2>2, <2>3, <3>1
      <3>. QED
        BY <2>5, <3>2 DEF NoDuplicateRecords, s
    <2>. QED
      BY <2>3, <2>4, <2>5
  <1>. QED
    BY <1>1, <1>2, StepKind

LEMMA NextNoTrace ==
  TypeOK /\ WorkerInv /\ FreshInv /\ InterruptLeavesNoTrace /\ [Next]_vars => InterruptLeavesNoTrace'
  <1>. SUFFICES ASSUME TypeOK, WorkerInv, FreshInv, InterruptLeavesNoTrace, [Next]_vars
                PROVE  InterruptLeavesNoTrace'
    OBVIOUS
  <1>1. drafterOnly' = drafterOnly
    <2>1. ASSUME NEW p \in Prompts, Calls(p) PROVE UNCHANGED drafterOnly
      BY <2>1, CallsOk DEF Step, Bystanders
    <2>. QED
      BY <2>1 DEF Next, Program, Environment, Work, Calls, SkipCollected, Dispatch, LeaveLoop, Exit,
                  Interrupt, Crash, Rerun, Store, Bystanders, vars
  <1>2. CASE UNCHANGED <<file, tail>>
    BY <1>1, <1>2, NoWriteLoaded DEF InterruptLeavesNoTrace, Sound
  <1>3. ASSUME NEW p \in Prompts, Written(p) PROVE InterruptLeavesNoTrace'
    <2>1. PICK rec \in Record : Sound(rec) /\ (Loaded' = file \/ Loaded' = Append(file, rec))
      BY <1>3, WrittenRecord
    <2>2. ToSet(Append(file, rec)) = ToSet(file) \cup {rec} /\ ToSet(file) \subseteq ToSet(Loaded)
      BY OneMore, LoadedRange DEF TypeOK, FileType
    <2>. QED
      BY <1>1, <2>1, <2>2 DEF InterruptLeavesNoTrace, Sound
  <1>. QED
    BY <1>2, <1>3, StepKind

LEMMA NextLoss ==
  TypeOK /\ WorkerInv /\ FreshInv /\ LossInv /\ [Next]_vars => LossInv'
  <1>. SUFFICES ASSUME TypeOK, WorkerInv, FreshInv, LossInv, [Next]_vars PROVE LossInv'
    OBVIOUS
  <1>. DEFINE Lost == acked \ PromptsOf(file)
  <1>1. CASE UNCHANGED <<file, tail, acked, tears>>
    BY <1>1 DEF LossInv, PromptsOf, ToSet
  <1>2. ASSUME NEW p \in Prompts, Written(p) PROVE LossInv'
    <2>1. PICK rec \in Record : rec = workers[p].rec /\ rec.prompt = p /\ Writes(rec)
      BY <1>2, WrittenRecord DEF Written
    <2>2. IsFiniteSet(Lost) /\ Cardinality(Lost) \in Nat /\ tears \in Nat /\ file \in Seq(Record)
      BY FinitePrompts, FS_Subset, FS_CardinalityType DEF TypeOK
    <2>3. CASE AppendShort(rec)
      <3>1. tears' = tears + 1 /\ Lost' = Lost
        BY <2>3 DEF AppendShort, PromptsOf, ToSet
      <3>2. Cardinality(Lost) <= tears
        <4>1. CASE tail = <<>>
          BY <2>2, <4>1 DEF LossInv
        <4>2. CASE tail # <<>>
          <5>1. Cardinality(Lost) + 1 <= tears
            BY <4>2 DEF LossInv
          <5>. QED
            BY <2>2, <5>1
        <4>. QED
          BY <4>1, <4>2
      <3>3. Cardinality(Lost') = Cardinality(Lost)
        BY <3>1
      <3>. HIDE DEF Lost
      <3>4. Cardinality(Lost') + (IF tail' = <<>> THEN 0 ELSE 1) <= tears'
        BY <2>2, <3>1, <3>2, <3>3
      <3>. QED
        BY <3>4 DEF LossInv, Lost
    <2>4. CASE WriteLine(rec) /\ acked' \subseteq acked \cup {p}
      <3>1. tail' = <<>> /\ tears' = tears
        BY <2>4 DEF WriteLine
      <3>2. CASE tail = <<>>
        <4>1. file' = Append(file, rec)
          BY <2>4, <3>2 DEF WriteLine
        <4>2. PromptsOf(file') = PromptsOf(file) \cup {p}
          BY <2>1, <2>2, <4>1, OneMore DEF PromptsOf
        <4>3. Lost' \subseteq Lost
          BY <2>4, <4>2
        <4>4. Cardinality(Lost') <= Cardinality(Lost) /\ Cardinality(Lost') \in Nat
          BY <2>2, <4>3, FS_Subset, FS_CardinalityType
        <4>5. Cardinality(Lost) <= tears
          BY <2>2, <3>2 DEF LossInv
        <4>. QED
          BY <2>2, <3>1, <4>4, <4>5 DEF LossInv
      <3>3. CASE tail # <<>>
        <4>1. Lost' \subseteq Lost \cup {p}
          BY <2>4, <3>3 DEF WriteLine, PromptsOf, ToSet
        <4>2. Cardinality(Lost') <= Cardinality(Lost) + 1 /\ Cardinality(Lost') \in Nat
          BY <2>2, <4>1, OneElement
        <4>3. Cardinality(Lost) + 1 <= tears
          BY <3>3 DEF LossInv
        <4>. QED
          BY <2>2, <3>1, <4>2, <4>3 DEF LossInv
      <3>. QED
        BY <3>2, <3>3
    <2>. QED
      BY <2>1, <2>3, <2>4 DEF Writes, AppendOk, AppendUnsynced
  <1>. QED
    BY <1>1, <1>2, StepKind

-----------------------------------------------------------------------------
LEMMA InitInv == Init => IInv
  <1>. SUFFICES ASSUME Init PROVE IInv
    OBVIOUS
  <1>1. /\ file = <<>> /\ tail = <<>> /\ Loaded = <<>> /\ PromptsOf(Loaded) = {} /\ PromptsOf(file) = {}
    BY DEF Init, StoreInit, Loaded, IsRecord, PromptsOf, ToSet
  <1>2. workers \in [Prompts -> Worker] /\ \A p \in Prompts : workers[p] = Idle(p)
    BY IdleType DEF Init
  <1>3. Running = {} /\ Cardinality(Running) = 0
    BY <1>2, IdleType, FS_EmptySet DEF Running
  <1>4. TypeOK
    <2>1. file \in Seq(Record) /\ tail \in Seq(Record \cup {Torn})
      BY <1>1, EmptySeq
    <2>2. run \in 1 .. MaxRuns /\ next \in 1 .. NumPrompts + 1
      BY CollectorAssumption DEF Init
    <2>3. Cardinality(Running) <= Concurrency
      BY <1>3, CollectorAssumption
    <2>. QED
      BY <1>2, <2>1, <2>2, <2>3 DEF Init, StoreInit, TypeOK
  <1>5. WorkerInv
    BY <1>2, IdleType DEF WorkerInv, WorkerOk
  <1>6. FreshInv /\ NoDuplicateRecords /\ InterruptLeavesNoTrace
    BY <1>1 DEF FreshInv, NoDuplicateRecords, InterruptLeavesNoTrace, ToSet
  <1>7. acked \ PromptsOf(file) = {} /\ tears = 0
    BY DEF Init, StoreInit
  <1>8. LossInv
    BY <1>1, <1>7, FS_EmptySet DEF LossInv
  <1>. QED
    BY <1>4, <1>5, <1>6, <1>8 DEF IInv

\* IInv holds in every state: the types and the semaphore's bound, what each
\* worker's record can report at its place in Collect, that no prompt in work
\* has a record yet, and the accounts of the short writes.
THEOREM Inductive == Spec => []IInv
  <1>1. IInv /\ [Next]_vars => IInv'
    BY NextType, NextWorker, NextFresh, NextNoDup, NextNoTrace, NextLoss DEF IInv
  <1>. QED
    BY <1>1, InitInv, PTL DEF Spec

\* However often collect is interrupted, crashes or fails to write, and is
\* started again, LoadRecords never finds two records of one prompt.
THEOREM NoDuplicates == Spec => []NoDuplicateRecords
  <1>1. IInv => NoDuplicateRecords
    BY DEF IInv
  <1>. QED
    BY <1>1, Inductive, PTL

\* Each short write costs at most one of the records that Append reported as
\* written.
THEOREM LossBounded == Spec => []LossIsBounded
  <1>1. IInv => LossIsBounded
    <2>. SUFFICES ASSUME IInv PROVE LossIsBounded
      OBVIOUS
    <2>. DEFINE Lost == acked \ PromptsOf(file)
    <2>1. IsFiniteSet(Lost) /\ Cardinality(Lost) \in Nat /\ tears \in Nat
      BY FinitePrompts, FS_Subset, FS_CardinalityType DEF IInv, TypeOK
    <2>2. acked \ PromptsOf(Loaded) \subseteq Lost
      BY LoadedRange DEF IInv, TypeOK, FileType, PromptsOf
    <2>3. /\ Cardinality(acked \ PromptsOf(Loaded)) <= Cardinality(Lost)
          /\ Cardinality(acked \ PromptsOf(Loaded)) \in Nat
      BY <2>1, <2>2, FS_Subset, FS_CardinalityType
    <2>4. Cardinality(Lost) <= tears
      BY <2>1 DEF IInv, LossInv
    <2>. QED
      BY <2>1, <2>3, <2>4 DEF LossIsBounded
  <1>. QED
    BY <1>1, Inductive, PTL

\* An interrupt leaves neither an error it caused nor a draft it cut short in
\* the file (but for the drafts of -drafter-only).
THEOREM InterruptTraceless == Spec => []InterruptLeavesNoTrace
  <1>1. IInv => InterruptLeavesNoTrace
    BY DEF IInv
  <1>. QED
    BY <1>1, Inductive, PTL

-----------------------------------------------------------------------------
(***************************************************************************)
(* Nothing is forgotten.                                                   *)
(***************************************************************************)
\* A worker leaves Collect's calls only by GiveUp, which needs an interrupt.
LEMMA CallsStayInWork ==
  ASSUME TypeOK, WorkerInv, NEW p \in Prompts, Calls(p), ~cancelled
  PROVE  \E w \in Worker : Step(p, w) /\ w.pc # "idle"
  <1>. DEFINE v == workers[p]
  <1>1. v \in Worker /\ WorkerOk(p, v) /\ v.pc # "idle"
    BY CallsOk DEF TypeOK, WorkerInv, At
  <1>2. PICK w \in Worker : Step(p, w)
    BY CallsOk
  <1>3. workers'[p] = w
    BY <1>2 DEF TypeOK, Step
  <1>4. w.pc # "idle"
    <2>0. \A u \in Worker : Step(p, u) => u = w
      BY <1>3 DEF TypeOK, Step
    <2>1. ASSUME NEW e, Step(p, Fail(v, e)) PROVE w.pc # "idle"
      <3>1. workers'[p] = Fail(v, e)
        BY <2>1 DEF TypeOK, Step
      <3>. QED
        BY <1>1, <1>3, <3>1 DEF Fail, Worker
    <2>2. CASE OpenDraft(p)
      <3>1. CASE Step(p, [v EXCEPT !.pc = "read"])
        BY <1>1, <1>3, <3>1 DEF TypeOK, Step, Worker
      <3>. QED
        BY <2>1, <2>2, <3>1 DEF OpenDraft
    <2>3. CASE ReadDraft(p)
      <3>1. ASSUME NEW d, NEW u, u = [v EXCEPT !.rec.reports = d],
                   Step(p, IF drafterOnly THEN Complete(u) ELSE [u EXCEPT !.pc = "heavy"])
            PROVE  w.pc # "idle"
        BY <1>1, <1>3, <3>1 DEF TypeOK, Step, Worker, Record, Complete
      <3>. QED
        BY <2>1, <2>3, <3>1 DEF ReadDraft
    <2>4. CASE AskHeavy(p)
      <3>1. CASE Step(p, IF p \in Exact THEN Complete(v)
                         ELSE [v EXCEPT !.pc = "judge", !.reasked = FALSE])
        BY <1>1, <1>3, <3>1 DEF TypeOK, Step, Worker, Complete
      <3>. QED
        BY <2>1, <2>4, <3>1 DEF AskHeavy
    <2>5. CASE AskJudge(p)
      <3>1. CASE Step(p, Complete(v)) \/ Step(p, [v EXCEPT !.reasked = TRUE])
        BY <1>1, <1>3, <2>5, <3>1 DEF AskJudge, At, TypeOK, Step, Worker, Complete
      <3>. QED
        BY <2>1, <2>5, <3>1 DEF AskJudge
    <2>6. CASE Retry(p)
      <3>1. Idle(p) \in Worker
        BY IdleType
      <3>2. workers'[p] = [Idle(p) EXCEPT !.pc = "draft", !.retry = v.retry + 1]
        BY <2>6 DEF TypeOK, Retry, Step
      <3>. QED
        BY <1>3, <3>1, <3>2 DEF Worker
    <2>7. ~GiveUp(p)
      BY DEF GiveUp
    <2>. QED
      BY <2>2, <2>3, <2>4, <2>5, <2>6, <2>7 DEF Calls
  <1>. QED
    BY <1>2, <1>4

LEMMA NextCover == IInv /\ CoverInv /\ [Next]_vars => CoverInv'
  <1>. SUFFICES ASSUME IInv, CoverInv, [Next]_vars, ~cancelled', ~disturbed'
                PROVE  CoverInv'
    BY DEF CoverInv
  <1>0. /\ TypeOK /\ WorkerInv /\ workers \in [Prompts -> Worker]
        /\ next \in 1 .. NumPrompts + 1 /\ NumPrompts \in Nat
        /\ \A p \in Prompts : WorkerOk(p, workers[p]) /\ Idle(p).pc = "idle" /\ Idle(p) \in Worker
        /\ main \in {"loop", "wait", "exited"}
    BY IdleType, CollectorAssumption DEF IInv, TypeOK, WorkerInv
  <1>1. CASE SkipCollected
    <2>1. /\ UNCHANGED <<collected, workers, main, cancelled, disturbed>> /\ main = "loop"
          /\ next' = next + 1 /\ next \in collected
      BY <1>1 DEF SkipCollected, InLoop, storeVars
    <2>2. \A p \in Prompts : p < next' => p < next \/ p = next
      BY <1>0, <2>1 DEF Prompts
    <2>. QED
      BY <2>1, <2>2 DEF CoverInv, At
  <1>2. CASE Dispatch
    <2>1. /\ UNCHANGED <<collected, main, cancelled, disturbed>> /\ main = "loop"
          /\ next' = next + 1 /\ next \in Prompts
          /\ workers' = [workers EXCEPT ![next] = [Idle(next) EXCEPT !.pc = "draft"]]
      BY <1>0, <1>2 DEF Dispatch, InLoop, storeVars, Prompts
    <2>2. \A p \in Prompts : p < next' => p < next \/ p = next
      BY <1>0, <2>1 DEF Prompts
    <2>3. workers'[next].pc = "draft" /\ \A p \in Prompts \ {next} : workers'[p] = workers[p]
      BY <1>0, <2>1 DEF Worker
    <2>. QED
      BY <2>1, <2>2, <2>3 DEF CoverInv, At
  <1>3. CASE LeaveLoop
    BY <1>3 DEF LeaveLoop, CoverInv, At, storeVars
  <1>4. CASE Exit
    <2>1. /\ UNCHANGED <<collected, cancelled, disturbed, next>>
          /\ main = "wait" /\ main' = "exited" /\ \A p \in Prompts : At(p, "idle")
      BY <1>4 DEF Exit, storeVars, Running
    <2>2. \A p \in Prompts : p < next
      BY <1>0, <2>1 DEF CoverInv, Prompts
    <2>. QED
      BY <2>1, <2>2 DEF CoverInv
  <1>5. ASSUME NEW p \in Prompts, Calls(p) PROVE CoverInv'
    <2>1. UNCHANGED <<collected, main, next, cancelled, disturbed>>
      BY <1>0, <1>5, CallsOk DEF Step, Bystanders, storeVars
    <2>2. PICK w \in Worker : Step(p, w) /\ w.pc # "idle"
      BY <1>0, <1>5, <2>1, CallsStayInWork
    <2>3. workers'[p].pc # "idle" /\ \A q \in Prompts \ {p} : workers'[q] = workers[q]
      BY <1>0, <2>2 DEF Step
    <2>. QED
      BY <2>1, <2>3 DEF CoverInv, At
  <1>6. ASSUME NEW p \in Prompts, Store(p) PROVE CoverInv'
    <2>1. /\ UNCHANGED <<main, next, cancelled>> /\ main # "exited"
          /\ \A q \in Prompts \ {p} : workers'[q] = workers[q]
      BY <1>0, <1>6 DEF Store, Bystanders, WorkerOk, At
    <2>2. AppendOk(workers[p].rec) /\ UNCHANGED disturbed
      BY <1>6 DEF Store
    <2>3. collected' = collected \cup {p}
      BY <1>0, <2>2 DEF AppendOk, WorkerOk
    <2>. QED
      BY <2>1, <2>2, <2>3 DEF CoverInv, At
  <1>7. CASE Rerun
    <2>1. next' = 1 /\ main' = "loop"
      BY <1>7 DEF Rerun
    <2>2. \A p \in Prompts : ~(p < next')
      BY <1>0, <2>1 DEF Prompts
    <2>. QED
      BY <2>1, <2>2 DEF CoverInv
  <1>8. ~Interrupt /\ ~Crash
    BY DEF Interrupt, Crash
  <1>9. CASE UNCHANGED vars
    BY <1>9 DEF vars, storeVars, CoverInv, At
  <1>. QED
    BY <1>1, <1>2, <1>3, <1>4, <1>5, <1>6, <1>7, <1>8, <1>9
    DEF Next, Program, Environment, Work, Calls

\* A run that nobody interrupted and whose writes worked ends with a record of
\* every selected prompt, for any number of prompts, workers and retries and
\* whatever earlier runs left behind: no prompt is lost between the loop, the
\* semaphore, the retries and the store.
THEOREM UndisturbedRunsCollectAll == Spec => []UndisturbedRunCollectsAll
  <1>1. Init => CoverInv
    <2>1. Init => \A p \in Prompts : ~(p < next)
      BY CollectorAssumption DEF Init, Prompts
    <2>. QED
      BY <2>1 DEF Init, CoverInv
  <1>2. IInv /\ CoverInv => UndisturbedRunCollectsAll
    BY DEF IInv, TypeOK, CoverInv, UndisturbedRunCollectsAll
  <1>3. IInv /\ CoverInv /\ [Next]_vars => CoverInv'
    BY NextCover
  <1>. QED
    BY <1>1, <1>2, <1>3, Inductive, PTL DEF Spec

=============================================================================
