----------------------------- MODULE SemanticCache -----------------------------
(***************************************************************************)
(* internal/cache/store.go: VectorStore keeps a response in a key-value    *)
(* store (Redis) under a fresh id and a point with the same id in a vector *)
(* index (Qdrant).  Its three operations run concurrently, on request      *)
(* goroutines and on the insert goroutines of the handler, and nothing     *)
(* makes their calls to the two stores atomic: each call is a step, may    *)
(* fail, and may have taken effect although it failed (a timeout).         *)
(*                                                                         *)
(* The index acknowledges a write before it is visible to searches (the    *)
(* client sends no wait=true) and applies writes in the order it           *)
(* acknowledged them.                                                      *)
(***************************************************************************)
EXTENDS Naturals, Sequences

CONSTANTS
    Ops,          \* the goroutines that may be inside the store
    Ids,          \* the ids generateUUID can return
    Prompts,      \* the key texts buildKeyText makes of a conversation
    Score,        \* Score[q][p]: the similarity of the two key texts' embeddings
    SimThreshold, \* cache.similarity_threshold
    None,         \* no entry, no point, no prompt
    MaxBacklog    \* bound on the index writes not applied yet

ASSUME CacheAssumption ==
    /\ None \notin Prompts \cup Ids
    /\ Score \in [Prompts -> [Prompts -> Nat]]
    /\ SimThreshold \in Nat
    /\ MaxBacklog \in Nat

VARIABLES
    kv,        \* the prompt each id's stored response answers
    index,     \* the prompt each id's visible point embeds
    backlog,   \* the index writes acknowledged and not visible yet
    ops,       \* what each goroutine is doing
    used,      \* the ids generateUUID has returned
    seen,      \* the ids that have been visible in the index, which an operator can name
    stored,    \* history: the ids whose Insert returned nil
    dropped,   \* history: the ids that expired or that some Evict asked to remove
    evicted    \* history: the ids whose Evict returned nil

vars == <<kv, index, backlog, ops, used, seen, stored, dropped, evicted>>

PCs == {"idle", "lkEmbed", "lkSearch", "lkGet", "lkClean", "hit",
        "inEmbed", "inSet", "inUpsert", "inUndo", "evIndex", "evKv"}
Resting == {"idle", "hit"}

Write == [id : Ids, point : Prompts \cup {None}]   \* an upsert, or a delete

Op(pc, q, i) == [pc |-> pc, prompt |-> q, id |-> i, served |-> None]

Init ==
    /\ kv = [i \in Ids |-> None]
    /\ index = [i \in Ids |-> None]
    /\ backlog = <<>>
    /\ ops = [o \in Ops |-> Op("idle", None, None)]
    /\ used = {} /\ seen = {} /\ stored = {} /\ dropped = {} /\ evicted = {}

Pending == {backlog[k] : k \in 1 .. Len(backlog)}

history == <<used, seen, stored, dropped, evicted>>

At(o, pc) == ops[o].pc = pc
Goto(o, pc) == ops' = [ops EXCEPT ![o].pc = pc]

\* The operation returns; what it was called with is forgotten.
Quit(o) == ops' = [ops EXCEPT ![o] = Op("idle", None, None)]

\* The next step after a call, or the error return.
Proceed(o, call, pc) == IF call.ok THEN Goto(o, pc) ELSE Quit(o)

-----------------------------------------------------------------------------
\* A call to a store either succeeds, or fails without effect or with it.
Outcome == {[ok |-> TRUE, effect |-> TRUE], [ok |-> FALSE, effect |-> FALSE],
            [ok |-> FALSE, effect |-> TRUE]}

IndexWrite(id, point, call) ==
    IF call.effect
    THEN /\ Len(backlog) < MaxBacklog
         /\ backlog' = Append(backlog, [id |-> id, point |-> point])
    ELSE UNCHANGED backlog

KvWrite(id, value, call) ==
    kv' = IF call.effect THEN [kv EXCEPT ![id] = value] ELSE kv

\* The points a search for prompt q may return as its one hit.
Nearest(q) ==
    {i \in Ids : /\ index[i] # None
                 /\ Score[q][index[i]] >= SimThreshold
                 /\ \A j \in Ids : index[j] # None => Score[q][index[j]] <= Score[q][index[i]]}

-----------------------------------------------------------------------------
StartLookup(o, q) ==
    /\ ops[o].pc \in Resting
    /\ ops' = [ops EXCEPT ![o] = Op("lkEmbed", q, None)]
    /\ UNCHANGED <<kv, index, backlog, history>>

LookupEmbed(o) ==
    /\ At(o, "lkEmbed")
    /\ Goto(o, "lkSearch") \/ Quit(o)
    /\ UNCHANGED <<kv, index, backlog, history>>

\* Mutant of LookupSearch: the hit of the index is taken whatever its score.
SearchAnyScore(o) ==
    /\ At(o, "lkSearch")
    /\ \/ \E i \in Ids :
            /\ index[i] # None
            /\ ops' = [ops EXCEPT ![o].pc = "lkGet", ![o].id = i]
       \/ Quit(o)
    /\ UNCHANGED <<kv, index, backlog, history>>

LookupSearch(o) ==
    /\ At(o, "lkSearch")
    /\ \/ \E i \in Nearest(ops[o].prompt) :
            ops' = [ops EXCEPT ![o].pc = "lkGet", ![o].id = i]
       \/ Nearest(ops[o].prompt) = {} /\ Quit(o)
       \/ Quit(o)
    /\ UNCHANGED <<kv, index, backlog, history>>

\* Mutant of LookupGet: a failed Get is taken for an orphaned point.
GetErrorIsOrphan(o) ==
    /\ At(o, "lkGet")
    /\ \/ /\ kv[ops[o].id] # None
          /\ ops' = [ops EXCEPT ![o].pc = "hit", ![o].served = kv[ops[o].id]]
       \/ Goto(o, "lkClean")
    /\ UNCHANGED <<kv, index, backlog, history>>

LookupGet(o) ==
    /\ At(o, "lkGet")
    /\ \/ /\ kv[ops[o].id] # None
          /\ ops' = [ops EXCEPT ![o].pc = "hit", ![o].served = kv[ops[o].id]]
       \/ kv[ops[o].id] = None /\ Goto(o, "lkClean")
       \/ Quit(o)
    /\ UNCHANGED <<kv, index, backlog, history>>

\* The orphaned point is deleted; a failure is only logged.
LookupClean(o) ==
    /\ At(o, "lkClean")
    /\ \E call \in Outcome : IndexWrite(ops[o].id, None, call)
    /\ Quit(o)
    /\ UNCHANGED <<kv, index, history>>

-----------------------------------------------------------------------------
StartInsert(o, p) ==
    /\ ops[o].pc \in Resting
    /\ ops' = [ops EXCEPT ![o] = Op("inEmbed", p, None)]
    /\ UNCHANGED <<kv, index, backlog, history>>

InsertEmbed(o) ==
    /\ At(o, "inEmbed")
    /\ \/ \E i \in Ids \ used :
            /\ ops' = [ops EXCEPT ![o].pc = "inSet", ![o].id = i]
            /\ used' = used \cup {i}
       \/ Quit(o) /\ UNCHANGED used
    /\ UNCHANGED <<kv, index, backlog, seen, stored, dropped, evicted>>

InsertSet(o) ==
    /\ At(o, "inSet")
    /\ \E call \in Outcome :
          /\ KvWrite(ops[o].id, ops[o].prompt, call)
          /\ Proceed(o, call, "inUpsert")
    /\ UNCHANGED <<index, backlog, history>>

\* Mutant of InsertUpsert: a failed upsert is reported as a success.
UpsertErrorIgnored(o) ==
    /\ At(o, "inUpsert")
    /\ \E call \in Outcome : IndexWrite(ops[o].id, ops[o].prompt, call)
    /\ Quit(o)
    /\ stored' = stored \cup {ops[o].id}
    /\ UNCHANGED <<kv, index, used, seen, dropped, evicted>>

InsertUpsert(o) ==
    /\ At(o, "inUpsert")
    /\ \E call \in Outcome :
          /\ IndexWrite(ops[o].id, ops[o].prompt, call)
          /\ IF call.ok THEN Quit(o) ELSE Goto(o, "inUndo")
          /\ stored' = IF call.ok THEN stored \cup {ops[o].id} ELSE stored
    /\ UNCHANGED <<kv, index, used, seen, dropped, evicted>>

\* The entry of a failed upsert is removed; the result of Del is ignored.
InsertUndo(o) ==
    /\ At(o, "inUndo")
    /\ \E call \in Outcome : KvWrite(ops[o].id, None, call)
    /\ Quit(o)
    /\ UNCHANGED <<index, backlog, history>>

-----------------------------------------------------------------------------
StartEvict(o, i) ==
    /\ ops[o].pc \in Resting
    /\ ops' = [ops EXCEPT ![o] = Op("evIndex", None, i)]
    /\ dropped' = dropped \cup {i}
    /\ UNCHANGED <<kv, index, backlog, used, seen, stored, evicted>>

EvictIndex(o) ==
    /\ At(o, "evIndex")
    /\ \E call \in Outcome :
          /\ IndexWrite(ops[o].id, None, call)
          /\ Proceed(o, call, "evKv")
    /\ UNCHANGED <<kv, index, history>>

\* Mutant of EvictKv: deleting the point is thought to be enough.
EvictPointOnly(o) ==
    /\ At(o, "evKv")
    /\ Quit(o)
    /\ evicted' = evicted \cup {ops[o].id}
    /\ UNCHANGED <<kv, index, backlog, used, seen, stored, dropped>>

EvictKv(o) ==
    /\ At(o, "evKv")
    /\ \E call \in Outcome :
          /\ KvWrite(ops[o].id, None, call)
          /\ Quit(o)
          /\ evicted' = IF call.ok THEN evicted \cup {ops[o].id} ELSE evicted
    /\ UNCHANGED <<index, backlog, used, seen, stored, dropped>>

-----------------------------------------------------------------------------
\* The oldest acknowledged index write becomes visible.
Apply ==
    /\ backlog # <<>>
    /\ LET w == Head(backlog)
       IN  /\ index' = [index EXCEPT ![w.id] = w.point]
           /\ seen' = IF w.point = None THEN seen ELSE seen \cup {w.id}
    /\ backlog' = Tail(backlog)
    /\ UNCHANGED <<kv, ops, used, stored, dropped, evicted>>

\* The TTL of an entry runs out.
Expire(i) ==
    /\ kv[i] # None
    /\ kv' = [kv EXCEPT ![i] = None]
    /\ dropped' = dropped \cup {i}
    /\ UNCHANGED <<index, backlog, ops, used, seen, stored, evicted>>

\* The gateway stops or crashes: the goroutines inside the store are lost
\* (Shutdown does not wait for the insert goroutines), the stores stay.
Crash ==
    /\ \E o \in Ops : ops[o].pc \notin Resting
    /\ ops' = [o \in Ops |-> Op("idle", None, None)]
    /\ UNCHANGED <<kv, index, backlog, history>>

Lookup(o) == LookupEmbed(o) \/ LookupSearch(o) \/ LookupGet(o) \/ LookupClean(o)
Insert(o) == InsertEmbed(o) \/ InsertSet(o) \/ InsertUpsert(o) \/ InsertUndo(o)
Evict(o) == EvictIndex(o) \/ EvictKv(o)

Next ==
    \/ \E o \in Ops :
          \/ \E q \in Prompts : StartLookup(o, q) \/ StartInsert(o, q)
          \/ \E i \in seen : StartEvict(o, i)
          \/ Lookup(o) \/ Insert(o) \/ Evict(o)
    \/ Apply
    \/ \E i \in Ids : Expire(i)
    \/ Crash

Spec == Init /\ [][Next]_vars

-----------------------------------------------------------------------------
OpState == [pc : PCs, prompt : Prompts \cup {None}, id : Ids \cup {None},
            served : Prompts \cup {None}]

Named == {"lkGet", "lkClean", "hit", "inSet", "inUpsert", "inUndo", "evIndex", "evKv"}
Asking == PCs \ {"idle", "evIndex", "evKv"}

\* Each operation holds the prompt or the id its next call needs.
TypeOK ==
    /\ kv \in [Ids -> Prompts \cup {None}]
    /\ index \in [Ids -> Prompts \cup {None}]
    /\ backlog \in Seq(Write)
    /\ ops \in [Ops -> OpState]
    /\ \A o \in Ops : /\ ops[o].pc \in Named => ops[o].id \in Ids
                      /\ ops[o].pc \in Asking => ops[o].prompt \in Prompts
                      /\ ops[o].pc = "hit" => ops[o].served \in Prompts
    /\ used \subseteq Ids /\ seen \subseteq Ids /\ stored \subseteq Ids
    /\ dropped \subseteq Ids /\ evicted \subseteq Ids

\* What a lookup serves answers a prompt similar to the one asked, whatever
\* became of the point and the entry between its search and its read.
HitIsSimilar ==
    \A o \in Ops : At(o, "hit") => Score[ops[o].prompt][ops[o].served] >= SimThreshold

\* Lookup deletes a point only when its entry is gone for good: the entry of
\* a concurrent Insert, Expire or Evict can not appear between Lookup's read
\* of the key-value store and its delete.
CleanupFindsNoEntry ==
    \A o \in Ops : At(o, "lkClean") => kv[ops[o].id] = None

\* An entry whose Insert returned nil keeps its response, and its point is or
\* will be visible, until it expires or someone asks to evict it: neither the
\* clean-up of lookups nor the undo of another insert takes it away.
StoredStaysServable ==
    \A i \in stored \ dropped :
        /\ kv[i] # None
        /\ index[i] # None \/ \E w \in Pending : w.id = i
        /\ \A w \in Pending : w.id = i => w.point # None

\* After an eviction that was reported successful no lookup reads the entry
\* any more, although its point may still be visible in the index.
NoHitAfterEvict ==
    [][\A o \in Ops : At(o, "lkGet") /\ ops'[o].pc = "hit" => ops[o].id \notin evicted]_vars

-----------------------------------------------------------------------------
(***************************************************************************)
(* The inductive invariant behind the safety properties: an id is written  *)
(* by one insert, entry first and point second, and is out of everybody    *)
(* else's sight until its point is acknowledged.                           *)
(***************************************************************************)
HeldByOthers(o) == {ops[p].id : p \in Ops \ {o}}

UnusedIsNowhere ==
    \A i \in Ids \ used :
        /\ kv[i] = None /\ index[i] = None
        /\ \A w \in Pending : w.id # i
        /\ \A o \in Ops : ops[o].id # i
        /\ i \notin seen \cup stored \cup dropped \cup evicted

HiddenUntilUpsert ==
    \A o \in Ops : ops[o].pc \in {"inSet", "inUpsert"} =>
        /\ index[ops[o].id] = None
        /\ \A w \in Pending : w.id # ops[o].id
        /\ ops[o].id \notin seen \cup evicted \cup HeldByOthers(o)
        /\ IF At(o, "inSet")
           THEN kv[ops[o].id] = None /\ ops[o].id \notin dropped
           ELSE kv[ops[o].id] # None \/ ops[o].id \in dropped

InsertOwnsItsId ==
    \A o \in Ops : ops[o].pc \in {"inSet", "inUpsert", "inUndo"} =>
        ops[o].id \in used \ stored

EvictionIsMarked ==
    \A o \in Ops : ops[o].pc \in {"evIndex", "evKv"} => ops[o].id \in dropped

\* The entry of an id whose Evict returned nil never comes back, although the
\* eviction raced with lookups, clean-ups, expiry and the insert's own undo.
EvictedStaysGone == \A i \in evicted : kv[i] = None

IInv ==
    /\ TypeOK
    /\ UnusedIsNowhere
    /\ HiddenUntilUpsert
    /\ InsertOwnsItsId
    /\ EvictionIsMarked
    /\ CleanupFindsNoEntry
    /\ StoredStaysServable
    /\ EvictedStaysGone

(***************************************************************************)
(* Behind HitIsSimilar: whatever the two stores, the writes on their way   *)
(* and the inserts say of an id, they say one prompt, so the score of the  *)
(* search still stands when the entry is read.                             *)
(***************************************************************************)
Inserting == {"inSet", "inUpsert", "inUndo"}

Tells(i) ==
    ({kv[i], index[i]}
       \cup {w.point : w \in {v \in Pending : v.id = i}}
       \cup {ops[o].prompt : o \in {p \in Ops : ops[p].pc \in Inserting /\ ops[p].id = i}})
    \ {None}

OnePromptPerId == \A i \in Ids : \A a, b \in Tells(i) : a = b

ReadIsSimilar ==
    \A o \in Ops : At(o, "lkGet") =>
        \A a \in Tells(ops[o].id) : Score[ops[o].prompt][a] >= SimThreshold

SimInv == OnePromptPerId /\ ReadIsSimilar /\ HitIsSimilar

=============================================================================
