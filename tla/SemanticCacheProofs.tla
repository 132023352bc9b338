-------------------------- MODULE SemanticCacheProofs --------------------------
(***************************************************************************)
(* Proofs about the semantic cache for any number of goroutines, ids and   *)
(* prompts, any similarity and any backlog.                                *)
(***************************************************************************)
EXTENDS SemanticCache, SequenceTheorems, TLAPS

\* An index write adds itself to the pending writes, or it had no effect.
LEMMA IndexWriteAdds ==
    ASSUME TypeOK, NEW i \in Ids, NEW w \in Prompts \cup {None}, NEW call \in Outcome,
           IndexWrite(i, w, call)
    PROVE  /\ backlog' \in Seq(Write)
           /\ Pending' \in {Pending, Pending \cup {[id |-> i, point |-> w]}}
           /\ call.ok => Pending' = Pending \cup {[id |-> i, point |-> w]}
<1> DEFINE r == [id |-> i, point |-> w]
<1>1. r \in Write
  BY DEF Write
<1>2. backlog \in Seq(Write)
  BY DEF TypeOK
<1>3. CASE call.effect
  <2>1. backlog' = Append(backlog, r)
    BY <1>3 DEF IndexWrite
  <2>2. /\ backlog' \in Seq(Write)
        /\ Len(backlog') = Len(backlog) + 1
        /\ \A k \in 1 .. Len(backlog) : backlog'[k] = backlog[k]
        /\ backlog'[Len(backlog) + 1] = r
    BY <1>1, <1>2, <2>1, AppendProperties
  <2>3. Len(backlog) \in Nat
    BY <1>2
  <2>4. 1 .. Len(backlog') = (1 .. Len(backlog)) \cup {Len(backlog) + 1}
    BY <2>2, <2>3
  <2>5. Pending' = Pending \cup {r}
    BY <2>2, <2>3, <2>4 DEF Pending
  <2>. QED
    BY <2>2, <2>5
<1>4. CASE ~call.effect
  <2>1. backlog' = backlog
    BY <1>4 DEF IndexWrite
  <2>2. Pending' = Pending
    BY <2>1 DEF Pending
  <2>3. ~call.ok
    BY <1>4 DEF Outcome
  <2>. QED
    BY <1>2, <2>1, <2>2, <2>3
<1>. QED
  BY <1>3, <1>4

\* Applying the oldest write takes it, and at most it, out of the pending ones.
LEMMA ApplyTakesHead ==
    ASSUME TypeOK, Apply
    PROVE  /\ backlog' \in Seq(Write)
           /\ Head(backlog) \in Pending
           /\ Head(backlog) \in Write
           /\ Pending' \subseteq Pending
           /\ Pending \subseteq Pending' \cup {Head(backlog)}
<1>1. backlog \in Seq(Write) /\ backlog # <<>> /\ backlog' = Tail(backlog)
  BY DEF TypeOK, Apply
<1>2. /\ Head(backlog) \in Write
      /\ Tail(backlog) \in Seq(Write)
      /\ Len(Tail(backlog)) = Len(backlog) - 1
      /\ \A k \in 1 .. Len(Tail(backlog)) : Tail(backlog)[k] = backlog[k + 1]
  BY <1>1, HeadTailProperties
<1>3. Len(backlog) \in Nat \ {0} /\ Head(backlog) = backlog[1]
  BY <1>1
<1>4. Head(backlog) \in Pending
  BY <1>3 DEF Pending
<1>5. Pending' \subseteq Pending
  BY <1>1, <1>2, <1>3 DEF Pending
<1>6. ASSUME NEW k \in 1 .. Len(backlog)
      PROVE  backlog[k] \in Pending' \cup {Head(backlog)}
  <2>1. CASE k = 1
    BY <1>3, <2>1
  <2>2. CASE k # 1
    <3>1. k - 1 \in 1 .. Len(Tail(backlog)) /\ Tail(backlog)[k - 1] = backlog[k]
      BY <1>2, <1>3, <2>2
    <3>. QED
      BY <1>1, <3>1 DEF Pending
  <2>. QED
    BY <2>1, <2>2
<1>. QED
  BY <1>1, <1>2, <1>4, <1>5, <1>6 DEF Pending

LEMMA PendingType == TypeOK => Pending \subseteq Write
BY ElementOfSeq DEF TypeOK, Pending

LEMMA InitType == Init => TypeOK
<1> SUFFICES ASSUME Init PROVE TypeOK
  OBVIOUS
<1>1. backlog \in Seq(Write)
  BY DEF Init
<1>. QED
  BY <1>1 DEF Init, TypeOK, OpState, Op, PCs, Named, Asking

\* A step that changes at most the backlog of the stores and one operation.
LEMMA KvWriteType ==
    ASSUME TypeOK, NEW i \in Ids, NEW w \in Prompts \cup {None}, NEW call \in Outcome,
           KvWrite(i, w, call)
    PROVE  /\ kv' \in [Ids -> Prompts \cup {None}]
           /\ \A j \in Ids : j # i => kv'[j] = kv[j]
           /\ kv'[i] \in {kv[i], w}
           /\ call.ok => kv'[i] = w
BY DEF TypeOK, KvWrite, Outcome

\* Every step keeps the types: one case per action of Next.
LEMMA NextType == TypeOK /\ [Next]_vars => TypeOK'
<1> SUFFICES ASSUME TypeOK, [Next]_vars PROVE TypeOK'
  OBVIOUS
<1> USE
DEF At, Goto, Quit, Op, Proceed, OpState, PCs, Named, Asking, Resting, history
<1>1. ASSUME NEW o \in Ops, NEW q \in Prompts, StartLookup(o, q) PROVE TypeOK'
  BY <1>1 DEF TypeOK, StartLookup
<1>2. ASSUME NEW o \in Ops, NEW q \in Prompts, StartInsert(o, q) PROVE TypeOK'
  BY <1>2 DEF TypeOK, StartInsert
<1>3. ASSUME NEW o \in Ops, NEW i \in seen, StartEvict(o, i) PROVE TypeOK'
  BY <1>3 DEF TypeOK, StartEvict
<1>4. ASSUME NEW o \in Ops, LookupEmbed(o) PROVE TypeOK'
  BY <1>4 DEF TypeOK, LookupEmbed
<1>5. ASSUME NEW o \in Ops, LookupSearch(o) PROVE TypeOK'
  BY <1>5 DEF TypeOK, LookupSearch, Nearest
<1>6. ASSUME NEW o \in Ops, LookupGet(o) PROVE TypeOK'
  BY <1>6 DEF TypeOK, LookupGet
<1>7. ASSUME NEW o \in Ops, LookupClean(o) PROVE TypeOK'
  <2>1. PICK call \in Outcome : IndexWrite(ops[o].id, None, call)
    BY <1>7 DEF LookupClean
  <2>2. ops[o].id \in Ids
    BY <1>7 DEF TypeOK, LookupClean
  <2>. QED
    BY <1>7, <2>1, <2>2, IndexWriteAdds DEF TypeOK, LookupClean
<1>8. ASSUME NEW o \in Ops, InsertEmbed(o) PROVE TypeOK'
  BY <1>8 DEF TypeOK, InsertEmbed
<1>9. ASSUME NEW o \in Ops, InsertSet(o) PROVE TypeOK'
  <2>1. PICK call \in Outcome :
          KvWrite(ops[o].id, ops[o].prompt, call) /\ Proceed(o, call, "inUpsert")
    BY <1>9 DEF InsertSet
  <2>2. ops[o].id \in Ids /\ ops[o].prompt \in Prompts
    BY <1>9 DEF TypeOK, InsertSet
  <2>3. kv' \in [Ids -> Prompts \cup {None}]
    BY <2>1, <2>2, KvWriteType
  <2>. QED
    BY <1>9, <2>1, <2>2, <2>3 DEF TypeOK, InsertSet
<1>10. ASSUME NEW o \in Ops, InsertUpsert(o) PROVE TypeOK'
  <2>1. PICK call \in Outcome :
          /\ IndexWrite(ops[o].id, ops[o].prompt, call)
          /\ IF call.ok THEN Quit(o) ELSE Goto(o, "inUndo")
          /\ stored' = IF call.ok THEN stored \cup {ops[o].id} ELSE stored
    BY <1>10 DEF InsertUpsert
  <2>2. ops[o].id \in Ids /\ ops[o].prompt \in Prompts
    BY <1>10 DEF TypeOK, InsertUpsert
  <2>3. backlog' \in Seq(Write)
    BY <2>1, <2>2, IndexWriteAdds
  <2>. QED
    <3>1. CASE call.ok
      BY <1>10, <2>1, <2>2, <2>3, <3>1 DEF TypeOK, InsertUpsert
    <3>2. CASE ~call.ok
      BY <1>10, <2>1, <2>2, <2>3, <3>2 DEF TypeOK, InsertUpsert
    <3>. QED
      BY <3>1, <3>2
<1>11. ASSUME NEW o \in Ops, InsertUndo(o) PROVE TypeOK'
  <2>1. PICK call \in Outcome : KvWrite(ops[o].id, None, call)
    BY <1>11 DEF InsertUndo
  <2>2. ops[o].id \in Ids
    BY <1>11 DEF TypeOK, InsertUndo
  <2>3. kv' \in [Ids -> Prompts \cup {None}]
    BY <2>1, <2>2, KvWriteType
  <2>. QED
    BY <1>11, <2>3 DEF TypeOK, InsertUndo
<1>12. ASSUME NEW o \in Ops, EvictIndex(o) PROVE TypeOK'
  <2>1. PICK call \in Outcome :
          IndexWrite(ops[o].id, None, call) /\ Proceed(o, call, "evKv")
    BY <1>12 DEF EvictIndex
  <2>2. ops[o].id \in Ids
    BY <1>12 DEF TypeOK, EvictIndex
  <2>3. backlog' \in Seq(Write)
    BY <2>1, <2>2, IndexWriteAdds
  <2>. QED
    BY <1>12, <2>1, <2>2, <2>3 DEF TypeOK, EvictIndex
<1>13. ASSUME NEW o \in Ops, EvictKv(o) PROVE TypeOK'
  <2>1. PICK call \in Outcome :
          /\ KvWrite(ops[o].id, None, call)
          /\ evicted' = IF call.ok THEN evicted \cup {ops[o].id} ELSE evicted
    BY <1>13 DEF EvictKv
  <2>2. ops[o].id \in Ids
    BY <1>13 DEF TypeOK, EvictKv
  <2>3. kv' \in [Ids -> Prompts \cup {None}]
    BY <2>1, <2>2, KvWriteType
  <2>. QED
    BY <1>13, <2>1, <2>2, <2>3 DEF TypeOK, EvictKv
<1>14. CASE Apply
  <2>1. backlog' \in Seq(Write) /\ Head(backlog) \in Write
    BY <1>14, ApplyTakesHead
  <2>2. Head(backlog).id \in Ids /\ Head(backlog).point \in Prompts \cup {None}
    BY <2>1 DEF Write
  <2>. QED
    BY <1>14, <2>1, <2>2 DEF TypeOK, Apply
<1>15. ASSUME NEW i \in Ids, Expire(i) PROVE TypeOK'
  BY <1>15 DEF TypeOK, Expire
<1>16. CASE Crash
  BY <1>16 DEF TypeOK, Crash
<1>17. CASE UNCHANGED vars
  BY <1>17 DEF TypeOK, vars
<1>. QED
  BY <1>1, <1>2, <1>3, <1>4, <1>5, <1>6, <1>7, <1>8, <1>9, <1>10, <1>11, <1>12,
     <1>13, <1>14, <1>15, <1>16, <1>17 DEF Next, Lookup, Insert, Evict

\* The cache's variables keep their types, and an operation always holds the
\* prompt or the id that its next call to a store needs.
THEOREM TypeCorrect == Spec => []TypeOK
BY InitType, NextType, PTL DEF Spec

-----------------------------------------------------------------------------
(***************************************************************************)
(* The inductive invariant.                                                *)
(***************************************************************************)

LEMMA InitInv == Init => IInv
<1> SUFFICES ASSUME Init PROVE IInv
  OBVIOUS
<1>1. Pending = {}
  BY DEF Init, Pending
<1>. QED
  BY <1>1, InitType, CacheAssumption
  DEF Init, IInv, Op, At, UnusedIsNowhere, HiddenUntilUpsert, InsertOwnsItsId,
      EvictionIsMarked, CleanupFindsNoEntry, StoredStaysServable, EvictedStaysGone

\* No one but its insert knows the id i yet.
HiddenFrom(o, i) ==
    \/ i \in Ids \ used
    \/ \E p \in Ops \ {o} : ops[p].pc \in {"inSet", "inUpsert"} /\ ops[p].id = i

\* What the operation of o may turn into without disturbing the invariant.
Harmless(o) ==
    /\ \A p \in Ops \ {o} : ops'[p] = ops[p]
    /\ ops'[o].pc \notin {"inSet", "inUpsert", "inUndo"}
    /\ ops'[o].pc \in {"evIndex", "evKv"} => ops'[o].id \in dropped'
    /\ ops'[o].pc = "lkClean" => kv'[ops'[o].id] = None
    /\ ops'[o].id \in {None, ops[o].id} \/ ~HiddenFrom(o, ops'[o].id)

\* A step of o that removes from the stores, if anything, the entry or the
\* point of an id i it knows and that is not, or no longer, to be served.
Removes(o, i) ==
    /\ Harmless(o)
    /\ ~HiddenFrom(o, i) /\ i \notin stored \ dropped'
    /\ \A j \in Ids \ {i} : kv'[j] = kv[j]
    /\ i \in Ids => kv'[i] \in {kv[i], None}
    /\ Pending \subseteq Pending'
    /\ \A w \in Pending' \ Pending : w.id = i
    /\ dropped' \in {dropped, dropped \cup {i}}
    /\ evicted' \in {evicted, evicted \cup {i}}
    /\ i \in evicted' \ evicted => kv'[i] = None
    /\ UNCHANGED <<index, used, seen, stored>>

LEMMA RemovesKeepsInv ==
    ASSUME IInv, TypeOK', NEW o \in Ops, NEW i \in Ids \cup {None}, Removes(o, i)
    PROVE  IInv'
<1> USE CacheAssumption DEF At, Removes, Harmless, HiddenFrom, HeldByOthers
<1>0. \A p \in Ops : ops[p].pc \in Named => ops[p].id \in Ids
  BY DEF IInv, TypeOK
<1>1. UnusedIsNowhere'
  <2> SUFFICES ASSUME NEW j \in Ids \ used
               PROVE  /\ kv'[j] = None /\ index[j] = None
                      /\ \A w \in Pending' : w.id # j
                      /\ \A p \in Ops : ops'[p].id # j
                      /\ j \notin seen \cup stored \cup dropped' \cup evicted'
    BY DEF UnusedIsNowhere
  <2>1. j # i
    OBVIOUS
  <2>2. \A p \in Ops : ops'[p].id # j
    BY DEF IInv, UnusedIsNowhere
  <2>. QED
    BY <2>1, <2>2 DEF IInv, UnusedIsNowhere
<1>2. HiddenUntilUpsert'
  <2> SUFFICES ASSUME NEW p \in Ops, ops'[p].pc \in {"inSet", "inUpsert"}
               PROVE  /\ index[ops'[p].id] = None
                      /\ \A w \in Pending' : w.id # ops'[p].id
                      /\ ops'[p].id \notin seen \cup evicted' \cup HeldByOthers(p)'
                      /\ IF ops'[p].pc = "inSet"
                         THEN kv'[ops'[p].id] = None /\ ops'[p].id \notin dropped'
                         ELSE kv'[ops'[p].id] # None \/ ops'[p].id \in dropped'
    BY DEF HiddenUntilUpsert
  <2>1. p # o /\ ops'[p] = ops[p] /\ ops[p].id \in Ids \ {i}
    BY <1>0 DEF Named
  <2>2. ops'[p].id \notin HeldByOthers(p)'
    BY <2>1 DEF IInv, HiddenUntilUpsert
  <2>. QED
    BY <2>1, <2>2 DEF IInv, HiddenUntilUpsert
<1>3. InsertOwnsItsId'
  BY DEF IInv, InsertOwnsItsId
<1>4. EvictionIsMarked'
  BY DEF IInv, EvictionIsMarked
<1>5. CleanupFindsNoEntry'
  BY <1>0 DEF IInv, CleanupFindsNoEntry, Named
<1>6. StoredStaysServable'
  BY DEF IInv, TypeOK, StoredStaysServable
<1>7. EvictedStaysGone'
  BY DEF IInv, TypeOK, EvictedStaysGone
<1>. QED
  BY <1>1, <1>2, <1>3, <1>4, <1>5, <1>6, <1>7 DEF IInv

LEMMA KnownIds ==
    ASSUME IInv, NEW o \in Ops
    PROVE  /\ ~HiddenFrom(o, None)
           /\ ~HiddenFrom(o, ops[o].id)
           /\ \A i \in seen : ~HiddenFrom(o, i)
           /\ \A i \in Ids : index[i] # None => ~HiddenFrom(o, i)
<1>1. \A p \in Ops : ops[p].pc \in {"inSet", "inUpsert"} => ops[p].id \in Ids
  BY DEF IInv, TypeOK, Named
<1>. QED
  BY <1>1, CacheAssumption
  DEF IInv, HiddenFrom, HeldByOthers, UnusedIsNowhere, HiddenUntilUpsert

LEMMA NextInv == IInv /\ [Next]_vars => IInv'
<1> SUFFICES ASSUME IInv, [Next]_vars PROVE IInv'
  OBVIOUS
<1> USE CacheAssumption DEF At, Goto, Quit, Op, Proceed, history
<1>0. TypeOK /\ TypeOK'
  BY NextType DEF IInv
<1>1. ASSUME NEW o \in Ops, NEW q \in Prompts, StartLookup(o, q) PROVE IInv'
  <2>1. Pending' = Pending
    BY <1>1 DEF Pending, StartLookup
  <2>2. Removes(o, None)
    BY <1>0, <1>1, <2>1, KnownIds
    DEF Removes, Harmless, TypeOK, OpState, StartLookup
  <2>. QED
    BY <1>0, <2>2, RemovesKeepsInv DEF TypeOK
<1>2. ASSUME NEW o \in Ops, NEW q \in Prompts, StartInsert(o, q) PROVE IInv'
  <2>1. Pending' = Pending
    BY <1>2 DEF Pending, StartInsert
  <2>2. Removes(o, None)
    BY <1>0, <1>2, <2>1, KnownIds
    DEF Removes, Harmless, TypeOK, OpState, StartInsert
  <2>. QED
    BY <1>0, <2>2, RemovesKeepsInv DEF TypeOK
<1>3. ASSUME NEW o \in Ops, NEW i \in seen, StartEvict(o, i) PROVE IInv'
  <2>1. Pending' = Pending
    BY <1>3 DEF Pending, StartEvict
  <2>2. Removes(o, i)
    BY <1>0, <1>3, <2>1, KnownIds DEF Removes, Harmless, TypeOK, OpState, StartEvict
  <2>. QED
    BY <1>0, <2>2, RemovesKeepsInv DEF TypeOK
<1>4. ASSUME NEW o \in Ops, LookupEmbed(o) PROVE IInv'
  <2>1. Pending' = Pending
    BY <1>4 DEF Pending, LookupEmbed
  <2>2. Removes(o, None)
    BY <1>0, <1>4, <2>1, KnownIds
    DEF Removes, Harmless, TypeOK, OpState, LookupEmbed
  <2>. QED
    BY <1>0, <2>2, RemovesKeepsInv DEF TypeOK
<1>5. ASSUME NEW o \in Ops, LookupSearch(o) PROVE IInv'
  <2>1. Pending' = Pending
    BY <1>5 DEF Pending, LookupSearch, Nearest
  <2>2. Removes(o, None)
    BY <1>0, <1>5, <2>1, KnownIds
    DEF Removes, Harmless, TypeOK, OpState, LookupSearch
  <2>. QED
    BY <1>0, <2>2, RemovesKeepsInv DEF TypeOK
<1>6. ASSUME NEW o \in Ops, LookupGet(o) PROVE IInv'
  <2>1. Pending' = Pending
    BY <1>6 DEF Pending, LookupGet
  <2>2. Removes(o, None)
    BY <1>0, <1>6, <2>1, KnownIds DEF Removes, Harmless, TypeOK, OpState, LookupGet
  <2>. QED
    BY <1>0, <2>2, RemovesKeepsInv DEF TypeOK
<1>7. ASSUME NEW o \in Ops, LookupClean(o) PROVE IInv'
  <2>1. PICK call \in Outcome : IndexWrite(ops[o].id, None, call)
    BY <1>7 DEF LookupClean
  <2>2. ops[o].id \in Ids /\ kv[ops[o].id] = None
    BY <1>0, <1>7 DEF IInv, TypeOK, Named, CleanupFindsNoEntry, LookupClean
  <2>3. ops[o].id \notin stored \ dropped
    BY <2>2 DEF IInv, StoredStaysServable
  <2>4. Pending' \in {Pending, Pending \cup {[id |-> ops[o].id, point |-> None]}}
    BY <1>0, <2>1, <2>2, IndexWriteAdds
  <2>5. Removes(o, ops[o].id)
    BY <1>0, <1>7, <2>2, <2>3, <2>4, KnownIds
    DEF Removes, Harmless, TypeOK, LookupClean
  <2>. QED
    BY <1>0, <2>2, <2>5, RemovesKeepsInv
<1>8. ASSUME NEW o \in Ops, InsertUndo(o) PROVE IInv'
  <2>1. PICK call \in Outcome : KvWrite(ops[o].id, None, call)
    BY <1>8 DEF InsertUndo
  <2>2. ops[o].id \in Ids \ stored
    BY <1>0, <1>8 DEF IInv, TypeOK, Named, InsertOwnsItsId, InsertUndo
  <2>3. kv'[ops[o].id] \in {kv[ops[o].id], None} /\ \A j \in Ids \ {ops[o].id} : kv'[j] = kv[j]
    BY <1>0, <2>1, <2>2, KvWriteType
  <2>4. Pending' = Pending
    BY <1>8 DEF Pending, InsertUndo
  <2>5. Removes(o, ops[o].id)
    BY <1>0, <1>8, <2>2, <2>3, <2>4, KnownIds
    DEF Removes, Harmless, TypeOK, InsertUndo
  <2>. QED
    BY <1>0, <2>2, <2>5, RemovesKeepsInv
<1>9. ASSUME NEW o \in Ops, EvictIndex(o) PROVE IInv'
  <2>1. PICK call \in Outcome :
          IndexWrite(ops[o].id, None, call) /\ Proceed(o, call, "evKv")
    BY <1>9 DEF EvictIndex
  <2>2. ops[o].id \in Ids \cap dropped
    BY <1>0, <1>9 DEF IInv, TypeOK, Named, EvictionIsMarked, EvictIndex
  <2>3. Pending' \in {Pending, Pending \cup {[id |-> ops[o].id, point |-> None]}}
    BY <1>0, <2>1, <2>2, IndexWriteAdds
  <2>4. Harmless(o)
    <3>1. CASE call.ok
      BY <1>0, <1>9, <2>1, <2>2, <3>1, KnownIds
      DEF Harmless, TypeOK, OpState, EvictIndex
    <3>2. CASE ~call.ok
      BY <1>0, <1>9, <2>1, <2>2, <3>2, KnownIds
      DEF Harmless, TypeOK, OpState, EvictIndex
    <3>. QED
      BY <3>1, <3>2
  <2>5. Removes(o, ops[o].id)
    BY <1>0, <1>9, <2>2, <2>3, <2>4, KnownIds DEF Removes, EvictIndex
  <2>. QED
    BY <1>0, <2>2, <2>5, RemovesKeepsInv
<1>10. ASSUME NEW o \in Ops, EvictKv(o) PROVE IInv'
  <2>1. PICK call \in Outcome :
          /\ KvWrite(ops[o].id, None, call)
          /\ evicted' = IF call.ok THEN evicted \cup {ops[o].id} ELSE evicted
    BY <1>10 DEF EvictKv
  <2>2. ops[o].id \in Ids \cap dropped
    BY <1>0, <1>10 DEF IInv, TypeOK, Named, EvictionIsMarked, EvictKv
  <2>3. /\ \A j \in Ids \ {ops[o].id} : kv'[j] = kv[j]
        /\ kv'[ops[o].id] \in {kv[ops[o].id], None}
        /\ call.ok => kv'[ops[o].id] = None
    BY <1>0, <2>1, <2>2, KvWriteType
  <2>4. Pending' = Pending
    BY <1>10 DEF Pending, EvictKv
  <2>5. Harmless(o)
    BY <1>0, <1>10, KnownIds DEF Harmless, TypeOK, EvictKv
  <2>6. Removes(o, ops[o].id)
    BY <1>0, <1>10, <2>1, <2>2, <2>3, <2>4, <2>5, KnownIds DEF Removes, EvictKv
  <2>. QED
    BY <1>0, <2>2, <2>6, RemovesKeepsInv
<1>11. ASSUME NEW o \in Ops, InsertEmbed(o) PROVE IInv'
  <2>0. Pending' = Pending
    BY <1>11 DEF Pending, InsertEmbed
  <2>1. CASE Quit(o) /\ UNCHANGED used
    <3>1. Removes(o, None)
      BY <1>0, <1>11, <2>0, <2>1, KnownIds
      DEF Removes, Harmless, TypeOK, InsertEmbed
    <3>. QED
      BY <1>0, <3>1, RemovesKeepsInv
  <2>2. ASSUME NEW i \in Ids \ used,
               ops' = [ops EXCEPT ![o].pc = "inSet", ![o].id = i],
               used' = used \cup {i}
        PROVE  IInv'
    <3>1. /\ \A p \in Ops \ {o} : ops'[p] = ops[p]
          /\ ops'[o].pc = "inSet" /\ ops'[o].id = i
      BY <1>0, <2>2 DEF TypeOK, OpState
    <3>2. UNCHANGED <<kv, index, backlog, seen, stored, dropped, evicted>>
      BY <1>11 DEF InsertEmbed
    <3>11. UnusedIsNowhere'
      BY <1>0, <1>11, <2>0, <2>2, <3>1, <3>2
      DEF IInv, UnusedIsNowhere
    <3>12. HiddenUntilUpsert'
      BY <1>0, <1>11, <2>0, <2>2, <3>1, <3>2
      DEF IInv, TypeOK, HeldByOthers, UnusedIsNowhere, HiddenUntilUpsert
    <3>13. InsertOwnsItsId'
      BY <1>0, <1>11, <2>0, <2>2, <3>1, <3>2
      DEF IInv, TypeOK, UnusedIsNowhere, InsertOwnsItsId
    <3>14. EvictionIsMarked'
      BY <1>0, <1>11, <2>0, <2>2, <3>1, <3>2
      DEF IInv, TypeOK, EvictionIsMarked
    <3>15. CleanupFindsNoEntry'
      BY <1>0, <1>11, <2>0, <2>2, <3>1, <3>2
      DEF IInv, CleanupFindsNoEntry
    <3>16. StoredStaysServable'
      BY <1>0, <1>11, <2>0, <2>2, <3>1, <3>2
      DEF IInv, StoredStaysServable
    <3>17. EvictedStaysGone'
      BY <1>0, <1>11, <2>0, <2>2, <3>1, <3>2
      DEF IInv, EvictedStaysGone
    <3>. QED
      BY <1>0, <3>11, <3>12, <3>13, <3>14, <3>15, <3>16, <3>17 DEF IInv
  <2>. QED
    BY <1>11, <2>1, <2>2 DEF InsertEmbed
<1>12. ASSUME NEW o \in Ops, InsertSet(o) PROVE IInv'
  <2>0. Pending' = Pending
    BY <1>12 DEF Pending, InsertSet
  <2>1. PICK call \in Outcome :
          KvWrite(ops[o].id, ops[o].prompt, call) /\ Proceed(o, call, "inUpsert")
    BY <1>12 DEF InsertSet
  <2>2. ops[o].id \in Ids /\ ops[o].prompt \in Prompts /\ ops[o].pc = "inSet"
    BY <1>0, <1>12 DEF TypeOK, Named, Asking, PCs, InsertSet
  <2>3. /\ \A j \in Ids \ {ops[o].id} : kv'[j] = kv[j]
        /\ kv'[ops[o].id] \in {kv[ops[o].id], ops[o].prompt}
        /\ call.ok => kv'[ops[o].id] = ops[o].prompt
    BY <1>0, <2>1, <2>2, KvWriteType
  <2>4. /\ \A p \in Ops \ {o} : ops'[p] = ops[p]
        /\ \/ call.ok /\ ops'[o].pc = "inUpsert" /\ ops'[o].id = ops[o].id
           \/ ops'[o].pc = "idle" /\ ops'[o].id = None
    BY <1>0, <2>1 DEF TypeOK, OpState
  <2>5. UNCHANGED <<index, used, seen, stored, dropped, evicted>>
    BY <1>12 DEF InsertSet
  <2>11. UnusedIsNowhere'
    BY <1>0, <2>0, <2>2, <2>3, <2>4, <2>5
    DEF IInv, Named, HeldByOthers, UnusedIsNowhere, HiddenUntilUpsert,
        InsertOwnsItsId, EvictionIsMarked, CleanupFindsNoEntry,
        StoredStaysServable, EvictedStaysGone
  <2>12. HiddenUntilUpsert'
    <3> SUFFICES ASSUME NEW p \in Ops, ops'[p].pc \in {"inSet", "inUpsert"}
                 PROVE  /\ index[ops'[p].id] = None
                        /\ \A w \in Pending' : w.id # ops'[p].id
                        /\ ops'[p].id \notin seen \cup evicted \cup HeldByOthers(p)'
                        /\ IF ops'[p].pc = "inSet"
                           THEN kv'[ops'[p].id] = None /\ ops'[p].id \notin dropped
                           ELSE kv'[ops'[p].id] # None \/ ops'[p].id \in dropped
      BY <2>5 DEF HiddenUntilUpsert
    <3>1. ops[p].pc \in {"inSet", "inUpsert"} /\ ops'[p].id = ops[p].id
      BY <2>2, <2>4
    <3>2. ops[p].id \in Ids /\ (p # o => ops[p].id # ops[o].id)
      BY <1>0, <3>1 DEF IInv, TypeOK, Named, HiddenUntilUpsert, HeldByOthers
    <3>3. ops'[p].id \notin HeldByOthers(p)'
      <4> SUFFICES ASSUME NEW q \in Ops \ {p} PROVE ops'[q].id # ops'[p].id
        BY DEF HeldByOthers
      <4>1. ops[q].id # ops[p].id
        BY <3>1 DEF IInv, HiddenUntilUpsert, HeldByOthers
      <4>2. ops'[q].id \in {ops[q].id, None}
        BY <2>4
      <4>. QED
        BY <3>1, <3>2, <4>1, <4>2
    <3>. QED
      BY <2>0, <2>2, <2>3, <2>4, <3>1, <3>2, <3>3 DEF IInv, HiddenUntilUpsert
  <2>13. InsertOwnsItsId'
    BY <1>0, <2>0, <2>2, <2>3, <2>4, <2>5 DEF IInv, TypeOK, InsertOwnsItsId
  <2>14. EvictionIsMarked'
    BY <1>0, <2>0, <2>2, <2>3, <2>4, <2>5 DEF IInv, TypeOK, EvictionIsMarked
  <2>15. CleanupFindsNoEntry'
    BY <1>0, <2>0, <2>2, <2>3, <2>4, <2>5
    DEF IInv, TypeOK, Named, HeldByOthers, HiddenUntilUpsert, InsertOwnsItsId,
        EvictionIsMarked, CleanupFindsNoEntry, StoredStaysServable
  <2>16. StoredStaysServable'
    BY <1>0, <2>0, <2>2, <2>3, <2>4, <2>5 DEF IInv, TypeOK, StoredStaysServable
  <2>17. EvictedStaysGone'
    BY <1>0, <2>0, <2>2, <2>3, <2>4, <2>5
    DEF IInv, TypeOK, EvictedStaysGone, HiddenUntilUpsert
  <2>. QED
    BY <1>0, <2>11, <2>12, <2>13, <2>14, <2>15, <2>16, <2>17 DEF IInv
<1>13. ASSUME NEW o \in Ops, InsertUpsert(o) PROVE IInv'
  <2>1. PICK call \in Outcome :
          /\ IndexWrite(ops[o].id, ops[o].prompt, call)
          /\ IF call.ok THEN Quit(o) ELSE Goto(o, "inUndo")
          /\ stored' = IF call.ok THEN stored \cup {ops[o].id} ELSE stored
    BY <1>13 DEF InsertUpsert
  <2>2. ops[o].id \in Ids /\ ops[o].prompt \in Prompts /\ ops[o].pc = "inUpsert"
    BY <1>0, <1>13 DEF TypeOK, Named, Asking, PCs, InsertUpsert
  <2>3. /\ Pending \subseteq Pending'
        /\ \A w \in Pending' \ Pending : w.id = ops[o].id /\ w.point = ops[o].prompt
        /\ call.ok => \E w \in Pending' : w.id = ops[o].id
    <3> DEFINE r == [id |-> ops[o].id, point |-> ops[o].prompt]
    <3>1. /\ Pending' \in {Pending, Pending \cup {r}}
          /\ call.ok => Pending' = Pending \cup {r}
      BY <1>0, <2>1, <2>2, IndexWriteAdds
    <3>2. r.id = ops[o].id /\ r.point = ops[o].prompt
      OBVIOUS
    <3> HIDE DEF r
    <3>. QED
      BY <3>1, <3>2
  <2>4. /\ \A p \in Ops \ {o} : ops'[p] = ops[p]
        /\ \/ /\ call.ok /\ ops'[o].pc = "idle" /\ ops'[o].id = None
              /\ stored' = stored \cup {ops[o].id}
           \/ /\ ops'[o].pc = "inUndo" /\ ops'[o].id = ops[o].id
              /\ stored' = stored
    BY <1>0, <2>1 DEF TypeOK, OpState
  <2>5. UNCHANGED <<kv, index, used, seen, dropped, evicted>>
    BY <1>13 DEF InsertUpsert
  <2>11. UnusedIsNowhere'
    <3>1. ops[o].id \in used
      BY <2>2 DEF IInv, InsertOwnsItsId
    <3>. QED
      BY <2>2, <2>3, <2>4, <2>5, <3>1 DEF IInv, UnusedIsNowhere
  <2>12. HiddenUntilUpsert'
    <3> SUFFICES ASSUME NEW p \in Ops, ops'[p].pc \in {"inSet", "inUpsert"}
                 PROVE  /\ index[ops'[p].id] = None
                        /\ \A w \in Pending' : w.id # ops'[p].id
                        /\ ops'[p].id \notin seen \cup evicted \cup HeldByOthers(p)'
                        /\ IF ops'[p].pc = "inSet"
                           THEN kv'[ops'[p].id] = None /\ ops'[p].id \notin dropped
                           ELSE kv'[ops'[p].id] # None \/ ops'[p].id \in dropped
      BY <2>5 DEF HiddenUntilUpsert
    <3>1. ops[p].pc \in {"inSet", "inUpsert"} /\ ops'[p].id = ops[p].id
      BY <2>2, <2>4
    <3>2. ops[p].id \in Ids /\ (p # o => ops[p].id # ops[o].id)
      BY <1>0, <3>1 DEF IInv, TypeOK, Named, HiddenUntilUpsert, HeldByOthers
    <3>3. ops'[p].id \notin HeldByOthers(p)'
      <4> SUFFICES ASSUME NEW q \in Ops \ {p} PROVE ops'[q].id # ops'[p].id
        BY DEF HeldByOthers
      <4>1. ops[q].id # ops[p].id
        BY <3>1 DEF IInv, HiddenUntilUpsert, HeldByOthers
      <4>2. ops'[q].id \in {ops[q].id, None}
        BY <2>4
      <4>. QED
        BY <3>1, <3>2, <4>1, <4>2
    <3>. QED
      BY <2>2, <2>3, <2>4, <2>5, <3>1, <3>2, <3>3 DEF IInv, HiddenUntilUpsert
  <2>13. InsertOwnsItsId'
    <3> SUFFICES ASSUME NEW p \in Ops, ops'[p].pc \in {"inSet", "inUpsert", "inUndo"}
                 PROVE  ops'[p].id \in used \ stored'
      BY <2>5 DEF InsertOwnsItsId
    <3>1. ops[p].pc \in {"inSet", "inUpsert", "inUndo"} /\ ops'[p].id = ops[p].id
      BY <2>2, <2>4
    <3>2. p # o => ops[p].id # ops[o].id
      BY <2>2 DEF IInv, HiddenUntilUpsert, HeldByOthers
    <3>. QED
      BY <2>2, <2>4, <3>1, <3>2 DEF IInv, InsertOwnsItsId
  <2>14. EvictionIsMarked'
    BY <1>0, <2>2, <2>3, <2>4, <2>5 DEF IInv, TypeOK, EvictionIsMarked
  <2>15. CleanupFindsNoEntry'
    BY <2>4, <2>5 DEF IInv, CleanupFindsNoEntry
  <2>16. StoredStaysServable'
    <3> SUFFICES ASSUME NEW i \in stored' \ dropped
                 PROVE  /\ kv[i] # None
                        /\ index[i] # None \/ \E w \in Pending' : w.id = i
                        /\ \A w \in Pending' : w.id = i => w.point # None
      BY <2>5 DEF StoredStaysServable
    <3>1. CASE i = ops[o].id
      <4>1. i \notin stored
        BY <2>2, <3>1 DEF IInv, InsertOwnsItsId
      <4>2. kv[i] # None /\ \A w \in Pending : w.id # i
        BY <2>2, <3>1 DEF IInv, HiddenUntilUpsert
      <4>. QED
        BY <2>2, <2>3, <2>4, <3>1, <4>1, <4>2
    <3>2. CASE i # ops[o].id
      BY <2>3, <2>4, <3>2 DEF IInv, StoredStaysServable
    <3>. QED
      BY <3>1, <3>2
  <2>17. EvictedStaysGone'
    BY <1>0, <2>2, <2>3, <2>4, <2>5 DEF IInv, TypeOK, EvictedStaysGone
  <2>. QED
    BY <1>0, <2>11, <2>12, <2>13, <2>14, <2>15, <2>16, <2>17 DEF IInv
<1>14. CASE Apply
  <2>1. /\ Head(backlog) \in Pending /\ Head(backlog) \in Write
        /\ Pending' \subseteq Pending
        /\ Pending \subseteq Pending' \cup {Head(backlog)}
    BY <1>0, <1>14, ApplyTakesHead
  <2>2. PICK w \in Pending \cap Write :
          /\ Pending' \subseteq Pending /\ Pending \subseteq Pending' \cup {w}
          /\ index' = [index EXCEPT ![w.id] = w.point]
          /\ seen' = IF w.point = None THEN seen ELSE seen \cup {w.id}
    BY <1>14, <2>1 DEF Apply
  <2>3. UNCHANGED <<kv, ops, used, stored, dropped, evicted>>
    BY <1>14 DEF Apply
  <2>11. UnusedIsNowhere'
    BY <1>0, <2>2, <2>3 DEF IInv, TypeOK, Write, UnusedIsNowhere
  <2>12. HiddenUntilUpsert'
    BY <1>0, <2>2, <2>3 DEF IInv, TypeOK, HeldByOthers, Write, HiddenUntilUpsert
  <2>13. InsertOwnsItsId'
    BY <1>0, <2>2, <2>3 DEF IInv, TypeOK, Write, InsertOwnsItsId
  <2>14. EvictionIsMarked'
    BY <1>0, <2>2, <2>3 DEF IInv, TypeOK, Write, EvictionIsMarked
  <2>15. CleanupFindsNoEntry'
    BY <1>0, <2>2, <2>3 DEF IInv, TypeOK, Write, CleanupFindsNoEntry
  <2>16. StoredStaysServable'
    <3> SUFFICES ASSUME NEW i \in stored \ dropped
                 PROVE  /\ kv[i] # None
                        /\ index'[i] # None \/ \E v \in Pending' : v.id = i
                        /\ \A v \in Pending' : v.id = i => v.point # None
      BY <2>3 DEF StoredStaysServable
    <3>1. kv[i] # None /\ \A v \in Pending : v.id = i => v.point # None
      BY DEF IInv, StoredStaysServable
    <3>2. CASE w.id = i
      BY <1>0, <2>2, <3>1, <3>2 DEF TypeOK, Write
    <3>3. CASE w.id # i
      BY <1>0, <2>2, <3>3 DEF IInv, TypeOK, Write, StoredStaysServable
    <3>. QED
      BY <2>2, <3>1, <3>2, <3>3
  <2>17. EvictedStaysGone'
    BY <1>0, <2>2, <2>3 DEF IInv, TypeOK, Write, EvictedStaysGone
  <2>. QED
    BY <1>0, <2>11, <2>12, <2>13, <2>14, <2>15, <2>16, <2>17 DEF IInv
<1>15. ASSUME NEW i \in Ids, Expire(i) PROVE IInv'
  <2>0. Pending' = Pending
    BY <1>15 DEF Pending, Expire
  <2>1. UnusedIsNowhere'
    BY <1>0, <1>15, <2>0 DEF IInv, TypeOK, UnusedIsNowhere, Expire
  <2>2. HiddenUntilUpsert'
    BY <1>0, <1>15, <2>0 DEF IInv, TypeOK, HeldByOthers, HiddenUntilUpsert, Expire
  <2>3. InsertOwnsItsId'
    BY <1>0, <1>15, <2>0 DEF IInv, TypeOK, InsertOwnsItsId, Expire
  <2>4. EvictionIsMarked'
    BY <1>0, <1>15, <2>0 DEF IInv, TypeOK, EvictionIsMarked, Expire
  <2>5. CleanupFindsNoEntry'
    BY <1>0, <1>15, <2>0 DEF IInv, TypeOK, CleanupFindsNoEntry, Expire
  <2>6. StoredStaysServable'
    BY <1>0, <1>15, <2>0 DEF IInv, TypeOK, StoredStaysServable, Expire
  <2>7. EvictedStaysGone'
    BY <1>0, <1>15, <2>0 DEF IInv, TypeOK, EvictedStaysGone, Expire
  <2>. QED
    BY <1>0, <2>1, <2>2, <2>3, <2>4, <2>5, <2>6, <2>7 DEF IInv
<1>16. ASSUME Crash PROVE IInv'
  <2>0. Pending' = Pending
    BY <1>16 DEF Pending, Crash
  <2>1. UnusedIsNowhere'
    BY <1>0, <1>16, <2>0 DEF IInv, TypeOK, UnusedIsNowhere, Crash
  <2>2. HiddenUntilUpsert'
    BY <1>0, <1>16, <2>0 DEF IInv, TypeOK, HiddenUntilUpsert, Crash
  <2>3. InsertOwnsItsId'
    BY <1>0, <1>16, <2>0 DEF IInv, TypeOK, InsertOwnsItsId, Crash
  <2>4. EvictionIsMarked'
    BY <1>0, <1>16, <2>0 DEF IInv, TypeOK, EvictionIsMarked, Crash
  <2>5. CleanupFindsNoEntry'
    BY <1>0, <1>16, <2>0 DEF IInv, TypeOK, CleanupFindsNoEntry, Crash
  <2>6. StoredStaysServable'
    BY <1>0, <1>16, <2>0 DEF IInv, TypeOK, StoredStaysServable, Crash
  <2>7. EvictedStaysGone'
    BY <1>0, <1>16, <2>0 DEF IInv, TypeOK, EvictedStaysGone, Crash
  <2>. QED
    BY <1>0, <2>1, <2>2, <2>3, <2>4, <2>5, <2>6, <2>7 DEF IInv
<1>17. CASE UNCHANGED vars
  BY <1>0, <1>17
  DEF vars, IInv, Pending, HeldByOthers, UnusedIsNowhere, HiddenUntilUpsert,
      InsertOwnsItsId, EvictionIsMarked, CleanupFindsNoEntry, StoredStaysServable,
      EvictedStaysGone
<1>. QED
  BY <1>1, <1>2, <1>3, <1>4, <1>5, <1>6, <1>7, <1>8, <1>9, <1>10, <1>11, <1>12,
     <1>13, <1>14, <1>15, <1>16, <1>17 DEF Next, Lookup, Insert, Evict

\* The conjunction behind all the safety properties of the cache holds for
\* any number of lookups, inserts and evictions interleaved in any way.
THEOREM Inductive == Spec => []IInv
BY InitInv, NextInv, PTL DEF Spec

\* A lookup that saw no entry for a point and is about to delete the point can
\* not race with an insert that brings the entry: VectorStore.Lookup's clean-up
\* never orphans an entry that could be served.
THEOREM CleanupIsSafe == Spec => []CleanupFindsNoEntry
<1>1. IInv => CleanupFindsNoEntry
  BY DEF IInv
<1>. QED
  BY <1>1, Inductive, PTL

\* An entry that VectorStore.Insert reported stored stays servable until its
\* TTL runs out or an eviction asks for it.
THEOREM StoredStays == Spec => []StoredStaysServable
<1>1. IInv => StoredStaysServable
  BY DEF IInv
<1>. QED
  BY <1>1, Inductive, PTL

\* Once VectorStore.Evict has returned nil no lookup is served the entry.
THEOREM EvictedIsNotServed == Spec => NoHitAfterEvict
<1>1. ASSUME IInv, [Next]_vars, NEW o \in Ops, At(o, "lkGet"), ops'[o].pc = "hit"
      PROVE  ops[o].id \notin evicted
  <2>1. TypeOK
    BY <1>1 DEF IInv
  <2>2. ASSUME NEW p \in Ops, Lookup(p) PROVE p = o /\ LookupGet(o)
    BY <1>1, <2>1, <2>2
    DEF Lookup, LookupEmbed, LookupSearch, LookupGet, LookupClean, At, Goto, Quit,
        TypeOK
  <2>3. ASSUME NEW p \in Ops, Insert(p) PROVE FALSE
    BY <1>1, <2>1, <2>3
    DEF Insert, InsertEmbed, InsertSet, InsertUpsert, InsertUndo, At, Goto, Quit,
        Proceed, TypeOK
  <2>4. ASSUME NEW p \in Ops, Evict(p) PROVE FALSE
    BY <1>1, <2>1, <2>4
    DEF Evict, EvictIndex, EvictKv, At, Goto, Quit, Proceed, TypeOK
  <2>5. ASSUME NEW p \in Ops, NEW q \in Prompts, StartLookup(p, q) \/ StartInsert(p, q)
        PROVE  FALSE
    BY <1>1, <2>1, <2>5 DEF StartLookup, StartInsert, At, Op, TypeOK
  <2>6. ASSUME NEW p \in Ops, NEW i \in seen, StartEvict(p, i) PROVE FALSE
    BY <1>1, <2>1, <2>6 DEF StartEvict, At, Op, TypeOK, OpState
  <2>7. ASSUME Apply \/ (\E i \in Ids : Expire(i)) \/ Crash \/ UNCHANGED vars PROVE FALSE
    BY <1>1, <2>1, <2>7 DEF Apply, Expire, Crash, vars, At, Op
  <2>8. LookupGet(o)
    BY <1>1, <2>2, <2>3, <2>4, <2>5, <2>6, <2>7 DEF Next
  <2>9. kv[ops[o].id] # None
    BY <1>1, <2>1, <2>8 DEF LookupGet, Goto, Quit, Op, TypeOK, OpState
  <2>. QED
    BY <1>1, <2>9 DEF IInv, EvictedStaysGone
<1>2. IInv /\ [Next]_vars =>
        [\A o \in Ops : At(o, "lkGet") /\ ops'[o].pc = "hit" => ops[o].id \notin evicted]_vars
  BY <1>1
<1>. QED
  BY <1>2, Inductive, PTL DEF Spec, NoHitAfterEvict

-----------------------------------------------------------------------------
(***************************************************************************)
(* What an id stands for.                                                  *)
(***************************************************************************)

\* Nothing says of an id what was not said of it before the step.
Repeats ==
    \A i \in Ids :
        /\ kv'[i] \in Tells(i) \cup {None}
        /\ index'[i] \in Tells(i) \cup {None}
        /\ \A v \in Pending' : v.id = i => v.point \in Tells(i) \cup {None}
        /\ \A o \in Ops : ops'[o].pc \in Inserting /\ ops'[o].id = i =>
                            ops'[o].prompt \in Tells(i) \cup {None}

\* The lookups that read an entry, or have read it, after the step.
ReadsWhatIsSimilar ==
    \A o \in Ops :
        /\ ops'[o].pc = "lkGet" =>
              /\ ops'[o].id \in Ids
              /\ \A a \in Tells(ops'[o].id) : Score[ops'[o].prompt][a] >= SimThreshold
        /\ ops'[o].pc = "hit" => Score[ops'[o].prompt][ops'[o].served] >= SimThreshold

LEMMA RepeatsKeepsSim ==
    ASSUME SimInv, Repeats, ReadsWhatIsSimilar
    PROVE  SimInv'
<1>1. ASSUME NEW i \in Ids PROVE Tells(i)' \subseteq Tells(i)
  <2> SUFFICES ASSUME NEW a \in Tells(i)' PROVE a \in Tells(i) \cup {None}
    BY DEF Tells
  <2>1. CASE a \in {kv'[i], index'[i]}
    BY <2>1 DEF Repeats
  <2>2. CASE \E v \in Pending' : v.id = i /\ v.point = a
    BY <2>2 DEF Repeats
  <2>3. CASE \E o \in Ops : ops'[o].pc \in Inserting /\ ops'[o].id = i /\ ops'[o].prompt = a
    BY <2>3 DEF Repeats
  <2>. QED
    BY <2>1, <2>2, <2>3 DEF Tells
<1>2. OnePromptPerId'
  BY <1>1 DEF SimInv, OnePromptPerId
<1>3. ReadIsSimilar'
  BY <1>1 DEF ReadIsSimilar, ReadsWhatIsSimilar, At
<1>4. HitIsSimilar'
  BY DEF HitIsSimilar, ReadsWhatIsSimilar, At
<1>. QED
  BY <1>2, <1>3, <1>4 DEF SimInv

\* The stores, the writes on their way and the inserts are among those who tell.
LEMMA TellsOf ==
    ASSUME NEW i \in Ids
    PROVE  /\ kv[i] \in Tells(i) \cup {None}
           /\ index[i] \in Tells(i) \cup {None}
           /\ \A v \in Pending : v.id = i => v.point \in Tells(i) \cup {None}
           /\ \A o \in Ops : ops[o].pc \in Inserting /\ ops[o].id = i =>
                               ops[o].prompt \in Tells(i) \cup {None}
BY DEF Tells

LEMMA InitSim == Init => SimInv
<1> SUFFICES ASSUME Init PROVE SimInv
  OBVIOUS
<1>1. Pending = {}
  BY DEF Init, Pending
<1>2. \A i \in Ids : Tells(i) = {}
  BY <1>1 DEF Init, Op, Tells, Inserting
<1>. QED
  BY <1>2 DEF Init, Op, At, SimInv, OnePromptPerId, ReadIsSimilar, HitIsSimilar

LEMMA NextSim == IInv /\ SimInv /\ [Next]_vars => SimInv'
<1> SUFFICES ASSUME IInv, SimInv, [Next]_vars PROVE SimInv'
  OBVIOUS
<1> USE DEF At, Goto, Quit, Op, Proceed, history
<1>0. TypeOK /\ TypeOK'
  BY NextType DEF IInv
<1>a. ReadsWhatIsSimilar <=>
        \A o \in Ops : ops'[o] # ops[o] => 
          /\ ops'[o].pc = "lkGet" =>
              /\ ops'[o].id \in Ids
              /\ \A a \in Tells(ops'[o].id) : Score[ops'[o].prompt][a] >= SimThreshold
          /\ ops'[o].pc = "hit" => Score[ops'[o].prompt][ops'[o].served] >= SimThreshold
  BY <1>0 DEF TypeOK, Named, SimInv, ReadIsSimilar, HitIsSimilar, ReadsWhatIsSimilar
<1>1. ASSUME NEW o \in Ops, NEW q \in Prompts, StartLookup(o, q) \/ StartInsert(o, q)
      PROVE  SimInv'
  <2>1. Pending' = Pending
    BY <1>1 DEF Pending, StartLookup, StartInsert
  <2>2. Repeats
    BY <1>0, <1>1, <2>1, TellsOf DEF TypeOK, Repeats, Inserting, StartLookup, StartInsert
  <2>3. ReadsWhatIsSimilar
    BY <1>0, <1>a, <1>1 DEF TypeOK, StartLookup, StartInsert
  <2>. QED
    BY <2>2, <2>3, RepeatsKeepsSim
<1>2. ASSUME NEW o \in Ops, NEW i \in seen, StartEvict(o, i) PROVE SimInv'
  <2>1. Pending' = Pending
    BY <1>2 DEF Pending, StartEvict
  <2>2. Repeats
    BY <1>0, <1>2, <2>1, TellsOf DEF TypeOK, Repeats, Inserting, StartEvict
  <2>3. ReadsWhatIsSimilar
    BY <1>0, <1>a, <1>2 DEF TypeOK, StartEvict
  <2>. QED
    BY <2>2, <2>3, RepeatsKeepsSim
<1>3. ASSUME NEW o \in Ops, LookupEmbed(o) PROVE SimInv'
  <2>1. Pending' = Pending
    BY <1>3 DEF Pending, LookupEmbed
  <2>2. Repeats
    BY <1>0, <1>3, <2>1, TellsOf DEF TypeOK, OpState, Repeats, Inserting, LookupEmbed
  <2>3. ReadsWhatIsSimilar
    BY <1>0, <1>a, <1>3 DEF TypeOK, OpState, LookupEmbed
  <2>. QED
    BY <2>2, <2>3, RepeatsKeepsSim
<1>4. ASSUME NEW o \in Ops, LookupSearch(o) PROVE SimInv'
  <2>1. Pending' = Pending
    BY <1>4 DEF Pending, LookupSearch
  <2>2. Repeats
    BY <1>0, <1>4, <2>1, TellsOf DEF TypeOK, OpState, Repeats, Inserting, LookupSearch
  <2>3. ReadsWhatIsSimilar
    <3>1. CASE Quit(o)
      BY <1>0, <1>a, <3>1 DEF TypeOK
    <3>2. ASSUME NEW i \in Nearest(ops[o].prompt),
                 ops' = [ops EXCEPT ![o].pc = "lkGet", ![o].id = i]
          PROVE  ReadsWhatIsSimilar
      <4>1. i \in Ids /\ index[i] # None /\ Score[ops[o].prompt][index[i]] >= SimThreshold
        BY DEF Nearest
      <4>2. \A a \in Tells(i) : a = index[i]
        BY <4>1, TellsOf DEF SimInv, OnePromptPerId
      <4>. QED
        BY <1>0, <1>a, <3>2, <4>1, <4>2 DEF TypeOK
    <3>. QED
      BY <1>4, <3>1, <3>2 DEF LookupSearch
  <2>. QED
    BY <2>2, <2>3, RepeatsKeepsSim
<1>5. ASSUME NEW o \in Ops, LookupGet(o) PROVE SimInv'
  <2>1. Pending' = Pending
    BY <1>5 DEF Pending, LookupGet
  <2>2. Repeats
    BY <1>0, <1>5, <2>1, TellsOf DEF TypeOK, OpState, Repeats, Inserting, LookupGet
  <2>3. ReadsWhatIsSimilar
    <3>1. ops[o].id \in Ids /\ ops[o].pc = "lkGet"
      BY <1>0, <1>5 DEF TypeOK, Named, LookupGet
    <3>2. kv[ops[o].id] # None =>
            Score[ops[o].prompt][kv[ops[o].id]] >= SimThreshold
      BY <3>1, TellsOf DEF SimInv, ReadIsSimilar
    <3>. QED
      BY <1>0, <1>a, <1>5, <3>1, <3>2 DEF TypeOK, OpState, LookupGet
  <2>. QED
    BY <2>2, <2>3, RepeatsKeepsSim
<1>6. ASSUME NEW o \in Ops, LookupClean(o) PROVE SimInv'
  <2>1. PICK call \in Outcome : IndexWrite(ops[o].id, None, call)
    BY <1>6 DEF LookupClean
  <2>2. ops[o].id \in Ids
    BY <1>0, <1>6 DEF TypeOK, Named, LookupClean
  <2>3. Pending' \in {Pending, Pending \cup {[id |-> ops[o].id, point |-> None]}}
    BY <1>0, <2>1, <2>2, IndexWriteAdds
  <2>4. Repeats
    BY <1>0, <1>6, <2>2, <2>3, TellsOf DEF TypeOK, Repeats, Inserting, LookupClean
  <2>5. ReadsWhatIsSimilar
    BY <1>0, <1>a, <1>6 DEF TypeOK, LookupClean
  <2>. QED
    BY <2>4, <2>5, RepeatsKeepsSim
<1>7. ASSUME NEW o \in Ops, InsertEmbed(o) PROVE SimInv'
  <2>1. Pending' = Pending
    BY <1>7 DEF Pending, InsertEmbed
  <2>2. CASE Quit(o)
    <3>1. Repeats
      BY <1>0, <1>7, <2>1, <2>2, TellsOf DEF TypeOK, OpState, Repeats, Inserting, InsertEmbed
    <3>2. ReadsWhatIsSimilar
      BY <1>0, <1>a, <2>2 DEF TypeOK
    <3>. QED
      BY <3>1, <3>2, RepeatsKeepsSim
  <2>3. ASSUME NEW i \in Ids \ used, ops' = [ops EXCEPT ![o].pc = "inSet", ![o].id = i]
        PROVE  SimInv'
    <3>1. kv' = kv /\ index' = index
      BY <1>7 DEF InsertEmbed
    <3>2. /\ \A p \in Ops \ {o} : ops'[p] = ops[p]
          /\ ops'[o].pc = "inSet" /\ ops'[o].id = i /\ ops'[o].prompt = ops[o].prompt
          /\ ops[o].pc = "inEmbed"
      BY <1>0, <1>7, <2>3 DEF TypeOK, OpState, InsertEmbed
    <3>3. \A a \in Tells(i)' : a = ops[o].prompt
      BY <2>1, <3>1, <3>2 DEF IInv, UnusedIsNowhere, Tells
    <3>4. ASSUME NEW j \in Ids \ {i} PROVE Tells(j)' = Tells(j)
      BY <2>1, <3>1, <3>2, <3>4 DEF Tells, Inserting
    <3>5. OnePromptPerId'
      BY <3>3, <3>4 DEF SimInv, OnePromptPerId
    <3>6. \A p \in Ops : ops'[p].pc \in {"lkGet", "hit"} =>
             ops'[p] = ops[p] /\ ops[p].id # i
      BY <3>2 DEF IInv, UnusedIsNowhere
    <3>7. ReadIsSimilar'
      <4> SUFFICES ASSUME NEW p \in Ops, ops'[p].pc = "lkGet",
                          NEW a \in Tells(ops[p].id)'
                   PROVE  Score[ops'[p].prompt][a] >= SimThreshold
        BY DEF ReadIsSimilar
      <4>1. ops'[p] = ops[p] /\ ops[p].id \in Ids \ {i}
        BY <1>0, <3>6 DEF TypeOK, Named
      <4>2. a \in Tells(ops[p].id)
        BY <3>4, <4>1
      <4>. QED
        BY <4>1, <4>2 DEF SimInv, ReadIsSimilar
    <3>8. HitIsSimilar'
      BY <3>6 DEF SimInv, HitIsSimilar
    <3>. QED
      BY <3>5, <3>7, <3>8 DEF SimInv
  <2>. QED
    BY <1>7, <2>2, <2>3 DEF InsertEmbed
<1>8. ASSUME NEW o \in Ops, InsertSet(o) PROVE SimInv'
  <2>0. Pending' = Pending /\ index' = index
    BY <1>8 DEF Pending, InsertSet
  <2>1. PICK call \in Outcome :
          KvWrite(ops[o].id, ops[o].prompt, call) /\ Proceed(o, call, "inUpsert")
    BY <1>8 DEF InsertSet
  <2>2. ops[o].id \in Ids /\ ops[o].prompt \in Prompts /\ ops[o].pc = "inSet"
    BY <1>0, <1>8 DEF TypeOK, Named, Asking, PCs, InsertSet
  <2>3. /\ \A j \in Ids \ {ops[o].id} : kv'[j] = kv[j]
        /\ kv'[ops[o].id] \in {kv[ops[o].id], ops[o].prompt}
    BY <1>0, <2>1, <2>2, KvWriteType
  <2>4. /\ \A p \in Ops \ {o} : ops'[p] = ops[p]
        /\ \/ ops'[o].pc = "idle"
           \/ ops'[o] = [ops[o] EXCEPT !.pc = "inUpsert"]
    BY <1>0, <2>1 DEF TypeOK
  <2>5. \A p \in Ops : ops'[p].pc \in Inserting =>
           /\ ops[p].pc \in Inserting
           /\ ops'[p].id = ops[p].id /\ ops'[p].prompt = ops[p].prompt
    BY <1>0, <2>2, <2>4 DEF TypeOK, OpState, Inserting
  <2>6. ops[o].prompt \in Tells(ops[o].id) \cup {None}
    BY <2>2, TellsOf DEF Inserting
  <2>7. Repeats
    BY <2>0, <2>2, <2>3, <2>5, <2>6, TellsOf DEF Repeats
  <2>8. ReadsWhatIsSimilar
    BY <1>0, <1>a, <2>4 DEF TypeOK, OpState
  <2>. QED
    BY <2>7, <2>8, RepeatsKeepsSim
<1>9. ASSUME NEW o \in Ops, InsertUpsert(o) PROVE SimInv'
  <2>1. PICK call \in Outcome :
          /\ IndexWrite(ops[o].id, ops[o].prompt, call)
          /\ IF call.ok THEN Quit(o) ELSE Goto(o, "inUndo")
    BY <1>9 DEF InsertUpsert
  <2>2. ops[o].id \in Ids /\ ops[o].prompt \in Prompts /\ ops[o].pc = "inUpsert"
    BY <1>0, <1>9 DEF TypeOK, Named, Asking, PCs, InsertUpsert
  <2>3. \A v \in Pending' \ Pending : v.id = ops[o].id /\ v.point = ops[o].prompt
    <3> DEFINE r == [id |-> ops[o].id, point |-> ops[o].prompt]
    <3>1. Pending' \in {Pending, Pending \cup {r}}
      BY <1>0, <2>1, <2>2, IndexWriteAdds
    <3>2. r.id = ops[o].id /\ r.point = ops[o].prompt
      OBVIOUS
    <3> HIDE DEF r
    <3>. QED
      BY <3>1, <3>2
  <2>4. kv' = kv /\ index' = index
    BY <1>9 DEF InsertUpsert
  <2>5. /\ \A p \in Ops \ {o} : ops'[p] = ops[p]
        /\ \/ ops'[o].pc = "idle"
           \/ ops'[o] = [ops[o] EXCEPT !.pc = "inUndo"]
    BY <1>0, <2>1 DEF TypeOK
  <2>6. ops[o].prompt \in Tells(ops[o].id) \cup {None}
    BY <2>2, TellsOf DEF Inserting
  <2>7. \A p \in Ops : ops'[p].pc \in Inserting =>
           /\ ops[p].pc \in Inserting
           /\ ops'[p].id = ops[p].id /\ ops'[p].prompt = ops[p].prompt
    BY <1>0, <2>2, <2>5 DEF TypeOK, OpState, Inserting
  <2>8. Repeats
    BY <2>2, <2>3, <2>4, <2>6, <2>7, TellsOf DEF Repeats
  <2>9. ReadsWhatIsSimilar
    BY <1>0, <1>a, <2>5 DEF TypeOK, OpState
  <2>. QED
    BY <2>8, <2>9, RepeatsKeepsSim
<1>10. ASSUME NEW o \in Ops, InsertUndo(o) PROVE SimInv'
  <2>0. Pending' = Pending /\ index' = index
    BY <1>10 DEF Pending, InsertUndo
  <2>1. PICK call \in Outcome : KvWrite(ops[o].id, None, call)
    BY <1>10 DEF InsertUndo
  <2>2. ops[o].id \in Ids
    BY <1>0, <1>10 DEF TypeOK, Named, InsertUndo
  <2>3. \A j \in Ids : kv'[j] \in {kv[j], None}
    BY <1>0, <2>1, <2>2, KvWriteType
  <2>4. Repeats
    BY <1>0, <1>10, <2>0, <2>3, TellsOf DEF TypeOK, Repeats, Inserting, InsertUndo
  <2>5. ReadsWhatIsSimilar
    BY <1>0, <1>a, <1>10 DEF TypeOK, InsertUndo
  <2>. QED
    BY <2>4, <2>5, RepeatsKeepsSim
<1>11. ASSUME NEW o \in Ops, EvictIndex(o) PROVE SimInv'
  <2>1. PICK call \in Outcome :
          IndexWrite(ops[o].id, None, call) /\ Proceed(o, call, "evKv")
    BY <1>11 DEF EvictIndex
  <2>2. ops[o].id \in Ids
    BY <1>0, <1>11 DEF TypeOK, Named, EvictIndex
  <2>3. Pending' \in {Pending, Pending \cup {[id |-> ops[o].id, point |-> None]}}
    BY <1>0, <2>1, <2>2, IndexWriteAdds
  <2>4. Repeats
    BY <1>0, <1>11, <2>1, <2>2, <2>3, TellsOf DEF TypeOK, OpState, Repeats, Inserting, EvictIndex
  <2>5. ReadsWhatIsSimilar
    BY <1>0, <1>a, <2>1 DEF TypeOK, OpState
  <2>. QED
    BY <2>4, <2>5, RepeatsKeepsSim
<1>12. ASSUME NEW o \in Ops, EvictKv(o) PROVE SimInv'
  <2>0. Pending' = Pending /\ index' = index
    BY <1>12 DEF Pending, EvictKv
  <2>1. PICK call \in Outcome : KvWrite(ops[o].id, None, call)
    BY <1>12 DEF EvictKv
  <2>2. ops[o].id \in Ids
    BY <1>0, <1>12 DEF TypeOK, Named, EvictKv
  <2>3. \A j \in Ids : kv'[j] \in {kv[j], None}
    BY <1>0, <2>1, <2>2, KvWriteType
  <2>4. Repeats
    BY <1>0, <1>12, <2>0, <2>3, TellsOf DEF TypeOK, Repeats, Inserting, EvictKv
  <2>5. ReadsWhatIsSimilar
    BY <1>0, <1>a, <1>12 DEF TypeOK, EvictKv
  <2>. QED
    BY <2>4, <2>5, RepeatsKeepsSim
<1>13. CASE Apply
  <2>1. Head(backlog) \in Pending /\ Head(backlog) \in Write /\ Pending' \subseteq Pending
    BY <1>0, <1>13, ApplyTakesHead
  <2>2. \A i \in Ids : \/ index'[i] = index[i]
                       \/ Head(backlog).id = i /\ index'[i] = Head(backlog).point
    BY <1>0, <1>13 DEF TypeOK, Apply
  <2>3. kv' = kv /\ ops' = ops
    BY <1>13 DEF Apply
  <2>4. Repeats
    BY <2>1, <2>2, <2>3, TellsOf DEF Repeats
  <2>5. ReadsWhatIsSimilar
    BY <1>a, <2>3
  <2>. QED
    BY <2>4, <2>5, RepeatsKeepsSim
<1>14. ASSUME NEW i \in Ids, Expire(i) PROVE SimInv'
  <2>1. Pending' = Pending
    BY <1>14 DEF Pending, Expire
  <2>2. Repeats
    BY <1>0, <1>14, <2>1, TellsOf DEF TypeOK, Repeats, Expire
  <2>3. ReadsWhatIsSimilar
    BY <1>a, <1>14 DEF Expire
  <2>. QED
    BY <2>2, <2>3, RepeatsKeepsSim
<1>15. CASE Crash
  <2>1. Pending' = Pending
    BY <1>15 DEF Pending, Crash
  <2>2. Repeats
    BY <1>15, <2>1, TellsOf DEF Repeats, Inserting, Crash
  <2>3. ReadsWhatIsSimilar
    BY <1>a, <1>15 DEF Crash
  <2>. QED
    BY <2>2, <2>3, RepeatsKeepsSim
<1>16. CASE UNCHANGED vars
  <2>1. Pending' = Pending
    BY <1>16 DEF Pending, vars
  <2>2. Repeats
    BY <1>16, <2>1, TellsOf DEF Repeats, vars
  <2>3. ReadsWhatIsSimilar
    BY <1>a, <1>16 DEF vars
  <2>. QED
    BY <2>2, <2>3, RepeatsKeepsSim
<1>. QED
  BY <1>1, <1>2, <1>3, <1>4, <1>5, <1>6, <1>7, <1>8, <1>9, <1>10, <1>11, <1>12,
     <1>13, <1>14, <1>15, <1>16 DEF Next, Lookup, Insert, Evict

\* A hit that VectorStore.Lookup serves answers a prompt at least as similar
\* as the threshold asks, although the score is computed in one store and the
\* entry is read later from the other, for any similarity and any threshold.
THEOREM HitsAreSimilar == Spec => []HitIsSimilar
<1>1. SimInv => HitIsSimilar
  BY DEF SimInv
<1>2. IInv /\ SimInv /\ [Next]_vars => SimInv'
  BY NextSim
<1>. QED
  BY <1>1, <1>2, InitSim, Inductive, PTL DEF Spec

=============================================================================
