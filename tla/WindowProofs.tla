------------------------------ MODULE WindowProofs ------------------------------
(***************************************************************************)
(* Lemmas about the entropy window and the routing rule, for every size,   *)
(* threshold and early-exit count: what the recursive Total computes, and  *)
(* that the ring buffer and its running sum decide by the rule.            *)
(***************************************************************************)
EXTENDS EntropyWindow, SequenceTheorems, WellFoundedInduction, TLAPS

\* Induction over the naturals, for a set of numbers.
LEMMA SetInduction ==
    ASSUME NEW S, 0 \in S, \A n \in Nat : n \in S => n + 1 \in S
    PROVE  Nat \subseteq S
<1>. DEFINE T == Nat \ S   R == OpToRel(<, Nat)
<1>1. IsWellFoundedOn(R, Nat)
  BY NatLessThanWellFounded
<1>2. SUFFICES ASSUME T # {} PROVE FALSE
  OBVIOUS
<1>3. PICK x \in T : \A y \in T : ~(<<y, x>> \in R)
  BY <1>1, <1>2, WFMin
<1>4. x \in Nat /\ x # 0 /\ x - 1 \in Nat
  OBVIOUS
<1>5. x - 1 \in T => <<x - 1, x>> \in R
  BY <1>4 DEF OpToRel
<1>6. x - 1 \in S
  BY <1>3, <1>4, <1>5
<1>7. (x - 1) + 1 \in S
  BY <1>4, <1>6
<1>8. x \in S
  BY <1>4, <1>7
<1>. QED
  BY <1>8

-----------------------------------------------------------------------------
\* f gives the sum of the first n entries of s, for each n.
Sums(s, f) ==
    /\ f \in [0 .. Len(s) -> Int]
    /\ f[0] = 0
    /\ \A i \in 1 .. Len(s) : f[i] = f[i - 1] + s[i]

LEMMA SumsExist ==
    ASSUME NEW s \in Seq(Int)
    PROVE  \E f : Sums(s, f)
<1>. DEFINE Upto(n, f) == /\ f \in [0 .. n -> Int] /\ f[0] = 0
                          /\ \A i \in 1 .. n : f[i] = f[i - 1] + s[i]
            P(n) == n <= Len(s) => \E f : Upto(n, f)
            S == {n \in Nat : P(n)}
<1>0. Len(s) \in Nat
  OBVIOUS
<1>1. P(0)
  <2>1. Upto(0, [i \in 0 .. 0 |-> 0])
    OBVIOUS
  <2>. QED
    BY <2>1
<1>2. ASSUME NEW n \in Nat, P(n) PROVE P(n + 1)
  <2> SUFFICES ASSUME n + 1 <= Len(s) PROVE \E f : Upto(n + 1, f)
    OBVIOUS
  <2>0. n <= Len(s)
    BY <1>0
  <2>1. PICK f : Upto(n, f)
    <3>. HIDE DEF Upto
    <3>. QED
      BY <1>2, <2>0
  <2>. DEFINE g == [i \in 0 .. n + 1 |-> IF i <= n THEN f[i] ELSE f[n] + s[n + 1]]
  <2>2. s[n + 1] \in Int /\ f[n] \in Int
    BY <1>0, <2>1
  <2>3. g \in [0 .. n + 1 -> Int] /\ g[0] = 0
    BY <2>1, <2>2
  <2>4. ASSUME NEW i \in 1 .. n + 1 PROVE g[i] = g[i - 1] + s[i]
    <3>1. CASE i <= n
      BY <2>1, <3>1
    <3>2. CASE i = n + 1
      BY <2>1, <3>2
    <3>. QED
      BY <3>1, <3>2
  <2>. HIDE DEF g
  <2>. QED
    BY <2>3, <2>4
<1>3. P(Len(s))
  <2>. HIDE DEF P
  <2>1. 0 \in S /\ \A n \in Nat : n \in S => n + 1 \in S
    BY <1>1, <1>2
  <2>. HIDE DEF S
  <2>2. Len(s) \in S
    BY <1>0, <2>1, SetInduction
  <2>. QED
    BY <2>2 DEF S
<1>. QED
  BY <1>0, <1>3 DEF Sums

LEMMA SumsUnique ==
    ASSUME NEW s \in Seq(Int), NEW f, NEW g, Sums(s, f), Sums(s, g)
    PROVE  f = g
<1>. DEFINE S == {n \in Nat : n <= Len(s) => f[n] = g[n]}
<1>0. Len(s) \in Nat
  OBVIOUS
<1>1. 0 \in S
  BY DEF Sums
<1>2. ASSUME NEW n \in Nat, n \in S PROVE n + 1 \in S
  <2> SUFFICES ASSUME n + 1 <= Len(s) PROVE f[n + 1] = g[n + 1]
    OBVIOUS
  <2>1. n + 1 \in 1 .. Len(s) /\ (n + 1) - 1 = n /\ f[n] = g[n]
    BY <1>0, <1>2
  <2>. QED
    BY <2>1 DEF Sums
<1>3. Nat \subseteq S
  <2>. HIDE DEF S
  <2>. QED
    BY <1>1, <1>2, SetInduction
<1>4. \A n \in 0 .. Len(s) : f[n] = g[n]
  BY <1>0, <1>3
<1>. QED
  BY <1>4 DEF Sums

\* The recursive Total is the last of these sums.
LEMMA TotalIs ==
    ASSUME NEW s \in Seq(Int), NEW f, Sums(s, f)
    PROVE  Rule!Total(s) = f[Len(s)] /\ f[Len(s)] \in Int
<1>. DEFINE Rec(h) == h = [n \in 0 .. Len(s) |-> IF n = 0 THEN 0 ELSE h[n - 1] + s[n]]
            sum == CHOOSE h : Rec(h)
<1>0. Len(s) \in Nat
  OBVIOUS
<1>1. Rule!Total(s) = sum[Len(s)]
  BY DEF Rule!Total
<1>2. Rec(f)
  <2>1. ASSUME NEW n \in 0 .. Len(s) PROVE f[n] = IF n = 0 THEN 0 ELSE f[n - 1] + s[n]
    BY <1>0 DEF Sums
  <2>. QED
    BY <2>1 DEF Sums
<1>3. ASSUME NEW h, Rec(h) PROVE h = f
  <2>. DEFINE S == {n \in Nat : n <= Len(s) => h[n] = f[n]}
  <2>1. \A n \in 0 .. Len(s) : h[n] = IF n = 0 THEN 0 ELSE h[n - 1] + s[n]
    BY <1>3
  <2>2. \A n \in 0 .. Len(s) : f[n] = IF n = 0 THEN 0 ELSE f[n - 1] + s[n]
    BY <1>0 DEF Sums
  <2>3. 0 \in S
    BY <1>0, <2>1, <2>2
  <2>4. ASSUME NEW n \in Nat, n \in S PROVE n + 1 \in S
    <3> SUFFICES ASSUME n + 1 <= Len(s) PROVE h[n + 1] = f[n + 1]
      OBVIOUS
    <3>1. n + 1 \in 0 .. Len(s) /\ n + 1 # 0 /\ (n + 1) - 1 = n /\ h[n] = f[n]
      BY <1>0, <2>4
    <3>. QED
      BY <2>1, <2>2, <3>1
  <2>5. Nat \subseteq S
    <3>. HIDE DEF S
    <3>. QED
      BY <2>3, <2>4, SetInduction
  <2>6. \A n \in 0 .. Len(s) : h[n] = f[n]
    BY <1>0, <2>5
  <2>7. DOMAIN h = 0 .. Len(s) /\ h = [n \in 0 .. Len(s) |-> h[n]]
    BY <1>3
  <2>8. f = [n \in 0 .. Len(s) |-> f[n]]
    BY DEF Sums
  <2>. QED
    BY <2>6, <2>7, <2>8
<1>. HIDE DEF Rec
<1>4. sum = f
  <2>1. Rec(sum)
    BY <1>2, Zenon
  <2>. HIDE DEF sum
  <2>. QED
    BY <1>3, <2>1
<1>. HIDE DEF sum
<1>. QED
  BY <1>0, <1>1, <1>4 DEF Sums

LEMMA TotalOfEmpty == Rule!Total(<<>>) = 0
<1>. DEFINE f == [i \in 0 .. 0 |-> 0]
<1>1. <<>> \in Seq(Int) /\ Len(<<>>) = 0
  OBVIOUS
<1>2. Sums(<<>>, f)
  BY <1>1 DEF Sums
<1>. QED
  BY <1>1, <1>2, TotalIs

LEMMA TotalOfAppend ==
    ASSUME NEW s \in Seq(Int), NEW e \in Int
    PROVE  /\ Rule!Total(s) \in Int
           /\ Rule!Total(Append(s, e)) = Rule!Total(s) + e
<1>. DEFINE n == Len(s)   t == Append(s, e)
<1>1. PICK f : Sums(s, f)
  BY SumsExist
<1>2. n \in Nat /\ Rule!Total(s) = f[n] /\ f[n] \in Int
  BY <1>1, TotalIs
<1>3. t \in Seq(Int) /\ Len(t) = n + 1 /\ t[n + 1] = e /\ \A i \in 1 .. n : t[i] = s[i]
  BY AppendProperties
<1>. DEFINE g == [i \in 0 .. n + 1 |-> IF i <= n THEN f[i] ELSE f[n] + e]
<1>4. Sums(t, g)
  <2>1. g \in [0 .. n + 1 -> Int] /\ g[0] = 0
    BY <1>1, <1>2 DEF Sums
  <2>2. ASSUME NEW i \in 1 .. n + 1 PROVE g[i] = g[i - 1] + t[i]
    <3>1. CASE i <= n
      BY <1>1, <1>2, <1>3, <3>1 DEF Sums
    <3>2. CASE i = n + 1
      BY <1>1, <1>2, <1>3, <3>2 DEF Sums
    <3>. QED
      BY <1>2, <3>1, <3>2
  <2>. HIDE DEF g, t
  <2>. QED
    BY <1>3, <2>1, <2>2 DEF Sums
<1>5. g[n + 1] = f[n] + e
  BY <1>2
<1>. HIDE DEF g, t
<1>6. Rule!Total(t) = g[n + 1]
  BY <1>3, <1>4, TotalIs
<1>. QED
  BY <1>2, <1>5, <1>6 DEF t

LEMMA TotalOfTail ==
    ASSUME NEW s \in Seq(Int), s # <<>>
    PROVE  Rule!Total(Tail(s)) = Rule!Total(s) - s[1]
<1>. DEFINE n == Len(s)   t == Tail(s)
<1>1. PICK f : Sums(s, f)
  BY SumsExist
<1>2. n \in Nat /\ n > 0 /\ Rule!Total(s) = f[n] /\ f[n] \in Int /\ s[1] \in Int
  BY <1>1, TotalIs, EmptySeq, ElementOfSeq
<1>3. t \in Seq(Int) /\ Len(t) = n - 1 /\ \A i \in 1 .. n - 1 : t[i] = s[i + 1]
  BY HeadTailProperties
<1>. DEFINE g == [i \in 0 .. n - 1 |-> f[i + 1] - s[1]]
<1>4. Sums(t, g)
  <2>1. f \in [0 .. n -> Int] /\ f[0] = 0 /\ \A i \in 1 .. n : f[i] = f[i - 1] + s[i]
    BY <1>1 DEF Sums
  <2>2. g \in [0 .. n - 1 -> Int] /\ g[0] = 0
    BY <1>2, <2>1
  <2>3. ASSUME NEW i \in 1 .. n - 1 PROVE g[i] = g[i - 1] + t[i]
    <3>1. /\ i + 1 \in 1 .. n /\ (i + 1) - 1 = i /\ (i - 1) + 1 = i
          /\ i \in 0 .. n - 1 /\ i - 1 \in 0 .. n - 1 /\ i \in 0 .. n
      BY <1>2
    <3>2. f[i + 1] = f[i] + s[i + 1] /\ t[i] = s[i + 1] /\ f[i] \in Int /\ s[i + 1] \in Int
      BY <1>3, <2>1, <3>1, ElementOfSeq
    <3>3. g[i] = f[i + 1] - s[1] /\ g[i - 1] = f[i] - s[1]
      BY <3>1
    <3>. QED
      BY <1>2, <3>2, <3>3
  <2>. HIDE DEF g, t
  <2>. QED
    BY <1>3, <2>2, <2>3 DEF Sums
<1>5. g[n - 1] = f[n] - s[1]
  BY <1>2
<1>. HIDE DEF g, t
<1>6. Rule!Total(t) = g[n - 1]
  BY <1>3, <1>4, TotalIs
<1>. QED
  BY <1>2, <1>5, <1>6 DEF t

-----------------------------------------------------------------------------
\* The entries that count before and after one more.
LEMMA LastOfAppend ==
    ASSUME NEW s \in Seq(Int), NEW e \in Int
    PROVE  /\ Rule!LastEntries(s) \in Seq(Int)
           /\ Len(s) < Size => Rule!LastEntries(Append(s, e)) = Append(Rule!LastEntries(s), e)
           /\ Len(s) >= Size =>
                /\ Rule!LastEntries(s) # <<>>
                /\ Rule!LastEntries(s)[1] = s[Len(s) + 1 - Size]
                /\ Rule!LastEntries(Append(s, e)) = Append(Tail(Rule!LastEntries(s)), e)
<1>. DEFINE n == Len(s)   t == Append(s, e)
<1>0. n \in Nat /\ Size \in Nat \ {0} /\ \A i \in 1 .. n : s[i] \in Int
  BY WindowAssumption, ElementOfSeq
<1>1. t \in Seq(Int) /\ Len(t) = n + 1 /\ t[n + 1] = e /\ \A i \in 1 .. n : t[i] = s[i]
  BY AppendProperties
<1>. HIDE DEF t
<1>2. CASE n < Size
  <2>1. Rule!LastEntries(s) = s
    <3>1. (IF n > Size THEN n - Size + 1 ELSE 1) = 1
      BY <1>0, <1>2
    <3>2. SubSeq(s, 1, n) = s
      BY SubSeqFull
    <3>. QED
      BY <3>1, <3>2, Zenon DEF Rule!LastEntries
  <2>2. Rule!LastEntries(t) = t
    <3>1. (IF Len(t) > Size THEN Len(t) - Size + 1 ELSE 1) = 1
      BY <1>0, <1>1, <1>2
    <3>2. SubSeq(t, 1, Len(t)) = t
      BY <1>1, SubSeqFull
    <3>. QED
      BY <3>1, <3>2, Zenon DEF Rule!LastEntries
  <2>. QED
    BY <1>0, <1>2, <2>1, <2>2 DEF t
<1>3. CASE n >= Size
  <2>. DEFINE old == SubSeq(s, n - Size + 1, n)   new == SubSeq(t, n - Size + 2, n + 1)
  <2>1. Rule!LastEntries(s) = old
    <3>1. (IF n > Size THEN n - Size + 1 ELSE 1) = n - Size + 1
      BY <1>0, <1>3
    <3>. QED
      BY <3>1, Zenon DEF Rule!LastEntries
  <2>2. Rule!LastEntries(t) = new
    <3>1. (IF Len(t) > Size THEN Len(t) - Size + 1 ELSE 1) = n - Size + 2
      BY <1>0, <1>1, <1>3
    <3>. QED
      BY <1>1, <3>1, Zenon DEF Rule!LastEntries
  <2>3. /\ old \in Seq(Int) /\ Len(old) = Size
        /\ \A i \in 1 .. Size : old[i] = s[n - Size + i]
    <3>1. \A i \in n - Size + 1 .. n : s[i] \in Int
      BY <1>0, <1>3
    <3>2. n - Size + 1 \in Int /\ n \in Int
      BY <1>0
    <3>3. /\ old \in Seq(Int)
          /\ Len(old) = (IF n - Size + 1 <= n THEN n - (n - Size + 1) + 1 ELSE 0)
          /\ \A i \in 1 .. n - (n - Size + 1) + 1 : old[i] = s[n - Size + 1 + i - 1]
      BY <3>1, <3>2, SubSeqProperties
    <3>. HIDE DEF old
    <3>. QED
      BY <1>0, <1>3, <3>3
  <2>4. /\ new \in Seq(Int) /\ Len(new) = Size
        /\ \A i \in 1 .. Size : new[i] = t[n - Size + 1 + i]
    <3>1. \A i \in n - Size + 2 .. n + 1 : t[i] \in Int
      BY <1>0, <1>1, <1>3, ElementOfSeq
    <3>2. n - Size + 2 \in Int /\ n + 1 \in Int
      BY <1>0
    <3>3. /\ new \in Seq(Int)
          /\ Len(new) = (IF n - Size + 2 <= n + 1 THEN (n + 1) - (n - Size + 2) + 1 ELSE 0)
          /\ \A i \in 1 .. (n + 1) - (n - Size + 2) + 1 : new[i] = t[n - Size + 2 + i - 1]
      BY <3>1, <3>2, SubSeqProperties
    <3>. HIDE DEF new
    <3>. QED
      BY <1>0, <1>3, <3>3
  <2>. HIDE DEF old, new
  <2>5. old # <<>> /\ old[1] = s[n + 1 - Size]
    BY <1>0, <1>3, <2>3
  <2>6. /\ Tail(old) \in Seq(Int) /\ Len(Tail(old)) = Size - 1
        /\ \A i \in 1 .. Size - 1 : Tail(old)[i] = old[i + 1]
    BY <2>3, <2>5, HeadTailProperties
  <2>. DEFINE tail == Tail(old)   a == Append(tail, e)
  <2>. HIDE DEF tail
  <2>7. /\ a \in Seq(Int) /\ Len(a) = Size /\ a[Size] = e
        /\ \A i \in 1 .. Size - 1 : a[i] = tail[i]
    <3>1. /\ a \in Seq(Int) /\ Len(a) = Len(tail) + 1 /\ a[Len(tail) + 1] = e
          /\ \A i \in 1 .. Len(tail) : a[i] = tail[i]
      BY <2>6, AppendProperties DEF tail
    <3>. HIDE DEF a
    <3>. QED
      BY <1>0, <2>6, <3>1 DEF tail
  <2>. HIDE DEF a
  <2>8. ASSUME NEW i \in 1 .. Size PROVE new[i] = a[i]
    <3>1. CASE i = Size
      BY <1>0, <1>1, <1>3, <2>4, <2>7, <3>1
    <3>2. CASE i # Size
      <4>1. i \in 1 .. Size - 1 /\ i + 1 \in 1 .. Size /\ n - Size + 1 + i \in 1 .. n
            /\ n - Size + (i + 1) = n - Size + 1 + i
        BY <1>0, <1>3, <3>2
      <4>2. a[i] = s[n - Size + 1 + i]
        BY <2>3, <2>6, <2>7, <4>1 DEF tail
      <4>. QED
        BY <1>1, <2>4, <4>1, <4>2
    <3>. QED
      BY <3>1, <3>2
  <2>9. new = a
    BY <2>4, <2>7, <2>8, SeqEqual
  <2>. QED
    BY <1>0, <1>3, <2>1, <2>2, <2>3, <2>5, <2>9 DEF t, a, tail
<1>. QED
  BY <1>0, <1>2, <1>3

\* A ring's cursor wraps around at the size.
LEMMA CursorMoves ==
    ASSUME NEW pos \in Slots
    PROVE  (pos + 1) % Size = IF pos + 1 = Size THEN 0 ELSE pos + 1
BY WindowAssumption DEF Slots

-----------------------------------------------------------------------------
LEMMA NewTracks == Tracks(NewWindow, <<>>)
<1>1. Rule!LastEntries(<<>>) = <<>>
  BY WindowAssumption, SubSeqEmpty DEF Rule!LastEntries
<1>. QED
  BY <1>1, TotalOfEmpty, WindowAssumption DEF Tracks, NewWindow, Slots

\* Add keeps the window in step with the entropies added.
LEMMA AddTracks ==
    ASSUME NEW w, NEW s \in Seq(Nat), Tracks(w, s), NEW e \in Nat
    PROVE  Tracks(AddToWindow(w, e), Append(s, e))
<1>. DEFINE n == Len(s)   t == Append(s, e)   v == AddToWindow(w, e)
            Slot(p, j) == IF j <= p THEN p - j ELSE p - j + Size
            buf == w.buf   pos == w.pos
<1>0. /\ n \in Nat /\ Size \in Nat \ {0} /\ s \in Seq(Int) /\ e \in Int
      /\ \A i \in 1 .. n : s[i] \in Nat
  BY WindowAssumption, ElementOfSeq
<1>1. /\ buf \in [Slots -> Nat] /\ pos \in Slots /\ w.count = n /\ w.sum \in Int
      /\ w.filled \in BOOLEAN /\ (w.filled <=> n >= Size)
      /\ w.sum = Rule!Total(Rule!LastEntries(s))
      /\ \A j \in 1 .. Size : j <= n => buf[Slot(pos, j)] = s[n + 1 - j]
  BY DEF Tracks
<1>2. t \in Seq(Nat) /\ Len(t) = n + 1 /\ t[n + 1] = e /\ \A i \in 1 .. n : t[i] = s[i]
  BY AppendProperties
<1>3. /\ v.buf = [buf EXCEPT ![pos] = e] /\ v.pos = (pos + 1) % Size /\ v.count = n + 1
      /\ v.sum = w.sum - (IF w.filled THEN buf[pos] ELSE 0) + e
      /\ v.filled = (w.filled \/ n + 1 >= Size)
      /\ v = [buf |-> v.buf, pos |-> v.pos, count |-> v.count, sum |-> v.sum, filled |-> v.filled]
  BY <1>1 DEF AddToWindow
<1>. HIDE DEF t, v, buf, pos
<1>4. v.pos = (IF pos + 1 = Size THEN 0 ELSE pos + 1) /\ v.pos \in Slots
  BY <1>0, <1>1, <1>3, CursorMoves DEF Slots
<1>5. v.buf \in [Slots -> Nat] /\ v.buf[pos] = e /\ \A i \in Slots \ {pos} : v.buf[i] = buf[i]
  BY <1>1, <1>3
<1>6. ASSUME NEW j \in 1 .. Size, j <= n + 1
      PROVE  v.buf[Slot(v.pos, j)] = t[(n + 1) + 1 - j]
  <2>1. CASE j = 1
    <3>1. Slot(v.pos, j) = pos /\ (n + 1) + 1 - j = n + 1
      BY <1>0, <1>1, <1>4, <2>1 DEF Slots
    <3>. QED
      BY <1>2, <1>5, <3>1
  <2>2. CASE j # 1
    <3>1. j - 1 \in 1 .. Size /\ j - 1 <= n /\ j - 1 < Size
      BY <1>0, <1>6, <2>2
    <3>2. /\ Slot(v.pos, j) = Slot(pos, j - 1)
          /\ Slot(pos, j - 1) \in Slots /\ Slot(pos, j - 1) # pos
      BY <1>0, <1>1, <1>4, <3>1 DEF Slots
    <3>3. buf[Slot(pos, j - 1)] = s[n + 1 - (j - 1)]
      BY <1>1, <3>1
    <3>4. n + 1 - (j - 1) = (n + 1) + 1 - j /\ n + 1 - (j - 1) \in 1 .. n
      BY <1>0, <1>6, <2>2
    <3>. HIDE DEF Slot
    <3>. QED
      BY <1>2, <1>5, <3>2, <3>3, <3>4
  <2>. QED
    BY <2>1, <2>2
<1>7. v.sum = Rule!Total(Rule!LastEntries(t)) /\ v.sum \in Int
  <2>1. Rule!LastEntries(s) \in Seq(Int)
    BY <1>0, LastOfAppend
  <2>2. CASE n < Size
    <3>1. Rule!LastEntries(t) = Append(Rule!LastEntries(s), e)
      BY <1>0, <2>2, LastOfAppend DEF t
    <3>2. Rule!Total(Rule!LastEntries(t)) = w.sum + e
      BY <1>0, <1>1, <2>1, <3>1, TotalOfAppend
    <3>3. ~w.filled
      BY <1>0, <1>1, <2>2
    <3>. QED
      BY <1>0, <1>1, <1>3, <3>2, <3>3
  <2>3. CASE n >= Size
    <3>. DEFINE last == Rule!LastEntries(s)
    <3>1. last # <<>> /\ last[1] = s[n + 1 - Size] /\ Rule!LastEntries(t) = Append(Tail(last), e)
      BY <1>0, <2>3, LastOfAppend DEF t
    <3>. HIDE DEF last
    <3>2. Tail(last) \in Seq(Int)
      BY <2>1, <3>1, HeadTailProperties DEF last
    <3>3. Rule!Total(Tail(last)) = w.sum - last[1]
      BY <1>1, <2>1, <3>1, TotalOfTail DEF last
    <3>4. Rule!Total(Rule!LastEntries(t)) = w.sum - last[1] + e
      BY <1>0, <3>1, <3>2, <3>3, TotalOfAppend
    <3>5. w.filled /\ buf[pos] = s[n + 1 - Size] /\ buf[pos] \in Nat
      <4>1. Size \in 1 .. Size /\ Size <= n /\ Slot(pos, Size) = pos
        BY <1>0, <1>1, <2>3 DEF Slots
      <4>. HIDE DEF Slot
      <4>. QED
        BY <1>0, <1>1, <2>3, <4>1
    <3>. QED
      BY <1>0, <1>1, <1>3, <3>1, <3>4, <3>5
  <2>. QED
    BY <1>0, <2>2, <2>3
<1>8. v.filled \in BOOLEAN /\ (v.filled <=> n + 1 >= Size)
  <2>1. (n >= Size => n + 1 >= Size) /\ (w.filled <=> n >= Size)
    BY <1>0, <1>1
  <2>2. v.filled = (w.filled \/ n + 1 >= Size)
    BY <1>3
  <2>. QED
    BY <2>1, <2>2, Zenon
<1>9. v \in [buf : [Slots -> Nat], pos : Slots, count : Nat, sum : Int, filled : BOOLEAN]
  <2>1. /\ v.buf \in [Slots -> Nat] /\ v.pos \in Slots /\ v.count \in Nat /\ v.sum \in Int
        /\ v.filled \in BOOLEAN
    BY <1>0, <1>3, <1>4, <1>5, <1>7, <1>8
  <2>2. v = [buf |-> v.buf, pos |-> v.pos, count |-> v.count, sum |-> v.sum, filled |-> v.filled]
    BY <1>3
  <2>. QED
    BY <2>1, <2>2, Zenon
<1>. QED
  BY <1>0, <1>2, <1>3, <1>6, <1>7, <1>8, <1>9 DEF Tracks, t, v

\* The decision of Add, on a window in step with s, is the documented rule's.
LEMMA EscalatesIsRule ==
    ASSUME NEW w, NEW s \in Seq(Nat), s # <<>>, Tracks(w, s)
    PROVE  Escalates(w, s[Len(s)]) <=> Rule!Crosses(s)
<1>1. /\ Len(s) \in Nat /\ w.count = Len(s) /\ (w.filled <=> Len(s) >= Size)
      /\ w.sum = Rule!Total(Rule!LastEntries(s)) /\ Size \in Nat \ {0}
  BY WindowAssumption DEF Tracks
<1>2. Len(s) >= Size => (IF w.count > Size THEN Size ELSE w.count) = Size
  BY <1>1
<1>. QED
  BY <1>1, <1>2 DEF Escalates, AverageExceeds, Rule!Crosses

\* One more token adds at most its own position to the crossings.
LEMMA CrossingsOfAppend ==
    ASSUME NEW s \in Seq(Nat), NEW e \in Nat
    PROVE  Rule!Crossings(Append(s, e)) =
             Rule!Crossings(s) \cup (IF Rule!Crosses(Append(s, e)) THEN {Len(s) + 1} ELSE {})
<1>. DEFINE t == Append(s, e)   m == Len(s)
<1>1. t \in Seq(Nat) /\ Len(t) = m + 1 /\ m \in Nat
  BY AppendProperties
<1>2. SubSeq(t, 1, m + 1) = t
  BY <1>1, SubSeqFull
<1>3. \A n \in 1 .. m : SubSeq(t, 1, n) = SubSeq(s, 1, n)
  <2> SUFFICES ASSUME NEW n \in 1 .. m PROVE SubSeq(t, 1, n) = SubSeq(s, 1, n)
    OBVIOUS
  <2>1. t = s \o <<e>> /\ <<e>> \in Seq(Nat) /\ 1 \in 1 .. Len(s) /\ n \in 1 .. Len(s)
    BY AppendIsConcat
  <2>. QED
    BY <2>1, SubSeqOfConcat1
<1>4. 1 .. m + 1 = (1 .. m) \cup {m + 1}
  BY <1>1
<1>. HIDE DEF t
<1>. QED
  BY <1>1, <1>2, <1>3, <1>4 DEF Rule!Crossings, t

=============================================================================
