------------------------ MODULE WorkerCachesProofs --------------------------
(***************************************************************************)
(* What the handlers of WorkerCaches do to a sound worker: one whose       *)
(* caches are one request's or one snapshot's each, are placed on their    *)
(* slots and hold the tokens they are matched by.  Each lemma is about any *)
(* worker, before and after one handler; MbltWorkerProofs composes them.   *)
(***************************************************************************)
EXTENDS WorkerCaches, RuntimeCacheProofs, SequenceTheorems

-----------------------------------------------------------------------------
(* Sequences and numbers.                                                  *)

\* No entry of s is there twice.
Injective(s) == \A i, j \in 1 .. Len(s) : s[i] = s[j] => i = j

\* Induction, with the property as a set of numbers.
LEMMA NatSetInduction ==
  ASSUME NEW S, 0 \in S, \A n \in Nat : n \in S => n + 1 \in S
  PROVE  Nat \subseteq S
<1> DEFINE rest == Nat \ S
<1> SUFFICES ASSUME rest # {} PROVE FALSE
  OBVIOUS
<1>1. PICK n \in rest : \A k \in rest : n <= k
  BY LeastNatural
<1>2. n \in Nat /\ n # 0
  OBVIOUS
<1>3. n - 1 \in Nat /\ (n - 1) + 1 = n
  BY <1>2
<1>4. n - 1 \notin rest
  BY <1>1, <1>3
<1> QED
  BY <1>3, <1>4

\* The values of g on 0 .. N, each from the one before.
Recurs(g, N, V, first, next) ==
  /\ g \in [0 .. N -> V] /\ g[0] = first
  /\ \A k \in 1 .. N : g[k] = next[<<k, g[k - 1]>>]

\* A function defined by recursion exists.
LEMMA RecursionExists ==
  ASSUME NEW N \in Nat, NEW V, NEW first \in V, NEW next,
         \A n \in 1 .. N, v \in V : next[<<n, v>>] \in V
  PROVE  \E g : Recurs(g, N, V, first, next)
<1> DEFINE IsPart(n, g) == Recurs(g, n, V, first, next)
           S == {n \in Nat : n <= N => \E g : IsPart(n, g)}
<1>1. 0 \in S
  <2>1. IsPart(0, [k \in 0 .. 0 |-> first])
    BY DEF Recurs
  <2> HIDE DEF IsPart
  <2> QED BY <2>1
<1>2. ASSUME NEW n \in Nat, n \in S PROVE n + 1 \in S
  <2> SUFFICES ASSUME n + 1 <= N PROVE \E g : IsPart(n + 1, g)
    OBVIOUS
  <2>1. PICK g : IsPart(n, g)
    BY <1>2
  <2>2. g \in [0 .. n -> V] /\ g[0] = first /\ \A k \in 1 .. n : g[k] = next[<<k, g[k - 1]>>]
    BY <2>1 DEF Recurs
  <2> DEFINE h == [k \in 0 .. n + 1 |-> IF k <= n THEN g[k] ELSE next[<<n + 1, g[n]>>]]
  <2>3. g[n] \in V /\ \A k \in 0 .. n : g[k] \in V
    BY <2>2
  <2>4. n + 1 \in 1 .. N
    OBVIOUS
  <2>5. next[<<n + 1, g[n]>>] \in V
    BY <2>3, <2>4
  <2>6. h \in [0 .. n + 1 -> V]
    BY <2>3, <2>5
  <2>7. /\ \A k \in 0 .. n : h[k] = g[k]
        /\ h[n + 1] = next[<<n + 1, g[n]>>]
    OBVIOUS
  <2> HIDE DEF h
  <2>8. h[0] = first
    BY <2>2, <2>7
  <2>9. ASSUME NEW k \in 1 .. n + 1 PROVE h[k] = next[<<k, h[k - 1]>>]
    <3>1. CASE k \in 1 .. n
      <4>1. k \in 0 .. n /\ k - 1 \in 0 .. n
        BY <3>1
      <4> QED BY <2>2, <2>7, <3>1, <4>1
    <3>2. CASE k = n + 1
      <4>1. k - 1 = n /\ n \in 0 .. n
        BY <3>2
      <4>2. h[k - 1] = g[n]
        BY <2>7, <4>1
      <4> QED BY <2>7, <3>2, <4>2
    <3>3. k \in 1 .. n \/ k = n + 1
      OBVIOUS
    <3> QED BY <3>1, <3>2, <3>3
  <2>10. IsPart(n + 1, h)
    BY <2>6, <2>8, <2>9 DEF Recurs
  <2> HIDE DEF IsPart
  <2> QED BY <2>10
<1>3. N \in S
  <2> HIDE DEF S
  <2>1. Nat \subseteq S
    BY <1>1, <1>2, NatSetInduction
  <2> QED BY <2>1
<1>4. PICK g : IsPart(N, g)
  <2> HIDE DEF IsPart
  <2>1. N <= N
    OBVIOUS
  <2> QED BY <1>3, <2>1
<1> QED BY <1>4

LEMMA EntriesOf ==
  ASSUME NEW T, NEW s \in Seq(T)
  PROVE  /\ Len(s) \in Nat /\ DOMAIN s = 1 .. Len(s) /\ \A i \in 1 .. Len(s) : s[i] \in T
         /\ Entries(s) \subseteq T
         /\ Entries(s) = {} <=> s = <<>>
<1>1. Len(s) \in Nat /\ DOMAIN s = 1 .. Len(s) /\ \A i \in 1 .. Len(s) : s[i] \in T
  BY LenProperties, ElementOfSeq
<1>2. s = <<>> <=> Len(s) = 0
  BY EmptySeq
<1> QED BY <1>1, <1>2 DEF Entries

\* What appending does to the entries.
LEMMA EntriesOfAppend ==
  ASSUME NEW T, NEW s \in Seq(T), NEW x \in T
  PROVE  /\ Append(s, x) \in Seq(T) /\ Entries(Append(s, x)) = Entries(s) \cup {x}
         /\ Len(Append(s, x)) = Len(s) + 1
         /\ \A i \in 1 .. Len(s) : Append(s, x)[i] = s[i]
         /\ Append(s, x)[Len(s) + 1] = x
         /\ Injective(s) /\ x \notin Entries(s) => Injective(Append(s, x))
<1>1. Append(s, x) \in Seq(T) /\ Len(Append(s, x)) = Len(s) + 1
  OBVIOUS
<1>2. \A i \in 1 .. Len(s) : Append(s, x)[i] = s[i]
  OBVIOUS
<1>3. Append(s, x)[Len(s) + 1] = x
  OBVIOUS
<1>4. Len(s) \in Nat
  BY EntriesOf
<1>5. Entries(Append(s, x)) = Entries(s) \cup {x}
  BY <1>1, <1>2, <1>3, <1>4 DEF Entries
<1>6. Injective(s) /\ x \notin Entries(s) => Injective(Append(s, x))
  BY <1>1, <1>2, <1>3, <1>4 DEF Entries, Injective
<1> QED BY <1>1, <1>2, <1>3, <1>5, <1>6

\* The entries of what is left of a sequence are those not taken out.
LEMMA WithoutIs ==
  ASSUME NEW T, NEW s \in Seq(T), NEW S
  PROVE  /\ Without(s, S) \in Seq(T)
         /\ \A x : x \in Entries(Without(s, S)) <=> x \in Entries(s) /\ x \notin S
         /\ Injective(s) => Injective(Without(s, S))
         /\ Len(Without(s, S)) <= Len(s)
<1> DEFINE N    == Len(s)
           V    == Seq(T)
           next == [a \in (1 .. N) \X V |-> IF s[a[1]] \in S THEN a[2] ELSE Append(a[2], s[a[1]])]
           IsKept(g) == g = [n \in 0 .. N |-> IF n = 0 THEN <<>>
                              ELSE IF s[n] \in S THEN g[n - 1] ELSE Append(g[n - 1], s[n])]
           kept == CHOOSE g : IsKept(g)
<1>1. N \in Nat /\ \A n \in 1 .. N : s[n] \in T
  BY EntriesOf
<1>2. <<>> \in V
  OBVIOUS
<1>3. next \in [(1 .. N) \X V -> V]
  <2>1. ASSUME NEW a \in (1 .. N) \X V PROVE
           (IF s[a[1]] \in S THEN a[2] ELSE Append(a[2], s[a[1]])) \in V
    <3>1. a[1] \in 1 .. N /\ a[2] \in Seq(T)
      OBVIOUS
    <3>2. Append(a[2], s[a[1]]) \in Seq(T)
      BY <1>1, <3>1, EntriesOfAppend
    <3> QED BY <3>1, <3>2
  <2> HIDE DEF V
  <2> QED BY <2>1
<1>4. \A n \in 1 .. N, v \in V : next[<<n, v>>] = IF s[n] \in S THEN v ELSE Append(v, s[n])
  OBVIOUS
<1>4a. \A n \in 1 .. N, v \in V : next[<<n, v>>] \in V
  <2> TAKE n \in 1 .. N, v \in V
  <2>1. <<n, v>> \in (1 .. N) \X V
    OBVIOUS
  <2> HIDE DEF next, V
  <2> QED BY <1>3, <2>1
<1> HIDE DEF next, V
<1>5. PICK h : Recurs(h, N, V, <<>>, next)
  <2> HIDE DEF N
  <2> QED BY <1>1, <1>2, <1>4a, RecursionExists
<1>5a. h \in [0 .. N -> V] /\ h[0] = <<>> /\ \A n \in 1 .. N : h[n] = next[<<n, h[n - 1]>>]
  BY <1>5 DEF Recurs
<1>6. IsKept(h)
  <2>1. \A n \in 0 .. N : h[n] = IF n = 0 THEN <<>>
                              ELSE IF s[n] \in S THEN h[n - 1] ELSE Append(h[n - 1], s[n])
    <3> TAKE n \in 0 .. N
    <3>1. n # 0 => n \in 1 .. N /\ n - 1 \in 0 .. N
      BY <1>1
    <3>2. n # 0 => h[n] = next[<<n, h[n - 1]>>] /\ h[n - 1] \in V
      BY <1>5a, <3>1
    <3> QED BY <1>4, <1>5a, <3>1, <3>2
  <2>2. h = [n \in 0 .. N |-> h[n]]
    BY <1>5a
  <2> QED BY <2>1, <2>2
<1>7. IsKept(kept)
  <2> HIDE DEF IsKept
  <2> QED BY <1>6
<1>8. kept[0] = <<>> /\ \A n \in 1 .. N : kept[n] = IF s[n] \in S THEN kept[n - 1] ELSE Append(kept[n - 1], s[n])
  <2> HIDE DEF kept
  <2>1. \A n \in 0 .. N : kept[n] = IF n = 0 THEN <<>>
                              ELSE IF s[n] \in S THEN kept[n - 1] ELSE Append(kept[n - 1], s[n])
    BY <1>7
  <2> QED BY <1>1, <2>1
<1>9. Without(s, S) = kept[N]
  BY DEF Without
<1> HIDE DEF kept
<1> DEFINE Good(n) == /\ kept[n] \in Seq(T) /\ Len(kept[n]) <= n
                      /\ \A x : x \in Entries(kept[n]) <=> x \notin S /\ \E i \in 1 .. n : s[i] = x
                      /\ Injective(s) => Injective(kept[n])
           I == {n \in Nat : n <= N => Good(n)}
<1>10. 0 \in I
  <2>1. <<>> \in Seq(T) /\ Len(<<>>) = 0
    OBVIOUS
  <2>2. Entries(<<>>) = {} /\ Injective(<<>>)
    BY <2>1 DEF Entries, Injective
  <2>3. Good(0)
    BY <1>8, <2>1, <2>2
  <2> QED BY <2>3
<1>11. ASSUME NEW n \in Nat, n \in I PROVE n + 1 \in I
  <2> SUFFICES ASSUME n + 1 <= N PROVE Good(n + 1)
    OBVIOUS
  <2>1. n + 1 \in 1 .. N /\ (n + 1) - 1 = n /\ n <= N
    BY <1>1
  <2> DEFINE k == n + 1
  <2>2. k \in 1 .. N /\ s[k] \in T /\ kept[k] = IF s[k] \in S THEN kept[n] ELSE Append(kept[n], s[k])
    BY <1>1, <1>8, <2>1
  <2>3. k \in Nat /\ k = n + 1 /\ (\A i : i \in 1 .. k <=> i \in 1 .. n \/ i = k) /\ k \notin 1 .. n
    OBVIOUS
  <2> HIDE DEF k
  <2>4. Good(n)
    BY <1>11, <2>1
  <2>7. Good(k)
    <3>5. CASE s[k] \in S
      BY <2>2, <2>3, <2>4, <3>5
    <3>6. CASE s[k] \notin S
      <4>1. /\ kept[k] = Append(kept[n], s[k])
            /\ Append(kept[n], s[k]) \in Seq(T)
            /\ Entries(Append(kept[n], s[k])) = Entries(kept[n]) \cup {s[k]}
            /\ Len(Append(kept[n], s[k])) = Len(kept[n]) + 1
            /\ Injective(kept[n]) /\ s[k] \notin Entries(kept[n]) => Injective(Append(kept[n], s[k]))
        BY <2>2, <2>4, <3>6, EntriesOfAppend
      <4>2. Injective(s) => s[k] \notin Entries(kept[n])
        <5> SUFFICES ASSUME Injective(s), NEW i \in 1 .. n, s[i] = s[k] PROVE FALSE
          BY <2>4
        <5>1. i \in 1 .. N /\ k \in 1 .. N /\ i # k
          BY <2>2, <2>3, <1>1
        <5> QED BY <5>1 DEF Injective
      <4>3. Len(kept[n]) \in Nat
        BY <2>4, EntriesOf
      <4>4. kept[k] \in Seq(T) /\ Len(kept[k]) <= k
        BY <4>1, <4>3, <2>3, <2>4
      <4>5. \A x : x \in Entries(kept[k]) <=> x \notin S /\ \E i \in 1 .. k : s[i] = x
        BY <4>1, <2>3, <2>4, <3>6
      <4>6. Injective(s) => Injective(kept[k])
        BY <4>1, <4>2, <2>4
      <4> QED BY <4>4, <4>5, <4>6, Zenon
    <3> QED BY <3>5, <3>6
  <2> QED BY <2>7 DEF k
<1>12. N \in I
  <2> HIDE DEF I
  <2>1. Nat \subseteq I
    BY <1>10, <1>11, NatSetInduction
  <2> QED BY <1>1, <2>1
<1>13. Good(N)
  BY <1>1, <1>12
<1>14. \A x : x \in Entries(s) <=> \E i \in 1 .. N : s[i] = x
  BY DEF Entries
<1> QED BY <1>9, <1>13, <1>14

LEMMA WithinIs ==
  ASSUME NEW T, NEW s \in Seq(T), NEW S
  PROVE  /\ Within(s, S) \in Seq(T)
         /\ \A x : x \in Entries(Within(s, S)) <=> x \in Entries(s) /\ x \in S
         /\ Injective(s) => Injective(Within(s, S))
<1>1. /\ Without(s, Entries(s) \ S) \in Seq(T)
      /\ \A x : x \in Entries(Without(s, Entries(s) \ S)) <=> x \in Entries(s) /\ x \notin Entries(s) \ S
      /\ Injective(s) => Injective(Without(s, Entries(s) \ S))
  BY WithoutIs
<1> QED BY <1>1 DEF Within

LEMMA FirstEntries ==
  ASSUME NEW T, NEW s \in Seq(T), NEW k \in 0 .. Len(s)
  PROVE  /\ SubSeq(s, 1, k) \in Seq(T) /\ Len(SubSeq(s, 1, k)) = k
         /\ \A i \in 1 .. k : SubSeq(s, 1, k)[i] = s[i]
         /\ k < Len(s) => SubSeq(s, 1, k + 1) = Append(SubSeq(s, 1, k), s[k + 1])
<1>1. Len(s) \in Nat /\ \A i \in 1 .. Len(s) : s[i] \in T
  BY EntriesOf
<1>2. k \in Int /\ 1 \in Int /\ \A i \in 1 .. k : s[i] \in T
  BY <1>1
<1>3. /\ SubSeq(s, 1, k) \in Seq(T) /\ Len(SubSeq(s, 1, k)) = (IF 1 <= k THEN k - 1 + 1 ELSE 0)
      /\ \A i \in 1 .. k - 1 + 1 : SubSeq(s, 1, k)[i] = s[1 + i - 1]
  BY <1>2, SubSeqProperties
<1>4. SubSeq(s, 1, k) \in Seq(T) /\ Len(SubSeq(s, 1, k)) = k
  BY <1>2, <1>3
<1>5. \A i \in 1 .. k : SubSeq(s, 1, k)[i] = s[i]
  <2> TAKE i \in 1 .. k
  <2>1. i \in 1 .. k - 1 + 1 /\ 1 + i - 1 = i
    BY <1>2
  <2> QED BY <1>3, <2>1
<1>7. ASSUME k < Len(s) PROVE SubSeq(s, 1, k + 1) = Append(SubSeq(s, 1, k), s[k + 1])
  <2> DEFINE n == k + 1
  <2>1. n \in 1 .. Len(s) /\ 1 \in 1 .. Len(s) /\ n - 1 = k /\ n = k + 1
    BY <1>1, <1>7
  <2>2. s[n] \in T
    BY <1>1, <2>1
  <2> HIDE DEF n
  <2>3. SubSeq(s, 1, n) = SubSeq(s, 1, n - 1) \o <<s[n]>>
    BY <2>1, SubSeqRecursiveSecond
  <2>4. Append(SubSeq(s, 1, k), s[n]) = SubSeq(s, 1, k) \o <<s[n]>>
    BY <1>4, <2>2, AppendIsConcat
  <2> QED BY <2>1, <2>3, <2>4
<1> QED BY <1>4, <1>5, <1>7

LEMMA RequiredBlocksType ==
  ASSUME NEW tokens \in Nat
  PROVE  RequiredBlocks(tokens) \in Nat
<1>1. BlockSize \in Nat /\ BlockSize > 0
  BY BlockSizeAssumption
<1>2. tokens + BlockSize - 1 \in Nat
  BY <1>1
<1>3. (tokens + BlockSize - 1) \div BlockSize \in Nat
  BY <1>1, <1>2
<1> QED BY <1>3 DEF RequiredBlocks

-----------------------------------------------------------------------------
(* The cache objects and the slots' owners.                                *)

InUse == [row : Slot, tokens : Seq(Text)]

Reasons == {"copy", "offload", "bind"}

Kvs ==
  [obj : [Cache -> InUse \cup {Unused}], owner : [Slot -> Cache \cup {None}],
   dumps : SUBSET [of : Cache, by : Reasons]]

LEMMA NoneIs ==
  /\ None \notin Req /\ None \notin Slot /\ None \notin Cache /\ 0 \in Slot
  /\ Unused.row = None /\ Unused.tokens = <<>> /\ Unused \notin InUse
  /\ ~Batch => Slot = {0}
<1>1. None \notin Req /\ None \notin Slot /\ None \notin Cache
  BY NoneAssumption, CacheAssumption DEF Slot
<1>2. MaxSlots \in Nat /\ MaxSlots > 0
  BY SlotAssumption, WorkerAssumption
<1>3. 0 \in Slot
  BY <1>2 DEF Slot
<1>4. ~Batch => Slot = {0}
  <2> SUFFICES ASSUME ~Batch PROVE Slot = {0}
    OBVIOUS
  <2>1. ~(MaxSlots > 1)
    BY WorkerAssumption
  <2>2. MaxSlots = 1
    BY <1>2, <2>1
  <2> QED BY <2>2 DEF Slot
<1>5. Unused.row = None /\ Unused.tokens = <<>>
  BY DEF Unused
<1>6. Unused \notin InUse
  BY <1>1, <1>5 DEF InUse
<1> QED BY <1>1, <1>3, <1>4, <1>5, <1>6

LEMMA InUseIs ==
  ASSUME NEW kv \in Kvs, NEW c \in Cache, kv.obj[c] # Unused \/ kv.obj[c].row # None
  PROVE  /\ kv.obj[c] \in InUse /\ kv.obj[c].row \in Slot /\ kv.obj[c].row # None
         /\ kv.obj[c].tokens \in Seq(Text) /\ Len(kv.obj[c].tokens) \in Nat
<1>1. kv.obj[c] \in InUse
  BY NoneIs DEF Kvs
<1>2. kv.obj[c].row \in Slot /\ kv.obj[c].tokens \in Seq(Text)
  BY <1>1 DEF InUse
<1> QED BY <1>1, <1>2, NoneIs, EntriesOf

\* The one dump k adds is of c.
Dumps(kv, k, c, by) == \A x \in k.dumps : x \in kv.dumps \/ (x.of = c /\ x.by = by)

LEMMA DumpIs ==
  ASSUME NEW kv \in Kvs, NEW c \in Cache, NEW by \in Reasons, NEW k, k = Dump(kv, c, by)
  PROVE  /\ k \in Kvs /\ k.obj = kv.obj /\ k.owner = kv.owner
         /\ Dumps(kv, k, c, by)
<1> DEFINE x == [of |-> c, by |-> by]
<1>1. k = kv \/ k = [kv EXCEPT !.dumps = @ \cup {x}]
  BY DEF Dump
<1>2. x \in [of : Cache, by : Reasons]
  OBVIOUS
<1> HIDE DEF x
<1>3. CASE k = kv
  BY <1>3 DEF Dumps
<1>4. CASE k = [kv EXCEPT !.dumps = @ \cup {x}]
  BY <1>2, <1>4 DEF Kvs, x, Dumps
<1> QED BY <1>1, <1>3, <1>4

\* Only the object of c differs.
Alike(kv, k, c) == \A d \in Cache \ {c} : k.obj[d] = kv.obj[d]

\* y is what x becomes when cut to n tokens.
Cut(x, y, n) ==
  /\ y.row = x.row /\ Len(y.tokens) = Least(n, Len(x.tokens))
  /\ \A i \in 1 .. Len(y.tokens) : y.tokens[i] = x.tokens[i]

LEMMA SetSeqLengthIs ==
  ASSUME NEW kv \in Kvs, NEW c \in Cache, kv.obj[c] # Unused, NEW n \in Nat,
         NEW k, k = SetSeqLength(kv, c, n)
  PROVE  /\ k \in Kvs /\ k.owner = kv.owner /\ k.dumps = kv.dumps
         /\ Alike(kv, k, c)
         /\ Cut(kv.obj[c], k.obj[c], n) /\ k.obj[c] # Unused /\ k.obj[c].row = kv.obj[c].row
<1> DEFINE old == kv.obj[c].tokens
           m   == Least(n, Len(old))
           new == SubSeq(old, 1, m)
           x   == [row |-> kv.obj[c].row, tokens |-> new]
<1>1. kv.obj[c] \in InUse /\ kv.obj[c].row \in Slot /\ old \in Seq(Text) /\ Len(old) \in Nat
  BY InUseIs
<1>2. m \in 0 .. Len(old)
  BY <1>1 DEF Least
<1> HIDE DEF m, old
<1>3. new \in Seq(Text) /\ Len(new) = m /\ \A i \in 1 .. m : new[i] = old[i]
  BY <1>1, <1>2, FirstEntries
<1> HIDE DEF new
<1>4. x \in InUse /\ x.row = kv.obj[c].row /\ x.tokens = new
  BY <1>1, <1>3 DEF InUse
<1>5. [kv.obj[c] EXCEPT !.tokens = new] = x
  BY <1>1 DEF InUse
<1>6. k = [kv EXCEPT !.obj[c] = x]
  <2>1. k = [kv EXCEPT !.obj[c] = [kv.obj[c] EXCEPT !.tokens = new]]
    BY DEF SetSeqLength, new, m, old, Kvs
  <2> QED BY <1>5, <2>1
<1> HIDE DEF x
<1>7. /\ k \in Kvs /\ k.owner = kv.owner /\ k.dumps = kv.dumps
      /\ Alike(kv, k, c)
      /\ k.obj[c] = x
  BY <1>4, <1>6 DEF Kvs, Alike
<1>8. Cut(kv.obj[c], x, n)
  BY <1>3, <1>4 DEF Cut, m, old
<1> QED BY <1>4, <1>7, <1>8, NoneIs

LEMMA OffloadIs ==
  ASSUME NEW kv \in Kvs, NEW c \in Cache, NEW k, k = Offload(kv, c)
  PROVE  /\ k \in Kvs /\ k.obj = kv.obj
         /\ Dumps(kv, k, c, "offload")
         /\ \A s \in Slot : k.owner[s] = IF s = kv.obj[c].row /\ kv.owner[s] = c THEN None ELSE kv.owner[s]
<1>1. CASE ~IsResident(kv, c)
  BY <1>1, NoneIs DEF Offload, IsResident, Dumps
<1>2. CASE IsResident(kv, c)
  <2> DEFINE m == Dump(kv, c, "offload")
             s == kv.obj[c].row
  <2>1. "offload" \in Reasons
    BY DEF Reasons
  <2>2. /\ m \in Kvs /\ m.obj = kv.obj /\ m.owner = kv.owner
        /\ Dumps(kv, m, c, "offload")
    BY <2>1, DumpIs
  <2>3. s \in Slot /\ kv.owner[s] = c
    BY <1>2, InUseIs DEF IsResident
  <2>4. k = [m EXCEPT !.owner[s] = None]
    BY <1>2 DEF Offload
  <2> HIDE DEF m, s
  <2>5. /\ k \in Kvs /\ k.obj = m.obj /\ k.dumps = m.dumps
        /\ \A t \in Slot : k.owner[t] = IF t = s THEN None ELSE m.owner[t]
    BY <2>2, <2>3, <2>4 DEF Kvs
  <2>6. \A t \in Slot : k.owner[t] = IF t = s /\ kv.owner[t] = c THEN None ELSE kv.owner[t]
    BY <2>2, <2>3, <2>5
  <2>7. Dumps(kv, k, c, "offload")
    BY <2>2, <2>5 DEF Dumps
  <2> QED BY <2>2, <2>5, <2>6, <2>7 DEF s
<1> QED BY <1>1, <1>2

LEMMA NewCacheIs ==
  ASSUME NEW kv \in Kvs, NEW c \in Cache, NEW slot \in Slot, NEW k, k = NewCache(kv, c, slot)
  PROVE  /\ k \in Kvs /\ k.owner = kv.owner /\ k.dumps = kv.dumps
         /\ Alike(kv, k, c)
         /\ k.obj[c] # Unused /\ k.obj[c].row = slot /\ k.obj[c].tokens = <<>>
<1> DEFINE x == [row |-> slot, tokens |-> <<>>]
<1>1. x \in InUse /\ x.row = slot /\ x.tokens = <<>>
  BY EmptySeq DEF InUse
<1>2. k = [kv EXCEPT !.obj[c] = x]
  BY DEF NewCache
<1> HIDE DEF x
<1>3. /\ k \in Kvs /\ k.owner = kv.owner /\ k.dumps = kv.dumps
      /\ Alike(kv, k, c)
      /\ k.obj[c] = x
  BY <1>1, <1>2 DEF Kvs, Alike
<1> QED BY <1>1, <1>3, NoneIs

LEMMA CopyIs ==
  ASSUME NEW kv \in Kvs, NEW c \in Cache, NEW copy \in Cache, NEW k, k = CopyOf(kv, c, copy)
  PROVE  /\ k \in Kvs /\ k.owner = kv.owner
         /\ Dumps(kv, k, c, "copy")
         /\ Alike(kv, k, copy)
         /\ k.obj[copy] = kv.obj[c]
<1> DEFINE m == Dump(kv, c, "copy")
           x == kv.obj[c]
<1>1. "copy" \in Reasons
  BY DEF Reasons
<1>2. /\ m \in Kvs /\ m.obj = kv.obj /\ m.owner = kv.owner
      /\ Dumps(kv, m, c, "copy")
  BY <1>1, DumpIs
<1>3. k = [m EXCEPT !.obj[copy] = x]
  BY DEF CopyOf
<1>4. x \in InUse \cup {Unused}
  BY DEF Kvs
<1> HIDE DEF m, x
<1>5. /\ k \in Kvs /\ k.owner = m.owner /\ k.dumps = m.dumps
      /\ \A d \in Cache \ {copy} : k.obj[d] = m.obj[d]
      /\ k.obj[copy] = x
  BY <1>2, <1>3, <1>4 DEF Kvs
<1>6. Dumps(kv, k, c, "copy")
  BY <1>2, <1>5 DEF Dumps
<1>7. Alike(kv, k, copy)
  BY <1>2, <1>5 DEF Alike
<1> QED BY <1>2, <1>5, <1>6, <1>7 DEF x

LEMMA BindIs ==
  ASSUME NEW kv \in Kvs, NEW c \in Cache, kv.obj[c] # Unused, NEW R, NEW k, k = Bind(kv, c, R)
  PROVE  /\ k \in Kvs /\ k.obj = kv.obj
         /\ k.owner[kv.obj[c].row] = c
         /\ \A s \in Slot \ {kv.obj[c].row} : k.owner[s] = kv.owner[s]
         /\ \/ k.dumps = kv.dumps
            \/ /\ Dumps(kv, k, kv.owner[kv.obj[c].row], "bind")
               /\ kv.owner[kv.obj[c].row] \in R
               /\ kv.owner[kv.obj[c].row] # None /\ kv.owner[kv.obj[c].row] # c
               /\ SeqLength(kv, kv.owner[kv.obj[c].row]) > 0
<1> DEFINE slot  == kv.obj[c].row
           loser == kv.owner[slot]
           cond  == loser # None /\ loser # c /\ loser \in R /\ SeqLength(kv, loser) > 0
           saved == IF cond THEN Dump(kv, loser, "bind") ELSE kv
<1>1. slot \in Slot
  BY InUseIs
<1>2. k = [saved EXCEPT !.owner[slot] = c]
  BY Zenon DEF Bind
<1>3. loser \in Cache \cup {None}
  BY <1>1 DEF Kvs
<1>4. /\ saved \in Kvs /\ saved.obj = kv.obj /\ saved.owner = kv.owner
      /\ saved.dumps = kv.dumps
           \/ (cond /\ Dumps(kv, saved, loser, "bind"))
  <2>1. CASE cond
    <3>1. loser \in Cache /\ saved = Dump(kv, loser, "bind") /\ "bind" \in Reasons
      BY <1>3, <2>1 DEF Reasons
    <3> HIDE DEF loser, saved
    <3>2. /\ saved \in Kvs /\ saved.obj = kv.obj /\ saved.owner = kv.owner
          /\ Dumps(kv, saved, loser, "bind")
      BY SMTT(30), <3>1, DumpIs
    <3> HIDE DEF cond
    <3> QED BY <2>1, <3>2
  <2>2. CASE ~cond
    BY <2>2
  <2> QED BY Zenon, <2>1, <2>2
<1> HIDE DEF saved, slot, cond
<1>5. /\ k \in Kvs /\ k.obj = saved.obj /\ k.dumps = saved.dumps
      /\ k.owner[slot] = c /\ \A s \in Slot \ {slot} : k.owner[s] = saved.owner[s]
  BY <1>1, <1>2, <1>4 DEF Kvs
<1>6. /\ k \in Kvs /\ k.obj = kv.obj /\ k.owner[slot] = c
      /\ \A s \in Slot \ {slot} : k.owner[s] = kv.owner[s]
  BY <1>4, <1>5
<1>7. \/ k.dumps = kv.dumps
      \/ /\ Dumps(kv, k, loser, "bind")
         /\ loser \in R /\ loser # None /\ loser # c
         /\ SeqLength(kv, loser) > 0
  BY <1>4, <1>5 DEF cond, Dumps
<1> QED BY <1>6, <1>7 DEF slot

Shortened(s, t, n) == Len(t) = Least(n, Len(s)) /\ \A i \in 1 .. Len(t) : t[i] = s[i]

LEMMA RelocateIs ==
  ASSUME NEW kv \in Kvs, NEW c \in Cache, kv.obj[c] # Unused, NEW copy \in Cache,
         NEW slot \in Slot, NEW n \in Nat, NEW k, k = Relocate(kv, c, copy, slot, n)
  PROVE  /\ k \in Kvs /\ k.owner = kv.owner
         /\ Dumps(kv, k, c, "copy")
         /\ Alike(kv, k, copy)
         /\ k.obj[copy] # Unused /\ k.obj[copy].row = slot
         /\ Shortened(kv.obj[c].tokens, k.obj[copy].tokens, n)
<1> DEFINE copied == CopyOf(kv, c, copy)
           placed == [copied EXCEPT !.obj[copy].row = slot]
           x == [row |-> slot, tokens |-> kv.obj[c].tokens]
<1>1. /\ copied \in Kvs /\ copied.owner = kv.owner
      /\ Dumps(kv, copied, c, "copy")
      /\ Alike(kv, copied, copy)
      /\ copied.obj[copy] = kv.obj[c]
  BY CopyIs
<1>2. kv.obj[c] \in InUse
  BY InUseIs
<1>3. x \in InUse /\ x.row = slot /\ x.tokens = kv.obj[c].tokens /\ [kv.obj[c] EXCEPT !.row = slot] = x
  BY <1>2 DEF InUse
<1>4. k = SetSeqLength(placed, copy, n)
  BY DEF Relocate
<1> HIDE DEF x, copied
<1>5. placed = [copied EXCEPT !.obj[copy] = x]
  BY <1>1, <1>3 DEF Kvs
<1>6. /\ placed \in Kvs /\ placed.owner = copied.owner /\ placed.dumps = copied.dumps
      /\ Alike(copied, placed, copy)
      /\ placed.obj[copy] = x
  <2> HIDE DEF placed
  <2> QED BY <1>1, <1>3, <1>5 DEF Kvs, Alike
<1> HIDE DEF placed
<1>7. placed.obj[copy] # Unused
  BY <1>3, <1>6, NoneIs
<1>8. /\ k \in Kvs /\ k.owner = placed.owner /\ k.dumps = placed.dumps
      /\ Alike(placed, k, copy)
      /\ Cut(placed.obj[copy], k.obj[copy], n) /\ k.obj[copy] # Unused
      /\ k.obj[copy].row = placed.obj[copy].row
  BY <1>4, <1>6, <1>7, SetSeqLengthIs
<1>9. /\ Len(k.obj[copy].tokens) = Least(n, Len(x.tokens))
      /\ \A i \in 1 .. Len(k.obj[copy].tokens) : k.obj[copy].tokens[i] = x.tokens[i]
  BY <1>6, <1>8 DEF Cut
<1>10. /\ k.owner = kv.owner
       /\ Dumps(kv, k, c, "copy")
       /\ Alike(kv, k, copy)
  BY <1>1, <1>6, <1>8 DEF Dumps, Alike
<1> QED BY <1>3, <1>6, <1>8, <1>9, <1>10 DEF Shortened

LEMMA PrepareIs ==
  ASSUME NEW kv \in Kvs, NEW c \in Cache, kv.obj[c] # Unused, NEW n \in Nat, NEW R,
         NEW k, k = Prepare(kv, c, n, R)
  PROVE  /\ k \in Kvs
         /\ Alike(kv, k, c)
         /\ Cut(kv.obj[c], k.obj[c], n) /\ k.obj[c] # Unused /\ k.obj[c].row = kv.obj[c].row
         /\ k.owner[kv.obj[c].row] = c
         /\ \A s \in Slot \ {kv.obj[c].row} : k.owner[s] = kv.owner[s]
         /\ \/ k.dumps = kv.dumps
            \/ /\ Dumps(kv, k, kv.owner[kv.obj[c].row], "bind")
               /\ kv.owner[kv.obj[c].row] \in R
               /\ kv.owner[kv.obj[c].row] # None /\ kv.owner[kv.obj[c].row] # c
<1> DEFINE cut == SetSeqLength(kv, c, n)
           row == kv.obj[c].row
<1>1. /\ cut \in Kvs /\ cut.owner = kv.owner /\ cut.dumps = kv.dumps
      /\ Alike(kv, cut, c)
      /\ Cut(kv.obj[c], cut.obj[c], n) /\ cut.obj[c] # Unused /\ cut.obj[c].row = row
  BY SetSeqLengthIs
<1>2. k = Bind(cut, c, R)
  BY DEF Prepare
<1> HIDE DEF cut, row
<1>3. /\ k \in Kvs /\ k.obj = cut.obj
      /\ k.owner[cut.obj[c].row] = c
      /\ \A s \in Slot \ {cut.obj[c].row} : k.owner[s] = cut.owner[s]
      /\ \/ k.dumps = cut.dumps
         \/ /\ Dumps(cut, k, cut.owner[cut.obj[c].row], "bind")
            /\ cut.owner[cut.obj[c].row] \in R
            /\ cut.owner[cut.obj[c].row] # None /\ cut.owner[cut.obj[c].row] # c
  BY <1>1, <1>2, BindIs
<1>4. /\ k \in Kvs /\ k.obj = cut.obj /\ k.owner[row] = c
      /\ \A s \in Slot \ {row} : k.owner[s] = kv.owner[s]
  BY <1>1, <1>3
<1>5. \/ k.dumps = kv.dumps
      \/ /\ Dumps(kv, k, kv.owner[row], "bind")
         /\ kv.owner[row] \in R /\ kv.owner[row] # None /\ kv.owner[row] # c
  BY <1>1, <1>3 DEF Dumps
<1>6. /\ Alike(kv, k, c)
      /\ Cut(kv.obj[c], k.obj[c], n) /\ k.obj[c] # Unused /\ k.obj[c].row = row
  BY <1>1, <1>4 DEF Alike
<1> QED BY <1>4, <1>5, <1>6 DEF row

LEMMA CollectIs ==
  ASSUME NEW kv \in Kvs, NEW R, NEW k, k = Collect(kv, R)
  PROVE  /\ k \in Kvs /\ k.dumps = kv.dumps
         /\ \A c \in Cache : k.obj[c] = IF c \in R THEN kv.obj[c] ELSE Unused
         /\ \A s \in Slot : k.owner[s] = IF kv.owner[s] \in R THEN kv.owner[s] ELSE None
<1> DEFINE obj == [c \in Cache |-> IF c \in R THEN kv.obj[c] ELSE Unused]
           owner == [s \in Slot |-> IF kv.owner[s] \in R THEN kv.owner[s] ELSE None]
<1>1. k = [kv EXCEPT !.obj = obj, !.owner = owner]
  BY DEF Collect
<1>2. obj \in [Cache -> InUse \cup {Unused}] /\ owner \in [Slot -> Cache \cup {None}]
  BY DEF Kvs
<1>3. /\ \A c \in Cache : obj[c] = IF c \in R THEN kv.obj[c] ELSE Unused
      /\ \A s \in Slot : owner[s] = IF kv.owner[s] \in R THEN kv.owner[s] ELSE None
  OBVIOUS
<1> HIDE DEF obj, owner
<1>4. k \in Kvs /\ k.dumps = kv.dumps /\ k.obj = obj /\ k.owner = owner
  BY <1>1, <1>2 DEF Kvs
<1> QED BY <1>3, <1>4

-----------------------------------------------------------------------------
(* There is room for the caches a handler makes.                           *)

Used(kv) == {c \in Cache : kv.obj[c] # Unused}

\* At least n caches are unused.
Room(kv, n) == Cardinality(Used(kv)) + n <= Cardinality(Cache)

\* One more than n.
Spare(kv, n) == Room(kv, n + 1)

SpareTwo(kv, n) == Room(kv, n + 2)

LEMMA UsedIs ==
  ASSUME NEW kv
  PROVE  /\ IsFiniteSet(Used(kv)) /\ Cardinality(Used(kv)) \in Nat /\ Cardinality(Cache) \in Nat
         /\ IsFiniteSet(Cache) /\ Used(kv) \subseteq Cache
<1>1. IsFiniteSet(Cache) /\ Used(kv) \in SUBSET Cache
  BY CacheAssumption DEF Used
<1> QED BY <1>1, FS_CardinalityType, FS_Subset

\* k uses no cache that kv does not.
UsesNoMore(kv, k) == \A c \in Cache : k.obj[c] # Unused => kv.obj[c] # Unused

LEMMA RoomKept ==
  ASSUME NEW kv, NEW k, NEW n \in Nat, UsesNoMore(kv, k)
  PROVE  (Room(kv, n) => Room(k, n)) /\ (Spare(kv, n) => Spare(k, n) /\ Room(k, n))
<1>1. Used(k) \in SUBSET Used(kv)
  BY DEF Used, UsesNoMore
<1>2. Cardinality(Used(k)) <= Cardinality(Used(kv))
  BY <1>1, UsedIs, FS_Subset
<1>3. Cardinality(Used(k)) \in Nat /\ Cardinality(Used(kv)) \in Nat /\ Cardinality(Cache) \in Nat
  BY UsedIs
<1> QED BY <1>2, <1>3 DEF Room, Spare

\* Only c is used in k and not in kv.
UsesAtMost(kv, k, c) == \A d \in Cache \ {c} : k.obj[d] # Unused => kv.obj[d] # Unused

LEMMA RoomTaken ==
  ASSUME NEW kv, NEW k, NEW c \in Cache, NEW n \in Nat, Spare(kv, n), UsesAtMost(kv, k, c)
  PROVE  Room(k, n)
<1> DEFINE more == Used(kv) \cup {c}
<1>1. Used(k) \in SUBSET more
  BY DEF Used, UsesAtMost
<1>2. IsFiniteSet(Used(kv)) /\ Cardinality(Used(kv)) \in Nat /\ Cardinality(Cache) \in Nat
      /\ Cardinality(Used(k)) \in Nat
  BY UsedIs
<1>3. IsFiniteSet(more) /\ Cardinality(more) \in Nat /\ Cardinality(more) <= Cardinality(Used(kv)) + 1
  <2>1. IsFiniteSet(more)
      /\ Cardinality(more) = IF c \in Used(kv) THEN Cardinality(Used(kv)) ELSE Cardinality(Used(kv)) + 1
    BY <1>2, FS_AddElement
  <2> HIDE DEF more
  <2> QED BY <1>2, <2>1
<1> HIDE DEF more
<1>4. Cardinality(Used(k)) <= Cardinality(more)
  BY <1>1, <1>3, FS_Subset
<1> QED BY <1>2, <1>3, <1>4 DEF Room, Spare

LEMMA FreeCacheIs ==
  ASSUME NEW kv, NEW n \in Nat, Spare(kv, n)
  PROVE  FreeCache(kv) \in Cache /\ kv.obj[FreeCache(kv)] = Unused
<1> DEFINE free == {c \in Cache : kv.obj[c] = Unused}
<1>1. free # {}
  <2> SUFFICES ASSUME free = {} PROVE FALSE
    OBVIOUS
  <2>1. Used(kv) = Cache
    BY DEF Used
  <2>2. Cardinality(Used(kv)) \in Nat /\ Cardinality(Cache) \in Nat
    BY UsedIs
  <2> QED BY <2>1, <2>2 DEF Room, Spare
<1>2. free \in SUBSET Nat
  BY CacheAssumption
<1>3. \E c \in free : \A d \in free : c <= d
  <2> HIDE DEF free
  <2> QED BY <1>1, <1>2, LeastNatural
<1>4. \E c \in Cache : kv.obj[c] = Unused /\ \A d \in Cache : kv.obj[d] = Unused => c <= d
  BY <1>3
<1> QED BY <1>4 DEF FreeCache

\* A set no larger than what it is taken from.
LEMMA CoveredIs ==
  ASSUME NEW A, IsFiniteSet(A), NEW f, NEW S, \A x \in S : \E a \in A : f[a] = x
  PROVE  IsFiniteSet(S) /\ Cardinality(S) <= Cardinality(A)
<1> DEFINE B == {a \in A : f[a] \in S}
           g == [a \in B |-> f[a]]
<1>1. g \in Surjection(B, S)
  BY DEF Surjection
<1>2. B \in SUBSET A
  OBVIOUS
<1> HIDE DEF B, g
<1>3. IsFiniteSet(B) /\ Cardinality(B) <= Cardinality(A)
  BY <1>2, FS_Subset
<1>4. IsFiniteSet(S) /\ Cardinality(S) <= Cardinality(B)
  BY <1>1, <1>3, FS_Surjection
<1>5. Cardinality(S) \in Nat /\ Cardinality(B) \in Nat /\ Cardinality(A) \in Nat
  BY <1>3, <1>4, FS_CardinalityType
<1> QED BY <1>3, <1>4, <1>5

-----------------------------------------------------------------------------
(* The worker's manager.                                                   *)

RcOk(m) ==
  /\ m \in Managers(Snapshots, Nat)
  /\ SlotsMatch(m) /\ LruOrdersSnapshots(m) /\ m.max_batch_size = MaxSlots
  /\ Cardinality(m.finished) <= m.cap

\* n has snapshots of m, finished in n as in m, and nothing else is different.
Thins(m, n) ==
  /\ RcOk(n) /\ SameSlots(m, n) /\ n.cap = m.cap
  /\ \A o \in Req : n.snapshots[o] # None =>
        n.snapshots[o] = m.snapshots[o] /\ (o \in n.finished <=> o \in m.finished)

LEMMA ThinsTrans ==
  ASSUME NEW m, NEW n, NEW k, Thins(m, n), Thins(n, k)
  PROVE  Thins(m, k)
<1>1. SameSlots(m, k)
  BY DEF Thins, SameSlots
<1>2. RcOk(k) /\ k.cap = m.cap
  BY DEF Thins
<1>3. \A o \in Req : k.snapshots[o] # None =>
        k.snapshots[o] = m.snapshots[o] /\ (o \in k.finished <=> o \in m.finished)
  BY DEF Thins
<1> QED BY <1>1, <1>2, <1>3 DEF Thins

LEMMA ThinsItself ==
  ASSUME NEW m, RcOk(m)
  PROVE  Thins(m, m)
BY DEF Thins, SameSlots

LEMMA RcOkIs ==
  ASSUME NEW m, RcOk(m)
  PROVE  /\ m \in Managers(Snapshots, Nat) /\ m.cap \in Nat
         /\ IsFiniteSet(m.finished) /\ Cardinality(m.finished) \in Nat /\ m.finished \subseteq Req
         /\ \A r \in m.finished : m.snapshots[r] # None
         /\ \A r \in Req : m.snapshots[r] \in Snapshots \cup {None}
<1>1. m \in Managers(Snapshots, Nat)
  BY DEF RcOk
<1>2. m.cap \in Nat /\ m.finished \subseteq Req /\ \A r \in Req : m.snapshots[r] \in Snapshots \cup {None}
  BY <1>1 DEF Managers
<1>3. IsFiniteSet(m.finished) /\ Cardinality(m.finished) \in Nat
  BY <1>2, BlockAssumption, FS_Subset, FS_CardinalityType
<1>4. \A r \in m.finished : m.snapshots[r] # None
  BY DEF RcOk, LruOrdersSnapshots
<1> QED BY <1>1, <1>2, <1>3, <1>4

LEMMA RemoveThins ==
  ASSUME NEW m, RcOk(m), NEW R, NEW n, n = RemoveSnapshots(m, R)
  PROVE  /\ Thins(m, n)
         /\ \A o \in Req : n.snapshots[o] = IF o \in R THEN None ELSE m.snapshots[o]
<1>1. m \in Managers(Snapshots, Nat) /\ IsFiniteSet(m.finished) /\ Cardinality(m.finished) \in Nat
  BY RcOkIs
<1>2. /\ n.finished = m.finished \ R /\ n.cap = m.cap
      /\ \A o \in Req : n.snapshots[o] = IF o \in R THEN None ELSE m.snapshots[o]
  BY <1>1, RemoveFields
<1>3. n \in Managers(Snapshots, Nat)
  BY <1>1, RemoveType
<1>4. SameSlots(m, n)
  BY <1>1, RemoveSameSlots
<1>5. SlotsMatch(n)
  BY <1>4, SameSlotsMatch DEF RcOk
<1>6. LruOrdersSnapshots(n)
  BY <1>1, RemoveOrders DEF RcOk
<1>7. Cardinality(n.finished) <= n.cap
  <2>1. n.finished \in SUBSET m.finished
    BY <1>2
  <2>2. Cardinality(n.finished) <= Cardinality(m.finished) /\ IsFiniteSet(n.finished)
    BY <1>1, <2>1, FS_Subset
  <2>3. Cardinality(n.finished) \in Nat /\ m.cap \in Nat
    BY <2>2, FS_CardinalityType, RcOkIs
  <2> QED BY <1>1, <1>2, <2>2, <2>3 DEF RcOk
<1>8. n.max_batch_size = MaxSlots
  BY <1>4 DEF SameSlots, RcOk
<1>9. RcOk(n)
  BY <1>3, <1>5, <1>6, <1>7, <1>8 DEF RcOk
<1> QED BY <1>2, <1>4, <1>9 DEF Thins

LEMMA ObserveThins ==
  ASSUME NEW m, RcOk(m), NEW r \in Req, NEW blocks, NEW n, n = ObserveRequestBlocks(m, r, blocks)
  PROVE  Thins(m, n) /\ n.snapshots = m.snapshots /\ n.finished = m.finished
<1>1. m \in Managers(Snapshots, Nat)
  BY RcOkIs
<1>2. n \in Managers(Snapshots, Nat)
  BY <1>1, ObserveType
<1>3. SameSnapshots(m, n)
  BY <1>1, SlotMethodsKeep
<1>4. SameSlots(m, n) /\ n.cap = m.cap
  BY <1>1 DEF ObserveRequestBlocks, SameSlots, Managers
<1>5. SlotsMatch(n)
  BY <1>4, SameSlotsMatch DEF RcOk
<1>6. LruOrdersSnapshots(n)
  BY <1>3, SameSnapshotsKeep DEF RcOk
<1>7. n.snapshots = m.snapshots /\ n.finished = m.finished
  BY <1>3 DEF SameSnapshots
<1>8. RcOk(n)
  BY <1>2, <1>4, <1>5, <1>6, <1>7 DEF RcOk, SameSlots
<1> QED BY <1>4, <1>7, <1>8 DEF Thins

LEMMA RefreshThins ==
  ASSUME NEW m, RcOk(m), NEW r \in Req, NEW n, n = RefreshSnapshotRecency(m, r)
  PROVE  Thins(m, n) /\ n.snapshots = m.snapshots /\ n.finished = m.finished
<1>1. CASE r \notin m.finished
  <2>1. n = m
    BY <1>1 DEF RefreshSnapshotRecency
  <2> QED BY <2>1, ThinsItself
<1>2. CASE r \in m.finished
  <2>1. m \in Managers(Snapshots, Nat)
    BY RcOkIs
  <2>2. n = MoveToEnd(m, r)
    BY <1>2 DEF RefreshSnapshotRecency
  <2>3. n \in Managers(Snapshots, Nat) /\ SameSlots(m, n)
    BY <2>1, <2>2, MoveToEndType, MoveToEndSameSlots
  <2>4. LruOrdersSnapshots(n)
    BY <2>1, RefreshKeeps DEF RcOk
  <2>5. n.snapshots = m.snapshots /\ n.finished = (m.finished \ {r}) \cup {r} /\ n.cap = m.cap
    BY <2>1, <2>2 DEF MoveToEnd, Forget, Managers
  <2>6. n.finished = m.finished
    BY <1>2, <2>5
  <2>7. SlotsMatch(n)
    BY <2>3, SameSlotsMatch DEF RcOk
  <2>8. RcOk(n)
    BY <2>3, <2>4, <2>5, <2>6, <2>7 DEF RcOk, SameSlots
  <2> QED BY <2>3, <2>5, <2>6, <2>8 DEF Thins
<1> QED BY <1>1, <1>2

LEMMA StoreIs ==
  ASSUME NEW m, RcOk(m), NEW r \in Req, NEW s \in Snapshots, NEW n, n = StoreSnapshot(m, r, s)
  PROVE  /\ RcOk(n) /\ SameSlots(m, n) /\ n.cap = m.cap
         /\ \A o \in Req : n.snapshots[o] = IF o = r THEN s ELSE m.snapshots[o]
         /\ n.finished = m.finished \ {r}
<1>1. m \in Managers(Snapshots, Nat) /\ IsFiniteSet(m.finished) /\ Cardinality(m.finished) \in Nat
  BY RcOkIs
<1>2. /\ n.finished = m.finished \ {r} /\ n.cap = m.cap
      /\ \A o \in Req : n.snapshots[o] = IF o = r THEN s ELSE m.snapshots[o]
  BY <1>1, StoreFields
<1>3. n \in Managers(Snapshots, Nat)
  BY <1>1, StoreType
<1>4. SameSlots(m, n)
  BY <1>1, StoreSameSlots
<1>5. SlotsMatch(n)
  BY <1>4, SameSlotsMatch DEF RcOk
<1>6. LruOrdersSnapshots(n)
  BY <1>1, StoreOrders DEF RcOk
<1>7. Cardinality(n.finished) <= n.cap
  <2>1. n.finished \in SUBSET m.finished
    BY <1>2
  <2>2. Cardinality(n.finished) <= Cardinality(m.finished) /\ IsFiniteSet(n.finished)
    BY <1>1, <2>1, FS_Subset
  <2>3. Cardinality(n.finished) \in Nat /\ m.cap \in Nat
    BY <2>2, FS_CardinalityType, RcOkIs
  <2> QED BY <1>1, <1>2, <2>2, <2>3 DEF RcOk
<1>8. n.max_batch_size = MaxSlots
  BY <1>4 DEF SameSlots, RcOk
<1>9. RcOk(n)
  BY <1>3, <1>5, <1>6, <1>7, <1>8 DEF RcOk
<1> QED BY <1>2, <1>4, <1>9

\* The request's own snapshot is finished now, and those evicted are gone.
LEMMA MarkFinishedIs ==
  ASSUME NEW m, RcOk(m), NEW r \in Req, NEW n, n = MarkSnapshotFinished(m, r)
  PROVE  /\ RcOk(n) /\ SameSlots(m, n) /\ n.cap = m.cap
         /\ \A o \in Req : n.snapshots[o] # None =>
              n.snapshots[o] = m.snapshots[o] /\ (o \in n.finished <=> o \in m.finished \/ o = r)
<1>1. m \in Managers(Snapshots, Nat) /\ IsFiniteSet(m.finished) /\ LruOrdersSnapshots(m)
  BY RcOkIs DEF RcOk
<1>2. CASE ~EnablePrefixCaching
  <2>1. n = RemoveSnapshots(m, {r})
    BY <1>2 DEF MarkSnapshotFinished, RemoveSnapshot
  <2>2. Thins(m, n) /\ n.snapshots[r] = None
    BY <2>1, RemoveThins
  <2> QED BY <2>2 DEF Thins
<1>3. CASE EnablePrefixCaching
  <2> DEFINE t == TouchFinishedSnapshot(m, r)
  <2>1. n = RemoveSnapshots(t, OldestOf(t))
    BY <1>3 DEF MarkSnapshotFinished, EvictOldFinishedSnapshots, OldestOf
  <2>2. t \in Managers(Snapshots, Nat)
    BY <1>1, TouchKeeps
  <2>3. /\ t.cap = m.cap /\ t.snapshots = m.snapshots
        /\ m.snapshots[r] # None => t.finished = m.finished \cup {r}
        /\ m.snapshots[r] = None => t.finished = m.finished
    <3>1. CASE m.snapshots[r] = None
      BY <3>1 DEF TouchFinishedSnapshot
    <3>2. CASE m.snapshots[r] # None
      BY <1>1, <3>2 DEF TouchFinishedSnapshot, MoveToEnd, Forget, Managers
    <3> QED BY <3>1, <3>2
  <2> HIDE DEF t
  <2>4. /\ n.finished = t.finished \ OldestOf(t) /\ n.cap = t.cap
        /\ \A o \in Req : n.snapshots[o] = IF o \in OldestOf(t) THEN None ELSE t.snapshots[o]
    BY <2>1, <2>2, RemoveFields
  <2>5. \A o \in Req : n.snapshots[o] # None =>
              n.snapshots[o] = m.snapshots[o] /\ (o \in n.finished <=> o \in m.finished \/ o = r)
    BY <2>3, <2>4
  <2>6. n \in Managers(Snapshots, Nat) /\ SameSlots(m, n)
    BY <1>1, MarkFinishedType, MarkFinishedSameSlots
  <2>7. LruOrdersSnapshots(n)
    BY <1>1, MarkFinishedKeeps
  <2>8. Cardinality(n.finished) <= m.cap
    <3>1. Nat \in SUBSET Nat
      OBVIOUS
    <3> QED BY <1>1, <1>3, <3>1, FinishEvicts
  <2>9. SlotsMatch(n)
    BY <2>6, SameSlotsMatch DEF RcOk
  <2>10. n.cap = m.cap
    BY <2>3, <2>4
  <2>11. RcOk(n)
    BY <2>6, <2>7, <2>8, <2>9, <2>10 DEF RcOk, SameSlots
  <2> QED BY <2>5, <2>6, <2>10, <2>11
<1> QED BY <1>2, <1>3

LEMMA AssignIs ==
  ASSUME NEW m, RcOk(m), NEW r \in Req, NEW prefixSlot, NEW rank \in [Slot -> Nat \X Nat],
         m.req_to_slot[r] = None, m.free_slots # {}, NEW n, n = AssignSlot(m, r, prefixSlot, rank)
  PROVE  /\ RcOk(n) /\ n.cap = m.cap /\ n.snapshots = m.snapshots /\ n.finished = m.finished
         /\ n.req_to_slot[r] \in Slot
         /\ \A o \in Req \ {r} : n.req_to_slot[o] = m.req_to_slot[o]
<1>1. m \in Managers(Snapshots, Nat) /\ CanAssignSlot(m, r)
  BY RcOkIs DEF CanAssignSlot
<1>2. n \in Managers(Snapshots, Nat)
  BY <1>1, AssignType
<1>3. SlotsMatch(n)
  BY <1>1, AssignSlotsMatch DEF RcOk
<1>4. SameSnapshots(m, n)
  BY <1>1, SlotMethodsKeep
<1>5. n.snapshots = m.snapshots /\ n.finished = m.finished /\ LruOrdersSnapshots(n)
  BY <1>4, SameSnapshotsKeep DEF SameSnapshots, RcOk
<1>6. AssignedSlot(m, r, prefixSlot, rank) \in m.free_slots
  BY <1>1, AssignedSlotIsFree
<1> DEFINE slot == AssignedSlot(m, r, prefixSlot, rank)
<1>7. n = [m EXCEPT !.free_slots = @ \ {slot}, !.req_to_slot[r] = slot, !.slot_to_req[slot] = r]
  BY DEF AssignSlot, TakeSlot
<1>8. slot \in Slot
  BY <1>1, <1>6 DEF Managers
<1> HIDE DEF slot
<1>9. /\ n.cap = m.cap /\ n.max_batch_size = m.max_batch_size /\ n.req_to_slot[r] = slot
      /\ \A o \in Req \ {r} : n.req_to_slot[o] = m.req_to_slot[o]
  BY <1>1, <1>7 DEF Managers
<1>10. RcOk(n)
  BY <1>2, <1>3, <1>5, <1>9 DEF RcOk
<1> QED BY <1>5, <1>8, <1>9, <1>10

LEMMA ReleaseIs ==
  ASSUME NEW m, RcOk(m), NEW r \in Req, NEW n, n = ReleaseSlot(m, r)
  PROVE  /\ RcOk(n) /\ n.cap = m.cap /\ n.snapshots = m.snapshots /\ n.finished = m.finished
         /\ n.req_to_slot[r] = None
         /\ \A o \in Req \ {r} : n.req_to_slot[o] = m.req_to_slot[o]
<1>1. m \in Managers(Snapshots, Nat)
  BY RcOkIs
<1>2. n \in Managers(Snapshots, Nat)
  BY <1>1, ReleaseType
<1>3. SlotsMatch(n)
  BY <1>1, ReleaseSlotsMatch DEF RcOk
<1>4. SameSnapshots(m, n)
  BY <1>1, SlotMethodsKeep
<1>5. n.snapshots = m.snapshots /\ n.finished = m.finished /\ LruOrdersSnapshots(n)
  BY <1>4, SameSnapshotsKeep DEF SameSnapshots, RcOk
<1>6. /\ n.cap = m.cap /\ n.max_batch_size = m.max_batch_size /\ n.req_to_slot[r] = None
      /\ \A o \in Req \ {r} : n.req_to_slot[o] = m.req_to_slot[o]
  BY <1>1 DEF Managers, ReleaseSlot
<1>7. RcOk(n)
  BY <1>2, <1>3, <1>5, <1>6 DEF RcOk
<1> QED BY <1>5, <1>6, <1>7

\* A snapshot's cache is replaced by another.
Recache(m, o, c) == [m EXCEPT !.snapshots[o].cache = c]

Recached(m, n, o, c) ==
  /\ \A q \in Req \ {o} : n.snapshots[q] = m.snapshots[q]
  /\ n.snapshots[o] = [m.snapshots[o] EXCEPT !.cache = c]
  /\ n.snapshots[o] # None

LEMMA RecacheIs ==
  ASSUME NEW m, RcOk(m), NEW o \in Req, m.snapshots[o] # None, NEW c \in Cache,
         NEW n, n = Recache(m, o, c)
  PROVE  /\ RcOk(n) /\ SameSlots(m, n) /\ n.cap = m.cap /\ n.finished = m.finished
         /\ Recached(m, n, o, c)
<1> DEFINE s == [m.snapshots[o] EXCEPT !.cache = c]
<1>1. m \in Managers(Snapshots, Nat) /\ m.snapshots[o] \in Snapshots
  BY RcOkIs
<1>2. s \in Snapshots
  BY <1>1 DEF Snapshots
<1>3. s # None
  BY <1>2, RecordAssumption
<1>4. n = [m EXCEPT !.snapshots[o] = s]
  BY <1>1 DEF Managers, Recache
<1> HIDE DEF s
<1>5. /\ n \in Managers(Snapshots, Nat) /\ SameSlots(m, n) /\ n.cap = m.cap
      /\ n.finished = m.finished /\ n.older = m.older
      /\ \A q \in Req \ {o} : n.snapshots[q] = m.snapshots[q]
      /\ n.snapshots[o] = s
  BY SMTT(30), <1>1, <1>2, <1>4 DEF Managers, SameSlots
<1>6. LruOrdersSnapshots(n)
  BY <1>3, <1>5, RcOkIs DEF RcOk, LruOrdersSnapshots
<1>7. SlotsMatch(n)
  BY <1>5, SameSlotsMatch DEF RcOk
<1>8. RcOk(n)
  BY <1>5, <1>6, <1>7 DEF RcOk, SameSlots
<1> QED BY <1>3, <1>5, <1>8 DEF s, Recached

LEMMA NewManagerOk ==
  ASSUME NEW cap \in Nat
  PROVE  /\ RcOk(NewManager(MaxSlots, cap))
         /\ \A r \in Req : NewManager(MaxSlots, cap).snapshots[r] = None
         /\ \A r \in Req : NewManager(MaxSlots, cap).req_to_slot[r] = None
<1> DEFINE m == NewManager(MaxSlots, cap)
<1>1. MaxSlots \in 0 .. MaxSlots
  BY SlotAssumption
<1>2. m \in Managers(Snapshots, Nat)
  BY <1>1, NewManagerType
<1>3. /\ m.req_to_slot = [r \in Req |-> None] /\ m.slot_to_req = [s \in Slot |-> None]
      /\ m.free_slots = 0 .. MaxSlots - 1 /\ m.max_batch_size = MaxSlots
      /\ m.finished = {} /\ m.older = {} /\ m.cap = cap
      /\ m.snapshots = [r \in Req |-> None] /\ m.index = [r \in Req |-> None]
  BY DEF NewManager
<1> HIDE DEF m
<1>4. SlotsMatch(m)
  BY <1>1, <1>3, FreshSlotsMatch
<1>5. LruOrdersSnapshots(m)
  BY <1>3, EmptyKeeps
<1>6. Cardinality(m.finished) = 0
  BY <1>3, FS_EmptySet
<1>7. RcOk(m)
  BY <1>2, <1>3, <1>4, <1>5, <1>6 DEF RcOk
<1> QED BY <1>3, <1>7 DEF m

-----------------------------------------------------------------------------
(* The worker.  K stands for the tokens known of each request.             *)

Workers ==
  [rc : Managers(Snapshots, Nat), kv : Kvs, offload : BOOLEAN,
   req : [Req -> RequestStates \cup {None}], active : [Slot -> Actives \cup {None}]]

Cached(v, r) == v.req[r] # None /\ v.req[r].cache # None

Stored(v, o) == v.rc.snapshots[o] # None

\* No two requests, no request and a snapshot, no two snapshots share a cache.
Owned(v) ==
  /\ \A r, o \in Req : Cached(v, r) /\ Cached(v, o) /\ v.req[r].cache = v.req[o].cache => r = o
  /\ \A r, o \in Req : Cached(v, r) /\ Stored(v, o) => v.req[r].cache # v.rc.snapshots[o].cache
  /\ \A r, o \in Req : Stored(v, r) /\ Stored(v, o)
        /\ v.rc.snapshots[r].cache = v.rc.snapshots[o].cache => r = o

\* Caches are placed, and what is left on a slot are finished requests' snapshots.
Placed(v) ==
  /\ \A r \in Req : Cached(v, r) => v.kv.obj[v.req[r].cache].row = SlotKey(v, r)
  /\ \A o \in Req : Stored(v, o) => v.kv.obj[v.rc.snapshots[o].cache].row \in Slot
  /\ \A s \in Slot : v.kv.owner[s] # None => v.kv.obj[v.kv.owner[s]].row = s
  /\ \A o \in Req, s \in Slot : Stored(v, o) /\ v.kv.owner[s] = v.rc.snapshots[o].cache =>
        v.req[o] = None /\ v.rc.snapshots[o].num > 0

Marked(v) == \A o \in Req : Stored(v, o) => (v.req[o] # None <=> o \notin v.rc.finished)

\* Live requests, and no others, hold a slot of a batch model.
Slotted(v) ==
  \A r \in Req :
    /\ v.req[r] # None => v.req[r].slot = IF Batch THEN v.rc.req_to_slot[r] ELSE None
    /\ Batch => (v.req[r] # None <=> v.rc.req_to_slot[r] # None)

Starts(s, t) == Len(s) <= Len(t) /\ \A i \in 1 .. Len(s) : s[i] = t[i]

Masked(x) == IF x \in Images THEN Placeholder ELSE x

Holds(v, K) ==
  \A r \in Req : v.req[r] # None =>
    /\ Tokens(v, r) = K[r] /\ v.req[r].num <= Len(K[r])
    /\ v.req[r].cache # None => Starts(v.kv.obj[v.req[r].cache].tokens, K[r])

\* The snapshot s of o is of the first tokens of t, and tokens holds their KV.
IsHonest(s, o, tokens, t) ==
  /\ s.num <= Len(tokens) /\ s.num <= Len(t) /\ Len(s.ids) = s.num
  /\ s.mm = MultimodalIdentity(o, s.num)
  /\ \A i \in 1 .. s.num : tokens[i] = t[i] /\ s.ids[i] = Masked(t[i])

Honest(v, K) ==
  \A o \in Req : Stored(v, o) =>
    IsHonest(v.rc.snapshots[o], o, v.kv.obj[v.rc.snapshots[o].cache].tokens, K[o])

Sound(v, K) ==
  /\ v \in Workers /\ RcOk(v.rc)
  /\ Owned(v) /\ Placed(v) /\ Marked(v) /\ Slotted(v) /\ Holds(v, K) /\ Honest(v, K)

LEMMA WorkerIs ==
  ASSUME NEW v \in Workers
  PROVE  /\ v.kv \in Kvs /\ v.rc \in Managers(Snapshots, Nat) /\ v.offload \in BOOLEAN
         /\ \A r \in Req : v.req[r] \in RequestStates \cup {None}
         /\ \A r \in Req : v.req[r] # None =>
              /\ v.req[r] \in RequestStates /\ v.req[r].num \in Nat /\ v.req[r].out \in Seq(Tok)
              /\ v.req[r].slot \in Slot \cup {None} /\ v.req[r].cache \in Cache \cup {None}
              /\ v.req[r].blocks \in Seq(Block) /\ v.req[r].pos \in Nat
         /\ \A r \in Req : Cached(v, r) => v.req[r].cache \in Cache
         /\ \A o \in Req : Stored(v, o) =>
              /\ v.rc.snapshots[o] \in Snapshots /\ v.rc.snapshots[o].num \in Nat
              /\ v.rc.snapshots[o].cache \in Cache
         /\ \A s \in Slot : v.active[s] # None =>
              v.active[s] \in Actives /\ v.active[s].req \in Req /\ v.active[s].cache \in Cache
<1>1. /\ v.kv \in Kvs /\ v.rc \in Managers(Snapshots, Nat) /\ v.offload \in BOOLEAN
      /\ \A r \in Req : v.req[r] \in RequestStates \cup {None}
      /\ \A s \in Slot : v.active[s] \in Actives \cup {None}
  BY DEF Workers
<1>2. \A r \in Req : v.req[r] # None =>
        /\ v.req[r] \in RequestStates /\ v.req[r].num \in Nat /\ v.req[r].out \in Seq(Tok)
        /\ v.req[r].slot \in Slot \cup {None} /\ v.req[r].cache \in Cache \cup {None}
        /\ v.req[r].blocks \in Seq(Block) /\ v.req[r].pos \in Nat
  BY <1>1 DEF RequestStates
<1>3. \A r \in Req : Cached(v, r) => v.req[r].cache \in Cache
  BY <1>2 DEF Cached
<1>4. \A o \in Req : v.rc.snapshots[o] \in Snapshots \cup {None}
  BY <1>1 DEF Managers
<1>5. \A o \in Req : Stored(v, o) =>
        /\ v.rc.snapshots[o] \in Snapshots /\ v.rc.snapshots[o].num \in Nat
        /\ v.rc.snapshots[o].cache \in Cache
  BY <1>4 DEF Stored, Snapshots
<1>6. \A s \in Slot : v.active[s] # None =>
        v.active[s] \in Actives /\ v.active[s].req \in Req /\ v.active[s].cache \in Cache
  BY <1>1 DEF Actives
<1> QED BY <1>1, <1>2, <1>3, <1>5, <1>6

LEMMA SlotKeyIs ==
  ASSUME NEW v \in Workers, Slotted(v), NEW r \in Req, v.req[r] # None
  PROVE  SlotKey(v, r) \in Slot
<1>1. CASE Batch
  <2>1. v.req[r].slot # None
    BY <1>1 DEF Slotted
  <2> QED BY <1>1, <2>1, WorkerIs DEF SlotKey
<1>2. CASE ~Batch
  BY <1>2, NoneIs DEF SlotKey
<1> QED BY <1>1, <1>2

\* Two live requests of a batch model are on different slots.
LEMMA SlotKeysDiffer ==
  ASSUME NEW v \in Workers, Slotted(v), RcOk(v.rc), Batch,
         NEW r \in Req, v.req[r] # None, NEW o \in Req, v.req[o] # None, r # o
  PROVE  SlotKey(v, r) # SlotKey(v, o)
<1>1. SlotKey(v, r) = v.rc.req_to_slot[r] /\ SlotKey(v, o) = v.rc.req_to_slot[o]
  BY DEF SlotKey, Slotted
<1>2. SlotKey(v, r) \in Slot /\ SlotKey(v, o) \in Slot
  BY SlotKeyIs
<1> DEFINE s == SlotKey(v, r)
<1> SUFFICES ASSUME s = SlotKey(v, o) PROVE FALSE
  OBVIOUS
<1>3. v.rc.req_to_slot[r] = s /\ v.rc.req_to_slot[o] = s /\ s \in Slot
  BY <1>1, <1>2
<1>4. v.rc.slot_to_req[s] = r /\ v.rc.slot_to_req[s] = o
  BY <1>3 DEF RcOk, SlotsMatch
<1> QED BY <1>4

-----------------------------------------------------------------------------
(* Steps that keep a worker sound.                                         *)

\* v is w with fewer snapshots, shorter caches, slots given up, caches nobody has.
Eases(w, v) ==
  /\ v \in Workers /\ Thins(w.rc, v.rc) /\ v.req = w.req
  /\ \A c \in Cache : w.kv.obj[c] # Unused =>
        v.kv.obj[c] # Unused /\ v.kv.obj[c].row = w.kv.obj[c].row
  /\ \A s \in Slot : v.kv.owner[s] = w.kv.owner[s] \/ v.kv.owner[s] = None
  /\ \A r \in Req : Cached(w, r) =>
        Starts(v.kv.obj[w.req[r].cache].tokens, w.kv.obj[w.req[r].cache].tokens)
  /\ \A o \in Req : Stored(v, o) =>
        v.kv.obj[w.rc.snapshots[o].cache].tokens = w.kv.obj[w.rc.snapshots[o].cache].tokens

\* The caches of requests and of snapshots are in use.
LEMMA CachesInUse ==
  ASSUME NEW v \in Workers, Placed(v), Slotted(v)
  PROVE  /\ \A r \in Req : Cached(v, r) =>
              /\ v.req[r].cache \in Cache /\ v.kv.obj[v.req[r].cache] # Unused
              /\ v.kv.obj[v.req[r].cache] \in InUse
              /\ Len(v.kv.obj[v.req[r].cache].tokens) \in Nat
         /\ \A o \in Req : Stored(v, o) =>
              /\ v.rc.snapshots[o].cache \in Cache /\ v.kv.obj[v.rc.snapshots[o].cache] # Unused
              /\ v.kv.obj[v.rc.snapshots[o].cache] \in InUse
              /\ Len(v.kv.obj[v.rc.snapshots[o].cache].tokens) \in Nat
         /\ \A s \in Slot : v.kv.owner[s] # None =>
              /\ v.kv.owner[s] \in Cache /\ v.kv.obj[v.kv.owner[s]] # Unused
<1>1. ASSUME NEW r \in Req, Cached(v, r)
      PROVE  /\ v.req[r].cache \in Cache /\ v.kv.obj[v.req[r].cache] # Unused
             /\ v.kv.obj[v.req[r].cache] \in InUse
             /\ Len(v.kv.obj[v.req[r].cache].tokens) \in Nat
  <2> DEFINE c == v.req[r].cache
  <2>1. c \in Cache /\ v.kv \in Kvs
    BY <1>1, WorkerIs
  <2>2. SlotKey(v, r) \in Slot
    BY <1>1, SlotKeyIs DEF Cached
  <2>3. v.kv.obj[c].row # None
    BY <1>1, <2>2, NoneIs DEF Placed
  <2> HIDE DEF c
  <2>4. v.kv.obj[c] \in InUse /\ Len(v.kv.obj[c].tokens) \in Nat
    BY SMTT(30), <2>1, <2>3, InUseIs
  <2> QED BY <2>1, <2>4, NoneIs DEF c
<1>2. ASSUME NEW o \in Req, Stored(v, o)
      PROVE  /\ v.rc.snapshots[o].cache \in Cache /\ v.kv.obj[v.rc.snapshots[o].cache] # Unused
             /\ v.kv.obj[v.rc.snapshots[o].cache] \in InUse
             /\ Len(v.kv.obj[v.rc.snapshots[o].cache].tokens) \in Nat
  <2> DEFINE c == v.rc.snapshots[o].cache
  <2>1. c \in Cache /\ v.kv \in Kvs
    BY SMTT(30), <1>2, WorkerIs
  <2>3. v.kv.obj[c].row # None
    BY <1>2, NoneIs DEF Placed
  <2> HIDE DEF c
  <2>4. v.kv.obj[c] \in InUse /\ Len(v.kv.obj[c].tokens) \in Nat
    BY <2>1, <2>3, InUseIs
  <2> QED BY <2>1, <2>4, NoneIs DEF c
<1>3. ASSUME NEW s \in Slot, v.kv.owner[s] # None
      PROVE  v.kv.owner[s] \in Cache /\ v.kv.obj[v.kv.owner[s]] # Unused
  <2>1. v.kv.owner[s] \in Cache
    BY <1>3 DEF Workers, Kvs
  <2>2. v.kv.obj[v.kv.owner[s]].row = s /\ s # None
    BY <1>3, NoneIs DEF Placed
  <2> QED BY <2>1, <2>2, NoneIs
<1> QED BY <1>1, <1>2, <1>3

LEMMA StartsTrans ==
  ASSUME NEW s, NEW t, NEW u, Len(s) \in Nat, Len(t) \in Nat, Len(u) \in Nat,
         Starts(s, t), Starts(t, u)
  PROVE  Starts(s, u)
BY DEF Starts

LEMMA EasesKeeps ==
  ASSUME NEW K \in [Req -> Seq(Text)], NEW w, NEW v, Sound(w, K), Eases(w, v)
  PROVE  Sound(v, K)
<1>1. /\ v \in Workers /\ w \in Workers /\ Thins(w.rc, v.rc) /\ v.req = w.req /\ RcOk(v.rc)
      /\ Owned(w) /\ Placed(w) /\ Marked(w) /\ Slotted(w) /\ Holds(w, K) /\ Honest(w, K)
  BY DEF Sound, Eases, Thins
<1>2. /\ \A o \in Req : Stored(v, o) =>
             /\ Stored(w, o) /\ v.rc.snapshots[o] = w.rc.snapshots[o]
             /\ o \in v.rc.finished <=> o \in w.rc.finished
      /\ \A r \in Req : Cached(v, r) <=> Cached(w, r)
      /\ \A r \in Req : SlotKey(v, r) = SlotKey(w, r)
      /\ v.rc.req_to_slot = w.rc.req_to_slot
  BY <1>1 DEF Thins, SameSlots, Stored, Cached, SlotKey
<1>3. Owned(v)
  BY SMTT(30), <1>1, <1>2 DEF Owned
<1>4. Marked(v)
  BY <1>1, <1>2 DEF Marked
<1>5. Slotted(v)
  BY <1>1, <1>2 DEF Slotted
<1>6. /\ \A r \in Req : Cached(w, r) =>
           /\ w.req[r].cache \in Cache /\ w.kv.obj[w.req[r].cache] # Unused
           /\ Len(w.kv.obj[w.req[r].cache].tokens) \in Nat
      /\ \A o \in Req : Stored(w, o) =>
           w.rc.snapshots[o].cache \in Cache /\ w.kv.obj[w.rc.snapshots[o].cache] # Unused
      /\ \A s \in Slot : w.kv.owner[s] # None =>
           w.kv.owner[s] \in Cache /\ w.kv.obj[w.kv.owner[s]] # Unused
  BY SMTT(30), <1>1, CachesInUse
<1>7. Placed(v)
  <2>1. ASSUME NEW r \in Req, Cached(v, r) PROVE v.kv.obj[v.req[r].cache].row = SlotKey(v, r)
    <3>1. Cached(w, r) /\ v.req[r].cache = w.req[r].cache /\ SlotKey(v, r) = SlotKey(w, r)
      BY <1>1, <1>2, <2>1
    <3>2. w.req[r].cache \in Cache /\ w.kv.obj[w.req[r].cache] # Unused
          /\ w.kv.obj[w.req[r].cache].row = SlotKey(w, r)
      BY <1>1, <1>6, <3>1 DEF Placed
    <3> QED BY SMTT(30), <3>1, <3>2 DEF Eases
  <2>2. ASSUME NEW o \in Req, Stored(v, o)
        PROVE  /\ v.kv.obj[v.rc.snapshots[o].cache].row \in Slot
               /\ \A s \in Slot : v.kv.owner[s] = v.rc.snapshots[o].cache =>
                    v.req[o] = None /\ v.rc.snapshots[o].num > 0
    <3>1. Stored(w, o) /\ v.rc.snapshots[o] = w.rc.snapshots[o] /\ w.rc.snapshots[o].cache \in Cache
          /\ w.kv.obj[w.rc.snapshots[o].cache] # Unused
      BY SMTT(30), <1>2, <1>6, <2>2
    <3>2. w.kv.obj[w.rc.snapshots[o].cache].row \in Slot
      BY SMTT(30), <1>1, <3>1 DEF Placed
    <3>3. v.kv.obj[v.rc.snapshots[o].cache].row \in Slot
      BY <3>1, <3>2 DEF Eases
    <3>4. ASSUME NEW s \in Slot, v.kv.owner[s] = v.rc.snapshots[o].cache
          PROVE  v.req[o] = None /\ v.rc.snapshots[o].num > 0
      <4>1. w.kv.owner[s] = w.rc.snapshots[o].cache
        BY SMTT(30), <3>1, <3>4, NoneIs DEF Eases
      <4>2. w.req[o] = None /\ w.rc.snapshots[o].num > 0
        BY SMTT(30), <1>1, <3>1, <4>1 DEF Placed
      <4> QED BY <1>1, <3>1, <4>2
    <3> QED BY <3>3, <3>4
  <2>3. ASSUME NEW s \in Slot, v.kv.owner[s] # None PROVE v.kv.obj[v.kv.owner[s]].row = s
    <3>1. v.kv.owner[s] = w.kv.owner[s] /\ w.kv.owner[s] # None
      BY SMTT(30), <2>3 DEF Eases
    <3>2. w.kv.owner[s] \in Cache /\ w.kv.obj[w.kv.owner[s]] # Unused /\ w.kv.obj[w.kv.owner[s]].row = s
      BY <1>1, <1>6, <3>1 DEF Placed
    <3> QED BY SMTT(30), <3>1, <3>2 DEF Eases
  <2> QED BY SMTT(30), <2>1, <2>2, <2>3 DEF Placed
<1>8. Holds(v, K)
  <2> SUFFICES ASSUME NEW r \in Req, v.req[r] # None
               PROVE  /\ Tokens(v, r) = K[r] /\ v.req[r].num <= Len(K[r])
                      /\ v.req[r].cache # None => Starts(v.kv.obj[v.req[r].cache].tokens, K[r])
    BY DEF Holds
  <2>1. Tokens(v, r) = Tokens(w, r)
    BY <1>1 DEF Tokens
  <2>2. Tokens(v, r) = K[r] /\ v.req[r].num <= Len(K[r])
    BY <1>1, <2>1 DEF Holds
  <2>3. ASSUME v.req[r].cache # None PROVE Starts(v.kv.obj[v.req[r].cache].tokens, K[r])
    <3> DEFINE c == w.req[r].cache
    <3>1. v.req[r].cache = c /\ Cached(w, r) /\ Cached(v, r)
      BY SMTT(30), <1>1, <2>3 DEF Cached
    <3>2. Starts(w.kv.obj[c].tokens, K[r]) /\ Starts(v.kv.obj[c].tokens, w.kv.obj[c].tokens)
      BY SMTT(30), <1>1, <3>1 DEF Holds, Eases, Cached
    <3>3. Len(w.kv.obj[c].tokens) \in Nat /\ Len(v.kv.obj[c].tokens) \in Nat /\ Len(K[r]) \in Nat
      <4>1. v.kv.obj[c] # Unused /\ c \in Cache /\ v.kv \in Kvs
        BY <1>1, <1>6, <3>1, WorkerIs DEF Eases
      <4>2. K[r] \in Seq(Text)
        OBVIOUS
      <4>3. Len(K[r]) \in Nat
        BY <4>2, EntriesOf
      <4> HIDE DEF c
      <4>4. Len(v.kv.obj[c].tokens) \in Nat
        BY <4>1, InUseIs
      <4> QED BY SMTT(30), <1>6, <3>1, <4>3, <4>4 DEF c
    <3> HIDE DEF c
    <3>4. Starts(v.kv.obj[c].tokens, K[r])
      BY <3>2, <3>3, StartsTrans
    <3> QED BY <3>1, <3>4
  <2> QED BY <2>2, <2>3
<1>9. Honest(v, K)
  <2> SUFFICES ASSUME NEW o \in Req, Stored(v, o)
               PROVE  IsHonest(v.rc.snapshots[o], o, v.kv.obj[v.rc.snapshots[o].cache].tokens, K[o])
    BY DEF Honest
  <2>1. Stored(w, o) /\ v.rc.snapshots[o] = w.rc.snapshots[o]
    BY SMTT(30), <1>2
  <2>2. v.kv.obj[w.rc.snapshots[o].cache].tokens = w.kv.obj[w.rc.snapshots[o].cache].tokens
    BY DEF Eases
  <2>3. IsHonest(w.rc.snapshots[o], o, w.kv.obj[w.rc.snapshots[o].cache].tokens, K[o])
    BY <1>1, <2>1 DEF Honest
  <2> QED BY Zenon, <2>1, <2>2, <2>3
<1> QED BY SMTT(30), <1>1, <1>3, <1>4, <1>5, <1>7, <1>8, <1>9 DEF Sound

\* r gets the cache c.
GetsCache(w, v, r, c) ==
  /\ v \in Workers /\ v.kv = w.kv /\ v.rc = w.rc /\ v.active = w.active /\ v.offload = w.offload
  /\ \A o \in Req \ {r} : v.req[o] = w.req[o]
  /\ w.req[r] # None /\ v.req[r] # None /\ v.req[r].cache = c
  /\ v.req[r].num = w.req[r].num /\ v.req[r].out = w.req[r].out /\ v.req[r].slot = w.req[r].slot
  /\ v.req[r].blocks = w.req[r].blocks /\ v.req[r].pos = w.req[r].pos

LEMMA GetsCacheIs ==
  ASSUME NEW w \in Workers, NEW r \in Req, w.req[r] # None, NEW c \in Cache,
         NEW v, v = [w EXCEPT !.req[r].cache = c]
  PROVE  GetsCache(w, v, r, c)
<1> DEFINE x == [w.req[r] EXCEPT !.cache = c]
           f == [w.req EXCEPT ![r] = x]
<1>1. w.req[r] \in RequestStates
  BY WorkerIs
<1>2. /\ x \in RequestStates /\ x.cache = c
      /\ x.num = w.req[r].num /\ x.out = w.req[r].out /\ x.slot = w.req[r].slot
      /\ x.blocks = w.req[r].blocks /\ x.pos = w.req[r].pos
  BY <1>1 DEF RequestStates
<1>3. x # None
  BY <1>2, RecordAssumption
<1>4. v = [w EXCEPT !.req = f]
  BY DEF Workers
<1> HIDE DEF x
<1>5. /\ f \in [Req -> RequestStates \cup {None}] /\ f[r] = x
      /\ \A o \in Req \ {r} : f[o] = w.req[o]
  BY <1>2 DEF Workers
<1> HIDE DEF f
<1>6. /\ v \in Workers /\ v.kv = w.kv /\ v.rc = w.rc /\ v.active = w.active /\ v.offload = w.offload
      /\ v.req = f
  BY <1>4, <1>5 DEF Workers
<1>7. v.req[r] = x /\ \A o \in Req \ {r} : v.req[o] = w.req[o]
  BY <1>5, <1>6
<1> QED BY <1>2, <1>3, <1>6, <1>7 DEF GetsCache

LEMMA GetsCacheKeeps ==
  ASSUME NEW K \in [Req -> Seq(Text)], NEW w, Sound(w, K), NEW r \in Req, NEW c \in Cache,
         NEW v, GetsCache(w, v, r, c),
         w.kv.obj[c].row = SlotKey(w, r), Starts(w.kv.obj[c].tokens, K[r]),
         \A o \in Req \ {r} : Cached(w, o) => w.req[o].cache # c,
         \A o \in Req : Stored(w, o) => w.rc.snapshots[o].cache # c
  PROVE  Sound(v, K)
<1>1. /\ w \in Workers /\ RcOk(w.rc)
      /\ Owned(w) /\ Placed(w) /\ Marked(w) /\ Slotted(w) /\ Holds(w, K) /\ Honest(w, K)
  BY DEF Sound
<1>2. /\ v \in Workers /\ v.kv = w.kv /\ v.rc = w.rc
      /\ \A o \in Req \ {r} : v.req[o] = w.req[o]
      /\ w.req[r] # None /\ v.req[r] # None /\ v.req[r].cache = c
      /\ v.req[r].num = w.req[r].num /\ v.req[r].out = w.req[r].out /\ v.req[r].slot = w.req[r].slot
  BY DEF GetsCache
<1>3. /\ \A o \in Req : v.req[o] = None <=> w.req[o] = None
      /\ \A o \in Req : SlotKey(v, o) = SlotKey(w, o)
      /\ \A o \in Req : Stored(v, o) <=> Stored(w, o)
      /\ \A o \in Req \ {r} : Cached(v, o) <=> Cached(w, o)
  BY <1>2 DEF SlotKey, Stored, Cached
<1>4. Owned(v)
  <2>1. ASSUME NEW a \in Req, NEW o \in Req, Cached(v, a), Cached(v, o), v.req[a].cache = v.req[o].cache
        PROVE  a = o
    <3>1. CASE a # r /\ o # r
      BY <1>1, <1>2, <1>3, <2>1, <3>1 DEF Owned
    <3>2. CASE a = r \/ o = r
      BY <1>2, <1>3, <2>1, <3>2
    <3> QED BY <3>1, <3>2
  <2>2. ASSUME NEW a \in Req, NEW o \in Req, Cached(v, a), Stored(v, o)
        PROVE  v.req[a].cache # v.rc.snapshots[o].cache
    <3>1. CASE a # r
      BY <1>1, <1>2, <1>3, <2>2, <3>1 DEF Owned
    <3>2. CASE a = r
      BY <1>2, <1>3, <2>2, <3>2
    <3> QED BY <3>1, <3>2
  <2>3. \A a, o \in Req : Stored(v, a) /\ Stored(v, o)
            /\ v.rc.snapshots[a].cache = v.rc.snapshots[o].cache => a = o
    BY <1>1, <1>2, <1>3 DEF Owned
  <2>4. /\ \A a, o \in Req : Cached(v, a) /\ Cached(v, o) /\ v.req[a].cache = v.req[o].cache => a = o
        /\ \A a, o \in Req : Cached(v, a) /\ Stored(v, o) =>
              v.req[a].cache # v.rc.snapshots[o].cache
    BY Zenon, <2>1, <2>2
  <2> QED BY Zenon, <2>3, <2>4 DEF Owned
<1>5. Placed(v)
  <2>1. ASSUME NEW o \in Req, Cached(v, o) PROVE v.kv.obj[v.req[o].cache].row = SlotKey(v, o)
    <3>1. CASE o = r
      BY SMTT(30), <1>2, <1>3, <3>1
    <3>2. CASE o # r
      BY SMTT(30), <1>1, <1>2, <1>3, <2>1, <3>2 DEF Placed
    <3> QED BY <3>1, <3>2
  <2>2. \A o \in Req : Stored(v, o) => v.kv.obj[v.rc.snapshots[o].cache].row \in Slot
    BY SMTT(30), <1>1, <1>2, <1>3 DEF Placed
  <2>3. \A s \in Slot : v.kv.owner[s] # None => v.kv.obj[v.kv.owner[s]].row = s
    BY <1>1, <1>2 DEF Placed
  <2>4. ASSUME NEW o \in Req, NEW s \in Slot, Stored(v, o), v.kv.owner[s] = v.rc.snapshots[o].cache
        PROVE  v.req[o] = None /\ v.rc.snapshots[o].num > 0
    <3>1. Stored(w, o) /\ w.kv.owner[s] = w.rc.snapshots[o].cache
      BY SMTT(30), <1>2, <1>3, <2>4
    <3>2. w.req[o] = None /\ w.rc.snapshots[o].num > 0
      BY <1>1, <3>1 DEF Placed
    <3> QED BY <1>2, <1>3, <3>2
  <2> QED BY Zenon, <2>1, <2>2, <2>3, <2>4 DEF Placed
<1>6. Marked(v)
  BY <1>1, <1>2, <1>3 DEF Marked
<1>7. Slotted(v)
  BY <1>1, <1>2, <1>3 DEF Slotted
<1>8. Holds(v, K)
  <2>1. \A o \in Req : v.req[o] # None =>
          v.req[o].out = w.req[o].out /\ v.req[o].num = w.req[o].num /\ w.req[o] # None
    BY <1>2, <1>3
  <2>2. \A o \in Req : v.req[o] # None => Tokens(v, o) = K[o] /\ v.req[o].num <= Len(K[o])
    BY <1>1, <2>1 DEF Holds, Tokens
  <2>3. \A o \in Req : v.req[o] # None /\ v.req[o].cache # None =>
          Starts(v.kv.obj[v.req[o].cache].tokens, K[o])
    BY SMTT(30), <1>1, <1>2 DEF Holds
  <2> QED BY <2>2, <2>3 DEF Holds
<1>9. Honest(v, K)
  BY <1>1, <1>2, <1>3 DEF Honest
<1> QED BY <1>1, <1>2, <1>4, <1>5, <1>6, <1>7, <1>8, <1>9 DEF Sound

\* The cache c of r is bound to its slot.
Binds(w, v, c) ==
  /\ v \in Workers /\ v.rc = w.rc /\ v.req = w.req /\ v.kv.obj = w.kv.obj
  /\ v.kv.owner[w.kv.obj[c].row] = c
  /\ \A s \in Slot \ {w.kv.obj[c].row} : v.kv.owner[s] = w.kv.owner[s]

LEMMA BindsKeeps ==
  ASSUME NEW K \in [Req -> Seq(Text)], NEW w, Sound(w, K), NEW r \in Req, Cached(w, r),
         NEW v, Binds(w, v, w.req[r].cache)
  PROVE  Sound(v, K)
<1> DEFINE c == w.req[r].cache
           t == w.kv.obj[c].row
<1>1. /\ w \in Workers /\ RcOk(w.rc)
      /\ Owned(w) /\ Placed(w) /\ Marked(w) /\ Slotted(w) /\ Holds(w, K) /\ Honest(w, K)
  BY DEF Sound
<1>2. /\ v \in Workers /\ v.rc = w.rc /\ v.req = w.req /\ v.kv.obj = w.kv.obj
      /\ v.kv.owner[t] = c /\ \A s \in Slot \ {t} : v.kv.owner[s] = w.kv.owner[s]
  BY Zenon DEF Binds
<1>3. /\ \A o \in Req : SlotKey(v, o) = SlotKey(w, o)
      /\ \A o \in Req : Stored(v, o) <=> Stored(w, o)
      /\ \A o \in Req : Cached(v, o) <=> Cached(w, o)
  BY Zenon, <1>2 DEF SlotKey, Stored, Cached
<1>4. Owned(v) /\ Marked(v) /\ Slotted(v) /\ Honest(v, K)
  <2>1. Owned(v)
    BY Zenon, <1>1, <1>2, <1>3 DEF Owned
  <2>2. Marked(v)
    BY Zenon, <1>1, <1>2, <1>3 DEF Marked
  <2>3. Slotted(v)
    BY Zenon, <1>1, <1>2 DEF Slotted
  <2>4. Honest(v, K)
    BY Zenon, <1>1, <1>2, <1>3 DEF Honest
  <2> QED BY <2>1, <2>2, <2>3, <2>4
<1>5. Holds(v, K)
  BY Zenon, <1>1, <1>2 DEF Holds, Tokens
<1>6. t = SlotKey(w, r)
  BY <1>1 DEF Placed
<1>7. \A o \in Req : Stored(w, o) => w.rc.snapshots[o].cache # c
  BY <1>1 DEF Owned
<1>8. Placed(v)
  <2>1. /\ \A o \in Req : Cached(v, o) => v.kv.obj[v.req[o].cache].row = SlotKey(v, o)
        /\ \A o \in Req : Stored(v, o) => v.kv.obj[v.rc.snapshots[o].cache].row \in Slot
    BY Zenon, <1>1, <1>2, <1>3 DEF Placed
  <2>2. ASSUME NEW s \in Slot, v.kv.owner[s] # None PROVE v.kv.obj[v.kv.owner[s]].row = s
    <3>1. CASE s = t
      BY Zenon, <1>2, <3>1
    <3>2. CASE s # t
      BY Zenon, <1>1, <1>2, <2>2, <3>2 DEF Placed
    <3> QED BY <3>1, <3>2
  <2>3. ASSUME NEW o \in Req, NEW s \in Slot, Stored(v, o), v.kv.owner[s] = v.rc.snapshots[o].cache
        PROVE  v.req[o] = None /\ v.rc.snapshots[o].num > 0
    <3>1. s # t
      BY Zenon, <1>2, <1>3, <1>7, <2>3
    <3> QED BY Zenon, <1>1, <1>2, <1>3, <2>3, <3>1 DEF Placed
  <2> QED BY <2>1, <2>2, <2>3 DEF Placed
<1> QED BY Zenon, <1>1, <1>2, <1>4, <1>5, <1>8 DEF Sound

\* r leaves a snapshot in the cache c, which is nobody else's; it may be gone itself.
Leaves(w, v, r, c) ==
  /\ v \in Workers /\ RcOk(v.rc)
  /\ \A o \in Req \ {r} : v.req[o] = w.req[o]
  /\ v.req[r] = w.req[r] \/ v.req[r] = None
  /\ \A o \in Req \ {r} : Stored(v, o) => v.rc.snapshots[o] = w.rc.snapshots[o]
  /\ Stored(v, r) => v.rc.snapshots[r].cache = c
  /\ \A o \in Req : Cached(v, o) => v.req[o].cache # c
  /\ \A o \in Req \ {r} : Stored(w, o) => w.rc.snapshots[o].cache # c
  /\ \A d \in Cache : w.kv.obj[d] # Unused =>
        v.kv.obj[d] # Unused /\ v.kv.obj[d].row = w.kv.obj[d].row
  /\ Stored(v, r) => v.kv.obj[c].row \in Slot
  /\ \A s \in Slot : v.kv.owner[s] = w.kv.owner[s] \/ v.kv.owner[s] = None
  /\ \A o \in Req : Cached(v, o) => v.kv.obj[v.req[o].cache].tokens = w.kv.obj[v.req[o].cache].tokens
  /\ \A o \in Req \ {r} : Stored(v, o) =>
        v.kv.obj[w.rc.snapshots[o].cache].tokens = w.kv.obj[w.rc.snapshots[o].cache].tokens
  /\ Stored(v, r) => \A s \in Slot : v.kv.owner[s] = c => v.req[r] = None /\ v.rc.snapshots[r].num > 0

LEMMA LeavesKeeps ==
  ASSUME NEW K \in [Req -> Seq(Text)], NEW w, Sound(w, K), NEW r \in Req, NEW c,
         NEW v, Leaves(w, v, r, c), Marked(v), Slotted(v),
         Stored(v, r) => IsHonest(v.rc.snapshots[r], r, v.kv.obj[c].tokens, K[r])
  PROVE  Sound(v, K)
<1>1. /\ w \in Workers /\ RcOk(w.rc)
      /\ Owned(w) /\ Placed(w) /\ Slotted(w) /\ Holds(w, K) /\ Honest(w, K)
      /\ v \in Workers /\ RcOk(v.rc)
  BY SMTT(30) DEF Sound, Leaves
<1>2. /\ \A o \in Req \ {r} : Stored(v, o) => Stored(w, o) /\ v.rc.snapshots[o] = w.rc.snapshots[o]
      /\ \A o \in Req : v.req[o] # None => w.req[o] # None /\ v.req[o] = w.req[o]
      /\ \A o \in Req : Cached(v, o) => Cached(w, o) /\ SlotKey(v, o) = SlotKey(w, o)
  BY DEF Leaves, Stored, Cached, SlotKey
<1>3. /\ Stored(v, r) => v.rc.snapshots[r].cache = c
      /\ \A o \in Req : Cached(v, o) => v.req[o].cache # c
      /\ \A o \in Req \ {r} : Stored(w, o) => w.rc.snapshots[o].cache # c
      /\ Stored(v, r) => v.kv.obj[c].row \in Slot
  BY DEF Leaves
<1>4. /\ \A o \in Req : Cached(w, o) =>
           w.req[o].cache \in Cache /\ w.kv.obj[w.req[o].cache] # Unused
      /\ \A o \in Req : Stored(w, o) =>
           w.rc.snapshots[o].cache \in Cache /\ w.kv.obj[w.rc.snapshots[o].cache] # Unused
      /\ \A s \in Slot : w.kv.owner[s] # None =>
           w.kv.owner[s] \in Cache /\ w.kv.obj[w.kv.owner[s]] # Unused
  BY SMTT(30), <1>1, CachesInUse
<1>5. \A d \in Cache : w.kv.obj[d] # Unused => v.kv.obj[d].row = w.kv.obj[d].row
  BY DEF Leaves
<1>6. Owned(v)
  <2>1. \A a, o \in Req : Cached(v, a) /\ Cached(v, o) /\ v.req[a].cache = v.req[o].cache => a = o
    BY <1>1, <1>2 DEF Owned, Cached
  <2>2. ASSUME NEW a \in Req, NEW o \in Req, Cached(v, a), Stored(v, o)
        PROVE  v.req[a].cache # v.rc.snapshots[o].cache
    <3>1. CASE o = r
      BY <1>3, <2>2, <3>1
    <3>2. CASE o # r
      BY SMTT(30), <1>1, <1>2, <2>2, <3>2 DEF Owned, Cached
    <3> QED BY <3>1, <3>2
  <2>3. ASSUME NEW a \in Req, NEW o \in Req, Stored(v, a), Stored(v, o),
               v.rc.snapshots[a].cache = v.rc.snapshots[o].cache
        PROVE  a = o
    <3>1. CASE a = r \/ o = r
      BY <1>2, <1>3, <2>3, <3>1
    <3>2. CASE a # r /\ o # r
      BY Zenon, <1>1, <1>2, <2>3, <3>2 DEF Owned
    <3> QED BY <3>1, <3>2
  <2> QED BY <2>1, <2>2, <2>3 DEF Owned
<1>7. Placed(v)
  <2>1. ASSUME NEW o \in Req, Cached(v, o) PROVE v.kv.obj[v.req[o].cache].row = SlotKey(v, o)
    <3>1. Cached(w, o) /\ v.req[o] = w.req[o] /\ SlotKey(v, o) = SlotKey(w, o)
      BY <1>2, <2>1 DEF Cached
    <3> QED BY SMTT(30), <1>1, <1>4, <1>5, <3>1 DEF Placed
  <2>2. ASSUME NEW o \in Req, Stored(v, o)
        PROVE  /\ v.kv.obj[v.rc.snapshots[o].cache].row \in Slot
               /\ \A s \in Slot : v.kv.owner[s] = v.rc.snapshots[o].cache =>
                    v.req[o] = None /\ v.rc.snapshots[o].num > 0
    <3>1. CASE o = r
      BY Zenon, <1>3, <2>2, <3>1 DEF Leaves
    <3>2. CASE o # r
      <4>1. Stored(w, o) /\ v.rc.snapshots[o] = w.rc.snapshots[o] /\ v.req[o] = w.req[o]
        BY <1>2, <2>2, <3>2 DEF Leaves
      <4>2. w.rc.snapshots[o].cache \in Cache /\ w.kv.obj[w.rc.snapshots[o].cache] # Unused
        BY SMTT(30), <1>4, <4>1
      <4>3. v.kv.obj[v.rc.snapshots[o].cache].row \in Slot
        BY <1>1, <1>5, <4>1, <4>2 DEF Placed
      <4>4. ASSUME NEW s \in Slot, v.kv.owner[s] = v.rc.snapshots[o].cache
            PROVE  v.req[o] = None /\ v.rc.snapshots[o].num > 0
        <5>1. w.kv.owner[s] = w.rc.snapshots[o].cache
          BY <4>1, <4>2, <4>4, NoneIs DEF Leaves
        <5>2. w.req[o] = None /\ w.rc.snapshots[o].num > 0
          BY <1>1, <4>1, <5>1 DEF Placed
        <5> QED BY <4>1, <5>2
      <4> QED BY SMTT(30), <4>3, <4>4
    <3> QED BY <3>1, <3>2
  <2>3. ASSUME NEW s \in Slot, v.kv.owner[s] # None PROVE v.kv.obj[v.kv.owner[s]].row = s
    <3>1. v.kv.owner[s] = w.kv.owner[s] /\ w.kv.owner[s] # None
      BY SMTT(30), <2>3 DEF Leaves
    <3>2. w.kv.owner[s] \in Cache /\ w.kv.obj[w.kv.owner[s]] # Unused /\ w.kv.obj[w.kv.owner[s]].row = s
      BY <1>1, <1>4, <3>1 DEF Placed
    <3> QED BY SMTT(30), <1>5, <3>1, <3>2
  <2> QED BY SMTT(30), <2>1, <2>2, <2>3 DEF Placed
<1>8. Holds(v, K)
  <2> SUFFICES ASSUME NEW o \in Req, v.req[o] # None
               PROVE  /\ Tokens(v, o) = K[o] /\ v.req[o].num <= Len(K[o])
                      /\ v.req[o].cache # None => Starts(v.kv.obj[v.req[o].cache].tokens, K[o])
    BY DEF Holds
  <2>1. w.req[o] # None /\ v.req[o] = w.req[o]
    BY <1>2
  <2>2. Tokens(v, o) = Tokens(w, o)
    BY <2>1 DEF Tokens
  <2>3. Tokens(v, o) = K[o] /\ v.req[o].num <= Len(K[o])
    BY SMTT(30), <1>1, <2>1, <2>2 DEF Holds
  <2>4. ASSUME v.req[o].cache # None PROVE Starts(v.kv.obj[v.req[o].cache].tokens, K[o])
    <3>1. Cached(v, o)
      BY SMTT(30), <2>4 DEF Cached
    <3>2. v.kv.obj[v.req[o].cache].tokens = w.kv.obj[v.req[o].cache].tokens
      BY <3>1 DEF Leaves
    <3>3. Starts(w.kv.obj[w.req[o].cache].tokens, K[o])
      BY <1>1, <2>1, <2>4 DEF Holds
    <3> QED BY <2>1, <3>2, <3>3
  <2> QED BY <2>3, <2>4
<1>9. Honest(v, K)
  <2> SUFFICES ASSUME NEW o \in Req, Stored(v, o)
               PROVE  IsHonest(v.rc.snapshots[o], o, v.kv.obj[v.rc.snapshots[o].cache].tokens, K[o])
    BY DEF Honest
  <2>1. CASE o = r
    BY <1>3, <2>1
  <2>2. CASE o # r
    <3>1. Stored(w, o) /\ v.rc.snapshots[o] = w.rc.snapshots[o]
      BY SMTT(30), <1>2, <2>2
    <3>2. v.kv.obj[w.rc.snapshots[o].cache].tokens = w.kv.obj[w.rc.snapshots[o].cache].tokens
      BY SMTT(30), <2>2 DEF Leaves
    <3>3. IsHonest(w.rc.snapshots[o], o, w.kv.obj[w.rc.snapshots[o].cache].tokens, K[o])
      BY SMTT(30), <1>1, <3>1 DEF Honest
    <3> QED BY Zenon, <3>1, <3>2, <3>3
  <2> QED BY <2>1, <2>2
<1> QED BY <1>1, <1>6, <1>7, <1>8, <1>9 DEF Sound

-----------------------------------------------------------------------------
(* What a handler for r leaves alone, and what it saves.                   *)

Frame(w, v, r) ==
  /\ v.offload = w.offload /\ SameSlots(w.rc, v.rc) /\ v.rc.cap = w.rc.cap
  /\ \A o \in Req \ {r} : v.req[o] = w.req[o]
  /\ w.req[r] # None /\ v.req[r] # None
  /\ v.req[r].num = w.req[r].num /\ v.req[r].out = w.req[r].out /\ v.req[r].slot = w.req[r].slot
  /\ v.req[r].blocks = w.req[r].blocks /\ v.req[r].pos = w.req[r].pos
  /\ \A o \in Req \ {r} : Cached(w, o) => v.kv.obj[w.req[o].cache] = w.kv.obj[w.req[o].cache]
  /\ \A s \in Slot \ {SlotKey(w, r)} : v.kv.owner[s] = w.kv.owner[s]
  /\ v.active = w.active
  /\ \A o \in Req : Stored(v, o) => Stored(w, o) \/ w.req[o] # None

LEMMA FrameTrans ==
  ASSUME NEW w, NEW u, NEW v, NEW r \in Req, Frame(w, u, r), Frame(u, v, r)
  PROVE  Frame(w, v, r) /\ SlotKey(u, r) = SlotKey(w, r)
<1>1. SlotKey(u, r) = SlotKey(w, r)
  BY DEF Frame, SlotKey
<1>2. SameSlots(w.rc, v.rc)
  BY DEF Frame, SameSlots
<1>3. \A o \in Req \ {r} : Cached(w, o) => v.kv.obj[w.req[o].cache] = w.kv.obj[w.req[o].cache]
  BY DEF Frame, Cached
<1>4. \A o \in Req : Stored(v, o) => Stored(w, o) \/ w.req[o] # None
  BY DEF Frame
<1>5. \A s \in Slot \ {SlotKey(w, r)} : v.kv.owner[s] = w.kv.owner[s]
  BY <1>1 DEF Frame
<1> QED BY <1>1, <1>2, <1>3, <1>4, <1>5 DEF Frame

\* c is the cache of a live request that is on a slot, or last ran on one.
Bound(w, c) ==
  \/ \E o \in Req, s \in Slot : Cached(w, o) /\ w.req[o].cache = c /\ w.kv.owner[s] = c
  \/ \E s \in Slot : w.active[s] # None /\ w.active[s].cache = c

\* Dumps are of such caches, but for copies and, with host offload, offloads.
Saves(w, v) ==
  \A dump \in v.kv.dumps :
    \/ dump \in w.kv.dumps
    \/ dump.by = "copy"
    \/ dump.by = "offload" /\ w.offload
    \/ Bound(w, dump.of)

LEMMA SavesTrans ==
  ASSUME NEW w, NEW u, NEW v, Saves(w, u), Saves(u, v), u.offload = w.offload,
         \A c : Bound(u, c) => Bound(w, c)
  PROVE  Saves(w, v)
BY DEF Saves

-----------------------------------------------------------------------------
(* What matching finds.                                                    *)

LEMMA CommonPrefixIs ==
  ASSUME NEW s, NEW t, Len(s) \in Nat, Len(t) \in Nat, NEW n, n = CommonPrefixLength(s, t)
  PROVE  n \in Nat /\ n <= Len(s) /\ n <= Len(t) /\ \A i \in 1 .. n : s[i] = t[i]
<1> DEFINE N == Least(Len(s), Len(t))
           S == {k \in 0 .. N \cup {0} : \A i \in 0 + 1 .. k : s[i] = t[i]}
<1>1. N \in Nat /\ N <= Len(s) /\ N <= Len(t)
  BY DEF Least
<1>2. n = MaxOf(S)
  BY DEF CommonPrefixLength, AgreeFrom
<1> HIDE DEF N
<1>3. S \in SUBSET (0 .. N) /\ 0 \in S
  BY <1>1
<1>4. n \in S
  <2> HIDE DEF S
  <2> QED BY <1>1, <1>2, <1>3, MaxOfIs
<1>5. n \in 0 .. N /\ \A i \in 1 .. n : s[i] = t[i]
  BY <1>1, <1>4
<1> QED BY <1>1, <1>5

LEMMA TokensMatched ==
  ASSUME NEW matched \in Nat, NEW s, NEW t, s # None, t # None, Len(s) \in Nat, Len(t) \in Nat,
         NEW n, n = TokenCompatibleTokens(matched, s, t)
  PROVE  /\ n \in Nat /\ n <= matched
         /\ n > 0 => n <= Len(s) /\ n <= Len(t)
         /\ \A i \in 1 .. n : s[i] = t[i]
<1> DEFINE common == CommonPrefixLength(s, t)
<1>1. common \in Nat /\ common <= Len(s) /\ common <= Len(t) /\ \A i \in 1 .. common : s[i] = t[i]
  BY CommonPrefixIs
<1>2. n = IF matched <= 0 THEN 0 ELSE Least(matched, common)
  BY DEF TokenCompatibleTokens
<1> HIDE DEF common
<1>3. (n \in Nat /\ n <= matched /\ n <= common) \/ n = 0
  BY <1>1, <1>2 DEF Least
<1> QED BY <1>1, <1>3

\* The i-th token of r's prompt is an image.
Shows(r, i) == i <= Len(Prompt[r]) /\ Prompt[r][i] \in Images

SpanAt(r, i) == [start |-> i - 1, stop |-> i, image |-> Prompt[r][i]]

LEMMA SpansAre ==
  ASSUME NEW r \in Req
  PROVE  /\ Len(ImageSpans(r)) \in Nat
         /\ \A e : e \in Entries(ImageSpans(r)) <=>
              \E i \in 1 .. Len(Prompt[r]) : e = SpanAt(r, i) /\ Shows(r, i)
         /\ Entries(ImageSpans(r)) = {} <=> ImageSpans(r) = <<>>
<1> DEFINE N == Len(Prompt[r])
           spans == [i \in 1 .. N |-> SpanAt(r, i)]
           T == {SpanAt(r, i) : i \in 1 .. N}
           S == {span \in Entries(spans) : span.image \in Images}
<1>1. N \in Nat
  BY PromptAssumption, EntriesOf
<1>2. spans \in Seq(T) /\ Len(spans) = N /\ \A i \in 1 .. N : spans[i] = SpanAt(r, i)
  <2> HIDE DEF N
  <2>1. spans \in [1 .. N -> T]
    OBVIOUS
  <2> QED BY <1>1, <2>1, SeqDef
<1>3. Entries(spans) = {SpanAt(r, i) : i \in 1 .. N}
  <2> HIDE DEF spans, N
  <2> QED BY <1>2 DEF Entries
<1>4. ImageSpans(r) = Within(spans, S)
  BY DEF ImageSpans, SpanAt
<1>5. \A i \in 1 .. N : SpanAt(r, i).image = Prompt[r][i]
  BY DEF SpanAt
<1> DEFINE shown == ImageSpans(r)
<1>6. /\ shown \in Seq(T)
      /\ \A x : x \in Entries(shown) <=> x \in Entries(spans) /\ x \in S
  <2> HIDE DEF spans, S, T
  <2> QED BY <1>2, <1>4, WithinIs
<1>7. Len(shown) \in Nat /\ (Entries(shown) = {} <=> shown = <<>>)
  <2> HIDE DEF shown, T
  <2> QED BY <1>6, EntriesOf
<1>8. ASSUME NEW e
      PROVE  e \in Entries(shown) <=> \E i \in 1 .. N : e = SpanAt(r, i) /\ Shows(r, i)
  <2>1. e \in Entries(shown) <=> e \in Entries(spans) /\ e.image \in Images
    BY <1>6
  <2> HIDE DEF spans, shown
  <2>2. e \in Entries(spans) <=> \E i \in 1 .. N : e = SpanAt(r, i)
    BY <1>3
  <2>3. \A i \in 1 .. N : SpanAt(r, i).image \in Images <=> Shows(r, i)
    BY <1>1, <1>5 DEF Shows
  <2> QED BY <2>1, <2>2, <2>3
<1> QED BY <1>7, <1>8

\* Up to n, r and o show the same images.
SameImages(r, o, n) ==
  \A i \in 1 .. n : (Shows(r, i) <=> Shows(o, i)) /\ (Shows(r, i) => Prompt[r][i] = Prompt[o][i])

LEMMA SpansOfSame ==
  ASSUME NEW r \in Req, NEW o \in Req, ImageSpans(r) = ImageSpans(o), NEW i, Shows(r, i),
         i \in 1 .. Len(Prompt[r])
  PROVE  Shows(o, i) /\ Prompt[r][i] = Prompt[o][i]
<1>1. SpanAt(r, i) \in Entries(ImageSpans(r))
  BY SpansAre
<1>2. PICK j \in 1 .. Len(Prompt[o]) : SpanAt(r, i) = SpanAt(o, j) /\ Shows(o, j)
  <2>1. SpanAt(r, i) \in Entries(ImageSpans(o))
    BY <1>1
  <2> QED BY <2>1, SpansAre
<1>3. i - 1 = j - 1 /\ Prompt[r][i] = Prompt[o][j]
  BY <1>2 DEF SpanAt
<1>4. Len(Prompt[r]) \in Nat /\ Len(Prompt[o]) \in Nat
  BY PromptAssumption, EntriesOf
<1>5. i = j
  BY <1>3, <1>4
<1> QED BY <1>2, <1>3, <1>5

LEMMA ImagesMatched ==
  ASSUME NEW r \in Req, NEW o \in Req, NEW matched \in Nat, NEW k \in Nat, NEW l \in Nat, k > 0, l > 0,
         NEW n, n = MultimodalCompatibleTokens(matched, MultimodalIdentity(r, k), MultimodalIdentity(o, l))
  PROVE  n \in Nat /\ n <= matched /\ SameImages(r, o, n)
<1> DEFINE a == MultimodalIdentity(r, k)
           b == MultimodalIdentity(o, l)
           A == [session |-> Session[r], spans |-> ImageSpans(r)]
           B == [session |-> Session[o], spans |-> ImageSpans(o)]
<1>1. /\ a = IF ImageSpans(r) # <<>> THEN A ELSE None
      /\ b = IF ImageSpans(o) # <<>> THEN B ELSE None
      /\ A # None /\ B # None
  BY RecordAssumption DEF MultimodalIdentity
<1>2. Len(Prompt[r]) \in Nat /\ Len(Prompt[o]) \in Nat
  BY PromptAssumption, EntriesOf
<1>3. \A i \in Nat \ {0} : ImageSpans(r) = <<>> => ~Shows(r, i)
  <2> SUFFICES ASSUME NEW i \in Nat \ {0}, ImageSpans(r) = <<>>, Shows(r, i) PROVE FALSE
    OBVIOUS
  <2>1. i \in 1 .. Len(Prompt[r])
    BY <1>2 DEF Shows
  <2>2. SpanAt(r, i) \in Entries(ImageSpans(r))
    BY <2>1, SpansAre
  <2> QED BY <2>2, SpansAre
<1>4. \A i \in Nat \ {0} : ImageSpans(o) = <<>> => ~Shows(o, i)
  <2> SUFFICES ASSUME NEW i \in Nat \ {0}, ImageSpans(o) = <<>>, Shows(o, i) PROVE FALSE
    OBVIOUS
  <2>1. i \in 1 .. Len(Prompt[o])
    BY <1>2 DEF Shows
  <2>2. SpanAt(o, i) \in Entries(ImageSpans(o))
    BY <2>1, SpansAre
  <2> QED BY <2>2, SpansAre
<1>5. CASE matched = 0
  BY <1>5 DEF MultimodalCompatibleTokens, SameImages
<1>6. CASE matched > 0 /\ a = None /\ b = None
  <2>1. n = matched
    BY <1>6 DEF MultimodalCompatibleTokens
  <2>2. ImageSpans(r) = <<>> /\ ImageSpans(o) = <<>>
    BY <1>1, <1>6
  <2>3. SameImages(r, o, n)
    <3>1. \A i \in 1 .. n : i \in Nat \ {0}
      BY <2>1
    <3> QED BY <1>3, <1>4, <2>2, <3>1 DEF SameImages
  <2> QED BY <2>1, <2>3
<1>7. CASE matched > 0 /\ a # None /\ b # None /\ a = b
  <2>1. A = B
    BY <1>1, <1>7
  <2>2. ImageSpans(r) = ImageSpans(o)
    BY <2>1
  <2>3. ASSUME NEW i \in Nat \ {0}
        PROVE  (Shows(r, i) <=> Shows(o, i)) /\ (Shows(r, i) => Prompt[r][i] = Prompt[o][i])
    <3>1. CASE Shows(r, i)
      <4>1. i \in 1 .. Len(Prompt[r])
        BY <1>2, <3>1 DEF Shows
      <4> QED BY <2>2, <3>1, <4>1, SpansOfSame
    <3>2. CASE Shows(o, i)
      <4>1. i \in 1 .. Len(Prompt[o])
        BY <1>2, <3>2 DEF Shows
      <4> QED BY <2>2, <3>2, <4>1, SpansOfSame
    <3> QED BY <3>1, <3>2
  <2>4. n = matched \/ n = Least(matched, KnownTextOnlyPrefixLimit(a, b))
    BY <1>7 DEF MultimodalCompatibleTokens
  <2> DEFINE limit == KnownTextOnlyPrefixLimit(a, b)
  <2> QED
    <3>1. ASSUME n \in Nat PROVE SameImages(r, o, n)
      <4>1. \A i \in 1 .. n : i \in Nat \ {0}
        BY <3>1
      <4> QED BY <2>3, <4>1 DEF SameImages
    <3>2. limit \in Nat
      <4> DEFINE starts == UNION {{m.spans[i].start : i \in 1 .. Len(m.spans)} : m \in {a, b} \ {None}}
      <4>1. starts = {e.start : e \in Entries(ImageSpans(r))}
        BY <1>1, <1>7, <2>2 DEF Entries
      <4>2. limit = IF starts = {} THEN 0 ELSE CHOOSE x \in starts : \A y \in starts : x <= y
        BY DEF KnownTextOnlyPrefixLimit
      <4>3. starts \in SUBSET Nat
        <5>1. \A e \in Entries(ImageSpans(r)) : e.start \in Nat
          BY SpansAre DEF SpanAt
        <5> QED BY <4>1, <5>1
      <4> HIDE DEF starts, limit
      <4> QED BY <4>2, <4>3, LeastNatural
    <3> HIDE DEF limit
    <3>3. n \in Nat /\ n <= matched
      BY <2>4, <3>2 DEF limit, Least
    <3> QED BY <3>1, <3>3
<1>8. CASE matched > 0 /\ (a # None \/ b # None) /\ ~(a # None /\ b # None /\ a = b)
  <2> DEFINE starts == UNION {{m.spans[i].start : i \in 1 .. Len(m.spans)} : m \in {a, b} \ {None}}
             limit == KnownTextOnlyPrefixLimit(a, b)
  <2>1. n = Least(matched, limit)
    BY <1>8 DEF MultimodalCompatibleTokens
  <2>2. a # None => a = A /\ {a.spans[i].start : i \in 1 .. Len(a.spans)} = {e.start : e \in Entries(ImageSpans(r))}
    BY <1>1 DEF Entries
  <2>3. b # None => b = B /\ {b.spans[i].start : i \in 1 .. Len(b.spans)} = {e.start : e \in Entries(ImageSpans(o))}
    BY <1>1 DEF Entries
  <2>4. ASSUME NEW x, x \in starts
        PROVE  \/ \E e \in Entries(ImageSpans(r)) : x = e.start
               \/ \E e \in Entries(ImageSpans(o)) : x = e.start
    <3>1. PICK m \in {a, b} \ {None} : x \in {m.spans[i].start : i \in 1 .. Len(m.spans)}
      BY <2>4
    <3>2. CASE m = a
      <4>1. a # None /\ x \in {a.spans[i].start : i \in 1 .. Len(a.spans)}
        BY <3>1, <3>2
      <4>2. x \in {e.start : e \in Entries(ImageSpans(r))}
        BY <2>2, <4>1
      <4> QED BY <4>2
    <3>3. CASE m = b
      <4>1. b # None /\ x \in {b.spans[i].start : i \in 1 .. Len(b.spans)}
        BY <3>1, <3>3
      <4>2. x \in {e.start : e \in Entries(ImageSpans(o))}
        BY <2>3, <4>1
      <4> QED BY <4>2
    <3> HIDE DEF a, b
    <3> QED BY <3>1, <3>2, <3>3
  <2>5. starts \in SUBSET Nat
    <3>1. \A e \in Entries(ImageSpans(r)) : e.start \in Nat
      BY SpansAre DEF SpanAt
    <3>2. \A e \in Entries(ImageSpans(o)) : e.start \in Nat
      BY SpansAre DEF SpanAt
    <3> QED BY ZenonT(30), <2>4, <3>1, <3>2
  <2>6. /\ a # None => \A e \in Entries(ImageSpans(r)) : e.start \in starts
        /\ b # None => \A e \in Entries(ImageSpans(o)) : e.start \in starts
    <3>1. ASSUME a # None, NEW e \in Entries(ImageSpans(r)) PROVE e.start \in starts
      <4>1. e.start \in {a.spans[i].start : i \in 1 .. Len(a.spans)}
        BY <2>2, <3>1
      <4> HIDE DEF a, b
      <4> QED BY <3>1, <4>1
    <3>2. ASSUME b # None, NEW e \in Entries(ImageSpans(o)) PROVE e.start \in starts
      <4>1. e.start \in {b.spans[i].start : i \in 1 .. Len(b.spans)}
        BY <2>3, <3>2
      <4> HIDE DEF a, b
      <4> QED BY <3>2, <4>1
    <3> HIDE DEF a, b, starts
    <3> QED BY <3>1, <3>2
  <2>7. limit = IF starts = {} THEN 0 ELSE CHOOSE x \in starts : \A y \in starts : x <= y
    BY DEF KnownTextOnlyPrefixLimit
  <2> HIDE DEF starts, limit
  <2>8. limit \in Nat /\ \A y \in starts : limit <= y
    BY <2>5, <2>7, LeastNatural
  <2>9. n \in Nat /\ n <= matched /\ n <= limit
    BY <2>1, <2>8 DEF Least
  <2>10. ASSUME NEW i \in 1 .. n PROVE ~Shows(r, i) /\ ~Shows(o, i)
    <3>0. i \in Nat \ {0} /\ i <= limit
      BY <2>8, <2>9
    <3>1. ASSUME Shows(r, i) PROVE FALSE
      <4>1. i \in 1 .. Len(Prompt[r])
        BY <1>2, <3>0, <3>1 DEF Shows
      <4>2. SpanAt(r, i) \in Entries(ImageSpans(r))
        BY <3>1, <4>1, SpansAre
      <4>3. a # None
        BY <1>1, <1>3, <3>0, <3>1
      <4>4. i - 1 \in starts
        BY <2>6, <4>2, <4>3 DEF SpanAt
      <4> QED BY <2>8, <3>0, <4>4
    <3>2. ASSUME Shows(o, i) PROVE FALSE
      <4>1. i \in 1 .. Len(Prompt[o])
        BY <1>2, <3>0, <3>2 DEF Shows
      <4>2. SpanAt(o, i) \in Entries(ImageSpans(o))
        BY <3>2, <4>1, SpansAre
      <4>3. b # None
        BY <1>1, <1>4, <3>0, <3>2
      <4>4. i - 1 \in starts
        BY <2>6, <4>2, <4>3 DEF SpanAt
      <4> QED BY <2>8, <3>0, <4>4
    <3> QED BY <3>1, <3>2
  <2> QED BY <2>9, <2>10 DEF SameImages
<1> HIDE DEF a, b
<1> QED BY <1>5, <1>6, <1>7, <1>8

\* The request r as a prefix.
IsQuery(q, r) ==
  /\ q.req = r /\ q.num \in Nat /\ q.ids \in Seq(Text \cup {Placeholder}) /\ Len(q.ids) = q.num
  /\ q.mm = MultimodalIdentity(r, q.num) /\ q.embeds = None /\ q.hashes = None
  /\ q.blocks \in Seq(Block)

LEMMA CacheTokenIdsIs ==
  ASSUME NEW v, NEW r \in Req, NEW t \in Seq(Text), Tokens(v, r) = t, NEW n \in Nat, n <= Len(t),
         NEW ids, ids = CacheTokenIds(v, r, n)
  PROVE  /\ ids \in Seq(Text \cup {Placeholder}) /\ Len(ids) = n
         /\ \A i \in 1 .. n : ids[i] = Masked(t[i])
<1>1. Len(t) \in Nat /\ \A i \in 1 .. Len(t) : t[i] \in Text
  BY EntriesOf
<1>2. ids = [i \in 1 .. n |-> Masked(t[i])]
  BY DEF CacheTokenIds, Masked
<1>3. \A i \in 1 .. n : Masked(t[i]) \in Text \cup {Placeholder}
  BY <1>1 DEF Masked
<1>4. ids \in [1 .. n -> Text \cup {Placeholder}] /\ \A i \in 1 .. n : ids[i] = Masked(t[i])
  BY <1>2, <1>3
<1> QED BY <1>4, SeqDef

LEMMA PrefixIs ==
  ASSUME NEW K \in [Req -> Seq(Text)], NEW v \in Workers, Holds(v, K), NEW r \in Req, v.req[r] # None,
         NEW n \in Nat, n <= Len(K[r]), NEW c, NEW q, q = PrefixOf(v, r, n, c)
  PROVE  /\ IsQuery(q, r) /\ q.num = n /\ q.cache = c
         /\ \A i \in 1 .. n : q.ids[i] = Masked(K[r][i])
         /\ c \in Cache => q \in Snapshots
<1> DEFINE ids == CacheTokenIds(v, r, n)
<1>1. Tokens(v, r) = K[r] /\ K[r] \in Seq(Text)
  BY DEF Holds
<1>2. v.req[r].blocks \in Seq(Block)
  BY WorkerIs
<1>3. /\ ids \in Seq(Text \cup {Placeholder}) /\ Len(ids) = n
      /\ \A i \in 1 .. n : ids[i] = Masked(K[r][i])
  BY <1>1, CacheTokenIdsIs
<1>4. q = [req |-> r, num |-> n, blocks |-> v.req[r].blocks, hashes |-> None,
           ids |-> ids, mm |-> MultimodalIdentity(r, n), embeds |-> None, cache |-> c]
  BY DEF PrefixOf
<1>5. MultimodalIdentity(r, n) \in {None} \cup {MultimodalIdentity(o, 1) : o \in Req}
  BY DEF MultimodalIdentity
<1> HIDE DEF ids
<1>6. IsQuery(q, r) /\ q.num = n /\ q.cache = c /\ q.ids = ids
  BY <1>2, <1>3, <1>4 DEF IsQuery
<1>7. c \in Cache => q \in Snapshots
  BY <1>2, <1>3, <1>4, <1>5 DEF Snapshots
<1> QED BY <1>3, <1>6, <1>7

LEMMA IndexBlocksIs ==
  ASSUME NEW p, p.hashes = None, p.blocks \in Seq(Block)
  PROVE  Len(IndexBlocks(p)) \in Nat
<1> DEFINE N == Len(p.blocks)
           T == {<<"physical", p.blocks[i]>> : i \in 1 .. N}
           keys == [i \in 1 .. N |-> <<"physical", p.blocks[i]>>]
<1>1. N \in Nat
  BY EntriesOf
<1>2. IndexBlocks(p) = keys
  BY DEF IndexBlocks
<1> HIDE DEF N
<1>3. keys \in [1 .. N -> T]
  OBVIOUS
<1> HIDE DEF keys, T
<1>4. keys \in Seq(T)
  BY <1>1, <1>3, SeqDef
<1> QED BY <1>2, <1>4, EntriesOf

LEMMA SnapshotIs ==
  ASSUME NEW s \in Snapshots
  PROVE  /\ s.num \in Nat /\ s.ids \in Seq(Text \cup {Placeholder}) /\ s.ids # None /\ Len(s.ids) \in Nat
         /\ s.embeds = None /\ s.hashes = None /\ s.cache \in Cache
         /\ Len(IndexBlocks(s)) \in Nat
<1>1. /\ s.num \in Nat /\ s.ids \in Seq(Text \cup {Placeholder})
      /\ s.embeds = None /\ s.hashes = None /\ s.cache \in Cache /\ s.blocks \in Seq(Block)
  BY DEF Snapshots
<1>2. s.ids # None /\ Len(s.ids) \in Nat
  BY <1>1, EntriesOf, RecordAssumption
<1> QED BY <1>1, <1>2, IndexBlocksIs

LEMMA QueryIs ==
  ASSUME NEW q, NEW r, IsQuery(q, r)
  PROVE  /\ q.ids # None /\ Len(q.ids) \in Nat /\ Len(IndexBlocks(q)) \in Nat
         /\ \A matched, s : s.embeds = None =>
              TokensForPromptEmbeds(matched, q, s) = TokenCompatibleTokens(matched, q.ids, s.ids)
<1>1. q.ids \in Seq(Text \cup {Placeholder}) /\ q.hashes = None /\ q.blocks \in Seq(Block)
  BY DEF IsQuery
<1>2. q.ids # None /\ Len(q.ids) \in Nat
  BY <1>1, EntriesOf, RecordAssumption
<1>3. \A matched, s : s.embeds = None =>
              TokensForPromptEmbeds(matched, q, s) = TokenCompatibleTokens(matched, q.ids, s.ids)
  BY DEF TokensForPromptEmbeds, IsQuery
<1> QED BY <1>1, <1>2, <1>3, IndexBlocksIs

\* A match is no longer than what both know, and they show the same images.
LEMMA MatchedIs ==
  ASSUME NEW r \in Req, NEW q, IsQuery(q, r), NEW o \in Req, NEW s \in Snapshots,
         s.mm = MultimodalIdentity(o, s.num), NEW m \in Nat, m <= q.num, m <= s.num,
         NEW n, n = MultimodalCompatibleTokens(TokensForPromptEmbeds(m, q, s), q.mm, s.mm)
  PROVE  n \in Nat /\ n <= q.num /\ SameImages(r, o, n)
<1> DEFINE x == TokensForPromptEmbeds(m, q, s)
<1>1. s.num \in Nat /\ s.ids # None /\ Len(s.ids) \in Nat /\ s.embeds = None
  BY SnapshotIs
<1>2. q.ids # None /\ Len(q.ids) \in Nat /\ q.num \in Nat /\ q.mm = MultimodalIdentity(r, q.num)
  BY QueryIs DEF IsQuery
<1>3. x = TokenCompatibleTokens(m, q.ids, s.ids)
  BY <1>1, QueryIs
<1> HIDE DEF x
<1>4. x \in Nat /\ x <= m
  BY <1>1, <1>2, <1>3, TokensMatched
<1>5. n = MultimodalCompatibleTokens(x, MultimodalIdentity(r, q.num), MultimodalIdentity(o, s.num))
  BY <1>2 DEF x
<1>6. CASE q.num > 0 /\ s.num > 0
  <2>1. n \in Nat /\ n <= x /\ SameImages(r, o, n)
    BY <1>1, <1>2, <1>4, <1>5, <1>6, ImagesMatched
  <2> QED BY <1>2, <1>4, <2>1
<1>7. CASE q.num = 0 \/ s.num = 0
  <2>1. x = 0
    BY <1>1, <1>2, <1>4, <1>7
  <2>2. n = 0
    BY <1>5, <2>1 DEF MultimodalCompatibleTokens
  <2> QED BY <1>2, <2>2 DEF SameImages
<1> QED BY <1>1, <1>2, <1>6, <1>7

LEMMA WalkedIs ==
  ASSUME NEW r \in Req, NEW q, IsQuery(q, r), NEW o \in Req, NEW s \in Snapshots,
         s.mm = MultimodalIdentity(o, s.num), NEW keys, Len(keys) \in Nat,
         NEW n, n = WalkedTokens(q, s, keys)
  PROVE  n \in Nat /\ n <= q.num /\ SameImages(r, o, n)
<1> DEFINE depth == CommonPrefixLength(IndexBlocks(q), keys)
           m == Least(Least(s.num, depth * BlockSize), q.num)
<1>1. depth \in Nat
  BY QueryIs, CommonPrefixIs
<1>2. s.num \in Nat /\ q.num \in Nat
  BY SnapshotIs DEF IsQuery
<1>3. n = IF q.num <= 0 \/ depth = 0 THEN 0
          ELSE MultimodalCompatibleTokens(TokensForPromptEmbeds(m, q, s), q.mm, s.mm)
  BY DEF WalkedTokens, MatchAtDepth, TokensAtDepth
<1>4. m \in Nat /\ m <= q.num /\ m <= s.num
  <2> HIDE DEF depth
  <2>1. depth * BlockSize \in Nat
    BY <1>1, BlockSizeAssumption
  <2> DEFINE b == depth * BlockSize
  <2> HIDE DEF b
  <2>2. b \in Nat /\ m = Least(Least(s.num, b), q.num)
    BY <2>1 DEF b
  <2> QED BY <1>2, <2>2 DEF Least
<1> HIDE DEF m, depth
<1>5. CASE n = 0
  BY <1>2, <1>5 DEF SameImages
<1>6. CASE n # 0
  <2>1. n = MultimodalCompatibleTokens(TokensForPromptEmbeds(m, q, s), q.mm, s.mm)
    BY <1>3, <1>6
  <2> QED BY <1>4, <2>1, MatchedIs
<1> QED BY <1>5, <1>6

LEMMA CompatibleIs ==
  ASSUME NEW r \in Req, NEW q, IsQuery(q, r), NEW s \in Snapshots,
         s.mm = MultimodalIdentity(r, s.num)
  PROVE  CompatibleTokens(q, s) \in Nat
<1> DEFINE needed == RequiredBlocks(q.num)
           length == CommonPrefixLength(IndexBlocks(q), IndexBlocks(s))
           common == Least(needed, length)
           m      == PrefixCompatibleTokens(IndexBlocks(q), q.num, IndexBlocks(s), s.num)
<1>1. s.num \in Nat /\ q.num \in Nat /\ Len(IndexBlocks(q)) \in Nat /\ Len(IndexBlocks(s)) \in Nat
  BY SnapshotIs, QueryIs DEF IsQuery
<1>2. length \in Nat
  BY <1>1, CommonPrefixIs
<1>3. needed \in Nat
  BY <1>1, RequiredBlocksType
<1> HIDE DEF needed, length
<1>4. common \in Nat
  BY <1>2, <1>3 DEF Least
<1>5. m = IF q.num <= 0 \/ s.num <= 0 \/ common = 0 THEN 0
          ELSE IF common >= needed THEN Least(q.num, s.num)
          ELSE Least(Least(s.num, common * BlockSize), q.num)
  BY DEF PrefixCompatibleTokens, needed, length
<1> HIDE DEF common
<1> DEFINE b == common * BlockSize
<1>6. b \in Nat
  BY <1>4, BlockSizeAssumption
<1>7. m = IF q.num <= 0 \/ s.num <= 0 \/ common = 0 THEN 0
          ELSE IF common >= needed THEN Least(q.num, s.num)
          ELSE Least(Least(s.num, b), q.num)
  BY <1>5
<1> HIDE DEF b, m
<1>8. m \in Nat /\ m <= q.num /\ m <= s.num
  BY <1>1, <1>4, <1>6, <1>7 DEF Least
<1>9. CompatibleTokens(q, s) = MultimodalCompatibleTokens(TokensForPromptEmbeds(m, q, s), q.mm, s.mm)
  BY DEF CompatibleTokens, m
<1> QED BY <1>8, <1>9, MatchedIs

\* K gives each request its prompt and then sampled tokens.
IsText(K) ==
  /\ K \in [Req -> Seq(Text)]
  /\ \A r \in Req : /\ Len(Prompt[r]) <= Len(K[r])
                    /\ \A i \in 1 .. Len(K[r]) :
                         IF i <= Len(Prompt[r]) THEN K[r][i] = Prompt[r][i] ELSE K[r][i] \notin Images

\* What m's snapshots are matched by is that of the tokens they are of.
Tells(m, K) ==
  \A o \in Req : m.snapshots[o] # None =>
    LET s == m.snapshots[o]
    IN  /\ s.num <= Len(K[o]) /\ Len(s.ids) = s.num /\ s.mm = MultimodalIdentity(o, s.num)
        /\ \A i \in 1 .. s.num : s.ids[i] = Masked(K[o][i])

\* What choosing offers q: a snapshot that shows the same images as far as it matches.
Offer(m, q, found) ==
  \/ found = NoMatch
  \/ /\ found \in [req : Req, tokens : Nat] /\ m.snapshots[found.req] # None
     /\ SameImages(q.req, found.req, found.tokens)

\* A snapshot m has whose first tokens are q's.
Fits(m, q, match, K) ==
  /\ match.req \in Req /\ m.snapshots[match.req] # None
  /\ match.tokens \in Nat \ {0}
  /\ match.tokens <= q.num /\ match.tokens <= m.snapshots[match.req].num
  /\ \A i \in 1 .. match.tokens : K[q.req][i] = K[match.req][i]

LEMMA NoMatchIs == NoMatch.req = None /\ NoMatch.tokens = 0
BY DEF NoMatch

LEMMA MatchesAre ==
  ASSUME NEW K, NEW m, RcOk(m), Tells(m, K), NEW r \in Req, NEW q, IsQuery(q, r),
         NEW C \in SUBSET Req, NEW found \in PrefixMatches(m, q, C)
  PROVE  /\ Offer(m, q, found)
         /\ found = NoMatch \/ (found.req \in Listed(m, C) /\ found.req \notin StaleSnapshots(m, q, C))
<1> DEFINE usable  == Listed(m, C) \ StaleSnapshots(m, q, C)
           lengths == {PrefixTokens(m, q, c) : c \in usable} \cup {0}
           longest == MaxOf(lengths)
<1>1. q.req = r /\ q.num \in Nat
  BY DEF IsQuery
<1>2. ASSUME NEW c \in usable
      PROVE  /\ c \in Req /\ m.snapshots[c] # None
             /\ PrefixTokens(m, q, c) \in Nat /\ PrefixTokens(m, q, c) <= q.num
             /\ SameImages(r, c, PrefixTokens(m, q, c))
  <2> DEFINE s == m.snapshots[c]
             keys == m.index[c]
  <2>1. c \in Req /\ s # None /\ keys # None
    BY DEF Listed
  <2>2. s \in Snapshots /\ m \in Managers(Snapshots, Nat)
    BY <2>1, RcOkIs
  <2>3. s.mm = MultimodalIdentity(c, s.num)
    BY <2>1 DEF Tells
  <2>4. Len(keys) \in Nat
    <3>1. keys \in {IndexBlocks(x) : x \in Snapshots}
      BY <2>1, <2>2 DEF Managers
    <3> HIDE DEF keys
    <3>2. PICK x \in Snapshots : keys = IndexBlocks(x)
      BY <3>1
    <3> QED BY <3>2, SnapshotIs
  <2>5. PrefixTokens(m, q, c) = WalkedTokens(q, s, keys)
    BY DEF PrefixTokens
  <2> HIDE DEF s, keys
  <2>6. /\ PrefixTokens(m, q, c) \in Nat /\ PrefixTokens(m, q, c) <= q.num
        /\ SameImages(r, c, PrefixTokens(m, q, c))
    BY <2>1, <2>2, <2>3, <2>4, <2>5, WalkedIs
  <2> QED BY <2>1, <2>6 DEF s
<1>3. found \in IF longest = 0 THEN {NoMatch}
                ELSE {[req |-> c, tokens |-> longest] : c \in {x \in usable : PrefixTokens(m, q, x) = longest}}
  BY DEF PrefixMatches
<1> HIDE DEF longest
<1>4. CASE longest = 0
  BY <1>3, <1>4 DEF Offer
<1>5. CASE longest # 0
  <2>1. PICK c \in usable : PrefixTokens(m, q, c) = longest /\ found = [req |-> c, tokens |-> longest]
    <3> HIDE DEF usable
    <3> QED BY <1>3, <1>5
  <2>2. found.req = c /\ found.tokens = longest
    BY <2>1
  <2>3. /\ c \in Req /\ m.snapshots[c] # None
        /\ longest \in Nat /\ SameImages(r, c, longest)
    BY <1>2, <2>1
  <2>5. found \in [req : Req, tokens : Nat]
    BY <2>1, <2>3
  <2>4. Offer(m, q, found)
    BY <1>1, <2>2, <2>3, <2>5 DEF Offer
  <2> QED BY <2>2, <2>4
<1> QED BY <1>4, <1>5

LEMMA SameOwner ==
  ASSUME NEW m \in Managers(Snapshots, Nat), NEW R
  PROVE  RemoveSnapshots(m, R).owner = m.owner
BY DEF RemoveSnapshots, RebuildSnapshotIndex, Forget, Managers

\* A snapshot once found usable is not dropped.
LEMMA StaysUsable ==
  ASSUME NEW m, NEW n, n.owner = m.owner, NEW q, NEW o, n.snapshots[o] = m.snapshots[o],
         NEW C, o = q.req \/ (o \in Listed(m, C) /\ o \notin StaleSnapshots(m, q, C)), NEW D
  PROVE  o \notin StaleSnapshots(n, q, D)
<1>1. CASE o = q.req
  BY <1>1 DEF StaleSnapshots
<1>2. CASE o # q.req
  <2>1. BlocksOf(n, q.req) = BlocksOf(m, q.req)
    BY DEF BlocksOf
  <2>2. ~IsStaleFor(q, m.snapshots[o], BlocksOf(m, q.req))
    BY <1>2 DEF StaleSnapshots
  <2> QED BY <2>1, <2>2 DEF StaleSnapshots
<1> QED BY <1>1, <1>2

LEMMA ThinsTells ==
  ASSUME NEW K, NEW m, NEW n, Tells(m, K), Thins(m, n)
  PROVE  Tells(n, K)
<1> SUFFICES ASSUME NEW o \in Req, n.snapshots[o] # None
             PROVE  n.snapshots[o] = m.snapshots[o] /\ m.snapshots[o] # None
  BY DEF Tells
<1> QED BY DEF Thins

LEMMA DropStaleIs ==
  ASSUME NEW K, NEW m, RcOk(m), Tells(m, K), NEW q, NEW C, NEW n, n = DropStale(m, q, C)
  PROVE  /\ Thins(m, n) /\ n.owner = m.owner /\ Tells(n, K)
         /\ \A o \in Req : o \notin StaleSnapshots(m, q, C) => n.snapshots[o] = m.snapshots[o]
<1> DEFINE R == StaleSnapshots(m, q, C)
<1>1. n = RemoveSnapshots(m, R)
  BY DEF DropStale
<1> HIDE DEF R
<1>2. Thins(m, n) /\ \A o \in Req : n.snapshots[o] = IF o \in R THEN None ELSE m.snapshots[o]
  BY <1>1, RemoveThins
<1>3. n.owner = m.owner
  BY <1>1, RcOkIs, SameOwner
<1>4. Tells(n, K)
  BY <1>2, ThinsTells
<1> QED BY <1>2, <1>3, <1>4 DEF R

\* What is offered stays until it is used.
LEMMA ChosenIs ==
  ASSUME NEW K, NEW m, RcOk(m), Tells(m, K), NEW r \in Req, NEW q, IsQuery(q, r),
         NEW found \in ChooseSnapshot(m, q), NEW n, n = AfterChoose(m, q),
         NEW D, NEW k, k = DropStale(n, q, D)
  PROVE  /\ Thins(m, n) /\ Tells(n, K) /\ Thins(n, k) /\ Tells(k, K) /\ Offer(k, q, found)
<1>1. q.req = r
  BY DEF IsQuery
<1>2. CASE LooksAtOwnOnly(m, q)
  <2>1. n = m
    BY <1>2 DEF AfterChoose
  <2>2. Thins(m, n)
    BY <2>1, ThinsItself
  <2>3. /\ Thins(n, k) /\ Tells(k, K)
        /\ \A o \in Req : o \notin StaleSnapshots(n, q, D) => k.snapshots[o] = n.snapshots[o]
    BY <2>1, DropStaleIs
  <2>4. found \in IF OwnTokens(m, q) <= 0 THEN {NoMatch} ELSE {[req |-> q.req, tokens |-> OwnTokens(m, q)]}
    BY <1>2 DEF ChooseSnapshot
  <2>5. CASE found = NoMatch
    BY <2>1, <2>2, <2>3, <2>5 DEF Offer
  <2>6. CASE found # NoMatch
    <3>1. found = [req |-> q.req, tokens |-> OwnTokens(m, q)] /\ ~(OwnTokens(m, q) <= 0)
      BY <2>4, <2>6
    <3>2. m.snapshots[r] # None
      BY <1>1, <3>1 DEF OwnTokens
    <3>3. OwnTokens(m, q) \in Nat
      <4>1. m.snapshots[r] \in Snapshots
        BY <3>2, RcOkIs
      <4>2. OwnTokens(m, q) = CompatibleTokens(q, m.snapshots[r])
        BY <1>1, <3>2 DEF OwnTokens
      <4>3. m.snapshots[r].mm = MultimodalIdentity(r, m.snapshots[r].num)
        BY <3>2 DEF Tells
      <4> QED BY <4>1, <4>2, <4>3, CompatibleIs
    <3>4. r \notin StaleSnapshots(n, q, D)
      BY <1>1 DEF StaleSnapshots
    <3>5. k.snapshots[r] # None
      BY <2>1, <2>3, <3>2, <3>4
    <3>6. found.req = r /\ found \in [req : Req, tokens : Nat]
      BY <1>1, <3>1, <3>3
    <3>7. Offer(k, q, found)
      BY <1>1, <3>5, <3>6 DEF Offer, SameImages
    <3> QED BY <2>1, <2>2, <2>3, <3>7
  <2> QED BY <2>5, <2>6
<1>3. CASE ~LooksAtOwnOnly(m, q)
  <2>1. n = DropStale(m, q, Req) /\ found \in PrefixMatches(m, q, Req)
    BY <1>3 DEF AfterChoose, ChooseSnapshot
  <2>2. /\ Thins(m, n) /\ n.owner = m.owner /\ Tells(n, K)
        /\ \A o \in Req : o \notin StaleSnapshots(m, q, Req) => n.snapshots[o] = m.snapshots[o]
    BY <2>1, DropStaleIs
  <2>3. RcOk(n)
    BY <2>2 DEF Thins
  <2>4. /\ Thins(n, k) /\ Tells(k, K)
        /\ \A o \in Req : o \notin StaleSnapshots(n, q, D) => k.snapshots[o] = n.snapshots[o]
    BY <2>2, <2>3, DropStaleIs
  <2>5. /\ Offer(m, q, found)
        /\ found = NoMatch \/ (found.req \in Listed(m, Req) /\ found.req \notin StaleSnapshots(m, q, Req))
    <3>1. Req \in SUBSET Req
      OBVIOUS
    <3> QED BY <2>1, <3>1, MatchesAre
  <2>6. CASE found = NoMatch
    BY <2>2, <2>4, <2>6 DEF Offer
  <2>7. CASE found # NoMatch
    <3>1. /\ found \in [req : Req, tokens : Nat] /\ m.snapshots[found.req] # None
          /\ SameImages(q.req, found.req, found.tokens)
      BY <2>5, <2>7 DEF Offer
    <3>2. n.snapshots[found.req] = m.snapshots[found.req]
      BY <2>2, <2>5, <2>7, <3>1
    <3>3. found.req \notin StaleSnapshots(n, q, D)
      BY <2>2, <2>5, <2>7, <3>2, StaysUsable
    <3>4. k.snapshots[found.req] # None
      BY <2>4, <3>1, <3>2, <3>3
    <3>5. Offer(k, q, found)
      BY <3>1, <3>4 DEF Offer
    <3> QED BY <2>2, <2>4, <3>5
  <2> QED BY <2>6, <2>7
<1> QED BY <1>2, <1>3

\* Verified, what is offered fits.
LEMMA VerifiedIs ==
  ASSUME NEW K, IsText(K), NEW m, RcOk(m), Tells(m, K), NEW r \in Req, NEW q, IsQuery(q, r),
         q.num <= Len(K[r]), \A i \in 1 .. q.num : q.ids[i] = Masked(K[r][i]),
         NEW found, Offer(m, q, found), NEW match, match = VerifyPromptEmbedMatch(m, q, found)
  PROVE  match = NoMatch \/ Fits(m, q, match, K)
<1>1. CASE found = NoMatch
  <2>1. found.req = None
    BY <1>1, NoMatchIs
  <2> QED BY <1>1, <2>1 DEF VerifyPromptEmbedMatch
<1>2. CASE found # NoMatch
  <2> DEFINE o == found.req
             s == m.snapshots[o]
             n == VerifiedTokens(found.tokens, q, s)
  <2>1. /\ o \in Req /\ s # None /\ found.tokens \in Nat /\ SameImages(r, o, found.tokens) /\ q.req = r
    BY <1>2 DEF Offer, IsQuery
  <2>2. match = IF n <= 0 THEN NoMatch ELSE [found EXCEPT !.tokens = n]
    BY <2>1, NoneIs DEF VerifyPromptEmbedMatch
  <2>3. s \in Snapshots
    BY <2>1, RcOkIs
  <2>4. /\ s.num <= Len(K[o]) /\ Len(s.ids) = s.num
        /\ \A i \in 1 .. s.num : s.ids[i] = Masked(K[o][i])
    BY <2>1 DEF Tells
  <2>5. s.num \in Nat /\ s.ids # None /\ s.embeds = None
    BY <2>3, SnapshotIs
  <2>6. q.ids # None /\ Len(q.ids) = q.num /\ q.num \in Nat /\ q.embeds = None
    BY QueryIs DEF IsQuery
  <2>7. n = TokenCompatibleTokens(found.tokens, q.ids, s.ids)
    BY <2>1, <2>5, <2>6 DEF VerifiedTokens, PromptEmbedCompatibleTokens, TokenCompatibleTokens
  <2> HIDE DEF n, s
  <2>8. /\ n \in Nat /\ n <= found.tokens
        /\ n > 0 => n <= q.num /\ n <= s.num
        /\ \A i \in 1 .. n : q.ids[i] = s.ids[i]
    BY <2>1, <2>4, <2>5, <2>6, <2>7, TokensMatched
  <2>9. CASE n = 0
    BY <2>2, <2>9
  <2>10. CASE n > 0
    <3>1. match = [found EXCEPT !.tokens = n]
      BY <2>2, <2>8, <2>10
    <3>2. match.req = o /\ match.tokens = n
      <4>1. found \in [req : Req, tokens : Nat]
        BY <1>2 DEF Offer
      <4> QED BY <3>1, <4>1
    <3>3. ASSUME NEW i \in 1 .. n PROVE K[r][i] = K[o][i]
      <4>1. /\ i \in Nat /\ i <= n /\ i <= q.num /\ i <= s.num /\ i <= found.tokens
            /\ i \in 1 .. q.num /\ i \in 1 .. s.num /\ i \in 1 .. found.tokens
        BY <2>1, <2>5, <2>6, <2>8, <2>10
      <4>2. Masked(K[r][i]) = Masked(K[o][i])
        BY <2>4, <2>8, <4>1
      <4>3. (Shows(r, i) <=> Shows(o, i)) /\ (Shows(r, i) => Prompt[r][i] = Prompt[o][i])
        BY <2>1, <4>1 DEF SameImages
      <4>4. i \in 1 .. Len(K[r]) /\ i \in 1 .. Len(K[o])
        <5>1. K[r] \in Seq(Text) /\ K[o] \in Seq(Text)
          BY <2>1 DEF IsText
        <5>2. Len(K[r]) \in Nat /\ Len(K[o]) \in Nat
          BY <5>1, EntriesOf
        <5>3. q.num <= Len(K[r]) /\ s.num <= Len(K[o])
          BY <2>4
        <5> QED BY <2>5, <2>6, <4>1, <5>2, <5>3
      <4>5. (K[r][i] \in Images <=> Shows(r, i)) /\ (Shows(r, i) => K[r][i] = Prompt[r][i])
        BY <4>4 DEF IsText, Shows
      <4>6. (K[o][i] \in Images <=> Shows(o, i)) /\ (Shows(o, i) => K[o][i] = Prompt[o][i])
        BY <2>1, <4>4 DEF IsText, Shows
      <4> QED BY <4>2, <4>3, <4>5, <4>6 DEF Masked
    <3>4. Fits(m, q, match, K)
      BY <2>1, <2>8, <2>10, <3>2, <3>3 DEF Fits, s
    <3> QED BY <3>4
  <2> QED BY <2>8, <2>9, <2>10
<1> QED BY <1>1, <1>2

-----------------------------------------------------------------------------
(* The handlers that give a request its cache and its slot.                *)

LEMMA WithIs ==
  ASSUME NEW w \in Workers, NEW rc \in Managers(Snapshots, Nat), NEW kv \in Kvs,
         NEW v, v = [w EXCEPT !.rc = rc, !.kv = kv]
  PROVE  /\ v \in Workers /\ v.rc = rc /\ v.kv = kv
         /\ v.offload = w.offload /\ v.req = w.req /\ v.active = w.active
BY DEF Workers

LEMMA ReferencedIs ==
  ASSUME NEW w, NEW c, c \in Referenced(w), c # None
  PROVE  \/ \E o \in Req : Cached(w, o) /\ w.req[o].cache = c
         \/ \E o \in Req : Stored(w, o) /\ w.rc.snapshots[o].cache = c
         \/ \E s \in Slot : w.active[s] # None /\ w.active[s].cache = c
BY DEF Referenced, Cached, Stored, Live, CacheOf

LEMMA ReferencesAre ==
  ASSUME NEW w
  PROVE  /\ \A o \in Req : Cached(w, o) => w.req[o].cache \in Referenced(w)
         /\ \A o \in Req : Stored(w, o) => w.rc.snapshots[o].cache \in Referenced(w)
         /\ \A s \in Slot : w.active[s] # None => w.active[s].cache \in Referenced(w)
BY DEF Referenced, Cached, Stored, Live, CacheOf

LEMMA CutStarts ==
  ASSUME NEW x, NEW y, NEW n \in Nat, Len(x.tokens) \in Nat, Cut(x, y, n)
  PROVE  Starts(y.tokens, x.tokens)
BY DEF Cut, Starts, Least

\* v is w but for its caches and slots, which are k.
HasCaches(w, v, k) == v = [w EXCEPT !.kv = k]

\* k has the cache of r prepared to n tokens; R are the caches referred to.
Prepares(w, k, r, n, R) == k = Prepare(w.kv, w.req[r].cache, n, R)

\* Preparing the cache of r cuts it to n tokens and binds it.
LEMMA PreparesKeeps ==
  ASSUME NEW K \in [Req -> Seq(Text)], NEW w, Sound(w, K), NEW r \in Req, Cached(w, r),
         NEW n \in Nat, NEW R, NEW k, Prepares(w, k, r, n, R),
         NEW v, HasCaches(w, v, k)
  PROVE  /\ Sound(v, K) /\ v.kv = k
         /\ v.rc = w.rc /\ v.offload = w.offload /\ v.req = w.req /\ v.active = w.active
<1> DEFINE c == w.req[r].cache
           cut == SetSeqLength(w.kv, c, n)
           u == [w EXCEPT !.kv = cut]
<1>1. /\ w \in Workers /\ w.kv \in Kvs /\ RcOk(w.rc) /\ Owned(w) /\ Placed(w) /\ Slotted(w)
  BY SMTT(30), WorkerIs DEF Sound
<1>2. c \in Cache /\ w.kv.obj[c] # Unused /\ w.kv.obj[c] \in InUse /\ Len(w.kv.obj[c].tokens) \in Nat
  BY <1>1, CachesInUse
<1> HIDE DEF c
<1>4. k = Bind(cut, c, R) /\ cut = SetSeqLength(w.kv, c, n)
  BY DEF Prepares, Prepare, c
<1> HIDE DEF cut
<1>3. /\ cut \in Kvs /\ cut.owner = w.kv.owner /\ cut.dumps = w.kv.dumps
      /\ Alike(w.kv, cut, c)
      /\ Cut(w.kv.obj[c], cut.obj[c], n) /\ cut.obj[c] # Unused /\ cut.obj[c].row = w.kv.obj[c].row
  <2>1. w.kv \in Kvs /\ c \in Cache /\ w.kv.obj[c] # Unused
    BY <1>1, <1>2
  <2> QED BY SMTT(30), <1>4, <2>1, SetSeqLengthIs
<1>5. /\ k \in Kvs /\ k.obj = cut.obj
      /\ k.owner[cut.obj[c].row] = c
      /\ \A s \in Slot \ {cut.obj[c].row} : k.owner[s] = cut.owner[s]
  BY <1>2, <1>3, <1>4, BindIs
<1>6. /\ u \in Workers /\ u.kv = cut
      /\ u.rc = w.rc /\ u.offload = w.offload /\ u.req = w.req /\ u.active = w.active
  BY <1>1, <1>3 DEF Workers
<1>7. /\ v \in Workers /\ v.kv = k
      /\ v.rc = w.rc /\ v.offload = w.offload /\ v.req = w.req /\ v.active = w.active
  BY <1>1, <1>5 DEF Workers, HasCaches
<1> HIDE DEF u
<1>8. Sound(u, K)
  <2>1. Thins(w.rc, u.rc)
    BY <1>1, <1>6, ThinsItself
  <2>2. \A d \in Cache : w.kv.obj[d] # Unused => u.kv.obj[d] # Unused /\ u.kv.obj[d].row = w.kv.obj[d].row
    BY <1>3, <1>6 DEF Alike
  <2>3. \A o \in Req : Cached(w, o) =>
          Starts(u.kv.obj[w.req[o].cache].tokens, w.kv.obj[w.req[o].cache].tokens)
    <3> SUFFICES ASSUME NEW o \in Req, Cached(w, o)
                 PROVE  Starts(cut.obj[w.req[o].cache].tokens, w.kv.obj[w.req[o].cache].tokens)
      BY SMTT(30), <1>6
    <3>1. w.req[o].cache \in Cache /\ Len(w.kv.obj[w.req[o].cache].tokens) \in Nat
      BY <1>1, CachesInUse
    <3>2. CASE w.req[o].cache = c
      <4>1. Starts(cut.obj[c].tokens, w.kv.obj[c].tokens)
        BY SMTT(30), <1>2, <1>3, CutStarts
      <4> QED BY <3>2, <4>1
    <3>3. CASE w.req[o].cache # c
      <4>1. cut.obj[w.req[o].cache] = w.kv.obj[w.req[o].cache]
        BY <1>3, <3>1, <3>3 DEF Alike
      <4>2. Starts(w.kv.obj[w.req[o].cache].tokens, w.kv.obj[w.req[o].cache].tokens)
        BY <3>1 DEF Starts
      <4> QED BY <4>1, <4>2
    <3> QED BY <3>2, <3>3
  <2>4. \A o \in Req : Stored(u, o) =>
          u.kv.obj[w.rc.snapshots[o].cache].tokens = w.kv.obj[w.rc.snapshots[o].cache].tokens
    <3> SUFFICES ASSUME NEW o \in Req, Stored(w, o)
                 PROVE  cut.obj[w.rc.snapshots[o].cache] = w.kv.obj[w.rc.snapshots[o].cache]
      BY SMTT(30), <1>6 DEF Stored
    <3>1. w.rc.snapshots[o].cache \in Cache /\ w.rc.snapshots[o].cache # c
      <4>1. w.rc.snapshots[o].cache \in Cache
        BY <1>1, CachesInUse
      <4>2. w.rc.snapshots[o].cache # c
        BY <1>1 DEF Owned, c
      <4> QED BY <4>1, <4>2
    <3> QED BY <1>3, <3>1 DEF Alike
  <2>5. Eases(w, u)
    BY Zenon, <1>3, <1>6, <2>1, <2>2, <2>3, <2>4 DEF Eases
  <2> QED BY <2>5, EasesKeeps
<1>9. Binds(u, v, u.req[r].cache)
  BY Zenon, <1>3, <1>5, <1>6, <1>7 DEF Binds, c
<1>10. Cached(u, r)
  BY <1>6 DEF Cached
<1>11. Sound(v, K)
  BY <1>8, <1>9, <1>10, BindsKeeps
<1> QED BY <1>7, <1>11

\* No snapshot is on the slot.
Quiet(v, slot) ==
  \A o \in Req : Stored(v, o) => ~HoldsSlot(v.kv, v.rc.snapshots[o].cache, slot)

\* v is w with the slot settled.
Settles(w, v, slot) ==
  /\ Quiet(v, slot)
  /\ v.offload = w.offload /\ v.req = w.req /\ v.active = w.active
  /\ \A o \in Req : Cached(w, o) => v.kv.obj[w.req[o].cache] = w.kv.obj[w.req[o].cache]
  /\ \A o \in Req : Stored(w, o) /\ ~HoldsSlot(w.kv, w.rc.snapshots[o].cache, slot) =>
        /\ v.rc.snapshots[o] = w.rc.snapshots[o]
        /\ v.kv.obj[w.rc.snapshots[o].cache] = w.kv.obj[w.rc.snapshots[o].cache]
  /\ \A s \in Slot \ {slot} : v.kv.owner[s] = w.kv.owner[s]
  /\ v.kv.owner[slot] \in {w.kv.owner[slot], None}
  /\ \A c \in Cache : v.kv.obj[c] # Unused => w.kv.obj[c] # Unused
  /\ \A dump \in v.kv.dumps : dump \in w.kv.dumps \/ (dump.by = "offload" /\ w.offload)

LEMMA SettleIs ==
  ASSUME NEW K \in [Req -> Seq(Text)], NEW w, Sound(w, K), NEW slot \in Slot, NEW cost,
         NEW v, v = Settle(w, slot, cost)
  PROVE  Eases(w, v) /\ Settles(w, v, slot)
<1> DEFINE resident == ResidentSnapshots(w, {slot})
           o == CHOOSE r \in resident : TRUE
           c == w.rc.snapshots[o].cache
<1>1. /\ w \in Workers /\ w.kv \in Kvs /\ RcOk(w.rc) /\ Owned(w) /\ Placed(w) /\ Slotted(w)
      /\ w.rc \in Managers(Snapshots, Nat)
  BY WorkerIs DEF Sound
<1>2. \A q \in Req : q \in resident <=> Stored(w, q) /\ HoldsSlot(w.kv, w.rc.snapshots[q].cache, slot)
  <2>1. ASSUME NEW q \in Req, Stored(w, q), HoldsSlot(w.kv, w.rc.snapshots[q].cache, slot)
        PROVE  w.req[q] = None /\ w.rc.snapshots[q].num > 0
    BY <1>1, <2>1 DEF Placed, HoldsSlot
  <2> QED BY SMTT(30), <2>1 DEF ResidentSnapshots, Stored, Live
<1>3. resident \subseteq Req
  BY DEF ResidentSnapshots
<1>4. v = IF resident = {} THEN w
          ELSE IF ShouldSave(w, cost, w.rc.snapshots[o].num) THEN [w EXCEPT !.kv = Offload(@, c)]
          ELSE [w EXCEPT !.rc = RemoveSnapshot(@, o), !.kv = Reset(@, c)]
  BY SMTT(30) DEF Settle
<1>5. /\ \A q \in Req : Cached(w, q) => w.req[q].cache \in Cache /\ Len(w.kv.obj[w.req[q].cache].tokens) \in Nat
      /\ \A q \in Req : Stored(w, q) => w.rc.snapshots[q].cache \in Cache /\ w.kv.obj[w.rc.snapshots[q].cache] # Unused
  BY <1>1, CachesInUse
<1> HIDE DEF resident
<1>6. CASE resident = {}
  <2>1. v = w
    BY <1>4, <1>6
  <2>2. Thins(w.rc, v.rc)
    BY <1>1, <2>1, ThinsItself
  <2>3. \A q \in Req : Cached(w, q) =>
          Starts(w.kv.obj[w.req[q].cache].tokens, w.kv.obj[w.req[q].cache].tokens)
    BY <1>5 DEF Starts
  <2>4. Eases(w, v)
    BY <1>1, <2>1, <2>2, <2>3 DEF Eases
  <2>5. Settles(w, v, slot)
    BY <1>2, <1>6, <2>1 DEF Settles, Quiet
  <2> QED BY <2>4, <2>5
<1>7. CASE resident # {} /\ ShouldSave(w, cost, w.rc.snapshots[o].num)
  <2>1. o \in Req /\ Stored(w, o) /\ HoldsSlot(w.kv, c, slot) /\ c \in Cache
    BY <1>2, <1>3, <1>5, <1>7
  <2> DEFINE k == Offload(w.kv, c)
  <2> HIDE DEF o, c
  <2>2. /\ k \in Kvs /\ k.obj = w.kv.obj
        /\ Dumps(w.kv, k, c, "offload")
        /\ \A s \in Slot : k.owner[s] = IF s = w.kv.obj[c].row /\ w.kv.owner[s] = c THEN None ELSE w.kv.owner[s]
    BY <1>1, <2>1, OffloadIs
  <2>3. v = [w EXCEPT !.kv = k]
    BY <1>4, <1>7 DEF o, c
  <2> HIDE DEF k
  <2>4. /\ v \in Workers /\ v.rc = w.rc /\ v.kv = k
        /\ v.offload = w.offload /\ v.req = w.req /\ v.active = w.active
    BY SMTT(30), <1>1, <2>2, <2>3 DEF Workers
  <2>5. Thins(w.rc, v.rc)
    BY <1>1, <2>4, ThinsItself
  <2>6. \A q \in Req : Cached(w, q) =>
          Starts(w.kv.obj[w.req[q].cache].tokens, w.kv.obj[w.req[q].cache].tokens)
    BY <1>5 DEF Starts
  <2>7. Eases(w, v)
    BY <1>1, <2>2, <2>4, <2>5, <2>6 DEF Eases
  <2>8. k.owner[slot] = None /\ \A s \in Slot \ {slot} : k.owner[s] = w.kv.owner[s]
    BY <2>1, <2>2 DEF HoldsSlot
  <2>9. Quiet(v, slot)
    BY <1>5, <2>4, <2>8, NoneIs DEF Quiet, HoldsSlot, Stored
  <2>10. \A dump \in k.dumps : dump \in w.kv.dumps \/ (dump.by = "offload" /\ w.offload)
    BY SMTT(30), <1>7, <2>2 DEF ShouldSave, Dumps
  <2> QED BY <2>2, <2>4, <2>7, <2>8, <2>9, <2>10 DEF Settles
<1>8. CASE resident # {} /\ ~ShouldSave(w, cost, w.rc.snapshots[o].num)
  <2>1. o \in Req /\ Stored(w, o) /\ HoldsSlot(w.kv, c, slot) /\ c \in Cache /\ w.kv.obj[c] # Unused
    BY <1>2, <1>3, <1>5, <1>8
  <2> DEFINE k == SetSeqLength(w.kv, c, 0)
             n == RemoveSnapshots(w.rc, {o})
  <2> HIDE DEF o, c
  <2>2. /\ k \in Kvs /\ k.owner = w.kv.owner /\ k.dumps = w.kv.dumps
        /\ Alike(w.kv, k, c)
        /\ k.obj[c] # Unused /\ k.obj[c].row = w.kv.obj[c].row
    BY <1>1, <2>1, SetSeqLengthIs
  <2>3. Thins(w.rc, n) /\ \A q \in Req : n.snapshots[q] = IF q \in {o} THEN None ELSE w.rc.snapshots[q]
    BY <1>1, RemoveThins
  <2>4. v = [w EXCEPT !.rc = n, !.kv = k]
    BY <1>4, <1>8 DEF o, c, RemoveSnapshot, Reset
  <2> HIDE DEF k, n
  <2>5. n \in Managers(Snapshots, Nat)
    BY <2>3, RcOkIs DEF Thins
  <2>6. /\ v \in Workers /\ v.rc = n /\ v.kv = k
        /\ v.offload = w.offload /\ v.req = w.req /\ v.active = w.active
    BY <1>1, <2>2, <2>4, <2>5 DEF Workers
  <2>7. \A q \in Req : Cached(w, q) => w.req[q].cache # c
    BY <1>1, <2>1 DEF Owned, c
  <2>8. \A q \in Req \ {o} : Stored(w, q) => w.rc.snapshots[q].cache # c
    BY <1>1, <2>1 DEF Owned, c
  <2>9. \A q \in Req : Stored(v, q) => q # o /\ Stored(w, q) /\ v.rc.snapshots[q] = w.rc.snapshots[q]
    BY <2>3, <2>6 DEF Stored
  <2>10. \A q \in Req : Cached(w, q) => k.obj[w.req[q].cache] = w.kv.obj[w.req[q].cache]
    BY <1>5, <2>2, <2>7 DEF Alike
  <2>11. \A q \in Req \ {o} : Stored(w, q) => k.obj[w.rc.snapshots[q].cache] = w.kv.obj[w.rc.snapshots[q].cache]
    BY SMTT(30), <1>5, <2>2, <2>8 DEF Alike
  <2>12. Eases(w, v)
    <3>1. \A q \in Req : Cached(w, q) =>
            Starts(v.kv.obj[w.req[q].cache].tokens, w.kv.obj[w.req[q].cache].tokens)
      <4>1. \A q \in Req : Cached(w, q) =>
              Starts(w.kv.obj[w.req[q].cache].tokens, w.kv.obj[w.req[q].cache].tokens)
        BY <1>5 DEF Starts
      <4> QED BY <2>6, <2>10, <4>1
    <3>2. \A q \in Req : Stored(v, q) =>
            v.kv.obj[w.rc.snapshots[q].cache].tokens = w.kv.obj[w.rc.snapshots[q].cache].tokens
      BY <2>6, <2>9, <2>11
    <3>3. \A d \in Cache : w.kv.obj[d] # Unused => v.kv.obj[d] # Unused /\ v.kv.obj[d].row = w.kv.obj[d].row
      BY <2>2, <2>6 DEF Alike
    <3> QED BY <2>2, <2>3, <2>6, <3>1, <3>2, <3>3 DEF Eases
  <2>13. Quiet(v, slot)
    <3> SUFFICES ASSUME NEW q \in Req, Stored(v, q), HoldsSlot(v.kv, v.rc.snapshots[q].cache, slot) PROVE FALSE
      BY DEF Quiet
    <3>1. q # o /\ Stored(w, q) /\ v.rc.snapshots[q] = w.rc.snapshots[q]
      BY <2>9
    <3>2. w.kv.owner[slot] = w.rc.snapshots[q].cache
      BY <2>2, <2>6, <3>1 DEF HoldsSlot
    <3>3. w.kv.owner[slot] = c
      BY <2>1 DEF HoldsSlot
    <3> QED BY <2>8, <3>1, <3>2, <3>3
  <2>14. \A q \in Req : Stored(w, q) /\ ~HoldsSlot(w.kv, w.rc.snapshots[q].cache, slot) =>
        /\ v.rc.snapshots[q] = w.rc.snapshots[q]
        /\ v.kv.obj[w.rc.snapshots[q].cache] = w.kv.obj[w.rc.snapshots[q].cache]
    <3> SUFFICES ASSUME NEW q \in Req, Stored(w, q), ~HoldsSlot(w.kv, w.rc.snapshots[q].cache, slot)
                 PROVE  q # o
      BY <2>3, <2>6, <2>11
    <3> QED BY <2>1 DEF c
  <2>15. \A d \in Cache : v.kv.obj[d] # Unused => w.kv.obj[d] # Unused
    BY <2>1, <2>2, <2>6 DEF Alike
  <2> QED BY <2>2, <2>6, <2>10, <2>12, <2>13, <2>14, <2>15 DEF Settles
<1> QED BY <1>6, <1>7, <1>8

\* No request, no snapshot and no slot has the cache c.
Unclaimed(w, c) ==
  /\ \A o \in Req : Cached(w, o) => w.req[o].cache # c
  /\ \A o \in Req : Stored(w, o) => w.rc.snapshots[o].cache # c
  /\ \A s \in Slot : w.kv.owner[s] # c

LEMMA FreshIs ==
  ASSUME NEW K, NEW w, Sound(w, K), NEW n \in Nat, Spare(w.kv, n), NEW c, c = FreeCache(w.kv)
  PROVE  c \in Cache /\ c # None /\ w.kv.obj[c] = Unused /\ Unclaimed(w, c)
<1>1. c \in Cache /\ w.kv.obj[c] = Unused
  BY FreeCacheIs
<1>2. w \in Workers /\ Placed(w) /\ Slotted(w)
  BY DEF Sound
<1>3. c # None
  BY SMTT(30), <1>1, NoneIs
<1>4. Unclaimed(w, c)
  BY <1>1, <1>2, <1>3, CachesInUse DEF Unclaimed
<1> QED BY <1>1, <1>3, <1>4

\* A cache nobody has yet changes nothing.
LEMMA FreshKeeps ==
  ASSUME NEW K \in [Req -> Seq(Text)], NEW w, Sound(w, K), NEW c \in Cache, w.kv.obj[c] = Unused,
         NEW k \in Kvs, k.owner = w.kv.owner, Alike(w.kv, k, c),
         NEW u, HasCaches(w, u, k)
  PROVE  /\ Sound(u, K) /\ u.kv = k
         /\ u.rc = w.rc /\ u.offload = w.offload /\ u.req = w.req /\ u.active = w.active
<1>1. w \in Workers /\ RcOk(w.rc) /\ Placed(w) /\ Slotted(w)
  BY DEF Sound
<1>2. /\ u \in Workers /\ u.kv = k
      /\ u.rc = w.rc /\ u.offload = w.offload /\ u.req = w.req /\ u.active = w.active
  BY <1>1 DEF Workers, HasCaches
<1>3. Thins(w.rc, u.rc)
  BY <1>1, <1>2, ThinsItself
<1>4. ASSUME NEW o \in Req, Cached(w, o)
      PROVE  Starts(u.kv.obj[w.req[o].cache].tokens, w.kv.obj[w.req[o].cache].tokens)
  <2> DEFINE d == w.req[o].cache
  <2>1. d \in Cache /\ w.kv.obj[d] # Unused /\ Len(w.kv.obj[d].tokens) \in Nat
    BY <1>1, <1>4, CachesInUse
  <2> HIDE DEF d
  <2>2. u.kv.obj[d] = w.kv.obj[d]
    BY <1>2, <2>1 DEF Alike
  <2>3. Starts(w.kv.obj[d].tokens, w.kv.obj[d].tokens)
    BY <2>1 DEF Starts
  <2>4. Starts(u.kv.obj[d].tokens, w.kv.obj[d].tokens)
    BY <2>2, <2>3
  <2> QED BY <2>4 DEF d
<1>5. \A o \in Req : Stored(u, o) =>
        u.kv.obj[w.rc.snapshots[o].cache].tokens = w.kv.obj[w.rc.snapshots[o].cache].tokens
  BY Zenon, <1>1, <1>2, CachesInUse DEF Stored, Alike
<1>7. \A d \in Cache : w.kv.obj[d] # Unused => u.kv.obj[d] = w.kv.obj[d]
  BY <1>2 DEF Alike
<1>6. Eases(w, u)
  BY <1>2, <1>3, <1>4, <1>5, <1>7 DEF Eases
<1> QED BY <1>2, <1>6, EasesKeeps

\* What a handler for r does before it takes r's prefix from a snapshot.
Near(w, u, r) ==
  /\ Frame(w, u, r) /\ Saves(w, u)
  /\ u.kv.owner[SlotKey(w, r)] \in {w.kv.owner[SlotKey(w, r)], None}
  /\ \/ u.req[r].cache = w.req[r].cache
     \/ Cached(u, r) /\ \A s \in Slot : u.kv.owner[s] # u.req[r].cache

LEMMA NearItself ==
  ASSUME NEW w, NEW r \in Req, w.req[r] # None
  PROVE  Near(w, w, r)
BY DEF Near, Frame, Saves, SameSlots

LEMMA NearBound ==
  ASSUME NEW w, NEW u, NEW r \in Req, Near(w, u, r), NEW c, Bound(u, c)
  PROVE  Bound(w, c)
<1>1. CASE \E s \in Slot : u.active[s] # None /\ u.active[s].cache = c
  BY <1>1 DEF Bound, Near, Frame
<1>2. CASE \E o \in Req, s \in Slot : Cached(u, o) /\ u.req[o].cache = c /\ u.kv.owner[s] = c
  <2>1. PICK o \in Req, s \in Slot : Cached(u, o) /\ u.req[o].cache = c /\ u.kv.owner[s] = c
    BY <1>2
  <2>2. c # None
    BY <2>1 DEF Cached
  <2>3. w.kv.owner[s] = c
    <3>1. CASE s = SlotKey(w, r)
      BY <2>1, <2>2, <3>1 DEF Near
    <3>2. CASE s # SlotKey(w, r)
      BY <2>1, <3>2 DEF Near, Frame
    <3> QED BY <3>1, <3>2
  <2>4. w.req[o] # None /\ w.req[o].cache = c
    <3>1. CASE o = r
      BY <2>1, <3>1 DEF Near, Frame
    <3>2. CASE o # r
      BY <2>1, <3>2 DEF Near, Frame, Cached
    <3> QED BY <3>1, <3>2
  <2> QED BY <2>2, <2>3, <2>4 DEF Bound, Cached
<1> QED BY <1>1, <1>2 DEF Bound

LEMMA NearTrans ==
  ASSUME NEW w, NEW u, NEW v, NEW r \in Req, SlotKey(w, r) \in Slot, Near(w, u, r), Near(u, v, r)
  PROVE  Near(w, v, r)
<1>1. Frame(w, v, r) /\ SlotKey(u, r) = SlotKey(w, r)
  BY FrameTrans DEF Near
<1>2. Saves(w, v)
  BY Zenon, SavesTrans, NearBound DEF Near, Frame
<1>3. v.kv.owner[SlotKey(w, r)] \in {w.kv.owner[SlotKey(w, r)], None}
  BY <1>1 DEF Near
<1>4. \/ v.req[r].cache = w.req[r].cache
      \/ Cached(v, r) /\ \A s \in Slot : v.kv.owner[s] # v.req[r].cache
  <2>1. CASE v.req[r].cache # u.req[r].cache
    BY <2>1 DEF Near
  <2>2. CASE v.req[r].cache = u.req[r].cache /\ u.req[r].cache = w.req[r].cache
    BY <2>2
  <2>3. CASE v.req[r].cache = u.req[r].cache /\ u.req[r].cache # w.req[r].cache
    <3>1. Cached(u, r) /\ \A s \in Slot : u.kv.owner[s] # u.req[r].cache
      BY <2>3 DEF Near
    <3>2. Cached(v, r)
      BY SMTT(30), <2>3, <3>1 DEF Cached, Near, Frame
    <3>3. \A s \in Slot : v.kv.owner[s] = u.kv.owner[s] \/ v.kv.owner[s] = None
      BY DEF Near, Frame
    <3>4. \A s \in Slot : v.kv.owner[s] # v.req[r].cache
      BY <2>3, <3>1, <3>2, <3>3 DEF Cached
    <3> QED BY <3>2, <3>4
  <2> QED BY <2>1, <2>2, <2>3
<1> QED BY <1>1, <1>2, <1>3, <1>4 DEF Near

LEMMA WithRequestCacheIs ==
  ASSUME NEW K \in [Req -> Seq(Text)], NEW w, Sound(w, K), NEW r \in Req, w.req[r] # None,
         NEW n \in Nat, Spare(w.kv, n), NEW v, v = WithRequestCache(w, r)
  PROVE  /\ Sound(v, K) /\ Near(w, v, r) /\ Cached(v, r) /\ Room(v.kv, n)
         /\ v.rc = w.rc /\ v.kv.owner = w.kv.owner /\ v.kv.dumps = w.kv.dumps
         /\ v = w \/ w.req[r].cache = None
<1>1. w \in Workers /\ RcOk(w.rc) /\ Placed(w) /\ Slotted(w) /\ w.kv \in Kvs
  BY WorkerIs DEF Sound
<1>2. CASE w.req[r].cache # None
  <2>1. v = w
    BY <1>2 DEF WithRequestCache, CacheOf
  <2>2. Room(v.kv, n)
    <3>1. UsesNoMore(w.kv, v.kv)
      BY <2>1 DEF UsesNoMore
    <3> QED BY <3>1, RoomKept
  <2> QED BY <1>2, <2>1, <2>2, NearItself DEF Cached
<1>3. CASE w.req[r].cache = None
  <2> DEFINE c == FreeCache(w.kv)
             slot == SlotKey(w, r)
             k == NewCache(w.kv, c, slot)
             u == [w EXCEPT !.kv = k]
  <2>1. v = [w EXCEPT !.kv = k, !.req[r].cache = c]
    BY <1>3 DEF WithRequestCache, CacheOf
  <2>17. c \in Cache /\ c # None /\ w.kv.obj[c] = Unused /\ Unclaimed(w, c)
    BY FreshIs
  <2>3. /\ c \in Cache /\ c # None /\ w.kv.obj[c] = Unused
        /\ \A o \in Req : Cached(w, o) => w.req[o].cache # c
        /\ \A o \in Req : Stored(w, o) => w.rc.snapshots[o].cache # c
        /\ \A s \in Slot : w.kv.owner[s] # c
    BY <2>17 DEF Unclaimed
  <2>4. slot \in Slot
    BY <1>1, SlotKeyIs
  <2> HIDE DEF c, slot
  <2>5. /\ k \in Kvs /\ k.owner = w.kv.owner /\ k.dumps = w.kv.dumps
        /\ Alike(w.kv, k, c)
        /\ k.obj[c] # Unused /\ k.obj[c].row = slot /\ k.obj[c].tokens = <<>>
    BY <1>1, <2>3, <2>4, NewCacheIs
  <2> HIDE DEF k
  <2>7. v = [u EXCEPT !.req[r].cache = c]
    BY <1>1, <2>1 DEF Workers
  <2>16. HasCaches(w, u, k)
    BY DEF HasCaches
  <2> HIDE DEF u
  <2>6. /\ Sound(u, K) /\ u.kv = k
        /\ u.rc = w.rc /\ u.offload = w.offload /\ u.req = w.req /\ u.active = w.active
    <3>1. k \in Kvs /\ k.owner = w.kv.owner /\ Alike(w.kv, k, c) /\ c \in Cache /\ w.kv.obj[c] = Unused
      BY <2>3, <2>5
    <3> QED BY <2>16, <3>1, FreshKeeps
  <2>8. u \in Workers /\ u.req[r] # None
    BY <2>6 DEF Sound
  <2>9. GetsCache(u, v, r, c)
    BY <2>3, <2>7, <2>8, GetsCacheIs
  <2>10. Sound(v, K)
    <3>1. SlotKey(u, r) = slot
      BY <2>6 DEF SlotKey, slot
    <3>2. Starts(u.kv.obj[c].tokens, K[r])
      <4>1. Len(<<>>) = 0 /\ Len(K[r]) \in Nat
        BY EntriesOf, EmptySeq
      <4>2. Starts(<<>>, K[r])
        BY <4>1 DEF Starts
      <4> QED BY <2>5, <2>6, <4>2
    <3>3. /\ \A o \in Req \ {r} : Cached(u, o) => u.req[o].cache # c
          /\ \A o \in Req : Stored(u, o) => u.rc.snapshots[o].cache # c
          /\ u.kv.obj[c].row = SlotKey(u, r)
      BY <2>3, <2>5, <2>6, <3>1 DEF Cached, Stored
    <3> QED BY <2>3, <2>6, <2>9, <3>2, <3>3, GetsCacheKeeps
  <2>11. /\ v.kv = k /\ v.rc = w.rc /\ v.active = w.active /\ v.offload = w.offload
         /\ \A o \in Req \ {r} : v.req[o] = w.req[o]
         /\ v.req[r] # None /\ v.req[r].cache = c
         /\ v.req[r].num = w.req[r].num /\ v.req[r].out = w.req[r].out /\ v.req[r].slot = w.req[r].slot
         /\ v.req[r].blocks = w.req[r].blocks /\ v.req[r].pos = w.req[r].pos
    BY SMTT(30), <2>6, <2>9 DEF GetsCache
  <2>12. \A o \in Req \ {r} : Cached(w, o) => k.obj[w.req[o].cache] = w.kv.obj[w.req[o].cache]
    BY <1>1, <2>3, <2>5, CachesInUse DEF Alike
  <2>13. Frame(w, v, r)
    <3>1. SameSlots(w.rc, v.rc) /\ v.rc.cap = w.rc.cap
      BY <2>11 DEF SameSlots
    <3>2. \A o \in Req : Stored(v, o) => Stored(w, o) \/ w.req[o] # None
      BY <2>11 DEF Stored
    <3> QED BY <2>5, <2>11, <2>12, <3>1, <3>2 DEF Frame
  <2>14. Near(w, v, r)
    <3>1. Saves(w, v)
      BY <2>5, <2>11 DEF Saves
    <3>2. Cached(v, r) /\ \A s \in Slot : v.kv.owner[s] # v.req[r].cache
      BY <2>3, <2>5, <2>11 DEF Cached
    <3> QED BY <2>5, <2>11, <2>13, <3>1, <3>2 DEF Near
  <2>15. Room(v.kv, n)
    <3>1. UsesAtMost(w.kv, k, c) /\ c \in Cache
      BY <2>3, <2>5 DEF UsesAtMost, Alike
    <3>2. Room(k, n)
      BY <3>1, RoomTaken
    <3> QED BY <2>11, <3>2
  <2> QED BY <1>3, <2>3, <2>5, <2>10, <2>11, <2>14, <2>15 DEF Cached
<1> QED BY <1>2, <1>3

-----------------------------------------------------------------------------
(* The one slot of a model that serves no batch.                           *)

LEMMA LeastIs ==
  ASSUME NEW a \in Nat, NEW b \in Nat, NEW n, n = Least(a, b)
  PROVE  n \in Nat /\ n <= a /\ n <= b /\ (n = a \/ n = b)
BY SMTT(30) DEF Least

\* What a live request has in its cache.
LEMMA HeldIs ==
  ASSUME NEW K \in [Req -> Seq(Text)], NEW w, Sound(w, K), NEW r \in Req, w.req[r] # None
  PROVE  /\ HeldTokens(w, r) \in Nat /\ w.req[r].num \in Nat /\ HeldTokens(w, r) <= Len(K[r])
         /\ w.req[r].num <= Len(K[r])
         /\ HeldTokens(w, r) > 0 => Cached(w, r)
         /\ Cached(w, r) => HeldTokens(w, r) = Len(w.kv.obj[w.req[r].cache].tokens)
         /\ ~Cached(w, r) => HeldTokens(w, r) = 0
<1>1. w \in Workers /\ Placed(w) /\ Slotted(w) /\ Holds(w, K)
  BY SMTT(30) DEF Sound
<1>2. Cached(w, r) => Len(w.kv.obj[w.req[r].cache].tokens) \in Nat
  BY <1>1, CachesInUse
<1>3. w.req[r].num \in Nat
  BY SMTT(30), <1>1, WorkerIs
<1>4. w.req[r].num <= Len(K[r]) /\ (Cached(w, r) => Len(w.kv.obj[w.req[r].cache].tokens) <= Len(K[r]))
  BY <1>1 DEF Holds, Starts, Cached
<1>5. Len(K[r]) \in Nat
  BY EntriesOf
<1> QED BY <1>2, <1>3, <1>4, <1>5 DEF HeldTokens, CacheOf, SeqLength, Cached

\* Slots change hands only by being given up.
Frees(kv, k) == \A s \in Slot : k.owner[s] = kv.owner[s] \/ k.owner[s] = None

\* k has the KV of o in host memory.
Offloads(w, k, o) == k = Offload(w.kv, w.req[o].cache)

LEMMA OffloadEases ==
  ASSUME NEW K \in [Req -> Seq(Text)], NEW w, Sound(w, K), NEW o \in Req, Cached(w, o),
         NEW k, Offloads(w, k, o), NEW v, HasCaches(w, v, k)
  PROVE  /\ Eases(w, v) /\ k \in Kvs /\ k.obj = w.kv.obj
         /\ v.rc = w.rc /\ v.kv = k /\ v.offload = w.offload /\ v.req = w.req /\ v.active = w.active
         /\ Frees(w.kv, k) /\ Dumps(w.kv, k, w.req[o].cache, "offload")
<1> DEFINE c == w.req[o].cache
<1>1. /\ w \in Workers /\ w.kv \in Kvs /\ RcOk(w.rc) /\ Owned(w) /\ Placed(w) /\ Slotted(w)
  BY SMTT(30), WorkerIs DEF Sound
<1>2. /\ \A q \in Req : Cached(w, q) => w.req[q].cache \in Cache /\ Len(w.kv.obj[w.req[q].cache].tokens) \in Nat
  BY <1>1, CachesInUse
<1>3. c \in Cache
  BY <1>2
<1>0. k = Offload(w.kv, c)
  BY DEF Offloads
<1> HIDE DEF c
<1>4. /\ k \in Kvs /\ k.obj = w.kv.obj
      /\ Dumps(w.kv, k, c, "offload")
      /\ \A s \in Slot : k.owner[s] = IF s = w.kv.obj[c].row /\ w.kv.owner[s] = c THEN None ELSE w.kv.owner[s]
  BY <1>0, <1>1, <1>3, OffloadIs
<1>5. /\ v \in Workers /\ v.rc = w.rc /\ v.kv = k
      /\ v.offload = w.offload /\ v.req = w.req /\ v.active = w.active
  BY <1>1, <1>4 DEF Workers, HasCaches
<1>6. Thins(w.rc, v.rc)
  BY <1>1, <1>5, ThinsItself
<1>7. \A q \in Req : Cached(w, q) =>
        Starts(w.kv.obj[w.req[q].cache].tokens, w.kv.obj[w.req[q].cache].tokens)
  BY <1>2 DEF Starts
<1>8. Eases(w, v)
  BY <1>1, <1>4, <1>5, <1>6, <1>7 DEF Eases
<1> QED BY <1>4, <1>5, <1>8 DEF c, Frees

\* The first n tokens of s and t are the same.
Agree(s, t, n) == n <= Len(s) /\ n <= Len(t) /\ \A i \in 1 .. n : s[i] = t[i]

\* But for its caches, now k, and the snapshot of o, v is w.
Snaps(w, v, k, o) ==
  /\ v.kv = k /\ v.req = w.req /\ v.active = w.active /\ v.offload = w.offload
  /\ SameSlots(w.rc, v.rc) /\ v.rc.cap = w.rc.cap
  /\ \A q \in Req \ {o} : v.rc.snapshots[q] = w.rc.snapshots[q]

\* A live request leaves a snapshot in a cache that nobody has, and that no slot holds.
LEMMA CopyLeaves ==
  ASSUME NEW K \in [Req -> Seq(Text)], NEW w, Sound(w, K), NEW o \in Req, w.req[o] # None,
         NEW c \in Cache, NEW k \in Kvs, k.owner = w.kv.owner,
         Unclaimed(w, c),
         w.kv.obj[c] = Unused, Alike(w.kv, k, c),
         k.obj[c].row \in Slot,
         NEW n \in Nat, Agree(k.obj[c].tokens, K[o], n),
         NEW u, HasCaches(w, u, k), NEW v, v = StorePrefix(u, o, c, n)
  PROVE  Sound(v, K) /\ Snaps(w, v, k, o)
<1>1. /\ w \in Workers /\ w.kv \in Kvs /\ RcOk(w.rc) /\ Owned(w) /\ Placed(w) /\ Slotted(w)
      /\ Marked(w) /\ Holds(w, K)
  BY WorkerIs DEF Sound
<1>17. /\ n <= Len(k.obj[c].tokens) /\ n <= Len(K[o])
       /\ \A i \in 1 .. n : k.obj[c].tokens[i] = K[o][i]
  BY DEF Agree
<1>18. /\ \A q \in Req : Cached(w, q) => w.req[q].cache # c
       /\ \A q \in Req : Stored(w, q) => w.rc.snapshots[q].cache # c
       /\ \A t \in Slot : w.kv.owner[t] # c
  BY DEF Unclaimed
<1>19. \A d \in Cache : d # c => k.obj[d] = w.kv.obj[d]
  BY DEF Alike
<1> DEFINE s == PrefixOf(w, o, n, c)
           m == StoreSnapshot(w.rc, o, s)
<1>2. /\ IsQuery(s, o) /\ s.num = n /\ s.cache = c
      /\ \A i \in 1 .. n : s.ids[i] = Masked(K[o][i])
      /\ s \in Snapshots
  BY <1>1, <1>17, PrefixIs
<1>3. u.rc = w.rc /\ u.req = w.req /\ u.kv = k
  BY <1>1 DEF Workers, HasCaches
<1>4. PrefixOf(u, o, n, c) = s
  <2>1. Tokens(u, o) = Tokens(w, o)
    BY <1>3 DEF Tokens
  <2>2. CacheTokenIds(u, o, n) = CacheTokenIds(w, o, n)
    BY <2>1 DEF CacheTokenIds
  <2> QED BY <1>3, <2>2 DEF PrefixOf, s
<1>5. v = [u EXCEPT !.rc = m]
  BY <1>3, <1>4 DEF StorePrefix
<1> HIDE DEF s
<1>6. /\ RcOk(m) /\ SameSlots(w.rc, m) /\ m.cap = w.rc.cap
      /\ \A q \in Req : m.snapshots[q] = IF q = o THEN s ELSE w.rc.snapshots[q]
      /\ m.finished = w.rc.finished \ {o}
  BY <1>1, <1>2, StoreIs
<1>7. m \in Managers(Snapshots, Nat)
  BY <1>6, RcOkIs
<1> HIDE DEF m
<1>8. /\ v \in Workers /\ v.rc = m /\ v.kv = k
      /\ v.offload = w.offload /\ v.req = w.req /\ v.active = w.active
  BY <1>1, <1>5, <1>7 DEF Workers, HasCaches
<1>9. \A q \in Req : /\ Cached(v, q) <=> Cached(w, q)
                     /\ v.rc.snapshots[q] = IF q = o THEN s ELSE w.rc.snapshots[q]
  BY <1>6, <1>8 DEF Cached
<1>10. s # None
  BY <1>2, RecordAssumption
<1>11. /\ \A q \in Req : Cached(w, q) => w.req[q].cache \in Cache
       /\ \A q \in Req : Stored(w, q) => w.rc.snapshots[q].cache \in Cache
  BY <1>1, CachesInUse
<1>12. Leaves(w, v, o, c)
  <2>1. /\ \A q \in Req \ {o} : Stored(v, q) => v.rc.snapshots[q] = w.rc.snapshots[q]
        /\ \A q \in Req \ {o} : Stored(v, q) => Stored(w, q)
        /\ v.rc.snapshots[o] = s
    BY <1>9 DEF Stored
  <2>2. \A d \in Cache : w.kv.obj[d] # Unused => d # c
    OBVIOUS
  <2>3. \A d \in Cache : w.kv.obj[d] # Unused => v.kv.obj[d] = w.kv.obj[d]
    BY <1>8, <1>19, <2>2
  <2>4. \A q \in Req : Cached(v, q) => v.kv.obj[v.req[q].cache].tokens = w.kv.obj[v.req[q].cache].tokens
    <3>1. \A q \in Req : Cached(w, q) => w.req[q].cache \in Cache \ {c}
      BY <1>11, <1>18
    <3>2. \A q \in Req : Cached(w, q) => k.obj[w.req[q].cache] = w.kv.obj[w.req[q].cache]
      BY SMTT(30), <1>19, <3>1
    <3> QED BY <1>8, <1>9, <3>2
  <2>5. \A q \in Req \ {o} : Stored(v, q) =>
          v.kv.obj[w.rc.snapshots[q].cache].tokens = w.kv.obj[w.rc.snapshots[q].cache].tokens
    BY <1>8, <1>11, <1>18, <1>19, <2>1
  <2>6. \A q \in Req : Cached(v, q) => v.req[q].cache # c
    BY <1>8, <1>9, <1>18
  <2>7. /\ \A q \in Req \ {o} : v.req[q] = w.req[q]
        /\ v.req[o] = w.req[o] \/ v.req[o] = None
        /\ \A q \in Req \ {o} : Stored(w, q) => w.rc.snapshots[q].cache # c
    BY <1>8, <1>18
  <2>8. /\ \A d \in Cache : w.kv.obj[d] # Unused =>
              v.kv.obj[d] # Unused /\ v.kv.obj[d].row = w.kv.obj[d].row
        /\ v.kv.obj[c].row \in Slot
        /\ \A t \in Slot : v.kv.owner[t] = w.kv.owner[t] \/ v.kv.owner[t] = None
        /\ \A t \in Slot : v.kv.owner[t] # c
    <3>1. /\ \A d \in Cache : w.kv.obj[d] # Unused =>
                v.kv.obj[d] # Unused /\ v.kv.obj[d].row = w.kv.obj[d].row
      BY <2>3
    <3>2. v.kv.obj[c].row \in Slot
      BY <1>8
    <3>3. /\ \A t \in Slot : v.kv.owner[t] = w.kv.owner[t] \/ v.kv.owner[t] = None
          /\ \A t \in Slot : v.kv.owner[t] # c
      BY <1>8, <1>18
    <3> QED BY <3>1, <3>2, <3>3
  <2>9. v.rc.snapshots[o].cache = c /\ v \in Workers /\ RcOk(v.rc)
    BY <1>2, <1>6, <1>8, <2>1
  <2> QED BY <2>1, <2>4, <2>5, <2>6, <2>7, <2>8, <2>9, Zenon DEF Leaves
<1>13. Marked(v)
  <2>1. ASSUME NEW q \in Req, Stored(v, q) PROVE v.req[q] # None <=> q \notin v.rc.finished
    <3>1. CASE q = o
      BY <1>6, <1>8, <3>1
    <3>2. CASE q # o
      <4>1. Stored(w, q)
        BY <1>9, <2>1, <3>2 DEF Stored
      <4>2. q \in v.rc.finished <=> q \in w.rc.finished
        BY <1>6, <1>8, <3>2
      <4> QED BY <1>1, <1>8, <4>1, <4>2 DEF Marked
    <3> QED BY <3>1, <3>2
  <2> QED BY <2>1 DEF Marked
<1>14. Slotted(v)
  BY <1>1, <1>6, <1>8 DEF Slotted, SameSlots
<1>15. IsHonest(v.rc.snapshots[o], o, v.kv.obj[c].tokens, K[o])
  <2>1. v.rc.snapshots[o] = s /\ v.kv.obj[c].tokens = k.obj[c].tokens
    BY <1>8, <1>9
  <2>2. /\ s.num <= Len(k.obj[c].tokens) /\ s.num <= Len(K[o]) /\ Len(s.ids) = s.num
        /\ s.mm = MultimodalIdentity(o, s.num)
    BY <1>2, <1>17 DEF IsQuery
  <2>3. \A i \in 1 .. s.num : k.obj[c].tokens[i] = K[o][i] /\ s.ids[i] = Masked(K[o][i])
    BY <1>2, <1>17
  <2> QED BY <2>1, <2>2, <2>3 DEF IsHonest
<1>16. Sound(v, K)
  BY <1>12, <1>13, <1>14, <1>15, LeavesKeeps
<1> QED BY <1>6, <1>8, <1>9, <1>16 DEF Snaps

\* The request that loses the one slot leaves a copy.
LEMMA SwitchedOutIs ==
  ASSUME NEW K \in [Req -> Seq(Text)], NEW w, Sound(w, K), ~Batch,
         NEW o \in Req, w.req[o] # None, NEW t \in Slot, w.active[t] # None,
         w.active[t].cache = w.req[o].cache,
         NEW r \in Req, w.req[r] # None,
         NEW n \in Nat, Spare(w.kv, n),
         NEW v, v = SnapshotSwitchedOut(w, o)
  PROVE  Sound(v, K) /\ Near(w, v, r) /\ Room(v.kv, n) /\ v.req = w.req
<1> DEFINE c == w.req[o].cache
           copy == FreeCache(w.kv)
           l == DumpedTokens(w, o)
           k == Offload(w.kv, c)
           a == CopyOf(k, c, copy)
           b == SetSeqLength(a, copy, l)
           x == [w EXCEPT !.kv = b]
           y == [w EXCEPT !.kv = k]
<1>1. /\ w \in Workers /\ w.kv \in Kvs /\ RcOk(w.rc) /\ Owned(w) /\ Placed(w) /\ Slotted(w) /\ Holds(w, K)
  BY WorkerIs DEF Sound
<1>2. /\ HeldTokens(w, o) \in Nat /\ w.req[o].num \in Nat /\ HeldTokens(w, o) <= Len(K[o])
      /\ HeldTokens(w, o) > 0 => Cached(w, o)
      /\ Cached(w, o) => HeldTokens(w, o) = Len(w.kv.obj[c].tokens)
  BY HeldIs
<1>3. SlotKey(w, r) = 0 /\ Slot = {0}
  BY NoneIs DEF SlotKey
<1>4. Bound(w, c)
  BY DEF Bound
<1>5. CASE v = w
  <2>1. Room(v.kv, n)
    <3>1. UsesNoMore(w.kv, v.kv)
      BY <1>5 DEF UsesNoMore
    <3> QED BY <3>1, RoomKept
  <2> QED BY <1>5, <2>1, NearItself
<1>6. ASSUME Cached(w, o)
      PROVE  /\ Eases(w, y) /\ Sound(y, K) /\ k \in Kvs /\ k.obj = w.kv.obj
             /\ y.rc = w.rc /\ y.kv = k /\ y.offload = w.offload /\ y.req = w.req /\ y.active = w.active
             /\ Frees(w.kv, k)
             /\ Dumps(w.kv, k, c, "offload")
  <2>1. Offloads(w, k, o) /\ HasCaches(w, y, k)
    BY DEF HasCaches, Offloads
  <2> HIDE DEF k, y
  <2>2. /\ Eases(w, y) /\ k \in Kvs /\ k.obj = w.kv.obj
        /\ y.rc = w.rc /\ y.kv = k /\ y.offload = w.offload /\ y.req = w.req /\ y.active = w.active
        /\ Frees(w.kv, k)
        /\ Dumps(w.kv, k, w.req[o].cache, "offload")
    BY <1>6, <2>1, OffloadEases
  <2>3. Sound(y, K)
    BY <2>2, EasesKeeps
  <2> QED BY <2>2, <2>3
<1>7. CASE Cached(w, o) /\ v = y
  <2> HIDE DEF k, y
  <2>1. /\ Eases(w, y) /\ Sound(y, K) /\ k \in Kvs /\ k.obj = w.kv.obj
        /\ y.rc = w.rc /\ y.kv = k /\ y.offload = w.offload /\ y.req = w.req /\ y.active = w.active
        /\ Frees(w.kv, k)
        /\ Dumps(w.kv, k, c, "offload")
    BY <1>6, <1>7
  <2>2. Room(v.kv, n)
    <3>1. UsesNoMore(w.kv, v.kv)
      BY <1>7, <2>1 DEF UsesNoMore
    <3> QED BY <3>1, RoomKept
  <2>3. Saves(w, v)
    BY <1>4, <1>7, <2>1 DEF Saves, Dumps
  <2>4. Frame(w, v, r)
    BY <1>3, <1>7, <2>1 DEF Frame, SameSlots, Stored, Frees
  <2> QED BY <1>3, <1>7, <2>1, <2>2, <2>3, <2>4 DEF Near, Frees
<1>8. CASE Cached(w, o) /\ HeldTokens(w, o) > 0 /\ v = StorePrefix(x, o, copy, l)
  <2>0. copy = FreeCache(w.kv) /\ l = Least(HeldTokens(w, o), w.req[o].num)
    BY DEF DumpedTokens
  <2>18. a = CopyOf(k, c, copy) /\ b = SetSeqLength(a, copy, l) /\ c = w.req[o].cache
    OBVIOUS
  <2>5. HasCaches(y, x, b)
    BY <1>1 DEF Workers, HasCaches
  <2> HIDE DEF c, copy, l, k, y, a, b, x
  <2>1. copy \in Cache /\ copy # None /\ w.kv.obj[copy] = Unused /\ Unclaimed(w, copy)
    BY <2>0, FreshIs
  <2>2. l \in Nat /\ l <= HeldTokens(w, o) /\ l <= w.req[o].num
    <3>1. HeldTokens(w, o) \in Nat /\ w.req[o].num \in Nat
      BY <1>2
    <3> QED BY <2>0, <3>1 DEF Least
  <2>3. /\ Eases(w, y) /\ Sound(y, K) /\ k \in Kvs /\ k.obj = w.kv.obj
        /\ y.rc = w.rc /\ y.kv = k /\ y.offload = w.offload /\ y.req = w.req /\ y.active = w.active
        /\ Frees(w.kv, k)
        /\ Dumps(w.kv, k, c, "offload")
    BY SMTT(30), <1>6, <1>8
  <2>4. c \in Cache /\ w.kv.obj[c] \in InUse /\ w.kv.obj[c] # Unused
    BY <1>1, <1>8, <2>18, CachesInUse
  <2>6. /\ a \in Kvs /\ a.owner = k.owner
        /\ Dumps(k, a, c, "copy")
        /\ Alike(k, a, copy)
        /\ a.obj[copy] = k.obj[c]
    <3>1. k \in Kvs /\ c \in Cache /\ copy \in Cache
      BY <2>1, <2>3, <2>4
    <3>2. a = CopyOf(k, c, copy)
      BY <2>18
    <3> QED BY <3>1, <3>2, CopyIs
  <2>7. a.obj[copy] # Unused
    BY <2>3, <2>4, <2>6
  <2>8. /\ b \in Kvs /\ b.owner = a.owner /\ b.dumps = a.dumps
        /\ Alike(a, b, copy)
        /\ Cut(a.obj[copy], b.obj[copy], l) /\ b.obj[copy] # Unused /\ b.obj[copy].row = a.obj[copy].row
    <3>1. a \in Kvs /\ copy \in Cache /\ l \in Nat /\ a.obj[copy] # Unused /\ b = SetSeqLength(a, copy, l)
      BY <2>1, <2>2, <2>6, <2>7, <2>18
    <3> QED BY SMTT(30), <3>1, SetSeqLengthIs
  <2>9. /\ b.owner = y.kv.owner /\ Alike(y.kv, b, copy)
    BY <2>3, <2>6, <2>8 DEF Alike
  <2>10. Unclaimed(y, copy) /\ y.kv.obj[copy] = Unused /\ y.req[o] # None
    BY <2>1, <2>3 DEF Cached, Stored, Unclaimed, Frees
  <2>12. b.obj[copy].row \in Slot /\ Agree(b.obj[copy].tokens, K[o], l)
    <3>1. Len(w.kv.obj[c].tokens) = HeldTokens(w, o)
      BY <1>2, <1>8 DEF c
    <3>2. Starts(w.kv.obj[c].tokens, K[o])
      BY <1>1, <1>8 DEF Holds, Cached, c
    <3>3. a.obj[copy] = w.kv.obj[c]
      BY <2>3, <2>6
    <3>4. Len(b.obj[copy].tokens) = l
      BY <1>2, <2>2, <2>8, <3>1, <3>3 DEF Cut, Least
    <3>5. \A i \in 1 .. l : b.obj[copy].tokens[i] = w.kv.obj[c].tokens[i]
      BY <2>8, <3>3, <3>4 DEF Cut
    <3>6. l <= Len(K[o])
      <4>1. Len(K[o]) \in Nat
        BY EntriesOf
      <4> QED BY <1>2, <2>2, <4>1
    <3>7. \A i \in 1 .. l : w.kv.obj[c].tokens[i] = K[o][i]
      BY <1>2, <2>2, <3>1, <3>2 DEF Starts
    <3>8. b.obj[copy].row \in Slot
      BY <2>4, <2>8, <3>3 DEF InUse
    <3> QED BY <2>2, <3>4, <3>5, <3>6, <3>7, <3>8 DEF Agree
  <2>19. /\ b \in Kvs /\ copy \in Cache /\ l \in Nat /\ v = StorePrefix(x, o, copy, l) /\ HasCaches(y, x, b)
         /\ Sound(y, K)
    BY <1>8, <2>1, <2>2, <2>3, <2>5, <2>8
  <2>20. Sound(v, K) /\ Snaps(y, v, b, o)
    <3>1. b.owner = y.kv.owner /\ Alike(y.kv, b, copy) /\ b.obj[copy].row \in Slot /\ y.req[o] # None
      BY <2>9, <2>10, <2>12
    <3>2. Unclaimed(y, copy) /\ y.kv.obj[copy] = Unused /\ Agree(b.obj[copy].tokens, K[o], l)
      BY <2>10, <2>12
    <3> QED BY <2>19, <3>1, <3>2, CopyLeaves
  <2>13. /\ Sound(v, K) /\ v.kv = b /\ v.req = y.req /\ v.active = y.active /\ v.offload = y.offload
         /\ SameSlots(y.rc, v.rc) /\ v.rc.cap = y.rc.cap
         /\ \A q \in Req \ {o} : v.rc.snapshots[q] = y.rc.snapshots[q]
    BY <2>20 DEF Snaps
  <2>14. Room(v.kv, n)
    <3>1. UsesAtMost(w.kv, b, copy) /\ copy \in Cache
      BY <2>1, <2>3, <2>9 DEF UsesAtMost, Alike
    <3> QED BY <2>13, <3>1, RoomTaken
  <2>15. Saves(w, v)
    <3>1. \A dump \in b.dumps : dump \in w.kv.dumps \/ dump.by = "copy" \/ dump.of = c
      BY <2>3, <2>6, <2>8 DEF Dumps
    <3> QED BY <1>4, <2>13, <3>1 DEF Saves, c
  <2>16. Frame(w, v, r)
    <3>1. \A q \in Req : Stored(v, q) => Stored(w, q) \/ w.req[q] # None
      BY <2>3, <2>13 DEF Stored
    <3>2. \A q \in Req : Cached(w, q) => v.kv.obj[w.req[q].cache] = w.kv.obj[w.req[q].cache]
      <4>1. \A q \in Req : Cached(w, q) => w.req[q].cache \in Cache \ {copy}
        BY <1>1, <2>1, CachesInUse
      <4>2. Alike(w.kv, b, copy)
        BY <2>3, <2>9 DEF Alike
      <4> QED BY SMTT(30), <2>13, <4>1, <4>2 DEF Alike
    <3> QED BY <1>3, <2>3, <2>13, <3>1, <3>2 DEF Frame
  <2>17. v.kv.owner[0] \in {w.kv.owner[0], None}
    BY <1>3, <2>3, <2>9, <2>13 DEF Frees
  <2> QED BY <1>3, <2>3, <2>13, <2>14, <2>15, <2>16, <2>17 DEF Near
<1> HIDE DEF k, y
<1>9. v = w \/ (Cached(w, o) /\ v = y) \/ (Cached(w, o) /\ HeldTokens(w, o) > 0 /\ v = StorePrefix(x, o, copy, l))
  BY <1>2 DEF SnapshotSwitchedOut, CacheOf, k, y
<1> QED BY <1>5, <1>7, <1>8, <1>9

-----------------------------------------------------------------------------
(* A snapshot is loaded.                                                   *)

\* c is a cache, but no request's and no snapshot's.
Orphan(w, c) ==
  /\ c \in Cache /\ w.kv.obj[c] # Unused
  /\ \A q \in Req : Cached(w, q) => w.req[q].cache # c
  /\ \A q \in Req : Stored(w, q) => w.rc.snapshots[q].cache # c

\* v is w with the cache c, cut to n tokens, given to r.
GivesCut(w, v, r, c, n) == v = [w EXCEPT !.kv = SetSeqLength(@, c, n), !.req[r].cache = c]

\* But for c, which has n tokens, and for r, which has c, v is w.
Reuses(w, v, r, c, n) ==
  /\ v.rc = w.rc /\ v.offload = w.offload /\ v.active = w.active
  /\ v.kv.owner = w.kv.owner /\ v.kv.dumps = w.kv.dumps
  /\ Alike(w.kv, v.kv, c) /\ Len(v.kv.obj[c].tokens) = n
  /\ Cached(v, r) /\ v.req[r].cache = c
  /\ \A o \in Req \ {r} : v.req[o] = w.req[o]
  /\ v.req[r].num = w.req[r].num /\ v.req[r].out = w.req[r].out /\ v.req[r].slot = w.req[r].slot
  /\ v.req[r].blocks = w.req[r].blocks /\ v.req[r].pos = w.req[r].pos

LEMMA ReuseKeeps ==
  ASSUME NEW K \in [Req -> Seq(Text)], NEW w, Sound(w, K), NEW r \in Req, w.req[r] # None,
         NEW c, Orphan(w, c), w.kv.obj[c].row = SlotKey(w, r),
         NEW n \in Nat, Agree(w.kv.obj[c].tokens, K[r], n), NEW v, GivesCut(w, v, r, c, n)
  PROVE  Sound(v, K) /\ Reuses(w, v, r, c, n)
<1> DEFINE k == SetSeqLength(w.kv, c, n)
           u == [w EXCEPT !.kv = k]
<1>1. /\ w \in Workers /\ w.kv \in Kvs /\ RcOk(w.rc) /\ Placed(w) /\ Slotted(w)
  BY WorkerIs DEF Sound
<1>2. /\ c \in Cache /\ w.kv.obj[c] # Unused
      /\ \A q \in Req : Cached(w, q) => w.req[q].cache # c
      /\ \A q \in Req : Stored(w, q) => w.rc.snapshots[q].cache # c
  BY DEF Orphan
<1>3. v = [u EXCEPT !.req[r].cache = c]
  BY <1>1 DEF GivesCut, Workers
<1>4. HasCaches(w, u, k) /\ k = SetSeqLength(w.kv, c, n)
  BY DEF HasCaches
<1> HIDE DEF k, u
<1>5. /\ k \in Kvs /\ k.owner = w.kv.owner /\ k.dumps = w.kv.dumps /\ Alike(w.kv, k, c)
      /\ Cut(w.kv.obj[c], k.obj[c], n) /\ k.obj[c] # Unused /\ k.obj[c].row = w.kv.obj[c].row
  BY <1>1, <1>2, <1>4, SetSeqLengthIs
<1>6. /\ u \in Workers /\ u.kv = k
      /\ u.rc = w.rc /\ u.offload = w.offload /\ u.req = w.req /\ u.active = w.active
  BY Zenon, <1>1, <1>4, <1>5 DEF Workers, HasCaches
<1>7. /\ \A q \in Req : Cached(w, q) => w.req[q].cache \in Cache /\ Len(w.kv.obj[w.req[q].cache].tokens) \in Nat
      /\ \A q \in Req : Stored(w, q) => w.rc.snapshots[q].cache \in Cache
  BY Zenon, <1>1, CachesInUse
<1>8. Eases(w, u)
  <2>1. Thins(w.rc, u.rc)
    BY <1>1, <1>6, ThinsItself
  <2>2. \A d \in Cache : w.kv.obj[d] # Unused => u.kv.obj[d] # Unused /\ u.kv.obj[d].row = w.kv.obj[d].row
    BY SMTT(30), <1>5, <1>6 DEF Alike
  <2>3. \A q \in Req : Cached(w, q) => k.obj[w.req[q].cache] = w.kv.obj[w.req[q].cache]
    BY <1>2, <1>5, <1>7 DEF Alike
  <2>4. \A q \in Req : Cached(w, q) =>
          Starts(w.kv.obj[w.req[q].cache].tokens, w.kv.obj[w.req[q].cache].tokens)
    BY SMTT(30), <1>7 DEF Starts
  <2>5. \A q \in Req : Cached(w, q) =>
          Starts(u.kv.obj[w.req[q].cache].tokens, w.kv.obj[w.req[q].cache].tokens)
    BY SMTT(30), <1>6, <2>3, <2>4
  <2>6. \A q \in Req : Stored(u, q) =>
          u.kv.obj[w.rc.snapshots[q].cache].tokens = w.kv.obj[w.rc.snapshots[q].cache].tokens
    BY <1>2, <1>5, <1>6, <1>7 DEF Alike, Stored
  <2> QED BY Zenon, <1>5, <1>6, <2>1, <2>2, <2>5, <2>6 DEF Eases
<1>9. Sound(u, K)
  BY <1>8, EasesKeeps
<1>10. GetsCache(u, v, r, c)
  <2>1. u \in Workers /\ u.req[r] # None /\ c \in Cache
    BY <1>2, <1>6
  <2> QED BY <1>3, <2>1, GetsCacheIs
<1>11. n <= Len(w.kv.obj[c].tokens) /\ n <= Len(K[r]) /\ \A i \in 1 .. n : w.kv.obj[c].tokens[i] = K[r][i]
  BY DEF Agree
<1>12. Len(w.kv.obj[c].tokens) \in Nat
  BY <1>1, <1>2, InUseIs
<1>13. Len(k.obj[c].tokens) = n
  BY <1>5, <1>11, <1>12 DEF Cut, Least
<1>14. Starts(k.obj[c].tokens, K[r])
  BY <1>5, <1>11, <1>13 DEF Cut, Starts
<1>15. Sound(v, K)
  <2>1. SlotKey(u, r) = SlotKey(w, r)
    BY <1>6 DEF SlotKey
  <2>2. u.kv.obj[c].row = SlotKey(u, r) /\ Starts(u.kv.obj[c].tokens, K[r]) /\ c \in Cache
    BY <1>2, <1>5, <1>6, <1>14, <2>1
  <2>3. /\ \A o \in Req \ {r} : Cached(u, o) => u.req[o].cache # c
        /\ \A o \in Req : Stored(u, o) => u.rc.snapshots[o].cache # c
    BY <1>2, <1>6 DEF Cached, Stored
  <2> QED BY <1>9, <1>10, <2>2, <2>3, GetsCacheKeeps
<1>16. Reuses(w, v, r, c, n)
  <2>1. /\ v.kv = k /\ v.rc = w.rc /\ v.active = w.active /\ v.offload = w.offload
        /\ \A o \in Req \ {r} : v.req[o] = w.req[o]
        /\ v.req[r] # None /\ v.req[r].cache = c
        /\ v.req[r].num = w.req[r].num /\ v.req[r].out = w.req[r].out /\ v.req[r].slot = w.req[r].slot
        /\ v.req[r].blocks = w.req[r].blocks /\ v.req[r].pos = w.req[r].pos
    BY <1>6, <1>10 DEF GetsCache
  <2>2. Cached(v, r)
    BY <1>2, <2>1, NoneIs DEF Cached
  <2> QED BY <1>5, <1>13, <2>1, <2>2 DEF Reuses
<1> QED BY <1>15, <1>16

\* v is w after a handler that may have given r another cache.
Loaded(w, v, r) ==
  /\ Frame(w, v, r) /\ Saves(w, v)
  /\ \/ v.kv.owner[SlotKey(w, r)] = w.kv.owner[SlotKey(w, r)]
     \/ v.kv.owner[SlotKey(w, r)] = None
     \/ v.kv.owner[SlotKey(w, r)] = v.req[r].cache

\* The snapshot match.req of w has the first match.tokens of r's tokens.
Serves(w, r, match, K) ==
  /\ match.req \in Req /\ Stored(w, match.req) /\ match.tokens \in Nat \ {0}
  /\ match.tokens <= w.req[r].num /\ match.tokens <= w.rc.snapshots[match.req].num
  /\ \A i \in 1 .. match.tokens : K[r][i] = K[match.req][i]

\* Its cache holds their KV.
LEMMA ServesIs ==
  ASSUME NEW K \in [Req -> Seq(Text)], NEW w, Sound(w, K), NEW r \in Req, w.req[r] # None,
         NEW match, Serves(w, r, match, K), NEW c, c = w.rc.snapshots[match.req].cache
  PROVE  /\ match.req \in Req /\ match.tokens \in Nat /\ match.tokens > 0
         /\ c \in Cache /\ w.kv.obj[c] # Unused
         /\ Agree(w.kv.obj[c].tokens, K[r], match.tokens)
<1>1. /\ w \in Workers /\ Placed(w) /\ Slotted(w) /\ Holds(w, K) /\ Honest(w, K)
  BY DEF Sound
<1> DEFINE o == match.req
           n == match.tokens
           s == w.rc.snapshots[o]
<1>2. /\ o \in Req /\ Stored(w, o) /\ n \in Nat /\ n > 0 /\ n <= w.req[r].num /\ n <= w.rc.snapshots[o].num
      /\ \A i \in 1 .. n : K[r][i] = K[o][i]
  BY DEF Serves
<1>3. c \in Cache /\ w.kv.obj[c] # Unused /\ Len(w.kv.obj[c].tokens) \in Nat
  BY Zenon, <1>1, <1>2, CachesInUse
<1> HIDE DEF o, n
<1>4. IsHonest(s, o, w.kv.obj[c].tokens, K[o])
  BY <1>1, <1>2 DEF Honest, o
<1>5. s.num \in Nat /\ w.req[r].num \in Nat
  BY <1>1, <1>2, WorkerIs
<1>55. n <= s.num
  BY <1>2
<1> HIDE DEF s
<1>6. w.req[r].num <= Len(K[r]) /\ Len(K[r]) \in Nat
  BY <1>1, EntriesOf DEF Holds
<1>7. s.num <= Len(w.kv.obj[c].tokens) /\ \A i \in 1 .. s.num : w.kv.obj[c].tokens[i] = K[o][i]
  BY Zenon, <1>4 DEF IsHonest
<1>8. n <= Len(w.kv.obj[c].tokens) /\ n <= Len(K[r])
  <2> DEFINE h == Len(w.kv.obj[c].tokens)
             k == Len(K[r])
             a == s.num
             b == w.req[r].num
  <2>1. h \in Nat /\ k \in Nat /\ a \in Nat /\ b \in Nat /\ n \in Nat
        /\ n <= b /\ n <= a /\ b <= k /\ a <= h
    BY Zenon, <1>2, <1>3, <1>5, <1>55, <1>6, <1>7
  <2> HIDE DEF h, k, a, b
  <2>2. n <= h /\ n <= k
    BY SMTT(30), <2>1
  <2> QED BY <2>2 DEF h, k
<1>9. \A i \in 1 .. n : w.kv.obj[c].tokens[i] = K[r][i]
  <2> TAKE i \in 1 .. n
  <2>1. K[r][i] = K[o][i] /\ n \in Nat /\ n <= s.num /\ s.num \in Nat
    BY <1>2, <1>5, <1>55
  <2>2. i \in 1 .. s.num
    BY <2>1
  <2>3. w.kv.obj[c].tokens[i] = K[o][i]
    BY Zenon, <1>7, <2>2
  <2> QED BY <2>1, <2>3
<1> QED BY Zenon, <1>2, <1>3, <1>8, <1>9 DEF Agree, o, n

\* The snapshot is saved: its KV stays where it is, and it has a copy.
Saved(w, u, o, c, copy) == u = [w EXCEPT !.kv = CopyOf(w.kv, c, copy), !.rc = Recache(w.rc, o, copy)]

\* What TakeOver does before it takes the cache c: in u, nothing refers to c.
Readied(w, u, c, copy) ==
  /\ Orphan(u, c) /\ c # copy
  /\ u.req = w.req /\ u.active = w.active /\ u.offload = w.offload
  /\ SameSlots(w.rc, u.rc) /\ u.rc.cap = w.rc.cap
  /\ u.kv.owner = w.kv.owner /\ Dumps(w.kv, u.kv, c, "copy") /\ Alike(w.kv, u.kv, copy)
  /\ \A q \in Req : Stored(u, q) => Stored(w, q)

LEMMA SavedIs ==
  ASSUME NEW K \in [Req -> Seq(Text)], NEW w, Sound(w, K), NEW o \in Req, Stored(w, o),
         NEW c, c = w.rc.snapshots[o].cache, NEW copy \in Cache, w.kv.obj[copy] = Unused, Unclaimed(w, copy),
         NEW u, Saved(w, u, o, c, copy)
  PROVE  Sound(u, K) /\ Readied(w, u, c, copy)
<1> DEFINE k == CopyOf(w.kv, c, copy)
           m == Recache(w.rc, o, copy)
<1>1. /\ w \in Workers /\ w.kv \in Kvs /\ RcOk(w.rc) /\ Owned(w) /\ Placed(w) /\ Slotted(w)
      /\ Marked(w) /\ Honest(w, K) /\ w.rc \in Managers(Snapshots, Nat)
  BY SMTT(30), WorkerIs DEF Sound
<1>2. /\ c \in Cache /\ w.kv.obj[c] # Unused /\ w.kv.obj[c] \in InUse
      /\ \A q \in Req : Cached(w, q) => w.req[q].cache \in Cache
      /\ \A q \in Req : Stored(w, q) => w.rc.snapshots[q].cache \in Cache
  BY <1>1, CachesInUse
<1>3. u = [w EXCEPT !.kv = k, !.rc = m]
  BY <1>1 DEF Saved, Workers
<1>4. /\ \A q \in Req : Cached(w, q) => w.req[q].cache # copy
      /\ \A q \in Req : Stored(w, q) => w.rc.snapshots[q].cache # copy
      /\ \A s \in Slot : w.kv.owner[s] # copy
  BY DEF Unclaimed
<1>5. k = CopyOf(w.kv, c, copy) /\ m = Recache(w.rc, o, copy)
  OBVIOUS
<1> HIDE DEF k, m
<1>6. /\ k \in Kvs /\ k.owner = w.kv.owner /\ Dumps(w.kv, k, c, "copy") /\ Alike(w.kv, k, copy)
      /\ k.obj[copy] = w.kv.obj[c]
  <2>1. w.kv \in Kvs /\ c \in Cache /\ k = CopyOf(w.kv, c, copy)
    BY <1>1, <1>2, <1>5
  <2>2. k \in Kvs /\ k.owner = w.kv.owner
    BY <2>1, CopyIs
  <2>3. k.obj[copy] = w.kv.obj[c]
    BY <2>1 DEF CopyOf, Dump, Kvs
  <2>4. Dumps(w.kv, k, c, "copy")
    BY <2>1, CopyIs
  <2>5. Alike(w.kv, k, copy)
    BY <2>1, CopyIs
  <2> QED BY <2>2, <2>3, <2>4, <2>5
<1>7. /\ RcOk(m) /\ SameSlots(w.rc, m) /\ m.cap = w.rc.cap /\ m.finished = w.rc.finished
      /\ \A q \in Req \ {o} : m.snapshots[q] = w.rc.snapshots[q]
      /\ m.snapshots[o] = [w.rc.snapshots[o] EXCEPT !.cache = copy]
      /\ m.snapshots[o] # None
  <2>1. w.rc.snapshots[o] # None
    BY DEF Stored
  <2>2. /\ RcOk(m) /\ SameSlots(w.rc, m) /\ m.cap = w.rc.cap /\ m.finished = w.rc.finished
        /\ Recached(w.rc, m, o, copy)
    BY <1>1, <1>5, <2>1, RecacheIs
  <2> QED BY <2>2 DEF Recached
<1>8. m \in Managers(Snapshots, Nat)
  BY <1>7, RcOkIs
<1>9. /\ u \in Workers /\ u.rc = m /\ u.kv = k
      /\ u.offload = w.offload /\ u.req = w.req /\ u.active = w.active
  BY <1>1, <1>3, <1>6, <1>8 DEF Workers
<1>10. w.rc.snapshots[o] \in Snapshots
  BY <1>1, WorkerIs
<1> DEFINE s == u.rc.snapshots[o]
<1>11. /\ s.cache = copy /\ s.num = w.rc.snapshots[o].num /\ s.ids = w.rc.snapshots[o].ids
       /\ s.mm = w.rc.snapshots[o].mm
  BY <1>7, <1>9, <1>10 DEF Snapshots
<1>12. \A q \in Req : (Stored(u, q) <=> Stored(w, q)) /\ (Cached(u, q) <=> Cached(w, q))
  BY <1>7, <1>9 DEF Stored, Cached
<1>13. \A q \in Req \ {o} : u.rc.snapshots[q] = w.rc.snapshots[q]
  BY <1>7, <1>9
<1>14. copy # c
  BY <1>4
<1> HIDE DEF s
<1>15. Leaves(w, u, o, copy)
  <2>1. /\ \A q \in Req \ {o} : u.req[q] = w.req[q]
        /\ u.req[o] = w.req[o]
        /\ \A q \in Req \ {o} : Stored(u, q) => u.rc.snapshots[q] = w.rc.snapshots[q]
        /\ u.rc.snapshots[o].cache = copy
        /\ \A q \in Req \ {o} : Stored(w, q) => w.rc.snapshots[q].cache # copy
    BY <1>4, <1>9, <1>11, <1>13 DEF s
  <2>2. \A q \in Req : Cached(u, q) => u.req[q].cache # copy
    BY <1>4, <1>9, <1>12
  <2>3. \A d \in Cache : w.kv.obj[d] # Unused => u.kv.obj[d] # Unused /\ u.kv.obj[d].row = w.kv.obj[d].row
    BY SMTT(30), <1>6, <1>9 DEF Alike
  <2>4. u.kv.obj[copy].row \in Slot
    BY <1>2, <1>6, <1>9 DEF InUse
  <2>5. /\ \A t \in Slot : u.kv.owner[t] = w.kv.owner[t] \/ u.kv.owner[t] = None
        /\ \A t \in Slot : u.kv.owner[t] # copy
    BY <1>4, <1>6, <1>9
  <2>6. \A q \in Req : Cached(u, q) => u.kv.obj[u.req[q].cache].tokens = w.kv.obj[u.req[q].cache].tokens
    <3>1. \A q \in Req : Cached(w, q) => k.obj[w.req[q].cache] = w.kv.obj[w.req[q].cache]
      BY SMTT(30), <1>2, <1>4, <1>6 DEF Alike
    <3> QED BY SMTT(30), <1>9, <1>12, <3>1
  <2>7. \A q \in Req \ {o} : Stored(u, q) =>
          u.kv.obj[w.rc.snapshots[q].cache].tokens = w.kv.obj[w.rc.snapshots[q].cache].tokens
    <3>1. \A q \in Req : Stored(w, q) => k.obj[w.rc.snapshots[q].cache] = w.kv.obj[w.rc.snapshots[q].cache]
      BY <1>2, <1>4, <1>6 DEF Alike
    <3> QED BY SMTT(30), <1>9, <1>12, <3>1
  <2>8. RcOk(u.rc) /\ u \in Workers
    BY <1>7, <1>9
  <2> QED BY <2>1, <2>2, <2>3, <2>4, <2>5, <2>6, <2>7, <2>8, Zenon DEF Leaves
<1>16. Marked(u) /\ Slotted(u)
  <2>1. Marked(u)
    BY <1>1, <1>7, <1>9, <1>12 DEF Marked
  <2>2. Slotted(u)
    BY <1>1, <1>7, <1>9 DEF Slotted, SameSlots
  <2> QED BY <2>1, <2>2
<1>17. IsHonest(u.rc.snapshots[o], o, u.kv.obj[copy].tokens, K[o])
  <2>1. IsHonest(w.rc.snapshots[o], o, w.kv.obj[c].tokens, K[o])
    BY <1>1 DEF Honest
  <2>2. u.kv.obj[copy].tokens = w.kv.obj[c].tokens
    BY <1>6, <1>9
  <2> QED BY Zenon, <1>11, <2>1, <2>2 DEF IsHonest, s
<1>18. Sound(u, K)
  BY SMTT(30), <1>15, <1>16, <1>17, LeavesKeeps
<1>19. Orphan(u, c)
  <2>1. \A q \in Req : Cached(u, q) => u.req[q].cache # c
    BY <1>1, <1>9, <1>12 DEF Owned
  <2>2. \A q \in Req : Stored(u, q) => u.rc.snapshots[q].cache # c
    BY SMTT(30), <1>1, <1>11, <1>12, <1>13, <1>14 DEF Owned, s
  <2>3. u.kv.obj[c] # Unused
    BY <1>2, <1>6, <1>9, <1>14 DEF Alike
  <2> QED BY <1>2, <2>1, <2>2, <2>3 DEF Orphan
<1> QED BY <1>6, <1>7, <1>9, <1>12, <1>14, <1>18, <1>19 DEF Readied

\* The snapshot is dropped.
Dropped(w, u, o) == u = [w EXCEPT !.rc = RemoveSnapshot(w.rc, o)]

LEMMA DroppedIs ==
  ASSUME NEW K \in [Req -> Seq(Text)], NEW w, Sound(w, K), NEW o \in Req, Stored(w, o),
         NEW c, c = w.rc.snapshots[o].cache, NEW copy \in Cache, w.kv.obj[copy] = Unused,
         NEW u, Dropped(w, u, o)
  PROVE  Sound(u, K) /\ Readied(w, u, c, copy)
<1> DEFINE m == RemoveSnapshots(w.rc, {o})
<1>1. /\ w \in Workers /\ w.kv \in Kvs /\ RcOk(w.rc) /\ Owned(w) /\ Placed(w) /\ Slotted(w)
      /\ Holds(w, K) /\ w.rc \in Managers(Snapshots, Nat)
  BY SMTT(30), WorkerIs DEF Sound
<1>2. c \in Cache /\ w.kv.obj[c] # Unused /\ c # copy
  BY <1>1, CachesInUse
<1>3. u = [w EXCEPT !.rc = m]
  BY DEF Dropped, RemoveSnapshot
<1>4. m = RemoveSnapshots(w.rc, {o})
  OBVIOUS
<1> HIDE DEF m
<1>5. Thins(w.rc, m)
  BY <1>1, <1>4, RemoveThins
<1>6. \A q \in Req : m.snapshots[q] = IF q = o THEN None ELSE w.rc.snapshots[q]
  BY <1>1, <1>4, RemoveThins
<1>7. RcOk(m) /\ SameSlots(w.rc, m) /\ m.cap = w.rc.cap /\ m \in Managers(Snapshots, Nat)
  BY <1>5, RcOkIs DEF Thins
<1>8. /\ u \in Workers /\ u.rc = m /\ u.kv = w.kv
      /\ u.offload = w.offload /\ u.req = w.req /\ u.active = w.active
  BY <1>1, <1>3, <1>7 DEF Workers
<1>9. \A q \in Req : (Cached(u, q) <=> Cached(w, q)) /\ (Stored(u, q) <=> Stored(w, q) /\ q # o)
  BY <1>6, <1>8 DEF Cached, Stored
<1>10. Eases(w, u)
  <2>1. \A q \in Req : Cached(w, q) => Starts(u.kv.obj[w.req[q].cache].tokens, w.kv.obj[w.req[q].cache].tokens)
    <3>1. \A s : Len(s) \in Nat => Starts(s, s)
      BY SMTT(30) DEF Starts
    <3>2. \A q \in Req : Cached(w, q) => Len(w.kv.obj[w.req[q].cache].tokens) \in Nat
      BY <1>1, CachesInUse
    <3>3. \A q \in Req : Cached(w, q) =>
            Starts(w.kv.obj[w.req[q].cache].tokens, w.kv.obj[w.req[q].cache].tokens)
      BY <3>1, <3>2
    <3> QED BY <1>8, <3>3
  <2>2. u \in Workers /\ Thins(w.rc, u.rc) /\ u.req = w.req /\ u.kv = w.kv
    BY <1>5, <1>8
  <2> QED BY <2>1, <2>2 DEF Eases
<1>11. Sound(u, K)
  BY <1>10, EasesKeeps
<1>12. Orphan(u, c)
  <2>1. \A q \in Req : Cached(u, q) => u.req[q].cache # c
    BY <1>1, <1>8, <1>9 DEF Owned
  <2>2. \A q \in Req : Stored(u, q) => u.rc.snapshots[q].cache # c
    BY <1>1, <1>6, <1>8, <1>9 DEF Owned
  <2> QED BY <1>2, <1>8, <2>1, <2>2 DEF Orphan
<1>13. Dumps(w.kv, u.kv, c, "copy") /\ Alike(w.kv, u.kv, copy)
  BY <1>8 DEF Dumps, Alike
<1> QED BY <1>2, <1>7, <1>8, <1>9, <1>11, <1>12, <1>13 DEF Readied

\* The cache readied goes to r.
LEMMA ReadiedReused ==
  ASSUME NEW w, w \in Workers, Slotted(w), NEW r \in Req, w.req[r] # None,
         NEW u, NEW v, NEW c, NEW copy \in Cache, NEW n \in Nat, Unclaimed(w, copy),
         w.kv.obj[c] # Unused, w.kv.owner[SlotKey(w, r)] = c,
         Readied(w, u, c, copy), Reuses(u, v, r, c, n)
  PROVE  Loaded(w, v, r) /\ UsesAtMost(w.kv, v.kv, copy) /\ HeldTokens(v, r) = n
<1>1. /\ u.req = w.req /\ u.active = w.active /\ u.offload = w.offload /\ c # copy
      /\ SameSlots(w.rc, u.rc) /\ u.rc.cap = w.rc.cap /\ u.kv.owner = w.kv.owner
      /\ Dumps(w.kv, u.kv, c, "copy") /\ Alike(w.kv, u.kv, copy) /\ Orphan(u, c)
      /\ \A q \in Req : Stored(u, q) => Stored(w, q)
  BY DEF Readied
<1>2. /\ v.rc = u.rc /\ v.offload = u.offload /\ v.active = u.active
      /\ v.kv.owner = u.kv.owner /\ v.kv.dumps = u.kv.dumps
      /\ Alike(u.kv, v.kv, c) /\ Len(v.kv.obj[c].tokens) = n
      /\ Cached(v, r) /\ v.req[r].cache = c
      /\ \A o \in Req \ {r} : v.req[o] = u.req[o]
      /\ v.req[r].num = u.req[r].num /\ v.req[r].out = u.req[r].out /\ v.req[r].slot = u.req[r].slot
      /\ v.req[r].blocks = u.req[r].blocks /\ v.req[r].pos = u.req[r].pos
  BY DEF Reuses
<1>3. /\ \A q \in Req : Cached(w, q) => w.req[q].cache # c /\ w.req[q].cache # copy
      /\ \A q \in Req : Cached(w, q) => w.req[q].cache \in Cache
  <2>1. \A q \in Req : Cached(w, q) <=> Cached(u, q)
    BY <1>1 DEF Cached
  <2>2. \A q \in Req : Cached(w, q) => w.req[q].cache # c
    BY <1>1, <2>1 DEF Orphan
  <2>3. \A q \in Req : Cached(w, q) => w.req[q].cache # copy
    BY DEF Unclaimed
  <2>4. \A q \in Req : Cached(w, q) => w.req[q].cache \in Cache
    BY WorkerIs
  <2> QED BY <2>2, <2>3, <2>4
<1>4. \A d \in Cache \ {c, copy} : v.kv.obj[d] = w.kv.obj[d]
  BY SMTT(30), <1>1, <1>2 DEF Alike
<1>5. Frame(w, v, r)
  <2>1. \A o \in Req \ {r} : Cached(w, o) => v.kv.obj[w.req[o].cache] = w.kv.obj[w.req[o].cache]
    BY <1>3, <1>4
  <2>2. v.req[r] # None
    BY <1>2 DEF Cached
  <2>3. SameSlots(w.rc, v.rc) /\ v.rc.cap = w.rc.cap
    BY <1>1, <1>2
  <2>4. \A o \in Req : Stored(v, o) => Stored(w, o) \/ w.req[o] # None
    BY <1>1, <1>2 DEF Stored
  <2> QED BY <1>1, <1>2, <2>1, <2>2, <2>3, <2>4 DEF Frame
<1>6. Saves(w, v)
  BY <1>1, <1>2 DEF Saves, Dumps
<1>7. v.kv.owner[SlotKey(w, r)] = w.kv.owner[SlotKey(w, r)]
  BY <1>1, <1>2
<1>8. UsesAtMost(w.kv, v.kv, copy)
  BY <1>4 DEF UsesAtMost
<1>9. HeldTokens(v, r) = n
  <2>1. c # None
    BY <1>2 DEF Cached
  <2> QED BY <1>2, <2>1 DEF HeldTokens, CacheOf, SeqLength
<1> QED BY <1>2, <1>5, <1>6, <1>7, <1>8, <1>9 DEF Loaded

\* The snapshot found is on r's slot.
OnSlot(w, r, match) == HoldsSlot(w.kv, w.rc.snapshots[match.req].cache, SlotKey(w, r))

\* A snapshot on r's slot is taken over: r has its cache.
LEMMA TakeOverIs ==
  ASSUME NEW K \in [Req -> Seq(Text)], NEW w, Sound(w, K), NEW r \in Req, w.req[r] # None,
         NEW match, Serves(w, r, match, K),
         OnSlot(w, r, match),
         NEW k \in Nat, Spare(w.kv, k), NEW cost,
         NEW v, v = TakeOver(w, r, match, cost)
  PROVE  Sound(v, K) /\ Loaded(w, v, r) /\ Room(v.kv, k) /\ HeldTokens(v, r) = match.tokens
<1> DEFINE o == match.req
           n == match.tokens
           c == w.rc.snapshots[o].cache
           copy == FreeCache(w.kv)
           kept == ShouldSave(w, cost, w.rc.snapshots[o].num)
           saved == [w EXCEPT !.kv = CopyOf(w.kv, c, copy), !.rc = Recache(w.rc, o, copy)]
           dropped == [w EXCEPT !.rc = RemoveSnapshot(w.rc, o)]
           u == IF kept THEN saved ELSE dropped
<1>1. w \in Workers /\ Slotted(w) /\ Placed(w)
  BY DEF Sound
<1>2. c = w.rc.snapshots[match.req].cache /\ Stored(w, o)
  BY SMTT(30) DEF Serves
<1>3. /\ o \in Req /\ n \in Nat /\ n > 0 /\ c \in Cache /\ w.kv.obj[c] # Unused
      /\ Agree(w.kv.obj[c].tokens, K[r], n)
  BY <1>2, ServesIs
<1>4. copy \in Cache /\ w.kv.obj[copy] = Unused /\ Unclaimed(w, copy)
  BY FreshIs
<1>5. w.kv.obj[c].row = SlotKey(w, r) /\ w.kv.owner[SlotKey(w, r)] = c
  BY DEF OnSlot, HoldsSlot
<1>6. [w EXCEPT !.kv = CopyOf(@, c, copy), !.rc.snapshots[o].cache = copy] = saved
  BY <1>1 DEF Workers, Recache
<1>7. v = [u EXCEPT !.kv = SetSeqLength(@, c, n), !.req[r].cache = c]
  <2>1. CASE kept
    BY Zenon, <1>6, <2>1 DEF TakeOver
  <2>2. CASE ~kept
    BY <2>2 DEF TakeOver
  <2> QED BY <2>1, <2>2
<1>8. GivesCut(u, v, r, c, n)
  BY Zenon, <1>7 DEF GivesCut
<1>9. (kept => Saved(w, u, o, c, copy)) /\ (~kept => Dropped(w, u, o))
  BY DEF Saved, Dropped
<1> HIDE DEF u, copy, kept, o, n
<1>10. c = w.rc.snapshots[o].cache
  BY <1>2 DEF o
<1> HIDE DEF c
<1>11. Sound(u, K) /\ Readied(w, u, c, copy)
  <2>1. CASE kept
    <3>1. Saved(w, u, o, c, copy)
      BY <1>9, <2>1
    <3> QED BY Zenon, <1>2, <1>3, <1>4, <1>10, <3>1, SavedIs
  <2>2. CASE ~kept
    <3>1. Dropped(w, u, o)
      BY <1>9, <2>2
    <3> QED BY Zenon, <1>2, <1>3, <1>4, <1>10, <3>1, DroppedIs
  <2> QED BY <2>1, <2>2
<1>12. Orphan(u, c) /\ u.req = w.req /\ u.kv.obj[c] = w.kv.obj[c]
  BY <1>3, <1>11 DEF Readied, Alike
<1>13. u.kv.obj[c].row = SlotKey(u, r) /\ Agree(u.kv.obj[c].tokens, K[r], n) /\ u.req[r] # None
  BY <1>3, <1>5, <1>12 DEF SlotKey
<1>14. Sound(v, K) /\ Reuses(u, v, r, c, n)
  BY <1>3, <1>8, <1>11, <1>12, <1>13, ReuseKeeps
<1>15. Loaded(w, v, r) /\ Room(v.kv, k) /\ HeldTokens(v, r) = n
  <2>1. /\ Unclaimed(w, copy) /\ Readied(w, u, c, copy) /\ Reuses(u, v, r, c, n)
        /\ w.kv.obj[c] # Unused /\ w.kv.owner[SlotKey(w, r)] = c /\ n \in Nat /\ copy \in Cache
    BY <1>3, <1>4, <1>5, <1>11, <1>14
  <2>2. Loaded(w, v, r) /\ UsesAtMost(w.kv, v.kv, copy) /\ HeldTokens(v, r) = n
    BY <1>1, <2>1, ReadiedReused
  <2>3. Room(v.kv, k)
    BY <2>1, <2>2, RoomTaken
  <2> QED BY <2>2, <2>3
<1> QED BY <1>14, <1>15 DEF n

LEMMA NearLoaded ==
  ASSUME NEW w, NEW u, NEW v, NEW r \in Req, SlotKey(w, r) \in Slot, Near(w, u, r), Loaded(u, v, r)
  PROVE  Loaded(w, v, r)
<1>1. Frame(w, v, r) /\ SlotKey(u, r) = SlotKey(w, r)
  BY SMTT(30), FrameTrans DEF Near, Loaded
<1>2. Saves(w, v)
  BY SavesTrans, NearBound DEF Near, Loaded, Frame
<1>3. u.kv.owner[SlotKey(w, r)] \in {w.kv.owner[SlotKey(w, r)], None}
  BY DEF Near
<1>4. \/ v.kv.owner[SlotKey(w, r)] = w.kv.owner[SlotKey(w, r)]
      \/ v.kv.owner[SlotKey(w, r)] = None
      \/ v.kv.owner[SlotKey(w, r)] = v.req[r].cache
  BY <1>1, <1>3 DEF Loaded
<1> QED BY <1>1, <1>2, <1>4 DEF Loaded

LEMMA NearIsLoaded ==
  ASSUME NEW w, NEW u, NEW r \in Req, Near(w, u, r)
  PROVE  Loaded(w, u, r)
BY DEF Near, Loaded

\* What settling does for a handler of r.
LEMMA SettlesIsNear ==
  ASSUME NEW w, NEW u, NEW r \in Req, w.req[r] # None, Eases(w, u), Settles(w, u, SlotKey(w, r))
  PROVE  Near(w, u, r) /\ UsesNoMore(w.kv, u.kv)
<1>1. /\ u.offload = w.offload /\ u.req = w.req /\ u.active = w.active
      /\ \A o \in Req : Cached(w, o) => u.kv.obj[w.req[o].cache] = w.kv.obj[w.req[o].cache]
      /\ \A s \in Slot \ {SlotKey(w, r)} : u.kv.owner[s] = w.kv.owner[s]
      /\ u.kv.owner[SlotKey(w, r)] \in {w.kv.owner[SlotKey(w, r)], None}
      /\ \A c \in Cache : u.kv.obj[c] # Unused => w.kv.obj[c] # Unused
      /\ \A dump \in u.kv.dumps : dump \in w.kv.dumps \/ (dump.by = "offload" /\ w.offload)
  BY DEF Settles
<1>2. Thins(w.rc, u.rc)
  BY DEF Eases
<1>3. \A o \in Req : Stored(u, o) => Stored(w, o)
  BY <1>2 DEF Thins, Stored
<1>4. Frame(w, u, r)
  BY <1>1, <1>2, <1>3 DEF Frame, Thins
<1>5. Saves(w, u)
  BY <1>1 DEF Saves
<1> QED BY <1>1, <1>4, <1>5 DEF Near, UsesNoMore

\* Who loses a settled slot is a live request's cache, if anyone refers to it.
LEMMA LoserIsBound ==
  ASSUME NEW K, NEW u, Sound(u, K), NEW s \in Slot, Quiet(u, s),
         NEW c, c = u.kv.owner[s], c # None, c \in Referenced(u)
  PROVE  Bound(u, c)
<1>1. u.kv.obj[c].row = s
  BY DEF Sound, Placed
<1>2. ~\E o \in Req : Stored(u, o) /\ u.rc.snapshots[o].cache = c
  BY <1>1 DEF Quiet, HoldsSlot
<1>3. \/ \E o \in Req : Cached(u, o) /\ u.req[o].cache = c
      \/ \E t \in Slot : u.active[t] # None /\ u.active[t].cache = c
  BY <1>2, ReferencedIs
<1> QED BY <1>3 DEF Bound

\* c held r's slot until r's cache was bound to it.
Loser(w, r, R, c) == c = w.kv.owner[SlotKey(w, r)] /\ c \in R /\ c # None /\ c # w.req[r].cache

Ousts(w, v, r, R) == \A dump \in v.kv.dumps : dump \in w.kv.dumps \/ Loser(w, r, R, dump.of)

LEMMA PreparedIs ==
  ASSUME NEW K \in [Req -> Seq(Text)], NEW w, Sound(w, K), NEW r \in Req, Cached(w, r),
         NEW n \in Nat, NEW R, NEW k, Prepares(w, k, r, n, R),
         NEW v, HasCaches(w, v, k)
  PROVE  /\ Sound(v, K) /\ Frame(w, v, r) /\ Ousts(w, v, r, R) /\ UsesNoMore(w.kv, v.kv)
         /\ v.req = w.req /\ v.rc = w.rc /\ v.kv.owner[SlotKey(w, r)] = w.req[r].cache
         /\ HeldTokens(v, r) = Least(n, HeldTokens(w, r))
<1> DEFINE c == w.req[r].cache
           slot == SlotKey(w, r)
<1>1. /\ w \in Workers /\ w.kv \in Kvs /\ Owned(w) /\ Placed(w) /\ Slotted(w)
  BY SMTT(30), WorkerIs DEF Sound
<1>2. c \in Cache /\ w.kv.obj[c] # Unused /\ c # None
  BY SMTT(30), <1>1, CachesInUse DEF Cached
<1>3. w.kv.obj[c].row = slot /\ w.req[r] # None
  BY <1>1 DEF Placed, Cached
<1>4. /\ Sound(v, K) /\ v.kv = k
      /\ v.rc = w.rc /\ v.offload = w.offload /\ v.req = w.req /\ v.active = w.active
  BY PreparesKeeps
<1>5. k = Prepare(w.kv, c, n, R)
  BY DEF Prepares
<1> HIDE DEF c, slot
<1>6. /\ Alike(w.kv, k, c)
      /\ Cut(w.kv.obj[c], k.obj[c], n)
      /\ k.owner[w.kv.obj[c].row] = c
      /\ \A s \in Slot \ {w.kv.obj[c].row} : k.owner[s] = w.kv.owner[s]
  BY <1>1, <1>2, <1>5, PrepareIs
<1>7. \/ k.dumps = w.kv.dumps
      \/ /\ Dumps(w.kv, k, w.kv.owner[w.kv.obj[c].row], "bind")
         /\ w.kv.owner[w.kv.obj[c].row] \in R
         /\ w.kv.owner[w.kv.obj[c].row] # None /\ w.kv.owner[w.kv.obj[c].row] # c
  BY <1>1, <1>2, <1>5, PrepareIs
<1>8. Ousts(w, v, r, R)
  BY <1>3, <1>4, <1>7 DEF Ousts, Loser, Dumps, c, slot
<1>9. Frame(w, v, r)
  <2>1. \A o \in Req \ {r} : Cached(w, o) => v.kv.obj[w.req[o].cache] = w.kv.obj[w.req[o].cache]
    <3>1. \A o \in Req \ {r} : Cached(w, o) => w.req[o].cache \in Cache /\ w.req[o].cache # c
      BY <1>1, CachesInUse DEF Owned, c
    <3> QED BY SMTT(30), <1>4, <1>6, <3>1 DEF Alike
  <2>2. \A s \in Slot \ {SlotKey(w, r)} : v.kv.owner[s] = w.kv.owner[s]
    BY <1>3, <1>4, <1>6 DEF slot
  <2>3. SameSlots(w.rc, v.rc)
    BY <1>4 DEF SameSlots
  <2> QED BY <1>3, <1>4, <2>1, <2>2, <2>3 DEF Frame, Stored
<1>10. UsesNoMore(w.kv, v.kv)
  BY <1>2, <1>4, <1>6 DEF UsesNoMore, Alike
<1>11. HeldTokens(v, r) = Least(n, HeldTokens(w, r))
  <2>1. Len(k.obj[c].tokens) = Least(n, Len(w.kv.obj[c].tokens))
    BY <1>6 DEF Cut
  <2>2. HeldTokens(v, r) = Len(k.obj[c].tokens) /\ HeldTokens(w, r) = Len(w.kv.obj[c].tokens)
    BY <1>2, <1>4 DEF HeldTokens, CacheOf, SeqLength, c
  <2> QED BY <2>1, <2>2
<1>12. v.kv.owner[SlotKey(w, r)] = w.req[r].cache
  BY <1>3, <1>4, <1>6 DEF c, slot
<1> QED BY <1>4, <1>8, <1>9, <1>10, <1>11, <1>12

\* A cache made for r goes to it.
LEMMA GivenIsNear ==
  ASSUME NEW u, u \in Workers, NEW r \in Req, u.req[r] # None, NEW copy \in Cache,
         u.kv.obj[copy] = Unused, Unclaimed(u, copy),
         NEW x, x.rc = u.rc, x.offload = u.offload, x.req = u.req, x.active = u.active,
         x.kv.owner = u.kv.owner, Alike(u.kv, x.kv, copy),
         NEW c, Dumps(u.kv, x.kv, c, "copy"),
         NEW y, GetsCache(x, y, r, copy)
  PROVE  Near(u, y, r) /\ UsesAtMost(u.kv, y.kv, copy)
<1>1. /\ y.kv = x.kv /\ y.rc = x.rc /\ y.active = x.active /\ y.offload = x.offload
      /\ \A o \in Req \ {r} : y.req[o] = x.req[o]
      /\ y.req[r] # None /\ y.req[r].cache = copy
      /\ y.req[r].num = x.req[r].num /\ y.req[r].out = x.req[r].out /\ y.req[r].slot = x.req[r].slot
      /\ y.req[r].blocks = x.req[r].blocks /\ y.req[r].pos = x.req[r].pos
  BY DEF GetsCache
<1>2. \A o \in Req : Cached(u, o) => u.req[o].cache \in Cache /\ u.req[o].cache # copy
  BY WorkerIs DEF Unclaimed
<1>3. \A o \in Req \ {r} : Cached(u, o) => y.kv.obj[u.req[o].cache] = u.kv.obj[u.req[o].cache]
  BY <1>1, <1>2 DEF Alike
<1>4. SameSlots(u.rc, y.rc) /\ y.rc.cap = u.rc.cap
  BY <1>1 DEF SameSlots
<1>5. Frame(u, y, r)
  BY <1>1, <1>3, <1>4 DEF Frame, Stored
<1>6. Saves(u, y)
  BY <1>1 DEF Saves, Dumps
<1>7. copy # None
  BY NoneIs
<1>8. Cached(y, r) /\ \A s \in Slot : y.kv.owner[s] # y.req[r].cache
  BY <1>1, <1>7 DEF Cached, Unclaimed
<1>9. y.kv.owner[SlotKey(u, r)] = u.kv.owner[SlotKey(u, r)]
  BY <1>1
<1>10. UsesAtMost(u.kv, y.kv, copy)
  BY <1>1 DEF UsesAtMost, Alike
<1> QED BY <1>5, <1>6, <1>8, <1>9, <1>10 DEF Near

\* A snapshot elsewhere is copied to r's slot.
LEMMA LoadCopyIs ==
  ASSUME NEW K \in [Req -> Seq(Text)], NEW w, Sound(w, K), NEW r \in Req, w.req[r] # None,
         NEW match, Serves(w, r, match, K),
         ~OnSlot(w, r, match),
         NEW k \in Nat, Spare(w.kv, k), NEW cost,
         NEW v, v = LoadCopy(w, r, match, cost)
  PROVE  Sound(v, K) /\ Loaded(w, v, r) /\ Room(v.kv, k) /\ HeldTokens(v, r) = match.tokens
<1> DEFINE o == match.req
           n == match.tokens
           source == w.rc.snapshots[o].cache
           slot == SlotKey(w, r)
           u == Settle(w, slot, cost)
           copy == FreeCache(u.kv)
           R == Referenced(u)
           a == Relocate(u.kv, source, copy, slot, n)
           x == [u EXCEPT !.kv = a]
           y == [x EXCEPT !.req[r].cache = copy]
           b == Prepare(a, copy, n, R)
<1>1. w \in Workers /\ Slotted(w) /\ Placed(w) /\ slot \in Slot
  BY SlotKeyIs DEF Sound
<1>2. source = w.rc.snapshots[match.req].cache /\ Stored(w, o)
  BY SMTT(30) DEF Serves
<1>3. /\ o \in Req /\ n \in Nat /\ n > 0 /\ source \in Cache /\ w.kv.obj[source] # Unused
      /\ Agree(w.kv.obj[source].tokens, K[r], n)
  BY <1>2, ServesIs
<1>4. u = Settle(w, slot, cost)
  OBVIOUS
<1>5. v = [u EXCEPT !.kv = b, !.req[r].cache = copy]
  BY DEF LoadCopy
<1>6. ~HoldsSlot(w.kv, source, slot)
  BY DEF OnSlot
<1>7. slot = SlotKey(w, r)
  OBVIOUS
<1> HIDE DEF u, slot
<1>8. Eases(w, u) /\ Settles(w, u, slot)
  BY <1>1, <1>4, SettleIs
<1>9. Sound(u, K)
  BY <1>8, EasesKeeps
<1>10. Near(w, u, r) /\ UsesNoMore(w.kv, u.kv)
  BY <1>7, <1>8, SettlesIsNear
<1>11. Spare(u.kv, k)
  BY Zenon, <1>10, RoomKept
<1>12. u.kv.obj[source] = w.kv.obj[source]
  BY Zenon, <1>2, <1>3, <1>6, <1>8 DEF Settles, source
<1>13. u.req = w.req /\ Quiet(u, slot)
  BY <1>8 DEF Settles
<1>14. copy \in Cache /\ copy # None /\ u.kv.obj[copy] = Unused /\ Unclaimed(u, copy)
  BY <1>9, <1>11, FreshIs
<1>15. u \in Workers /\ u.kv \in Kvs /\ u.req[r] # None /\ u.kv.obj[source] # Unused /\ Slotted(u)
  BY Zenon, <1>3, <1>9, <1>12, <1>13, WorkerIs DEF Sound
<1> HIDE DEF source, o, n, copy
<1>16. a = Relocate(u.kv, source, copy, slot, n) /\ b = Prepare(a, copy, n, R)
  OBVIOUS
<1>17. HasCaches(u, x, a) /\ y = [x EXCEPT !.req[r].cache = copy]
  BY DEF HasCaches
<1> HIDE DEF a, x
<1>18. /\ a \in Kvs /\ a.owner = u.kv.owner /\ Dumps(u.kv, a, source, "copy") /\ Alike(u.kv, a, copy)
       /\ a.obj[copy] # Unused /\ a.obj[copy].row = slot
  BY <1>1, <1>3, <1>14, <1>15, <1>16, RelocateIs
<1>19. Agree(u.kv.obj[source].tokens, K[r], n) /\ Len(u.kv.obj[source].tokens) \in Nat
  BY <1>3, <1>12, <1>15, InUseIs
<1>20. Len(a.obj[copy].tokens) = n /\ \A i \in 1 .. n : a.obj[copy].tokens[i] = K[r][i]
  <2>1. /\ Len(a.obj[copy].tokens) = Least(n, Len(u.kv.obj[source].tokens))
        /\ \A i \in 1 .. Len(a.obj[copy].tokens) : a.obj[copy].tokens[i] = u.kv.obj[source].tokens[i]
    <3>1. Shortened(u.kv.obj[source].tokens, a.obj[copy].tokens, n)
      BY <1>1, <1>3, <1>14, <1>15, <1>16, RelocateIs
    <3> QED BY <3>1 DEF Shortened
  <2>2. Least(n, Len(u.kv.obj[source].tokens)) = n
    BY <1>3, <1>19 DEF Least, Agree
  <2> QED BY <2>1, <2>2, <1>19 DEF Agree
<1>21. /\ Sound(x, K) /\ x.kv = a
       /\ x.rc = u.rc /\ x.offload = u.offload /\ x.req = u.req /\ x.active = u.active
  BY <1>9, <1>14, <1>17, <1>18, FreshKeeps
<1>22. /\ x \in Workers /\ x.req[r] # None
  BY <1>15, <1>21 DEF Sound
<1>23. GetsCache(x, y, r, copy)
  BY <1>14, <1>17, <1>22, GetsCacheIs
<1>24. HasCaches(y, v, b)
  <2>1. x = [u EXCEPT !.kv = a]
    BY <1>17 DEF HasCaches
  <2> QED BY <1>5, <1>15, <1>17, <2>1 DEF Workers, HasCaches
<1> HIDE DEF y
<1>25. Sound(y, K)
  <2>1. SlotKey(x, r) = slot
    BY <1>7, <1>13, <1>21 DEF SlotKey
  <2>2. Starts(x.kv.obj[copy].tokens, K[r])
    BY <1>3, <1>19, <1>20, <1>21 DEF Starts, Agree
  <2>3. /\ \A q \in Req \ {r} : Cached(x, q) => x.req[q].cache # copy
        /\ \A q \in Req : Stored(x, q) => x.rc.snapshots[q].cache # copy
    BY <1>14, <1>21 DEF Unclaimed, Cached, Stored
  <2>4. x.kv.obj[copy].row = SlotKey(x, r)
    BY <1>18, <1>21, <2>1
  <2> QED BY <1>14, <1>21, <1>22, <1>23, <2>2, <2>3, <2>4, GetsCacheKeeps
<1>26. Near(u, y, r) /\ UsesAtMost(u.kv, y.kv, copy)
  <2>1. /\ x.kv.owner = u.kv.owner /\ Alike(u.kv, x.kv, copy) /\ Dumps(u.kv, x.kv, source, "copy")
    BY <1>18, <1>21
  <2> QED BY <1>14, <1>15, <1>21, <1>23, <2>1, GivenIsNear
<1>27. Near(w, y, r)
  BY <1>1, <1>7, <1>10, <1>26, NearTrans
<1>28. y.kv = a /\ y.req[r].cache = copy /\ y.req[r] # None
  BY <1>21, <1>23 DEF GetsCache
<1>29. Cached(y, r) /\ Prepares(y, b, r, n, R)
  BY <1>14, <1>16, <1>28 DEF Cached, Prepares
<1> HIDE DEF b, R
<1>30. Sound(v, K) /\ Frame(y, v, r) /\ Ousts(y, v, r, R) /\ UsesNoMore(y.kv, v.kv)
  BY <1>3, <1>24, <1>25, <1>29, PreparedIs
<1>31. v.req = y.req /\ v.kv.owner[SlotKey(y, r)] = y.req[r].cache
  BY SMTT(30), <1>3, <1>24, <1>25, <1>29, PreparedIs
<1>32. HeldTokens(v, r) = Least(n, HeldTokens(y, r))
  BY <1>3, <1>24, <1>25, <1>29, PreparedIs
<1>33. HeldTokens(v, r) = n
  <2>1. HeldTokens(y, r) = n
    BY <1>14, <1>20, <1>28 DEF HeldTokens, CacheOf, SeqLength
  <2> QED BY <1>3, <1>32, <2>1 DEF Least
<1>34. Frame(w, v, r) /\ SlotKey(y, r) = slot
  BY <1>7, <1>27, <1>30, FrameTrans DEF Near
<1>35. Saves(w, v)
  <2> SUFFICES ASSUME NEW dump \in v.kv.dumps, dump \notin y.kv.dumps PROVE Bound(w, dump.of)
    BY <1>27 DEF Near, Saves
  <2>1. Loser(y, r, R, dump.of)
    BY <1>30 DEF Ousts
  <2>2. dump.of = u.kv.owner[slot] /\ dump.of # None /\ dump.of \in Referenced(u)
    BY <1>18, <1>28, <1>34, <2>1 DEF Loser, R
  <2>3. Bound(u, dump.of)
    <3> DEFINE c == dump.of
    <3>1. c = u.kv.owner[slot] /\ c # None /\ c \in Referenced(u)
      BY <2>2
    <3> HIDE DEF c
    <3>2. Bound(u, c)
      BY <1>1, <1>9, <1>13, <3>1, LoserIsBound
    <3> QED BY <3>2 DEF c
  <2> QED BY <1>10, <2>3, NearBound
<1>36. Room(v.kv, k)
  <2>1. Room(y.kv, k)
    BY <1>11, <1>14, <1>26, RoomTaken
  <2> QED BY <1>30, <2>1, RoomKept
<1>37. Cached(v, r) /\ v.kv.owner[SlotKey(w, r)] = v.req[r].cache
  BY <1>7, <1>29, <1>31, <1>34 DEF Cached
<1>38. Loaded(w, v, r)
  BY <1>34, <1>35, <1>37 DEF Loaded
<1> QED BY <1>30, <1>33, <1>36, <1>38 DEF n

\* v is w but for its manager, which is n.
HasManager(w, v, n) == v = [w EXCEPT !.rc = n]

LEMMA ThinnedIs ==
  ASSUME NEW K \in [Req -> Seq(Text)], NEW w, Sound(w, K), NEW r \in Req, w.req[r] # None,
         NEW n, Thins(w.rc, n), NEW u, HasManager(w, u, n)
  PROVE  /\ Sound(u, K) /\ Near(w, u, r)
         /\ u.rc = n /\ u.kv = w.kv /\ u.offload = w.offload /\ u.req = w.req /\ u.active = w.active
<1>1. w \in Workers /\ Placed(w) /\ Slotted(w)
  BY DEF Sound
<1>2. RcOk(n) /\ SameSlots(w.rc, n) /\ n.cap = w.rc.cap /\ n \in Managers(Snapshots, Nat)
  BY RcOkIs DEF Thins
<1>3. /\ u \in Workers
      /\ u.rc = n /\ u.kv = w.kv /\ u.offload = w.offload /\ u.req = w.req /\ u.active = w.active
  BY <1>1, <1>2 DEF Workers, HasManager
<1>4. Sound(u, K)
  <2>1. \A q \in Req : Cached(w, q) => Starts(w.kv.obj[w.req[q].cache].tokens, w.kv.obj[w.req[q].cache].tokens)
    <3>1. \A s : Len(s) \in Nat => Starts(s, s)
      BY SMTT(30) DEF Starts
    <3>2. \A q \in Req : Cached(w, q) => Len(w.kv.obj[w.req[q].cache].tokens) \in Nat
      BY <1>1, CachesInUse
    <3> QED BY <3>1, <3>2
  <2>2. Eases(w, u)
    BY <1>3, <2>1 DEF Eases
  <2> QED BY <2>2, EasesKeeps
<1>5. \A o \in Req : Stored(u, o) => Stored(w, o)
  BY <1>3 DEF Thins, Stored
<1>6. Frame(w, u, r)
  BY <1>2, <1>3, <1>5 DEF Frame
<1>7. Saves(w, u)
  BY <1>3 DEF Saves
<1>8. Near(w, u, r)
  BY <1>3, <1>6, <1>7 DEF Near
<1> QED BY <1>3, <1>4, <1>8

LEMMA RestoreIs ==
  ASSUME NEW K \in [Req -> Seq(Text)], NEW w, Sound(w, K), NEW r \in Req, w.req[r] # None,
         NEW match, Serves(w, r, match, K),
         NEW k \in Nat, Spare(w.kv, k), NEW cost,
         NEW v, v = RestoreSnapshot(w, r, match, cost)
  PROVE  Sound(v, K) /\ Loaded(w, v, r) /\ Room(v.kv, k) /\ HeldTokens(v, r) = match.tokens
<1> DEFINE n == RefreshSnapshotRecency(w.rc, match.req)
           u == [w EXCEPT !.rc = n]
<1>1. w \in Workers /\ Slotted(w) /\ SlotKey(w, r) \in Slot /\ RcOk(w.rc) /\ match.req \in Req
  BY SlotKeyIs DEF Sound, Serves
<1>2. v = IF OnSlot(w, r, match) THEN TakeOver(u, r, match, cost) ELSE LoadCopy(u, r, match, cost)
  BY DEF RestoreSnapshot, OnSlot
<1>3. HasManager(w, u, n) /\ n = RefreshSnapshotRecency(w.rc, match.req)
  BY DEF HasManager
<1> HIDE DEF n, u
<1>4. Thins(w.rc, n) /\ n.snapshots = w.rc.snapshots
  BY <1>1, <1>3, RefreshThins
<1>5. /\ Sound(u, K) /\ Near(w, u, r)
      /\ u.rc = n /\ u.kv = w.kv /\ u.req = w.req
  BY <1>3, <1>4, ThinnedIs
<1>6. Serves(u, r, match, K) /\ u.req[r] # None /\ Spare(u.kv, k)
  BY <1>4, <1>5 DEF Serves, Stored
<1>7. OnSlot(u, r, match) <=> OnSlot(w, r, match)
  BY <1>4, <1>5 DEF SlotKey, OnSlot
<1>8. Sound(v, K) /\ Loaded(u, v, r) /\ Room(v.kv, k) /\ HeldTokens(v, r) = match.tokens
  <2>1. CASE OnSlot(u, r, match)
    <3>1. v = TakeOver(u, r, match, cost)
      BY <1>2, <1>7, <2>1
    <3>2. Sound(u, K) /\ Serves(u, r, match, K) /\ u.req[r] # None /\ Spare(u.kv, k)
      BY <1>5, <1>6
    <3> QED BY <2>1, <3>1, <3>2, TakeOverIs
  <2>2. CASE ~OnSlot(u, r, match)
    <3>1. v = LoadCopy(u, r, match, cost)
      BY <1>2, <1>7, <2>2
    <3>2. Sound(u, K) /\ Serves(u, r, match, K) /\ u.req[r] # None /\ Spare(u.kv, k)
      BY <1>5, <1>6
    <3> QED BY <2>2, <3>1, <3>2, LoadCopyIs
  <2> QED BY <2>1, <2>2
<1>9. Loaded(w, v, r)
  BY <1>1, <1>5, <1>8, NearLoaded
<1> QED BY <1>8, <1>9

LEMMA SameQuery ==
  ASSUME NEW w, NEW u, NEW r \in Req, u.req = w.req
  PROVE  RuntimeCacheRequest(u, r) = RuntimeCacheRequest(w, r)
<1>1. Tokens(u, r) = Tokens(w, r)
  BY DEF Tokens
<1>2. CacheTokenIds(u, r, w.req[r].num) = CacheTokenIds(w, r, w.req[r].num)
  BY <1>1 DEF CacheTokenIds
<1> QED BY <1>2 DEF RuntimeCacheRequest, PrefixOf

\* load.w is w after loading, and its cache of r holds load.start tokens.
Loads(w, load, r, K) ==
  /\ Sound(load.w, K) /\ Loaded(w, load.w, r)
  /\ load.start \in Nat /\ load.start <= w.req[r].num /\ load.start <= HeldTokens(load.w, r)

LEMMA NearLoads ==
  ASSUME NEW K, NEW w, NEW u, NEW r \in Req, SlotKey(w, r) \in Slot, Near(w, u, r), NEW load,
         Loads(u, load, r, K)
  PROVE  Loads(w, load, r, K)
<1>1. Loaded(w, load.w, r)
  BY NearLoaded DEF Loads
<1>2. u.req[r].num = w.req[r].num
  BY DEF Near, Frame
<1> QED BY <1>1, <1>2 DEF Loads

LEMMA QueryOf ==
  ASSUME NEW K \in [Req -> Seq(Text)], NEW w, Sound(w, K), NEW r \in Req, w.req[r] # None,
         NEW q, q = RuntimeCacheRequest(w, r)
  PROVE  /\ IsQuery(q, r) /\ q.num = w.req[r].num /\ q.req = r /\ q.num <= Len(K[r])
         /\ \A i \in 1 .. q.num : q.ids[i] = Masked(K[r][i])
<1>1. w \in Workers /\ Holds(w, K)
  BY DEF Sound
<1>2. w.req[r].num \in Nat /\ w.req[r].num <= Len(K[r])
  BY <1>1, WorkerIs DEF Holds
<1>3. q = PrefixOf(w, r, w.req[r].num, None)
  BY DEF RuntimeCacheRequest
<1> DEFINE n == w.req[r].num
<1>4. n \in Nat /\ n <= Len(K[r]) /\ q = PrefixOf(w, r, n, None)
  BY <1>2, <1>3
<1> HIDE DEF n
<1>5. /\ IsQuery(q, r) /\ q.num = n
      /\ \A i \in 1 .. n : q.ids[i] = Masked(K[r][i])
  <2>1. IsQuery(q, r) /\ q.num = n
    BY <1>1, <1>4, PrefixIs
  <2>2. \A i \in 1 .. n : q.ids[i] = Masked(K[r][i])
    BY SMTT(30), <1>1, <1>4, PrefixIs
  <2> QED BY <2>1, <2>2
<1> QED BY <1>2, <1>5 DEF IsQuery, n

LEMMA SoundTells ==
  ASSUME NEW K \in [Req -> Seq(Text)], NEW w, Sound(w, K)
  PROVE  Tells(w.rc, K) /\ RcOk(w.rc)
BY DEF Sound, Honest, Tells, IsHonest, Stored

\* What fits r's tokens serves r.
LEMMA FitsServes ==
  ASSUME NEW K, NEW w, NEW r, NEW q, q.req = r, q.num = w.req[r].num,
         NEW match, Fits(w.rc, q, match, K)
  PROVE  Serves(w, r, match, K)
BY DEF Fits, Serves, Stored

\* Nothing was found, or what fits r's tokens.
Found(m, q, match, K) == match = NoMatch \/ Fits(m, q, match, K)

LEMMA FoundServes ==
  ASSUME NEW K \in [Req -> Seq(Text)], NEW w, Sound(w, K), NEW r \in Req, w.req[r] # None,
         NEW q, q = RuntimeCacheRequest(w, r), NEW match, Found(w.rc, q, match, K),
         NEW held \in Nat, match.tokens > held
  PROVE  Serves(w, r, match, K)
<1>1. match # NoMatch
  BY NoMatchIs
<1>2. Fits(w.rc, q, match, K)
  BY <1>1 DEF Found
<1>3. q.req = r /\ q.num = w.req[r].num
  BY QueryOf
<1> QED BY <1>2, <1>3, FitsServes

LEMMA RestoreLoads ==
  ASSUME NEW K \in [Req -> Seq(Text)], NEW w, Sound(w, K), NEW r \in Req, w.req[r] # None,
         NEW match, Serves(w, r, match, K), NEW k \in Nat, Spare(w.kv, k), NEW cost,
         NEW load, load = [w |-> RestoreSnapshot(w, r, match, cost), start |-> match.tokens]
  PROVE  Loads(w, load, r, K) /\ Room(load.w.kv, k)
<1> DEFINE v == RestoreSnapshot(w, r, match, cost)
<1>1. v = RestoreSnapshot(w, r, match, cost) /\ load.w = v /\ load.start = match.tokens
  OBVIOUS
<1> HIDE DEF v
<1>2. Sound(v, K) /\ Loaded(w, v, r) /\ Room(v.kv, k) /\ HeldTokens(v, r) = match.tokens
  BY <1>1, RestoreIs
<1>3. match.tokens \in Nat /\ match.tokens <= w.req[r].num
  BY DEF Serves
<1>4. Sound(load.w, K) /\ Loaded(w, load.w, r) /\ Room(load.w.kv, k)
  BY <1>1, <1>2
<1>5. load.start \in Nat /\ load.start <= w.req[r].num /\ HeldTokens(load.w, r) = load.start
  BY <1>1, <1>2, <1>3
<1>6. load.start <= HeldTokens(load.w, r)
  BY <1>5
<1> QED BY <1>4, <1>5, <1>6 DEF Loads

\* The cache the request has already.
LEMMA KeepsLoaded ==
  ASSUME NEW K \in [Req -> Seq(Text)], NEW w, Sound(w, K), NEW r \in Req, w.req[r] # None,
         NEW start \in Nat, start <= w.req[r].num, start <= HeldTokens(w, r),
         NEW load, load = [w |-> w, start |-> start]
  PROVE  Loads(w, load, r, K)
BY NearItself, NearIsLoaded DEF Loads

LEMMA FromSnapshotIs ==
  ASSUME NEW K \in [Req -> Seq(Text)], IsText(K), NEW w, Sound(w, K), NEW r \in Req, w.req[r] # None,
         NEW q, q = RuntimeCacheRequest(w, r), NEW found, Offer(w.rc, q, found),
         NEW onSlot, Found(w.rc, q, onSlot, K), HeldTokens(w, r) < w.req[r].num,
         NEW k \in Nat, Spare(w.kv, k), NEW cost,
         NEW load, load = FromSnapshot(w, r, found, onSlot, cost)
  PROVE  Loads(w, load, r, K) /\ Room(load.w.kv, k)
<1> DEFINE held == HeldTokens(w, r)
           takes == onSlot.tokens > held /\ ShouldTakeOver(onSlot.tokens)
           verify == VerifyPromptEmbedMatch(w.rc, q, found)
           loads(match) == /\ match.tokens > held
                           /\ ~(takes /\ onSlot.tokens >= match.tokens)
                           /\ ShouldLoad(cost, match.tokens)
<1>1. held \in Nat /\ w.req[r].num \in Nat
  BY HeldIs
<1>2. IsQuery(q, r) /\ q.num <= Len(K[r]) /\ \A i \in 1 .. q.num : q.ids[i] = Masked(K[r][i])
  BY QueryOf
<1>3. Found(w.rc, q, verify, K)
  <2>1. Tells(w.rc, K) /\ RcOk(w.rc)
    BY SoundTells
  <2>2. verify = VerifyPromptEmbedMatch(w.rc, q, found)
    OBVIOUS
  <2> HIDE DEF verify
  <2>3. verify = NoMatch \/ Fits(w.rc, q, verify, K)
    BY <1>2, <2>1, <2>2, VerifiedIs
  <2> QED BY <2>3 DEF Found
<1>4. load = IF loads(found) /\ loads(verify)
             THEN [w |-> RestoreSnapshot(w, r, verify, cost), start |-> verify.tokens]
             ELSE IF takes
             THEN [w |-> RestoreSnapshot(w, r, onSlot, cost), start |-> onSlot.tokens]
             ELSE [w |-> w, start |-> held]
  BY DEF FromSnapshot
<1> HIDE DEF verify
<1>5. CASE loads(found) /\ loads(verify)
  <2>1. load = [w |-> RestoreSnapshot(w, r, verify, cost), start |-> verify.tokens]
    BY <1>4, <1>5
  <2>2. verify.tokens > held
    BY <1>5
  <2> HIDE DEF held
  <2>3. Serves(w, r, verify, K)
    BY <1>1, <1>3, <2>2, FoundServes
  <2> QED BY <2>1, <2>3, RestoreLoads
<1>6. CASE ~(loads(found) /\ loads(verify)) /\ takes
  <2>1. load = [w |-> RestoreSnapshot(w, r, onSlot, cost), start |-> onSlot.tokens]
    BY <1>4, <1>6
  <2>2. onSlot.tokens > held
    BY <1>6
  <2> HIDE DEF held
  <2>3. Serves(w, r, onSlot, K)
    BY <1>1, <2>2, FoundServes
  <2> QED BY <2>1, <2>3, RestoreLoads
<1>7. CASE ~(loads(found) /\ loads(verify)) /\ ~takes
  <2>1. load = [w |-> w, start |-> held]
    BY <1>4, <1>7
  <2>2. held <= w.req[r].num /\ held <= HeldTokens(w, r)
    BY <1>1
  <2> HIDE DEF held
  <2>3. Loads(w, load, r, K)
    BY <1>1, <2>1, <2>2, KeepsLoaded
  <2>4. Room(w.kv, k)
    BY RoomKept DEF UsesNoMore
  <2> QED BY <2>1, <2>3, <2>4
<1> QED BY <1>5, <1>6, <1>7

\* What is found on r's slot fits still once the stale snapshots are dropped.
LEMMA ResidentFits ==
  ASSUME NEW K, IsText(K), NEW m, RcOk(m), Tells(m, K), NEW r \in Req, NEW q, IsQuery(q, r),
         q.num <= Len(K[r]), \A i \in 1 .. q.num : q.ids[i] = Masked(K[r][i]),
         NEW C \in SUBSET Req, NEW n, n = DropStale(m, q, C),
         NEW match \in PrefixMatches(m, q, C), NEW onSlot, onSlot = VerifyPromptEmbedMatch(m, q, match)
  PROVE  Found(n, q, onSlot, K)
<1>1. Offer(m, q, match) /\ (match = NoMatch \/ (match.req \in Listed(m, C) /\ match.req \notin StaleSnapshots(m, q, C)))
  BY MatchesAre
<1>2. Thins(m, n) /\ Tells(n, K) /\ \A o \in Req : o \notin StaleSnapshots(m, q, C) => n.snapshots[o] = m.snapshots[o]
  BY DropStaleIs
<1>3. match # NoMatch => n.snapshots[match.req] = m.snapshots[match.req] /\ match.req \in Req
  <2> SUFFICES ASSUME match # NoMatch
               PROVE  n.snapshots[match.req] = m.snapshots[match.req] /\ match.req \in Req
    OBVIOUS
  <2>1. match.req \in Req
    BY <1>1 DEF Offer
  <2> QED BY <1>1, <1>2, <2>1
<1>4. Offer(n, q, match)
  BY <1>1, <1>3 DEF Offer
<1>5. onSlot = VerifyPromptEmbedMatch(n, q, match)
  <2>1. CASE match = NoMatch
    BY <2>1, NoMatchIs DEF VerifyPromptEmbedMatch
  <2>2. CASE match # NoMatch
    BY <1>3, <2>2 DEF VerifyPromptEmbedMatch
  <2> QED BY <2>1, <2>2
<1>6. RcOk(n)
  BY <1>2 DEF Thins
<1>7. onSlot = NoMatch \/ Fits(n, q, onSlot, K)
  BY <1>2, <1>4, <1>5, <1>6, VerifiedIs
<1> QED BY <1>7 DEF Found

LEMMA LoadRequestPrefixIs ==
  ASSUME NEW K \in [Req -> Seq(Text)], IsText(K), NEW w, Sound(w, K), NEW r \in Req, w.req[r] # None,
         NEW k \in Nat, SpareTwo(w.kv, k), NEW cost, NEW load \in LoadRequestPrefix(w, r, cost)
  PROVE  Loads(w, load, r, K) /\ Room(load.w.kv, k)
<1> DEFINE u == WithRequestCache(w, r)
           q == RuntimeCacheRequest(u, r)
           n1 == ObserveRequestBlocks(u.rc, r, q.blocks)
           seen == [u EXCEPT !.rc = n1]
           n2 == AfterChoose(n1, q)
           searched == [seen EXCEPT !.rc = n2]
           resident == ResidentSnapshots(searched, {SlotKey(u, r)})
           n3 == DropStale(n2, RuntimeCacheRequest(searched, r), resident)
           left == [searched EXCEPT !.rc = n3]
           l == k + 1
<1>0. SlotKey(w, r) \in Slot
  BY SlotKeyIs DEF Sound
<1>1. l \in Nat /\ Spare(w.kv, l)
  <2>1. l \in Nat /\ l + 1 = k + 2
    OBVIOUS
  <2> QED BY <2>1 DEF Spare, SpareTwo
<1>2. u = WithRequestCache(w, r) /\ q = RuntimeCacheRequest(u, r)
  OBVIOUS
<1>3. \/ /\ q.num <= 0 /\ load = [w |-> u, start |-> 0]
      \/ /\ ~(q.num <= 0) /\ HeldTokens(u, r) >= q.num /\ load = [w |-> seen, start |-> q.num]
      \/ /\ ~(q.num <= 0) /\ ~(HeldTokens(u, r) >= q.num)
         /\ \E found \in ChooseSnapshot(seen.rc, q), onSlot \in MatchResident(searched, r, resident) :
              load = FromSnapshot(left, r, found, onSlot, cost)
  <2> DEFINE seen1 == [u EXCEPT !.rc = ObserveRequestBlocks(@, r, q.blocks)]
             searched1 == [seen1 EXCEPT !.rc = AfterChoose(@, q)]
             resident1 == ResidentSnapshots(searched1, {SlotKey(u, r)})
             left1 == DropStaleResident(searched1, r, resident1)
             loads == UNION {{FromSnapshot(left1, r, found, onSlot, cost) :
                                onSlot \in MatchResident(searched1, r, resident1)} :
                               found \in ChooseSnapshot(seen1.rc, q)}
  <2>1. /\ q.num <= 0 => load \in {[w |-> u, start |-> 0]}
        /\ ~(q.num <= 0) /\ HeldTokens(u, r) >= q.num => load \in {[w |-> seen1, start |-> q.num]}
        /\ ~(q.num <= 0) /\ ~(HeldTokens(u, r) >= q.num) => load \in loads
    BY DEF LoadRequestPrefix
  <2>2. seen1 = seen
    OBVIOUS
  <2>3. searched1 = searched
    BY <2>2
  <2>4. resident1 = resident
    BY <2>3
  <2>5. left1 = left
    BY <2>3, <2>4 DEF DropStaleResident
  <2> HIDE DEF u, q, seen, searched, resident, left, seen1, searched1, resident1, left1
  <2>6. load \in loads =>
          \E found \in ChooseSnapshot(seen.rc, q), onSlot \in MatchResident(searched, r, resident) :
            load = FromSnapshot(left, r, found, onSlot, cost)
    BY <2>2, <2>3, <2>4, <2>5
  <2> QED BY <2>1, <2>2, <2>6
<1> HIDE DEF u, q, l
<1>4. Sound(u, K) /\ Near(w, u, r) /\ Cached(u, r) /\ Room(u.kv, l)
  BY <1>1, <1>2, WithRequestCacheIs
<1>5. Spare(u.kv, k) /\ Room(u.kv, k)
  <2>1. Spare(u.kv, k)
    BY <1>4 DEF Spare, l
  <2> QED BY <2>1, RoomKept DEF UsesNoMore
<1>6. u.req[r] # None /\ w.req[r] # None /\ u \in Workers
  BY <1>4 DEF Cached, Sound
<1>7. IsQuery(q, r) /\ q.num = u.req[r].num /\ q.num <= Len(K[r]) /\ \A i \in 1 .. q.num : q.ids[i] = Masked(K[r][i])
  BY <1>2, <1>4, <1>6, QueryOf
<1>8. HeldTokens(u, r) \in Nat /\ u.req[r].num \in Nat
  BY <1>4, <1>6, HeldIs
<1>9. RcOk(u.rc) /\ Tells(u.rc, K)
  BY <1>4, SoundTells
<1>10. /\ n1 = ObserveRequestBlocks(u.rc, r, q.blocks) /\ HasManager(u, seen, n1)
       /\ n2 = AfterChoose(n1, q) /\ HasManager(seen, searched, n2) /\ HasManager(searched, left, n3)
  BY DEF HasManager
<1> HIDE DEF n1, seen, n2, searched
<1>11. Thins(u.rc, n1) /\ RcOk(n1)
  <2>1. Thins(u.rc, n1)
    BY <1>9, <1>10, ObserveThins
  <2> QED BY <2>1 DEF Thins
<1>12. /\ Sound(seen, K) /\ Near(u, seen, r)
       /\ seen.rc = n1 /\ seen.kv = u.kv /\ seen.req = u.req
  BY <1>4, <1>6, <1>10, <1>11, ThinnedIs
<1>13. CASE q.num <= 0 /\ load = [w |-> u, start |-> 0]
  <2>1. 0 \in Nat /\ 0 <= u.req[r].num /\ 0 <= HeldTokens(u, r)
    BY <1>8
  <2>2. load = [w |-> u, start |-> 0]
    BY <1>13
  <2>3. Loads(u, load, r, K)
    BY <1>4, <1>6, <2>1, <2>2, KeepsLoaded
  <2>4. load.w = u
    BY <2>2
  <2> QED BY <1>0, <1>4, <1>5, <2>3, <2>4, NearLoads
<1>14. CASE HeldTokens(u, r) >= q.num /\ load = [w |-> seen, start |-> q.num]
  <2> DEFINE start == q.num
  <2>1. HeldTokens(seen, r) = HeldTokens(u, r)
    BY <1>12 DEF HeldTokens, CacheOf
  <2>2. start \in Nat /\ start <= seen.req[r].num /\ start <= HeldTokens(seen, r)
    BY <1>7, <1>8, <1>12, <1>14, <2>1
  <2>3. load = [w |-> seen, start |-> start]
    BY <1>14
  <2>4. load.w = seen /\ seen.req[r] # None
    BY <1>6, <1>12, <2>3
  <2> HIDE DEF start
  <2>5. Loads(seen, load, r, K)
    BY <1>12, <2>2, <2>3, <2>4, KeepsLoaded
  <2>6. Near(w, seen, r)
    BY <1>0, <1>4, <1>12, NearTrans
  <2> QED BY <1>0, <1>5, <1>12, <2>4, <2>5, <2>6, NearLoads
<1>15. ASSUME ~(HeldTokens(u, r) >= q.num),
              NEW found \in ChooseSnapshot(seen.rc, q), NEW onSlot \in MatchResident(searched, r, resident),
              load = FromSnapshot(left, r, found, onSlot, cost)
       PROVE  Loads(w, load, r, K) /\ Room(load.w.kv, k)
  <2>1. searched.req = seen.req
    BY <1>10, <1>12 DEF HasManager, Sound, Workers
  <2>2. RuntimeCacheRequest(searched, r) = q
    BY <1>2, <1>12, <2>1, SameQuery
  <2>3. n3 = DropStale(n2, q, resident)
    BY <2>2
  <2>4. resident \in SUBSET Req
    BY DEF ResidentSnapshots
  <2> HIDE DEF n3, resident, left
  <2>5. found \in ChooseSnapshot(n1, q)
    BY <1>12
  <2>6. Tells(n1, K)
    BY <1>9, <1>11, ThinsTells
  <2>7. /\ Thins(n1, n2) /\ Tells(n2, K) /\ Thins(n2, n3) /\ Tells(n3, K) /\ Offer(n3, q, found)
    BY <1>7, <1>10, <1>11, <2>3, <2>5, <2>6, ChosenIs
  <2>8. /\ Sound(searched, K) /\ Near(seen, searched, r)
        /\ searched.rc = n2 /\ searched.kv = seen.kv /\ searched.req = seen.req
    <3>1. Thins(seen.rc, n2) /\ seen.req[r] # None
      BY <1>6, <1>12, <2>7
    <3> QED BY <1>10, <1>12, <3>1, ThinnedIs
  <2>9. /\ Sound(left, K) /\ Near(searched, left, r)
        /\ left.rc = n3 /\ left.kv = searched.kv /\ left.req = searched.req
    <3>1. Thins(searched.rc, n3) /\ searched.req[r] # None
      BY <1>6, <1>12, <2>7, <2>8
    <3> QED BY <1>10, <2>8, <3>1, ThinnedIs
  <2>10. PICK match \in PrefixMatches(n2, q, resident) : onSlot = VerifyPromptEmbedMatch(n2, q, match)
    BY <2>2, <2>8 DEF MatchResident
  <2>11. RcOk(n2)
    BY <2>7 DEF Thins
  <2>12. Found(n3, q, onSlot, K)
    BY <1>7, <2>3, <2>4, <2>7, <2>10, <2>11, ResidentFits
  <2>13. left.req = u.req /\ left.kv = u.kv
    BY <1>12, <2>8, <2>9
  <2>14. q = RuntimeCacheRequest(left, r)
    BY <1>2, <2>13, SameQuery
  <2>15. HeldTokens(left, r) < left.req[r].num
    <3>1. HeldTokens(left, r) = HeldTokens(u, r)
      BY <2>13 DEF HeldTokens, CacheOf
    <3> QED BY <1>7, <1>8, <1>15, <2>13, <3>1
  <2>16. Offer(left.rc, q, found) /\ Found(left.rc, q, onSlot, K) /\ left.req[r] # None /\ Spare(left.kv, k)
    BY <1>5, <1>6, <2>7, <2>9, <2>12, <2>13
  <2>17. Loads(left, load, r, K) /\ Room(load.w.kv, k)
    BY <1>15, <2>9, <2>14, <2>15, <2>16, FromSnapshotIs
  <2>18. Near(w, seen, r)
    BY <1>0, <1>4, <1>12, NearTrans
  <2>19. Near(w, searched, r)
    BY <1>0, <2>8, <2>18, NearTrans
  <2>20. Near(w, left, r)
    BY <1>0, <2>9, <2>19, NearTrans
  <2> QED BY <1>0, <2>17, <2>20, NearLoads
<1> QED BY <1>3, <1>13, <1>14, <1>15

-----------------------------------------------------------------------------
(* A request is started.                                                   *)

\* What runs on a slot is the cache of a live request that has the slot.
Acting(v) ==
  \A s \in Slot : v.active[s] # None =>
    /\ v.req[v.active[s].req] # None /\ v.req[v.active[s].req].cache = v.active[s].cache
    /\ SlotKey(v, v.active[s].req) = s

SpareThree(kv, n) == Room(kv, n + 3)

LEMMA LoadSnapshotIfNeededIs ==
  ASSUME NEW K \in [Req -> Seq(Text)], IsText(K), NEW w, Sound(w, K), Acting(w),
         NEW r \in Req, w.req[r] # None, NEW k \in Nat, SpareThree(w.kv, k), NEW cost,
         NEW load \in LoadSnapshotIfNeeded(w, r, cost)
  PROVE  Loads(w, load, r, K) /\ Room(load.w.kv, k)
<1> DEFINE previous == w.active[SlotKey(w, r)]
           switched == IF previous # None /\ previous.req # r
                       THEN SnapshotSwitchedOut(w, previous.req) ELSE w
           l == k + 2
<1>1. load \in IF RecomputesPromptLogprobs(w, r) THEN {[w |-> switched, start |-> 0]}
               ELSE LoadRequestPrefix(switched, r, cost)
  BY DEF LoadSnapshotIfNeeded
<1>2. l \in Nat /\ Spare(w.kv, l) /\ (\A kv : Room(kv, l) => SpareTwo(kv, k))
  <2>1. l \in Nat /\ l + 1 = k + 3
    OBVIOUS
  <2>2. Spare(w.kv, l)
    BY <2>1 DEF Spare, SpareThree
  <2>3. \A kv : Room(kv, l) => SpareTwo(kv, k)
    BY DEF SpareTwo
  <2> QED BY <2>1, <2>2, <2>3
<1>3. SlotKey(w, r) \in Slot /\ w \in Workers
  BY SlotKeyIs DEF Sound
<1> HIDE DEF l
<1>4. Sound(switched, K) /\ Near(w, switched, r) /\ SpareTwo(switched.kv, k)
  <2>1. CASE previous # None /\ previous.req # r
    <3> DEFINE o == previous.req
    <3>1. /\ o \in Req /\ w.req[o] # None /\ previous.cache = w.req[o].cache
          /\ SlotKey(w, o) = SlotKey(w, r)
      BY <1>3, <2>1, WorkerIs DEF Acting
    <3>2. ~Batch
      BY <1>3, <2>1, <3>1, SlotKeysDiffer DEF Sound
    <3>3. switched = SnapshotSwitchedOut(w, o)
      BY <2>1
    <3>4. w.active[SlotKey(w, r)] # None /\ w.active[SlotKey(w, r)].cache = w.req[o].cache
      BY <2>1, <3>1
    <3> HIDE DEF o, previous, switched
    <3>5. Sound(switched, K) /\ Near(w, switched, r) /\ Room(switched.kv, l)
      BY <1>2, <1>3, <3>1, <3>2, <3>3, <3>4, SwitchedOutIs
    <3> QED BY <1>2, <3>5
  <2>2. CASE ~(previous # None /\ previous.req # r)
    <3>1. switched = w
      BY <2>2
    <3>2. Room(w.kv, l)
      BY <1>2, RoomKept DEF UsesNoMore
    <3> HIDE DEF switched
    <3> QED BY <1>2, <3>1, <3>2, NearItself
  <2> QED BY <2>1, <2>2
<1> HIDE DEF switched, previous
<1>5. switched.req[r] # None
  BY <1>4 DEF Near, Frame
<1>6. CASE load = [w |-> switched, start |-> 0]
  <2>1. HeldTokens(switched, r) \in Nat /\ switched.req[r].num \in Nat
    BY <1>4, <1>5, HeldIs
  <2>2. 0 \in Nat /\ 0 <= switched.req[r].num /\ 0 <= HeldTokens(switched, r)
    BY <2>1
  <2>3. Loads(switched, load, r, K)
    BY <1>4, <1>5, <1>6, <2>2, KeepsLoaded
  <2>4. Loads(w, load, r, K)
    BY <1>3, <1>4, <2>3, NearLoads
  <2>5. load.w = switched
    BY <1>6
  <2>6. SpareTwo(switched.kv, k) => Room(switched.kv, k)
    BY UsedIs DEF SpareTwo, Room
  <2> QED BY <1>4, <2>4, <2>5, <2>6
<1>7. CASE load \in LoadRequestPrefix(switched, r, cost)
  <2>1. Loads(switched, load, r, K) /\ Room(load.w.kv, k)
    BY <1>4, <1>5, <1>7, LoadRequestPrefixIs
  <2> QED BY <1>3, <1>4, <2>1, NearLoads
<1> QED BY <1>1, <1>6, <1>7

\* A slot on which a cache runs holds no other's KV.
OwnerOk(v) == \A s \in Slot : v.active[s] # None => v.kv.owner[s] \in {None, v.active[s].cache}

\* The slot of r changes hands when r starts.
Changes(w, r) == w.active[SlotKey(w, r)] = None \/ w.active[SlotKey(w, r)].cache # CacheOf(w, r)

\* u is w, with the slot of r settled if it changes hands.
Readies(w, u, r, cost) == u = IF Changes(w, r) THEN Settle(w, SlotKey(w, r), cost) ELSE w

\* Nothing but offloads is saved.
Offloading(w, u) == \A dump \in u.kv.dumps : dump \in w.kv.dumps \/ (dump.by = "offload" /\ w.offload)

\* No snapshot has the slot.
Vacant(v, slot) == \A o \in Req : Stored(v, o) => v.kv.owner[slot] # v.rc.snapshots[o].cache

LEMMA ReadiesIs ==
  ASSUME NEW K \in [Req -> Seq(Text)], NEW w, Sound(w, K), NEW r \in Req, w.req[r] # None,
         NEW cost, NEW u, Readies(w, u, r, cost)
  PROVE  /\ Sound(u, K) /\ Near(w, u, r) /\ UsesNoMore(w.kv, u.kv) /\ Offloading(w, u)
         /\ u.req = w.req /\ u.active = w.active /\ HeldTokens(u, r) = HeldTokens(w, r)
         /\ Changes(w, r) => Vacant(u, SlotKey(w, r))
         /\ ~Changes(w, r) => u = w
<1>1. SlotKey(w, r) \in Slot /\ w \in Workers
  BY SlotKeyIs DEF Sound
<1>2. CASE ~Changes(w, r)
  <2>1. u = w
    BY <1>2 DEF Readies
  <2>2. Near(w, w, r)
    BY NearItself
  <2> QED BY <1>2, <2>1, <2>2 DEF UsesNoMore, Offloading
<1>3. CASE Changes(w, r)
  <2> DEFINE slot == SlotKey(w, r)
  <2>1. slot \in Slot /\ slot = SlotKey(w, r) /\ u = Settle(w, slot, cost)
    BY <1>1, <1>3 DEF Readies
  <2> HIDE DEF slot
  <2>2. Eases(w, u) /\ Settles(w, u, slot)
    BY <2>1, SettleIs
  <2>3. Eases(w, u) /\ Settles(w, u, SlotKey(w, r))
    BY <2>1, <2>2
  <2>4. Near(w, u, r) /\ UsesNoMore(w.kv, u.kv)
    BY <2>3, SettlesIsNear
  <2>5. Sound(u, K)
    BY <2>2, EasesKeeps
  <2>6. Offloading(w, u) /\ u.req = w.req /\ u.active = w.active
    BY <2>2 DEF Offloading, Settles
  <2>7. HeldTokens(u, r) = HeldTokens(w, r)
    <3>1. CASE w.req[r].cache = None
      BY <2>6, <3>1 DEF HeldTokens, CacheOf
    <3>2. CASE w.req[r].cache # None
      <4>1. u.kv.obj[w.req[r].cache] = w.kv.obj[w.req[r].cache]
        BY <2>2, <3>2 DEF Settles, Cached
      <4> QED BY <2>6, <3>2, <4>1 DEF HeldTokens, CacheOf, SeqLength
    <3> QED BY <3>1, <3>2
  <2>8. Vacant(u, slot)
    <3> SUFFICES ASSUME NEW o \in Req, Stored(u, o), u.kv.owner[slot] = u.rc.snapshots[o].cache
                 PROVE  FALSE
      BY SMTT(30) DEF Vacant
    <3>1. ~HoldsSlot(u.kv, u.rc.snapshots[o].cache, slot)
      BY <2>2 DEF Settles, Quiet
    <3>2. u.rc.snapshots[o].cache # None
      BY <2>5, NoneIs, WorkerIs DEF Sound
    <3>3. u.kv.obj[u.kv.owner[slot]].row = slot
      BY Zenon, <2>1, <2>5, <3>2 DEF Sound, Placed
    <3> QED BY <3>1, <3>3 DEF HoldsSlot
  <2> QED BY <1>3, <2>1, <2>4, <2>5, <2>6, <2>7, <2>8
<1> QED BY <1>2, <1>3

\* The slot is r's now, and so is what runs on it.
Activates(w, v, r, slot) == v = [w EXCEPT !.active[slot] = [req |-> r, cache |-> w.req[r].cache]]

\* What it leaves as it was.
Activated(w, v, r, slot) ==
  /\ v.rc = w.rc /\ v.kv = w.kv /\ v.req = w.req /\ v.offload = w.offload
  /\ v.active[slot] = [req |-> r, cache |-> w.req[r].cache]
  /\ \A s \in Slot \ {slot} : v.active[s] = w.active[s]

LEMMA ActivatesIs ==
  ASSUME NEW K \in [Req -> Seq(Text)], NEW w, Sound(w, K), NEW r \in Req, Cached(w, r),
         NEW slot \in Slot, NEW v, Activates(w, v, r, slot)
  PROVE  Sound(v, K) /\ Activated(w, v, r, slot)
<1>1. w \in Workers /\ w.req[r].cache \in Cache
  BY WorkerIs DEF Sound
<1> DEFINE x == [req |-> r, cache |-> w.req[r].cache]
           a == [w.active EXCEPT ![slot] = x]
<1>2. x \in Actives
  BY <1>1 DEF Actives
<1>3. w.active \in [Slot -> Actives \cup {None}]
  BY <1>1 DEF Workers
<1> HIDE DEF x
<1>4. a \in [Slot -> Actives \cup {None}] /\ a[slot] = x /\ \A s \in Slot \ {slot} : a[s] = w.active[s]
  BY <1>2, <1>3
<1>5. v = [w EXCEPT !.active = a]
  BY <1>1 DEF Activates, Workers, x
<1> HIDE DEF a
<1>6. v \in Workers /\ v.rc = w.rc /\ v.kv = w.kv /\ v.req = w.req /\ v.offload = w.offload /\ v.active = a
  BY <1>1, <1>4, <1>5 DEF Workers
<1>7. Eases(w, v)
  <2>1. Thins(w.rc, v.rc)
    BY <1>6, ThinsItself DEF Sound
  <2>2. \A q \in Req : Cached(w, q) => Starts(v.kv.obj[w.req[q].cache].tokens, w.kv.obj[w.req[q].cache].tokens)
    <3>1. \A q \in Req : Cached(w, q) => Len(w.kv.obj[w.req[q].cache].tokens) \in Nat
      BY <1>1, CachesInUse DEF Sound
    <3> QED BY SMTT(30), <1>6, <3>1 DEF Starts
  <2> QED BY <1>6, <2>1, <2>2 DEF Eases
<1>8. Sound(v, K)
  BY <1>7, EasesKeeps
<1> QED BY <1>4, <1>6, <1>8 DEF x, Activated

\* v is w once r runs on its slot, from n tokens.
Runs(w, v, r, n) ==
  /\ v.offload = w.offload /\ SameSlots(w.rc, v.rc) /\ v.rc.cap = w.rc.cap
  /\ \A o \in Req \ {r} : v.req[o] = w.req[o]
  /\ w.req[r] # None /\ Cached(v, r)
  /\ v.req[r].num = w.req[r].num /\ v.req[r].out = w.req[r].out /\ v.req[r].slot = w.req[r].slot
  /\ v.req[r].blocks = w.req[r].blocks /\ v.req[r].pos = w.req[r].pos
  /\ \A o \in Req \ {r} : Cached(w, o) => v.kv.obj[w.req[o].cache] = w.kv.obj[w.req[o].cache]
  /\ \A s \in Slot \ {SlotKey(w, r)} : v.kv.owner[s] = w.kv.owner[s] /\ v.active[s] = w.active[s]
  /\ v.active[SlotKey(w, r)] = [req |-> r, cache |-> v.req[r].cache]
  /\ v.kv.owner[SlotKey(w, r)] = v.req[r].cache
  /\ \A o \in Req : Stored(v, o) => Stored(w, o) \/ w.req[o] # None
  /\ HeldTokens(v, r) = n

\* d is b but for what runs on r's slot, now r.
RunsOn(w, b, d, r) ==
  /\ d.rc = b.rc /\ d.kv = b.kv /\ d.req = b.req
  /\ \A s \in Slot \ {SlotKey(w, r)} : d.active[s] = b.active[s]
  /\ d.active[SlotKey(w, r)] = [req |-> r, cache |-> b.req[r].cache]

\* b is a once r has a cache.
Provides(a, b, r) ==
  /\ b.rc = a.rc /\ b.kv.owner = a.kv.owner /\ Near(a, b, r)
  /\ b = a \/ a.req[r].cache = None

\* Who loses the slot to r, if the code saves it, is a live request's cache.
LEMMA LoserWasBound ==
  ASSUME NEW K \in [Req -> Seq(Text)], NEW w, Sound(w, K), Acting(w), OwnerOk(w), NEW r \in Req, w.req[r] # None,
         NEW u, Sound(u, K), Loaded(w, u, r), NEW cost, NEW a, Readies(u, a, r, cost),
         NEW b, Provides(a, b, r), NEW d, RunsOn(w, b, d, r), NEW R, R = Referenced(d),
         NEW c, Loser(d, r, R, c)
  PROVE  Bound(w, c)
<1> USE DEF Provides, RunsOn
<1> DEFINE slot == SlotKey(w, r)
<1>0. w \in Workers /\ slot \in Slot
  BY SlotKeyIs DEF Sound
<1>1. /\ Frame(w, u, r) /\ SlotKey(u, r) = slot /\ u.req[r] # None
      /\ u.kv.owner[slot] = w.kv.owner[slot] \/ u.kv.owner[slot] = None \/ u.kv.owner[slot] = u.req[r].cache
  BY Zenon DEF Loaded, Frame, SlotKey
<1>2. /\ Near(u, a, r) /\ a.req = u.req /\ a.active = u.active
      /\ Changes(u, r) => Vacant(a, SlotKey(u, r))
      /\ ~Changes(u, r) => a = u
  <2>0. Sound(u, K) /\ u.req[r] # None /\ Readies(u, a, r, cost)
    BY <1>1
  <2>1. Near(u, a, r)
    BY <2>0, ReadiesIs
  <2>2. a.req = u.req
    BY <2>0, ReadiesIs
  <2>3. a.active = u.active
    BY <2>0, ReadiesIs
  <2>4. Changes(u, r) => Vacant(a, SlotKey(u, r))
    BY <2>0, ReadiesIs
  <2>5. ~Changes(u, r) => a = u
    BY <2>0, ReadiesIs
  <2> QED BY <2>1, <2>2, <2>3, <2>4, <2>5
<1>3. Frame(u, a, r) /\ a.kv.owner[slot] \in {u.kv.owner[slot], None}
  BY <1>1, <1>2 DEF Near
<1>4. Frame(a, b, r)
  BY DEF Near
<1>5. d.req[r] = b.req[r] /\ SlotKey(d, r) = slot
  BY Zenon, <1>1, <1>2, <1>4 DEF Frame, SlotKey
<1>6. c = a.kv.owner[slot] /\ c # None /\ c # b.req[r].cache /\ c \in Referenced(d)
  BY <1>5 DEF Loser
<1>7. c # u.req[r].cache
  BY <1>2, <1>6
<1>8. c = w.kv.owner[slot]
  BY <1>1, <1>3, <1>6, <1>7
<1>9. u.active = w.active /\ b.active = a.active
  BY <1>1, <1>4 DEF Frame
<1>10. CASE ~Changes(u, r)
  <2>1. w.active[slot] # None /\ w.active[slot].cache = u.req[r].cache
    BY <1>1, <1>9, <1>10 DEF Changes, CacheOf
  <2>2. w.kv.owner[slot] \in {None, w.active[slot].cache}
    BY <1>0, <2>1 DEF OwnerOk
  <2> QED BY <1>6, <1>7, <1>8, <2>1, <2>2
<1>11. CASE Changes(u, r)
  <2>1. Vacant(a, slot)
    BY <1>1, <1>2, <1>11
  <2>2. \/ \E o \in Req : Cached(d, o) /\ d.req[o].cache = c
        \/ \E o \in Req : Stored(d, o) /\ d.rc.snapshots[o].cache = c
        \/ \E s \in Slot : d.active[s] # None /\ d.active[s].cache = c
    BY SMTT(30), <1>6, ReferencedIs
  <2>3. CASE \E o \in Req : Cached(d, o) /\ d.req[o].cache = c
    <3>1. PICK o \in Req : Cached(d, o) /\ d.req[o].cache = c
      BY <2>3
    <3>2. o # r
      BY SMTT(30), <1>6, <3>1
    <3>3. w.req[o] = d.req[o]
      BY <1>1, <1>2, <1>4, <3>2 DEF Frame
    <3>4. Cached(w, o) /\ w.req[o].cache = c /\ w.kv.owner[slot] = c
      BY <1>8, <3>1, <3>3 DEF Cached
    <3> QED BY <1>0, <3>4 DEF Bound
  <2>4. CASE \E o \in Req : Stored(d, o) /\ d.rc.snapshots[o].cache = c
    <3>1. PICK o \in Req : Stored(a, o) /\ a.rc.snapshots[o].cache = c
      BY <2>4 DEF Stored
    <3> QED BY <1>6, <2>1, <3>1 DEF Vacant
  <2>5. CASE \E s \in Slot : d.active[s] # None /\ d.active[s].cache = c
    <3>1. PICK s \in Slot : d.active[s] # None /\ d.active[s].cache = c
      BY <2>5
    <3>2. s # slot
      BY <1>6, <3>1
    <3>3. w.active[s] # None /\ w.active[s].cache = c
      BY <1>2, <1>9, <3>1, <3>2
    <3> QED BY <3>3 DEF Bound
  <2> QED BY <2>2, <2>3, <2>4, <2>5
<1> QED BY <1>10, <1>11

LEMMA StartRequestStepIs ==
  ASSUME NEW K \in [Req -> Seq(Text)], NEW w, Sound(w, K), Acting(w), OwnerOk(w), NEW r \in Req, w.req[r] # None,
         NEW u, Sound(u, K), Loaded(w, u, r), NEW n \in Nat, n <= HeldTokens(u, r),
         NEW k \in Nat, Spare(u.kv, k), NEW cost, NEW v, v = StartRequestStep(u, r, n, cost)
  PROVE  Sound(v, K) /\ Runs(w, v, r, n) /\ Saves(w, v) /\ Room(v.kv, k)
<1> DEFINE slot == SlotKey(w, r)
           a == IF Changes(u, r) THEN Settle(u, SlotKey(u, r), cost) ELSE u
           b == WithRequestCache(a, r)
           d == [b EXCEPT !.active[SlotKey(u, r)] = [req |-> r, cache |-> CacheOf(b, r)]]
           R == Referenced(d)
           kv == Prepare(d.kv, CacheOf(b, r), n, R)
<1>0. w \in Workers /\ slot \in Slot
  BY SlotKeyIs DEF Sound
<1>1. /\ Frame(w, u, r) /\ SlotKey(u, r) = slot /\ u.req[r] # None
      /\ u.kv.owner[slot] = w.kv.owner[slot] \/ u.kv.owner[slot] = None \/ u.kv.owner[slot] = u.req[r].cache
  BY Zenon DEF Loaded, Frame, SlotKey
<1>2. v = [d EXCEPT !.kv = kv]
  BY DEF StartRequestStep, Changes
<1>3. Readies(u, a, r, cost)
  BY DEF Readies
<1>4. b = WithRequestCache(a, r) /\ Activates(b, d, r, slot) /\ R = Referenced(d)
  BY <1>1 DEF Activates, CacheOf
<1>5. kv = Prepare(d.kv, b.req[r].cache, n, R)
  BY DEF CacheOf
<1> HIDE DEF slot, a, b, d, R, kv
<1>6. Sound(a, K) /\ Near(u, a, r)
  BY <1>1, <1>3, ReadiesIs
<1>7. UsesNoMore(u.kv, a.kv) /\ Offloading(u, a)
  BY <1>1, <1>3, ReadiesIs
<1>8. a.req = u.req /\ a.active = u.active /\ HeldTokens(a, r) = HeldTokens(u, r)
  BY <1>1, <1>3, ReadiesIs
<1>9. Spare(a.kv, k)
  BY <1>7, RoomKept
<1>10. a.req[r] # None
  BY <1>1, <1>8
<1>11. Sound(b, K) /\ Near(a, b, r) /\ Cached(b, r) /\ Room(b.kv, k)
  BY <1>4, <1>6, <1>9, <1>10, WithRequestCacheIs
<1>12. b.rc = a.rc /\ b.kv.owner = a.kv.owner /\ b.kv.dumps = a.kv.dumps
  BY <1>4, <1>6, <1>9, <1>10, WithRequestCacheIs
<1>13. b = a \/ a.req[r].cache = None
  BY <1>4, <1>6, <1>9, <1>10, WithRequestCacheIs
<1>14. Sound(d, K) /\ d.rc = b.rc /\ d.kv = b.kv /\ d.req = b.req /\ d.offload = b.offload
  <2>1. Sound(d, K) /\ Activated(b, d, r, slot)
    BY <1>0, <1>4, <1>11, ActivatesIs
  <2> QED BY <2>1 DEF Activated
<1>15. d.active[slot] = [req |-> r, cache |-> b.req[r].cache]
  BY <1>0, <1>4, <1>11, ActivatesIs DEF Activated
<1>16. \A s \in Slot \ {slot} : d.active[s] = b.active[s]
  <2>1. Activated(b, d, r, slot)
    BY <1>0, <1>4, <1>11, ActivatesIs
  <2> QED BY <2>1 DEF Activated
<1>17. Cached(d, r) /\ Prepares(d, kv, r, n, R) /\ HasCaches(d, v, kv)
  BY <1>2, <1>5, <1>11, <1>14 DEF Cached, Prepares, HasCaches
<1>18. Sound(v, K) /\ Frame(d, v, r)
  BY <1>14, <1>17, PreparedIs
<1>19. Ousts(d, v, r, R) /\ UsesNoMore(d.kv, v.kv)
  BY <1>14, <1>17, PreparedIs
<1>20. v.req = d.req /\ v.rc = d.rc /\ v.kv.owner[SlotKey(d, r)] = d.req[r].cache
  BY <1>14, <1>17, PreparedIs
<1>21. HeldTokens(v, r) = Least(n, HeldTokens(d, r))
  BY <1>14, <1>17, PreparedIs
<1>22. Frame(u, a, r) /\ Frame(a, b, r)
  BY <1>6, <1>11 DEF Near
<1>23. Frame(w, a, r) /\ SlotKey(a, r) = slot
  <2>1. Frame(w, a, r) /\ SlotKey(u, r) = SlotKey(w, r)
    BY <1>1, <1>22, FrameTrans
  <2>2. SlotKey(a, r) = SlotKey(u, r)
    BY <1>8 DEF SlotKey
  <2> QED BY <1>1, <2>1, <2>2
<1>24. Frame(w, b, r) /\ SlotKey(b, r) = slot
  <2>1. Frame(w, b, r)
    BY <1>22, <1>23, FrameTrans
  <2>2. SlotKey(b, r) = SlotKey(a, r)
    BY <1>22 DEF SlotKey, Frame
  <2> QED BY <1>23, <2>1, <2>2
<1>25. SlotKey(d, r) = slot
  BY <1>14, <1>24 DEF SlotKey
<1>26. HeldTokens(v, r) = n
  <2>1. HeldTokens(d, r) = HeldTokens(b, r)
    BY <1>14 DEF HeldTokens, CacheOf
  <2>2. HeldTokens(a, r) \in Nat /\ HeldTokens(b, r) \in Nat
    BY <1>6, <1>10, <1>11, HeldIs DEF Cached
  <2>3. CASE b = a
    BY <1>8, <1>21, <2>1, <2>2, <2>3 DEF Least
  <2>4. CASE a.req[r].cache = None
    <3>1. HeldTokens(a, r) = 0
      BY <2>4 DEF HeldTokens, CacheOf
    <3>2. n = 0
      BY SMTT(30), <1>8, <3>1
    <3> QED BY <1>21, <2>1, <2>2, <3>2 DEF Least
  <2> QED BY <1>13, <2>3, <2>4
<1>27. Runs(w, v, r, n)
  <2>1. v.offload = d.offload /\ SameSlots(d.rc, v.rc) /\ v.active = d.active
    BY <1>18 DEF Frame
  <2>2. v.offload = w.offload /\ SameSlots(w.rc, v.rc) /\ v.rc.cap = w.rc.cap
    BY <1>14, <1>20, <1>24, <2>1 DEF Frame
  <2>3. /\ \A o \in Req \ {r} : v.req[o] = w.req[o]
        /\ w.req[r] # None /\ Cached(v, r)
        /\ v.req[r].num = w.req[r].num /\ v.req[r].out = w.req[r].out /\ v.req[r].slot = w.req[r].slot
        /\ v.req[r].blocks = w.req[r].blocks /\ v.req[r].pos = w.req[r].pos
    <3>1. v.req = b.req
      BY <1>14, <1>20
    <3>2. Cached(v, r)
      BY <1>11, <3>1 DEF Cached
    <3> QED BY <1>24, <3>1, <3>2 DEF Frame
  <2>4. \A o \in Req \ {r} : Cached(w, o) => v.kv.obj[w.req[o].cache] = w.kv.obj[w.req[o].cache]
    <3> SUFFICES ASSUME NEW o \in Req \ {r}, Cached(w, o)
                 PROVE  v.kv.obj[w.req[o].cache] = w.kv.obj[w.req[o].cache]
      OBVIOUS
    <3>1. b.req[o] = w.req[o] /\ b.kv.obj[w.req[o].cache] = w.kv.obj[w.req[o].cache]
      BY <1>24 DEF Frame
    <3>2. Cached(d, o)
      BY <1>14, <3>1 DEF Cached
    <3>3. v.kv.obj[d.req[o].cache] = d.kv.obj[d.req[o].cache]
      BY <1>18, <3>2 DEF Frame
    <3> QED BY <1>14, <3>1, <3>3
  <2>5. \A s \in Slot \ {slot} : v.kv.owner[s] = w.kv.owner[s] /\ v.active[s] = w.active[s]
    <3> SUFFICES ASSUME NEW s \in Slot \ {slot}
                 PROVE  v.kv.owner[s] = w.kv.owner[s] /\ v.active[s] = w.active[s]
      OBVIOUS
    <3>1. b.kv.owner[s] = w.kv.owner[s] /\ b.active = w.active
      BY <1>24 DEF Frame, slot
    <3>2. v.kv.owner[s] = d.kv.owner[s]
      BY <1>18, <1>25 DEF Frame
    <3> QED BY <1>14, <1>16, <2>1, <3>1, <3>2
  <2>6. v.active[slot] = [req |-> r, cache |-> v.req[r].cache]
    BY <1>14, <1>15, <1>20, <2>1
  <2>7. v.kv.owner[slot] = v.req[r].cache
    BY <1>20, <1>25
  <2>8. \A o \in Req : Stored(v, o) => Stored(w, o) \/ w.req[o] # None
    <3>1. v.rc = b.rc
      BY <1>14, <1>20
    <3> QED BY <1>24, <3>1 DEF Frame, Stored
  <2> QED BY <1>26, <2>2, <2>3, <2>4, <2>5, <2>6, <2>7, <2>8 DEF Runs, slot
<1>28. Saves(w, v)
  <2> SUFFICES ASSUME NEW dump \in v.kv.dumps,
                      ~(dump \in w.kv.dumps \/ dump.by = "copy" \/ (dump.by = "offload" /\ w.offload))
               PROVE  Bound(w, dump.of)
    BY DEF Saves
  <2>1. CASE dump \in d.kv.dumps
    <3>1. dump \in a.kv.dumps
      BY <1>12, <1>14, <2>1
    <3>2. dump \in u.kv.dumps \/ (dump.by = "offload" /\ u.offload)
      BY <1>7, <3>1 DEF Offloading
    <3>3. dump \in u.kv.dumps
      BY <1>1, <3>2 DEF Frame
    <3> QED BY <3>3 DEF Loaded, Saves
  <2>2. CASE Loser(d, r, R, dump.of)
    <3> DEFINE c == dump.of
    <3>1. Loser(d, r, R, c)
      BY <2>2
    <3>2. RunsOn(w, b, d, r)
      BY <1>14, <1>15, <1>16 DEF slot, RunsOn
    <3>3. Provides(a, b, r)
      BY <1>11, <1>12, <1>13 DEF Provides
    <3> HIDE DEF c
    <3>4. Bound(w, c)
      BY <1>3, <1>4, <3>1, <3>2, <3>3, LoserWasBound
    <3> QED BY <3>4 DEF c
  <2> QED BY <1>19, <2>1, <2>2 DEF Ousts
<1>29. Room(v.kv, k)
  <2>1. Room(d.kv, k)
    BY <1>11, <1>14
  <2> QED BY <1>19, <2>1, RoomKept
<1> QED BY <1>18, <1>27, <1>28, <1>29

-----------------------------------------------------------------------------
(* Caches nothing refers to are collected.                                 *)

\* Every cache in use is a live request's or a snapshot's.
Tidy(v) ==
  \A c \in Cache : v.kv.obj[c] # Unused =>
     \/ \E r \in Req : Cached(v, r) /\ v.req[r].cache = c
     \/ \E o \in Req : Stored(v, o) /\ v.rc.snapshots[o].cache = c

\* v is w without the caches that are not in R.
Gathered(w, v, R) ==
  /\ v.rc = w.rc /\ v.req = w.req /\ v.active = w.active /\ v.offload = w.offload
  /\ v.kv.dumps = w.kv.dumps
  /\ \A c \in Cache : v.kv.obj[c] = IF c \in R THEN w.kv.obj[c] ELSE Unused
  /\ \A s \in Slot : v.kv.owner[s] = IF w.kv.owner[s] \in R THEN w.kv.owner[s] ELSE None

LEMMA CollectedIs ==
  ASSUME NEW K \in [Req -> Seq(Text)], NEW w, Sound(w, K), NEW v, v = Collected(w)
  PROVE  Sound(v, K) /\ Gathered(w, v, Referenced(w)) /\ (Acting(w) => Tidy(v))
<1> DEFINE R == Referenced(w)
           k == Collect(w.kv, R)
<1>1. w \in Workers /\ w.kv \in Kvs
  BY WorkerIs DEF Sound
<1>2. v = [w EXCEPT !.kv = k] /\ k = Collect(w.kv, R) /\ R = Referenced(w)
  BY DEF Collected
<1> HIDE DEF R, k
<1>3. k \in Kvs /\ k.dumps = w.kv.dumps
  BY <1>1, <1>2, CollectIs
<1>4. \A c \in Cache : k.obj[c] = IF c \in R THEN w.kv.obj[c] ELSE Unused
  BY <1>1, <1>2, CollectIs
<1>5. \A s \in Slot : k.owner[s] = IF w.kv.owner[s] \in R THEN w.kv.owner[s] ELSE None
  BY <1>1, <1>2, CollectIs
<1>6. /\ v \in Workers /\ v.rc = w.rc /\ v.kv = k
      /\ v.offload = w.offload /\ v.req = w.req /\ v.active = w.active
  BY <1>1, <1>2, <1>3 DEF Workers
<1>7. Gathered(w, v, R)
  BY <1>3, <1>4, <1>5, <1>6 DEF Gathered
<1>8. /\ \A o \in Req : Cached(w, o) => w.req[o].cache \in R
      /\ \A o \in Req : Stored(w, o) => w.rc.snapshots[o].cache \in R
  BY <1>2, ReferencesAre
<1>9. /\ \A o \in Req : Cached(w, o) => w.req[o].cache \in Cache
      /\ \A o \in Req : Stored(w, o) => w.rc.snapshots[o].cache \in Cache
  BY <1>1, WorkerIs
<1>10. /\ \A o \in Req : Cached(w, o) => v.kv.obj[w.req[o].cache] = w.kv.obj[w.req[o].cache]
       /\ \A o \in Req : Stored(w, o) =>
            v.kv.obj[w.rc.snapshots[o].cache] = w.kv.obj[w.rc.snapshots[o].cache]
  BY <1>4, <1>6, <1>8, <1>9
<1>11. /\ \A o \in Req : Cached(v, o) <=> Cached(w, o)
       /\ \A o \in Req : Stored(v, o) <=> Stored(w, o)
       /\ \A o \in Req : SlotKey(v, o) = SlotKey(w, o)
       /\ \A o \in Req : Tokens(v, o) = Tokens(w, o)
  BY <1>6 DEF Cached, Stored, SlotKey, Tokens
<1>12. Sound(v, K)
  <2>1. Owned(v)
    BY SMTT(30), <1>6, <1>11 DEF Sound, Owned
  <2>2. Placed(v)
    <3>1. \A o \in Req : Cached(v, o) => v.kv.obj[v.req[o].cache].row = SlotKey(v, o)
      BY SMTT(30), <1>6, <1>10, <1>11 DEF Sound, Placed
    <3>2. \A o \in Req : Stored(v, o) => v.kv.obj[v.rc.snapshots[o].cache].row \in Slot
      BY <1>6, <1>10, <1>11 DEF Sound, Placed
    <3>3. \A s \in Slot : v.kv.owner[s] # None => v.kv.owner[s] = w.kv.owner[s] /\ w.kv.owner[s] \in R
      BY <1>5, <1>6
    <3>4. \A s \in Slot : w.kv.owner[s] # None => w.kv.owner[s] \in Cache
      BY SMTT(30), <1>1 DEF Kvs
    <3>5. \A s \in Slot : v.kv.owner[s] # None => v.kv.obj[v.kv.owner[s]].row = s
      BY SMTT(30), <1>4, <1>6, <3>3, <3>4 DEF Sound, Placed
    <3>6. \A o \in Req, s \in Slot : Stored(v, o) /\ v.kv.owner[s] = v.rc.snapshots[o].cache =>
             v.req[o] = None /\ v.rc.snapshots[o].num > 0
      <4> SUFFICES ASSUME NEW o \in Req, NEW s \in Slot, Stored(v, o), v.kv.owner[s] = v.rc.snapshots[o].cache
                   PROVE  v.req[o] = None /\ v.rc.snapshots[o].num > 0
        OBVIOUS
      <4>1. Stored(w, o) /\ w.rc.snapshots[o] = v.rc.snapshots[o] /\ w.rc.snapshots[o].cache \in Cache
        BY <1>6, <1>9, <1>11
      <4>2. w.kv.owner[s] = w.rc.snapshots[o].cache
        BY <3>3, <4>1, NoneIs
      <4> QED BY <1>6, <4>1, <4>2 DEF Sound, Placed
    <3> QED BY SMTT(30), <3>1, <3>2, <3>5, <3>6 DEF Placed
  <2>3. Marked(v)
    BY <1>6, <1>11 DEF Sound, Marked
  <2>4. Slotted(v)
    BY <1>6 DEF Sound, Slotted
  <2>5. Holds(v, K)
    <3> SUFFICES ASSUME NEW o \in Req, v.req[o] # None
                 PROVE  /\ Tokens(v, o) = K[o] /\ v.req[o].num <= Len(K[o])
                        /\ v.req[o].cache # None => Starts(v.kv.obj[v.req[o].cache].tokens, K[o])
      BY DEF Holds
    <3>1. /\ Tokens(w, o) = K[o] /\ w.req[o].num <= Len(K[o])
          /\ w.req[o].cache # None => Starts(w.kv.obj[w.req[o].cache].tokens, K[o])
      BY <1>6 DEF Sound, Holds
    <3> QED BY <1>6, <1>10, <1>11, <3>1 DEF Cached
  <2>6. Honest(v, K)
    <3> SUFFICES ASSUME NEW o \in Req, Stored(v, o)
                 PROVE  IsHonest(v.rc.snapshots[o], o, v.kv.obj[v.rc.snapshots[o].cache].tokens, K[o])
      BY DEF Honest
    <3>1. Stored(w, o) /\ v.rc.snapshots[o] = w.rc.snapshots[o]
      BY SMTT(30), <1>6, <1>11
    <3>2. IsHonest(w.rc.snapshots[o], o, w.kv.obj[w.rc.snapshots[o].cache].tokens, K[o])
      BY <3>1 DEF Sound, Honest
    <3> QED BY Zenon, <1>10, <3>1, <3>2
  <2> QED BY <1>6, <2>1, <2>2, <2>3, <2>4, <2>5, <2>6 DEF Sound
<1>13. ASSUME Acting(w)
       PROVE  Tidy(v)
  <2> SUFFICES ASSUME NEW c \in Cache, v.kv.obj[c] # Unused
               PROVE  \/ \E o \in Req : Cached(v, o) /\ v.req[o].cache = c
                      \/ \E o \in Req : Stored(v, o) /\ v.rc.snapshots[o].cache = c
    BY DEF Tidy
  <2>1. c \in Referenced(w) /\ c # None
    BY <1>2, <1>4, <1>6, NoneIs
  <2>2. \/ \E o \in Req : Cached(w, o) /\ w.req[o].cache = c
        \/ \E o \in Req : Stored(w, o) /\ w.rc.snapshots[o].cache = c
        \/ \E s \in Slot : w.active[s] # None /\ w.active[s].cache = c
    BY <2>1, ReferencedIs
  <2>3. CASE \E s \in Slot : w.active[s] # None /\ w.active[s].cache = c
    <3>1. PICK s \in Slot : w.active[s] # None /\ w.active[s].cache = c
      BY <2>3
    <3> DEFINE o == w.active[s].req
    <3>2. o \in Req
      BY <1>1, <3>1, WorkerIs
    <3>3. Cached(w, o) /\ w.req[o].cache = c
      BY <1>13, <2>1, <3>1 DEF Acting, Cached
    <3> QED BY <1>6, <1>11, <3>2, <3>3
  <2> QED BY <1>6, <1>11, <2>2, <2>3
<1> QED BY <1>2, <1>7, <1>12, <1>13

\* A request's cache and its snapshot's are all there are.
LEMMA TidyHasRoom ==
  ASSUME NEW w, Tidy(w)
  PROVE  Room(w.kv, 4)
<1> DEFINE f == [r \in Req |-> w.req[r].cache]
           g == [r \in Req |-> w.rc.snapshots[r].cache]
           S == {c \in Cache : \E r \in Req : f[r] = c}
           T == {c \in Cache : \E r \in Req : g[r] = c}
<1>1. IsFiniteSet(Req) /\ Cardinality(Req) \in Nat
  BY BlockAssumption, FS_CardinalityType
<1>2. IsFiniteSet(S) /\ Cardinality(S) <= Cardinality(Req)
  <2>1. \A x \in S : \E r \in Req : f[r] = x
    OBVIOUS
  <2> HIDE DEF S, f
  <2> QED BY <1>1, <2>1, CoveredIs
<1>3. IsFiniteSet(T) /\ Cardinality(T) <= Cardinality(Req)
  <2>1. \A x \in T : \E r \in Req : g[r] = x
    OBVIOUS
  <2> HIDE DEF T, g
  <2> QED BY <1>1, <2>1, CoveredIs
<1>4. Used(w.kv) \subseteq S \cup T
  BY DEF Tidy, Used
<1> HIDE DEF S, T
<1>5. IsFiniteSet(S \cup T) /\ Cardinality(S \cup T) = Cardinality(S) + Cardinality(T) - Cardinality(S \cap T)
  BY <1>2, <1>3, FS_Union
<1>6. Cardinality(S \cap T) \in Nat /\ Cardinality(S) \in Nat /\ Cardinality(T) \in Nat
  BY <1>2, <1>3, FS_Intersection, FS_CardinalityType
<1>7. Cardinality(Used(w.kv)) <= Cardinality(S \cup T) /\ Cardinality(Used(w.kv)) \in Nat
  BY <1>4, <1>5, FS_Subset, FS_CardinalityType
<1>8. Cardinality(Cache) >= 2 * Cardinality(Req) + 4 /\ Cardinality(Cache) \in Nat
  BY CacheAssumption, FS_CardinalityType
<1> QED BY <1>1, <1>2, <1>3, <1>5, <1>6, <1>7, <1>8 DEF Room

-----------------------------------------------------------------------------
(* A request that finishes.                                                *)

\* r has KV to leave.
Leaving(w, r) == CacheOf(w, r) # None /\ EnablePrefixCaching /\ KeptTokens(w, r) > 0

\* What stays running without r.
Resting(w, r) ==
  [s \in Slot |-> IF w.active[s] # None /\ s = SlotKey(w, r) /\ w.active[s].req = r
                  THEN None ELSE w.active[s]]

\* The caches k and the manager m once r left a snapshot, if it has something to leave.
LeavesBehind(w, r, k, m) ==
  IF Leaving(w, r)
  THEN /\ k = SetSeqLength(w.kv, w.req[r].cache, KeptTokens(w, r))
       /\ m = StoreSnapshot(w.rc, r, PrefixOf(w, r, KeptTokens(w, r), w.req[r].cache))
  ELSE k = w.kv /\ m = w.rc

\* The manager, once r is finished and has given up its slot.
Releases(m, n, r) ==
  n = IF Batch THEN ReleaseSlot(MarkSnapshotFinished(m, r), r) ELSE MarkSnapshotFinished(m, r)

\* v is w but for the caches k, the manager n, and r.
Finalized(w, v, r, k, n) ==
  v = [w EXCEPT !.active = Resting(w, r), !.kv = k, !.rc = n, !.req[r] = None]

LEMMA FinalizeForm ==
  ASSUME NEW w \in Workers, NEW r \in Req, NEW v, v = FinalizeFinishedRequest(w, r)
  PROVE  \E k, m, n : LeavesBehind(w, r, k, m) /\ Releases(m, n, r) /\ Finalized(w, v, r, k, n)
<1> DEFINE cache == CacheOf(w, r)
           t == KeptTokens(w, r)
           idle == [w EXCEPT !.active = [s \in Slot |->
                      IF @[s] # None /\ s = SlotKey(w, r) /\ @[s].req = r THEN None ELSE @[s]]]
           kept == IF cache # None /\ EnablePrefixCaching /\ t > 0
                   THEN StorePrefix([idle EXCEPT !.kv = SetSeqLength(@, cache, t)], r, cache, t)
                   ELSE idle
           marked == MarkSnapshotFinished(kept.rc, r)
           n == IF Batch THEN ReleaseSlot(marked, r) ELSE marked
           cut == [idle EXCEPT !.kv = SetSeqLength(@, cache, t)]
<1>1. v = [kept EXCEPT !.req[r] = None, !.rc = n]
  BY DEF FinalizeFinishedRequest
<1>2. idle = [w EXCEPT !.active = Resting(w, r)]
  BY DEF Resting, Workers
<1> HIDE DEF n, marked
<1>3. /\ idle.rc = w.rc /\ idle.kv = w.kv /\ idle.req = w.req /\ idle.active = Resting(w, r)
      /\ idle.offload = w.offload
  BY <1>2 DEF Workers
<1>4. ASSUME Leaving(w, r)
      PROVE  \E k, m : LeavesBehind(w, r, k, m) /\ kept.rc = m
               /\ [kept EXCEPT !.req[r] = None, !.rc = n]
                    = [w EXCEPT !.active = Resting(w, r), !.kv = k, !.rc = n, !.req[r] = None]
  <2> DEFINE k == SetSeqLength(w.kv, w.req[r].cache, t)
             s == PrefixOf(w, r, t, w.req[r].cache)
             m == StoreSnapshot(w.rc, r, s)
  <2>1. LeavesBehind(w, r, k, m)
    BY <1>4 DEF LeavesBehind
  <2>2. kept = StorePrefix(cut, r, cache, t)
    BY <1>4 DEF Leaving
  <2>3. cut = [w EXCEPT !.active = Resting(w, r), !.kv = k]
    BY <1>2 DEF Workers, CacheOf
  <2> HIDE DEF cut, kept, idle, k, t, cache
  <2>4. cut.req = w.req /\ cut.rc = w.rc
    BY <2>3 DEF Workers
  <2>5. PrefixOf(cut, r, t, cache) = PrefixOf(w, r, t, cache)
    <3>1. Tokens(cut, r) = Tokens(w, r)
      BY <2>4 DEF Tokens
    <3>2. CacheTokenIds(cut, r, t) = CacheTokenIds(w, r, t)
      BY <3>1 DEF CacheTokenIds
    <3> QED BY <2>4, <3>2 DEF PrefixOf
  <2>6. cache = w.req[r].cache
    BY DEF cache, CacheOf
  <2>7. kept = [cut EXCEPT !.rc = StoreSnapshot(cut.rc, r, PrefixOf(cut, r, t, cache))]
    BY <2>2 DEF StorePrefix
  <2>8. kept = [cut EXCEPT !.rc = m]
    BY <2>4, <2>5, <2>6, <2>7
  <2> HIDE DEF m
  <2>9. kept = [w EXCEPT !.active = Resting(w, r), !.kv = k, !.rc = m]
    BY <2>3, <2>8 DEF Workers
  <2>10. kept.rc = m
    BY <2>9 DEF Workers
  <2>11. [kept EXCEPT !.req[r] = None, !.rc = n]
           = [w EXCEPT !.active = Resting(w, r), !.kv = k, !.rc = n, !.req[r] = None]
    BY <2>9 DEF Workers
  <2> QED BY Zenon, <2>1, <2>10, <2>11
<1>5. ASSUME ~Leaving(w, r)
      PROVE  \E k, m : LeavesBehind(w, r, k, m) /\ kept.rc = m
               /\ [kept EXCEPT !.req[r] = None, !.rc = n]
                    = [w EXCEPT !.active = Resting(w, r), !.kv = k, !.rc = n, !.req[r] = None]
  <2>1. LeavesBehind(w, r, w.kv, w.rc)
    BY <1>5 DEF LeavesBehind
  <2>2. kept = [w EXCEPT !.active = Resting(w, r)]
    BY <1>2, <1>5 DEF Leaving
  <2> HIDE DEF kept
  <2>3. kept.rc = w.rc
    BY <2>2 DEF Workers
  <2>4. [kept EXCEPT !.req[r] = None, !.rc = n]
           = [w EXCEPT !.active = Resting(w, r), !.kv = w.kv, !.rc = n, !.req[r] = None]
    BY Zenon, <2>2 DEF Workers
  <2> QED BY Zenon, <2>1, <2>3, <2>4
<1>6. PICK k, m : LeavesBehind(w, r, k, m) /\ kept.rc = m
               /\ [kept EXCEPT !.req[r] = None, !.rc = n]
                    = [w EXCEPT !.active = Resting(w, r), !.kv = k, !.rc = n, !.req[r] = None]
  BY Zenon, <1>4, <1>5
<1> HIDE DEF kept
<1>7. Releases(m, n, r)
  BY <1>6 DEF Releases, n, marked
<1>8. Finalized(w, v, r, k, n)
  BY <1>1, <1>6 DEF Finalized
<1> QED BY <1>6, <1>7, <1>8

\* r's cache c is the snapshot of r in m.
InPlace(w, r, k, m, K) ==
  /\ Cached(w, r) /\ m.snapshots[r] # None /\ m.snapshots[r].cache = w.req[r].cache
  /\ m.snapshots[r].num > 0
  /\ Alike(w.kv, k, w.req[r].cache)
  /\ k.obj[w.req[r].cache] # Unused /\ k.obj[w.req[r].cache].row = w.kv.obj[w.req[r].cache].row
  /\ IsHonest(m.snapshots[r], r, k.obj[w.req[r].cache].tokens, K[r])

\* What r leaves behind.
Left(w, r, k, m, K) ==
  /\ k \in Kvs /\ RcOk(m) /\ k.owner = w.kv.owner /\ k.dumps = w.kv.dumps
  /\ SameSlots(w.rc, m) /\ m.cap = w.rc.cap
  /\ \A o \in Req \ {r} : /\ m.snapshots[o] = w.rc.snapshots[o]
                          /\ o \in m.finished <=> o \in w.rc.finished
  /\ (m.snapshots[r] = w.rc.snapshots[r] /\ k = w.kv) \/ InPlace(w, r, k, m, K)

LEMMA LeftIs ==
  ASSUME NEW K \in [Req -> Seq(Text)], NEW w, Sound(w, K), NEW r \in Req, w.req[r] # None,
         NEW k, NEW m, LeavesBehind(w, r, k, m)
  PROVE  Left(w, r, k, m, K)
<1>1. w \in Workers /\ w.kv \in Kvs /\ RcOk(w.rc) /\ Holds(w, K)
  BY WorkerIs DEF Sound
<1>2. CASE ~Leaving(w, r)
  <2>1. k = w.kv /\ m = w.rc
    BY <1>2 DEF LeavesBehind
  <2> QED BY <1>1, <2>1 DEF Left, SameSlots
<1>3. CASE Leaving(w, r)
  <2> DEFINE c == w.req[r].cache
             n == KeptTokens(w, r)
             s == PrefixOf(w, r, n, c)
  <2>1. Cached(w, r) /\ c \in Cache /\ w.kv.obj[c] # Unused /\ Len(w.kv.obj[c].tokens) \in Nat
    <3>1. Cached(w, r)
      BY SMTT(30), <1>3 DEF Leaving, CacheOf, Cached
    <3> QED BY <1>1, <3>1, CachesInUse DEF Sound
  <2>2. n \in Nat /\ n > 0 /\ n <= Len(w.kv.obj[c].tokens) /\ n <= Len(K[r]) /\ Len(K[r]) \in Nat
    <3>1. /\ HeldTokens(w, r) \in Nat /\ w.req[r].num \in Nat /\ w.req[r].num <= Len(K[r])
          /\ HeldTokens(w, r) = Len(w.kv.obj[w.req[r].cache].tokens)
      BY <2>1, HeldIs
    <3>2. n = Least(w.req[r].num, HeldTokens(w, r))
      BY DEF KeptTokens
    <3>3. n > 0
      BY SMTT(30), <1>3 DEF Leaving
    <3>4. Len(K[r]) \in Nat
      OBVIOUS
    <3>5. HeldTokens(w, r) = Len(w.kv.obj[c].tokens)
      BY SMTT(30), <3>1
    <3> HIDE DEF n, c
    <3>6. n \in Nat /\ n <= w.req[r].num /\ n <= HeldTokens(w, r)
      BY SMTT(30), <3>1, <3>2 DEF Least
    <3>7. n <= Len(K[r])
      BY <3>1, <3>4, <3>6
    <3>8. n <= Len(w.kv.obj[c].tokens)
      BY <3>5, <3>6
    <3> QED BY <3>3, <3>4, <3>6, <3>7, <3>8
  <2>3. k = SetSeqLength(w.kv, c, n) /\ m = StoreSnapshot(w.rc, r, s) /\ s = PrefixOf(w, r, n, c)
    BY <1>3 DEF LeavesBehind
  <2> HIDE DEF c, n, s
  <2>4. k \in Kvs /\ k.owner = w.kv.owner /\ k.dumps = w.kv.dumps
    <3> DEFINE kv == w.kv
    <3>1. kv \in Kvs /\ kv.obj[c] # Unused /\ k = SetSeqLength(kv, c, n) /\ c \in Cache /\ n \in Nat
      BY <1>1, <2>1, <2>2, <2>3
    <3> HIDE DEF kv
    <3>2. k \in Kvs /\ k.owner = kv.owner /\ k.dumps = kv.dumps
      BY <3>1, SetSeqLengthIs
    <3> QED BY <3>2 DEF kv
  <2>5. Alike(w.kv, k, c) /\ Cut(w.kv.obj[c], k.obj[c], n) /\ k.obj[c] # Unused /\ k.obj[c].row = w.kv.obj[c].row
    <3>1. Alike(w.kv, k, c)
      BY <1>1, <2>1, <2>2, <2>3, SetSeqLengthIs
    <3>2. Cut(w.kv.obj[c], k.obj[c], n)
      BY <1>1, <2>1, <2>2, <2>3, SetSeqLengthIs
    <3>3. k.obj[c] # Unused
      BY SMTT(30), <1>1, <2>1, <2>2, <2>3, SetSeqLengthIs
    <3> QED BY <3>1, <3>2, <3>3 DEF Cut
  <2>6. IsQuery(s, r) /\ s.num = n /\ s.cache = c /\ s \in Snapshots
    BY <1>1, <2>1, <2>2, <2>3, PrefixIs
  <2>7. \A i \in 1 .. n : s.ids[i] = Masked(K[r][i])
    BY <1>1, <2>1, <2>2, <2>3, PrefixIs
  <2>8. RcOk(m) /\ SameSlots(w.rc, m) /\ m.cap = w.rc.cap
    BY <1>1, <2>3, <2>6, StoreIs
  <2>9. \A o \in Req : m.snapshots[o] = IF o = r THEN s ELSE w.rc.snapshots[o]
    BY <1>1, <2>3, <2>6, StoreIs
  <2>10. m.finished = w.rc.finished \ {r}
    BY <1>1, <2>3, <2>6, StoreIs
  <2>11. IsHonest(s, r, k.obj[c].tokens, K[r])
    <3>1. Len(k.obj[c].tokens) = n
      BY <2>1, <2>2, <2>5 DEF Cut, Least
    <3>2. \A i \in 1 .. n : k.obj[c].tokens[i] = w.kv.obj[c].tokens[i]
      BY <2>5, <3>1 DEF Cut
    <3>3. \A i \in 1 .. n : w.kv.obj[c].tokens[i] = K[r][i]
      <4>1. Starts(w.kv.obj[c].tokens, K[r])
        BY <1>1, <2>1 DEF Holds, Cached, c
      <4> QED BY <2>1, <2>2, <4>1 DEF Starts
    <3>4. s.num <= Len(k.obj[c].tokens) /\ s.num <= Len(K[r]) /\ Len(s.ids) = s.num
      BY <2>2, <2>6, <3>1 DEF IsQuery
    <3>5. s.mm = MultimodalIdentity(r, s.num)
      BY <2>6 DEF IsQuery
    <3> QED BY <2>6, <2>7, <3>2, <3>3, <3>4, <3>5 DEF IsHonest
  <2>12. m.snapshots[r] = s /\ s # None
    BY <2>6, <2>9, RecordAssumption
  <2>13. InPlace(w, r, k, m, K)
    BY Zenon, <2>1, <2>2, <2>5, <2>6, <2>11, <2>12 DEF InPlace, c
  <2> QED BY SMTT(30), <2>4, <2>8, <2>9, <2>10, <2>13 DEF Left
<1> QED BY <1>2, <1>3

\* The manager once r is finished: n.
Retired(m, n, r) ==
  /\ RcOk(n) /\ n.cap = m.cap
  /\ \A o \in Req : n.snapshots[o] # None =>
       n.snapshots[o] = m.snapshots[o] /\ (o \in n.finished <=> o \in m.finished \/ o = r)
  /\ Batch => n.req_to_slot[r] = None
  /\ \A o \in Req \ {r} : n.req_to_slot[o] = m.req_to_slot[o]

LEMMA RetiredIs ==
  ASSUME NEW m, RcOk(m), NEW r \in Req, NEW n, Releases(m, n, r)
  PROVE  Retired(m, n, r)
<1> DEFINE x == MarkSnapshotFinished(m, r)
<1>1. x = MarkSnapshotFinished(m, r) /\ n = IF Batch THEN ReleaseSlot(x, r) ELSE x
  BY DEF Releases
<1> HIDE DEF x
<1>2. RcOk(x) /\ SameSlots(m, x) /\ x.cap = m.cap
  BY <1>1, MarkFinishedIs
<1>3. \A o \in Req : x.snapshots[o] # None =>
         x.snapshots[o] = m.snapshots[o] /\ (o \in x.finished <=> o \in m.finished \/ o = r)
  BY <1>1, MarkFinishedIs
<1>4. CASE Batch
  <2>1. n = ReleaseSlot(x, r)
    BY <1>1, <1>4
  <2>2. RcOk(n) /\ n.cap = x.cap /\ n.snapshots = x.snapshots /\ n.finished = x.finished
    BY <1>2, <2>1, ReleaseIs
  <2>3. n.req_to_slot[r] = None /\ \A o \in Req \ {r} : n.req_to_slot[o] = x.req_to_slot[o]
    BY <1>2, <2>1, ReleaseIs
  <2> QED BY <1>2, <1>3, <2>2, <2>3 DEF Retired, SameSlots
<1>5. CASE ~Batch
  <2>1. n = x
    BY <1>1, <1>5
  <2> QED BY <1>2, <1>3, <1>5, <2>1 DEF Retired, SameSlots
<1> QED BY <1>4, <1>5

\* v is w without r.
Retires(w, v, r) ==
  /\ v.offload = w.offload /\ v.rc.cap = w.rc.cap
  /\ v.req[r] = None /\ \A o \in Req \ {r} : v.req[o] = w.req[o]
  /\ v.active = Resting(w, r)
  /\ v.kv.owner = w.kv.owner /\ v.kv.dumps = w.kv.dumps
  /\ \A o \in Req \ {r} : Cached(w, o) => v.kv.obj[w.req[o].cache] = w.kv.obj[w.req[o].cache]
  /\ \A o \in Req \ {r} : Stored(v, o) => Stored(w, o)

\* The fields of v.
Final(w, v, r, k, n) ==
  /\ v \in Workers /\ v.kv = k /\ v.rc = n /\ v.active = Resting(w, r) /\ v.offload = w.offload
  /\ v.req[r] = None /\ \A o \in Req \ {r} : v.req[o] = w.req[o]

LEMMA FinalIs ==
  ASSUME NEW w \in Workers, NEW r \in Req, NEW k \in Kvs, NEW n \in Managers(Snapshots, Nat),
         NEW v, Finalized(w, v, r, k, n)
  PROVE  Final(w, v, r, k, n)
<1> DEFINE a == Resting(w, r)
           req == [w.req EXCEPT ![r] = None]
<1>1. a \in [Slot -> Actives \cup {None}]
  BY DEF Resting, Workers
<1>2. w.req \in [Req -> RequestStates \cup {None}]
  BY DEF Workers
<1>3. req \in [Req -> RequestStates \cup {None}] /\ req[r] = None /\ \A o \in Req \ {r} : req[o] = w.req[o]
  BY <1>2
<1>4. v = [w EXCEPT !.active = a, !.kv = k, !.rc = n, !.req = req]
  BY DEF Workers, Finalized
<1> HIDE DEF a, req
<1>5. v \in Workers /\ v.kv = k /\ v.rc = n /\ v.active = a /\ v.offload = w.offload /\ v.req = req
  BY <1>1, <1>3, <1>4 DEF Workers
<1> QED BY <1>3, <1>5 DEF Final, a

LEMMA FinalizeIs ==
  ASSUME NEW K \in [Req -> Seq(Text)], NEW w, Sound(w, K), NEW r \in Req, w.req[r] # None,
         NEW v, v = FinalizeFinishedRequest(w, r)
  PROVE  Sound(v, K) /\ Retires(w, v, r)
<1>1. w \in Workers /\ RcOk(w.rc)
  BY DEF Sound
<1>2. PICK k, m, n : LeavesBehind(w, r, k, m) /\ Releases(m, n, r) /\ Finalized(w, v, r, k, n)
  BY <1>1, FinalizeForm
<1>3. Left(w, r, k, m, K)
  BY <1>2, LeftIs
<1>4. RcOk(m) /\ k \in Kvs
  BY <1>3 DEF Left
<1>5. Retired(m, n, r)
  BY <1>2, <1>4, RetiredIs
<1>6. n \in Managers(Snapshots, Nat)
  BY <1>5 DEF Retired, RcOk
<1>7. Final(w, v, r, k, n)
  BY <1>1, <1>2, <1>4, <1>6, FinalIs
<1>8. /\ v \in Workers /\ v.kv = k /\ v.rc = n
      /\ v.req[r] = None /\ \A o \in Req \ {r} : v.req[o] = w.req[o]
  BY <1>7 DEF Final
<1>9. /\ k.owner = w.kv.owner /\ k.dumps = w.kv.dumps
      /\ \A o \in Req \ {r} : m.snapshots[o] = w.rc.snapshots[o] /\ (o \in m.finished <=> o \in w.rc.finished)
      /\ (m.snapshots[r] = w.rc.snapshots[r] /\ k = w.kv) \/ InPlace(w, r, k, m, K)
  BY <1>3 DEF Left
<1>10. \A o \in Req : Stored(v, o) => /\ v.rc.snapshots[o] = m.snapshots[o]
                                      /\ o \in n.finished <=> o \in m.finished \/ o = r
  BY <1>5, <1>8 DEF Retired, Stored
<1>11. \A o \in Req \ {r} : Stored(v, o) => Stored(w, o) /\ v.rc.snapshots[o] = w.rc.snapshots[o]
  BY <1>9, <1>10 DEF Stored
<1>12. \A o \in Req : Cached(v, o) => o # r /\ Cached(w, o) /\ v.req[o].cache = w.req[o].cache
  BY <1>8 DEF Cached
<1>13. Owned(w) /\ Placed(w) /\ Slotted(w) /\ Marked(w)
  BY DEF Sound
<1> DEFINE c == IF InPlace(w, r, k, m, K) THEN w.req[r].cache
                ELSE IF Stored(w, r) THEN w.rc.snapshots[r].cache ELSE None
<1>14. Alike(w.kv, k, c) /\ (Stored(v, r) => v.rc.snapshots[r].cache = c)
  <2>1. CASE InPlace(w, r, k, m, K)
    BY <1>10, <2>1 DEF InPlace
  <2>2. CASE ~InPlace(w, r, k, m, K)
    BY <1>9, <1>10, <2>2 DEF Alike, Stored
  <2> QED BY SMTT(30), <2>1, <2>2
<1>15. /\ \A o \in Req \ {r} : Cached(w, o) => w.req[o].cache # c
       /\ \A o \in Req \ {r} : Stored(w, o) => w.rc.snapshots[o].cache # c
  <2>1. CASE InPlace(w, r, k, m, K)
    BY <1>13, <2>1 DEF InPlace, Owned
  <2>2. CASE ~InPlace(w, r, k, m, K) /\ Stored(w, r)
    BY <1>13, <2>2 DEF Owned
  <2>3. CASE ~InPlace(w, r, k, m, K) /\ ~Stored(w, r)
    <3>1. \A o \in Req : Stored(w, o) => w.rc.snapshots[o].cache # None
      BY <1>1, NoneIs, WorkerIs
    <3> QED BY <2>3, <3>1 DEF Cached
  <2> QED BY SMTT(30), <2>1, <2>2, <2>3
<1>16. \A o \in Req \ {r} : Cached(w, o) => k.obj[w.req[o].cache] = w.kv.obj[w.req[o].cache]
  <2>1. \A o \in Req : Cached(w, o) => w.req[o].cache \in Cache
    BY <1>1, WorkerIs
  <2> HIDE DEF c
  <2> QED BY <1>14, <1>15, <2>1 DEF Alike
<1>17. \A o \in Req \ {r} : Stored(w, o) => k.obj[w.rc.snapshots[o].cache] = w.kv.obj[w.rc.snapshots[o].cache]
  <2>1. \A o \in Req : Stored(w, o) => w.rc.snapshots[o].cache \in Cache
    BY <1>1, WorkerIs
  <2> HIDE DEF c
  <2> QED BY <1>14, <1>15, <2>1 DEF Alike
<1>18. \A d \in Cache : w.kv.obj[d] # Unused => k.obj[d] # Unused /\ k.obj[d].row = w.kv.obj[d].row
  <2>1. CASE InPlace(w, r, k, m, K)
    BY SMTT(30), <2>1 DEF InPlace, Alike
  <2>2. CASE k = w.kv
    BY <2>2
  <2> QED BY SMTT(30), <1>9, <2>1, <2>2
<1>19. Leaves(w, v, r, c)
  <2>1. RcOk(v.rc)
    BY <1>5, <1>8 DEF Retired
  <2>2. \A o \in Req : Cached(v, o) => v.req[o].cache # c
    BY <1>12, <1>15
  <2>3. Stored(v, r) => v.kv.obj[c].row \in Slot
    <3> SUFFICES ASSUME Stored(v, r)
                 PROVE  k.obj[c].row \in Slot
      BY SMTT(30), <1>8
    <3>1. CASE InPlace(w, r, k, m, K)
      <4>1. w.kv.obj[w.req[r].cache].row = SlotKey(w, r) /\ SlotKey(w, r) \in Slot
        BY Zenon, <1>1, <1>13, <3>1, SlotKeyIs DEF InPlace, Placed
      <4> QED BY <3>1, <4>1 DEF InPlace
    <3>2. CASE ~InPlace(w, r, k, m, K)
      <4>1. Stored(w, r) /\ k = w.kv
        BY <1>9, <1>10, <3>2 DEF Stored
      <4> QED BY <1>13, <3>2, <4>1 DEF Placed
    <3> QED BY <3>1, <3>2
  <2>4. \A o \in Req : Cached(v, o) => v.kv.obj[v.req[o].cache].tokens = w.kv.obj[v.req[o].cache].tokens
    BY SMTT(30), <1>8, <1>12, <1>16
  <2>5. \A o \in Req \ {r} : Stored(v, o) =>
          v.kv.obj[w.rc.snapshots[o].cache].tokens = w.kv.obj[w.rc.snapshots[o].cache].tokens
    BY <1>8, <1>11, <1>17
  <2>6. Stored(v, r) => \A s \in Slot : v.kv.owner[s] = c => v.req[r] = None /\ v.rc.snapshots[r].num > 0
    <3> SUFFICES ASSUME Stored(v, r), NEW s \in Slot, v.kv.owner[s] = c
                 PROVE  v.rc.snapshots[r].num > 0
      BY SMTT(30), <1>8
    <3>1. CASE InPlace(w, r, k, m, K)
      BY SMTT(30), <1>10, <3>1 DEF InPlace
    <3>2. CASE ~InPlace(w, r, k, m, K)
      <4>1. Stored(w, r) /\ c = w.rc.snapshots[r].cache
        BY <1>9, <1>10, <3>2 DEF Stored
      <4> QED BY <1>8, <1>9, <1>13, <4>1 DEF Placed
    <3> QED BY <3>1, <3>2
  <2> HIDE DEF c
  <2>7. \A o \in Req \ {r} : Stored(v, o) => v.rc.snapshots[o] = w.rc.snapshots[o]
    BY <1>11
  <2>8. \A s \in Slot : v.kv.owner[s] = w.kv.owner[s]
    BY <1>8, <1>9
  <2>9. \A d \in Cache : w.kv.obj[d] # Unused => v.kv.obj[d] # Unused /\ v.kv.obj[d].row = w.kv.obj[d].row
    BY <1>8, <1>18
  <2> QED BY <1>8, <1>14, <1>15, <2>1, <2>2, <2>3, <2>4, <2>5, <2>6, <2>7, <2>8, <2>9 DEF Leaves
<1>20. Marked(v)
  <2> SUFFICES ASSUME NEW o \in Req, Stored(v, o)
               PROVE  v.req[o] # None <=> o \notin v.rc.finished
    BY DEF Marked
  <2>1. CASE o = r
    BY <1>8, <1>10, <2>1
  <2>2. CASE o # r
    BY <1>8, <1>9, <1>10, <1>11, <1>13, <2>2 DEF Marked
  <2> QED BY <2>1, <2>2
<1>21. Slotted(v)
  <2>1. m.req_to_slot = w.rc.req_to_slot
    BY <1>3 DEF Left, SameSlots
  <2>2. \A o \in Req \ {r} : v.rc.req_to_slot[o] = w.rc.req_to_slot[o]
    BY <1>5, <1>8, <2>1 DEF Retired
  <2>3. Batch => v.rc.req_to_slot[r] = None
    BY <1>5, <1>8 DEF Retired
  <2> QED BY <1>8, <1>13, <2>2, <2>3 DEF Slotted
<1>22. Stored(v, r) => IsHonest(v.rc.snapshots[r], r, v.kv.obj[c].tokens, K[r])
  <2> SUFFICES ASSUME Stored(v, r)
               PROVE  IsHonest(m.snapshots[r], r, k.obj[c].tokens, K[r])
    BY Zenon, <1>8, <1>10
  <2>1. CASE InPlace(w, r, k, m, K)
    BY SMTT(30), <2>1 DEF InPlace
  <2>2. CASE ~InPlace(w, r, k, m, K)
    <3>1. Stored(w, r) /\ k = w.kv /\ m.snapshots[r] = w.rc.snapshots[r] /\ c = w.rc.snapshots[r].cache
      BY <1>9, <1>10, <2>2 DEF Stored
    <3> HIDE DEF c
    <3> QED BY <3>1 DEF Sound, Honest
  <2> QED BY <2>1, <2>2
<1> HIDE DEF c
<1>23. Sound(v, K)
  BY <1>19, <1>20, <1>21, <1>22, LeavesKeeps
<1>24. Retires(w, v, r)
  <2>1. v.active = Resting(w, r) /\ v.offload = w.offload
    BY <1>7 DEF Final
  <2>2. v.rc.cap = w.rc.cap
    BY <1>3, <1>5, <1>8 DEF Left, Retired
  <2>3. v.kv.owner = w.kv.owner /\ v.kv.dumps = w.kv.dumps
    BY <1>8, <1>9
  <2>4. \A o \in Req \ {r} : Cached(w, o) => v.kv.obj[w.req[o].cache] = w.kv.obj[w.req[o].cache]
    BY <1>8, <1>16
  <2>5. \A o \in Req \ {r} : Stored(v, o) => Stored(w, o)
    BY <1>11
  <2> QED BY <1>8, <2>1, <2>2, <2>3, <2>4, <2>5 DEF Retires
<1> QED BY <1>23, <1>24

-----------------------------------------------------------------------------
(* A request that is admitted.                                             *)

\* v is w with r, which has nothing yet.
Joins(w, v, r, num) ==
  /\ v \in Workers /\ RcOk(v.rc) /\ v.kv = w.kv /\ v.active = w.active /\ v.offload = w.offload
  /\ v.rc.cap = w.rc.cap
  /\ \A o \in Req \ {r} : v.req[o] = w.req[o]
  /\ v.req[r] # None /\ v.req[r].num = num /\ v.req[r].out = <<>> /\ v.req[r].cache = None
  /\ \A o \in Req : Stored(v, o) => /\ v.rc.snapshots[o] = w.rc.snapshots[o]
                                    /\ o \in v.rc.finished <=> o \in w.rc.finished

LEMMA JoinsKeeps ==
  ASSUME NEW K \in [Req -> Seq(Text)], NEW w, Sound(w, K), NEW r \in Req, w.req[r] = None, ~Stored(w, r),
         K[r] = Prompt[r], NEW num \in Nat, num <= Len(K[r]), NEW v, Joins(w, v, r, num), Slotted(v)
  PROVE  Sound(v, K)
<1>1. \A o \in Req : Cached(v, o) => o # r /\ Cached(w, o)
  BY DEF Joins, Cached
<1>2. \A o \in Req : Stored(v, o) => /\ o # r /\ Stored(w, o) /\ v.rc.snapshots[o] = w.rc.snapshots[o]
                                     /\ o \in v.rc.finished <=> o \in w.rc.finished
  BY DEF Joins, Stored
<1>3. v \in Workers /\ RcOk(v.rc) /\ v.kv = w.kv /\ \A o \in Req \ {r} : v.req[o] = w.req[o]
  BY DEF Joins
<1>4. Owned(v)
  <2>0. Owned(w) /\ \A o \in Req : Cached(v, o) => v.req[o] = w.req[o]
    BY <1>1, <1>3 DEF Sound
  <2>1. \A q, o \in Req : Cached(v, q) /\ Cached(v, o) /\ v.req[q].cache = v.req[o].cache => q = o
    BY <1>1, <2>0 DEF Owned
  <2>2. \A q, o \in Req : Cached(v, q) /\ Stored(v, o) => v.req[q].cache # v.rc.snapshots[o].cache
    BY SMTT(30), <1>1, <1>2, <2>0 DEF Owned
  <2>3. \A q, o \in Req : Stored(v, q) /\ Stored(v, o)
           /\ v.rc.snapshots[q].cache = v.rc.snapshots[o].cache => q = o
    BY <1>2, <2>0 DEF Owned
  <2> QED BY <2>1, <2>2, <2>3 DEF Owned
<1>5. Placed(v)
  <2>1. \A o \in Req \ {r} : SlotKey(v, o) = SlotKey(w, o)
    BY SMTT(30), <1>3 DEF SlotKey
  <2>2. \A o \in Req : Cached(v, o) => v.kv.obj[v.req[o].cache].row = SlotKey(v, o)
    BY SMTT(30), <1>1, <1>3, <2>1 DEF Sound, Placed
  <2>3. \A o \in Req : Stored(v, o) => v.kv.obj[v.rc.snapshots[o].cache].row \in Slot
    BY <1>2, <1>3 DEF Sound, Placed
  <2>4. \A s \in Slot : v.kv.owner[s] # None => v.kv.obj[v.kv.owner[s]].row = s
    BY <1>3 DEF Sound, Placed
  <2>5. \A o \in Req, s \in Slot : Stored(v, o) /\ v.kv.owner[s] = v.rc.snapshots[o].cache =>
           v.req[o] = None /\ v.rc.snapshots[o].num > 0
    BY <1>2, <1>3 DEF Sound, Placed
  <2> QED BY <2>2, <2>3, <2>4, <2>5 DEF Placed
<1>6. Marked(v)
  BY <1>2, <1>3 DEF Sound, Marked
<1>7. Holds(v, K)
  <2> SUFFICES ASSUME NEW o \in Req, v.req[o] # None
               PROVE  /\ Tokens(v, o) = K[o] /\ v.req[o].num <= Len(K[o])
                      /\ v.req[o].cache # None => Starts(v.kv.obj[v.req[o].cache].tokens, K[o])
    BY DEF Holds
  <2>1. CASE o = r
    <3>1. Prompt[r] \in Seq(Text)
      OBVIOUS
    <3>2. Tokens(v, r) = Prompt[r] \o <<>>
      BY DEF Joins, Tokens
    <3>3. Prompt[r] \o <<>> = Prompt[r]
      BY <3>1, ConcatEmptySeq
    <3> QED BY <2>1, <3>2, <3>3 DEF Joins
  <2>2. CASE o # r
    <3>1. v.req[o] = w.req[o] /\ Tokens(v, o) = Tokens(w, o)
      BY <1>3, <2>2 DEF Tokens
    <3> QED BY <1>3, <3>1 DEF Sound, Holds
  <2> QED BY <2>1, <2>2
<1>8. Honest(v, K)
  BY <1>2, <1>3 DEF Sound, Honest
<1> QED BY <1>3, <1>4, <1>5, <1>6, <1>7, <1>8 DEF Sound

\* The state of a request admitted.
Fresh(num, blocks, slot) ==
  [num |-> num, out |-> <<>>, slot |-> slot, cache |-> None, blocks |-> blocks, pos |-> 1]

\* The worker with a request admitted and the manager m.
Seats(w, v, r, m, state) == v = [w EXCEPT !.rc = m, !.req[r] = state]

LEMMA SeatsIs ==
  ASSUME NEW w \in Workers, NEW r \in Req, NEW num \in Nat, NEW blocks \in Seq(Block),
         NEW slot \in Slot \cup {None}, NEW m, RcOk(m), m.cap = w.rc.cap,
         \A o \in Req : m.snapshots[o] # None => /\ m.snapshots[o] = w.rc.snapshots[o]
                                                 /\ o \in m.finished <=> o \in w.rc.finished,
         NEW state, state = Fresh(num, blocks, slot), NEW v, Seats(w, v, r, m, state)
  PROVE  Joins(w, v, r, num) /\ v.rc = m /\ v.req[r].slot = slot
<1> DEFINE req == [w.req EXCEPT ![r] = state]
<1>1. <<>> \in Seq(Tok) /\ 1 \in Nat
  OBVIOUS
<1>2. state \in RequestStates
  BY <1>1 DEF Fresh, RequestStates
<1>3. state # None
  BY <1>2, RecordAssumption
<1>4. w.req \in [Req -> RequestStates \cup {None}]
  BY DEF Workers
<1>5. /\ req \in [Req -> RequestStates \cup {None}] /\ req[r] = state
      /\ \A o \in Req \ {r} : req[o] = w.req[o]
  BY <1>2, <1>4
<1>6. v = [w EXCEPT !.rc = m, !.req = req]
  BY DEF Seats, Workers
<1> HIDE DEF req
<1>7. m \in Managers(Snapshots, Nat)
  BY DEF RcOk
<1>8. /\ v \in Workers /\ v.rc = m /\ v.req = req /\ v.kv = w.kv /\ v.active = w.active
      /\ v.offload = w.offload
  BY <1>5, <1>6, <1>7 DEF Workers
<1>9. /\ state.num = num /\ state.out = <<>> /\ state.cache = None /\ state.slot = slot
  BY DEF Fresh
<1>10. Joins(w, v, r, num)
  BY <1>3, <1>5, <1>8, <1>9 DEF Joins, Stored
<1> QED BY <1>5, <1>8, <1>9, <1>10

LEMMA VictimRankType ==
  ASSUME NEW w, RcOk(w.rc), NEW cost
  PROVE  VictimRank(w, cost) \in [Slot -> Nat \X Nat]
<1>1. \A o : FinishedSnapshotAge(w.rc, o) \in Nat
  <2> SUFFICES ASSUME NEW o PROVE FinishedSnapshotAge(w.rc, o) \in Nat
    OBVIOUS
  <2> DEFINE older == {q \in w.rc.finished : <<q, o>> \in w.rc.older}
  <2>1. IsFiniteSet(w.rc.finished) /\ Cardinality(w.rc.finished) \in Nat
    BY RcOkIs
  <2>2. IsFiniteSet(older)
    BY <2>1, FS_Subset
  <2>3. Cardinality(older) \in Nat
    BY <2>2, FS_CardinalityType
  <2> QED BY <2>1, <2>3 DEF FinishedSnapshotAge
<1> QED BY <1>1 DEF VictimRank

\* v is w once r has the slot that m gives it.
Places(w, v, r, m) == v = [w EXCEPT !.rc = m, !.req[r].slot = m.req_to_slot[r]]

\* m is what assigning r a slot of n leaves.
Assigns(n, m, r) ==
  \E prefixSlot, rank : rank \in [Slot -> Nat \X Nat] /\ m = AssignSlot(n, r, prefixSlot, rank)

LEMMA AssignCacheSlotForm ==
  ASSUME NEW w \in Workers, RcOk(w.rc), NEW r \in Req, NEW cost, NEW v \in AssignCacheSlot(w, r, cost)
  PROVE  \E n, m : Thins(w.rc, n) /\ Assigns(n, m, r) /\ Places(w, v, r, m)
<1> DEFINE resident == ResidentSnapshots(w, w.rc.free_slots)
           matches == resident # {} /\ EnablePrefixCaching /\ w.req[r].num > 0
                       /\ ~RecomputesPromptLogprobs(w, r)
           left == IF matches THEN DropStaleResident(w, r, resident) ELSE w
           prefixes == IF matches THEN MatchResident(w, r, resident) ELSE {NoMatch}
           slotOf(match) == IF match.req # None /\ ShouldTakeOver(match.tokens)
                            THEN SlotHolding(w, match.req) ELSE None
           n == left.rc
<1>1. PICK match \in prefixes :
        v = [left EXCEPT !.rc = AssignSlot(n, r, slotOf(match), VictimRank(left, cost)),
                         !.req[r].slot = AssignSlot(n, r, slotOf(match), VictimRank(left, cost)).req_to_slot[r]]
  BY Zenon DEF AssignCacheSlot
<1> DEFINE m == AssignSlot(n, r, slotOf(match), VictimRank(left, cost))
<1>2. Thins(w.rc, n) /\ left = [w EXCEPT !.rc = n]
  <2>1. CASE matches
    <3> DEFINE k == DropStale(w.rc, RuntimeCacheRequest(w, r), resident)
    <3>1. left = [w EXCEPT !.rc = k]
      BY <2>1 DEF DropStaleResident
    <3>2. k = RemoveSnapshots(w.rc, StaleSnapshots(w.rc, RuntimeCacheRequest(w, r), resident))
      BY DEF DropStale
    <3> HIDE DEF k, left
    <3>3. Thins(w.rc, k)
      BY <3>2, RemoveThins
    <3>4. n = k
      BY <3>1 DEF Workers
    <3> QED BY <3>1, <3>3, <3>4
  <2>2. CASE ~matches
    <3>1. left = w
      BY <2>2
    <3>2. w = [w EXCEPT !.rc = w.rc]
      BY DEF Workers
    <3> HIDE DEF left
    <3> QED BY <3>1, <3>2, ThinsItself
  <2> QED BY <2>1, <2>2
<1>3. VictimRank(left, cost) \in [Slot -> Nat \X Nat]
  <2>1. RcOk(left.rc)
    BY SMTT(30), <1>2 DEF Thins
  <2> HIDE DEF left
  <2> QED BY <2>1, VictimRankType
<1>4. v = [left EXCEPT !.rc = m, !.req[r].slot = m.req_to_slot[r]]
  BY Zenon, <1>1
<1>5. Assigns(n, m, r)
  <2> DEFINE rank == VictimRank(left, cost)
             prefixSlot == slotOf(match)
  <2>1. rank \in [Slot -> Nat \X Nat] /\ m = AssignSlot(n, r, prefixSlot, rank)
    BY <1>3
  <2> HIDE DEF m, n, rank, prefixSlot
  <2> QED BY <2>1 DEF Assigns
<1> HIDE DEF m, n, left
<1>6. Places(w, v, r, m)
  BY <1>2, <1>4 DEF Places, Workers
<1> QED BY <1>2, <1>5, <1>6

\* Nothing is known of r yet, and the batch has a slot for it.
Enters(w, r) == w.req[r] = None /\ ~Stored(w, r) /\ (Batch => CanAssignSlot(w.rc, r))

\* m is what w's manager becomes when r is given a slot.
Seated(w, m, r) ==
  /\ RcOk(m) /\ m.cap = w.rc.cap /\ m.req_to_slot[r] \in Slot
  /\ \A o \in Req \ {r} : m.req_to_slot[o] = w.rc.req_to_slot[o]
  /\ \A o \in Req : m.snapshots[o] # None => /\ m.snapshots[o] = w.rc.snapshots[o]
                                             /\ o \in m.finished <=> o \in w.rc.finished

LEMMA SeatedIs ==
  ASSUME NEW w \in Workers, RcOk(w.rc), Slotted(w), NEW r \in Req, Enters(w, r),
         NEW x, Thins(w.rc, x), NEW n, Thins(x, n), NEW m, Assigns(n, m, r), Batch
  PROVE  Seated(w, m, r)
<1>1. Thins(w.rc, n)
  BY ThinsTrans
<1>2. RcOk(n) /\ SameSlots(w.rc, n) /\ n.cap = w.rc.cap
  BY <1>1 DEF Thins
<1>3. w.rc.req_to_slot[r] = None
  BY DEF Enters, Slotted
<1>4. n.req_to_slot[r] = None /\ n.free_slots # {}
  BY <1>2, <1>3 DEF Enters, CanAssignSlot, SameSlots
<1>5. PICK prefixSlot, rank : rank \in [Slot -> Nat \X Nat] /\ m = AssignSlot(n, r, prefixSlot, rank)
  BY DEF Assigns
<1>6. RcOk(m) /\ m.cap = n.cap /\ m.snapshots = n.snapshots /\ m.finished = n.finished
  BY <1>2, <1>4, <1>5, AssignIs
<1>7. m.req_to_slot[r] \in Slot /\ \A o \in Req \ {r} : m.req_to_slot[o] = n.req_to_slot[o]
  BY <1>2, <1>4, <1>5, AssignIs
<1> QED BY <1>1, <1>2, <1>6, <1>7 DEF Thins, SameSlots, Seated

\* The worker before r gets a slot.
Noted(w, x, r, num, blocks) ==
  x = [w EXCEPT !.rc = ObserveRequestBlocks(@, r, blocks), !.req[r] = Fresh(num, blocks, None)]

LEMMA NotedIs ==
  ASSUME NEW w \in Workers, RcOk(w.rc), NEW r \in Req, NEW num \in Nat, NEW blocks \in Seq(Block),
         NEW x, Noted(w, x, r, num, blocks)
  PROVE  Thins(w.rc, x.rc) /\ Joins(w, x, r, num) /\ x.req[r].slot = None
<1> DEFINE m == ObserveRequestBlocks(w.rc, r, blocks)
           slot == None
           state == Fresh(num, blocks, slot)
<1>1. m = ObserveRequestBlocks(w.rc, r, blocks) /\ state = Fresh(num, blocks, slot) /\ slot \in Slot \cup {None}
  OBVIOUS
<1>2. Seats(w, x, r, m, state)
  BY DEF Noted, Seats
<1> HIDE DEF m, state, slot
<1>3. Thins(w.rc, m) /\ m.snapshots = w.rc.snapshots /\ m.finished = w.rc.finished
  BY <1>1, ObserveThins
<1>4. RcOk(m) /\ m.cap = w.rc.cap
  BY <1>3 DEF Thins
<1>5. Joins(w, x, r, num) /\ x.rc = m /\ x.req[r].slot = slot
  BY <1>1, <1>2, <1>3, <1>4, SeatsIs
<1> QED BY <1>3, <1>5 DEF slot

LEMMA AdmitIs ==
  ASSUME NEW K \in [Req -> Seq(Text)], NEW w, Sound(w, K), NEW r \in Req, Enters(w, r),
         K[r] = Prompt[r], NEW num \in Nat, num <= Len(K[r]), NEW blocks \in Seq(Block), NEW cost,
         NEW v \in AdmitRequest(w, r, num, blocks, cost)
  PROVE  Sound(v, K) /\ Joins(w, v, r, num)
<1> DEFINE x == [w EXCEPT !.rc = ObserveRequestBlocks(@, r, blocks),
                          !.req[r] = [num |-> num, out |-> <<>>, slot |-> None,
                                      cache |-> None, blocks |-> blocks, pos |-> 1]]
<1>1. v \in IF Batch THEN AssignCacheSlot(x, r, cost) ELSE {x}
  BY DEF AdmitRequest
<1>2. Noted(w, x, r, num, blocks)
  BY DEF Noted, Fresh
<1> HIDE DEF x
<1>3. w \in Workers /\ RcOk(w.rc) /\ Slotted(w)
  BY DEF Sound
<1>4. Thins(w.rc, x.rc) /\ Joins(w, x, r, num) /\ x.req[r].slot = None
  BY <1>2, <1>3, NotedIs
<1>5. w.req[r] = None /\ ~Stored(w, r)
  BY DEF Enters
<1>6. CASE ~Batch
  <2>1. v = x
    BY <1>1, <1>6
  <2>2. Slotted(x)
    <3>1. \A o \in Req \ {r} : x.req[o] = w.req[o]
      BY <1>4 DEF Joins
    <3> QED BY <1>3, <1>4, <1>6, <3>1 DEF Slotted
  <2>3. Sound(x, K)
    BY <1>4, <1>5, <2>2, JoinsKeeps
  <2> QED BY <1>4, <2>1, <2>3
<1>7. CASE Batch
  <2>1. v \in AssignCacheSlot(x, r, cost)
    BY <1>1, <1>7
  <2>2. x \in Workers /\ RcOk(x.rc)
    BY <1>4 DEF Joins
  <2>3. PICK n, m : Thins(x.rc, n) /\ Assigns(n, m, r) /\ Places(x, v, r, m)
    BY <2>1, <2>2, AssignCacheSlotForm
  <2> DEFINE y == x.rc
             slot == m.req_to_slot[r]
             state == Fresh(num, blocks, slot)
  <2>4. Thins(w.rc, y) /\ Thins(y, n)
    BY <1>4, <2>3
  <2> HIDE DEF y
  <2>5a. Seated(w, m, r)
    <3>1. /\ w \in Workers /\ RcOk(w.rc) /\ Slotted(w) /\ Enters(w, r)
          /\ Thins(w.rc, y) /\ Thins(y, n) /\ Assigns(n, m, r) /\ Batch
      BY <1>3, <1>7, <2>3, <2>4
    <3> QED BY <3>1, SeatedIs
  <2>5. RcOk(m) /\ m.cap = w.rc.cap /\ m.req_to_slot[r] \in Slot
    BY <2>5a DEF Seated
  <2>6. \A o \in Req \ {r} : m.req_to_slot[o] = w.rc.req_to_slot[o]
    BY <2>5a DEF Seated
  <2>7. \A o \in Req : m.snapshots[o] # None => /\ m.snapshots[o] = w.rc.snapshots[o]
                                                /\ o \in m.finished <=> o \in w.rc.finished
    BY <2>5a DEF Seated
  <2>8. Seats(w, v, r, m, state)
    <3>1. x = [w EXCEPT !.rc = ObserveRequestBlocks(w.rc, r, blocks), !.req[r] = Fresh(num, blocks, None)]
      BY <1>2 DEF Noted
    <3>2. v = [x EXCEPT !.rc = m, !.req[r].slot = slot]
      BY <2>3 DEF Places
    <3> DEFINE req == [w.req EXCEPT ![r] = Fresh(num, blocks, None)]
               more == [req EXCEPT ![r].slot = slot]
               seated == [w.req EXCEPT ![r] = Fresh(num, blocks, slot)]
    <3>3. w.req \in [Req -> RequestStates \cup {None}]
      BY <1>3 DEF Workers
    <3>4. more = seated
      BY SMTT(30), <3>3 DEF Fresh
    <3>5. v = [w EXCEPT !.rc = m, !.req = more]
      BY <1>3, <3>1, <3>2 DEF Workers
    <3> HIDE DEF more, seated
    <3>6. v = [w EXCEPT !.rc = m, !.req = seated]
      BY <3>4, <3>5
    <3> QED BY <1>3, <3>6 DEF Seats, Workers, seated
  <2>9. slot \in Slot \cup {None} /\ state = Fresh(num, blocks, slot) /\ slot = m.req_to_slot[r]
    BY <2>5
  <2> HIDE DEF slot, state
  <2>10. Joins(w, v, r, num) /\ v.rc = m /\ v.req[r].slot = slot
    BY <1>3, <2>5, <2>7, <2>8, <2>9, SeatsIs
  <2>11. Slotted(v)
    <3>1. \A o \in Req \ {r} : v.req[o] = w.req[o]
      BY <2>10 DEF Joins
    <3>2. v.req[r] # None /\ v.rc.req_to_slot[r] # None
      BY <2>5, <2>10, NoneIs DEF Joins
    <3> QED BY <1>3, <1>7, <2>6, <2>9, <2>10, <3>1, <3>2 DEF Slotted
  <2>12. Sound(v, K)
    BY <1>5, <2>10, <2>11, JoinsKeeps
  <2> QED BY <2>10, <2>12
<1> QED BY <1>6, <1>7

-----------------------------------------------------------------------------
(* A request that continues, runs, and gets a token.                       *)

\* v is w with the same caches placed and slots held as before, and the text L, which
\* goes on from K.
Evolves(w, v, K, L) ==
  /\ v \in Workers /\ RcOk(v.rc) /\ SameSlots(w.rc, v.rc)
  /\ v.rc.snapshots = w.rc.snapshots /\ v.rc.finished = w.rc.finished
  /\ v.kv.owner = w.kv.owner
  /\ \A c \in Cache : v.kv.obj[c].row = w.kv.obj[c].row
  /\ \A r \in Req : w.req[r] # None <=> v.req[r] # None
  /\ \A r \in Req : v.req[r] # None =>
        v.req[r].slot = w.req[r].slot /\ v.req[r].cache = w.req[r].cache
  /\ \A o \in Req : Stored(w, o) =>
        v.kv.obj[w.rc.snapshots[o].cache].tokens = w.kv.obj[w.rc.snapshots[o].cache].tokens
  /\ \A r \in Req : Starts(K[r], L[r])
  /\ Holds(v, L)

LEMMA EvolvesKeeps ==
  ASSUME NEW K \in [Req -> Seq(Text)], NEW L \in [Req -> Seq(Text)], NEW w, Sound(w, K),
         NEW v, Evolves(w, v, K, L)
  PROVE  Sound(v, L)
<1>1. /\ \A r \in Req : Cached(v, r) <=> Cached(w, r)
      /\ \A r \in Req : Cached(v, r) => v.req[r].cache = w.req[r].cache
      /\ \A o \in Req : Stored(v, o) <=> Stored(w, o)
  BY SMTT(30) DEF Evolves, Cached, Stored
<1>2. Owned(v)
  BY SMTT(30), <1>1 DEF Evolves, Sound, Owned
<1>3. Placed(v)
  <2>1. \A r \in Req : Cached(v, r) => v.kv.obj[v.req[r].cache].row = SlotKey(v, r)
    <3> SUFFICES ASSUME NEW r \in Req, Cached(v, r) PROVE v.kv.obj[v.req[r].cache].row = SlotKey(v, r)
      OBVIOUS
    <3>1. w \in Workers /\ Cached(w, r)
      BY <1>1 DEF Sound
    <3>2. v.req[r].cache = w.req[r].cache /\ w.req[r].cache \in Cache
      BY <1>1, <3>1, WorkerIs
    <3>3. w.kv.obj[w.req[r].cache].row = SlotKey(w, r)
      BY SMTT(30), <3>1 DEF Sound, Placed
    <3>4. SlotKey(v, r) = SlotKey(w, r)
      BY DEF SlotKey, Evolves, Cached
    <3> QED BY <3>2, <3>3, <3>4 DEF Evolves
  <2>2. \A o \in Req : Stored(v, o) => v.kv.obj[v.rc.snapshots[o].cache].row \in Slot
    <3> SUFFICES ASSUME NEW o \in Req, Stored(v, o) PROVE v.kv.obj[v.rc.snapshots[o].cache].row \in Slot
      OBVIOUS
    <3>1. w \in Workers /\ Stored(w, o)
      BY <1>1 DEF Sound
    <3>2. w.rc.snapshots[o].cache \in Cache
      BY <3>1, WorkerIs
    <3> QED BY ZenonT(30), <3>1, <3>2 DEF Evolves, Sound, Placed
  <2>3. \A s \in Slot : v.kv.owner[s] # None => v.kv.obj[v.kv.owner[s]].row = s
    <3> SUFFICES ASSUME NEW s \in Slot, v.kv.owner[s] # None PROVE v.kv.obj[v.kv.owner[s]].row = s
      OBVIOUS
    <3>1. v.kv.owner[s] = w.kv.owner[s]
      BY DEF Evolves
    <3>2. w.kv.obj[w.kv.owner[s]].row = s
      BY SMTT(30), <3>1 DEF Sound, Placed
    <3>3. v.kv.owner[s] \in Cache
      BY DEF Evolves, Workers, Kvs
    <3> QED BY <3>1, <3>2, <3>3 DEF Evolves
  <2>4. \A o \in Req, s \in Slot : Stored(v, o) /\ v.kv.owner[s] = v.rc.snapshots[o].cache =>
          v.req[o] = None /\ v.rc.snapshots[o].num > 0
    BY ZenonT(30), <1>1 DEF Evolves, Sound, Placed
  <2> QED BY SMTT(30), <2>1, <2>2, <2>3, <2>4 DEF Placed
<1>4. Marked(v)
  BY <1>1 DEF Evolves, Sound, Marked
<1>5. Slotted(v)
  BY DEF Evolves, Sound, Slotted, SameSlots
<1>6. Honest(v, L)
  <2> SUFFICES ASSUME NEW o \in Req, Stored(v, o)
               PROVE  IsHonest(v.rc.snapshots[o], o, v.kv.obj[v.rc.snapshots[o].cache].tokens, L[o])
    BY DEF Honest
  <2> DEFINE s == w.rc.snapshots[o]
             tokens == w.kv.obj[s.cache].tokens
  <2>1. Stored(w, o) /\ v.rc.snapshots[o] = s
    BY SMTT(30), <1>1 DEF Evolves
  <2>2. v.kv.obj[s.cache].tokens = tokens
    BY SMTT(30), <2>1 DEF Evolves
  <2>3. IsHonest(s, o, tokens, K[o])
    BY SMTT(30), <2>1 DEF Sound, Honest
  <2>4. Starts(K[o], L[o])
    BY DEF Evolves
  <2>5. s.num \in Nat
    BY <2>1, WorkerIs DEF Sound
  <2>6. Len(K[o]) \in Nat /\ Len(L[o]) \in Nat
    OBVIOUS
  <2> HIDE DEF s, tokens
  <2>7. IsHonest(s, o, tokens, L[o])
    BY <2>3, <2>4, <2>5, <2>6 DEF IsHonest, Starts
  <2> QED BY <2>1, <2>2, <2>7
<1> QED BY <1>2, <1>3, <1>4, <1>5, <1>6 DEF Sound, Evolves

\* v is w with num of r's tokens computed.
Moves(w, v, r, num) ==
  /\ v.kv = w.kv /\ v.active = w.active /\ v.offload = w.offload
  /\ SameSlots(w.rc, v.rc) /\ v.rc.cap = w.rc.cap
  /\ v.rc.snapshots = w.rc.snapshots /\ v.rc.finished = w.rc.finished
  /\ \A o \in Req \ {r} : v.req[o] = w.req[o]
  /\ w.req[r] # None /\ v.req[r] # None /\ v.req[r].num = num
  /\ v.req[r].out = w.req[r].out /\ v.req[r].slot = w.req[r].slot /\ v.req[r].cache = w.req[r].cache

LEMMA StartsItself ==
  ASSUME NEW s \in Seq(Text)
  PROVE  Starts(s, s)
<1>1. Len(s) <= Len(s)
  OBVIOUS
<1> QED BY <1>1 DEF Starts

LEMMA MovesKeeps ==
  ASSUME NEW K \in [Req -> Seq(Text)], NEW w, Sound(w, K), NEW r \in Req, NEW num \in Nat, num <= Len(K[r]),
         NEW v \in Workers, RcOk(v.rc), Moves(w, v, r, num)
  PROVE  Sound(v, K)
<1>1. Holds(v, K)
  <2> SUFFICES ASSUME NEW o \in Req, v.req[o] # None
               PROVE  /\ Tokens(v, o) = K[o] /\ v.req[o].num <= Len(K[o])
                      /\ v.req[o].cache # None => Starts(v.kv.obj[v.req[o].cache].tokens, K[o])
    BY DEF Holds
  <2>1. w.req[o] # None /\ v.req[o].out = w.req[o].out /\ v.req[o].cache = w.req[o].cache
    BY DEF Moves
  <2>2. /\ Tokens(w, o) = K[o] /\ w.req[o].num <= Len(K[o])
        /\ w.req[o].cache # None => Starts(w.kv.obj[w.req[o].cache].tokens, K[o])
    BY <2>1 DEF Sound, Holds
  <2>3. Tokens(v, o) = K[o]
    BY <2>1, <2>2 DEF Tokens
  <2>4. v.req[o].num <= Len(K[o])
    BY <2>2 DEF Moves
  <2> QED BY <2>1, <2>2, <2>3, <2>4 DEF Moves
<1>2. \A o \in Req : Starts(K[o], K[o])
  BY StartsItself
<1>3. Evolves(w, v, K, K)
  BY <1>1, <1>2 DEF Evolves, Moves
<1> QED BY <1>3, EvolvesKeeps

\* r's state with its tokens counted, and its blocks.
Counted(w, r, num, blocks) == [w.req[r] EXCEPT !.num = num, !.blocks = blocks]

\* The worker with r continued and the manager m.
Continues(w, v, r, m, state) == v = [w EXCEPT !.rc = m, !.req[r] = state]

LEMMA ContinuesIs ==
  ASSUME NEW w \in Workers, NEW r \in Req, w.req[r] # None, NEW num \in Nat, NEW blocks \in Seq(Block),
         NEW m, RcOk(m), Thins(w.rc, m), m.snapshots = w.rc.snapshots, m.finished = w.rc.finished,
         NEW state, state = Counted(w, r, num, blocks), NEW v, Continues(w, v, r, m, state)
  PROVE  v \in Workers /\ RcOk(v.rc) /\ Moves(w, v, r, num)
<1>1. w.req[r] \in RequestStates
  BY WorkerIs
<1>2. /\ state \in RequestStates /\ state.num = num /\ state.out = w.req[r].out
      /\ state.slot = w.req[r].slot /\ state.cache = w.req[r].cache
  BY <1>1 DEF Counted, RequestStates
<1>3. state # None
  BY <1>2, RecordAssumption
<1>4. m \in Managers(Snapshots, Nat)
  BY DEF RcOk
<1> DEFINE req == [w.req EXCEPT ![r] = state]
<1>5. /\ req \in [Req -> RequestStates \cup {None}] /\ req[r] = state
      /\ \A o \in Req \ {r} : req[o] = w.req[o]
  BY <1>2 DEF Workers
<1>6. v = [w EXCEPT !.rc = m, !.req = req]
  BY DEF Continues
<1> HIDE DEF req
<1>7. v \in Workers
  BY <1>4, <1>5, <1>6 DEF Workers
<1>8. /\ v.rc = m /\ v.req = req /\ v.kv = w.kv /\ v.active = w.active /\ v.offload = w.offload
  BY <1>6 DEF Workers
<1> QED BY <1>2, <1>3, <1>5, <1>7, <1>8 DEF Moves, Thins

LEMMA ContinueIs ==
  ASSUME NEW K \in [Req -> Seq(Text)], NEW w, Sound(w, K), NEW r \in Req, w.req[r] # None,
         NEW num \in Nat, num <= Len(K[r]), NEW blocks \in Seq(Block), NEW resumed,
         NEW v, v = ContinueRequest(w, r, num, blocks, resumed)
  PROVE  Sound(v, K) /\ Moves(w, v, r, num)
<1>1. w \in Workers /\ RcOk(w.rc)
  BY DEF Sound
<1>2. w.req[r] \in RequestStates /\ w.req[r].blocks \in Seq(Block)
  BY <1>1, WorkerIs
<1> DEFINE table == IF resumed THEN blocks ELSE w.req[r].blocks \o blocks
           m == IF blocks = <<>> THEN w.rc ELSE ObserveRequestBlocks(w.rc, r, table)
           held == IF blocks = <<>> THEN w.req[r].blocks ELSE table
           state == Counted(w, r, num, held)
<1>3. Thins(w.rc, m) /\ m.snapshots = w.rc.snapshots /\ m.finished = w.rc.finished
  <2>1. CASE blocks = <<>>
    BY <1>1, <2>1, ThinsItself
  <2>2. CASE blocks # <<>>
    <3> DEFINE n == ObserveRequestBlocks(w.rc, r, table)
    <3>1. n = ObserveRequestBlocks(w.rc, r, table)
      OBVIOUS
    <3> HIDE DEF n
    <3>2. Thins(w.rc, n) /\ n.snapshots = w.rc.snapshots /\ n.finished = w.rc.finished
      BY <1>1, <3>1, ObserveThins
    <3>3. m = n
      BY <2>2, <3>1
    <3> QED BY <3>2, <3>3
  <2> QED BY <2>1, <2>2
<1>4. held \in Seq(Block)
  <2>1. table \in Seq(Block)
    BY <1>2
  <2> QED BY <1>2, <2>1
<1>5. Continues(w, v, r, m, state)
  <2>1. CASE blocks = <<>>
    <3>1. v = [w EXCEPT !.req[r].num = num]
      BY <2>1 DEF ContinueRequest
    <3>2. state = [w.req[r] EXCEPT !.num = num]
      BY <1>2, <2>1 DEF Counted, RequestStates
    <3> HIDE DEF state
    <3>3. [w EXCEPT !.rc = w.rc, !.req[r] = state] = [w EXCEPT !.req[r] = state]
      BY <1>1 DEF Workers
    <3>4. [w EXCEPT !.req[r].num = num] = [w EXCEPT !.req[r] = state]
      BY <1>1, <3>2 DEF Workers
    <3> QED BY <2>1, <3>1, <3>3, <3>4 DEF Continues
  <2>2. CASE blocks # <<>>
    <3> DEFINE moved == [w EXCEPT !.req[r].num = num]
               counted == [w.req EXCEPT ![r].num = num]
               req == [counted EXCEPT ![r].blocks = table]
    <3>1. v = [moved EXCEPT !.req[r].blocks = table, !.rc = ObserveRequestBlocks(@, r, table)]
      BY <2>2 DEF ContinueRequest
    <3>2. moved = [w EXCEPT !.req = counted]
      OBVIOUS
    <3>3. moved.rc = w.rc /\ moved.req = counted
      BY <1>1, <3>2 DEF Workers
    <3>4. v = [moved EXCEPT !.req[r].blocks = table, !.rc = m]
      BY <2>2, <3>1, <3>3
    <3>5. w.req \in [Req -> RequestStates \cup {None}]
      BY <1>1 DEF Workers
    <3>6. state = [w.req[r] EXCEPT !.num = num, !.blocks = table]
      BY <2>2 DEF Counted
    <3> HIDE DEF state
    <3>7. req = [w.req EXCEPT ![r] = state]
      <4>1. counted[r] = [w.req[r] EXCEPT !.num = num]
        BY <3>5
      <4>2. [counted[r] EXCEPT !.blocks = table] = state
        BY <1>2, <3>6, <4>1 DEF RequestStates
      <4>3. \A o \in Req \ {r} : counted[o] = w.req[o]
        BY <3>5
      <4>4. counted = [o \in Req |-> IF o = r THEN [w.req[o] EXCEPT !.num = num] ELSE w.req[o]]
        BY <3>5
      <4> QED BY <3>5, <4>1, <4>2, <4>3, <4>4
    <3> HIDE DEF m, table
    <3>8. v = [w EXCEPT !.rc = m, !.req = req]
      BY <1>1, <3>2, <3>4 DEF Workers
    <3> HIDE DEF req
    <3>9. v = [w EXCEPT !.rc = m, !.req = [w.req EXCEPT ![r] = state]]
      BY <3>7, <3>8
    <3> QED BY <1>1, <3>9 DEF Continues, Workers
  <2> QED BY <2>1, <2>2
<1>6. state = Counted(w, r, num, held)
  OBVIOUS
<1> HIDE DEF m, held, state
<1>7. RcOk(m)
  BY <1>3 DEF Thins
<1>8. v \in Workers /\ RcOk(v.rc) /\ Moves(w, v, r, num)
  BY <1>1, <1>3, <1>4, <1>5, <1>6, <1>7, ContinuesIs
<1> QED BY <1>8, MovesKeeps
=============================================================================
