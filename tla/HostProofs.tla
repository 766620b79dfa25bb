------------------------------ MODULE HostProofs ------------------------------
(***************************************************************************)
(* Theorems about what the host does around the model: the vision inputs   *)
(* it prepares, for any features, contents, budget, batch limits and       *)
(* steps, and the tokens it samples, for any batches, weights, vocabulary, *)
(* sizes of the searches and rounding.                                     *)
(***************************************************************************)
EXTENDS VisionInputs, HostSampling, SequenceTheorems, FiniteSetTheorems, WellFoundedInduction, TLAPS

-----------------------------------------------------------------------------
(* Vision inputs.                                                          *)

Outputs == {Output(f) : f \in Feature}

Entry == [key : AllKeys, item : Outputs]

TypeOK ==
  /\ items \in Seq(Entry)
  /\ pc \in {"idle", "scan", "encode", "dead"}
  /\ step \in Seq(Feature) /\ todo \in Seq(Feature) /\ pending \in Seq(Feature)
  /\ batch \in Seq(Feature) /\ ready \in Seq(Feature)
  /\ repeats \in [AllKeys -> (SUBSET Feature) \cup {None}]
  /\ encoded \in [Feature -> Outputs \cup {None}]

Elements(s) == {s[i] : i \in DOMAIN s}

\* An entry holds what the encoder gives for the items of its key.
CacheIsTrue ==
  \A e \in Elements(items) : \A f \in Feature : CacheKey(f) = e.key => e.item = Output(f)

EncodedIsTrue == \A f \in Feature : encoded[f] # None => encoded[f] = Output(f)

RepeatsShareKey ==
  \A key \in AllKeys : repeats[key] # None => \A g \in repeats[key] : CacheKey(g) = key

Awaited == Elements(pending) \cup Elements(batch) \cup Elements(ready)

\* A feature of the step has its output, was not looked at, waits for the encoder, or
\* waits for one that does.
Underway(f) ==
  \/ encoded[f] # None
  \/ f \in Elements(todo)
  \/ f \in Awaited
  \/ /\ CacheKey(f) # None /\ repeats[CacheKey(f)] # None /\ f \in repeats[CacheKey(f)]
     /\ \E g \in Awaited : CacheKey(g) = CacheKey(f)

NothingIsLost == \A f \in StepFeatures : Underway(f)

KnownKeysWait ==
  \A key \in AllKeys : repeats[key] # None =>
    \/ \E f \in Awaited : CacheKey(f) = key
    \/ pc # "scan"

AwaitedAreKnown ==
  \A f \in Awaited : CacheKey(f) # None => repeats[CacheKey(f)] # None

Phases ==
  /\ pc \in {"encode", "idle"} => todo = <<>>
  /\ pc \in {"idle", "scan"} => batch = <<>> /\ ready = <<>>
  /\ pc = "idle" => repeats = NoRepeats

Inv == /\ TypeOK /\ CacheIsTrue /\ EncodedIsTrue /\ RepeatsShareKey
       /\ NothingIsLost /\ KnownKeysWait /\ AwaitedAreKnown /\ Phases

-----------------------------------------------------------------------------
(* Sequences and keys.                                                     *)

\* Appending adds the element.
LEMMA ElementsOfAppend ==
  ASSUME NEW S, NEW s \in Seq(S), NEW x \in S
  PROVE  Append(s, x) \in Seq(S) /\ Elements(Append(s, x)) = Elements(s) \cup {x}
<1>1. Append(s, x) \in Seq(S) /\ Len(Append(s, x)) = Len(s) + 1
  OBVIOUS
<1>2. \A i \in 1 .. Len(s) : Append(s, x)[i] = s[i]
  OBVIOUS
<1>3. Append(s, x)[Len(s) + 1] = x
  OBVIOUS
<1>4. DOMAIN s = 1 .. Len(s) /\ DOMAIN Append(s, x) = 1 .. Len(s) + 1 /\ Len(s) \in Nat
  BY <1>1
<1>. QED BY <1>1, <1>2, <1>3, <1>4 DEF Elements

\* The head and the tail are the sequence.
LEMMA ElementsOfTail ==
  ASSUME NEW S, NEW s \in Seq(S), s # <<>>
  PROVE  Tail(s) \in Seq(S) /\ Head(s) \in S /\ Elements(s) = Elements(Tail(s)) \cup {Head(s)}
<1>1. /\ Tail(s) \in Seq(S) /\ Head(s) \in S /\ Len(Tail(s)) = Len(s) - 1
      /\ \A i \in 1 .. Len(Tail(s)) : Tail(s)[i] = s[i + 1]
  BY HeadTailProperties
<1>2. Len(s) \in Nat \ {0} /\ DOMAIN s = 1 .. Len(s) /\ DOMAIN Tail(s) = 1 .. Len(s) - 1
  BY <1>1, LenProperties, EmptySeq
<1>3. Head(s) = s[1]
  BY <1>2
<1>4. \A i \in 1 .. Len(s) : s[i] \in Elements(Tail(s)) \cup {Head(s)}
  <2>. TAKE i \in 1 .. Len(s)
  <2>1. CASE i = 1
    BY <2>1, <1>3
  <2>2. CASE i # 1
    <3>1. i - 1 \in 1 .. Len(s) - 1 /\ Tail(s)[i - 1] = s[i]
      BY <2>2, <1>1, <1>2
    <3>. QED BY <3>1, <1>2 DEF Elements
  <2>. QED BY <2>1, <2>2
<1>5. \A i \in 1 .. Len(s) - 1 : Tail(s)[i] \in Elements(s)
  BY <1>1, <1>2 DEF Elements
<1>6. Head(s) \in Elements(s)
  BY <1>2, <1>3 DEF Elements
<1>. QED BY <1>1, <1>2, <1>4, <1>5, <1>6 DEF Elements

\* Removing a place closes the gap.
LEMMA RemoveAtPlaces ==
  ASSUME NEW S, NEW s \in Seq(S), NEW i \in DOMAIN s
  PROVE  /\ RemoveAt(s, i) \in Seq(S) /\ s[i] \in S
         /\ Len(s) \in Nat /\ DOMAIN s = 1 .. Len(s)
         /\ Len(RemoveAt(s, i)) = Len(s) - 1 /\ DOMAIN RemoveAt(s, i) = 1 .. Len(s) - 1
         /\ \A j \in 1 .. Len(s) - 1 : RemoveAt(s, i)[j] = IF j < i THEN s[j] ELSE s[j + 1]
<1>. DEFINE a == SubSeq(s, 1, i - 1)
            b == SubSeq(s, i + 1, Len(s))
            r == RemoveAt(s, i)
<1>1. Len(s) \in Nat /\ DOMAIN s = 1 .. Len(s) /\ i \in 1 .. Len(s) /\ \A j \in 1 .. Len(s) : s[j] \in S
  BY LenProperties, ElementOfSeq
<1>2. a \in Seq(S) /\ Len(a) = i - 1 /\ \A j \in 1 .. i - 1 : a[j] = s[j]
  BY <1>1, SubSeqProperties
<1>3. b \in Seq(S) /\ Len(b) = Len(s) - i /\ \A j \in 1 .. Len(s) - i : b[j] = s[i + j]
  <2>1. \A j \in i + 1 .. Len(s) : s[j] \in S
    BY <1>1
  <2>2. /\ b \in Seq(S) /\ Len(b) = IF i + 1 <= Len(s) THEN Len(s) - (i + 1) + 1 ELSE 0
        /\ \A j \in 1 .. Len(s) - (i + 1) + 1 : b[j] = s[(i + 1) + j - 1]
    <3>. HIDE DEF b
    <3>. QED BY <2>1, <1>1, SubSeqProperties DEF b
  <2>. HIDE DEF a, b, r
  <2>3. i \in Nat /\ Len(s) \in Nat /\ i <= Len(s)
    BY <1>1
  <2>4. Len(b) = Len(s) - i
    BY <2>2, <2>3
  <2>5. ASSUME NEW j \in 1 .. Len(s) - i PROVE b[j] = s[i + j]
    <3>1. j \in 1 .. Len(s) - (i + 1) + 1 /\ (i + 1) + j - 1 = i + j
      BY <2>3
    <3>. QED BY <3>1, <2>2
  <2>. QED BY <2>2, <2>4, <2>5
<1>4. r = a \o b
  BY DEF RemoveAt
<1>. HIDE DEF a, b, r
<1>5. /\ r \in Seq(S) /\ Len(r) = Len(s) - 1
      /\ \A j \in 1 .. Len(s) - 1 : r[j] = IF j <= i - 1 THEN a[j] ELSE b[j - (i - 1)]
  <2>1. /\ r \in Seq(S) /\ Len(r) = Len(a) + Len(b)
        /\ \A j \in 1 .. Len(a) + Len(b) : r[j] = IF j <= Len(a) THEN a[j] ELSE b[j - Len(a)]
    BY <1>2, <1>3, <1>4, ConcatProperties
  <2>. QED BY <2>1, <1>1, <1>2, <1>3
<1>6. \A j \in 1 .. Len(s) - 1 : r[j] = IF j < i THEN s[j] ELSE s[j + 1]
  <2>. TAKE j \in 1 .. Len(s) - 1
  <2>1. CASE j < i
    <3>1. j \in 1 .. i - 1 /\ j <= i - 1
      BY <2>1, <1>1
    <3>. QED BY <3>1, <2>1, <1>2, <1>5
  <2>2. CASE j >= i
    <3>1. j - (i - 1) \in 1 .. Len(s) - i /\ ~(j <= i - 1) /\ i + (j - (i - 1)) = j + 1
      BY <2>2, <1>1
    <3>2. r[j] = b[j - (i - 1)]
      BY <3>1, <1>5
    <3>3. b[j - (i - 1)] = s[i + (j - (i - 1))]
      BY <3>1, <1>3
    <3>. QED BY <3>1, <3>2, <3>3, <2>2, <1>1
  <2>. QED BY <2>1, <2>2, <1>1
<1>7. DOMAIN r = 1 .. Len(s) - 1
  BY <1>5, LenProperties
<1>. QED BY <1>1, <1>5, <1>6, <1>7 DEF r

\* Removing a place leaves the elements of the others.
LEMMA ElementsOfRemoveAt ==
  ASSUME NEW S, NEW s \in Seq(S), NEW i \in DOMAIN s
  PROVE  RemoveAt(s, i) \in Seq(S) /\ s[i] \in S /\ Elements(s) = Elements(RemoveAt(s, i)) \cup {s[i]}
<1>. DEFINE r == RemoveAt(s, i)
<1>1. /\ Len(s) \in Nat /\ DOMAIN s = 1 .. Len(s) /\ i \in 1 .. Len(s) /\ s[i] \in S
      /\ r \in Seq(S) /\ DOMAIN r = 1 .. Len(s) - 1
      /\ \A j \in 1 .. Len(s) - 1 : r[j] = IF j < i THEN s[j] ELSE s[j + 1]
  BY RemoveAtPlaces
<1>. HIDE DEF r
<1>2. \A j \in 1 .. Len(s) : s[j] \in Elements(r) \cup {s[i]}
  <2>. TAKE j \in 1 .. Len(s)
  <2>1. CASE j < i
    BY <2>1, <1>1 DEF Elements
  <2>2. CASE j > i
    <3>1. j - 1 \in 1 .. Len(s) - 1 /\ r[j - 1] = s[j]
      BY <2>2, <1>1
    <3>. QED BY <3>1, <1>1 DEF Elements
  <2>. QED BY <2>1, <2>2, <1>1
<1>3. \A j \in 1 .. Len(s) - 1 : r[j] \in Elements(s)
  BY <1>1 DEF Elements
<1>4. s[i] \in Elements(s)
  BY <1>1 DEF Elements
<1>5. Elements(s) = Elements(r) \cup {s[i]}
  BY <1>1, <1>2, <1>3, <1>4 DEF Elements
<1>. QED BY <1>1, <1>5 DEF r

\* The places of an end of a sequence.
LEMMA EndPlaces ==
  ASSUME NEW S, NEW s \in Seq(S), NEW n \in 0 .. Len(s)
  PROVE  /\ SubSeq(s, n + 1, Len(s)) \in Seq(S)
         /\ Len(s) \in Nat /\ DOMAIN s = 1 .. Len(s) /\ n \in Nat /\ n <= Len(s)
         /\ Len(SubSeq(s, n + 1, Len(s))) = Len(s) - n
         /\ DOMAIN SubSeq(s, n + 1, Len(s)) = 1 .. Len(s) - n
         /\ \A j \in 1 .. Len(s) - n : SubSeq(s, n + 1, Len(s))[j] = s[n + j]
<1>. DEFINE b == SubSeq(s, n + 1, Len(s))
<1>1. Len(s) \in Nat /\ DOMAIN s = 1 .. Len(s) /\ \A j \in 1 .. Len(s) : s[j] \in S
  BY LenProperties, ElementOfSeq
<1>2. n \in Nat /\ n <= Len(s)
  BY <1>1
<1>3. b \in Seq(S) /\ Len(b) = Len(s) - n /\ \A j \in 1 .. Len(s) - n : b[j] = s[n + j]
  <2>1. \A j \in n + 1 .. Len(s) : s[j] \in S
    BY <1>1, <1>2
  <2>2. /\ b \in Seq(S) /\ Len(b) = IF n + 1 <= Len(s) THEN Len(s) - (n + 1) + 1 ELSE 0
        /\ \A j \in 1 .. Len(s) - (n + 1) + 1 : b[j] = s[(n + 1) + j - 1]
    <3>. HIDE DEF b
    <3>. QED BY <2>1, <1>1, <1>2, SubSeqProperties DEF b
  <2>. HIDE DEF b
  <2>3. Len(b) = Len(s) - n
    <3>1. Len(b) = IF n + 1 <= Len(s) THEN Len(s) - (n + 1) + 1 ELSE 0
      BY <2>2
    <3>2. Len(s) \in Nat
      BY <1>1
    <3>. QED BY <3>1, <3>2, <1>2
  <2>4. \A j \in 1 .. Len(s) - n : j \in 1 .. Len(s) - (n + 1) + 1 /\ (n + 1) + j - 1 = n + j
    BY <1>1, <1>2
  <2>5. \A j \in 1 .. Len(s) - n : b[j] = s[n + j]
    BY <2>2, <2>4
  <2>. QED BY <2>2, <2>3, <2>5
<1>. HIDE DEF b
<1>4. DOMAIN b = 1 .. Len(s) - n
  BY <1>3, LenProperties
<1>. QED BY <1>1, <1>2, <1>3, <1>4 DEF b

\* What is left of an end of a sequence is of the sequence.
LEMMA ElementsOfEnd ==
  ASSUME NEW S, NEW s \in Seq(S), NEW n \in 0 .. Len(s)
  PROVE  /\ SubSeq(s, n + 1, Len(s)) \in Seq(S)
         /\ Elements(SubSeq(s, n + 1, Len(s))) \subseteq Elements(s)
<1>. DEFINE b == SubSeq(s, n + 1, Len(s))
<1>1. /\ b \in Seq(S) /\ Len(s) \in Nat /\ DOMAIN s = 1 .. Len(s) /\ n \in Nat
      /\ DOMAIN b = 1 .. Len(s) - n /\ \A j \in 1 .. Len(s) - n : b[j] = s[n + j]
  BY EndPlaces
<1>. HIDE DEF b
<1>2. \A j \in 1 .. Len(s) - n : b[j] \in Elements(s)
  <2>. TAKE j \in 1 .. Len(s) - n
  <2>1. n + j \in 1 .. Len(s) /\ b[j] = s[n + j]
    BY <1>1
  <2>. QED BY <2>1, <1>1 DEF Elements
<1>3. Elements(b) \subseteq Elements(s)
  BY <1>1, <1>2 DEF Elements
<1>. QED BY <1>1, <1>3 DEF b

\* A key names one kind and one content, so one encoder output.
LEMMA KeyDecidesOutput ==
  ASSUME NEW f \in Feature, NEW g \in Feature, CacheKey(f) # None, CacheKey(f) = CacheKey(g)
  PROVE  Output(f) = Output(g)
<1>1. CacheKey(f) = <<Feat[f].kind, Feat[f].ident, Feat[f].content>>
  BY DEF CacheKey
<1>2. CacheKey(g) = <<Feat[g].kind, Feat[g].ident, Feat[g].content>>
  BY DEF CacheKey
<1>3. <<Feat[f].kind, Feat[f].ident, Feat[f].content>> = <<Feat[g].kind, Feat[g].ident, Feat[g].content>>
  BY <1>1, <1>2, Zenon
<1>4. Feat[f].kind = Feat[g].kind /\ Feat[f].content = Feat[g].content
  BY <1>3
<1>. QED BY <1>4 DEF Output

LEMMA OutputsExist == \A f \in Feature : Output(f) \in Outputs /\ Output(f) # None
BY NoneAssumption DEF Output, Outputs

LEMMA KeysExist == \A f \in Feature : CacheKey(f) # None => CacheKey(f) \in AllKeys
BY DEF AllKeys

-----------------------------------------------------------------------------
(* The cache's operations.                                                 *)

\* get only reorders.
LEMMA GetKeepsEntries ==
  ASSUME items \in Seq(Entry), NEW key, NEW item, Cache!Get(key, item)
  PROVE  items' \in Seq(Entry) /\ Elements(items') = Elements(items)
<1>1. PICK i \in DOMAIN items : items' = Append(RemoveAt(items, i), items[i])
  BY DEF Cache!Get, Cache!RemoveAt, RemoveAt
<1>2. /\ RemoveAt(items, i) \in Seq(Entry) /\ items[i] \in Entry
      /\ Elements(items) = Elements(RemoveAt(items, i)) \cup {items[i]}
  BY ElementsOfRemoveAt
<1>. QED BY <1>1, <1>2, ElementsOfAppend

\* Evicting leaves some of the entries and adds one.
LEMMA EvictKeepsEntries ==
  ASSUME NEW rest \in Seq(Entry), NEW count, NEW key \in AllKeys, NEW item \in Outputs,
         Cache!Evict(rest, count, key, item)
  PROVE  /\ items' \in Seq(Entry)
         /\ Elements(items') \subseteq Elements(rest) \cup {[key |-> key, item |-> item]}
<1>1. PICK n \in 0 .. Len(rest) :
        items' = Append(SubSeq(rest, n + 1, Len(rest)), [key |-> key, item |-> item])
  BY DEF Cache!Evict
<1>2. [key |-> key, item |-> item] \in Entry
  BY DEF Entry
<1>3. /\ SubSeq(rest, n + 1, Len(rest)) \in Seq(Entry)
      /\ Elements(SubSeq(rest, n + 1, Len(rest))) \subseteq Elements(rest)
  BY ElementsOfEnd
<1>. DEFINE b == SubSeq(rest, n + 1, Len(rest))
            e == [key |-> key, item |-> item]
<1>4. Append(b, e) \in Seq(Entry) /\ Elements(Append(b, e)) = Elements(b) \cup {e}
  <2>1. b \in Seq(Entry) /\ e \in Entry
    BY <1>2, <1>3
  <2>. HIDE DEF b, e
  <2>. QED BY <2>1, ElementsOfAppend
<1>. HIDE DEF b, e
<1>. QED BY <1>1, <1>3, <1>4 DEF b, e

\* put adds nothing but its own entry.
LEMMA PutKeepsEntries ==
  ASSUME items \in Seq(Entry), NEW key \in AllKeys, NEW item \in Outputs, Cache!Put(key, item)
  PROVE  /\ items' \in Seq(Entry)
         /\ Elements(items') \subseteq Elements(items) \cup {[key |-> key, item |-> item]}
<1>1. CASE ItemBytes(item) > MaxBytes
  BY <1>1 DEF Cache!Put
<1>2. CASE ~(ItemBytes(item) > MaxBytes) /\ Cache!Places(key) = {}
  <2>1. Cache!Evict(items, nbytes, key, item)
    BY <1>2 DEF Cache!Put
  <2>. QED BY <2>1, EvictKeepsEntries
<1>3. CASE ~(ItemBytes(item) > MaxBytes) /\ Cache!Places(key) # {}
  <2>. DEFINE rest == RemoveAt(items, Cache!PlaceOf(key))
  <2>1. PICK count : Cache!Evict(rest, count, key, item)
    BY <1>3 DEF Cache!Put, Cache!RemoveAt, RemoveAt
  <2>2. Cache!PlaceOf(key) \in DOMAIN items
    BY <1>3 DEF Cache!PlaceOf, Cache!Places
  <2>3. rest \in Seq(Entry) /\ Elements(rest) \subseteq Elements(items)
    BY <2>2, ElementsOfRemoveAt
  <2>. HIDE DEF rest
  <2>. QED BY <2>1, <2>3, EvictKeepsEntries
<1>. QED BY <1>1, <1>2, <1>3

-----------------------------------------------------------------------------
(* The invariant.                                                          *)

LEMMA NoElements == Elements(<<>>) = {}
BY DEF Elements

LEMMA InitInv == Init => Inv
<1>. SUFFICES ASSUME Init PROVE Inv
  OBVIOUS
<1>. USE DEF Init, Cache!Init, NoRepeats, NothingEncoded
<1>1. TypeOK
  BY DEF TypeOK
<1>2. CacheIsTrue
  BY NoElements DEF CacheIsTrue
<1>3. EncodedIsTrue /\ RepeatsShareKey /\ KnownKeysWait /\ AwaitedAreKnown /\ Phases
  BY NoElements DEF EncodedIsTrue, RepeatsShareKey, KnownKeysWait, AwaitedAreKnown, Awaited, Phases
<1>4. NothingIsLost
  BY DEF NothingIsLost, StepFeatures
<1>. QED BY <1>1, <1>2, <1>3, <1>4 DEF Inv

\* The cache stays true if its entries do, but for one that is true.
LEMMA CacheStaysTrue ==
  ASSUME CacheIsTrue, NEW f \in Feature, CacheKey(f) # None,
         Elements(items') \subseteq Elements(items) \cup {[key |-> CacheKey(f), item |-> Output(f)]}
  PROVE  CacheIsTrue'
<1>. SUFFICES ASSUME NEW e \in Elements(items'), NEW g \in Feature, CacheKey(g) = e.key
              PROVE  e.item = Output(g)
  BY DEF CacheIsTrue
<1>1. CASE e \in Elements(items)
  BY <1>1 DEF CacheIsTrue
<1>2. CASE e = [key |-> CacheKey(f), item |-> Output(f)]
  BY <1>2, KeyDecidesOutput
<1>. QED BY <1>1, <1>2

\* A step begins.
LEMMA BeginKeeps == Inv /\ Begin => Inv'
<1>. SUFFICES ASSUME Inv, Begin PROVE Inv'
  OBVIOUS
<1>. USE DEF Inv, Begin
<1>1. step' \in Seq(Feature) /\ todo' = step'
  BY FeatureAssumption
<1>2. TypeOK'
  BY <1>1 DEF TypeOK
<1>3. CacheIsTrue' /\ EncodedIsTrue' /\ RepeatsShareKey'
  BY DEF CacheIsTrue, EncodedIsTrue, RepeatsShareKey
<1>4. NothingIsLost'
  BY <1>1 DEF NothingIsLost, StepFeatures, Underway, Elements
<1>5. Phases'
  BY DEF Phases
<1>6. KnownKeysWait' /\ AwaitedAreKnown'
  BY DEF KnownKeysWait, AwaitedAreKnown, Awaited, Phases, NoRepeats
<1>. QED BY <1>2, <1>3, <1>4, <1>5, <1>6

\* The first loop looks at a feature: it stays underway if it is skipped, encoded or waits.
LEMMA ScanKeepsOthers ==
  ASSUME Inv, NEW f \in Feature, Scan(f), NEW A, Awaited' = Awaited \cup A,
         \A g \in Feature \ {f} : encoded'[g] = encoded[g],
         \A key \in AllKeys : repeats[key] # None => repeats'[key] # None /\ repeats[key] \subseteq repeats'[key],
         f \in StepFeatures => Underway(f)'
  PROVE  NothingIsLost'
<1>1. todo \in Seq(Feature) /\ todo # <<>> /\ f = Head(todo) /\ todo' = Tail(todo) /\ step' = step
  BY DEF Scan, Inv, TypeOK
<1>2. Elements(todo) = Elements(todo') \cup {f}
  BY <1>1, ElementsOfTail DEF Inv, TypeOK
<1>3. StepFeatures' = StepFeatures
  BY <1>1 DEF StepFeatures
<1>. SUFFICES ASSUME NEW g \in StepFeatures PROVE Underway(g)'
  BY <1>3 DEF NothingIsLost
<1>4. g \in Feature
  BY DEF StepFeatures, Inv, TypeOK
<1>5. Underway(g)
  BY DEF Inv, NothingIsLost
<1>6. CASE g # f
  BY <1>2, <1>4, <1>5, <1>6, KeysExist DEF Underway
<1>. QED BY <1>6

LEMMA SkipKeeps == ASSUME Inv, NEW f \in Feature, Skip(f) PROVE Inv'
<1>. USE DEF Skip, Scan
<1>1. Tail(todo) \in Seq(Feature)
  BY ElementsOfTail DEF Inv, TypeOK
<1>2. TypeOK'
  BY <1>1 DEF Inv, TypeOK
<1>3. CacheIsTrue' /\ EncodedIsTrue' /\ RepeatsShareKey' /\ KnownKeysWait' /\ AwaitedAreKnown' /\ Phases'
  BY DEF Inv, CacheIsTrue, EncodedIsTrue, RepeatsShareKey, KnownKeysWait, AwaitedAreKnown, Phases, Awaited
<1>4. f \notin StepFeatures
  BY DEF StepFeatures
<1>5. NothingIsLost'
  <2>1. Awaited' = Awaited \cup {}
    BY DEF Awaited
  <2>. QED BY <1>4, <2>1, ScanKeepsOthers
<1>. QED BY <1>2, <1>3, <1>5 DEF Inv

LEMMA HitKeeps == ASSUME Inv, NEW f \in Feature, Hit(f) PROVE Inv'
<1>1. PICK item \in HeldOutputs(CacheKey(f)) :
        Cache!Get(CacheKey(f), item) /\ encoded' = [encoded EXCEPT ![f] = item]
  BY DEF Hit
<1>2. /\ todo # <<>> /\ todo' = Tail(todo) /\ pc = "scan" /\ CacheKey(f) # None
      /\ UNCHANGED <<pc, step, batch, ready, pending, repeats>>
  BY DEF Hit, Scan
<1>3. items' \in Seq(Entry) /\ Elements(items') = Elements(items)
  BY <1>1, GetKeepsEntries DEF Inv, TypeOK
<1>4. item = Output(f)
  BY <1>1 DEF HeldOutputs, Inv, CacheIsTrue, Elements
<1>5. TypeOK'
  <2>1. Tail(todo) \in Seq(Feature)
    BY <1>2, ElementsOfTail DEF Inv, TypeOK
  <2>. QED BY <1>1, <1>2, <1>3, <1>4, <2>1, OutputsExist DEF Inv, TypeOK
<1>6. CacheIsTrue'
  BY <1>3 DEF Inv, CacheIsTrue
<1>7. encoded'[f] = Output(f) /\ \A g \in Feature \ {f} : encoded'[g] = encoded[g]
  BY <1>1, <1>4 DEF Inv, TypeOK
<1>8. EncodedIsTrue'
  BY <1>7 DEF Inv, EncodedIsTrue
<1>9. RepeatsShareKey' /\ KnownKeysWait' /\ AwaitedAreKnown' /\ Phases'
  BY <1>2 DEF Inv, RepeatsShareKey, KnownKeysWait, AwaitedAreKnown, Phases, Awaited
<1>10. NothingIsLost'
  <2>1. Awaited' = Awaited \cup {}
    BY <1>2 DEF Awaited
  <2>2. Underway(f)'
    BY <1>7, OutputsExist DEF Underway
  <2>3. Scan(f)
    BY DEF Hit
  <2>. QED BY <1>2, <1>7, <2>1, <2>2, <2>3, ScanKeepsOthers
<1>. QED BY <1>5, <1>6, <1>8, <1>9, <1>10 DEF Inv

LEMMA RepeatKeeps == ASSUME Inv, NEW f \in Feature, Repeat(f) PROVE Inv'
<1>1. /\ todo # <<>> /\ todo' = Tail(todo) /\ pc = "scan" /\ CacheKey(f) # None
      /\ UNCHANGED <<pc, step, batch, ready, pending, items, encoded>>
      /\ repeats[CacheKey(f)] # None
      /\ repeats' = [repeats EXCEPT ![CacheKey(f)] = @ \cup {f}]
  BY DEF Repeat, Scan, Missed, Waits
<1>2. CacheKey(f) \in AllKeys
  BY <1>1, KeysExist
<1>3. repeats[CacheKey(f)] \in SUBSET Feature
  BY <1>1, <1>2 DEF Inv, TypeOK
<1>4. /\ repeats'[CacheKey(f)] = repeats[CacheKey(f)] \cup {f}
      /\ repeats'[CacheKey(f)] \in SUBSET Feature /\ repeats'[CacheKey(f)] # None
      /\ \A key \in AllKeys \ {CacheKey(f)} : repeats'[key] = repeats[key]
  BY <1>1, <1>2, <1>3, NoneAssumption DEF Inv, TypeOK
<1>5. TypeOK'
  <2>1. Tail(todo) \in Seq(Feature)
    BY <1>1, ElementsOfTail DEF Inv, TypeOK
  <2>2. repeats' \in [AllKeys -> (SUBSET Feature) \cup {None}]
    BY <1>1, <1>2, <1>3 DEF Inv, TypeOK
  <2>. QED BY <1>1, <2>1, <2>2 DEF Inv, TypeOK
<1>6. CacheIsTrue' /\ EncodedIsTrue' /\ Phases'
  BY <1>1 DEF Inv, CacheIsTrue, EncodedIsTrue, Phases
<1>7. RepeatsShareKey'
  BY <1>1, <1>2, <1>4 DEF Inv, RepeatsShareKey
<1>8. Awaited' = Awaited
  BY <1>1 DEF Awaited
<1>9. KnownKeysWait' /\ AwaitedAreKnown'
  <2>1. KnownKeysWait'
    BY <1>1, <1>4, <1>8 DEF Inv, KnownKeysWait
  <2>2. \A g \in Awaited : g \in Feature
    BY DEF Awaited, Elements, Inv, TypeOK
  <2>3. AwaitedAreKnown'
    BY <1>4, <1>8, <2>2, KeysExist DEF Inv, AwaitedAreKnown
  <2>. QED BY <2>1, <2>3
<1>10. NothingIsLost'
  <2>1. \E g \in Awaited : CacheKey(g) = CacheKey(f)
    BY <1>1, <1>2 DEF Inv, KnownKeysWait
  <2>2. Underway(f)'
    BY <1>1, <1>4, <1>8, <2>1 DEF Underway
  <2>3. Scan(f) /\ Awaited' = Awaited \cup {}
    BY <1>8 DEF Repeat
  <2>4. \A key \in AllKeys : repeats[key] # None => repeats'[key] # None /\ repeats[key] \subseteq repeats'[key]
    BY <1>4
  <2>. QED BY <1>1, <2>2, <2>3, <2>4, ScanKeepsOthers
<1>. QED BY <1>5, <1>6, <1>7, <1>9, <1>10 DEF Inv

LEMMA WaitKeeps == ASSUME Inv, NEW f \in Feature, Wait(f) PROVE Inv'
<1>1. /\ todo # <<>> /\ todo' = Tail(todo) /\ pc = "scan"
      /\ UNCHANGED <<pc, step, batch, ready, items, encoded>>
      /\ pending' = Append(pending, f)
  BY DEF Wait, Scan
<1>2. pending' \in Seq(Feature) /\ Awaited' = Awaited \cup {f}
  <2>1. pending' \in Seq(Feature) /\ Elements(pending') = Elements(pending) \cup {f}
    BY <1>1, ElementsOfAppend DEF Inv, TypeOK
  <2>. QED BY <1>1, <2>1 DEF Awaited
<1>3. \/ repeats' = repeats
      \/ /\ CacheKey(f) \in AllKeys /\ repeats[CacheKey(f)] = None
         /\ repeats' = [repeats EXCEPT ![CacheKey(f)] = {}]
  BY KeysExist DEF Wait, Missed, Waits
<1>4. /\ repeats' \in [AllKeys -> (SUBSET Feature) \cup {None}]
      /\ \A key \in AllKeys :
           \/ repeats'[key] = repeats[key]
           \/ key = CacheKey(f) /\ repeats[key] = None /\ repeats'[key] = {}
  BY <1>3 DEF Inv, TypeOK
<1>5. TypeOK'
  <2>1. Tail(todo) \in Seq(Feature)
    BY <1>1, ElementsOfTail DEF Inv, TypeOK
  <2>. QED BY <1>1, <1>2, <1>4, <2>1 DEF Inv, TypeOK
<1>6. CacheIsTrue' /\ EncodedIsTrue'
  BY <1>1 DEF Inv, CacheIsTrue, EncodedIsTrue
<1>7. RepeatsShareKey'
  BY <1>4 DEF Inv, RepeatsShareKey
<1>8. KnownKeysWait' /\ Phases'
  BY <1>1, <1>2, <1>4 DEF Inv, KnownKeysWait, Phases
<1>10. AwaitedAreKnown'
  <2>1. \A g \in Awaited : g \in Feature
    BY DEF Awaited, Elements, Inv, TypeOK
  <2>2. CacheKey(f) # None => repeats'[CacheKey(f)] # None
    BY <1>3, NoneAssumption, KeysExist DEF Inv, TypeOK, Wait, Missed, Waits
  <2>3. \A key \in AllKeys : repeats[key] # None => repeats'[key] # None
    BY <1>4
  <2>. QED BY <1>2, <2>1, <2>2, <2>3, KeysExist DEF Inv, AwaitedAreKnown
<1>9. NothingIsLost'
  <2>1. Underway(f)'
    BY <1>2 DEF Underway
  <2>2. Scan(f)
    BY DEF Wait
  <2>3. \A key \in AllKeys : repeats[key] # None => repeats'[key] # None /\ repeats[key] \subseteq repeats'[key]
    BY <1>4
  <2>. QED BY <1>1, <1>2, <2>1, <2>2, <2>3, ScanKeepsOthers
<1>. QED BY <1>5, <1>6, <1>7, <1>8, <1>9, <1>10 DEF Inv

LEMMA ScanEndsKeeps == Inv /\ ScanEnds => Inv'
<1>. SUFFICES ASSUME Inv, ScanEnds PROVE Inv'
  OBVIOUS
<1>1. /\ pc = "scan" /\ todo = <<>> /\ pc' = "encode"
      /\ UNCHANGED <<items, step, todo, pending, repeats, batch, ready, encoded>>
  BY DEF ScanEnds, stepVars
<1>2. TypeOK' /\ Phases'
  BY <1>1 DEF Inv, TypeOK, Phases
<1>3. CacheIsTrue' /\ EncodedIsTrue' /\ RepeatsShareKey' /\ KnownKeysWait' /\ AwaitedAreKnown'
  BY <1>1 DEF Inv, CacheIsTrue, EncodedIsTrue, RepeatsShareKey, KnownKeysWait, AwaitedAreKnown, Awaited
<1>4. NothingIsLost'
  BY <1>1 DEF Inv, NothingIsLost, StepFeatures, Underway, Awaited
<1>. QED BY <1>2, <1>3, <1>4 DEF Inv

-----------------------------------------------------------------------------
(* The second loop.                                                        *)

\* Between the loops' queues nothing that is awaited gets lost.
LEMMA MoveKeeps ==
  ASSUME Inv, pc = "encode", UNCHANGED <<items, pc, step, todo, repeats, encoded>>,
         pending' \in Seq(Feature), batch' \in Seq(Feature), ready' \in Seq(Feature),
         Awaited' = Awaited
  PROVE  Inv'
<1>1. TypeOK' /\ Phases'
  BY DEF Inv, TypeOK, Phases
<1>2. CacheIsTrue' /\ EncodedIsTrue' /\ RepeatsShareKey' /\ KnownKeysWait' /\ AwaitedAreKnown'
  BY DEF Inv, CacheIsTrue, EncodedIsTrue, RepeatsShareKey, KnownKeysWait, AwaitedAreKnown
<1>3. NothingIsLost'
  BY DEF Inv, NothingIsLost, StepFeatures, Underway
<1>. QED BY <1>1, <1>2, <1>3 DEF Inv

LEMMA TakeKeeps == ASSUME Inv, NEW i \in DOMAIN pending, Take(i) PROVE Inv'
<1>1. /\ pc = "encode" /\ batch' = Append(batch, pending[i]) /\ pending' = RemoveAt(pending, i)
      /\ UNCHANGED <<items, pc, step, todo, repeats, ready, encoded>>
  BY DEF Take, Encoding
<1>2. /\ pending' \in Seq(Feature) /\ pending[i] \in Feature
      /\ Elements(pending) = Elements(pending') \cup {pending[i]}
  BY <1>1, ElementsOfRemoveAt DEF Inv, TypeOK
<1>3. batch' \in Seq(Feature) /\ Elements(batch') = Elements(batch) \cup {pending[i]}
  BY <1>1, <1>2, ElementsOfAppend DEF Inv, TypeOK
<1>4. ready' \in Seq(Feature)
  BY <1>1 DEF Inv, TypeOK
<1>5. Awaited' = Awaited
  BY <1>1, <1>2, <1>3 DEF Awaited
<1>. QED BY <1>1, <1>2, <1>3, <1>4, <1>5, MoveKeeps

LEMMA EncodeBatchKeeps == Inv /\ EncodeBatch => Inv'
<1>. SUFFICES ASSUME Inv, EncodeBatch PROVE Inv'
  OBVIOUS
<1>1. /\ pc = "encode" /\ ready = <<>> /\ ready' = batch /\ batch' = <<>>
      /\ UNCHANGED <<items, pc, step, todo, pending, repeats, encoded>>
  BY DEF EncodeBatch, Encoding
<1>2. pending' \in Seq(Feature) /\ batch' \in Seq(Feature) /\ ready' \in Seq(Feature)
  BY <1>1 DEF Inv, TypeOK
<1>3. Awaited' = Awaited
  BY <1>1, NoElements DEF Awaited
<1>. QED BY <1>1, <1>2, <1>3, MoveKeeps

\* A delivered output is that of every feature that waited for it.
LEMMA DeliverKeeps == ASSUME Inv, NEW f \in Feature, Deliver(f) PROVE Inv'
<1>1. /\ pc = "encode" /\ ready # <<>> /\ f = Head(ready) /\ ready' = Tail(ready)
      /\ encoded' = [g \in Feature |-> IF g = f \/ g \in Waiters(f) THEN Output(f) ELSE encoded[g]]
      /\ UNCHANGED <<pc, step, todo, pending, repeats, batch>>
  BY DEF Deliver
<1>2. /\ ready' \in Seq(Feature) /\ Elements(ready) = Elements(ready') \cup {f}
      /\ Awaited = Awaited' \cup {f}
  <2>1. ready' \in Seq(Feature) /\ Elements(ready) = Elements(ready') \cup {f}
    BY <1>1, ElementsOfTail DEF Inv, TypeOK
  <2>. QED BY <1>1, <2>1 DEF Awaited
<1>3. items' \in Seq(Entry) /\ CacheIsTrue'
  <2>1. CASE CacheKey(f) = None
    BY <2>1 DEF Deliver, Inv, TypeOK, CacheIsTrue
  <2>2. CASE CacheKey(f) # None
    <3>1. Cache!Put(CacheKey(f), Output(f))
      BY <2>2 DEF Deliver
    <3>. QED BY <2>2, <3>1, KeysExist, OutputsExist, PutKeepsEntries, CacheStaysTrue DEF Inv, TypeOK
  <2>. QED BY <2>1, <2>2
<1>4. TypeOK'
  BY <1>1, <1>2, <1>3, OutputsExist DEF Inv, TypeOK
<1>5. f \in Awaited
  BY <1>2
<1>6. \A g \in Waiters(f) : g \in Feature /\ CacheKey(f) # None /\ CacheKey(g) = CacheKey(f)
  BY <1>5, KeysExist DEF Waiters, Inv, TypeOK, RepeatsShareKey, AwaitedAreKnown
<1>7. \A g \in Feature : encoded'[g] = encoded[g] \/ encoded'[g] = Output(g)
  <2>. TAKE g \in Feature
  <2>0. encoded'[g] = IF g = f \/ g \in Waiters(f) THEN Output(f) ELSE encoded[g]
    BY <1>1
  <2>1. CASE g = f
    BY <2>0, <2>1
  <2>2. CASE g # f /\ g \in Waiters(f)
    <3>1. Output(g) = Output(f)
      BY <1>6, <2>2, KeyDecidesOutput
    <3>. QED BY <2>0, <2>2, <3>1
  <2>3. CASE ~(g = f \/ g \in Waiters(f))
    BY <2>0, <2>3
  <2>. QED BY <2>1, <2>2, <2>3
<1>8. EncodedIsTrue' /\ RepeatsShareKey' /\ Phases'
  BY <1>1, <1>7 DEF Inv, EncodedIsTrue, RepeatsShareKey, Phases
<1>9. KnownKeysWait' /\ AwaitedAreKnown'
  BY <1>1, <1>2 DEF Inv, KnownKeysWait, AwaitedAreKnown
<1>10. NothingIsLost'
  <2>. SUFFICES ASSUME NEW g \in StepFeatures PROVE Underway(g)'
    BY <1>1 DEF NothingIsLost, StepFeatures
  <2>1. g \in Feature /\ Underway(g)
    BY DEF Inv, TypeOK, NothingIsLost, StepFeatures
  <2>2. CASE g = f \/ g \in Waiters(f)
    BY <1>1, <2>1, <2>2, OutputsExist DEF Underway
  <2>3. CASE g # f /\ g \notin Waiters(f)
    <3>1. encoded'[g] = encoded[g]
      BY <1>1, <2>1, <2>3
    <3>2. CASE encoded[g] # None \/ g \in Elements(todo) \/ g \in Awaited
      BY <1>1, <1>2, <2>3, <3>1, <3>2 DEF Underway
    <3>3. CASE /\ CacheKey(g) # None /\ repeats[CacheKey(g)] # None /\ g \in repeats[CacheKey(g)]
               /\ \E h \in Awaited : CacheKey(h) = CacheKey(g)
      <4>1. PICK h \in Awaited : CacheKey(h) = CacheKey(g)
        BY <3>3
      <4>2. h # f
        BY <2>3, <3>3, <4>1 DEF Waiters
      <4>. QED BY <1>1, <1>2, <3>3, <4>1, <4>2 DEF Underway
    <3>. QED BY <2>1, <3>2, <3>3 DEF Underway
  <2>. QED BY <2>2, <2>3
<1>. QED BY <1>3, <1>4, <1>8, <1>9, <1>10 DEF Inv

\* Without awaited features there is nothing left to encode.
LEMMA NothingLeft ==
  ASSUME Inv, EverythingRan
  PROVE  \A f \in StepFeatures : encoded[f] # None
<1>1. Awaited = {} /\ Elements(todo) = {}
  BY NoElements DEF EverythingRan, Encoding, Awaited, Inv, Phases
<1>. QED BY <1>1 DEF Inv, NothingIsLost, Underway

LEMMA BuildPromptsKeeps == Inv /\ BuildPrompts => Inv'
<1>. SUFFICES ASSUME Inv, BuildPrompts PROVE Inv'
  OBVIOUS
<1>1. /\ pc = "encode" /\ pending = <<>> /\ batch = <<>> /\ ready = <<>>
      /\ pc' = "idle" /\ step' = <<>> /\ repeats' = NoRepeats /\ encoded' = NothingEncoded
      /\ UNCHANGED <<items, todo, pending, batch, ready>>
  BY DEF BuildPrompts, EverythingRan, Encoding
<1>2. TypeOK' /\ Phases'
  BY <1>1 DEF Inv, TypeOK, Phases, NoRepeats, NothingEncoded
<1>3. CacheIsTrue' /\ EncodedIsTrue' /\ RepeatsShareKey' /\ KnownKeysWait'
  BY <1>1 DEF Inv, CacheIsTrue, EncodedIsTrue, RepeatsShareKey, KnownKeysWait, NoRepeats, NothingEncoded
<1>4. AwaitedAreKnown' /\ NothingIsLost'
  BY <1>1, NoElements DEF AwaitedAreKnown, Awaited, NothingIsLost, StepFeatures
<1>. QED BY <1>2, <1>3, <1>4 DEF Inv

\* What touches neither the step nor the cache's entries, or empties the cache.
LEMMA ClearKeeps ==
  ASSUME Inv, items' = items \/ items' = <<>>, UNCHANGED stepVars,
         pc' = pc \/ pc' = "dead"
  PROVE  Inv'
<1>1. UNCHANGED <<step, todo, pending, repeats, batch, ready, encoded>>
  BY DEF stepVars
<1>2. TypeOK'
  <2>1. items' \in Seq(Entry)
    <3>1. items \in Seq(Entry) /\ <<>> \in Seq(Entry)
      BY EmptySeq DEF Inv, TypeOK
    <3>. QED BY <3>1
  <2>2. pc' \in {"idle", "scan", "encode", "dead"}
    BY DEF Inv, TypeOK
  <2>. QED BY <1>1, <2>1, <2>2 DEF Inv, TypeOK
<1>3. CacheIsTrue'
  BY NoElements DEF Inv, CacheIsTrue
<1>4. EncodedIsTrue' /\ RepeatsShareKey' /\ KnownKeysWait' /\ AwaitedAreKnown' /\ Phases'
  BY <1>1 DEF Inv, EncodedIsTrue, RepeatsShareKey, KnownKeysWait, AwaitedAreKnown, Awaited, Phases
<1>5. NothingIsLost'
  BY <1>1 DEF Inv, NothingIsLost, StepFeatures, Underway, Awaited
<1>. QED BY <1>2, <1>3, <1>4, <1>5 DEF Inv

LEMMA NextKeeps == Inv /\ [Next]_vars => Inv'
<1>. SUFFICES ASSUME Inv, [Next]_vars PROVE Inv'
  OBVIOUS
<1>1. CASE Begin \/ ScanEnds \/ EncodeBatch \/ BuildPrompts
  BY <1>1, BeginKeeps, ScanEndsKeeps, EncodeBatchKeeps, BuildPromptsKeeps
<1>2. CASE Raise
  BY <1>2, ClearKeeps DEF Raise
<1>3. CASE Reset
  BY <1>3, ClearKeeps DEF Reset, Cache!Clear
<1>4. ASSUME NEW f \in Feature, Skip(f) \/ Hit(f) \/ Repeat(f) \/ Wait(f) \/ Deliver(f)
      PROVE  Inv'
  BY <1>4, SkipKeeps, HitKeeps, RepeatKeeps, WaitKeeps, DeliverKeeps
<1>5. ASSUME NEW i \in DOMAIN pending, Take(i) PROVE Inv'
  BY <1>5, TakeKeeps
<1>6. CASE UNCHANGED vars
  BY <1>6, ClearKeeps DEF vars
<1>. QED BY <1>1, <1>2, <1>3, <1>4, <1>5, <1>6 DEF Next, Dead

(***************************************************************************)
(* For any features, cache budget and batch limits: a prompt is built from *)
(* the encoder's outputs of its own images and videos, whatever the cache  *)
(* evicted, kept or shared (_encode_vision_items, _build_prompt_embeds).   *)
(***************************************************************************)
THEOREM AlwaysTheirOwnImages == Spec => []PromptsGetTheirOwnImages
<1>1. Inv => PromptsGetTheirOwnImages
  BY NothingLeft DEF PromptsGetTheirOwnImages, Inv, EncodedIsTrue
<1>. QED BY <1>1, InitInv, NextKeeps, PTL DEF Spec

-----------------------------------------------------------------------------
(* No key is encoded twice.                                                *)

KeysDistinct(s) ==
  \A i, j \in DOMAIN s : CacheKey(s[i]) # None /\ CacheKey(s[i]) = CacheKey(s[j]) => i = j

\* No element of s has the key.
Without(s, key) == key # None => \A f \in Elements(s) : CacheKey(f) # key

KeysApart(s, t) == \A f \in Elements(s) : Without(t, CacheKey(f))

Held(key) == \E i \in DOMAIN items : items[i].key = key

LoneKeys ==
  /\ KeysDistinct(pending) /\ KeysDistinct(batch) /\ KeysDistinct(ready)
  /\ KeysApart(pending, batch) /\ KeysApart(pending, ready) /\ KeysApart(batch, ready)

AwaitedAreMissing ==
  \A f \in Awaited : CacheKey(f) # None => ~Held(CacheKey(f)) /\ encoded[f] = None

\* During the first loop only what the cache holds has been handed out.
HandedOutIsHeld ==
  /\ pc = "scan" =>
       \A f \in Feature : CacheKey(f) # None /\ encoded[f] # None => Held(CacheKey(f))
  /\ pc = "idle" => encoded = NothingEncoded

OnceInv == LoneKeys /\ AwaitedAreMissing /\ HandedOutIsHeld

LEMMA DistinctAfterAppend ==
  ASSUME NEW s \in Seq(Feature), NEW f \in Feature, KeysDistinct(s), Without(s, CacheKey(f))
  PROVE  KeysDistinct(Append(s, f))
<1>. DEFINE a == Append(s, f)
<1>1. /\ Len(s) \in Nat /\ DOMAIN s = 1 .. Len(s) /\ DOMAIN a = 1 .. Len(s) + 1
      /\ \A i \in 1 .. Len(s) : a[i] = s[i]
      /\ a[Len(s) + 1] = f
  BY LenProperties, AppendProperties
<1>. HIDE DEF a
<1>2. \A i \in 1 .. Len(s) : CacheKey(f) # None => CacheKey(s[i]) # CacheKey(f)
  BY <1>1 DEF Without, Elements
<1>. SUFFICES ASSUME NEW i \in DOMAIN a, NEW j \in DOMAIN a,
                     CacheKey(a[i]) # None, CacheKey(a[i]) = CacheKey(a[j])
              PROVE  i = j
  BY DEF KeysDistinct, a
<1>3. CASE i \in 1 .. Len(s) /\ j \in 1 .. Len(s)
  BY <1>1, <1>3 DEF KeysDistinct
<1>4. CASE i \in 1 .. Len(s) /\ j = Len(s) + 1
  <2>1. a[i] = s[i] /\ a[j] = f
    BY <1>1, <1>4
  <2>. QED BY <2>1, <1>2, <1>4
<1>5. CASE i = Len(s) + 1 /\ j \in 1 .. Len(s)
  <2>1. a[j] = s[j] /\ a[i] = f
    BY <1>1, <1>5
  <2>. QED BY <2>1, <1>2, <1>5
<1>6. \A k \in DOMAIN a : k \in 1 .. Len(s) \/ k = Len(s) + 1
  BY <1>1
<1>. QED BY <1>3, <1>4, <1>5, <1>6

LEMMA DistinctAfterRemoveAt ==
  ASSUME NEW s \in Seq(Feature), NEW i \in DOMAIN s, KeysDistinct(s)
  PROVE  KeysDistinct(RemoveAt(s, i)) /\ Without(RemoveAt(s, i), CacheKey(s[i]))
<1>. DEFINE r == RemoveAt(s, i)
<1>1. /\ Len(s) \in Nat /\ DOMAIN s = 1 .. Len(s) /\ i \in 1 .. Len(s)
      /\ DOMAIN r = 1 .. Len(s) - 1
      /\ \A j \in 1 .. Len(s) - 1 : r[j] = IF j < i THEN s[j] ELSE s[j + 1]
  BY RemoveAtPlaces
<1>. HIDE DEF r
<1>. DEFINE old(j) == IF j < i THEN j ELSE j + 1
<1>2. /\ \A j \in DOMAIN r : r[j] = s[old(j)] /\ old(j) \in DOMAIN s /\ old(j) # i
      /\ \A j, k \in DOMAIN r : old(j) = old(k) => j = k
  BY <1>1
<1>. HIDE DEF old
<1>3. KeysDistinct(r)
  BY <1>2 DEF KeysDistinct
<1>4. Without(r, CacheKey(s[i]))
  BY <1>2, <1>1 DEF KeysDistinct, Without, Elements
<1>. QED BY <1>3, <1>4 DEF r

LEMMA DistinctAfterTail ==
  ASSUME NEW s \in Seq(Feature), s # <<>>, KeysDistinct(s)
  PROVE  KeysDistinct(Tail(s)) /\ Without(Tail(s), CacheKey(Head(s)))
<1>. DEFINE t == Tail(s)
<1>1. /\ t \in Seq(Feature) /\ Len(t) = Len(s) - 1 /\ \A i \in 1 .. Len(t) : t[i] = s[i + 1]
  BY HeadTailProperties
<1>2. Len(s) \in Nat \ {0} /\ DOMAIN s = 1 .. Len(s) /\ DOMAIN t = 1 .. Len(s) - 1 /\ Head(s) = s[1]
  BY <1>1, LenProperties, EmptySeq
<1>. HIDE DEF t
<1>3. \A i \in DOMAIN t : t[i] = s[i + 1] /\ i + 1 \in DOMAIN s /\ i + 1 # 1 /\ i \in Int
  BY <1>1, <1>2
<1>4. ASSUME NEW i \in DOMAIN t, NEW j \in DOMAIN t, CacheKey(t[i]) # None, CacheKey(t[i]) = CacheKey(t[j])
      PROVE  i = j
  <2>1. i + 1 = j + 1
    BY <1>3, <1>4 DEF KeysDistinct
  <2>. QED BY <2>1, <1>3
<1>5. Without(t, CacheKey(Head(s)))
  BY <1>2, <1>3 DEF KeysDistinct, Without, Elements
<1>. QED BY <1>4, <1>5 DEF t, KeysDistinct

\* Keys apart from a sequence's are apart from those of its elements.
LEMMA ApartIsOfElements ==
  ASSUME NEW s, NEW t, NEW u, NEW v, KeysApart(s, t),
         Elements(u) \subseteq Elements(s), Elements(v) \subseteq Elements(t)
  PROVE  KeysApart(u, v)
BY DEF KeysApart, Without

LEMMA ApartIsMutual ==
  ASSUME NEW s, NEW t, KeysApart(s, t) PROVE KeysApart(t, s)
BY DEF KeysApart, Without

LEMMA NothingIsApart ==
  ASSUME NEW s
  PROVE  /\ KeysApart(s, <<>>) /\ KeysApart(<<>>, s) /\ KeysDistinct(<<>>)
         /\ \A key : Without(<<>>, key)
<1>1. DOMAIN <<>> = {}
  OBVIOUS
<1>. QED BY <1>1, NoElements DEF KeysApart, Without, KeysDistinct

LEMMA InitOnce == Init => OnceInv
<1>. SUFFICES ASSUME Init PROVE OnceInv
  OBVIOUS
<1>1. LoneKeys
  BY NothingIsApart DEF Init, LoneKeys
<1>2. AwaitedAreMissing /\ HandedOutIsHeld
  BY NoElements DEF Init, AwaitedAreMissing, Awaited, HandedOutIsHeld
<1>. QED BY <1>1, <1>2 DEF OnceInv

\* Nothing happens to the queues, the entries and the outputs.
LEMMA OnceUnmoved ==
  ASSUME Inv, OnceInv,
         items' = items, pending' = pending, batch' = batch, ready' = ready, encoded' = encoded,
         pc' = "scan" => pc = "scan" \/ encoded = NothingEncoded,
         pc' = "idle" => pc = "idle"
  PROVE  OnceInv'
<1>1. LoneKeys'
  BY DEF OnceInv, LoneKeys
<1>2. AwaitedAreMissing'
  BY DEF OnceInv, AwaitedAreMissing, Awaited, Held
<1>3. HandedOutIsHeld'
  BY DEF OnceInv, HandedOutIsHeld, Held, NothingEncoded
<1>. QED BY <1>1, <1>2, <1>3 DEF OnceInv

LEMMA HeldOutputsOfHeld == \A key : HeldOutputs(key) # {} <=> Held(key)
BY DEF HeldOutputs, Held

\* An entry's key is held, and a held key has an entry.
LEMMA HeldIsOfElements ==
  ASSUME NEW key PROVE Held(key) <=> \E e \in Elements(items) : e.key = key
BY DEF Held, Elements

LEMMA HitKeepsOnce == ASSUME Inv, OnceInv, NEW f \in Feature, Hit(f) PROVE OnceInv'
<1>1. PICK item \in HeldOutputs(CacheKey(f)) :
        Cache!Get(CacheKey(f), item) /\ encoded' = [encoded EXCEPT ![f] = item]
  BY DEF Hit
<1>2. pc = "scan" /\ CacheKey(f) # None /\ UNCHANGED <<pc, batch, ready, pending>>
  BY DEF Hit, Scan
<1>3. Elements(items') = Elements(items)
  BY <1>1, GetKeepsEntries DEF Inv, TypeOK
<1>4. \A key : Held(key)' <=> Held(key)
  BY <1>3 DEF Held, Elements
<1>5. Held(CacheKey(f))
  BY <1>1 DEF HeldOutputs, Held
<1>6. \A g \in Feature \ {f} : encoded'[g] = encoded[g]
  BY <1>1 DEF Inv, TypeOK
<1>7. LoneKeys'
  BY <1>2 DEF OnceInv, LoneKeys
<1>8. AwaitedAreMissing'
  <2>1. Awaited' = Awaited /\ Awaited \subseteq Feature
    BY <1>2 DEF Awaited, Elements, Inv, TypeOK
  <2>2. f \notin Awaited
    BY <1>2, <1>5 DEF OnceInv, AwaitedAreMissing
  <2>. QED BY <1>4, <1>6, <2>1, <2>2 DEF OnceInv, AwaitedAreMissing
<1>9. HandedOutIsHeld'
  BY <1>2, <1>4, <1>5, <1>6 DEF OnceInv, HandedOutIsHeld
<1>. QED BY <1>7, <1>8, <1>9 DEF OnceInv

LEMMA WaitKeepsOnce == ASSUME Inv, OnceInv, NEW f \in Feature, Wait(f) PROVE OnceInv'
<1>1. /\ pc = "scan" /\ UNCHANGED <<pc, batch, ready, items, encoded>>
      /\ pending' = Append(pending, f)
  BY DEF Wait, Scan
<1>2. batch = <<>> /\ ready = <<>>
  BY <1>1 DEF Inv, Phases
<1>3. CacheKey(f) # None => ~Held(CacheKey(f)) /\ repeats[CacheKey(f)] = None
  BY HeldOutputsOfHeld DEF Wait, Missed, Waits
<1>4. Without(pending, CacheKey(f))
  BY <1>3 DEF Without, Inv, AwaitedAreKnown, Awaited
<1>5. KeysDistinct(pending')
  BY <1>1, <1>4, DistinctAfterAppend DEF Inv, TypeOK, OnceInv, LoneKeys
<1>6. LoneKeys'
  BY <1>1, <1>2, <1>5, NothingIsApart DEF LoneKeys
<1>7. CacheKey(f) # None => encoded[f] = None
  BY <1>1, <1>3 DEF OnceInv, HandedOutIsHeld
<1>8. AwaitedAreMissing'
  <2>1. Awaited' = Awaited \cup {f}
    <3>1. Elements(pending') = Elements(pending) \cup {f}
      BY <1>1, ElementsOfAppend DEF Inv, TypeOK
    <3>. QED BY <1>1, <3>1 DEF Awaited
  <2>2. \A key : Held(key)' <=> Held(key)
    BY <1>1 DEF Held
  <2>. QED BY <1>1, <1>3, <1>7, <2>1, <2>2 DEF OnceInv, AwaitedAreMissing
<1>9. HandedOutIsHeld'
  BY <1>1 DEF OnceInv, HandedOutIsHeld, Held
<1>. QED BY <1>6, <1>8, <1>9 DEF OnceInv

LEMMA TakeKeepsOnce ==
  ASSUME Inv, OnceInv, NEW i \in DOMAIN pending, Take(i) PROVE OnceInv'
<1>1. /\ pc = "encode" /\ batch' = Append(batch, pending[i]) /\ pending' = RemoveAt(pending, i)
      /\ ready = <<>> /\ UNCHANGED <<items, pc, ready, encoded>>
  BY DEF Take, Encoding
<1>2. /\ pending[i] \in Feature
      /\ Elements(pending) = Elements(pending') \cup {pending[i]}
  BY <1>1, ElementsOfRemoveAt DEF Inv, TypeOK
<1>3. Elements(batch') = Elements(batch) \cup {pending[i]}
  BY <1>1, <1>2, ElementsOfAppend DEF Inv, TypeOK
<1>4. KeysDistinct(pending') /\ Without(pending', CacheKey(pending[i]))
  BY <1>1, DistinctAfterRemoveAt DEF Inv, TypeOK, OnceInv, LoneKeys
<1>5. Without(batch, CacheKey(pending[i]))
  BY <1>2 DEF OnceInv, LoneKeys, KeysApart
<1>6. KeysDistinct(batch')
  BY <1>1, <1>2, <1>5, DistinctAfterAppend DEF Inv, TypeOK, OnceInv, LoneKeys
<1>7. KeysApart(pending', batch')
  BY <1>2, <1>3, <1>4 DEF OnceInv, LoneKeys, KeysApart, Without
<1>8. LoneKeys'
  BY <1>1, <1>4, <1>6, <1>7, NothingIsApart DEF LoneKeys
<1>9. AwaitedAreMissing'
  <2>1. Awaited' = Awaited
    BY <1>1, <1>2, <1>3 DEF Awaited
  <2>2. \A key : Held(key)' <=> Held(key)
    BY <1>1 DEF Held
  <2>. QED BY <1>1, <2>1, <2>2 DEF OnceInv, AwaitedAreMissing
<1>10. HandedOutIsHeld'
  BY <1>1 DEF OnceInv, HandedOutIsHeld
<1>. QED BY <1>8, <1>9, <1>10 DEF OnceInv

LEMMA EncodeBatchKeepsOnce == ASSUME Inv, OnceInv, EncodeBatch PROVE OnceInv'
<1>1. /\ pc = "encode" /\ ready = <<>> /\ ready' = batch /\ batch' = <<>>
      /\ UNCHANGED <<items, pc, pending, encoded>>
  BY DEF EncodeBatch, Encoding
<1>2. LoneKeys'
  BY <1>1, NothingIsApart DEF OnceInv, LoneKeys
<1>3. AwaitedAreMissing'
  <2>1. Awaited' = Awaited
    BY <1>1, NoElements DEF Awaited
  <2>2. \A key : Held(key)' <=> Held(key)
    BY <1>1 DEF Held
  <2>. QED BY <1>1, <2>1, <2>2 DEF OnceInv, AwaitedAreMissing
<1>4. HandedOutIsHeld'
  BY <1>1 DEF OnceInv, HandedOutIsHeld
<1>. QED BY <1>2, <1>3, <1>4 DEF OnceInv

LEMMA DeliverKeepsOnce == ASSUME Inv, OnceInv, NEW f \in Feature, Deliver(f) PROVE OnceInv'
<1>1. /\ pc = "encode" /\ ready # <<>> /\ f = Head(ready) /\ ready' = Tail(ready)
      /\ encoded' = [g \in Feature |-> IF g = f \/ g \in Waiters(f) THEN Output(f) ELSE encoded[g]]
      /\ UNCHANGED <<pc, pending, repeats, batch>>
  BY DEF Deliver
<1>2. Elements(ready) = Elements(ready') \cup {f} /\ Awaited = Awaited' \cup {f}
  <2>1. Elements(ready) = Elements(ready') \cup {f}
    BY <1>1, ElementsOfTail DEF Inv, TypeOK
  <2>. QED BY <1>1, <2>1 DEF Awaited
<1>3. KeysDistinct(ready') /\ Without(ready', CacheKey(f))
  BY <1>1, DistinctAfterTail DEF Inv, TypeOK, OnceInv, LoneKeys
<1>4. Without(pending, CacheKey(f)) /\ Without(batch, CacheKey(f))
  BY <1>2 DEF OnceInv, LoneKeys, KeysApart, Without
<1>5. LoneKeys'
  <2>1. KeysApart(pending', ready') /\ KeysApart(batch', ready')
    BY <1>1, <1>2 DEF OnceInv, LoneKeys, KeysApart, Without
  <2>. QED BY <1>1, <1>3, <2>1 DEF OnceInv, LoneKeys
<1>6. ASSUME NEW g \in Awaited', CacheKey(g) # None
      PROVE  CacheKey(g) # CacheKey(f)
  BY <1>1, <1>3, <1>4, <1>6 DEF Awaited, Without
<1>7. f \in Awaited /\ Awaited \subseteq Feature
  <2>1. Awaited \subseteq Feature
    BY DEF Awaited, Elements, Inv, TypeOK
  <2>. QED BY <1>2, <2>1
<1>8. \A g \in Waiters(f) : CacheKey(f) # None /\ CacheKey(g) = CacheKey(f)
  BY <1>7, KeysExist DEF Waiters, Inv, TypeOK, RepeatsShareKey, AwaitedAreKnown
<1>9. \A key : Held(key)' => Held(key) \/ (key = CacheKey(f) /\ CacheKey(f) # None)
  <2>1. CASE CacheKey(f) = None
    <3>1. items' = items
      BY <2>1 DEF Deliver
    <3>. QED BY <3>1 DEF Held
  <2>2. CASE CacheKey(f) # None
    <3>1. Cache!Put(CacheKey(f), Output(f))
      BY <2>2 DEF Deliver
    <3>2. Elements(items') \subseteq Elements(items) \cup {[key |-> CacheKey(f), item |-> Output(f)]}
      BY <2>2, <3>1, KeysExist, OutputsExist, PutKeepsEntries DEF Inv, TypeOK
    <3>. QED BY <2>2, <3>2 DEF Held, Elements
  <2>. QED BY <2>1, <2>2
<1>10. AwaitedAreMissing'
  <2>. SUFFICES ASSUME NEW g \in Awaited', CacheKey(g) # None
                PROVE  ~Held(CacheKey(g))' /\ encoded'[g] = None
    BY DEF AwaitedAreMissing
  <2>1. g \in Awaited /\ g \in Feature /\ CacheKey(g) # CacheKey(f)
    BY <1>2, <1>6, <1>7
  <2>2. ~Held(CacheKey(g)) /\ encoded[g] = None
    BY <2>1 DEF OnceInv, AwaitedAreMissing
  <2>3. encoded'[g] = encoded[g]
    BY <1>1, <1>8, <2>1
  <2>. QED BY <1>9, <2>1, <2>2, <2>3
<1>11. HandedOutIsHeld'
  BY <1>1 DEF HandedOutIsHeld
<1>. QED BY <1>5, <1>10, <1>11 DEF OnceInv

LEMMA BuildPromptsKeepsOnce == ASSUME Inv, OnceInv, BuildPrompts PROVE OnceInv'
<1>1. /\ pending = <<>> /\ batch = <<>> /\ ready = <<>>
      /\ pc' = "idle" /\ encoded' = NothingEncoded
      /\ UNCHANGED <<pending, batch, ready>>
  BY DEF BuildPrompts, EverythingRan, Encoding
<1>2. LoneKeys'
  BY <1>1, NothingIsApart DEF LoneKeys
<1>3. AwaitedAreMissing' /\ HandedOutIsHeld'
  BY <1>1, NoElements DEF AwaitedAreMissing, Awaited, HandedOutIsHeld
<1>. QED BY <1>2, <1>3 DEF OnceInv

LEMMA ResetKeepsOnce == ASSUME Inv, OnceInv, Reset PROVE OnceInv'
<1>1. /\ pc = "idle" /\ pc' = pc /\ items' = <<>>
      /\ UNCHANGED <<pending, batch, ready, encoded>>
  BY DEF Reset, Cache!Clear, stepVars
<1>2. LoneKeys'
  BY <1>1 DEF OnceInv, LoneKeys
<1>3. \A key : ~Held(key)'
  BY <1>1 DEF Held
<1>4. AwaitedAreMissing' /\ HandedOutIsHeld'
  BY <1>1, <1>3 DEF OnceInv, AwaitedAreMissing, Awaited, HandedOutIsHeld
<1>. QED BY <1>2, <1>4 DEF OnceInv

LEMMA NextKeepsOnce == Inv /\ OnceInv /\ [Next]_vars => OnceInv'
<1>. SUFFICES ASSUME Inv, OnceInv, [Next]_vars PROVE OnceInv'
  OBVIOUS
<1>1. CASE Begin
  BY <1>1, OnceUnmoved DEF Begin, OnceInv, HandedOutIsHeld
<1>2. CASE ScanEnds \/ Raise \/ UNCHANGED vars
  <2>1. /\ items' = items /\ pending' = pending /\ batch' = batch /\ ready' = ready
        /\ encoded' = encoded /\ (pc' = pc \/ pc' \in {"encode", "dead"})
    BY <1>2 DEF ScanEnds, Raise, vars, stepVars
  <2>. QED BY <2>1, OnceUnmoved
<1>3. CASE EncodeBatch \/ BuildPrompts \/ Reset
  BY <1>3, EncodeBatchKeepsOnce, BuildPromptsKeepsOnce, ResetKeepsOnce
<1>4. ASSUME NEW f \in Feature, Skip(f) \/ Repeat(f) PROVE OnceInv'
  <2>1. /\ items' = items /\ pending' = pending /\ batch' = batch /\ ready' = ready
        /\ encoded' = encoded /\ pc' = pc
    BY <1>4 DEF Skip, Repeat, Scan
  <2>. QED BY <2>1, OnceUnmoved
<1>5. ASSUME NEW f \in Feature, Hit(f) \/ Wait(f) \/ Deliver(f) PROVE OnceInv'
  BY <1>5, HitKeepsOnce, WaitKeepsOnce, DeliverKeepsOnce
<1>6. ASSUME NEW i \in DOMAIN pending, Take(i) PROVE OnceInv'
  BY <1>6, TakeKeepsOnce
<1>. QED BY <1>1, <1>2, <1>3, <1>4, <1>5, <1>6 DEF Next, Dead

\* The joined queues have distinct keys if each has, and no two share one.
LEMMA JoinedAreDistinct ==
  ASSUME NEW s \in Seq(Feature), NEW t \in Seq(Feature),
         KeysDistinct(s), KeysDistinct(t), KeysApart(s, t)
  PROVE  /\ s \o t \in Seq(Feature) /\ KeysDistinct(s \o t)
         /\ Elements(s \o t) \subseteq Elements(s) \cup Elements(t)
<1>. DEFINE c == s \o t
<1>1. /\ c \in Seq(Feature) /\ Len(s) \in Nat /\ Len(t) \in Nat
      /\ DOMAIN s = 1 .. Len(s) /\ DOMAIN t = 1 .. Len(t) /\ DOMAIN c = 1 .. Len(s) + Len(t)
      /\ \A i \in 1 .. Len(s) + Len(t) : c[i] = IF i <= Len(s) THEN s[i] ELSE t[i - Len(s)]
  BY ConcatProperties, LenProperties
<1>. HIDE DEF c
<1>2. \A i \in DOMAIN c : \/ i \in DOMAIN s /\ c[i] = s[i]
                          \/ i - Len(s) \in DOMAIN t /\ c[i] = t[i - Len(s)] /\ i \in Int
  BY <1>1
<1>3. Elements(c) \subseteq Elements(s) \cup Elements(t)
  BY <1>2 DEF Elements
<1>4. ASSUME NEW i \in DOMAIN c, NEW j \in DOMAIN c, CacheKey(c[i]) # None, CacheKey(c[i]) = CacheKey(c[j])
      PROVE  i = j
  <2>1. CASE i \in DOMAIN s /\ c[i] = s[i] /\ j \in DOMAIN s /\ c[j] = s[j]
    BY <1>4, <2>1 DEF KeysDistinct
  <2>2. CASE i - Len(s) \in DOMAIN t /\ c[i] = t[i - Len(s)] /\ j - Len(s) \in DOMAIN t /\ c[j] = t[j - Len(s)]
    <3>1. i - Len(s) = j - Len(s)
      BY <1>4, <2>2 DEF KeysDistinct
    <3>. QED BY <1>1, <3>1
  <2>3. \A x \in DOMAIN s, y \in DOMAIN t : CacheKey(s[x]) # None => CacheKey(s[x]) # CacheKey(t[y])
    BY DEF KeysApart, Without, Elements
  <2>. QED BY <1>2, <1>4, <2>1, <2>2, <2>3
<1>. QED BY <1>1, <1>3, <1>4 DEF c, KeysDistinct

\* What waits has distinct keys and nothing else of them.
LEMMA OnceIsMissing == Inv /\ OnceInv => EncodesOnlyWhatIsMissing
<1>. SUFFICES ASSUME Inv, OnceInv PROVE EncodesOnlyWhatIsMissing
  OBVIOUS
<1>. DEFINE front == pending \o batch
            waiting == pending \o batch \o ready
<1>1. /\ front \in Seq(Feature) /\ KeysDistinct(front)
      /\ Elements(front) \subseteq Elements(pending) \cup Elements(batch)
  BY JoinedAreDistinct DEF Inv, TypeOK, OnceInv, LoneKeys
<1>2. KeysApart(front, ready)
  BY <1>1 DEF OnceInv, LoneKeys, KeysApart, Without
<1>3. waiting = front \o ready
  OBVIOUS
<1>. HIDE DEF front, waiting
<1>4. KeysDistinct(waiting) /\ Elements(waiting) \subseteq Elements(front) \cup Elements(ready)
  BY <1>1, <1>2, <1>3, JoinedAreDistinct DEF Inv, TypeOK, OnceInv, LoneKeys
<1>5. Elements(waiting) \subseteq Awaited
  BY <1>1, <1>4 DEF Awaited
<1>6. \A i \in DOMAIN waiting : waiting[i] \in Awaited
  BY <1>5 DEF Elements
<1>7. ASSUME NEW i \in DOMAIN waiting, CacheKey(waiting[i]) # None
      PROVE  /\ HeldOutputs(CacheKey(waiting[i])) = {} /\ encoded[waiting[i]] = None
             /\ \A j \in DOMAIN waiting : j # i => CacheKey(waiting[j]) # CacheKey(waiting[i])
  <2>1. ~Held(CacheKey(waiting[i])) /\ encoded[waiting[i]] = None
    BY <1>6, <1>7 DEF OnceInv, AwaitedAreMissing
  <2>2. HeldOutputs(CacheKey(waiting[i])) = {}
    BY <2>1 DEF HeldOutputs, Held
  <2>. QED BY <1>4, <1>7, <2>1, <2>2 DEF KeysDistinct
<1>. QED BY <1>7, Zenon DEF EncodesOnlyWhatIsMissing, waiting

(***************************************************************************)
(* For any features, limits and budget: a step sends each item through the *)
(* encoder once, and only items that the cache does not hold and that have *)
(* not been handed out (_encode_vision_items, pending_by_key).             *)
(***************************************************************************)
THEOREM AlwaysEncodesOnlyWhatIsMissing == Spec => []EncodesOnlyWhatIsMissing
BY InitInv, NextKeeps, InitOnce, NextKeepsOnce, OnceIsMissing, PTL DEF Spec

-----------------------------------------------------------------------------
(* The byte count.                                                         *)

\* Induction, with the property as a set of numbers.
LEMMA NatSetInduction ==
  ASSUME NEW S, 0 \in S, \A n \in Nat : n \in S => n + 1 \in S
  PROVE  Nat \subseteq S
<1>. DEFINE less == OpToRel(<, Nat)
            rest == Nat \ S
<1>1. IsWellFoundedOn(less, Nat)
  BY NatLessThanWellFounded
<1>2. \A x, y \in Nat : x < y => <<x, y>> \in less
  BY DEF OpToRel
<1>. HIDE DEF less
<1>. SUFFICES ASSUME rest # {} PROVE FALSE
  OBVIOUS
<1>3. \E x \in rest : \A y \in rest : ~(<<y, x>> \in less)
  <2>1. rest \subseteq Nat
    OBVIOUS
  <2>. HIDE DEF rest
  <2>. QED BY <1>1, <2>1, WFMin
<1>4. PICK x \in rest : \A y \in rest : ~(<<y, x>> \in less)
  BY <1>3
<1>5. x \in Nat /\ x # 0 /\ x \notin S
  OBVIOUS
<1>6. x - 1 \in Nat /\ x - 1 < x /\ (x - 1) + 1 = x
  BY <1>5
<1>7. x - 1 \in rest
  BY <1>5, <1>6
<1>. QED BY <1>2, <1>4, <1>5, <1>6, <1>7

\* A sum of natural numbers by places, as Sizes counts it, exists.
LEMMA SumsExist ==
  ASSUME NEW N \in Nat, NEW w, \A n \in 1 .. N : w[n] \in Nat
  PROVE  \E g \in [0 .. N -> Nat] : g = [n \in 0 .. N |-> IF n = 0 THEN 0 ELSE g[n - 1] + w[n]]
<1>. DEFINE IsSum(n, g) == /\ g \in [0 .. n -> Nat] /\ g[0] = 0
                           /\ \A k \in 1 .. n : g[k] = g[k - 1] + w[k]
            S == {n \in Nat : n <= N => \E g : IsSum(n, g)}
<1>1. 0 \in S
  <2>1. IsSum(0, [k \in 0 .. 0 |-> 0])
    OBVIOUS
  <2>. HIDE DEF IsSum
  <2>. QED BY <2>1
<1>2. ASSUME NEW n \in Nat, n \in S PROVE n + 1 \in S
  <2>. SUFFICES ASSUME n + 1 <= N PROVE \E g : IsSum(n + 1, g)
    OBVIOUS
  <2>1. PICK g : IsSum(n, g)
    BY <1>2
  <2>2. g \in [0 .. n -> Nat] /\ g[0] = 0 /\ \A k \in 1 .. n : g[k] = g[k - 1] + w[k]
    BY <2>1
  <2>. DEFINE h == [k \in 0 .. n + 1 |-> IF k <= n THEN g[k] ELSE g[n] + w[n + 1]]
  <2>3. w[n + 1] \in Nat /\ g[n] \in Nat /\ \A k \in 0 .. n : g[k] \in Nat
    BY <2>2
  <2>4. h \in [0 .. n + 1 -> Nat]
    BY <2>3
  <2>5. /\ \A k \in 0 .. n : h[k] = g[k]
        /\ h[n + 1] = g[n] + w[n + 1]
    OBVIOUS
  <2>. HIDE DEF h
  <2>6. h[0] = 0
    BY <2>2, <2>5
  <2>7. ASSUME NEW k \in 1 .. n + 1 PROVE h[k] = h[k - 1] + w[k]
    <3>1. CASE k \in 1 .. n
      <4>1. k \in 0 .. n /\ k - 1 \in 0 .. n
        BY <3>1
      <4>. QED BY <2>2, <2>5, <3>1, <4>1
    <3>2. CASE k = n + 1
      <4>1. k - 1 = n /\ n \in 0 .. n
        BY <3>2
      <4>2. h[k - 1] = g[n]
        BY <2>5, <4>1
      <4>. QED BY <2>5, <3>2, <4>2
    <3>3. k \in 1 .. n \/ k = n + 1
      OBVIOUS
    <3>. QED BY <3>1, <3>2, <3>3
  <2>8. IsSum(n + 1, h)
    BY <2>4, <2>6, <2>7
  <2>. HIDE DEF IsSum
  <2>. QED BY <2>8
<1>3. N \in S
  <2>. HIDE DEF S
  <2>1. Nat \subseteq S
    BY <1>1, <1>2, NatSetInduction
  <2>. QED BY <2>1
<1>4. \E g : IsSum(N, g)
  <2>. HIDE DEF IsSum
  <2>1. N <= N
    OBVIOUS
  <2>. QED BY <1>3, <2>1
<1>. PICK g : IsSum(N, g)
  BY <1>4
<1>5. g \in [0 .. N -> Nat] /\ g[0] = 0 /\ \A k \in 1 .. N : g[k] = g[k - 1] + w[k]
  OBVIOUS
<1>. DEFINE f == [n \in 0 .. N |-> IF n = 0 THEN 0 ELSE g[n - 1] + w[n]]
<1>6. \A n \in 0 .. N : g[n] = f[n]
  <2>. TAKE n \in 0 .. N
  <2>1. CASE n = 0
    BY <1>5, <2>1
  <2>2. CASE n # 0
    <3>1. n \in 1 .. N
      BY <2>2
    <3>. QED BY <1>5, <2>2, <3>1
  <2>. QED BY <2>1, <2>2
<1>7. g = f
  <2>1. DOMAIN f = 0 .. N /\ f = [n \in 0 .. N |-> f[n]]
    OBVIOUS
  <2>. HIDE DEF f
  <2>2. g = [n \in 0 .. N |-> g[n]]
    BY <1>5
  <2>. QED BY <1>6, <2>1, <2>2
<1>. QED BY <1>5, <1>7

\* Each entry's size is a number.
LEMMA EntriesHaveSizes == \A e \in Entry : ItemBytes(e.item) \in Nat
<1>. SUFFICES ASSUME NEW f \in Feature PROVE ItemBytes(Output(f)) \in Nat
  BY DEF Entry, Outputs
<1>1. Output(f)[2] = Feat[f].content
  BY DEF Output
<1>. QED BY <1>1, FeatureAssumption DEF ItemBytes

\* What Sizes counts: nothing for no entry, and for each entry its size.
LEMMA SizesCount ==
  ASSUME NEW s \in Seq(Entry)
  PROVE  /\ Len(s) \in Nat
         /\ \A n \in 0 .. Len(s) : Cache!Sizes(s)[n] \in Nat
         /\ Cache!Sizes(s)[0] = 0
         /\ \A n \in 1 .. Len(s) : Cache!Sizes(s)[n] = Cache!Sizes(s)[n - 1] + ItemBytes(s[n].item)
<1>. DEFINE w == [n \in 1 .. Len(s) |-> ItemBytes(s[n].item)]
            IsTotal(g) == g = [n \in 0 .. Len(s) |-> IF n = 0 THEN 0 ELSE g[n - 1] + ItemBytes(s[n].item)]
            total == CHOOSE g : IsTotal(g)
<1>1. Len(s) \in Nat /\ \A n \in 1 .. Len(s) : s[n] \in Entry
  BY LenProperties, ElementOfSeq
<1>2. \A n \in 1 .. Len(s) : w[n] = ItemBytes(s[n].item) /\ w[n] \in Nat
  BY <1>1, EntriesHaveSizes
<1>. HIDE DEF w
<1>3. PICK g \in [0 .. Len(s) -> Nat] :
        g = [n \in 0 .. Len(s) |-> IF n = 0 THEN 0 ELSE g[n - 1] + w[n]]
  BY <1>1, <1>2, SumsExist
<1>4. IsTotal(g)
  <2>1. \A n \in 0 .. Len(s) : g[n] = IF n = 0 THEN 0 ELSE g[n - 1] + ItemBytes(s[n].item)
    <3>. TAKE n \in 0 .. Len(s)
    <3>1. g[n] = IF n = 0 THEN 0 ELSE g[n - 1] + w[n]
      BY <1>3
    <3>2. n # 0 => n \in 1 .. Len(s)
      BY <1>1
    <3>. QED BY <3>1, <3>2, <1>2
  <2>2. g = [n \in 0 .. Len(s) |-> g[n]]
    BY <1>3
  <2>. QED BY <2>1, <2>2
<1>5. IsTotal(total)
  <2>. HIDE DEF IsTotal
  <2>. QED BY <1>4
<1>6. Cache!Sizes(s) = total
  BY DEF Cache!Sizes
<1>. HIDE DEF total
<1>7. /\ total[0] = 0
      /\ \A n \in 1 .. Len(s) : total[n] = total[n - 1] + ItemBytes(s[n].item)
  <2>1. \A n \in 0 .. Len(s) : total[n] = IF n = 0 THEN 0 ELSE total[n - 1] + ItemBytes(s[n].item)
    BY <1>5
  <2>2. 0 \in 0 .. Len(s) /\ \A n \in 1 .. Len(s) : n \in 0 .. Len(s) /\ n # 0
    BY <1>1
  <2>. QED BY <2>1, <2>2
<1>. HIDE DEF IsTotal
<1>. DEFINE S == {n \in Nat : n <= Len(s) => total[n] \in Nat}
<1>8. Nat \subseteq S
  <2>1. 0 \in S
    BY <1>7
  <2>2. ASSUME NEW n \in Nat, n \in S PROVE n + 1 \in S
    <3>. SUFFICES ASSUME n + 1 <= Len(s) PROVE total[n + 1] \in Nat
      OBVIOUS
    <3>. DEFINE m == n + 1
    <3>1. m \in 1 .. Len(s) /\ m - 1 = n /\ n <= Len(s)
      BY <1>1
    <3>. HIDE DEF m
    <3>2. total[n] \in Nat /\ ItemBytes(s[m].item) \in Nat
      BY <1>2, <2>2, <3>1
    <3>3. total[m] = total[n] + ItemBytes(s[m].item)
      BY <1>7, <3>1
    <3>. QED BY <3>2, <3>3 DEF m
  <2>. HIDE DEF S
  <2>. QED BY <2>1, <2>2, NatSetInduction
<1>9. \A n \in 0 .. Len(s) : total[n] \in Nat
  <2>. TAKE n \in 0 .. Len(s)
  <2>1. n \in S /\ n <= Len(s)
    BY <1>1, <1>8
  <2>. QED BY <2>1
<1>. QED BY <1>1, <1>6, <1>7, <1>9

\* Entries joined take what each part takes.
LEMMA SizeOfConcat ==
  ASSUME NEW s \in Seq(Entry), NEW t \in Seq(Entry)
  PROVE  /\ Cache!SizeOf(s \o t) = Cache!SizeOf(s) + Cache!SizeOf(t)
         /\ Cache!SizeOf(s) \in Nat /\ Cache!SizeOf(t) \in Nat
<1>. DEFINE c == s \o t
            f == Cache!Sizes(c)
            g == Cache!Sizes(s)
            h == Cache!Sizes(t)
            N == Len(s)
            M == Len(t)
<1>1. /\ c \in Seq(Entry) /\ Len(c) = N + M /\ N \in Nat /\ M \in Nat
      /\ \A i \in 1 .. N + M : c[i] = IF i <= N THEN s[i] ELSE t[i - N]
  BY ConcatProperties, LenProperties
<1>. HIDE DEF c
<1>2. /\ \A n \in 0 .. N + M : f[n] \in Nat
      /\ f[0] = 0 /\ \A n \in 1 .. N + M : f[n] = f[n - 1] + ItemBytes(c[n].item)
  BY <1>1, SizesCount
<1>3. /\ \A n \in 0 .. N : g[n] \in Nat
      /\ g[0] = 0 /\ \A n \in 1 .. N : g[n] = g[n - 1] + ItemBytes(s[n].item)
  BY SizesCount
<1>4. /\ \A n \in 0 .. M : h[n] \in Nat
      /\ h[0] = 0 /\ \A n \in 1 .. M : h[n] = h[n - 1] + ItemBytes(t[n].item)
  BY SizesCount
<1>5. /\ \A n \in 1 .. N : ItemBytes(s[n].item) \in Nat
      /\ \A n \in 1 .. M : ItemBytes(t[n].item) \in Nat
  BY EntriesHaveSizes, ElementOfSeq
<1>. HIDE DEF f, g, h, N, M
<1>6. f[N] = g[N]
  <2>. DEFINE S == {n \in Nat : n <= N => f[n] = g[n]}
  <2>1. 0 \in S
    BY <1>2, <1>3
  <2>2. ASSUME NEW n \in Nat, n \in S PROVE n + 1 \in S
    <3>. SUFFICES ASSUME n + 1 <= N PROVE f[n + 1] = g[n + 1]
      OBVIOUS
    <3>. DEFINE m == n + 1
    <3>1. m \in 1 .. N + M /\ m \in 1 .. N /\ m - 1 = n /\ m <= N /\ n <= N
      BY <1>1
    <3>. HIDE DEF m
    <3>2. c[m] = s[m]
      BY <1>1, <3>1
    <3>3. f[m] = f[n] + ItemBytes(s[m].item) /\ g[m] = g[n] + ItemBytes(s[m].item)
      BY <1>2, <1>3, <3>1, <3>2
    <3>4. f[n] = g[n]
      BY <2>2, <3>1
    <3>. QED BY <3>3, <3>4 DEF m
  <2>3. Nat \subseteq S
    <3>. HIDE DEF S
    <3>. QED BY <2>1, <2>2, NatSetInduction
  <2>4. N \in S /\ N <= N
    BY <1>1, <2>3
  <2>. QED BY <2>4
<1>7. f[N + M] = g[N] + h[M]
  <2>. DEFINE S == {n \in Nat : n <= M => f[N + n] = g[N] + h[n]}
  <2>1. 0 \in S
    <3>1. N + 0 = N /\ g[N] \in Nat
      BY <1>1, <1>3
    <3>. QED BY <1>4, <1>6, <3>1
  <2>2. ASSUME NEW n \in Nat, n \in S PROVE n + 1 \in S
    <3>. SUFFICES ASSUME n + 1 <= M PROVE f[N + (n + 1)] = g[N] + h[n + 1]
      OBVIOUS
    <3>. DEFINE m == n + 1
                k == N + m
    <3>1. /\ k \in 1 .. N + M /\ k - 1 = N + n /\ ~(k <= N) /\ k - N = m
          /\ m \in 1 .. M /\ m - 1 = n /\ n <= M /\ n \in 0 .. M
      BY <1>1
    <3>. HIDE DEF m, k
    <3>2. c[k] = t[m]
      BY <1>1, <3>1
    <3>3. f[k] = f[N + n] + ItemBytes(t[m].item)
      BY <1>2, <3>1, <3>2
    <3>4. h[m] = h[n] + ItemBytes(t[m].item)
      BY <1>4, <3>1
    <3>5. f[N + n] = g[N] + h[n]
      BY <2>2, <3>1
    <3>6. g[N] \in Nat /\ h[n] \in Nat /\ ItemBytes(t[m].item) \in Nat
      BY <1>1, <1>3, <1>4, <1>5, <3>1
    <3>7. f[k] = g[N] + h[m]
      BY <3>3, <3>4, <3>5, <3>6
    <3>. QED BY <3>7 DEF m, k
  <2>3. Nat \subseteq S
    <3>. HIDE DEF S
    <3>. QED BY <2>1, <2>2, NatSetInduction
  <2>4. M \in S /\ M <= M
    BY <1>1, <2>3
  <2>. QED BY <2>4
<1>8. N \in 0 .. N /\ M \in 0 .. M
  BY <1>1
<1>9. Cache!SizeOf(c) = f[N + M] /\ Cache!SizeOf(s) = g[N] /\ Cache!SizeOf(t) = h[M]
  BY <1>1 DEF Cache!SizeOf, f, g, h, N, M
<1>. QED BY <1>3, <1>4, <1>7, <1>8, <1>9 DEF c

LEMMA SizeOfOne ==
  ASSUME NEW e \in Entry
  PROVE  <<e>> \in Seq(Entry) /\ Cache!SizeOf(<<e>>) = ItemBytes(e.item)
<1>. DEFINE one == <<e>>
<1>1. one \in Seq(Entry) /\ Len(one) = 1 /\ one[1] = e
  OBVIOUS
<1>. HIDE DEF one
<1>2. ItemBytes(e.item) \in Nat
  BY EntriesHaveSizes
<1>3. /\ Cache!Sizes(one)[0] = 0
      /\ \A n \in 1 .. Len(one) : Cache!Sizes(one)[n] = Cache!Sizes(one)[n - 1] + ItemBytes(one[n].item)
  BY <1>1, SizesCount
<1>4. 1 \in 1 .. Len(one) /\ 1 - 1 = 0
  BY <1>1
<1>5. Cache!Sizes(one)[1] = 0 + ItemBytes(e.item)
  BY <1>1, <1>3, <1>4
<1>6. Cache!SizeOf(one) = ItemBytes(e.item)
  BY <1>1, <1>2, <1>5 DEF Cache!SizeOf
<1>. QED BY <1>1, <1>6 DEF one

\* Cut anywhere, the entries take what both ends take.
LEMMA SizeOfCut ==
  ASSUME NEW s \in Seq(Entry), NEW n \in 0 .. Len(s)
  PROVE  /\ SubSeq(s, 1, n) \in Seq(Entry) /\ SubSeq(s, n + 1, Len(s)) \in Seq(Entry)
         /\ Cache!SizeOf(SubSeq(s, 1, n)) \in Nat /\ Cache!SizeOf(SubSeq(s, n + 1, Len(s))) \in Nat
         /\ Cache!SizeOf(s) = Cache!SizeOf(SubSeq(s, 1, n)) + Cache!SizeOf(SubSeq(s, n + 1, Len(s)))
<1>. DEFINE a == SubSeq(s, 1, n)
            b == SubSeq(s, n + 1, Len(s))
<1>1. Len(s) \in Nat /\ n \in Nat /\ n <= Len(s) /\ \A i \in 1 .. Len(s) : s[i] \in Entry
  BY LenProperties, ElementOfSeq
<1>2. a \in Seq(Entry)
  <2>1. \A i \in 1 .. n : s[i] \in Entry
    BY <1>1
  <2>. QED BY <1>1, <2>1, SubSeqProperties
<1>3. b \in Seq(Entry)
  BY EndPlaces
<1>4. a \o b = s
  <2>1. 1 \in 1 .. Len(s) + 1 /\ n \in 1 - 1 .. Len(s) /\ Len(s) \in n .. Len(s)
    BY <1>1
  <2>2. a \o b = SubSeq(s, 1, Len(s))
    BY <2>1, ConcatAdjacentSubSeq
  <2>. QED BY <2>2, SubSeqFull
<1>. HIDE DEF a, b
<1>5. Cache!SizeOf(a \o b) = Cache!SizeOf(a) + Cache!SizeOf(b) /\ Cache!SizeOf(a) \in Nat /\ Cache!SizeOf(b) \in Nat
  BY <1>2, <1>3, SizeOfConcat
<1>. QED BY <1>2, <1>3, <1>4, <1>5 DEF a, b

\* An entry more, and an entry less.
LEMMA SizeOfAppend ==
  ASSUME NEW s \in Seq(Entry), NEW e \in Entry
  PROVE  /\ Cache!SizeOf(Append(s, e)) = Cache!SizeOf(s) + ItemBytes(e.item)
         /\ Cache!SizeOf(s) \in Nat /\ ItemBytes(e.item) \in Nat
<1>1. Append(s, e) = s \o <<e>>
  BY AppendIsConcat
<1>2. <<e>> \in Seq(Entry) /\ Cache!SizeOf(<<e>>) = ItemBytes(e.item)
  BY SizeOfOne
<1>. DEFINE one == <<e>>
<1>. HIDE DEF one
<1>3. Cache!SizeOf(s \o one) = Cache!SizeOf(s) + Cache!SizeOf(one) /\ Cache!SizeOf(s) \in Nat
  BY <1>2, SizeOfConcat DEF one
<1>4. ItemBytes(e.item) \in Nat
  BY EntriesHaveSizes
<1>. QED BY <1>1, <1>2, <1>3, <1>4 DEF one

LEMMA SizeOfRemoveAt ==
  ASSUME NEW s \in Seq(Entry), NEW i \in DOMAIN s
  PROVE  /\ RemoveAt(s, i) \in Seq(Entry) /\ s[i] \in Entry
         /\ Cache!SizeOf(s) = Cache!SizeOf(RemoveAt(s, i)) + ItemBytes(s[i].item)
         /\ Cache!SizeOf(RemoveAt(s, i)) \in Nat /\ ItemBytes(s[i].item) \in Nat
<1>. DEFINE a == SubSeq(s, 1, i - 1)
            b == SubSeq(s, i + 1, Len(s))
            c == SubSeq(s, i, Len(s))
            one == <<s[i]>>
<1>1. /\ Len(s) \in Nat /\ i \in 1 .. Len(s) /\ i - 1 \in 0 .. Len(s) /\ (i - 1) + 1 = i
      /\ i \in 0 .. Len(s) /\ Len(s) \in i .. Len(s) /\ s[i] \in Entry
  BY LenProperties, ElementOfSeq
<1>2. /\ a \in Seq(Entry) /\ c \in Seq(Entry)
      /\ Cache!SizeOf(a) \in Nat /\ Cache!SizeOf(c) \in Nat /\ Cache!SizeOf(s) = Cache!SizeOf(a) + Cache!SizeOf(c)
  <2>. DEFINE n == i - 1
  <2>1. n \in 0 .. Len(s) /\ n + 1 = i
    BY <1>1
  <2>. HIDE DEF n
  <2>2. /\ SubSeq(s, 1, n) \in Seq(Entry) /\ SubSeq(s, n + 1, Len(s)) \in Seq(Entry)
        /\ Cache!SizeOf(SubSeq(s, 1, n)) \in Nat /\ Cache!SizeOf(SubSeq(s, n + 1, Len(s))) \in Nat
        /\ Cache!SizeOf(s) = Cache!SizeOf(SubSeq(s, 1, n)) + Cache!SizeOf(SubSeq(s, n + 1, Len(s)))
    BY <2>1, SizeOfCut
  <2>3. SubSeq(s, n + 1, Len(s)) = c
    BY <2>1
  <2>4. SubSeq(s, 1, n) = a
    BY DEF n
  <2>. HIDE DEF a, c
  <2>. QED BY <2>2, <2>3, <2>4
<1>3. c = one \o b
  BY <1>1, SubSeqRecursiveFirst
<1>4. b \in Seq(Entry) /\ Cache!SizeOf(b) \in Nat
  BY <1>1, SizeOfCut
<1>5. one \in Seq(Entry) /\ Cache!SizeOf(one) = ItemBytes(s[i].item)
  BY <1>1, SizeOfOne
<1>6. RemoveAt(s, i) = a \o b
  BY DEF RemoveAt
<1>7. ItemBytes(s[i].item) \in Nat
  BY <1>1, EntriesHaveSizes
<1>. HIDE DEF a, b, c, one
<1>8. Cache!SizeOf(c) = Cache!SizeOf(one) + Cache!SizeOf(b)
  BY <1>3, <1>4, <1>5, SizeOfConcat
<1>9. Cache!SizeOf(a \o b) = Cache!SizeOf(a) + Cache!SizeOf(b) /\ a \o b \in Seq(Entry)
  BY <1>2, <1>4, SizeOfConcat, ConcatProperties
<1>10. Cache!SizeOf(s) = Cache!SizeOf(RemoveAt(s, i)) + ItemBytes(s[i].item)
  BY <1>2, <1>4, <1>5, <1>6, <1>7, <1>8, <1>9
<1>11. RemoveAt(s, i) \in Seq(Entry) /\ Cache!SizeOf(RemoveAt(s, i)) \in Nat
  <2>1. Cache!SizeOf(a \o b) \in Nat
    BY <1>2, <1>4, <1>9
  <2>. QED BY <1>6, <1>9, <2>1
<1>. QED BY <1>1, <1>7, <1>10, <1>11

LEMMA SizeOfNothing == Cache!SizeOf(<<>>) = 0
<1>1. <<>> \in Seq(Entry) /\ Len(<<>>) = 0
  BY EmptySeq
<1>. QED BY <1>1, SizesCount DEF Cache!SizeOf

\* What is used keeps its size.
LEMMA GetKeepsCount ==
  ASSUME items \in Seq(Entry), CountIsExact, NEW key, NEW item, Cache!Get(key, item)
  PROVE  CountIsExact'
<1>1. PICK i \in DOMAIN items : items' = Append(RemoveAt(items, i), items[i])
  BY DEF Cache!Get, Cache!RemoveAt, RemoveAt
<1>2. nbytes' = nbytes
  BY DEF Cache!Get
<1>3. /\ RemoveAt(items, i) \in Seq(Entry) /\ items[i] \in Entry
      /\ Cache!SizeOf(items) = Cache!SizeOf(RemoveAt(items, i)) + ItemBytes(items[i].item)
  BY SizeOfRemoveAt
<1>4. Cache!SizeOf(items') = Cache!SizeOf(RemoveAt(items, i)) + ItemBytes(items[i].item)
  BY <1>1, <1>3, SizeOfAppend
<1>. QED BY <1>2, <1>3, <1>4 DEF CountIsExact, Cache!CountIsExact

\* As many of the oldest go as make room, or all.
LEMMA EvictKeepsCount ==
  ASSUME NEW rest \in Seq(Entry), NEW key \in AllKeys, NEW item \in Outputs,
         ~(ItemBytes(item) > MaxBytes), Cache!Evict(rest, Cache!SizeOf(rest), key, item)
  PROVE  CountIsExact'
<1>. DEFINE e == [key |-> key, item |-> item]
            front(k) == Cache!SizeOf(SubSeq(rest, 1, k))
            fits(k) == k = Len(rest) \/ (Cache!SizeOf(rest) - front(k)) + ItemBytes(item) <= MaxBytes
<1>1. PICK n \in 0 .. Len(rest) :
        /\ fits(n)
        /\ items' = Append(SubSeq(rest, n + 1, Len(rest)), e)
        /\ nbytes' = (Cache!SizeOf(rest) - front(n)) + ItemBytes(item)
  BY DEF Cache!Evict
<1>2. e \in Entry /\ e.item = item
  BY DEF Entry
<1>. DEFINE b == SubSeq(rest, n + 1, Len(rest))
<1>3. /\ b \in Seq(Entry) /\ front(n) \in Nat /\ Cache!SizeOf(b) \in Nat
      /\ Cache!SizeOf(rest) = front(n) + Cache!SizeOf(b)
  BY SizeOfCut
<1>4. n = Len(rest) => b = <<>>
  <2>1. Len(rest) \in Nat
    BY LenProperties
  <2>. QED BY <2>1, SubSeqEmpty
<1>5. items' = Append(b, e) /\ nbytes' = (Cache!SizeOf(rest) - front(n)) + ItemBytes(item)
  BY <1>1
<1>6. n = Len(rest) \/ (Cache!SizeOf(rest) - front(n)) + ItemBytes(item) <= MaxBytes
  BY <1>1
<1>. DEFINE size == front(n)
<1>7. /\ size \in Nat /\ Cache!SizeOf(rest) = size + Cache!SizeOf(b)
      /\ nbytes' = (Cache!SizeOf(rest) - size) + ItemBytes(item)
      /\ n = Len(rest) \/ (Cache!SizeOf(rest) - size) + ItemBytes(item) <= MaxBytes
  BY <1>3, <1>5, <1>6
<1>. HIDE DEF size, b, e, front, fits
<1>8. Cache!SizeOf(Append(b, e)) = Cache!SizeOf(b) + ItemBytes(item) /\ ItemBytes(item) \in Nat
  BY <1>2, <1>3, SizeOfAppend
<1>9. nbytes' = Cache!SizeOf(b) + ItemBytes(item)
  BY <1>3, <1>7, <1>8
<1>10. nbytes' <= MaxBytes
  <2>1. CASE n = Len(rest)
    <3>1. Cache!SizeOf(b) = 0
      BY <1>4, <2>1, SizeOfNothing
    <3>. QED BY <1>8, <1>9, <3>1, FeatureAssumption
  <2>2. CASE n # Len(rest)
    BY <1>3, <1>7, <2>2
  <2>. QED BY <2>1, <2>2
<1>. QED BY <1>5, <1>8, <1>9, <1>10 DEF CountIsExact, Cache!CountIsExact

LEMMA PutKeepsCount ==
  ASSUME items \in Seq(Entry), CountIsExact, NEW key \in AllKeys, NEW item \in Outputs,
         Cache!Put(key, item)
  PROVE  CountIsExact'
<1>1. CASE ItemBytes(item) > MaxBytes
  <2>1. items' = items /\ nbytes' = nbytes
    BY <1>1 DEF Cache!Put
  <2>. QED BY <2>1 DEF CountIsExact, Cache!CountIsExact
<1>2. CASE ~(ItemBytes(item) > MaxBytes) /\ Cache!Places(key) = {}
  <2>1. Cache!Evict(items, nbytes, key, item)
    BY <1>2 DEF Cache!Put
  <2>2. nbytes = Cache!SizeOf(items)
    BY DEF CountIsExact, Cache!CountIsExact
  <2>. QED BY <1>2, <2>1, <2>2, EvictKeepsCount
<1>3. CASE ~(ItemBytes(item) > MaxBytes) /\ Cache!Places(key) # {}
  <2>. DEFINE i == Cache!PlaceOf(key)
              rest == RemoveAt(items, i)
  <2>1. Cache!Evict(rest, nbytes - ItemBytes(items[i].item), key, item)
    BY <1>3 DEF Cache!Put, Cache!RemoveAt, RemoveAt
  <2>2. i \in DOMAIN items
    BY <1>3 DEF Cache!PlaceOf, Cache!Places
  <2>. HIDE DEF i
  <2>3. /\ rest \in Seq(Entry)
        /\ Cache!SizeOf(items) = Cache!SizeOf(rest) + ItemBytes(items[i].item)
        /\ Cache!SizeOf(rest) \in Nat /\ ItemBytes(items[i].item) \in Nat
    BY <2>2, SizeOfRemoveAt
  <2>. HIDE DEF rest
  <2>4. nbytes - ItemBytes(items[i].item) = Cache!SizeOf(rest)
    BY <2>3 DEF CountIsExact, Cache!CountIsExact
  <2>5. Cache!Evict(rest, Cache!SizeOf(rest), key, item)
    BY <2>1, <2>4
  <2>. QED BY <1>3, <2>3, <2>5, EvictKeepsCount
<1>. QED BY <1>1, <1>2, <1>3

LEMMA NextKeepsCount == Inv /\ CountIsExact /\ [Next]_vars => CountIsExact'
<1>. SUFFICES ASSUME Inv, CountIsExact, [Next]_vars PROVE CountIsExact'
  OBVIOUS
<1>1. CASE items' = items /\ nbytes' = nbytes
  BY <1>1 DEF CountIsExact, Cache!CountIsExact
<1>2. CASE Reset
  <2>1. items' = <<>> /\ nbytes' = 0
    BY <1>2 DEF Reset, Cache!Clear
  <2>. QED BY <2>1, SizeOfNothing, FeatureAssumption DEF CountIsExact, Cache!CountIsExact
<1>3. ASSUME NEW f \in Feature, Hit(f) PROVE CountIsExact'
  <2>1. PICK item : Cache!Get(CacheKey(f), item)
    BY <1>3 DEF Hit
  <2>. QED BY <2>1, GetKeepsCount DEF Inv, TypeOK
<1>4. ASSUME NEW f \in Feature, Deliver(f) PROVE CountIsExact'
  <2>1. CASE CacheKey(f) = None
    BY <1>1, <1>4, <2>1 DEF Deliver
  <2>2. CASE CacheKey(f) # None
    <3>1. Cache!Put(CacheKey(f), Output(f))
      BY <1>4, <2>2 DEF Deliver
    <3>. QED BY <2>2, <3>1, KeysExist, OutputsExist, PutKeepsCount DEF Inv, TypeOK
  <2>. QED BY <2>1, <2>2
<1>5. CASE Begin \/ ScanEnds \/ EncodeBatch \/ Raise \/ BuildPrompts \/ UNCHANGED vars
  BY <1>1, <1>5 DEF Begin, ScanEnds, EncodeBatch, Raise, BuildPrompts, vars
<1>6. ASSUME NEW f \in Feature, Skip(f) \/ Repeat(f) \/ Wait(f) PROVE CountIsExact'
  BY <1>1, <1>6 DEF Skip, Repeat, Wait
<1>7. ASSUME NEW i \in DOMAIN pending, Take(i) PROVE CountIsExact'
  BY <1>1, <1>7 DEF Take
<1>. QED BY <1>2, <1>3, <1>4, <1>5, <1>6, <1>7 DEF Next, Dead

(***************************************************************************)
(* For any outputs and budget: the count that EncoderOutputCache keeps by  *)
(* hand is what its entries take, and never more than the budget (put,     *)
(* with every entry it evicts, replaces or refuses).                       *)
(***************************************************************************)
THEOREM CountAlwaysExact == Spec => []CountIsExact
<1>1. Init => CountIsExact
  BY SizeOfNothing, FeatureAssumption DEF Init, Cache!Init, CountIsExact, Cache!CountIsExact
<1>. QED BY <1>1, InitInv, NextKeeps, NextKeepsCount, PTL DEF Spec

-----------------------------------------------------------------------------
(* What is evicted was used longest ago.                                   *)

Injective(h) == \A a, b \in DOMAIN h : h[a] = h[b] => a = b

\* x comes before y in the history.
Before(h, x, y) == \E a, b \in DOMAIN h : a < b /\ h[a] = x /\ h[b] = y

\* The entries are in the order of a history that knows all their keys.
InOrderOf(entries, h) ==
  /\ \A i \in DOMAIN entries : entries[i].key \in Elements(h)
  /\ \A i, j \in DOMAIN entries : i < j => Before(h, entries[i].key, entries[j].key)

UsesInv == uses \in Seq(AllKeys) /\ Injective(uses) /\ InOrderOf(items, uses)

\* Entries taken out of others in their order: those at the places of an order.
TakenFrom(rest, entries, place) ==
  \A i \in DOMAIN rest :
    /\ place[i] \in DOMAIN entries /\ rest[i] = entries[place[i]]
    /\ \A j \in DOMAIN rest : i < j => place[i] < place[j]

LEMMA TakenKeepOrder ==
  ASSUME NEW rest, NEW entries, NEW place, NEW h,
         TakenFrom(rest, entries, place), InOrderOf(entries, h)
  PROVE  InOrderOf(rest, h)
BY DEF TakenFrom, InOrderOf

\* A history without one of its keys keeps the order of the others.
LEMMA OthersKeepOrder ==
  ASSUME NEW h \in Seq(AllKeys), Injective(h), NEW p \in DOMAIN h
  PROVE  /\ RemoveAt(h, p) \in Seq(AllKeys) /\ Injective(RemoveAt(h, p))
         /\ h[p] \notin Elements(RemoveAt(h, p))
         /\ \A x \in Elements(h) : x # h[p] => x \in Elements(RemoveAt(h, p))
         /\ \A x, y : Before(h, x, y) /\ x # h[p] /\ y # h[p] => Before(RemoveAt(h, p), x, y)
<1>. DEFINE r == RemoveAt(h, p)
            new(i) == IF i < p THEN i ELSE i - 1
            old(i) == IF i < p THEN i ELSE i + 1
<1>1. /\ Len(h) \in Nat /\ DOMAIN h = 1 .. Len(h) /\ p \in 1 .. Len(h)
      /\ r \in Seq(AllKeys) /\ DOMAIN r = 1 .. Len(h) - 1
      /\ \A i \in 1 .. Len(h) - 1 : r[i] = IF i < p THEN h[i] ELSE h[i + 1]
  BY RemoveAtPlaces
<1>. HIDE DEF r
<1>2. /\ \A i \in DOMAIN r : old(i) \in DOMAIN h /\ old(i) # p /\ r[i] = h[old(i)]
      /\ \A i, j \in DOMAIN r : old(i) = old(j) => i = j
  BY <1>1
<1>3. ASSUME NEW i \in DOMAIN h, i # p PROVE new(i) \in DOMAIN r /\ r[new(i)] = h[i]
  <2>1. CASE i < p
    BY <1>1, <2>1
  <2>2. CASE ~(i < p)
    <3>1. i - 1 \in 1 .. Len(h) - 1 /\ ~(i - 1 < p) /\ (i - 1) + 1 = i
      BY <1>1, <1>3, <2>2
    <3>. QED BY <1>1, <2>2, <3>1
  <2>. QED BY <2>1, <2>2
<1>4. \A i, j \in DOMAIN h : i < j /\ i # p /\ j # p => new(i) < new(j)
  BY <1>1
<1>. HIDE DEF new, old
<1>5. Injective(r)
  BY <1>2 DEF Injective
<1>6. h[p] \notin Elements(r)
  BY <1>1, <1>2 DEF Injective, Elements
<1>7. \A x \in Elements(h) : x # h[p] => x \in Elements(r)
  BY <1>3 DEF Elements
<1>8. ASSUME NEW x, NEW y, Before(h, x, y), x # h[p], y # h[p] PROVE Before(r, x, y)
  <2>1. PICK a \in DOMAIN h, b \in DOMAIN h : a < b /\ h[a] = x /\ h[b] = y
    BY <1>8 DEF Before
  <2>2. a # p /\ b # p
    BY <1>8, <2>1
  <2>3. /\ new(a) \in DOMAIN r /\ r[new(a)] = x /\ new(b) \in DOMAIN r /\ r[new(b)] = y
        /\ new(a) < new(b)
    BY <1>3, <1>4, <2>1, <2>2
  <2>. QED BY <2>3 DEF Before
<1>. QED BY <1>1, <1>5, <1>6, <1>7, <1>8 DEF r

\* A history with a key more puts it after all others.
LEMMA LastIsLatest ==
  ASSUME NEW h \in Seq(AllKeys), Injective(h), NEW key \in AllKeys, key \notin Elements(h)
  PROVE  /\ Append(h, key) \in Seq(AllKeys) /\ Injective(Append(h, key))
         /\ Elements(Append(h, key)) = Elements(h) \cup {key}
         /\ \A x, y : Before(h, x, y) => Before(Append(h, key), x, y)
         /\ \A x \in Elements(h) : Before(Append(h, key), x, key)
<1>. DEFINE a == Append(h, key)
<1>1. /\ Len(h) \in Nat /\ DOMAIN h = 1 .. Len(h) /\ DOMAIN a = 1 .. Len(h) + 1
      /\ a \in Seq(AllKeys)
      /\ \A i \in 1 .. Len(h) : a[i] = h[i]
      /\ a[Len(h) + 1] = key
  BY LenProperties, AppendProperties
<1>2. Elements(a) = Elements(h) \cup {key}
  BY ElementsOfAppend
<1>. HIDE DEF a
<1>3. \A i \in DOMAIN a : (i \in DOMAIN h /\ a[i] = h[i]) \/ (i = Len(h) + 1 /\ a[i] = key)
  BY <1>1
<1>4. Injective(a)
  BY <1>3 DEF Injective, Elements
<1>5. ASSUME NEW x, NEW y, Before(h, x, y) PROVE Before(a, x, y)
  <2>1. PICK i \in DOMAIN h, j \in DOMAIN h : i < j /\ h[i] = x /\ h[j] = y
    BY <1>5 DEF Before
  <2>2. i \in DOMAIN a /\ j \in DOMAIN a /\ a[i] = x /\ a[j] = y
    BY <1>1, <2>1
  <2>. QED BY <2>1, <2>2 DEF Before
<1>6. ASSUME NEW x \in Elements(h) PROVE Before(a, x, key)
  <2>1. PICK i \in DOMAIN h : h[i] = x
    BY DEF Elements
  <2>2. i \in DOMAIN a /\ Len(h) + 1 \in DOMAIN a /\ i < Len(h) + 1 /\ a[i] = x
    BY <1>1, <2>1
  <2>. QED BY <1>1, <2>2 DEF Before
<1>. QED BY <1>1, <1>2, <1>4, <1>5, <1>6 DEF a

\* A key that is not in the order but used now comes last in it.
LEMMA UseKeepsOrder ==
  ASSUME UsesInv, items \in Seq(Entry), NEW rest \in Seq(Entry), NEW place, NEW e \in Entry,
         TakenFrom(rest, items, place), \A i \in DOMAIN rest : rest[i].key # e.key,
         items' = Append(rest, e), uses' = Used(e.key)
  PROVE  UsesInv'
<1>. DEFINE key == e.key
            held == \E i \in DOMAIN uses : uses[i] = key
            others == IF held THEN RemoveAt(uses, Place(key)) ELSE uses
<1>1. key \in AllKeys
  BY DEF Entry
<1>2. /\ Len(rest) \in Nat /\ DOMAIN rest = 1 .. Len(rest) /\ DOMAIN items' = 1 .. Len(rest) + 1
      /\ \A i \in 1 .. Len(rest) : items'[i] = rest[i]
      /\ items'[Len(rest) + 1] = e
  BY LenProperties, AppendProperties
<1>3. uses' = Append(others, key)
  <2>1. \E i \in DOMAIN items' : items'[i].key = key
    BY <1>2
  <2>. QED BY <2>1 DEF Used, RemoveAt
<1>4. InOrderOf(rest, uses)
  BY TakenKeepOrder DEF UsesInv
<1>5. /\ others \in Seq(AllKeys) /\ Injective(others) /\ key \notin Elements(others)
      /\ \A x \in Elements(uses) : x # key => x \in Elements(others)
      /\ \A x, y : Before(uses, x, y) /\ x # key /\ y # key => Before(others, x, y)
  <2>1. CASE held
    <3>1. Place(key) \in DOMAIN uses /\ uses[Place(key)] = key
      BY <2>1 DEF Place
    <3>2. others = RemoveAt(uses, Place(key))
      BY <2>1
    <3>. HIDE DEF others, key
    <3>. DEFINE p == Place(key)
    <3>. HIDE DEF p
    <3>3. p \in DOMAIN uses /\ uses[p] = key /\ others = RemoveAt(uses, p)
      BY <3>1, <3>2 DEF p
    <3>4. uses \in Seq(AllKeys) /\ Injective(uses)
      BY DEF UsesInv
    <3>5. /\ RemoveAt(uses, p) \in Seq(AllKeys) /\ Injective(RemoveAt(uses, p))
          /\ uses[p] \notin Elements(RemoveAt(uses, p))
          /\ \A x \in Elements(uses) : x # uses[p] => x \in Elements(RemoveAt(uses, p))
          /\ \A x, y : Before(uses, x, y) /\ x # uses[p] /\ y # uses[p] => Before(RemoveAt(uses, p), x, y)
      BY <3>3, <3>4, OthersKeepOrder
    <3>. QED BY <3>3, <3>5, Zenon
  <2>2. CASE ~held
    <3>1. others = uses
      BY <2>2
    <3>2. key \notin Elements(uses)
      BY <2>2 DEF Elements
    <3>. HIDE DEF others
    <3>. QED BY <3>1, <3>2 DEF UsesInv
  <2>. QED BY <2>1, <2>2
<1>. HIDE DEF others, held
<1>6. /\ uses' \in Seq(AllKeys) /\ Injective(uses') /\ Elements(uses') = Elements(others) \cup {key}
      /\ \A x, y : Before(others, x, y) => Before(uses', x, y)
      /\ \A x \in Elements(others) : Before(uses', x, key)
  BY <1>1, <1>3, <1>5, LastIsLatest
<1>7. \A i \in DOMAIN rest : rest[i].key # key /\ rest[i].key \in Elements(uses)
  BY <1>4 DEF InOrderOf
<1>8. \A i \in DOMAIN items' : \/ i \in DOMAIN rest /\ items'[i] = rest[i]
                               \/ i = Len(rest) + 1 /\ items'[i] = e
  BY <1>2
<1>9. \A i \in DOMAIN items' : items'[i].key \in Elements(uses')
  BY <1>5, <1>6, <1>7, <1>8
<1>10. ASSUME NEW i \in DOMAIN items', NEW j \in DOMAIN items', i < j
       PROVE  Before(uses', items'[i].key, items'[j].key)
  <2>1. i \in DOMAIN rest /\ items'[i] = rest[i]
    BY <1>2, <1>10
  <2>2. CASE j \in DOMAIN rest
    <3>1. items'[j] = rest[j]
      BY <1>2, <2>2
    <3>2. Before(uses, rest[i].key, rest[j].key)
      BY <1>4, <1>10, <2>1, <2>2 DEF InOrderOf
    <3>. QED BY <1>5, <1>6, <1>7, <2>1, <2>2, <3>1, <3>2
  <2>3. CASE items'[j] = e
    BY <1>5, <1>6, <1>7, <2>1, <2>3
  <2>. QED BY <1>8, <2>2, <2>3
<1>. QED BY <1>6, <1>9, <1>10 DEF UsesInv, InOrderOf

\* In order, no two entries share a key.
LEMMA OrderedAreDistinct ==
  ASSUME UsesInv, items \in Seq(Entry)
  PROVE  \A i, j \in DOMAIN items : items[i].key = items[j].key => i = j
<1>. SUFFICES ASSUME NEW i \in DOMAIN items, NEW j \in DOMAIN items, i < j PROVE items[i].key # items[j].key
  <2>1. DOMAIN items = 1 .. Len(items) /\ Len(items) \in Nat
    BY LenProperties
  <2>2. \A i, j \in DOMAIN items : i = j \/ i < j \/ j < i
    BY <2>1
  <2>. QED BY <2>2
<1>1. PICK a \in DOMAIN uses, b \in DOMAIN uses : a < b /\ uses[a] = items[i].key /\ uses[b] = items[j].key
  BY DEF UsesInv, InOrderOf, Before
<1>2. a # b
  <2>1. DOMAIN uses = 1 .. Len(uses) /\ Len(uses) \in Nat
    BY LenProperties DEF UsesInv
  <2>. QED BY <1>1, <2>1
<1>. QED BY <1>1, <1>2 DEF UsesInv, Injective

LEMMA HitKeepsOrder == ASSUME Inv, UsesInv, NEW f \in Feature, Hit(f) PROVE UsesInv'
<1>1. PICK item : Cache!Get(CacheKey(f), item)
  BY DEF Hit
<1>2. PICK i \in DOMAIN items :
        items[i] = [key |-> CacheKey(f), item |-> item] /\ items' = Append(RemoveAt(items, i), items[i])
  BY <1>1 DEF Cache!Get, Cache!RemoveAt, RemoveAt
<1>. DEFINE rest == RemoveAt(items, i)
            place == [j \in DOMAIN rest |-> IF j < i THEN j ELSE j + 1]
<1>3. /\ Len(items) \in Nat /\ DOMAIN items = 1 .. Len(items) /\ i \in 1 .. Len(items)
      /\ rest \in Seq(Entry) /\ items[i] \in Entry /\ DOMAIN rest = 1 .. Len(items) - 1
      /\ \A j \in 1 .. Len(items) - 1 : rest[j] = IF j < i THEN items[j] ELSE items[j + 1]
  BY RemoveAtPlaces DEF Inv, TypeOK
<1>4. items' = Append(rest, items[i])
  BY <1>2
<1>. HIDE DEF rest
<1>5. /\ TakenFrom(rest, items, place)
      /\ \A j \in DOMAIN rest : place[j] # i
  BY <1>3 DEF TakenFrom
<1>. HIDE DEF place
<1>6. \A j \in DOMAIN rest : rest[j].key # items[i].key
  <2>1. \A j, k \in DOMAIN items : items[j].key = items[k].key => j = k
    BY OrderedAreDistinct DEF Inv, TypeOK
  <2>2. \A j \in DOMAIN rest : place[j] \in DOMAIN items /\ rest[j] = items[place[j]] /\ place[j] # i
    BY <1>5 DEF TakenFrom
  <2>. QED BY <2>1, <2>2
<1>7. uses' = Used(items[i].key)
  BY <1>2 DEF Hit
<1>. QED BY <1>3, <1>4, <1>5, <1>6, <1>7, UseKeepsOrder DEF Inv, TypeOK

\* An output that is kept pushes out the oldest.
LEMMA DeliverEvicts ==
  ASSUME Inv, OnceInv, NEW f \in Feature, Deliver(f), CacheKey(f) # None
  PROVE  /\ Cache!Places(CacheKey(f)) = {} /\ uses' = Used(CacheKey(f))
         /\ \/ items' = items
            \/ \E n \in 0 .. Len(items) :
                 items' = Append(SubSeq(items, n + 1, Len(items)),
                                 [key |-> CacheKey(f), item |-> Output(f)])
<1>1. Cache!Put(CacheKey(f), Output(f)) /\ uses' = Used(CacheKey(f))
  BY DEF Deliver
<1>2. Cache!Places(CacheKey(f)) = {}
  <2>1. f \in Awaited
    <3>1. ready # <<>> /\ f = Head(ready)
      BY DEF Deliver
    <3>. QED BY <3>1, ElementsOfTail DEF Awaited, Inv, TypeOK
  <2>2. ~Held(CacheKey(f))
    BY <2>1 DEF OnceInv, AwaitedAreMissing
  <2>. QED BY <2>2 DEF Held, Cache!Places
<1>3. CASE ItemBytes(Output(f)) > MaxBytes
  BY <1>1, <1>2, <1>3 DEF Cache!Put
<1>4. CASE ~(ItemBytes(Output(f)) > MaxBytes)
  <2>1. Cache!Evict(items, nbytes, CacheKey(f), Output(f))
    BY <1>1, <1>2, <1>4 DEF Cache!Put
  <2>2. PICK n \in 0 .. Len(items) :
          items' = Append(SubSeq(items, n + 1, Len(items)), [key |-> CacheKey(f), item |-> Output(f)])
    BY <2>1 DEF Cache!Evict
  <2>. QED BY <1>1, <1>2, <2>2
<1>. QED BY <1>3, <1>4

LEMMA DeliverKeepsOrder == ASSUME Inv, OnceInv, UsesInv, NEW f \in Feature, Deliver(f) PROVE UsesInv'
<1>1. CASE CacheKey(f) = None
  <2>1. items' = items /\ uses' = uses
    BY <1>1 DEF Deliver
  <2>. QED BY <2>1 DEF UsesInv, InOrderOf, Injective, Before
<1>2. CASE CacheKey(f) # None /\ items' = items
  <2>1. Cache!Places(CacheKey(f)) = {} /\ uses' = Used(CacheKey(f))
    BY <1>2, DeliverEvicts
  <2>2. ~(\E i \in DOMAIN items' : items'[i].key = CacheKey(f))
    BY <1>2, <2>1 DEF Cache!Places
  <2>3. uses' = uses
    BY <2>1, <2>2 DEF Used
  <2>. QED BY <1>2, <2>3 DEF UsesInv, InOrderOf, Injective, Before
<1>3. ASSUME CacheKey(f) # None, NEW n \in 0 .. Len(items),
             items' = Append(SubSeq(items, n + 1, Len(items)), [key |-> CacheKey(f), item |-> Output(f)])
      PROVE  UsesInv'
  <2>. DEFINE rest == SubSeq(items, n + 1, Len(items))
              place == [j \in DOMAIN rest |-> n + j]
              e == [key |-> CacheKey(f), item |-> Output(f)]
  <2>1. /\ rest \in Seq(Entry) /\ Len(items) \in Nat /\ DOMAIN items = 1 .. Len(items)
        /\ n \in Nat /\ n <= Len(items) /\ DOMAIN rest = 1 .. Len(items) - n
        /\ \A j \in 1 .. Len(items) - n : rest[j] = items[n + j]
    BY EndPlaces DEF Inv, TypeOK
  <2>2. e \in Entry /\ e.key = CacheKey(f)
    BY <1>3, KeysExist, OutputsExist DEF Entry
  <2>3. items' = Append(rest, e)
    BY <1>3
  <2>. HIDE DEF rest, e
  <2>4. TakenFrom(rest, items, place)
    BY <2>1 DEF TakenFrom
  <2>5. Cache!Places(CacheKey(f)) = {} /\ uses' = Used(CacheKey(f))
    BY <1>3, DeliverEvicts
  <2>6. \A j \in DOMAIN rest : rest[j].key # e.key
    BY <2>2, <2>4, <2>5 DEF TakenFrom, Cache!Places
  <2>7. uses' = Used(e.key)
    BY <2>2, <2>5
  <2>. HIDE DEF place
  <2>. QED BY <2>1, <2>2, <2>3, <2>4, <2>6, <2>7, UseKeepsOrder DEF Inv, TypeOK
<1>. QED BY <1>1, <1>2, <1>3, DeliverEvicts

LEMMA NextKeepsOrder == Inv /\ OnceInv /\ UsesInv /\ [Next]_vars => UsesInv'
<1>. SUFFICES ASSUME Inv, OnceInv, UsesInv, [Next]_vars PROVE UsesInv'
  OBVIOUS
<1>1. CASE items' = items /\ uses' = uses
  BY <1>1 DEF UsesInv, InOrderOf, Injective, Before
<1>2. CASE Reset
  <2>1. items' = <<>> /\ uses' = <<>>
    BY <1>2 DEF Reset, Cache!Clear
  <2>2. DOMAIN <<>> = {} /\ <<>> \in Seq(AllKeys)
    BY EmptySeq
  <2>. QED BY <2>1, <2>2 DEF UsesInv, InOrderOf, Injective
<1>3. ASSUME NEW f \in Feature, Hit(f) \/ Deliver(f) PROVE UsesInv'
  BY <1>3, HitKeepsOrder, DeliverKeepsOrder
<1>4. CASE Begin \/ ScanEnds \/ EncodeBatch \/ Raise \/ BuildPrompts \/ UNCHANGED vars
  BY <1>1, <1>4 DEF Begin, ScanEnds, EncodeBatch, Raise, BuildPrompts, vars
<1>5. ASSUME NEW f \in Feature, Skip(f) \/ Repeat(f) \/ Wait(f) PROVE UsesInv'
  BY <1>1, <1>5 DEF Skip, Repeat, Wait
<1>6. ASSUME NEW i \in DOMAIN pending, Take(i) PROVE UsesInv'
  BY <1>1, <1>6 DEF Take
<1>. QED BY <1>2, <1>3, <1>4, <1>5, <1>6 DEF Next, Dead

\* What a step pushes out was used before all that stays.
Pushes ==
  \A i, j \in DOMAIN items :
    /\ ~(\E k \in DOMAIN items' : items'[k].key = items[i].key)
    /\ \E k \in DOMAIN items' : items'[k].key = items[j].key
    => i < j

LEMMA NextPushes == Inv /\ OnceInv /\ UsesInv /\ [Next]_vars => Pushes
<1>. SUFFICES ASSUME Inv, OnceInv, UsesInv, [Next]_vars PROVE Pushes
  OBVIOUS
<1>1. CASE items' = items
  BY <1>1 DEF Pushes
<1>2. CASE Reset
  <2>1. items' = <<>>
    BY <1>2 DEF Reset, Cache!Clear
  <2>. QED BY <2>1 DEF Pushes
<1>3. ASSUME NEW f \in Feature, Hit(f) PROVE Pushes
  <2>1. PICK item : Cache!Get(CacheKey(f), item)
    BY <1>3 DEF Hit
  <2>2. Elements(items') = Elements(items)
    BY <2>1, GetKeepsEntries DEF Inv, TypeOK
  <2>3. \A i \in DOMAIN items : \E k \in DOMAIN items' : items'[k] = items[i]
    BY <2>2 DEF Elements
  <2>. QED BY <2>3 DEF Pushes
<1>4. ASSUME NEW f \in Feature, Deliver(f) PROVE Pushes
  <2>1. CASE CacheKey(f) = None
    BY <1>1, <1>4, <2>1 DEF Deliver
  <2>2. ASSUME CacheKey(f) # None, NEW n \in 0 .. Len(items),
               items' = Append(SubSeq(items, n + 1, Len(items)), [key |-> CacheKey(f), item |-> Output(f)])
        PROVE  Pushes
    <3>. DEFINE rest == SubSeq(items, n + 1, Len(items))
                e == [key |-> CacheKey(f), item |-> Output(f)]
    <3>1. /\ rest \in Seq(Entry) /\ Len(items) \in Nat /\ DOMAIN items = 1 .. Len(items)
          /\ n \in Nat /\ n <= Len(items) /\ Len(rest) = Len(items) - n
          /\ \A j \in 1 .. Len(items) - n : rest[j] = items[n + j]
      BY EndPlaces DEF Inv, TypeOK
    <3>2. e \in Entry /\ e.key = CacheKey(f) /\ items' = Append(rest, e)
      BY <2>2, KeysExist, OutputsExist DEF Entry
    <3>. HIDE DEF rest, e
    <3>3. /\ DOMAIN items' = 1 .. Len(rest) + 1
          /\ \A i \in 1 .. Len(rest) : items'[i] = rest[i]
          /\ items'[Len(rest) + 1] = e
      <4>1. /\ Append(rest, e) \in Seq(Entry) /\ Len(Append(rest, e)) = Len(rest) + 1
            /\ \A i \in 1 .. Len(rest) : Append(rest, e)[i] = rest[i]
            /\ Append(rest, e)[Len(rest) + 1] = e
        BY <3>1, <3>2, AppendProperties
      <4>. QED BY <3>2, <4>1, LenProperties
    <3>4. Cache!Places(CacheKey(f)) = {}
      BY <1>4, <2>2, DeliverEvicts
    <3>. SUFFICES ASSUME NEW i \in DOMAIN items, NEW j \in DOMAIN items,
                         ~(\E k \in DOMAIN items' : items'[k].key = items[i].key),
                         NEW k \in DOMAIN items', items'[k].key = items[j].key
                  PROVE  i < j
      BY DEF Pushes
    <3>5. i <= n
      <4>. SUFFICES ASSUME ~(i <= n) PROVE FALSE
        OBVIOUS
      <4>1. i - n \in 1 .. Len(rest) /\ i - n \in 1 .. Len(items) - n /\ n + (i - n) = i
        BY <3>1
      <4>2. items'[i - n] = items[i] /\ i - n \in DOMAIN items'
        <5>1. items'[i - n] = rest[i - n]
          BY <3>3, <4>1
        <5>2. rest[i - n] = items[n + (i - n)]
          BY <3>1, <4>1
        <5>. QED BY <3>1, <3>3, <4>1, <5>1, <5>2
      <4>. QED BY <4>2
    <3>6. items[j].key # e.key
      BY <3>2, <3>4 DEF Cache!Places
    <3>7. k \in 1 .. Len(rest)
      BY <3>1, <3>3, <3>6
    <3>8. items'[k] = items[n + k] /\ n + k \in DOMAIN items
      BY <3>1, <3>3, <3>7
    <3>9. n + k = j
      BY <3>8, OrderedAreDistinct DEF Inv, TypeOK
    <3>. QED BY <3>1, <3>5, <3>7, <3>9
  <2>. QED BY <1>1, <1>4, <2>1, <2>2, DeliverEvicts
<1>5. CASE Begin \/ ScanEnds \/ EncodeBatch \/ Raise \/ BuildPrompts \/ UNCHANGED vars
  BY <1>1, <1>5 DEF Begin, ScanEnds, EncodeBatch, Raise, BuildPrompts, vars
<1>6. ASSUME NEW f \in Feature, Skip(f) \/ Repeat(f) \/ Wait(f) PROVE Pushes
  BY <1>1, <1>6 DEF Skip, Repeat, Wait
<1>7. ASSUME NEW i \in DOMAIN pending, Take(i) PROVE Pushes
  BY <1>1, <1>7 DEF Take
<1>. QED BY <1>2, <1>3, <1>4, <1>5, <1>6, <1>7 DEF Next, Dead

\* The places in the history are ordered as the entries are.
LEMMA PlacesAreOrdered ==
  ASSUME UsesInv, NEW i \in DOMAIN items, NEW j \in DOMAIN items, i < j
  PROVE  Place(items[i].key) < Place(items[j].key)
<1>1. PICK a \in DOMAIN uses, b \in DOMAIN uses : a < b /\ uses[a] = items[i].key /\ uses[b] = items[j].key
  BY DEF UsesInv, InOrderOf, Before
<1>2. Place(items[i].key) \in DOMAIN uses /\ uses[Place(items[i].key)] = uses[a]
  BY <1>1 DEF Place
<1>3. Place(items[j].key) \in DOMAIN uses /\ uses[Place(items[j].key)] = uses[b]
  BY <1>1 DEF Place
<1>. QED BY <1>1, <1>2, <1>3 DEF UsesInv, Injective

(***************************************************************************)
(* For any features and budget: what put evicts was last used before every *)
(* entry that stays (move_to_end in get, popitem from the front in put).   *)
(***************************************************************************)
THEOREM AlwaysEvictsLeastRecentlyUsed == Spec => EvictsLeastRecentlyUsed
<1>. DEFINE held == Cache!HeldKeys
            after == {items'[i].key : i \in DOMAIN items'}
            Step == \A out \in held \ after : \A kept \in held \cap after : Place(out) < Place(kept)
<1>1. Inv /\ OnceInv /\ UsesInv /\ [Next]_vars => [Step]_vars
  <2>. SUFFICES ASSUME Inv, OnceInv, UsesInv, [Next]_vars PROVE Step
    OBVIOUS
  <2>1. Pushes
    BY NextPushes
  <2>. SUFFICES ASSUME NEW out \in held \ after, NEW kept \in held \cap after
                PROVE  Place(out) < Place(kept)
    OBVIOUS
  <2>2. PICK i \in DOMAIN items : out = items[i].key
    BY DEF Cache!HeldKeys
  <2>3. PICK j \in DOMAIN items : kept = items[j].key
    BY DEF Cache!HeldKeys
  <2>4. i < j
    BY <2>1, <2>2, <2>3 DEF Pushes
  <2>. QED BY <2>2, <2>3, <2>4, PlacesAreOrdered
<1>2. Init => UsesInv
  <2>1. DOMAIN <<>> = {} /\ <<>> \in Seq(AllKeys)
    BY EmptySeq
  <2>. QED BY <2>1 DEF Init, Cache!Init, UsesInv, InOrderOf, Injective
<1>. QED BY <1>1, <1>2, InitInv, NextKeeps, InitOnce, NextKeepsOnce, NextKeepsOrder, PTL
         DEF Spec, EvictsLeastRecentlyUsed

-----------------------------------------------------------------------------
(* Greatest and least.                                                     *)

LEMMA LeastOfNaturals ==
  ASSUME NEW S \in SUBSET Nat, S # {}
  PROVE  \E n \in S : \A m \in S : n <= m
<1>. DEFINE less == OpToRel(<, Nat)
<1>1. IsWellFoundedOn(less, Nat)
  BY NatLessThanWellFounded
<1>2. \A x, y \in Nat : x < y => <<x, y>> \in less
  BY DEF OpToRel
<1>. HIDE DEF less
<1>3. \E n \in S : \A m \in S : ~(<<m, n>> \in less)
  <2>1. S \subseteq Nat
    OBVIOUS
  <2>. QED BY <1>1, <2>1, WFMin
<1>4. PICK n \in S : \A m \in S : ~(<<m, n>> \in less)
  BY <1>3
<1>5. \A m \in S : ~(m < n) /\ m \in Nat /\ n \in Nat
  BY <1>2, <1>4
<1>. QED BY <1>5

LEMMA MinIs ==
  ASSUME NEW S \in SUBSET Nat, S # {}
  PROVE  Min(S) \in S /\ \A n \in S : Min(S) <= n
BY LeastOfNaturals DEF Min

LEMMA MaxIs ==
  ASSUME NEW N \in Nat, NEW S \in SUBSET (0 .. N), S # {}
  PROVE  Max(S) \in S /\ \A n \in S : n <= Max(S)
<1>. DEFINE room == {N - n : n \in S}
<1>1. room \in SUBSET Nat /\ room # {}
  <2>1. \A n \in S : n \in Nat /\ n <= N
    OBVIOUS
  <2>2. \A n \in S : N - n \in Nat
    BY <2>1
  <2>. QED BY <2>2
<1>2. PICK k \in room : \A j \in room : k <= j
  <2>. HIDE DEF room
  <2>. QED BY <1>1, LeastOfNaturals
<1>3. PICK m \in S : k = N - m
  BY <1>2
<1>4. \A n \in S : n <= m
  <2>. TAKE n \in S
  <2>1. N - n \in room
    OBVIOUS
  <2>2. k <= N - n
    BY <1>2, <2>1
  <2>3. m \in 0 .. N /\ n \in 0 .. N
    OBVIOUS
  <2>. QED BY <1>3, <2>2, <2>3
<1>. QED BY <1>4 DEF Max

\* The weights of a row are bounded, as there are finitely many.
LEMMA WeightsAreBounded ==
  ASSUME NEW weight \in [Token -> Nat]
  PROVE  \E N \in Nat : \A t \in Token : weight[t] <= N
<1>. DEFINE S == {n \in Nat : n <= Vocab => \E N \in Nat : \A t \in 1 .. n : weight[t] <= N}
<1>1. 0 \in S
  OBVIOUS
<1>2. ASSUME NEW n \in Nat, n \in S PROVE n + 1 \in S
  <2>. SUFFICES ASSUME n + 1 <= Vocab PROVE \E N \in Nat : \A t \in 1 .. n + 1 : weight[t] <= N
    OBVIOUS
  <2>1. PICK N \in Nat : \A t \in 1 .. n : weight[t] <= N
    BY <1>2, SamplingAssumption
  <2>. DEFINE M == IF weight[n + 1] <= N THEN N ELSE weight[n + 1]
  <2>2. weight[n + 1] \in Nat /\ \A t \in 1 .. n : weight[t] \in Nat
    BY SamplingAssumption DEF Token
  <2>3. M \in Nat /\ N <= M /\ weight[n + 1] <= M
    BY <2>2
  <2>. HIDE DEF M
  <2>4. \A t \in 1 .. n + 1 : weight[t] <= M
    <3>. TAKE t \in 1 .. n + 1
    <3>1. t \in 1 .. n \/ t = n + 1
      OBVIOUS
    <3>. QED BY <2>1, <2>2, <2>3, <3>1
  <2>. QED BY <2>3, <2>4
<1>3. Vocab \in S
  <2>. HIDE DEF S
  <2>. QED BY <1>1, <1>2, NatSetInduction, SamplingAssumption
<1>. QED BY <1>3 DEF Token

\* The most likely of some tokens are among them, and, if one of those has a weight,
\* are those of the greatest.
LEMMA MostLikelyIs ==
  ASSUME NEW weight \in [Token -> Nat], NEW T \in SUBSET Token, T # {}
  PROVE  /\ MostLikely(weight, T) \in SUBSET T /\ MostLikely(weight, T) # {}
         /\ \A t \in MostLikely(weight, T) : \A u \in T : weight[u] <= weight[t]
         /\ (\E t \in T : weight[t] > 0) =>
              MostLikely(weight, T) = {t \in T : \A u \in T : weight[u] <= weight[t]}
<1>. DEFINE values == {weight[t] : t \in T}
            best == Max(values)
<1>1. PICK N \in Nat : \A t \in Token : weight[t] <= N
  BY WeightsAreBounded
<1>2. values \in SUBSET (0 .. N) /\ values # {}
  BY <1>1
<1>3. best \in values /\ \A n \in values : n <= best
  <2>. HIDE DEF values
  <2>. QED BY <1>2, MaxIs
<1>. HIDE DEF best
<1>4. /\ \E t \in T : weight[t] = best
      /\ \A t \in T : weight[t] <= best /\ weight[t] \in Nat
      /\ best \in Nat
  BY <1>3
<1>5. T \in SUBSET Nat
  BY SamplingAssumption DEF Token
<1>6. Min(T) \in T
  BY <1>5, MinIs
<1>7. MostLikely(weight, T) = IF best = 0 THEN {Min(T)} ELSE {t \in T : weight[t] = best}
  BY DEF MostLikely, best
<1>8. ASSUME \E t \in T : weight[t] > 0
      PROVE  MostLikely(weight, T) = {t \in T : \A u \in T : weight[u] <= weight[t]}
  <2>1. best # 0
    BY <1>4, <1>8
  <2>2. \A t \in T : weight[t] = best <=> \A u \in T : weight[u] <= weight[t]
    BY <1>4
  <2>. QED BY <1>7, <2>1, <2>2
<1>9. MostLikely(weight, T) \in SUBSET T /\ MostLikely(weight, T) # {}
  BY <1>4, <1>6, <1>7
<1>10. \A t \in MostLikely(weight, T) : weight[t] = best
  <2>1. \A t \in T : best = 0 => weight[t] = best
    BY <1>4
  <2>. QED BY <1>7, <1>9, <2>1
<1>11. \A t \in MostLikely(weight, T) : \A u \in T : weight[u] <= weight[t]
  BY <1>4, <1>9, <1>10
<1>. QED BY <1>8, <1>9, <1>11

-----------------------------------------------------------------------------
(* The most likely tokens.                                                 *)

\* The lists of each number of tokens, as Top counts them up.
CountedUp(weight, n, g) ==
  g = [m \in 0 .. n |-> IF m = 0 THEN {<<>>} ELSE OneMore(weight, g[m - 1])]

LEMMA TopsExist ==
  ASSUME NEW weight, NEW n \in Nat
  PROVE  \E g : CountedUp(weight, n, g)
<1>. DEFINE IsTops(m, g) == /\ g = [k \in 0 .. m |-> g[k]] /\ g[0] = {<<>>}
                            /\ \A k \in 1 .. m : g[k] = OneMore(weight, g[k - 1])
            S == {m \in Nat : \E g : IsTops(m, g)}
<1>1. 0 \in S
  <2>1. IsTops(0, [k \in 0 .. 0 |-> {<<>>}])
    OBVIOUS
  <2>. HIDE DEF IsTops
  <2>. QED BY <2>1
<1>2. ASSUME NEW m \in Nat, m \in S PROVE m + 1 \in S
  <2>1. PICK g : IsTops(m, g)
    BY <1>2
  <2>. DEFINE h == [k \in 0 .. m + 1 |-> IF k <= m THEN g[k] ELSE OneMore(weight, g[m])]
  <2>2. /\ \A k \in 0 .. m : h[k] = g[k]
        /\ h[m + 1] = OneMore(weight, g[m])
        /\ h = [k \in 0 .. m + 1 |-> h[k]]
    OBVIOUS
  <2>. HIDE DEF h
  <2>3. \A k \in 1 .. m + 1 : h[k] = OneMore(weight, h[k - 1])
    <3>. TAKE k \in 1 .. m + 1
    <3>1. CASE k \in 1 .. m
      <4>1. k \in 0 .. m /\ k - 1 \in 0 .. m
        BY <3>1
      <4>. QED BY <2>1, <2>2, <3>1, <4>1
    <3>2. CASE k = m + 1
      <4>1. k - 1 = m /\ m \in 0 .. m
        BY <3>2
      <4>2. h[k - 1] = g[m]
        BY <2>2, <4>1
      <4>. QED BY <2>2, <3>2, <4>2
    <3>3. k \in 1 .. m \/ k = m + 1
      OBVIOUS
    <3>. QED BY <3>1, <3>2, <3>3
  <2>4. h[0] = {<<>>}
    <3>1. 0 \in 0 .. m /\ g[0] = {<<>>}
      BY <2>1
    <3>. QED BY <2>2, <3>1
  <2>5. IsTops(m + 1, h)
    BY <2>2, <2>3, <2>4
  <2>. HIDE DEF IsTops
  <2>. QED BY <2>5
<1>3. \E g : IsTops(n, g)
  <2>1. n \in S
    <3>. HIDE DEF S
    <3>. QED BY <1>1, <1>2, NatSetInduction
  <2>. HIDE DEF IsTops
  <2>. QED BY <2>1
<1>4. PICK g : IsTops(n, g)
  BY <1>3
<1>. DEFINE f == [m \in 0 .. n |-> IF m = 0 THEN {<<>>} ELSE OneMore(weight, g[m - 1])]
<1>5. \A m \in 0 .. n : g[m] = f[m]
  <2>. TAKE m \in 0 .. n
  <2>1. CASE m = 0
    BY <1>4, <2>1
  <2>2. CASE m # 0
    <3>1. m \in 1 .. n
      BY <2>2
    <3>. QED BY <1>4, <2>2, <3>1
  <2>. QED BY <2>1, <2>2
<1>6. g = f
  <2>1. f = [m \in 0 .. n |-> f[m]]
    OBVIOUS
  <2>. HIDE DEF f
  <2>2. g = [m \in 0 .. n |-> g[m]]
    BY <1>4
  <2>. QED BY <1>5, <2>1, <2>2
<1>. QED BY <1>6 DEF CountedUp

\* Of no token there is one list, of one more token those that go on.
LEMMA TopCounts ==
  ASSUME NEW weight, NEW n \in Nat
  PROVE  /\ Top(weight, 0) = {<<>>}
         /\ Top(weight, n + 1) = OneMore(weight, Top(weight, n))
<1>. DEFINE tops(m) == CHOOSE g : CountedUp(weight, m, g)
<1>1. ASSUME NEW m \in Nat
      PROVE  /\ tops(m)[0] = {<<>>}
             /\ \A k \in 0 .. m : k + 1 <= m => tops(m)[k + 1] = OneMore(weight, tops(m)[k])
  <2>. DEFINE g == tops(m)
  <2>1. CountedUp(weight, m, g)
    BY TopsExist
  <2>. HIDE DEF g
  <2>2. \A k \in 0 .. m : g[k] = IF k = 0 THEN {<<>>} ELSE OneMore(weight, g[k - 1])
    BY <2>1 DEF CountedUp
  <2>3. g[0] = {<<>>}
    <3>1. 0 \in 0 .. m
      OBVIOUS
    <3>. QED BY <2>2, <3>1
  <2>4. ASSUME NEW k \in 0 .. m, k + 1 <= m PROVE g[k + 1] = OneMore(weight, g[k])
    <3>. DEFINE j == k + 1
    <3>1. j \in 0 .. m /\ j # 0 /\ j - 1 = k
      BY <2>4
    <3>. HIDE DEF j
    <3>2. g[j] = OneMore(weight, g[j - 1])
      BY <2>2, <3>1
    <3>. QED BY <3>1, <3>2 DEF j
  <2>. QED BY <2>3, <2>4 DEF g
<1>2. \A m \in Nat : Top(weight, m) = tops(m)[m]
  BY DEF Top, CountedUp
<1>. HIDE DEF tops
<1>. DEFINE S == {k \in Nat : k <= n => tops(n)[k] = tops(n + 1)[k]}
<1>3. 0 \in S
  <2>1. tops(n)[0] = {<<>>} /\ tops(n + 1)[0] = {<<>>}
    BY <1>1
  <2>. QED BY <2>1
<1>4. ASSUME NEW k \in Nat, k \in S PROVE k + 1 \in S
  <2>. SUFFICES ASSUME k + 1 <= n PROVE tops(n)[k + 1] = tops(n + 1)[k + 1]
    OBVIOUS
  <2>1. tops(n)[k] = tops(n + 1)[k]
    BY <1>4
  <2>2. k \in 0 .. n /\ k \in 0 .. n + 1 /\ k + 1 <= n + 1 /\ n + 1 \in Nat
    OBVIOUS
  <2>3. tops(n)[k + 1] = OneMore(weight, tops(n)[k])
    BY <1>1, <2>2
  <2>4. tops(n + 1)[k + 1] = OneMore(weight, tops(n + 1)[k])
    BY <1>1, <2>2
  <2>. QED BY <2>1, <2>3, <2>4
<1>5. tops(n)[n] = tops(n + 1)[n]
  <2>. HIDE DEF S
  <2>1. n \in S
    BY <1>3, <1>4, NatSetInduction
  <2>. QED BY <2>1 DEF S
<1>6. tops(n + 1)[n + 1] = OneMore(weight, tops(n + 1)[n])
  <2>1. n + 1 \in Nat /\ n \in 0 .. n + 1 /\ n + 1 <= n + 1
    OBVIOUS
  <2>. QED BY <1>1, <2>1
<1>7. tops(0)[0] = {<<>>}
  BY <1>1
<1>. QED BY <1>2, <1>5, <1>6, <1>7

\* A list of n different tokens with their weights, from one of the most likely on,
\* and each at least as likely as any that is not before it.
IsTopList(weight, n, list) ==
  /\ list \in Seq([token : Token, weight : Nat]) /\ Len(list) = n
  /\ \A i \in 1 .. n : list[i].weight = weight[list[i].token]
  /\ n > 0 => list[1].token \in MostLikely(weight, Token)
  /\ \A i, j \in 1 .. n : list[i].token = list[j].token => i = j
  /\ \A i \in 1 .. n : \A t \in Token :
       t \notin {list[j].token : j \in 1 .. i - 1} => weight[t] <= list[i].weight

\* A list of fewer tokens than there are leaves one.
LEMMA RestIsLeft ==
  ASSUME NEW list \in Seq([token : Token, weight : Nat]), Len(list) < Vocab
  PROVE  Rest(list) \in SUBSET Token /\ Rest(list) # {}
<1>1. Len(list) \in Nat /\ DOMAIN list = 1 .. Len(list) /\ \A i \in 1 .. Len(list) : list[i].token \in Token
  <2>1. Len(list) \in Nat /\ DOMAIN list = 1 .. Len(list)
    BY LenProperties
  <2>2. \A i \in 1 .. Len(list) : list[i] \in [token : Token, weight : Nat]
    BY ElementOfSeq
  <2>. QED BY <2>1, <2>2
<1>. SUFFICES ASSUME Rest(list) = {} PROVE FALSE
  BY DEF Rest
<1>. DEFINE f == [i \in 1 .. Len(list) |-> list[i].token]
<1>2. f \in Surjection(1 .. Len(list), Token)
  <2>1. \A t \in Token : \E i \in 1 .. Len(list) : list[i].token = t
    BY <1>1 DEF Rest
  <2>2. \A t \in Token : \E i \in 1 .. Len(list) : f[i] = t
    BY <2>1
  <2>3. f \in [1 .. Len(list) -> Token]
    BY <1>1
  <2>. QED BY <2>2, <2>3 DEF Surjection
<1>3. ExistsSurjection(1 .. Len(list), Token)
  BY <1>2 DEF ExistsSurjection
<1>4. Cardinality(Token) <= Len(list)
  BY <1>1, <1>3, FS_SurjCardinalityBound
<1>5. Cardinality(Token) = Vocab
  <2>1. Vocab \in Nat \ {0}
    BY SamplingAssumption
  <2>2. Cardinality(1 .. Vocab) = IF 1 > Vocab THEN 0 ELSE Vocab - 1 + 1
    BY <2>1, FS_Interval
  <2>. QED BY <2>1, <2>2 DEF Token
<1>. QED BY <1>1, <1>4, <1>5, SamplingAssumption

LEMMA OneMoreIsTopList ==
  ASSUME NEW weight \in [Token -> Nat], NEW n \in Nat, n < Vocab,
         NEW lists, \A list \in lists : IsTopList(weight, n, list)
  PROVE  \A list \in OneMore(weight, lists) : IsTopList(weight, n + 1, list)
<1>. SUFFICES ASSUME NEW list \in lists, NEW t \in MostLikely(weight, Rest(list))
              PROVE  IsTopList(weight, n + 1, Append(list, Scored(weight, t)))
  BY DEF OneMore
<1>. DEFINE e == Scored(weight, t)
            longer == Append(list, e)
<1>1. /\ list \in Seq([token : Token, weight : Nat]) /\ Len(list) = n
      /\ \A i \in 1 .. n : list[i].weight = weight[list[i].token]
      /\ n > 0 => list[1].token \in MostLikely(weight, Token)
      /\ \A i, j \in 1 .. n : list[i].token = list[j].token => i = j
      /\ \A i \in 1 .. n : \A u \in Token :
           u \notin {list[j].token : j \in 1 .. i - 1} => weight[u] <= list[i].weight
  BY DEF IsTopList
<1>2. Rest(list) \in SUBSET Token /\ Rest(list) # {}
  BY <1>1, RestIsLeft
<1>3. t \in Token /\ t \in Rest(list) /\ \A u \in Rest(list) : weight[u] <= weight[t]
  BY <1>2, MostLikelyIs
<1>4. e \in [token : Token, weight : Nat] /\ e.token = t /\ e.weight = weight[t]
  BY <1>3 DEF Scored
<1>. HIDE DEF e
<1>5. /\ longer \in Seq([token : Token, weight : Nat]) /\ Len(longer) = n + 1
      /\ \A i \in 1 .. n : longer[i] = list[i]
      /\ longer[n + 1] = e
  BY <1>1, <1>4, AppendProperties
<1>. HIDE DEF longer
<1>6. \A i \in 1 .. n + 1 : longer[i].weight = weight[longer[i].token]
  <2>. TAKE i \in 1 .. n + 1
  <2>1. i \in 1 .. n \/ i = n + 1
    OBVIOUS
  <2>. QED BY <1>1, <1>4, <1>5, <2>1
<1>7. longer[1].token \in MostLikely(weight, Token)
  <2>1. CASE n = 0
    <3>1. DOMAIN list = {}
      BY <1>1, <2>1, LenProperties
    <3>2. Rest(list) = Token
      BY <3>1 DEF Rest
    <3>. QED BY <1>4, <1>5, <2>1, <3>2
  <2>2. CASE n > 0
    BY <1>1, <1>5, <2>2
  <2>. QED BY <2>1, <2>2
<1>8. DOMAIN list = 1 .. n
  BY <1>1, LenProperties
<1>9. \A i \in 1 .. n : list[i].token # t
  BY <1>3, <1>8 DEF Rest
<1>10. \A i, j \in 1 .. n + 1 : longer[i].token = longer[j].token => i = j
  <2>. TAKE i, j \in 1 .. n + 1
  <2>1. (i \in 1 .. n \/ i = n + 1) /\ (j \in 1 .. n \/ j = n + 1)
    OBVIOUS
  <2>. QED BY <1>1, <1>4, <1>5, <1>9, <2>1
<1>11. ASSUME NEW i \in 1 .. n + 1, NEW u \in Token, u \notin {longer[j].token : j \in 1 .. i - 1}
       PROVE  weight[u] <= longer[i].weight
  <2>1. \A j \in 1 .. i - 1 : j \in 1 .. n
    OBVIOUS
  <2>2. {longer[j].token : j \in 1 .. i - 1} = {list[j].token : j \in 1 .. i - 1}
    BY <1>5, <2>1
  <2>3. CASE i \in 1 .. n
    BY <1>1, <1>5, <1>11, <2>2, <2>3
  <2>4. CASE i = n + 1
    <3>1. u \in Rest(list)
      <4>1. i - 1 = n
        BY <2>4
      <4>2. u \notin {list[j].token : j \in DOMAIN list}
        BY <1>8, <1>11, <2>2, <4>1
      <4>. QED BY <4>2 DEF Rest
    <3>. QED BY <1>3, <1>4, <1>5, <2>4, <3>1
  <2>5. i \in 1 .. n \/ i = n + 1
    OBVIOUS
  <2>. QED BY <2>3, <2>4, <2>5
<1>12. IsTopList(weight, n + 1, longer)
  BY <1>5, <1>6, <1>7, <1>10, <1>11 DEF IsTopList
<1>. QED BY <1>12 DEF longer, e

(***************************************************************************)
(* The lists topk may give of n tokens are lists of n tokens.              *)
(***************************************************************************)
LEMMA TopIs ==
  ASSUME NEW weight \in [Token -> Nat], NEW n \in 0 .. Vocab
  PROVE  \A list \in Top(weight, n) : IsTopList(weight, n, list)
<1>. DEFINE S == {m \in Nat : m <= Vocab => \A list \in Top(weight, m) : IsTopList(weight, m, list)}
<1>1. n \in Nat /\ n <= Vocab
  BY SamplingAssumption
<1>2. 0 \in S
  <2>1. IsTopList(weight, 0, <<>>)
    BY EmptySeq DEF IsTopList
  <2>. QED BY <2>1, TopCounts
<1>3. ASSUME NEW m \in Nat, m \in S PROVE m + 1 \in S
  <2>. SUFFICES ASSUME m + 1 <= Vocab PROVE \A list \in Top(weight, m + 1) : IsTopList(weight, m + 1, list)
    OBVIOUS
  <2>1. m < Vocab /\ m <= Vocab
    BY SamplingAssumption
  <2>2. \A list \in Top(weight, m) : IsTopList(weight, m, list)
    BY <1>3, <2>1
  <2>3. Top(weight, m + 1) = OneMore(weight, Top(weight, m))
    BY TopCounts
  <2>4. \A list \in OneMore(weight, Top(weight, m)) : IsTopList(weight, m + 1, list)
    BY <2>1, <2>2, OneMoreIsTopList
  <2>. QED BY <2>3, <2>4
<1>4. n \in S
  <2>. HIDE DEF S
  <2>. QED BY <1>1, <1>2, <1>3, NatSetInduction
<1>. QED BY <1>1, <1>4

\* Each goes on to one of more tokens.
LEMMA TopGoesOn ==
  ASSUME NEW weight \in [Token -> Nat], NEW m \in Nat, NEW list \in Top(weight, m), m <= Vocab
  PROVE  \E longer \in Top(weight, Vocab) : \A i \in 1 .. m : longer[i] = list[i]
<1>. DEFINE goesOn(n) == \E longer \in Top(weight, n) : \A i \in 1 .. m : longer[i] = list[i]
            S == {d \in Nat : m + d <= Vocab => goesOn(m + d)}
<1>1. 0 \in S
  OBVIOUS
<1>2. ASSUME NEW d \in Nat, d \in S PROVE d + 1 \in S
  <2>. SUFFICES ASSUME m + (d + 1) <= Vocab PROVE goesOn(m + (d + 1))
    OBVIOUS
  <2>. DEFINE n == m + d
  <2>1. n \in Nat /\ n < Vocab /\ n <= Vocab /\ n \in 0 .. Vocab /\ m <= n /\ m + (d + 1) = n + 1
    BY SamplingAssumption
  <2>2. PICK longer \in Top(weight, n) : \A i \in 1 .. m : longer[i] = list[i]
    BY <1>2, <2>1
  <2>. HIDE DEF n
  <2>3. longer \in Seq([token : Token, weight : Nat]) /\ Len(longer) = n
    BY <2>1, TopIs DEF IsTopList
  <2>4. Rest(longer) \in SUBSET Token /\ Rest(longer) # {}
    BY <2>1, <2>3, RestIsLeft
  <2>5. PICK t \in MostLikely(weight, Rest(longer)) : t \in Token
    BY <2>4, MostLikelyIs
  <2>6. Scored(weight, t) \in [token : Token, weight : Nat]
    BY <2>5 DEF Scored
  <2>. DEFINE next == Append(longer, Scored(weight, t))
  <2>7. next \in Top(weight, n + 1)
    <3>1. next \in OneMore(weight, Top(weight, n))
      BY <2>2, <2>5 DEF OneMore
    <3>. QED BY <2>1, <3>1, TopCounts
  <2>8. \A i \in 1 .. m : next[i] = list[i]
    <3>1. \A i \in 1 .. n : next[i] = longer[i]
      BY <2>3, <2>6, AppendProperties
    <3>2. \A i \in 1 .. m : i \in 1 .. n
      BY <2>1
    <3>. QED BY <2>2, <3>1, <3>2
  <2>. HIDE DEF next
  <2>. QED BY <2>1, <2>7, <2>8
<1>3. Vocab - m \in S
  <2>1. Vocab - m \in Nat
    BY SamplingAssumption
  <2>. HIDE DEF S
  <2>. QED BY <1>1, <1>2, <2>1, NatSetInduction
<1>4. goesOn(m + (Vocab - m)) /\ m + (Vocab - m) = Vocab
  BY <1>3, SamplingAssumption
<1>. HIDE DEF goesOn
<1>5. goesOn(Vocab)
  BY <1>4
<1>. QED BY <1>5 DEF goesOn

-----------------------------------------------------------------------------
(* A top-k of 1.                                                           *)

\* Some of a row's most likely tokens.
AreBest(row, T) == T # {} /\ T \subseteq MostLikely(row.weight, Token)

IsRow(row) ==
  /\ row.weight \in [Token -> Nat] /\ \E t \in Token : row.weight[t] > 0
  /\ row.topK \in 0 .. Vocab /\ row.p \in 1 .. One

\* A row's most likely tokens have the greatest weight.
LEMMA BestIs ==
  ASSUME NEW row, IsRow(row)
  PROVE  /\ MostLikely(row.weight, Token) # {}
         /\ MostLikely(row.weight, Token) = {t \in Token : \A u \in Token : row.weight[u] <= row.weight[t]}
         /\ \A t \in MostLikely(row.weight, Token) : row.weight[t] > 0
<1>1. row.weight \in [Token -> Nat] /\ \E t \in Token : row.weight[t] > 0
  BY DEF IsRow
<1>2. PICK some \in Token : row.weight[some] > 0
  BY <1>1
<1>3. Token # {}
  BY <1>1
<1>4. /\ MostLikely(row.weight, Token) # {}
      /\ MostLikely(row.weight, Token) = {t \in Token : \A u \in Token : row.weight[u] <= row.weight[t]}
  BY <1>1, <1>3, MostLikelyIs
<1>5. \A t \in MostLikely(row.weight, Token) : row.weight[t] > 0
  <2>. TAKE t \in MostLikely(row.weight, Token)
  <2>1. t \in Token /\ row.weight[some] <= row.weight[t]
    BY <1>4
  <2>. QED BY <1>1, <1>2, <2>1
<1>. QED BY <1>4, <1>5

(***************************************************************************)
(* Top-k with k = 1 keeps of a list the tokens as likely as its first:     *)
(* whatever part of it is drawn from then, the best.                       *)
(***************************************************************************)
LEMMA FirstKeepsBest ==
  ASSUME NEW row, IsRow(row), NEW m \in 1 .. Vocab, NEW list \in Top(row.weight, m)
  PROVE  /\ DOMAIN TopK(list, 1) = 1 .. m
         /\ \A n \in 1 .. m : AreBest(row, TokensIn(TopK(list, 1), n))
<1>. DEFINE top == TopK(list, 1)
<1>1. row.weight \in [Token -> Nat]
  BY DEF IsRow
<1>2. m \in Nat /\ m >= 1 /\ m \in 0 .. Vocab
  BY SamplingAssumption
<1>3. IsTopList(row.weight, m, list)
  BY <1>1, <1>2, TopIs
<1>4. /\ DOMAIN list = 1 .. m
      /\ \A i \in 1 .. m : list[i] \in [token : Token, weight : Nat]
      /\ \A i \in 1 .. m : list[i].weight = row.weight[list[i].token]
      /\ list[1].token \in MostLikely(row.weight, Token)
  <2>1. list \in Seq([token : Token, weight : Nat]) /\ Len(list) = m
    BY <1>3 DEF IsTopList
  <2>2. DOMAIN list = 1 .. m
    BY <2>1, LenProperties
  <2>3. \A i \in 1 .. m : list[i] \in [token : Token, weight : Nat]
    BY <2>1, ElementOfSeq
  <2>. QED BY <1>2, <1>3, <2>2, <2>3 DEF IsTopList
<1>5. 1 \in 1 .. m
  BY <1>2
<1>6. list[1].weight \in Nat /\ list[1].weight > 0
      /\ \A t \in Token : row.weight[t] >= list[1].weight => t \in MostLikely(row.weight, Token)
  <2>1. list[1].weight = row.weight[list[1].token] /\ list[1].token \in Token
    BY <1>4, <1>5
  <2>2. \A u \in Token : row.weight[u] <= row.weight[list[1].token]
    BY <1>4, BestIs
  <2>3. row.weight[list[1].token] > 0
    BY <1>4, BestIs
  <2>4. \A t \in Token : row.weight[t] \in Nat
    BY <1>1
  <2>5. \A t \in Token : row.weight[t] >= list[1].weight => \A u \in Token : row.weight[u] <= row.weight[t]
    BY <2>1, <2>2, <2>4
  <2>. QED BY <2>1, <2>3, <2>4, <2>5, BestIs
<1>7. /\ DOMAIN top = 1 .. m
      /\ \A i \in 1 .. m : top[i] = IF list[i].weight >= list[1].weight
                                    THEN list[i] ELSE [list[i] EXCEPT !.weight = 0]
  BY <1>4 DEF TopK, Threshold
<1>. HIDE DEF top
<1>8. \A i \in 1 .. m : top[i].weight > 0 => top[i].token \in MostLikely(row.weight, Token)
  <2>. SUFFICES ASSUME NEW i \in 1 .. m, top[i].weight > 0
                PROVE  top[i].token \in MostLikely(row.weight, Token)
    OBVIOUS
  <2>1. list[i] \in [token : Token, weight : Nat]
    BY <1>4
  <2>2. list[i].weight >= list[1].weight
    <3>. SUFFICES ASSUME ~(list[i].weight >= list[1].weight) PROVE FALSE
      OBVIOUS
    <3>1. top[i] = [list[i] EXCEPT !.weight = 0]
      BY <1>7
    <3>2. top[i].weight = 0
      BY <2>1, <3>1
    <3>. QED BY <3>2
  <2>3. top[i] = list[i]
    BY <1>7, <2>2
  <2>4. list[i].token \in Token /\ row.weight[list[i].token] >= list[1].weight
    BY <1>4, <2>1, <2>2
  <2>. QED BY <1>6, <2>3, <2>4
<1>9. top[1] = list[1]
  BY <1>5, <1>6, <1>7
<1>10. ASSUME NEW n \in 1 .. m PROVE AreBest(row, TokensIn(top, n))
  <2>1. 1 \in 1 .. n /\ \A i \in 1 .. n : i \in 1 .. m
    BY <1>2
  <2>2. list[1].token \in TokensIn(top, n)
    BY <1>6, <1>9, <2>1 DEF TokensIn
  <2>3. TokensIn(top, n) \subseteq MostLikely(row.weight, Token)
    BY <1>8, <2>1 DEF TokensIn
  <2>. QED BY <2>2, <2>3 DEF AreBest
<1>. QED BY <1>7, <1>10 DEF top

\* So does vLLM's mask.
LEMMA MasksAreBest ==
  ASSUME NEW row, IsRow(row), row.topK = 1, NEW T \in ReferenceMasks(row)
  PROVE  AreBest(row, T)
<1>1. K(row) = 1
  BY DEF K
<1>2. Vocab \in 1 .. Vocab
  BY SamplingAssumption
<1>3. PICK list \in Top(row.weight, Vocab) :
        T \in {TokensIn(TopK(list, 1), n) :
                n \in IF row.p = One THEN {Vocab} ELSE CutsOff(TopK(list, 1), row.p, Rounding)}
  BY <1>1 DEF ReferenceMasks, MasksWithin, Sorted
<1>4. PICK n \in IF row.p = One THEN {Vocab} ELSE CutsOff(TopK(list, 1), row.p, Rounding) :
        T = TokensIn(TopK(list, 1), n)
  BY <1>3
<1>5. /\ DOMAIN TopK(list, 1) = 1 .. Vocab
      /\ \A i \in 1 .. Vocab : AreBest(row, TokensIn(TopK(list, 1), i))
  BY <1>2, FirstKeepsBest
<1>6. n \in 1 .. Vocab
  <2>1. CASE row.p = One
    BY <1>2, <1>4, <2>1
  <2>2. CASE row.p # One
    <3>1. n \in CutsOff(TopK(list, 1), row.p, Rounding)
      BY <1>4, <2>2
    <3>2. n \in DOMAIN TopK(list, 1)
      BY <3>1 DEF CutsOff
    <3>. QED BY <1>5, <3>2
  <2>. QED BY <2>1, <2>2
<1>. QED BY <1>4, <1>5, <1>6

\* Of one token there is no choice.
LEMMA OneTokenIsBest ==
  ASSUME NEW row, IsRow(row), Vocab = 1, NEW T \in SUBSET Token, T # {}
  PROVE  AreBest(row, T)
<1>1. Token = {1}
  BY DEF Token
<1>2. MostLikely(row.weight, Token) # {} /\ MostLikely(row.weight, Token) \subseteq Token
  BY BestIs
<1>. QED BY <1>1, <1>2 DEF AreBest

\* What is drawn under a mask of best tokens are those.
LEMMA MaskedKeepsBest ==
  ASSUME NEW row, IsRow(row), NEW T, AreBest(row, T)
  PROVE  AreBest(row, TokensIn(Masked(row.weight, T), Vocab))
<1>1. Vocab \in Nat /\ Token = 1 .. Vocab
  BY SamplingAssumption DEF Token
<1>2. \A t \in T : t \in Token /\ row.weight[t] > 0
  BY BestIs DEF AreBest
<1>3. \A t \in Token : Masked(row.weight, T)[t] = [token |-> t, weight |-> IF t \in T THEN row.weight[t] ELSE 0]
  BY DEF Masked
<1>4. \A t \in Token : Masked(row.weight, T)[t].token = t
                       /\ Masked(row.weight, T)[t].weight = IF t \in T THEN row.weight[t] ELSE 0
  <2>. TAKE t \in Token
  <2>. DEFINE w == IF t \in T THEN row.weight[t] ELSE 0
  <2>1. Masked(row.weight, T)[t] = [token |-> t, weight |-> w]
    BY <1>3
  <2>. HIDE DEF w
  <2>2. Masked(row.weight, T)[t].token = t /\ Masked(row.weight, T)[t].weight = w
    BY <2>1
  <2>. QED BY <2>2 DEF w
<1>5. TokensIn(Masked(row.weight, T), Vocab) = T
  <2>1. TokensIn(Masked(row.weight, T), Vocab) =
          {Masked(row.weight, T)[i].token : i \in {j \in Token : Masked(row.weight, T)[j].weight > 0}}
    BY <1>1 DEF TokensIn
  <2>2. {j \in Token : Masked(row.weight, T)[j].weight > 0} = T
    BY <1>2, <1>4
  <2>. QED BY <1>2, <1>4, <2>1, <2>2
<1>. QED BY <1>5

-----------------------------------------------------------------------------
(* Masses.                                                                 *)

\* The mass of the first n: nothing of none, and one entry's weight more for each.
LEMMA MassIs ==
  ASSUME NEW list, NEW m \in Nat, \A i \in 1 .. m : list[i].weight \in Nat
  PROVE  /\ \A n \in 0 .. m : Mass(list, n) \in Nat
         /\ Mass(list, 0) = 0
         /\ \A n \in 1 .. m : Mass(list, n) = Mass(list, n - 1) + list[n].weight
<1>. DEFINE w == [i \in 1 .. m |-> list[i].weight]
            IsMass(n, g) == g = [i \in 0 .. n |-> IF i = 0 THEN 0 ELSE g[i - 1] + list[i].weight]
            mass(n) == CHOOSE g : IsMass(n, g)
<1>1. \A i \in 1 .. m : w[i] = list[i].weight /\ w[i] \in Nat
  OBVIOUS
<1>. HIDE DEF w
<1>2. PICK total \in [0 .. m -> Nat] :
        total = [i \in 0 .. m |-> IF i = 0 THEN 0 ELSE total[i - 1] + w[i]]
  BY <1>1, SumsExist
<1>3. /\ total[0] = 0 /\ \A i \in 1 .. m : total[i] = total[i - 1] + list[i].weight
      /\ \A i \in 0 .. m : total[i] \in Nat
  <2>1. \A i \in 0 .. m : total[i] = IF i = 0 THEN 0 ELSE total[i - 1] + w[i]
    BY <1>2
  <2>2. 0 \in 0 .. m /\ \A i \in 1 .. m : i \in 0 .. m /\ i # 0
    OBVIOUS
  <2>3. \A i \in 1 .. m : total[i] = total[i - 1] + w[i]
    BY <2>1, <2>2
  <2>4. \A i \in 1 .. m : total[i] = total[i - 1] + list[i].weight
    BY <1>1, <2>3
  <2>. QED BY <1>2, <2>1, <2>2, <2>4
<1>4. ASSUME NEW n \in 0 .. m PROVE Mass(list, n) = total[n]
  <2>1. n \in Nat /\ n <= m
    OBVIOUS
  <2>. DEFINE part == [i \in 0 .. n |-> total[i]]
  <2>2. IsMass(n, part)
    <3>1. \A i \in 0 .. n : part[i] = total[i]
      OBVIOUS
    <3>. HIDE DEF part
    <3>2. \A i \in 0 .. n : part[i] = IF i = 0 THEN 0 ELSE part[i - 1] + list[i].weight
      <4>. TAKE i \in 0 .. n
      <4>1. CASE i = 0
        BY <1>3, <3>1, <4>1
      <4>2. CASE i # 0
        <5>1. i \in 1 .. m /\ i - 1 \in 0 .. n
          BY <2>1, <4>2
        <5>. QED BY <1>3, <3>1, <4>2, <5>1
      <4>. QED BY <4>1, <4>2
    <3>3. part = [i \in 0 .. n |-> part[i]]
      BY DEF part
    <3>. QED BY <3>2, <3>3
  <2>3. IsMass(n, mass(n))
    <3>. HIDE DEF IsMass
    <3>. QED BY <2>2
  <2>4. Mass(list, n) = mass(n)[n]
    BY DEF Mass
  <2>. DEFINE g == mass(n)
  <2>. HIDE DEF g, mass
  <2>5. g[0] = 0 /\ \A i \in 1 .. n : g[i] = g[i - 1] + list[i].weight
    <3>1. IsMass(n, g)
      BY <2>3 DEF g
    <3>2. \A i \in 0 .. n : g[i] = IF i = 0 THEN 0 ELSE g[i - 1] + list[i].weight
      BY <3>1
    <3>3. 0 \in 0 .. n /\ \A i \in 1 .. n : i \in 0 .. n /\ i # 0
      OBVIOUS
    <3>. HIDE DEF IsMass
    <3>. QED BY <3>2, <3>3
  <2>. DEFINE S == {i \in Nat : i <= n => g[i] = total[i]}
  <2>6. 0 \in S
    BY <1>3, <2>5
  <2>7. ASSUME NEW i \in Nat, i \in S PROVE i + 1 \in S
    <3>. SUFFICES ASSUME i + 1 <= n PROVE g[i + 1] = total[i + 1]
      OBVIOUS
    <3>. DEFINE j == i + 1
    <3>1. j \in 1 .. n /\ j \in 1 .. m /\ j - 1 = i /\ i <= n
      BY <2>1
    <3>2. g[i] = total[i]
      BY <2>7, <3>1
    <3>. HIDE DEF j
    <3>3. g[j] = g[j - 1] + list[j].weight /\ total[j] = total[j - 1] + list[j].weight
      BY <1>3, <2>5, <3>1
    <3>4. g[j] = total[j]
      BY <3>1, <3>2, <3>3
    <3>. QED BY <3>4 DEF j
  <2>8. g[n] = total[n]
    <3>. HIDE DEF S
    <3>1. n \in S
      BY <2>1, <2>6, <2>7, NatSetInduction
    <3>. QED BY <2>1, <3>1 DEF S
  <2>. QED BY <2>4, <2>8 DEF g
<1>5. 0 \in 0 .. m /\ \A n \in 1 .. m : n \in 0 .. m /\ n - 1 \in 0 .. m
  OBVIOUS
<1>. QED BY <1>3, <1>4, <1>5

LEMMA MassGrows ==
  ASSUME NEW list, NEW m \in Nat, \A i \in 1 .. m : list[i].weight \in Nat,
         NEW i \in 0 .. m, NEW j \in i .. m
  PROVE  Mass(list, i) <= Mass(list, j)
<1>. DEFINE S == {d \in Nat : i + d <= m => Mass(list, i) <= Mass(list, i + d)}
<1>1. /\ \A n \in 0 .. m : Mass(list, n) \in Nat
      /\ \A n \in 1 .. m : Mass(list, n) = Mass(list, n - 1) + list[n].weight
  BY MassIs
<1>2. i \in Nat /\ i <= m /\ j - i \in Nat /\ j <= m /\ i + (j - i) = j
  OBVIOUS
<1>3. 0 \in S
  BY <1>1, <1>2
<1>4. ASSUME NEW d \in Nat, d \in S PROVE d + 1 \in S
  <2>. SUFFICES ASSUME i + (d + 1) <= m PROVE Mass(list, i) <= Mass(list, i + (d + 1))
    OBVIOUS
  <2>. DEFINE n == i + (d + 1)
  <2>1. n \in 1 .. m /\ n - 1 = i + d /\ i + d <= m /\ i + d \in 0 .. m
    BY <1>2
  <2>. HIDE DEF n
  <2>2. Mass(list, i) <= Mass(list, i + d)
    BY <1>4, <2>1
  <2>3. Mass(list, n) = Mass(list, i + d) + list[n].weight
    BY <1>1, <2>1
  <2>4. Mass(list, i) \in Nat /\ Mass(list, i + d) \in Nat /\ list[n].weight \in Nat
    BY <1>1, <2>1
  <2>5. Mass(list, i) <= Mass(list, n)
    BY <2>2, <2>3, <2>4
  <2>. QED BY <2>5 DEF n
<1>5. j - i \in S
  <2>. HIDE DEF S
  <2>. QED BY <1>2, <1>3, <1>4, NatSetInduction
<1>. QED BY <1>2, <1>5

\* Entries of equal weight have equal mass.
LEMMA MassOfEqual ==
  ASSUME NEW list, NEW other, NEW m \in Nat,
         \A i \in 1 .. m : list[i].weight \in Nat /\ other[i].weight = list[i].weight
  PROVE  \A n \in 0 .. m : Mass(other, n) = Mass(list, n)
<1>. DEFINE S == {n \in Nat : n <= m => Mass(other, n) = Mass(list, n)}
<1>1. /\ Mass(list, 0) = 0
      /\ \A n \in 1 .. m : Mass(list, n) = Mass(list, n - 1) + list[n].weight
  BY MassIs
<1>2. /\ Mass(other, 0) = 0
      /\ \A n \in 1 .. m : Mass(other, n) = Mass(other, n - 1) + other[n].weight
  BY MassIs
<1>3. 0 \in S
  BY <1>1, <1>2
<1>4. ASSUME NEW n \in Nat, n \in S PROVE n + 1 \in S
  <2>. SUFFICES ASSUME n + 1 <= m PROVE Mass(other, n + 1) = Mass(list, n + 1)
    OBVIOUS
  <2>. DEFINE j == n + 1
  <2>1. j \in 1 .. m /\ j - 1 = n /\ n <= m
    OBVIOUS
  <2>. HIDE DEF j
  <2>2. Mass(other, n) = Mass(list, n)
    BY <1>4, <2>1
  <2>3. Mass(other, j) = Mass(list, j)
    BY <1>1, <1>2, <2>1, <2>2
  <2>. QED BY <2>3 DEF j
<1>5. Nat \subseteq S
  <2>. HIDE DEF S
  <2>. QED BY <1>3, <1>4, NatSetInduction
<1>. QED BY <1>5

\* From an entry on, nothing weighs anything.
LEMMA MassOfRest ==
  ASSUME NEW list, NEW m \in Nat, \A i \in 1 .. m : list[i].weight \in Nat,
         NEW n \in 0 .. m, \A i \in n + 1 .. m : list[i].weight = 0
  PROVE  \A i \in n .. m : Mass(list, i) = Mass(list, n)
<1>. DEFINE S == {d \in Nat : n + d <= m => Mass(list, n + d) = Mass(list, n)}
<1>1. /\ \A i \in 0 .. m : Mass(list, i) \in Nat
      /\ \A i \in 1 .. m : Mass(list, i) = Mass(list, i - 1) + list[i].weight
  BY MassIs
<1>2. 0 \in S
  OBVIOUS
<1>3. ASSUME NEW d \in Nat, d \in S PROVE d + 1 \in S
  <2>. SUFFICES ASSUME n + (d + 1) <= m PROVE Mass(list, n + (d + 1)) = Mass(list, n)
    OBVIOUS
  <2>. DEFINE j == n + (d + 1)
  <2>1. j \in 1 .. m /\ j \in n + 1 .. m /\ j - 1 = n + d /\ n + d <= m
    OBVIOUS
  <2>. HIDE DEF j
  <2>2. Mass(list, n + d) = Mass(list, n)
    BY <1>3, <2>1
  <2>3. Mass(list, j) = Mass(list, n + d) + 0
    BY <1>1, <2>1
  <2>4. Mass(list, n) \in Nat
    BY <1>1
  <2>5. Mass(list, j) = Mass(list, n)
    BY <2>2, <2>3, <2>4
  <2>. QED BY <2>5 DEF j
<1>4. Nat \subseteq S
  <2>. HIDE DEF S
  <2>. QED BY <1>2, <1>3, NatSetInduction
<1>5. ASSUME NEW i \in n .. m PROVE Mass(list, i) = Mass(list, n)
  <2>1. i - n \in Nat /\ n + (i - n) = i /\ i <= m
    OBVIOUS
  <2>2. i - n \in S
    BY <1>4, <2>1
  <2>. HIDE DEF S
  <2>. QED BY <2>1, <2>2 DEF S
<1>. QED BY <1>5

-----------------------------------------------------------------------------
(* Drawing from a list.                                                    *)

\* A list of m different tokens, each with its weight or with none.
Weighs(weight, m, list) ==
  /\ m \in Nat /\ DOMAIN list = 1 .. m
  /\ \A i \in 1 .. m : /\ list[i].token \in Token
                       /\ list[i].weight \in Nat
                       /\ list[i].weight \in {0, weight[list[i].token]}
  /\ \A i, j \in 1 .. m : list[i].token = list[j].token => i = j

\* The entry picked is that at which the mass exceeds the target.
LEMMA PickIs ==
  ASSUME NEW weight, NEW m, NEW list, Weighs(weight, m, list),
         NEW n \in 1 .. m, NEW x \in 0 .. Mass(list, n) - 1
  PROVE  /\ Pick(list, n, x) \in 1 .. n
         /\ \A i \in 1 .. n : Pick(list, n, x) = i <=> Mass(list, i - 1) <= x /\ x < Mass(list, i)
<1>. DEFINE past == {n} \cup {i \in DOMAIN list : Mass(list, i) > x}
            k == Pick(list, n, x)
<1>1. m \in Nat /\ DOMAIN list = 1 .. m /\ \A i \in 1 .. m : list[i].weight \in Nat
  BY DEF Weighs
<1>2. \A i \in 0 .. m : Mass(list, i) \in Nat
  BY <1>1, MassIs
<1>3. Mass(list, 0) = 0
  BY <1>1, MassIs
<1>4. x \in Nat /\ Mass(list, n) > x
  BY <1>2
<1>5. past \in SUBSET Nat /\ past # {} /\ past = {i \in 1 .. m : Mass(list, i) > x}
  BY <1>1, <1>4
<1>6. k = Min(past)
  BY DEF Pick
<1>. HIDE DEF k, past
<1>7. k \in past /\ \A i \in past : k <= i
  BY <1>5, <1>6, MinIs
<1>8. /\ k \in 1 .. m /\ Mass(list, k) > x
      /\ \A i \in 1 .. m : Mass(list, i) > x => k <= i
  BY <1>5, <1>7
<1>9. k \in 1 .. n
  BY <1>1, <1>4, <1>8
<1>10. Mass(list, k - 1) <= x
  <2>1. CASE k = 1
    BY <1>3, <1>4, <2>1
  <2>2. CASE k # 1
    <3>1. k - 1 \in 1 .. m /\ ~(k <= k - 1) /\ k - 1 \in 0 .. m
      BY <1>1, <1>8, <2>2
    <3>2. ~(Mass(list, k - 1) > x)
      BY <1>8, <3>1
    <3>. QED BY <1>2, <1>4, <3>1, <3>2
  <2>. QED BY <2>1, <2>2
<1>11. ASSUME NEW i \in 1 .. n, Mass(list, i - 1) <= x, x < Mass(list, i) PROVE k = i
  <2>1. i \in 1 .. m /\ i - 1 \in 0 .. m /\ k \in 0 .. m
    BY <1>1, <1>8
  <2>2. k <= i
    BY <1>2, <1>4, <1>8, <1>11, <2>1
  <2>3. CASE k <= i - 1
    <3>1. i - 1 \in k .. m
      BY <1>1, <2>1, <2>3
    <3>2. Mass(list, k) <= Mass(list, i - 1)
      BY <1>1, <2>1, <3>1, MassGrows
    <3>. QED BY <1>2, <1>4, <1>8, <1>11, <2>1, <3>2
  <2>4. CASE ~(k <= i - 1)
    BY <1>1, <2>1, <2>2, <2>4
  <2>. QED BY <2>3, <2>4
<1>12. ASSUME NEW i \in 1 .. n, k = i PROVE Mass(list, i - 1) <= x /\ x < Mass(list, i)
  <2>1. i \in 0 .. m
    BY <1>1
  <2>. QED BY <1>2, <1>4, <1>8, <1>10, <1>12, <2>1
<1>. QED BY <1>9, <1>11, <1>12 DEF k

(***************************************************************************)
(* Drawn at a uniform variate, an entry is picked as often as it weighs    *)
(* (_inverse_cdf).                                                         *)
(***************************************************************************)
LEMMA DrawnByWeight ==
  ASSUME NEW weight \in [Token -> Nat], NEW m, NEW list, Weighs(weight, m, list),
         NEW n \in 1 .. m, NEW t \in Token
  PROVE  Cardinality({x \in 0 .. Mass(list, n) - 1 : list[Pick(list, n, x)].token = t}) =
           IF t \in TokensIn(list, n) THEN weight[t] ELSE 0
<1>. DEFINE picks == {x \in 0 .. Mass(list, n) - 1 : list[Pick(list, n, x)].token = t}
<1>1. /\ m \in Nat
      /\ \A i \in 1 .. m : /\ list[i].token \in Token /\ list[i].weight \in Nat
                           /\ list[i].weight \in {0, weight[list[i].token]}
      /\ \A i, j \in 1 .. m : list[i].token = list[j].token => i = j
  BY DEF Weighs
<1>2. \A i \in 1 .. n : i \in 1 .. m
  BY <1>1
<1>3. /\ \A i \in 0 .. m : Mass(list, i) \in Nat
      /\ \A i \in 1 .. m : Mass(list, i) = Mass(list, i - 1) + list[i].weight
  BY <1>1, MassIs
<1>4. CASE \E i \in 1 .. n : list[i].token = t
  <2>1. PICK i \in 1 .. n : list[i].token = t
    BY <1>4
  <2>2. i \in 1 .. m /\ i - 1 \in 0 .. m /\ i \in 0 .. m /\ n \in 0 .. m /\ n \in i .. m
    BY <1>1
  <2>3. \A x \in 0 .. Mass(list, n) - 1 :
          list[Pick(list, n, x)].token = t <=> Mass(list, i - 1) <= x /\ x < Mass(list, i)
    <3>. TAKE x \in 0 .. Mass(list, n) - 1
    <3>1. Pick(list, n, x) \in 1 .. n
      BY PickIs
    <3>2. Pick(list, n, x) = i <=> Mass(list, i - 1) <= x /\ x < Mass(list, i)
      BY PickIs
    <3>3. list[Pick(list, n, x)].token = t <=> Pick(list, n, x) = i
      BY <1>1, <1>2, <2>1, <2>2, <3>1
    <3>. QED BY <3>2, <3>3
  <2>4. Mass(list, i - 1) \in Nat /\ Mass(list, i) \in Nat /\ Mass(list, n) \in Nat
        /\ Mass(list, i) = Mass(list, i - 1) + list[i].weight /\ list[i].weight \in Nat
    BY <1>1, <1>3, <2>2
  <2>5. Mass(list, i) <= Mass(list, n)
    BY <1>1, <2>2, MassGrows
  <2>6. picks = Mass(list, i - 1) .. Mass(list, i) - 1
    <3>1. \A x \in Mass(list, i - 1) .. Mass(list, i) - 1 :
            x \in 0 .. Mass(list, n) - 1 /\ Mass(list, i - 1) <= x /\ x < Mass(list, i)
      BY <2>4, <2>5
    <3>2. \A x \in 0 .. Mass(list, n) - 1 :
            Mass(list, i - 1) <= x /\ x < Mass(list, i) => x \in Mass(list, i - 1) .. Mass(list, i) - 1
      BY <2>4
    <3>. QED BY <2>3, <3>1, <3>2
  <2>7. Cardinality(picks) = list[i].weight
    <3>. DEFINE a == Mass(list, i - 1)
                b == Mass(list, i) - 1
    <3>1. a \in Int /\ b \in Int /\ list[i].weight = b - a + 1 /\ (a > b => list[i].weight = 0)
      BY <2>4
    <3>2. picks = a .. b
      BY <2>6
    <3>. HIDE DEF a, b, picks
    <3>3. Cardinality(a .. b) = IF a > b THEN 0 ELSE b - a + 1
      BY <3>1, FS_Interval
    <3>. QED BY <3>1, <3>2, <3>3
  <2>8. CASE list[i].weight > 0
    <3>1. t \in TokensIn(list, n)
      BY <2>1, <2>8 DEF TokensIn
    <3>2. list[i].weight = weight[t]
      BY <1>1, <2>1, <2>2, <2>8
    <3>. QED BY <2>7, <3>1, <3>2
  <2>9. CASE list[i].weight = 0
    <3>1. t \notin TokensIn(list, n)
      <4>1. \A j \in 1 .. n : list[j].token = t => j = i
        BY <1>1, <1>2, <2>1
      <4>2. \A j \in 1 .. n : list[j].token = t => ~(list[j].weight > 0)
        BY <2>9, <4>1
      <4>. QED BY <4>2 DEF TokensIn
    <3>. QED BY <2>7, <2>9, <3>1
  <2>. QED BY <2>4, <2>8, <2>9
<1>5. CASE ~(\E i \in 1 .. n : list[i].token = t)
  <2>1. t \notin TokensIn(list, n)
    BY <1>5 DEF TokensIn
  <2>2. \A x \in 0 .. Mass(list, n) - 1 : Pick(list, n, x) \in 1 .. n
    BY PickIs
  <2>3. picks = {}
    BY <1>5, <2>2
  <2>4. Cardinality(picks) = 0
    BY <2>3, FS_EmptySet
  <2>. QED BY <2>1, <2>4
<1>. QED BY <1>4, <1>5

-----------------------------------------------------------------------------
(* Lists of the most likely tokens.                                        *)

\* What is on such a list.
LEMMA TopListIs ==
  ASSUME NEW weight \in [Token -> Nat], NEW m \in Nat, NEW list, IsTopList(weight, m, list)
  PROVE  /\ DOMAIN list = 1 .. m /\ list = [i \in 1 .. m |-> list[i]]
         /\ \A i \in 1 .. m : /\ list[i] \in [token : Token, weight : Nat]
                              /\ list[i].token \in Token /\ list[i].weight \in Nat
                              /\ list[i].weight = weight[list[i].token]
         /\ \A i, j \in 1 .. m : list[i].token = list[j].token => i = j
         /\ \A i \in 1 .. m : \A t \in Token :
              t \notin {list[j].token : j \in 1 .. i - 1} => weight[t] <= list[i].weight
         /\ \A i, j \in 1 .. m : i <= j => list[j].weight <= list[i].weight
         /\ Weighs(weight, m, list)
<1>1. list \in Seq([token : Token, weight : Nat]) /\ Len(list) = m
  BY DEF IsTopList
<1>2. DOMAIN list = 1 .. m
  BY <1>1, LenProperties
<1>3. list \in [1 .. m -> [token : Token, weight : Nat]]
  BY <1>1, LenProperties
<1>4. \A i \in 1 .. m : list[i] \in [token : Token, weight : Nat]
  BY <1>3
<1>5. /\ \A i \in 1 .. m : list[i].weight = weight[list[i].token]
      /\ \A i, j \in 1 .. m : list[i].token = list[j].token => i = j
      /\ \A i \in 1 .. m : \A t \in Token :
           t \notin {list[j].token : j \in 1 .. i - 1} => weight[t] <= list[i].weight
  BY DEF IsTopList
<1>6. \A i \in 1 .. m : list[i].token \in Token /\ list[i].weight \in Nat
  BY <1>4
<1>7. ASSUME NEW i \in 1 .. m, NEW j \in 1 .. m, i <= j PROVE list[j].weight <= list[i].weight
  <2>1. \A k \in 1 .. i - 1 : k \in 1 .. m /\ k # j
    BY <1>7
  <2>2. list[j].token \notin {list[k].token : k \in 1 .. i - 1}
    BY <1>5, <2>1
  <2>. QED BY <1>5, <1>6, <2>2
<1>8. Weighs(weight, m, list)
  BY <1>2, <1>5, <1>6 DEF Weighs
<1>9. list = [i \in 1 .. m |-> list[i]]
  BY <1>3
<1>. QED BY <1>2, <1>4, <1>5, <1>6, <1>7, <1>8, <1>9

\* What is heavier than an entry is before it.
LEMMA HeavierIsBefore ==
  ASSUME NEW weight \in [Token -> Nat], NEW m \in Nat, NEW list, IsTopList(weight, m, list),
         NEW i \in 1 .. m, NEW t \in Token, weight[t] > list[i].weight
  PROVE  \E j \in 1 .. i - 1 : list[j].token = t
<1>1. /\ list[i].weight \in Nat /\ weight[t] \in Nat
      /\ t \notin {list[j].token : j \in 1 .. i - 1} => weight[t] <= list[i].weight
  BY TopListIs
<1>2. t \in {list[j].token : j \in 1 .. i - 1}
  BY <1>1
<1>. QED BY <1>2

\* However ties turn out, the entry at a place is not lighter on one list than on another ...
LEMMA NotLighter ==
  ASSUME NEW weight \in [Token -> Nat],
         NEW m \in Nat, NEW list, IsTopList(weight, m, list),
         NEW n \in Nat, NEW other, IsTopList(weight, n, other),
         NEW i \in 1 .. m, i \in 1 .. n
  PROVE  list[i].weight <= other[i].weight
<1>1. /\ list[i].weight \in Nat /\ other[i].weight \in Nat
      /\ \A j \in 1 .. m : list[j].token \in Token /\ list[j].weight = weight[list[j].token]
                           /\ list[j].weight \in Nat
      /\ \A j, k \in 1 .. m : list[j].token = list[k].token => j = k
      /\ \A j, k \in 1 .. m : j <= k => list[k].weight <= list[j].weight
  BY TopListIs, SMTT(30)
<1>. SUFFICES ASSUME list[i].weight > other[i].weight PROVE FALSE
  BY <1>1
<1>2. \A j \in 1 .. i : \E k \in 1 .. i - 1 : other[k].token = list[j].token
  <2>. TAKE j \in 1 .. i
  <2>1. j \in 1 .. m /\ j <= i
    OBVIOUS
  <2>2. list[i].weight <= list[j].weight
    BY <1>1, <2>1
  <2>3. list[j].token \in Token /\ weight[list[j].token] > other[i].weight
    BY <1>1, <2>1, <2>2
  <2>. DEFINE t == list[j].token
  <2>4. t \in Token /\ weight[t] > other[i].weight
    BY <2>3
  <2>. HIDE DEF t
  <2>5. \E k \in 1 .. i - 1 : other[k].token = t
    BY <2>4, HeavierIsBefore
  <2>. QED BY <2>5 DEF t
<1>. DEFINE place == [j \in 1 .. i |-> CHOOSE k \in 1 .. i - 1 : other[k].token = list[j].token]
<1>3. \A j \in 1 .. i : place[j] \in 1 .. i - 1 /\ other[place[j]].token = list[j].token
  BY <1>2
<1>4. place \in [1 .. i -> 1 .. i - 1]
  BY <1>3
<1>. HIDE DEF place
<1>5. /\ IsFiniteSet(1 .. i) /\ IsFiniteSet(1 .. i - 1)
      /\ Cardinality(1 .. i - 1) < Cardinality(1 .. i)
  <2>. DEFINE a == i - 1
  <2>1. i \in Int /\ i >= 1 /\ a \in Int /\ a >= 0 /\ a < i
    OBVIOUS
  <2>. HIDE DEF a
  <2>2. /\ IsFiniteSet(1 .. i) /\ Cardinality(1 .. i) = IF 1 > i THEN 0 ELSE i - 1 + 1
        /\ IsFiniteSet(1 .. a) /\ Cardinality(1 .. a) = IF 1 > a THEN 0 ELSE a - 1 + 1
    BY <2>1, FS_Interval
  <2>3. Cardinality(1 .. i) = i /\ Cardinality(1 .. a) = a
    BY <2>1, <2>2
  <2>. QED BY <2>1, <2>2, <2>3 DEF a
<1>6. PICK j, k \in 1 .. i : j # k /\ place[j] = place[k]
  BY <1>4, <1>5, FS_PigeonHole
<1>7. list[j].token = list[k].token /\ j \in 1 .. m /\ k \in 1 .. m
  BY <1>3, <1>6
<1>. QED BY <1>1, <1>6, <1>7

\* ... so the weights are the same.
LEMMA SameWeights ==
  ASSUME NEW weight \in [Token -> Nat],
         NEW m \in Nat, NEW list, IsTopList(weight, m, list),
         NEW n \in Nat, NEW other, IsTopList(weight, n, other),
         NEW i \in 1 .. m, i \in 1 .. n
  PROVE  list[i].weight = other[i].weight
<1>1. list[i].weight \in Nat /\ other[i].weight \in Nat
  BY TopListIs
<1>2. list[i].weight <= other[i].weight
  BY NotLighter
<1>3. other[i].weight <= list[i].weight
  BY NotLighter
<1>. QED BY <1>1, <1>2, <1>3

\* A list as long as the vocabulary has every token.
LEMMA SortedHasAll ==
  ASSUME NEW weight \in [Token -> Nat], NEW list, IsTopList(weight, Vocab, list), NEW t \in Token
  PROVE  \E i \in 1 .. Vocab : list[i].token = t
<1>1. Vocab \in Nat /\ Token = 1 .. Vocab
  BY SamplingAssumption DEF Token
<1>2. /\ \A i \in 1 .. Vocab : list[i].token \in Token
      /\ \A i, j \in 1 .. Vocab : list[i].token = list[j].token => i = j
  BY <1>1, TopListIs
<1>. SUFFICES ASSUME \A i \in 1 .. Vocab : list[i].token # t PROVE FALSE
  OBVIOUS
<1>. DEFINE others == Token \ {t}
            tokens == [i \in Token |-> list[i].token]
<1>3. IsFiniteSet(Token)
  BY <1>1, FS_Interval
<1>4. tokens \in [Token -> others]
  BY <1>1, <1>2
<1>5. IsFiniteSet(others) /\ Cardinality(others) < Cardinality(Token)
  <2>1. others \in SUBSET Token /\ others # Token
    OBVIOUS
  <2>. HIDE DEF others
  <2>2. /\ IsFiniteSet(others) /\ Cardinality(others) <= Cardinality(Token)
        /\ Cardinality(Token) = Cardinality(others) => Token = others
    BY <1>3, <2>1, FS_Subset
  <2>3. Cardinality(others) \in Nat /\ Cardinality(Token) \in Nat
    BY <1>3, <2>2, FS_CardinalityType
  <2>. QED BY <2>1, <2>2, <2>3
<1>. HIDE DEF others
<1>6. PICK i, j \in Token : i # j /\ tokens[i] = tokens[j]
  <2>. HIDE DEF tokens
  <2>. QED BY <1>3, <1>4, <1>5, FS_PigeonHole
<1>. QED BY <1>1, <1>2, <1>6

-----------------------------------------------------------------------------
(* Top-k, and the cut of top-p after it.                                   *)

\* What top-k keeps of a list of the most likely tokens.
LEMMA TopKIs ==
  ASSUME NEW weight \in [Token -> Nat], NEW m \in Nat, NEW list, IsTopList(weight, m, list),
         NEW k \in 1 .. m
  PROVE  /\ DOMAIN TopK(list, k) = 1 .. m /\ Len(TopK(list, k)) = m
         /\ \A i \in 1 .. m : /\ TopK(list, k)[i].token = list[i].token
                              /\ TopK(list, k)[i].weight =
                                   IF list[i].weight >= list[k].weight THEN list[i].weight ELSE 0
                              /\ TopK(list, k)[i].weight \in Nat
         /\ \A i, j \in 1 .. m : i <= j => TopK(list, k)[j].weight <= TopK(list, k)[i].weight
         /\ Weighs(weight, m, TopK(list, k))
<1>. DEFINE top == TopK(list, k)
<1>1. /\ DOMAIN list = 1 .. m
      /\ \A i \in 1 .. m : /\ list[i] \in [token : Token, weight : Nat]
                           /\ list[i].token \in Token /\ list[i].weight \in Nat
                           /\ list[i].weight = weight[list[i].token]
      /\ \A i, j \in 1 .. m : list[i].token = list[j].token => i = j
      /\ \A i, j \in 1 .. m : i <= j => list[j].weight <= list[i].weight
  BY TopListIs
<1>2. top = [i \in 1 .. m |-> IF list[i].weight >= list[k].weight
                              THEN list[i] ELSE [list[i] EXCEPT !.weight = 0]]
  BY <1>1 DEF TopK, Threshold
<1>3. top \in [1 .. m -> [token : Token, weight : Nat]]
  BY <1>1, <1>2, SMTT(30)
<1>4. DOMAIN top = 1 .. m /\ Len(top) = m
  BY <1>3
<1>5. ASSUME NEW i \in 1 .. m
      PROVE  /\ top[i].token = list[i].token
             /\ top[i].weight = IF list[i].weight >= list[k].weight THEN list[i].weight ELSE 0
             /\ top[i].weight \in Nat
  <2>1. list[i] \in [token : Token, weight : Nat] /\ list[i].weight \in Nat
    BY <1>1
  <2>2. CASE list[i].weight >= list[k].weight
    <3>1. top[i] = list[i]
      BY <1>2, <2>2
    <3>. QED BY <2>1, <2>2, <3>1
  <2>3. CASE ~(list[i].weight >= list[k].weight)
    <3>1. top[i] = [list[i] EXCEPT !.weight = 0]
      BY <1>2, <2>3
    <3>2. top[i].token = list[i].token /\ top[i].weight = 0
      BY <2>1, <3>1
    <3>. QED BY <2>3, <3>2
  <2>. QED BY <2>2, <2>3
<1>. HIDE DEF top
<1>6. ASSUME NEW i \in 1 .. m, NEW j \in 1 .. m, i <= j PROVE top[j].weight <= top[i].weight
  <2>1. list[j].weight <= list[i].weight /\ list[i].weight \in Nat /\ list[j].weight \in Nat
        /\ list[k].weight \in Nat
    BY <1>1, <1>6
  <2>. QED BY <1>5, <2>1
<1>7. Weighs(weight, m, top)
  <2>1. \A i \in 1 .. m : top[i].token \in Token /\ top[i].weight \in {0, weight[top[i].token]}
    BY <1>1, <1>5
  <2>2. \A i, j \in 1 .. m : top[i].token = top[j].token => i = j
    BY <1>1, <1>5
  <2>. QED BY <1>4, <1>5, <2>1, <2>2 DEF Weighs
<1>. QED BY <1>4, <1>5, <1>6, <1>7 DEF top

\* A list that has seen every token that ties with its k-th entry.
CompleteAt(m, list, k) == list[m].weight < list[k].weight \/ m = Vocab

(***************************************************************************)
(* Where what is kept of such a list are the entries of at least some      *)
(* weight, it is kept of the tokens of at least that weight.               *)
(***************************************************************************)
LEMMA KeptIsAtLeast ==
  ASSUME NEW weight \in [Token -> Nat], NEW m \in Nat, NEW list, IsTopList(weight, m, list),
         NEW k \in 1 .. m, CompleteAt(m, list, k),
         NEW v \in Nat, v > 0, v >= list[k].weight, NEW n \in 1 .. m,
         \A i \in 1 .. m : (i <= n /\ TopK(list, k)[i].weight > 0) <=> TopK(list, k)[i].weight >= v
  PROVE  TokensIn(TopK(list, k), n) = {t \in Token : weight[t] >= v}
<1>. DEFINE top == TopK(list, k)
<1>1. /\ \A i \in 1 .. m : /\ list[i].token \in Token /\ list[i].weight \in Nat
                           /\ list[i].weight = weight[list[i].token]
  BY TopListIs
<1>2. \A i \in 1 .. m : /\ top[i].token = list[i].token
                        /\ top[i].weight = IF list[i].weight >= list[k].weight THEN list[i].weight ELSE 0
                        /\ top[i].weight \in Nat
  BY TopKIs
<1>3. \A i \in 1 .. m : (i <= n /\ top[i].weight > 0) <=> top[i].weight >= v
  OBVIOUS
<1>. HIDE DEF top
<1>4. m \in 1 .. m /\ \A i \in 1 .. n : i \in 1 .. m
  OBVIOUS
<1>5. ASSUME NEW i \in 1 .. n, top[i].weight > 0
      PROVE  top[i].token \in Token /\ weight[top[i].token] >= v
  <2>1. i \in 1 .. m /\ i <= n
    BY <1>4
  <2>2. top[i].weight >= v
    BY <1>3, <1>5, <2>1
  <2>3. top[i].weight = list[i].weight
    BY <1>2, <1>5, <2>1
  <2>. QED BY <1>1, <1>2, <2>1, <2>2, <2>3
<1>6. ASSUME NEW t \in Token, weight[t] >= v
      PROVE  \E i \in 1 .. n : top[i].weight > 0 /\ top[i].token = t
  <2>1. PICK i \in 1 .. m : list[i].token = t
    <3>1. CASE list[m].weight < list[k].weight
      <4>1. weight[t] > list[m].weight
        BY <1>1, <1>4, <1>6, <3>1
      <4>2. \E j \in 1 .. m - 1 : list[j].token = t
        BY <1>4, <4>1, HeavierIsBefore
      <4>3. \A j \in 1 .. m - 1 : j \in 1 .. m
        OBVIOUS
      <4>. QED BY <4>2, <4>3
    <3>2. CASE m = Vocab
      BY <3>2, SortedHasAll
    <3>. QED BY <3>1, <3>2 DEF CompleteAt
  <2>2. list[i].weight = weight[t] /\ list[k].weight \in Nat
    BY <1>1, <2>1
  <2>3. top[i].weight = weight[t]
    BY <1>1, <1>2, <1>6, <2>1, <2>2
  <2>4. i <= n /\ top[i].weight > 0
    BY <1>3, <1>6, <2>3
  <2>. QED BY <1>2, <2>1, <2>4
<1>7. TokensIn(top, n) = {t \in Token : weight[t] >= v}
  BY <1>5, <1>6 DEF TokensIn
<1>. QED BY <1>7 DEF top

\* A descending sequence that keeps away from a value by more than rho crosses it at one
\* place, also seen with an error of rho.
LEMMA OneCut ==
  ASSUME NEW q \in Nat, q >= 1, NEW a, \A i \in 1 .. q : a[i] \in Int,
         NEW c \in Int, NEW rho \in Nat,
         \A i, j \in 1 .. q : i <= j => a[j] <= a[i],
         \A i \in 2 .. q : a[i] < c - rho \/ a[i] > c + rho,
         NEW n \in 1 .. q, n > 1 => a[n] > c, \A i \in 1 .. q : i > n => a[i] <= c
  PROVE  {x \in 1 .. q : (x > 1 => a[x] > c - rho) /\ (x < q => a[x + 1] <= c + rho)} = {n}
<1>1. ASSUME n > 1 PROVE a[n] > c - rho
  BY <1>1
<1>2. ASSUME n < q PROVE a[n + 1] <= c + rho
  <2>1. n + 1 \in 1 .. q /\ n + 1 > n
    BY <1>2
  <2>2. a[n + 1] <= c /\ a[n + 1] \in Int
    BY <2>1
  <2>. QED BY <2>2
<1>3. ASSUME NEW x \in 1 .. q, x > 1 => a[x] > c - rho, x < q => a[x + 1] <= c + rho
      PROVE  x = n
  <2>1. CASE x > n
    <3>1. x \in 2 .. q /\ a[x] <= c /\ a[x] > c - rho /\ a[x] \in Int
      BY <1>3, <2>1
    <3>2. a[x] < c - rho \/ a[x] > c + rho
      BY <3>1
    <3>. QED BY <3>1, <3>2
  <2>2. CASE x < n
    <3>1. x + 1 \in 2 .. q /\ x + 1 \in 1 .. q /\ x + 1 <= n /\ n > 1 /\ x < q
      BY <2>2
    <3>2. a[x + 1] <= c + rho /\ a[n] > c /\ a[n] <= a[x + 1] /\ a[x + 1] \in Int /\ a[n] \in Int
      BY <1>3, <3>1
    <3>3. a[x + 1] < c - rho \/ a[x + 1] > c + rho
      BY <3>1
    <3>. QED BY <3>2, <3>3
  <2>. QED BY <2>1, <2>2
<1>. QED BY <1>1, <1>2, <1>3

(***************************************************************************)
(* What top-k keeps of a complete list is what it keeps of the sorted      *)
(* vocabulary, which goes on with entries of no weight.                    *)
(***************************************************************************)
LEMMA SameTops ==
  ASSUME NEW weight \in [Token -> Nat], NEW m \in Nat, NEW list, IsTopList(weight, m, list),
         NEW k \in 1 .. m, CompleteAt(m, list, k), m <= Vocab,
         NEW sorted, IsTopList(weight, Vocab, sorted)
  PROVE  /\ k \in 1 .. Vocab /\ CompleteAt(Vocab, sorted, k) /\ sorted[k].weight = list[k].weight
         /\ \A i \in 1 .. m : TopK(sorted, k)[i].weight = TopK(list, k)[i].weight
         /\ \A i \in m + 1 .. Vocab : TopK(sorted, k)[i].weight = 0
         /\ m < Vocab => m >= 2 /\ TopK(list, k)[m].weight = 0
<1>1. Vocab \in Nat /\ k \in 1 .. Vocab /\ \A i \in 1 .. m : i \in 1 .. Vocab
  BY SamplingAssumption
<1>2. \A i \in 1 .. m : sorted[i].weight = list[i].weight
  BY <1>1, SameWeights
<1>3. CompleteAt(Vocab, sorted, k)
  BY DEF CompleteAt
<1>4. \A i \in 1 .. m : TopK(list, k)[i].weight = IF list[i].weight >= list[k].weight THEN list[i].weight ELSE 0
  BY TopKIs
<1>5. \A i \in 1 .. Vocab : TopK(sorted, k)[i].weight =
                              IF sorted[i].weight >= sorted[k].weight THEN sorted[i].weight ELSE 0
  BY <1>1, TopKIs
<1>6. \A i \in 1 .. m : TopK(sorted, k)[i].weight = TopK(list, k)[i].weight
  BY <1>1, <1>2, <1>4, <1>5
<1>7. m \in 1 .. m /\ list[m].weight \in Nat /\ list[k].weight \in Nat
  <2>1. m \in 1 .. m
    OBVIOUS
  <2>. QED BY <2>1, TopListIs
<1>8. m < Vocab => list[m].weight < list[k].weight
  BY DEF CompleteAt
<1>9. ASSUME NEW i \in m + 1 .. Vocab PROVE TopK(sorted, k)[i].weight = 0
  <2>1. i \in 1 .. Vocab /\ m \in 1 .. Vocab /\ m <= i /\ m < Vocab
    BY <1>1, <1>7
  <2>2. sorted[i].weight <= sorted[m].weight /\ sorted[i].weight \in Nat
    BY <1>1, <2>1, TopListIs
  <2>3. sorted[m].weight < sorted[k].weight /\ sorted[m].weight = list[m].weight
        /\ sorted[k].weight = list[k].weight
    BY <1>2, <1>7, <1>8, <2>1
  <2>4. ~(sorted[i].weight >= sorted[k].weight)
    BY <1>7, <2>2, <2>3
  <2>. QED BY <1>5, <2>1, <2>4
<1>10. ASSUME m < Vocab PROVE m >= 2 /\ TopK(list, k)[m].weight = 0
  <2>1. list[m].weight < list[k].weight
    BY <1>8, <1>10
  <2>2. m # k
    BY <1>7, <2>1
  <2>3. ~(list[m].weight >= list[k].weight)
    BY <1>7, <2>1
  <2>. QED BY <1>4, <1>7, <2>2, <2>3
<1>. QED BY <1>1, <1>2, <1>3, <1>6, <1>9, <1>10

\* A pass's search that decides a row.
Decides(row, m, list) ==
  /\ IsRow(row) /\ m \in 1 .. Vocab /\ list \in Top(row.weight, m)
  /\ K(row) \in 1 .. m /\ CompleteAt(m, list, K(row)) /\ list[K(row)].weight > 0
  /\ ~Uncertain(TopK(list, K(row)), row.p)

\* The numbers a search compares.
LEMMA SumsAreNumbers ==
  ASSUME NEW m \in Nat, NEW list, Len(list) = m, \A i \in 1 .. m : list[i].weight \in Nat, NEW p \in 1 .. One
  PROVE  /\ \A i \in 1 .. m : Ascending(list, i) = Mass(list, m) - Mass(list, i - 1)
         /\ \A i \in 1 .. m : Ascending(list, i) \in Nat /\ Ascending(list, i) >= list[i].weight
         /\ \A i, j \in 1 .. m : i <= j => Ascending(list, j) <= Ascending(list, i)
         /\ Cutoff(list, p) \in Nat /\ (p = One => Cutoff(list, p) = 0)
<1>1. /\ \A i \in 0 .. m : Mass(list, i) \in Nat
      /\ \A i \in 1 .. m : Mass(list, i) = Mass(list, i - 1) + list[i].weight
  BY MassIs
<1>2. \A i \in 1 .. m : Ascending(list, i) = Mass(list, m) - Mass(list, i - 1)
  BY DEF Ascending
<1>3. ASSUME NEW i \in 1 .. m PROVE Ascending(list, i) \in Nat /\ Ascending(list, i) >= list[i].weight
  <2>1. i \in 0 .. m /\ m \in i .. m /\ i - 1 \in 0 .. m /\ m \in 0 .. m
    OBVIOUS
  <2>2. Mass(list, i) <= Mass(list, m)
    BY <2>1, MassGrows
  <2>. QED BY <1>1, <1>2, <2>1, <2>2
<1>4. ASSUME NEW i \in 1 .. m, NEW j \in 1 .. m, i <= j PROVE Ascending(list, j) <= Ascending(list, i)
  <2>1. i - 1 \in 0 .. m /\ j - 1 \in i - 1 .. m /\ j - 1 \in 0 .. m /\ m \in 0 .. m
    BY <1>4
  <2>2. Mass(list, i - 1) <= Mass(list, j - 1)
    BY <2>1, MassGrows
  <2>. QED BY <1>1, <1>2, <2>1, <2>2
<1>5. Cutoff(list, p) \in Nat /\ (p = One => Cutoff(list, p) = 0)
  <2>1. Mass(list, m) \in Nat /\ One - p \in Nat
    BY <1>1, SamplingAssumption
  <2>2. (One - p) * Mass(list, m) \in Nat
    BY <2>1
  <2>3. p = One => (One - p) * Mass(list, m) = 0
    BY <2>1, SamplingAssumption
  <2>. QED BY <2>2, <2>3 DEF Cutoff
<1>. QED BY <1>2, <1>3, <1>4, <1>5

\* The entries _top_k_nucleus keeps: the last with a sum past the cutoff, or the first.
LEMMA NumKeptIs ==
  ASSUME NEW list, NEW p, NEW m \in Nat, m >= 1, DOMAIN list = 1 .. m
  PROVE  /\ NumKept(list, p) \in 1 .. m
         /\ NumKept(list, p) > 1 => One * Ascending(list, NumKept(list, p)) > Cutoff(list, p)
         /\ \A i \in 1 .. m : One * Ascending(list, i) > Cutoff(list, p) => i <= NumKept(list, p)
<1>. DEFINE past(i) == One * Ascending(list, i) > Cutoff(list, p)
            ns == {1} \cup {i \in DOMAIN list : past(i)}
            n == NumKept(list, p)
<1>1. n = Max(ns)
  BY DEF NumKept
<1>. HIDE DEF n, past
<1>2. ns \in SUBSET (0 .. m) /\ ns # {} /\ ns \in SUBSET (1 .. m)
  OBVIOUS
<1>3. n \in ns /\ \A i \in ns : i <= n
  <2>. HIDE DEF ns
  <2>. QED BY <1>1, <1>2, MaxIs
<1>4. n \in 1 .. m /\ (n > 1 => past(n)) /\ \A i \in 1 .. m : past(i) => i <= n
  BY <1>2, <1>3
<1>. QED BY <1>4 DEF n, past

\* What it keeps are the entries of some weight.
LEMMA NucleusIsAtLeast ==
  ASSUME NEW row, NEW m, NEW list, Decides(row, m, list)
  PROVE  LET top == TopK(list, K(row))
             n   == NumKept(top, row.p)
         IN  /\ n \in 1 .. m /\ top[n].weight > 0 /\ top[n].weight >= list[K(row)].weight
             /\ \A i \in 1 .. m : (i <= n /\ top[i].weight > 0) <=> top[i].weight >= top[n].weight
<1>. DEFINE k == K(row)
            top == TopK(list, k)
            n == NumKept(top, row.p)
            p == row.p
<1>1. /\ row.weight \in [Token -> Nat] /\ p \in 1 .. One /\ m \in Nat /\ m \in 0 .. Vocab /\ m >= 1
      /\ k \in 1 .. m /\ list[k].weight > 0 /\ One \in Nat /\ One > 0
      /\ p < One => ~SplitTie(top, p)
  BY SamplingAssumption DEF Decides, IsRow, Uncertain
<1>2. IsTopList(row.weight, m, list)
  BY <1>1, TopIs DEF Decides
<1>. HIDE DEF k
<1>3. /\ DOMAIN top = 1 .. m /\ Len(top) = m
      /\ \A i \in 1 .. m : /\ top[i].weight = IF list[i].weight >= list[k].weight THEN list[i].weight ELSE 0
                           /\ top[i].weight \in Nat
      /\ \A i, j \in 1 .. m : i <= j => top[j].weight <= top[i].weight
  BY <1>1, <1>2, TopKIs
<1>4. /\ \A i \in 1 .. m : list[i].weight \in Nat
      /\ \A i, j \in 1 .. m : i <= j => list[j].weight <= list[i].weight
  BY <1>1, <1>2, TopListIs
<1>. HIDE DEF top
<1>5. /\ \A i \in 1 .. m : Ascending(top, i) = Mass(top, m) - Mass(top, i - 1)
      /\ \A i \in 1 .. m : Ascending(top, i) \in Nat /\ Ascending(top, i) >= top[i].weight
      /\ Cutoff(top, p) \in Nat /\ (p = One => Cutoff(top, p) = 0)
  BY <1>1, <1>3, SumsAreNumbers
<1>6. /\ n \in 1 .. m
      /\ n > 1 => One * Ascending(top, n) > Cutoff(top, p)
      /\ \A i \in 1 .. m : One * Ascending(top, i) > Cutoff(top, p) => i <= n
  BY <1>1, <1>3, NumKeptIs
<1>7. p < One => ~(n < m /\ top[n].weight = top[n + 1].weight)
  BY <1>1, <1>3 DEF SplitTie
<1>. HIDE DEF n, p
<1>8. top[n].weight > 0
  <2>1. CASE n = 1
    <3>1. 1 \in 1 .. m /\ 1 <= k
      BY <1>1
    <3>2. list[1].weight >= list[k].weight
      BY <1>1, <1>4, <3>1
    <3>. QED BY <1>1, <1>3, <1>4, <2>1, <3>1, <3>2
  <2>2. CASE n > 1
    <3>. SUFFICES ASSUME top[n].weight = 0 PROVE FALSE
      BY <1>3, <1>6
    <3>1. n - 1 \in 0 .. m /\ (n - 1) + 1 = n /\ m \in n - 1 .. m
      BY <1>1, <1>6, <2>2
    <3>2. \A i \in n .. m : top[i].weight = 0
      BY <1>1, <1>3, <1>6
    <3>. DEFINE before == n - 1
    <3>3. before \in 0 .. m /\ before + 1 = n /\ m \in before .. m
      BY <3>1
    <3>. HIDE DEF before
    <3>4. \A i \in before + 1 .. m : top[i].weight = 0
      BY <3>2, <3>3
    <3>5. \A i \in before .. m : Mass(top, i) = Mass(top, before)
      BY <1>1, <1>3, <3>3, <3>4, MassOfRest
    <3>6. Mass(top, m) = Mass(top, before)
      BY <3>3, <3>5
    <3>7. Mass(top, m) \in Nat
      <4>1. m \in 0 .. m
        BY <1>1
      <4>. QED BY <1>1, <1>3, <4>1, MassIs
    <3>8. Ascending(top, n) = 0
      BY <1>5, <1>6, <3>6, <3>7 DEF before
    <3>9. One * Ascending(top, n) = 0
      BY <1>1, <3>8
    <3>. QED BY <1>5, <1>6, <2>2, <3>9
  <2>. QED BY <1>1, <1>6, <2>1, <2>2
<1>9. top[n].weight >= list[k].weight
  BY <1>1, <1>3, <1>4, <1>6, <1>8
<1>10. ASSUME NEW i \in 1 .. m, top[i].weight >= top[n].weight PROVE i <= n
  <2>1. top[i].weight \in Nat /\ top[n].weight \in Nat
    BY <1>3, <1>6
  <2>2. CASE p = One
    <3>1. Ascending(top, i) \in Nat /\ Ascending(top, i) > 0
      BY <1>5, <1>8, <1>10, <2>1
    <3>2. One * Ascending(top, i) > 0
      BY <1>1, <3>1
    <3>. QED BY <1>5, <1>6, <2>2, <3>2
  <2>3. CASE p < One
    <3>. SUFFICES ASSUME i > n PROVE FALSE
      BY <1>1, <1>6
    <3>1. n < m /\ n + 1 \in 1 .. m /\ n + 1 <= i /\ n <= n + 1
      BY <1>1, <1>6
    <3>2. top[i].weight <= top[n + 1].weight /\ top[n + 1].weight <= top[n].weight
          /\ top[n + 1].weight \in Nat
      BY <1>3, <1>6, <3>1
    <3>3. top[n].weight # top[n + 1].weight
      BY <1>7, <2>3, <3>1
    <3>. QED BY <1>10, <2>1, <3>2, <3>3
  <2>. QED BY <1>1, <2>2, <2>3
<1>11. ASSUME NEW i \in 1 .. m, i <= n, top[i].weight > 0 PROVE top[i].weight >= top[n].weight
  BY <1>3, <1>6, <1>11
<1>12. \A i \in 1 .. m : (i <= n /\ top[i].weight > 0) <=> top[i].weight >= top[n].weight
  <2>. TAKE i \in 1 .. m
  <2>1. top[i].weight >= top[n].weight => top[i].weight > 0
    BY <1>3, <1>6, <1>8
  <2>. QED BY <1>10, <1>11, <2>1
<1>. QED BY <1>6, <1>8, <1>9, <1>12 DEF n, top, k, p

\* The numbers vLLM's mask compares are those of the search, and then zeroes.
LEMMA SameSums ==
  ASSUME NEW row, NEW m, NEW list, Decides(row, m, list), NEW sorted \in Sorted(row.weight)
  PROVE  LET k   == K(row)
             top == TopK(list, k)
             all == TopK(sorted, k)
         IN  /\ DOMAIN all = 1 .. Vocab /\ Len(all) = Vocab /\ Len(top) = m
             /\ Mass(all, Vocab) = Mass(top, m) /\ Mass(top, m) \in Nat
             /\ Cutoff(all, row.p) = Cutoff(top, row.p) /\ Cutoff(top, row.p) \in Nat
             /\ \A i \in 1 .. m : Ascending(all, i) = Ascending(top, i)
             /\ \A i \in m + 1 .. Vocab : Ascending(all, i) = 0
             /\ \A i \in 1 .. Vocab : Ascending(all, i) \in Nat
             /\ \A i, j \in 1 .. Vocab : i <= j => Ascending(all, j) <= Ascending(all, i)
             /\ m < Vocab => m >= 2 /\ Ascending(top, m) = 0
<1>. DEFINE k == K(row)
            top == TopK(list, k)
            all == TopK(sorted, k)
            p == row.p
<1>1. /\ row.weight \in [Token -> Nat] /\ p \in 1 .. One /\ m \in Nat /\ m \in 0 .. Vocab /\ m >= 1
      /\ m <= Vocab /\ k \in 1 .. m /\ CompleteAt(m, list, k) /\ Vocab \in Nat /\ Vocab \in 0 .. Vocab
  BY SamplingAssumption DEF Decides, IsRow
<1>2. IsTopList(row.weight, m, list) /\ IsTopList(row.weight, Vocab, sorted)
  BY <1>1, TopIs DEF Decides, Sorted
<1>. HIDE DEF k, p
<1>3. /\ k \in 1 .. Vocab
      /\ \A i \in 1 .. m : all[i].weight = top[i].weight
      /\ \A i \in m + 1 .. Vocab : all[i].weight = 0
      /\ m < Vocab => m >= 2 /\ top[m].weight = 0
  BY <1>1, <1>2, SameTops
<1>4. Len(top) = m /\ \A i \in 1 .. m : top[i].weight \in Nat
  <2>. HIDE DEF top, all
  <2>1. row.weight \in [Token -> Nat] /\ m \in Nat /\ IsTopList(row.weight, m, list) /\ k \in 1 .. m
    BY <1>1, <1>2
  <2>2. Len(TopK(list, k)) = m /\ \A i \in 1 .. m : TopK(list, k)[i].weight \in Nat
    BY <2>1, TopKIs, SMTT(30)
  <2>. QED BY <2>2 DEF top
<1>5. DOMAIN all = 1 .. Vocab /\ Len(all) = Vocab /\ \A i \in 1 .. Vocab : all[i].weight \in Nat
  BY <1>1, <1>2, <1>3, TopKIs
<1>. HIDE DEF top, all
<1>6. \A i \in 0 .. m : Mass(all, i) = Mass(top, i)
  BY <1>1, <1>3, <1>4, MassOfEqual
<1>7. \A i \in m .. Vocab : Mass(all, i) = Mass(all, m)
  BY <1>1, <1>3, <1>5, MassOfRest
<1>8. m \in 0 .. m /\ Vocab \in m .. Vocab /\ \A i \in 1 .. m : i - 1 \in 0 .. m
  BY <1>1
<1>9. Mass(all, Vocab) = Mass(top, m) /\ Mass(all, m) = Mass(top, m)
  BY <1>6, <1>7, <1>8
<1>10. Mass(top, m) \in Nat
  BY <1>1, <1>4, <1>8, MassIs
<1>11. Cutoff(all, p) = Cutoff(top, p)
  BY <1>4, <1>5, <1>9 DEF Cutoff
<1>12. /\ \A i \in 1 .. m : Ascending(top, i) = Mass(top, m) - Mass(top, i - 1)
       /\ Cutoff(top, p) \in Nat
  BY <1>1, <1>4, SumsAreNumbers
<1>13. /\ \A i \in 1 .. Vocab : Ascending(all, i) = Mass(all, Vocab) - Mass(all, i - 1)
       /\ \A i \in 1 .. Vocab : Ascending(all, i) \in Nat
       /\ \A i, j \in 1 .. Vocab : i <= j => Ascending(all, j) <= Ascending(all, i)
  BY <1>1, <1>5, SumsAreNumbers
<1>14. \A i \in 1 .. m : Ascending(all, i) = Ascending(top, i)
  <2>1. \A i \in 1 .. m : i \in 1 .. Vocab
    BY <1>1
  <2>. QED BY <1>6, <1>8, <1>9, <1>12, <1>13, <2>1
<1>15. ASSUME NEW i \in m + 1 .. Vocab PROVE Ascending(all, i) = 0
  <2>1. i \in 1 .. Vocab /\ i - 1 \in m .. Vocab
    BY <1>1
  <2>2. Mass(all, i - 1) = Mass(top, m)
    BY <1>7, <1>9, <2>1
  <2>. QED BY <1>9, <1>10, <1>13, <2>1, <2>2
<1>16. ASSUME m < Vocab PROVE m >= 2 /\ Ascending(top, m) = 0
  <2>1. m >= 2 /\ top[m].weight = 0 /\ m \in 1 .. m
    BY <1>1, <1>3, <1>16
  <2>2. Mass(top, m) = Mass(top, m - 1) + top[m].weight
    BY <1>1, <1>4, <2>1, MassIs
  <2>3. Mass(top, m - 1) \in Nat
    BY <1>1, <1>4, <1>8, <2>1, MassIs
  <2>4. Ascending(top, m) = Mass(top, m) - Mass(top, m - 1)
    BY <1>12, <2>1
  <2>. QED BY <1>10, <2>1, <2>2, <2>3, <2>4
<1>17. /\ DOMAIN all = 1 .. Vocab /\ Len(all) = Vocab /\ Len(top) = m
       /\ Mass(all, Vocab) = Mass(top, m) /\ Mass(top, m) \in Nat
       /\ Cutoff(all, p) = Cutoff(top, p) /\ Cutoff(top, p) \in Nat
       /\ \A i \in 1 .. m : Ascending(all, i) = Ascending(top, i)
       /\ \A i \in m + 1 .. Vocab : Ascending(all, i) = 0
       /\ \A i \in 1 .. Vocab : Ascending(all, i) \in Nat
       /\ \A i, j \in 1 .. Vocab : i <= j => Ascending(all, j) <= Ascending(all, i)
       /\ m < Vocab => m >= 2 /\ Ascending(top, m) = 0
  BY <1>4, <1>5, <1>9, <1>10, <1>11, <1>12, <1>13, <1>14, <1>15, <1>16
<1>. QED BY <1>17 DEF k, p, top, all

\* Away from the cutoff, vLLM's sum has the search's number as the only one, whatever its
\* rounding.
LEMMA MaskCutsAsSearch ==
  ASSUME NEW row, NEW m, NEW list, Decides(row, m, list), NEW sorted \in Sorted(row.weight), row.p < One
  PROVE  CutsOff(TopK(sorted, K(row)), row.p, Rounding) = {NumKept(TopK(list, K(row)), row.p)}
<1>. DEFINE top == TopK(list, K(row))
            all == TopK(sorted, K(row))
            p == row.p
            n == NumKept(top, p)
            c == Cutoff(top, p)
            rho == Rounding * Mass(top, m)
            a == [i \in 1 .. Vocab |-> One * Ascending(all, i)]
<1>1. /\ m \in Nat /\ m \in 1 .. Vocab /\ m >= 1 /\ Vocab \in Nat /\ Vocab >= 1 /\ One \in Nat /\ One > 0
      /\ Rounding \in Nat /\ ~NearCutoff(top, p) /\ row.weight \in [Token -> Nat]
      /\ K(row) \in 1 .. m
  BY SamplingAssumption DEF Decides, Uncertain, IsRow
<1>2. DOMAIN top = 1 .. m
  BY <1>1, TopIs, TopKIs DEF Decides
<1>3. /\ DOMAIN all = 1 .. Vocab /\ Len(all) = Vocab /\ Len(top) = m
      /\ Mass(all, Vocab) = Mass(top, m) /\ Mass(top, m) \in Nat
      /\ Cutoff(all, p) = c /\ c \in Nat
      /\ \A i \in 1 .. m : Ascending(all, i) = Ascending(top, i)
      /\ \A i \in m + 1 .. Vocab : Ascending(all, i) = 0
      /\ \A i \in 1 .. Vocab : Ascending(all, i) \in Nat
      /\ \A i, j \in 1 .. Vocab : i <= j => Ascending(all, j) <= Ascending(all, i)
      /\ m < Vocab => m >= 2 /\ Ascending(top, m) = 0
  BY SameSums
<1>4. /\ n \in 1 .. m
      /\ n > 1 => One * Ascending(top, n) > c
      /\ \A i \in 1 .. m : One * Ascending(top, i) > c => i <= n
  BY <1>1, <1>2, NumKeptIs
<1>5. \A i \in 2 .. m : ~(Distance(One * Ascending(top, i), c) <= rho)
  BY <1>1, <1>3 DEF NearCutoff
<1>. HIDE DEF c, n, top, all, p
<1>6. rho \in Nat
  BY <1>1, <1>3
<1>. HIDE DEF rho
<1>7. \A i \in 1 .. Vocab : a[i] = One * Ascending(all, i)
  OBVIOUS
<1>. HIDE DEF a
<1>8. \A i \in 1 .. Vocab : a[i] \in Nat
  BY <1>1, <1>3, <1>7
<1>9. \A i \in 1 .. m : a[i] = One * Ascending(top, i)
  BY <1>1, <1>3, <1>7
<1>10. \A i \in m + 1 .. Vocab : a[i] = 0
  <2>1. \A i \in m + 1 .. Vocab : i \in 1 .. Vocab
    BY <1>1
  <2>2. One * 0 = 0
    BY <1>1
  <2>. QED BY <1>3, <1>7, <2>1, <2>2
<1>11. ASSUME NEW i \in 1 .. Vocab, NEW j \in 1 .. Vocab, i <= j PROVE a[j] <= a[i]
  <2>. DEFINE x == Ascending(all, j)
              y == Ascending(all, i)
  <2>1. x \in Nat /\ y \in Nat /\ x <= y
    BY <1>3, <1>11
  <2>2. a[j] = One * x /\ a[i] = One * y
    BY <1>7
  <2>. HIDE DEF x, y
  <2>3. One * x <= One * y
    BY <1>1, <2>1
  <2>. QED BY <2>2, <2>3
<1>12. ASSUME NEW i \in 2 .. m PROVE a[i] < c - rho \/ a[i] > c + rho
  <2>1. i \in 1 .. m /\ i \in 1 .. Vocab
    BY <1>1
  <2>2. ~(Distance(a[i], c) <= rho)
    BY <1>5, <1>9, <2>1
  <2>. QED BY <1>3, <1>6, <1>8, <2>1, <2>2 DEF Distance
<1>13. ASSUME NEW i \in m + 1 .. Vocab PROVE a[i] < c - rho /\ a[i] <= c
  <2>1. m < Vocab /\ m \in 2 .. m /\ m \in 1 .. m /\ Ascending(top, m) = 0
    BY <1>1, <1>3
  <2>2. a[m] = 0
    BY <1>1, <1>9, <2>1
  <2>3. 0 < c - rho \/ 0 > c + rho
    BY <1>12, <2>1, <2>2
  <2>. QED BY <1>3, <1>6, <1>10, <2>3
<1>14. \A i \in 2 .. Vocab : a[i] < c - rho \/ a[i] > c + rho
  <2>1. \A i \in 2 .. Vocab : i \in 2 .. m \/ i \in m + 1 .. Vocab
    BY <1>1
  <2>. QED BY <1>12, <1>13, <2>1
<1>15. n \in 1 .. Vocab /\ (n > 1 => a[n] > c)
  BY <1>1, <1>4, <1>9
<1>16. ASSUME NEW i \in 1 .. Vocab, i > n PROVE a[i] <= c
  <2>1. CASE i \in 1 .. m
    <3>1. ~(i <= n)
      BY <1>4, <1>16
    <3>2. ~(a[i] > c)
      BY <1>4, <1>9, <2>1, <3>1
    <3>. QED BY <1>3, <1>8, <3>2
  <2>2. CASE i \in m + 1 .. Vocab
    BY <1>13, <2>2
  <2>. QED BY <1>1, <2>1, <2>2
<1>17. {x \in 1 .. Vocab : (x > 1 => a[x] > c - rho) /\ (x < Vocab => a[x + 1] <= c + rho)} = {n}
  <2>1. c \in Int /\ \A i \in 1 .. Vocab : a[i] \in Int
    BY <1>3, <1>8
  <2>2. \A i, j \in 1 .. Vocab : i <= j => a[j] <= a[i]
    BY <1>11
  <2>3. \A i \in 1 .. Vocab : i > n => a[i] <= c
    BY <1>16
  <2>4. Vocab \in Nat /\ Vocab >= 1 /\ n \in 1 .. Vocab /\ (n > 1 => a[n] > c)
    BY <1>1, <1>15
  <2>. QED BY <1>6, <1>14, <2>1, <2>2, <2>3, <2>4, OneCut, SMTT(30)
<1>18. CutsOff(all, p, Rounding) =
         {x \in 1 .. Vocab : (x > 1 => a[x] > c - rho) /\ (x < Vocab => a[x + 1] <= c + rho)}
  <2>1. CutsOff(all, p, Rounding) =
          {x \in 1 .. Vocab : /\ x > 1 => One * Ascending(all, x) > c - rho
                              /\ x < Vocab => One * Ascending(all, x + 1) <= c + rho}
    BY <1>3 DEF CutsOff, rho
  <2>2. \A x \in 1 .. Vocab : x < Vocab => x + 1 \in 1 .. Vocab
    BY <1>1
  <2>. QED BY <1>7, <2>1, <2>2
<1>. QED BY <1>17, <1>18 DEF all, top, p, n

(***************************************************************************)
(* A search that decides a row keeps the very tokens of vLLM's mask,       *)
(* however ties and rounding turn out there (_top_k_nucleus).              *)
(***************************************************************************)
LEMMA SearchIsMask ==
  ASSUME NEW row, NEW m, NEW list, Decides(row, m, list)
  PROVE  ReferenceMasks(row) = {TokensIn(TopK(list, K(row)), NumKept(TopK(list, K(row)), row.p))}
<1>. DEFINE k == K(row)
            top == TopK(list, k)
            n == NumKept(top, row.p)
            v == top[n].weight
            T == TokensIn(top, n)
            masks(sorted) == {TokensIn(TopK(sorted, k), x) :
                               x \in IF row.p = One THEN {Vocab} ELSE CutsOff(TopK(sorted, k), row.p, Rounding)}
<1>1. /\ row.weight \in [Token -> Nat] /\ row.p \in 1 .. One /\ m \in Nat /\ m \in 0 .. Vocab
      /\ m <= Vocab /\ m >= 1 /\ k \in 1 .. m /\ CompleteAt(m, list, k)
      /\ Vocab \in Nat /\ Vocab \in 0 .. Vocab /\ Vocab \in 1 .. Vocab
  BY SamplingAssumption DEF Decides, IsRow
<1>2. IsTopList(row.weight, m, list)
  BY <1>1, TopIs DEF Decides
<1>3. /\ n \in 1 .. m /\ v > 0 /\ v >= list[k].weight
      /\ \A i \in 1 .. m : (i <= n /\ top[i].weight > 0) <=> top[i].weight >= v
  BY NucleusIsAtLeast
<1>. HIDE DEF n, k
<1>4. \A i \in 1 .. m : top[i].weight \in Nat
  BY <1>1, <1>2, TopKIs
<1>5. v \in Nat
  BY <1>3, <1>4
<1>6. T = {t \in Token : row.weight[t] >= v}
  <2>. HIDE DEF v
  <2>. QED BY <1>1, <1>2, <1>3, <1>5, KeptIsAtLeast
<1>7. ASSUME NEW sorted \in Sorted(row.weight) PROVE masks(sorted) = {T}
  <2>. DEFINE all == TopK(sorted, k)
  <2>1. IsTopList(row.weight, Vocab, sorted)
    BY <1>1, TopIs DEF Sorted
  <2>2. /\ k \in 1 .. Vocab /\ CompleteAt(Vocab, sorted, k) /\ sorted[k].weight = list[k].weight
        /\ \A i \in 1 .. m : all[i].weight = top[i].weight
        /\ \A i \in m + 1 .. Vocab : all[i].weight = 0
    BY <1>1, <1>2, <2>1, SameTops
  <2>3. \A i \in 1 .. Vocab : i \in 1 .. m \/ i \in m + 1 .. Vocab
    BY <1>1
  <2>. HIDE DEF v
  <2>4. CASE row.p = One
    <3>1. \A i \in 1 .. Vocab : (i <= Vocab /\ all[i].weight > 0) <=> all[i].weight >= v
      <4>. TAKE i \in 1 .. Vocab
      <4>1. i <= Vocab
        BY <1>1
      <4>2. CASE i \in 1 .. m
        <5>1. all[i].weight = top[i].weight /\ top[i].weight \in Nat
          BY <1>4, <2>2, <4>2
        <5>2. (i <= n /\ top[i].weight > 0) <=> top[i].weight >= v
          BY <1>3, <4>2
        <5>3. top[i].weight > 0 => i <= n
          <6>. SUFFICES ASSUME top[i].weight > 0 PROVE i <= n
            OBVIOUS
          <6>1. One * Ascending(top, i) > Cutoff(top, row.p)
            <7>1. /\ Cutoff(top, row.p) = 0
                  /\ Ascending(top, i) \in Nat /\ Ascending(top, i) >= top[i].weight
              <8>1. Len(top) = m
                BY <1>1, <1>2, TopKIs
              <8>. HIDE DEF top
              <8>. QED BY <1>1, <1>4, <2>4, <4>2, <8>1, SumsAreNumbers
            <7>. DEFINE x == Ascending(top, i)
            <7>2. x \in Nat /\ x > 0
              BY <5>1, <7>1
            <7>. HIDE DEF x
            <7>3. One * x > 0
              BY <7>2, SamplingAssumption
            <7>. QED BY <7>1, <7>3 DEF x
          <6>2. DOMAIN top = 1 .. m
            BY <1>1, <1>2, TopKIs
          <6>. HIDE DEF top
          <6>. QED BY <1>1, <4>2, <6>1, <6>2, NumKeptIs DEF n
        <5>. QED BY <4>1, <5>1, <5>2, <5>3
      <4>3. CASE i \in m + 1 .. Vocab
        BY <1>3, <1>5, <2>2, <4>1, <4>3
      <4>. QED BY <2>3, <4>2, <4>3
    <3>2. TokensIn(all, Vocab) = {t \in Token : row.weight[t] >= v}
      BY <1>1, <1>3, <1>5, <2>1, <2>2, <3>1, KeptIsAtLeast
    <3>. QED BY <1>6, <2>4, <3>2
  <2>5. CASE row.p # One
    <3>1. row.p < One
      BY <1>1, <2>5, SamplingAssumption
    <3>2. CutsOff(all, row.p, Rounding) = {n}
      BY <3>1, MaskCutsAsSearch DEF n, k
    <3>3. \A i \in 1 .. Vocab : (i <= n /\ all[i].weight > 0) <=> all[i].weight >= v
      <4>. TAKE i \in 1 .. Vocab
      <4>1. CASE i \in 1 .. m
        BY <1>3, <2>2, <4>1 DEF v
      <4>2. CASE i \in m + 1 .. Vocab
        BY <1>3, <1>5, <2>2, <4>2
      <4>. QED BY <2>3, <4>1, <4>2
    <3>4. n \in 1 .. Vocab
      BY <1>1, <1>3
    <3>5. TokensIn(all, n) = {t \in Token : row.weight[t] >= v}
      BY <1>1, <1>3, <1>5, <2>1, <2>2, <3>3, <3>4, KeptIsAtLeast
    <3>. QED BY <1>6, <2>5, <3>2, <3>5
  <2>. QED BY <2>4, <2>5
<1>8. Sorted(row.weight) # {}
  BY <1>1, TopGoesOn DEF Sorted, Decides
<1>9. ReferenceMasks(row) = UNION {masks(sorted) : sorted \in Sorted(row.weight)}
  BY DEF ReferenceMasks, MasksWithin, k
<1>. HIDE DEF masks, T
<1>10. ReferenceMasks(row) = {T}
  BY <1>7, <1>8, <1>9
<1>. QED BY <1>10 DEF T, n, top, k

\* A mask is of tokens.
LEMMA MasksAreOfTokens ==
  ASSUME NEW row, IsRow(row), NEW T \in ReferenceMasks(row)
  PROVE  T \in SUBSET Token
<1>. DEFINE top(sorted) == TopK(sorted, K(row))
            ns(sorted) == IF row.p = One THEN {Vocab} ELSE CutsOff(top(sorted), row.p, Rounding)
<1>1. PICK sorted \in Top(row.weight, Vocab) : T \in {TokensIn(top(sorted), n) : n \in ns(sorted)}
  BY DEF ReferenceMasks, MasksWithin, Sorted
<1>2. PICK n \in ns(sorted) : T = TokensIn(top(sorted), n)
  BY <1>1
<1>3. /\ row.weight \in [Token -> Nat] /\ Vocab \in Nat /\ Vocab \in 0 .. Vocab /\ Vocab \in 1 .. Vocab
      /\ K(row) \in 1 .. Vocab
  BY SamplingAssumption DEF IsRow, K
<1>4. IsTopList(row.weight, Vocab, sorted)
  BY <1>3, TopIs
<1>5. /\ DOMAIN top(sorted) = 1 .. Vocab
      /\ \A i \in 1 .. Vocab : top(sorted)[i].token = sorted[i].token /\ sorted[i].token \in Token
  <2>1. DOMAIN top(sorted) = 1 .. Vocab /\ \A i \in 1 .. Vocab : top(sorted)[i].token = sorted[i].token
    BY <1>3, <1>4, TopKIs
  <2>2. \A i \in 1 .. Vocab : sorted[i].token \in Token
    BY <1>3, <1>4, TopListIs
  <2>. QED BY <2>1, <2>2
<1>. HIDE DEF top
<1>6. n \in 1 .. Vocab
  <2>1. CASE row.p = One
    BY <1>2, <1>3, <2>1
  <2>2. CASE row.p # One
    <3>1. n \in DOMAIN top(sorted)
      BY <1>2, <2>2 DEF CutsOff
    <3>. QED BY <1>5, <3>1
  <2>. QED BY <2>1, <2>2
<1>7. \A i \in 1 .. n : i \in 1 .. Vocab
  BY <1>3, <1>6
<1>. QED BY <1>2, <1>5, <1>7 DEF TokensIn

-----------------------------------------------------------------------------
(* A top-p alone.                                                          *)

\* What some tokens weigh, one for one.
Units(weight, T) == UNION {{t} \X (1 .. weight[t]) : t \in T}

FirstTokens(list, n) == {list[i].token : i \in 1 .. n}

\* A mass is the number of its tokens' units, in whichever order they are.
LEMMA MassCounts ==
  ASSUME NEW weight \in [Token -> Nat], NEW m, NEW list, Weighs(weight, m, list),
         \A i \in 1 .. m : list[i].weight = weight[list[i].token]
  PROVE  \A n \in 0 .. m : /\ IsFiniteSet(Units(weight, FirstTokens(list, n)))
                           /\ Cardinality(Units(weight, FirstTokens(list, n))) = Mass(list, n)
<1>. DEFINE counts(n) == /\ IsFiniteSet(Units(weight, FirstTokens(list, n)))
                         /\ Cardinality(Units(weight, FirstTokens(list, n))) = Mass(list, n)
            S == {n \in Nat : n <= m => counts(n)}
<1>1. /\ m \in Nat
      /\ \A i \in 1 .. m : list[i].token \in Token /\ list[i].weight \in Nat
      /\ \A i, j \in 1 .. m : list[i].token = list[j].token => i = j
  BY DEF Weighs
<1>2. /\ Mass(list, 0) = 0
      /\ \A n \in 0 .. m : Mass(list, n) \in Nat
      /\ \A n \in 1 .. m : Mass(list, n) = Mass(list, n - 1) + list[n].weight
  BY <1>1, MassIs
<1>3. 0 \in S
  <2>1. Units(weight, FirstTokens(list, 0)) = {}
    BY DEF Units, FirstTokens
  <2>. QED BY <1>2, <2>1, FS_EmptySet
<1>4. ASSUME NEW n \in Nat, n \in S PROVE n + 1 \in S
  <2>. SUFFICES ASSUME n + 1 <= m PROVE counts(n + 1)
    OBVIOUS
  <2>. DEFINE j == n + 1
              t == list[j].token
              w == list[j].weight
              old == Units(weight, FirstTokens(list, n))
              new == {t} \X (1 .. w)
  <2>1. j \in 1 .. m /\ j - 1 = n /\ n \in 0 .. m /\ n <= m /\ \A i \in 1 .. n : i \in 1 .. m /\ i # j
    BY <1>1
  <2>2. t \in Token /\ w \in Nat /\ w = weight[t]
    BY <1>1, <2>1
  <2>3. FirstTokens(list, j) = FirstTokens(list, n) \cup {t}
    <3>1. \A i \in 1 .. j : i \in 1 .. n \/ i = j
      BY <2>1
    <3>2. \A i \in 1 .. n : i \in 1 .. j
      BY <2>1
    <3>3. j \in 1 .. j
      BY <2>1
    <3>. QED BY <3>1, <3>2, <3>3 DEF FirstTokens
  <2>4. t \notin FirstTokens(list, n)
    BY <1>1, <2>1 DEF FirstTokens
  <2>5. counts(n) /\ Mass(list, j) = Mass(list, n) + w /\ Mass(list, n) \in Nat
    BY <1>2, <1>4, <2>1
  <2>. HIDE DEF t, w, j
  <2>6. Units(weight, FirstTokens(list, j)) = old \cup new
    BY <2>2, <2>3 DEF Units
  <2>7. old \cap new = {}
    BY <2>4 DEF Units
  <2>8. IsFiniteSet(new) /\ Cardinality(new) = w
    <3>1. IsFiniteSet({t}) /\ Cardinality({t}) = 1
      BY FS_Singleton
    <3>2. IsFiniteSet(1 .. w) /\ Cardinality(1 .. w) = IF 1 > w THEN 0 ELSE w - 1 + 1
      <4>1. 1 \in Int /\ w \in Int
        BY <2>2
      <4>. HIDE DEF old, new
      <4>. QED BY <4>1, FS_Interval
    <3>3. Cardinality(1 .. w) = w
      BY <2>2, <3>2
    <3>4. IsFiniteSet(new) /\ Cardinality(new) = Cardinality({t}) * Cardinality(1 .. w)
      BY <3>1, <3>2, FS_Product
    <3>. QED BY <2>2, <3>1, <3>3, <3>4
  <2>. HIDE DEF new, old
  <2>9. /\ IsFiniteSet(old) /\ Cardinality(old) = Mass(list, n)
    BY <2>5 DEF old
  <2>10. /\ IsFiniteSet(old \cup new)
         /\ Cardinality(old \cup new) = Cardinality(old) + Cardinality(new) - Cardinality(old \cap new)
    BY <2>8, <2>9, FS_Union
  <2>11. Cardinality(old \cap new) = 0
    BY <2>7, FS_EmptySet
  <2>12. Cardinality(old \cup new) = Mass(list, j)
    BY <2>2, <2>5, <2>8, <2>9, <2>10, <2>11
  <2>13. counts(j)
    BY <2>6, <2>10, <2>12
  <2>. QED BY <2>13 DEF j
<1>5. Nat \subseteq S
  <2>. HIDE DEF S
  <2>. QED BY <1>3, <1>4, NatSetInduction
<1>6. ASSUME NEW n \in 0 .. m PROVE counts(n)
  <2>1. n \in Nat /\ n <= m
    BY <1>1
  <2>. HIDE DEF counts
  <2>. QED BY <1>5, <2>1
<1>. QED BY <1>6

\* The vocabulary with its weights, or without those outside T.
LEMMA MaskedIs ==
  ASSUME NEW weight \in [Token -> Nat], NEW T \in SUBSET Token
  PROVE  /\ Weighs(weight, Vocab, Masked(weight, T))
         /\ \A t \in Token : /\ Masked(weight, T)[t].token = t
                             /\ Masked(weight, T)[t].weight = IF t \in T THEN weight[t] ELSE 0
<1>1. Vocab \in Nat /\ Token = 1 .. Vocab
  BY SamplingAssumption DEF Token
<1>2. ASSUME NEW t \in Token
      PROVE  /\ Masked(weight, T)[t].token = t
             /\ Masked(weight, T)[t].weight = IF t \in T THEN weight[t] ELSE 0
  <2>. DEFINE w == IF t \in T THEN weight[t] ELSE 0
  <2>1. Masked(weight, T)[t] = [token |-> t, weight |-> w]
    BY DEF Masked
  <2>. HIDE DEF w
  <2>2. Masked(weight, T)[t].token = t /\ Masked(weight, T)[t].weight = w
    BY <2>1
  <2>. QED BY <2>2 DEF w
<1>3. DOMAIN Masked(weight, T) = 1 .. Vocab
  BY <1>1 DEF Masked
<1>4. Weighs(weight, Vocab, Masked(weight, T))
  <2>1. ASSUME NEW i \in 1 .. Vocab
        PROVE  /\ Masked(weight, T)[i].token \in Token /\ Masked(weight, T)[i].weight \in Nat
               /\ Masked(weight, T)[i].weight \in {0, weight[Masked(weight, T)[i].token]}
    <3>1. i \in Token /\ weight[i] \in Nat
      BY <1>1
    <3>. QED BY <1>2, <3>1
  <2>2. \A i, j \in 1 .. Vocab : Masked(weight, T)[i].token = Masked(weight, T)[j].token => i = j
    BY <1>1, <1>2
  <2>. QED BY <1>1, <1>3, <2>1, <2>2 DEF Weighs
<1>. QED BY <1>2, <1>4

\* The mass of the vocabulary is that of its tokens sorted.
LEMMA TotalOfSorted ==
  ASSUME NEW weight \in [Token -> Nat], NEW sorted, IsTopList(weight, Vocab, sorted)
  PROVE  Mass(Masked(weight, Token), Vocab) = Mass(sorted, Vocab)
<1>. DEFINE vocabulary == Masked(weight, Token)
<1>1. Vocab \in Nat /\ Vocab \in 0 .. Vocab /\ Token = 1 .. Vocab
  BY SamplingAssumption DEF Token
<1>2. /\ Weighs(weight, Vocab, vocabulary)
      /\ \A i \in 1 .. Vocab : vocabulary[i].token = i /\ vocabulary[i].weight = weight[i]
  BY <1>1, MaskedIs
<1>3. /\ Weighs(weight, Vocab, sorted)
      /\ \A i \in 1 .. Vocab : sorted[i].token \in Token /\ sorted[i].weight = weight[sorted[i].token]
  BY <1>1, TopListIs
<1>. HIDE DEF vocabulary
<1>4. FirstTokens(vocabulary, Vocab) = Token
  BY <1>1, <1>2 DEF FirstTokens
<1>5. FirstTokens(sorted, Vocab) = Token
  <2>1. \A t \in Token : \E i \in 1 .. Vocab : sorted[i].token = t
    BY SortedHasAll
  <2>. QED BY <1>3, <2>1 DEF FirstTokens
<1>6. \A i \in 1 .. Vocab : vocabulary[i].weight = weight[vocabulary[i].token]
  BY <1>2
<1>7. Cardinality(Units(weight, Token)) = Mass(vocabulary, Vocab)
  BY <1>1, <1>2, <1>4, <1>6, MassCounts
<1>8. Cardinality(Units(weight, Token)) = Mass(sorted, Vocab)
  BY <1>1, <1>3, <1>5, MassCounts
<1>. QED BY <1>7, <1>8 DEF vocabulary

\* Each part of a sum is taken as often as the sum.
LEMMA Distributes ==
  ASSUME NEW o \in Nat, NEW a \in Nat, NEW b \in Nat
  PROVE  o * (a - b) = o * a - o * b /\ o * a \in Nat /\ o * b \in Nat
OBVIOUS

(***************************************************************************)
(* With a top-p alone, a search that covers it keeps the tokens of a mask  *)
(* of vLLM's, exactly summed, for some order of its ties                   *)
(* (_sample_top_p, _sample_candidates).                                    *)
(***************************************************************************)
LEMMA NucleusIsMask ==
  ASSUME NEW row, IsRow(row), ~HasK(row), row.p < One,
         NEW m \in 1 .. Vocab, NEW list \in Top(row.weight, m),
         NEW total, total = Mass(Masked(row.weight, Token), Vocab), Covers(list, total, row.p)
  PROVE  /\ Nucleus(list, total, row.p) \in 1 .. m
         /\ TokensIn(list, Nucleus(list, total, row.p)) \in ExactMasks(row)
<1>. DEFINE p == row.p
            n == Nucleus(list, total, p)
<1>1. /\ row.weight \in [Token -> Nat] /\ p \in 1 .. One /\ p \in Nat /\ m \in Nat /\ m \in 0 .. Vocab
      /\ m <= Vocab /\ m >= 1 /\ Vocab \in Nat /\ Vocab >= 1 /\ Vocab \in 0 .. Vocab /\ Vocab \in 1 .. Vocab
      /\ One \in Nat /\ One > 0 /\ K(row) = Vocab
  BY SamplingAssumption DEF IsRow, HasK, K
<1>2. IsTopList(row.weight, m, list)
  BY <1>1, TopIs
<1>3. Len(list) = m /\ DOMAIN list = 1 .. m /\ \A i \in 1 .. m : list[i].weight \in Nat
  BY <1>1, <1>2, TopListIs DEF IsTopList
<1>4. \A i \in 0 .. m : Mass(list, i) \in Nat
  BY <1>1, <1>3, MassIs
<1>5. PICK sorted \in Sorted(row.weight) : \A i \in 1 .. m : sorted[i] = list[i]
  BY <1>1, TopGoesOn DEF Sorted
<1>6. IsTopList(row.weight, Vocab, sorted)
  BY <1>1, TopIs DEF Sorted
<1>7. total = Mass(sorted, Vocab)
  BY <1>1, <1>6, TotalOfSorted
<1>. HIDE DEF p
<1>8. /\ n \in 1 .. m /\ One * Mass(list, n) >= p * total
      /\ \A i \in 1 .. m : One * Mass(list, i) >= p * total => n <= i
  <2>. DEFINE covering == {i \in DOMAIN list : One * Mass(list, i) >= p * total}
  <2>1. m \in covering
    BY <1>1, <1>3 DEF Covers, p
  <2>2. covering \in SUBSET Nat /\ covering # {}
    BY <1>3, <2>1
  <2>3. n = Min(covering)
    BY DEF Nucleus
  <2>. HIDE DEF n
  <2>4. n \in covering /\ \A i \in covering : n <= i
    <3>. HIDE DEF covering
    <3>. QED BY <2>2, <2>3, MinIs
  <2>. QED BY <1>3, <2>4
<1>. HIDE DEF n
<1>. DEFINE all == TopK(sorted, Vocab)
<1>9. /\ DOMAIN all = 1 .. Vocab /\ Len(all) = Vocab
      /\ \A i \in 1 .. Vocab : all[i].token = sorted[i].token /\ all[i].weight = sorted[i].weight
                               /\ sorted[i].weight \in Nat
  <2>1. /\ \A i \in 1 .. Vocab : sorted[i].weight \in Nat
        /\ \A i, j \in 1 .. Vocab : i <= j => sorted[j].weight <= sorted[i].weight
    BY <1>1, <1>6, TopListIs
  <2>2. \A i \in 1 .. Vocab : sorted[i].weight >= sorted[Vocab].weight
    BY <1>1, <2>1
  <2>3. /\ DOMAIN all = 1 .. Vocab /\ Len(all) = Vocab
        /\ \A i \in 1 .. Vocab :
             /\ all[i].token = sorted[i].token
             /\ all[i].weight = IF sorted[i].weight >= sorted[Vocab].weight THEN sorted[i].weight ELSE 0
    BY <1>1, <1>6, TopKIs
  <2>. HIDE DEF all
  <2>. QED BY <2>1, <2>2, <2>3
<1>. HIDE DEF all
<1>10. Mass(all, Vocab) = total /\ total \in Nat
  <2>1. \A i \in 0 .. Vocab : Mass(all, i) = Mass(sorted, i)
    <3>1. \A i \in 1 .. Vocab : sorted[i].weight \in Nat /\ all[i].weight = sorted[i].weight
      BY <1>9
    <3>2. Vocab \in Nat
      BY <1>1
    <3>. QED BY <3>1, <3>2, MassOfEqual, SMTT(30)
  <2>2. Mass(sorted, Vocab) \in Nat
    BY <1>1, <1>9, MassIs
  <2>. QED BY <1>1, <1>7, <2>1, <2>2
<1>11. \A i \in 0 .. m : Mass(all, i) = Mass(list, i)
  <2>1. \A i \in 1 .. m : list[i].weight \in Nat /\ all[i].weight = list[i].weight
    BY <1>1, <1>3, <1>5, <1>9
  <2>. QED BY <1>1, <2>1, MassOfEqual
<1>12. \A i \in 1 .. Vocab : i - 1 \in 0 .. m => Ascending(all, i) = total - Mass(list, i - 1)
  BY <1>9, <1>10, <1>11 DEF Ascending
<1>13. Cutoff(all, p) = One * total - p * total /\ One * total \in Nat /\ p * total \in Nat
  <2>1. Cutoff(all, p) = (One - p) * total
    BY <1>9, <1>10 DEF Cutoff
  <2>2. (One - p) * total = One * total - p * total
    <3>1. total * (One - p) = total * One - total * p
      BY <1>1, <1>10, Distributes
    <3>2. total * (One - p) = (One - p) * total /\ total * One = One * total /\ total * p = p * total
      BY <1>1, <1>10
    <3>. QED BY <3>1, <3>2
  <2>. QED BY <1>1, <1>10, <2>1, <2>2
<1>14. ASSUME n > 1 PROVE One * Ascending(all, n) > Cutoff(all, p) - 0 * Mass(all, Len(all))
  <2>. DEFINE x == Mass(list, n - 1)
  <2>1. n \in 1 .. Vocab /\ n - 1 \in 0 .. m /\ n - 1 \in 1 .. m /\ ~(n <= n - 1)
    BY <1>1, <1>8, <1>14
  <2>2. x \in Nat
    BY <1>4, <2>1
  <2>3. ~(One * x >= p * total)
    BY <1>8, <2>1
  <2>4. Ascending(all, n) = total - x
    BY <1>12, <2>1
  <2>. HIDE DEF x
  <2>5. One * (total - x) = One * total - One * x /\ One * x \in Nat
    BY <1>1, <1>10, <2>2, Distributes
  <2>6. 0 * Mass(all, Len(all)) = 0
    BY <1>9, <1>10
  <2>. QED BY <1>13, <2>3, <2>4, <2>5, <2>6
<1>15. ASSUME n < Vocab PROVE One * Ascending(all, n + 1) <= Cutoff(all, p) + 0 * Mass(all, Len(all))
  <2>. DEFINE x == Mass(list, n)
  <2>1. n + 1 \in 1 .. Vocab /\ (n + 1) - 1 = n /\ n \in 0 .. m
    BY <1>1, <1>8, <1>15
  <2>2. x \in Nat /\ One * x >= p * total
    BY <1>4, <1>8, <2>1
  <2>3. Ascending(all, n + 1) = total - x
    BY <1>12, <2>1
  <2>. HIDE DEF x
  <2>4. One * (total - x) = One * total - One * x /\ One * x \in Nat
    BY <1>1, <1>10, <2>2, Distributes
  <2>5. 0 * Mass(all, Len(all)) = 0
    BY <1>9, <1>10
  <2>. QED BY <1>13, <2>2, <2>3, <2>4, <2>5
<1>16. n \in CutsOff(all, p, 0)
  <2>1. n \in DOMAIN all
    BY <1>1, <1>8, <1>9
  <2>. QED BY <1>9, <1>14, <1>15, <2>1 DEF CutsOff
<1>17. TokensIn(all, n) = TokensIn(list, n)
  <2>1. \A i \in 1 .. n : all[i].token = list[i].token /\ all[i].weight = list[i].weight
    BY <1>1, <1>5, <1>8, <1>9
  <2>. QED BY <2>1 DEF TokensIn
<1>18. TokensIn(all, n) \in ExactMasks(row)
  <2>1. p # One
    BY <1>1 DEF p
  <2>. QED BY <1>1, <1>16, <2>1 DEF ExactMasks, MasksWithin, all, p
<1>. QED BY <1>8, <1>17, <1>18 DEF n, p

-----------------------------------------------------------------------------
(* The steps.                                                              *)

\* The sizes of the passes are numbers of tokens; without a top-k, of a part only.
LEMMA TopKSizesAreSizes ==
  ASSUME NEW batched, \A i \in DOMAIN batched : IsRow(batched[i]),
         NEW r \in DOMAIN batched, HasK(batched[r])
  PROVE  TopKSizes(batched) \in Seq(K(batched[r]) .. Vocab)
<1>. DEFINE ks == {K(batched[i]) : i \in {j \in DOMAIN batched : HasK(batched[j])}}
            initial == Min({2 * Max(ks) + 1, Vocab})
            second == Min({Max({2 * initial, Second}), Vocab})
<1>1. Vocab \in Nat /\ Vocab >= 1 /\ Second \in Nat /\ Second >= 1
  BY SamplingAssumption
<1>2. ks \in SUBSET (0 .. Vocab) /\ ks # {}
  <2>1. \A i \in DOMAIN batched : K(batched[i]) \in 0 .. Vocab
    BY <1>1 DEF K, IsRow
  <2>. QED BY <2>1
<1>3. Max(ks) \in Nat /\ K(batched[r]) \in 1 .. Vocab /\ K(batched[r]) <= Max(ks)
  <2>1. K(batched[r]) \in ks
    OBVIOUS
  <2>2. K(batched[r]) \in 1 .. Vocab
    BY <1>1 DEF K, IsRow
  <2>. HIDE DEF ks
  <2>3. Max(ks) \in ks /\ \A k \in ks : k <= Max(ks)
    BY <1>1, <1>2, MaxIs
  <2>4. Max(ks) \in 0 .. Vocab
    BY <1>2, <2>3
  <2>. QED BY <1>1, <2>1, <2>2, <2>3, <2>4
<1>. HIDE DEF ks
<1>4. initial \in {2 * Max(ks) + 1, Vocab} /\ initial <= Vocab
  <2>1. {2 * Max(ks) + 1, Vocab} \in SUBSET Nat /\ {2 * Max(ks) + 1, Vocab} # {}
    BY <1>1, <1>3
  <2>. QED BY <2>1, MinIs
<1>5. initial \in K(batched[r]) .. Vocab /\ initial \in Nat
  BY <1>1, <1>3, <1>4
<1>. HIDE DEF initial
<1>6. Max({2 * initial, Second}) \in Nat /\ initial <= Max({2 * initial, Second})
  <2>1. /\ 2 * initial + Second \in Nat
        /\ {2 * initial, Second} \in SUBSET (0 .. 2 * initial + Second)
    BY <1>1, <1>5
  <2>2. Max({2 * initial, Second}) \in {2 * initial, Second} /\ 2 * initial <= Max({2 * initial, Second})
    BY <2>1, MaxIs
  <2>. QED BY <1>1, <1>5, <2>2
<1>7. second \in {Max({2 * initial, Second}), Vocab} /\ second <= Vocab
  BY <1>1, <1>6, MinIs
<1>8. second \in K(batched[r]) .. Vocab
  BY <1>1, <1>3, <1>5, <1>6, <1>7
<1>. HIDE DEF second
<1>9. TopKSizes(batched) = IF second = initial THEN <<initial>> ELSE <<initial, second>>
  BY DEF TopKSizes, initial, second, ks
<1>. DEFINE sizes == K(batched[r]) .. Vocab
<1>10. initial \in sizes /\ second \in sizes
  BY <1>5, <1>8
<1>. HIDE DEF sizes
<1>11. <<initial>> \in Seq(sizes)
  BY <1>10
<1>12. <<initial, second>> \in Seq(sizes)
  BY <1>10
<1>13. TopKSizes(batched) \in Seq(sizes)
  BY <1>9, <1>11, <1>12
<1>. QED BY <1>13 DEF sizes

LEMMA TopPSizesAreOfParts == TopPSizes \in Seq(1 .. Vocab - 1)
<1>. DEFINE ns == {n \in 0 .. Len(Candidates) : \A i \in 1 .. n : Candidates[i] < Vocab}
<1>1. Len(Candidates) \in Nat /\ \A i \in 1 .. Len(Candidates) : Candidates[i] \in Nat \ {0}
  BY SamplingAssumption, LenProperties, ElementOfSeq
<1>2. ns \in SUBSET (0 .. Len(Candidates)) /\ 0 \in ns
  BY <1>1
<1>3. Max(ns) \in ns
  <2>. HIDE DEF ns
  <2>. QED BY <1>1, <1>2, MaxIs
<1>4. Max(ns) \in Int /\ \A i \in 1 .. Max(ns) : Candidates[i] \in 1 .. Vocab - 1
  <2>. DEFINE max == Max(ns)
  <2>1. max \in 0 .. Len(Candidates) /\ \A i \in 1 .. max : Candidates[i] < Vocab
    BY <1>3
  <2>. HIDE DEF max
  <2>2. \A i \in 1 .. max : Candidates[i] \in Nat \ {0}
    BY <1>1, <2>1
  <2>3. max \in Int /\ \A i \in 1 .. max : Candidates[i] \in 1 .. Vocab - 1
    BY <1>1, <2>1, <2>2, SamplingAssumption
  <2>. QED BY <2>3 DEF max
<1>5. TopPSizes = SubSeq(Candidates, 1, Max(ns))
  BY DEF TopPSizes
<1>. HIDE DEF ns
<1>. QED BY <1>4, <1>5, SubSeqProperties

\* The sizes a row's passes may have: of its k and more, of parts of the vocabulary, or none.
SearchSizes(row) ==
  IF HasK(row) THEN Seq(K(row) .. Vocab) ELSE IF HasP(row) THEN Seq(1 .. Vocab - 1) ELSE {<<>>}

\* A row's draw that is as vLLM's.
AsMask(row, d) ==
  /\ \A t \in Token : Cardinality({x \in 0 .. Mass(d.list, d.n) - 1 : d.list[Pick(d.list, d.n, x)].token = t})
                        = IF t \in TokensIn(d.list, d.n) THEN row.weight[t] ELSE 0
  /\ d.by = "search" => IF HasK(row) THEN ReferenceMasks(row) = {TokensIn(d.list, d.n)}
                        ELSE TokensIn(d.list, d.n) \in ExactMasks(row)

\* A draw that is right: with a top-k of 1, from the best tokens only.
RightDraw(row, d) ==
  d # Undrawn => AsMask(row, d) /\ (row.topK = 1 => AreBest(row, TokensIn(d.list, d.n)))

SamplingInv ==
  /\ \A r \in Row : IsRow(rows[r])
  /\ left = [r \in Row |-> left[r]] /\ draw = [r \in Row |-> draw[r]]
  /\ \A r \in Row : left[r] \in SearchSizes(rows[r]) /\ RightDraw(rows[r], draw[r])

LEMMA InitSampling == SamplingInit => SamplingInv
<1>. SUFFICES ASSUME SamplingInit PROVE SamplingInv
  OBVIOUS
<1>1. /\ rows \in Batches
      /\ left = [r \in Row |-> IF HasK(rows[r]) THEN TopKSizes(rows)
                               ELSE IF HasP(rows[r]) THEN TopPSizes ELSE <<>>]
      /\ draw = [r \in Row |-> Undrawn]
  BY DEF SamplingInit
<1>2. \A r \in Row : IsRow(rows[r])
  BY <1>1, SamplingAssumption DEF IsRow, Row
<1>3. ASSUME NEW r \in Row PROVE left[r] \in SearchSizes(rows[r]) /\ RightDraw(rows[r], draw[r])
  <2>1. draw[r] = Undrawn
    BY <1>1
  <2>2. CASE HasK(rows[r])
    <3>1. TopKSizes(rows) \in Seq(K(rows[r]) .. Vocab)
      BY <1>2, <2>2, TopKSizesAreSizes DEF Row
    <3>2. left[r] = TopKSizes(rows)
      BY <1>1, <2>2
    <3>. QED BY <2>1, <2>2, <3>1, <3>2 DEF SearchSizes, RightDraw
  <2>3. CASE ~HasK(rows[r])
    <3>1. left[r] = IF HasP(rows[r]) THEN TopPSizes ELSE <<>>
      BY <1>1, <2>3
    <3>. QED BY <2>1, <2>3, <3>1, TopPSizesAreOfParts DEF SearchSizes, RightDraw
  <2>. QED BY <2>2, <2>3
<1>4. left = [r \in Row |-> left[r]] /\ draw = [r \in Row |-> draw[r]]
  BY <1>1
<1>. QED BY <1>2, <1>3, <1>4 DEF SamplingInv

\* A row moves alone.
LEMMA RowMoves ==
  ASSUME SamplingInv, NEW r \in Row, UNCHANGED rows,
         NEW sizes, left' = [left EXCEPT ![r] = sizes], sizes \in SearchSizes(rows[r]),
         NEW drawn, draw' = [draw EXCEPT ![r] = drawn], RightDraw(rows[r], drawn)
  PROVE  SamplingInv'
<1>1. Row' = Row /\ \A s \in Row : rows'[s] = rows[s]
  BY DEF Row
<1>2. left = [s \in Row |-> left[s]] /\ draw = [s \in Row |-> draw[s]]
  BY DEF SamplingInv
<1>3. left' = [s \in Row |-> left'[s]] /\ draw' = [s \in Row |-> draw'[s]]
  BY <1>2
<1>4. ASSUME NEW s \in Row PROVE left'[s] \in SearchSizes(rows'[s]) /\ RightDraw(rows'[s], draw'[s])
  <2>1. CASE s = r
    <3>1. left'[r] = sizes /\ draw'[r] = drawn
      BY <1>2
    <3>. QED BY <1>1, <2>1, <3>1
  <2>2. CASE s # r
    <3>1. left'[s] = left[s] /\ draw'[s] = draw[s]
      BY <1>2, <2>2
    <3>. QED BY <1>1, <3>1 DEF SamplingInv
  <2>. QED BY <2>1, <2>2
<1>5. \A s \in Row : IsRow(rows'[s])
  BY <1>1 DEF SamplingInv
<1>. QED BY <1>1, <1>3, <1>4, <1>5 DEF SamplingInv

\* The next size, and those after it.
LEMMA NextSize ==
  ASSUME SamplingInv, NEW r \in Row, left[r] # <<>>
  PROVE  /\ Tail(left[r]) \in SearchSizes(rows[r])
         /\ HasK(rows[r]) => <<>> \in SearchSizes(rows[r]) /\ Head(left[r]) \in K(rows[r]) .. Vocab
         /\ ~HasK(rows[r]) => HasP(rows[r]) /\ Head(left[r]) \in 1 .. Vocab - 1
<1>1. left[r] \in SearchSizes(rows[r])
  BY DEF SamplingInv
<1>2. CASE HasK(rows[r])
  <2>1. left[r] \in Seq(K(rows[r]) .. Vocab)
    BY <1>1, <1>2 DEF SearchSizes
  <2>. QED BY <1>2, <2>1, HeadTailProperties, EmptySeq DEF SearchSizes
<1>3. CASE ~HasK(rows[r])
  <2>1. HasP(rows[r]) /\ left[r] \in Seq(1 .. Vocab - 1)
    BY <1>1, <1>3 DEF SearchSizes
  <2>. QED BY <1>3, <2>1, HeadTailProperties DEF SearchSizes
<1>. QED BY <1>2, <1>3

LEMMA SearchTopKSamples ==
  ASSUME SamplingInv, NEW r \in Row, NEW list \in Seen(r), SearchTopK(r, list)
  PROVE  SamplingInv'
<1>. DEFINE row == rows[r]
            k == K(row)
            m == Head(left[r])
            top == TopK(list, k)
            n == NumKept(top, row.p)
            ask == Threshold(list, k) = 0 \/ (Complete(list, k) /\ Uncertain(top, row.p))
            decided == Complete(list, k) /\ ~ask
            kept == Kept(top, n, "search")
<1>1. /\ left[r] # <<>> /\ HasK(row) /\ UNCHANGED rows
      /\ left' = [left EXCEPT ![r] = IF ask THEN <<>> ELSE Tail(@)]
      /\ draw' = IF decided THEN [draw EXCEPT ![r] = kept] ELSE draw
  BY DEF SearchTopK, Searches
<1>2. /\ IsRow(row) /\ draw = [s \in Row |-> draw[s]] /\ RightDraw(row, draw[r])
  BY DEF SamplingInv
<1>3. /\ Tail(left[r]) \in SearchSizes(row) /\ <<>> \in SearchSizes(row)
      /\ m \in k .. Vocab
  BY <1>1, NextSize
<1>4. /\ row.weight \in [Token -> Nat] /\ k \in 1 .. Vocab
  BY <1>2, SamplingAssumption DEF IsRow, K
<1>5. m \in 1 .. Vocab /\ m \in Nat /\ m \in 0 .. Vocab /\ k \in 1 .. m /\ list \in Top(row.weight, m)
  BY <1>3, <1>4, SamplingAssumption DEF Seen
<1>6. IsTopList(row.weight, m, list)
  BY <1>4, <1>5, TopIs
<1>7. Len(list) = m /\ list[k].weight \in Nat
  <2>1. Len(list) = m
    BY <1>6 DEF IsTopList
  <2>. QED BY <1>4, <1>5, <1>6, <2>1, TopListIs
<1>8. decided => Decides(row, m, list)
  <2>. SUFFICES ASSUME decided PROVE Decides(row, m, list)
    OBVIOUS
  <2>1. CompleteAt(m, list, k)
    BY <1>7 DEF Complete, CompleteAt, Threshold
  <2>2. list[k].weight > 0
    BY <1>7 DEF Threshold
  <2>. QED BY <1>2, <1>5, <2>1, <2>2 DEF Decides
<1>9. kept.list = top /\ kept.n = n
  BY DEF Kept
<1>. HIDE DEF row, kept, ask, top, n, k, m, decided
<1>10. decided => RightDraw(row, kept)
  <2>. SUFFICES ASSUME decided PROVE RightDraw(row, kept)
    OBVIOUS
  <2>1. Decides(row, m, list)
    BY <1>8
  <2>2. ReferenceMasks(row) = {TokensIn(top, n)}
    BY <2>1, SearchIsMask DEF top, n, k
  <2>3. n \in 1 .. m
    BY <2>1, NucleusIsAtLeast DEF top, n, k
  <2>4. Weighs(row.weight, m, top)
    BY <1>4, <1>5, <1>6, TopKIs DEF top
  <2>5. \A t \in Token : Cardinality({x \in 0 .. Mass(top, n) - 1 : top[Pick(top, n, x)].token = t})
                           = IF t \in TokensIn(top, n) THEN row.weight[t] ELSE 0
    BY <1>4, <2>3, <2>4, DrawnByWeight
  <2>6. AsMask(row, kept)
    BY <1>1, <1>9, <2>2, <2>5 DEF AsMask
  <2>7. ASSUME row.topK = 1 PROVE AreBest(row, TokensIn(kept.list, kept.n))
    <3>1. k = 1
      BY <2>7 DEF k, K
    <3>. QED BY <1>2, <1>5, <1>9, <2>3, <3>1, FirstKeepsBest DEF top
  <2>. QED BY <2>6, <2>7 DEF RightDraw
<1>. DEFINE sizes == IF ask THEN <<>> ELSE Tail(left[r])
            drawn == IF decided THEN kept ELSE draw[r]
<1>11. left' = [left EXCEPT ![r] = sizes] /\ sizes \in SearchSizes(row)
  BY <1>1, <1>3
<1>12. draw' = [draw EXCEPT ![r] = drawn]
  <2>1. draw = [draw EXCEPT ![r] = draw[r]]
    BY <1>2
  <2>. QED BY <1>1, <2>1
<1>13. RightDraw(row, drawn)
  BY <1>2, <1>10
<1>. HIDE DEF sizes, drawn
<1>. QED BY <1>1, <1>11, <1>12, <1>13, RowMoves DEF row

LEMMA SearchTopPSamples ==
  ASSUME SamplingInv, NEW r \in Row, NEW list \in Seen(r), SearchTopP(r, list)
  PROVE  SamplingInv'
<1>. DEFINE row == rows[r]
            m == Head(left[r])
            total == Mass(Masked(row.weight, Token), Vocab)
            n == Nucleus(list, total, row.p)
            kept == Kept(list, n, "search")
            covered == Covers(list, total, row.p)
            sizes == Tail(left[r])
            drawn == IF covered THEN kept ELSE draw[r]
<1>1. /\ left[r] # <<>> /\ ~HasK(row) /\ UNCHANGED rows
      /\ left' = [left EXCEPT ![r] = Tail(@)]
      /\ draw' = IF covered THEN [draw EXCEPT ![r] = kept] ELSE draw
  BY DEF SearchTopP, Searches
<1>2. /\ IsRow(row) /\ draw = [s \in Row |-> draw[s]] /\ RightDraw(row, draw[r])
  BY DEF SamplingInv
<1>3. sizes \in SearchSizes(row) /\ HasP(row) /\ m \in 1 .. Vocab - 1
  BY <1>1, NextSize
<1>4. /\ row.weight \in [Token -> Nat] /\ row.p < One /\ Vocab \in Nat /\ Vocab > 1
      /\ m \in 1 .. Vocab /\ m \in 0 .. Vocab /\ m \in Nat /\ list \in Top(row.weight, m)
  BY <1>2, <1>3, SamplingAssumption DEF IsRow, HasP, Seen
<1>5. row.topK # 1
  BY <1>1, <1>4 DEF HasK, K
<1>6. kept.list = list /\ kept.n = n
  BY DEF Kept
<1>. HIDE DEF row, m, total, n, kept, covered, sizes
<1>7. covered => RightDraw(row, kept)
  <2>. SUFFICES ASSUME covered PROVE RightDraw(row, kept)
    OBVIOUS
  <2>1. n \in 1 .. m /\ TokensIn(list, n) \in ExactMasks(row)
    BY <1>1, <1>2, <1>4, NucleusIsMask DEF n, total, covered
  <2>2. Weighs(row.weight, m, list)
    BY <1>4, TopIs, TopListIs
  <2>3. \A t \in Token : Cardinality({x \in 0 .. Mass(list, n) - 1 : list[Pick(list, n, x)].token = t})
                           = IF t \in TokensIn(list, n) THEN row.weight[t] ELSE 0
    BY <1>4, <2>1, <2>2, DrawnByWeight
  <2>4. AsMask(row, kept)
    BY <1>1, <1>6, <2>1, <2>3 DEF AsMask
  <2>. QED BY <1>5, <2>4 DEF RightDraw
<1>8. left' = [left EXCEPT ![r] = sizes]
  BY <1>1 DEF sizes
<1>9. draw' = [draw EXCEPT ![r] = drawn]
  <2>1. draw = [draw EXCEPT ![r] = draw[r]]
    BY <1>2
  <2>. QED BY <1>1, <2>1
<1>10. RightDraw(row, drawn)
  BY <1>2, <1>7
<1>. HIDE DEF drawn
<1>. QED BY <1>1, <1>3, <1>8, <1>9, <1>10, RowMoves DEF row

LEMMA DrawAllSamples ==
  ASSUME SamplingInv, NEW r \in Row, DrawAll(r)
  PROVE  SamplingInv'
<1>. DEFINE row == rows[r]
<1>1. PICK T \in IF HasK(row) \/ HasP(row) THEN ReferenceMasks(row) ELSE {Token} :
        draw' = [draw EXCEPT ![r] = Kept(Masked(row.weight, T), Vocab, "mask")]
  BY DEF DrawAll
<1>. DEFINE masked == Masked(row.weight, T)
            kept == Kept(masked, Vocab, "mask")
<1>2. UNCHANGED rows /\ UNCHANGED left
  BY DEF DrawAll
<1>3. IsRow(row) /\ left = [s \in Row |-> left[s]] /\ left[r] \in SearchSizes(row)
  BY DEF SamplingInv
<1>4. kept.list = masked /\ kept.n = Vocab /\ kept.by = "mask"
  BY DEF Kept
<1>. HIDE DEF row, kept
<1>5. row.weight \in [Token -> Nat] /\ Vocab \in 1 .. Vocab
  BY <1>3, SamplingAssumption DEF IsRow
<1>6. T \in SUBSET Token
  <2>1. CASE HasK(row) \/ HasP(row)
    BY <1>1, <1>3, <2>1, MasksAreOfTokens
  <2>2. CASE ~(HasK(row) \/ HasP(row))
    BY <1>1, <2>2
  <2>. QED BY <2>1, <2>2
<1>7. Weighs(row.weight, Vocab, masked)
  BY <1>5, <1>6, MaskedIs
<1>. HIDE DEF masked
<1>8. AsMask(row, kept)
  <2>1. \A t \in Token : Cardinality({x \in 0 .. Mass(masked, Vocab) - 1 : masked[Pick(masked, Vocab, x)].token = t})
                           = IF t \in TokensIn(masked, Vocab) THEN row.weight[t] ELSE 0
    BY <1>5, <1>7, DrawnByWeight
  <2>. QED BY <1>4, <2>1 DEF AsMask
<1>9. ASSUME row.topK = 1 PROVE AreBest(row, TokensIn(kept.list, kept.n))
  <2>1. AreBest(row, T)
    <3>1. CASE HasK(row) \/ HasP(row)
      BY <1>1, <1>3, <1>9, <3>1, MasksAreBest
    <3>2. CASE ~(HasK(row) \/ HasP(row))
      <4>1. Vocab = 1
        BY <1>9, <3>2, SamplingAssumption DEF HasK, K
      <4>2. T = Token
        BY <1>1, <3>2
      <4>3. Token # {}
        BY <4>1 DEF Token
      <4>. QED BY <1>3, <4>1, <4>2, <4>3, OneTokenIsBest
    <3>. QED BY <3>1, <3>2
  <2>. QED BY <1>3, <1>4, <2>1, MaskedKeepsBest DEF masked
<1>10. RightDraw(row, kept)
  BY <1>8, <1>9 DEF RightDraw
<1>11. left' = [left EXCEPT ![r] = left[r]]
  BY <1>2, <1>3
<1>12. draw' = [draw EXCEPT ![r] = kept]
  BY <1>1 DEF kept, masked
<1>. QED BY <1>2, <1>3, <1>10, <1>11, <1>12, RowMoves DEF row

LEMMA NextSamples == SamplingInv /\ [SamplingNext]_samplingVars => SamplingInv'
<1>. SUFFICES ASSUME SamplingInv, [SamplingNext]_samplingVars PROVE SamplingInv'
  OBVIOUS
<1>1. ASSUME NEW r \in Row, DrawAll(r) PROVE SamplingInv'
  BY <1>1, DrawAllSamples
<1>2. ASSUME NEW r \in Row, NEW list \in Seen(r), SearchTopK(r, list) PROVE SamplingInv'
  BY <1>2, SearchTopKSamples
<1>3. ASSUME NEW r \in Row, NEW list \in Seen(r), SearchTopP(r, list) PROVE SamplingInv'
  BY <1>3, SearchTopPSamples
<1>4. CASE UNCHANGED samplingVars
  BY <1>4 DEF SamplingInv, Row, samplingVars
<1>. QED BY <1>1, <1>2, <1>3, <1>4 DEF SamplingNext, AllDrawn

LEMMA SamplesAsReference == SamplingInv => DrawsAsReference
<1>. SUFFICES ASSUME SamplingInv, NEW r \in Row, draw[r] # Undrawn
              PROVE  LET list == draw[r].list
                         n    == draw[r].n
                         T    == KeptTokens(r)
                         picks(t) == {x \in 0 .. Mass(list, n) - 1 : list[Pick(list, n, x)].token = t}
                     IN  /\ \A t \in Token : Cardinality(picks(t)) = IF t \in T THEN rows[r].weight[t] ELSE 0
                         /\ draw[r].by = "search" =>
                              IF HasK(rows[r]) THEN ReferenceMasks(rows[r]) = {T}
                              ELSE \E mask \in ExactMasks(rows[r]) : WeightsOf(T, r) = WeightsOf(mask, r)
  BY DEF DrawsAsReference
<1>1. AsMask(rows[r], draw[r])
  BY DEF SamplingInv, RightDraw
<1>. QED BY <1>1 DEF AsMask, KeptTokens

LEMMA SamplesKeepTemperature == SamplingInv => RowsKeepTheirTemperature
<1>. SUFFICES ASSUME SamplingInv, NEW r \in Row, ~Pending(r)
              PROVE  IF rows[r].zero THEN Answers(r) = {Min(MostLikelyOf(r))}
                     ELSE IF rows[r].topK = 1 THEN Answers(r) # {} /\ Answers(r) \subseteq MostLikelyOf(r)
                     ELSE draw[r] # Undrawn /\ Answers(r) = KeptTokens(r)
  BY DEF RowsKeepTheirTemperature
<1>1. IsRow(rows[r]) /\ RightDraw(rows[r], draw[r])
  BY DEF SamplingInv
<1>2. CASE rows[r].zero
  <2>1. IsGreedy(rows[r])
    BY <1>2 DEF IsGreedy
  <2>2. ~AllRandom
    BY <2>1 DEF AllRandom
  <2>. QED BY <1>2, <2>2 DEF Answers
<1>3. CASE ~rows[r].zero /\ AllGreedy
  <2>1. rows[r].topK = 1
    BY <1>3 DEF AllGreedy, IsGreedy
  <2>2. Answers(r) = {Min(MostLikelyOf(r))}
    BY <1>3 DEF Answers
  <2>3. MostLikelyOf(r) # {} /\ MostLikelyOf(r) \in SUBSET Nat
    <3>1. MostLikelyOf(r) # {} /\ MostLikelyOf(r) \in SUBSET Token
      BY <1>1, BestIs DEF MostLikelyOf
    <3>. QED BY <3>1, SamplingAssumption DEF Token
  <2>4. Min(MostLikelyOf(r)) \in MostLikelyOf(r)
    BY <2>3, MinIs
  <2>. QED BY <1>3, <2>1, <2>2, <2>4
<1>4. CASE ~rows[r].zero /\ ~AllGreedy
  <2>1. draw[r] # Undrawn /\ Answers(r) = KeptTokens(r)
    BY <1>4 DEF Pending, Answers
  <2>2. rows[r].topK = 1 => Answers(r) # {} /\ Answers(r) \subseteq MostLikelyOf(r)
    BY <1>1, <2>1 DEF RightDraw, AreBest, MostLikelyOf, KeptTokens
  <2>. QED BY <1>4, <2>1, <2>2
<1>. QED BY <1>2, <1>3, <1>4

(***************************************************************************)
(* A row that is drawn gets each token as often as under vLLM's mask,      *)
(* although a search looks at few tokens and knows of the others only that *)
(* they are not heavier: with a top-k it keeps the very tokens of the mask *)
(* however ties and rounding turn out there, and with a top-p alone those  *)
(* of an exact mask (HostTopKTopPSampler.forward_host).                    *)
(***************************************************************************)
THEOREM AlwaysDrawsAsReference == SamplingSpec => []DrawsAsReference
BY InitSampling, NextSamples, SamplesAsReference, PTL DEF SamplingSpec

(***************************************************************************)
(* What a row gets is decided by its own parameters, whichever others are  *)
(* in its batch: the best token at temperature 0, one of the best with a   *)
(* top-k of 1, also where it is searched with a neighbour's passes or left *)
(* to vLLM's mask, and otherwise a drawn one (_make_sampling_metadata).    *)
(***************************************************************************)
THEOREM AlwaysRowsKeepTheirTemperature == SamplingSpec => []RowsKeepTheirTemperature
BY InitSampling, NextSamples, SamplesKeepTemperature, PTL DEF SamplingSpec
===============================================================================
