------------------------- MODULE Eagle3RunnerProofs --------------------------
(***************************************************************************)
(* For all prompts, limits, models and round sizes: the runner's account   *)
(* of every request is vLLM's between steps, an exhausted request is a     *)
(* finished one, and the text a request gets is one that a token at a time *)
(* could have given it.                                                    *)
(***************************************************************************)
EXTENDS Eagle3Runner, SequenceTheorems, TLAPS

Texts == Seq(Tok)

Ended(r, s) == Promise!Ended(r, s)

-----------------------------------------------------------------------------
(* The inductive invariant.                                                *)

\* The runner's entry of request r stands at text s: it has all of s, is exhausted
\* only where s ends the request, and its cache has been fed s but for the root.
StandsAt(e, r, s) ==
  /\ e.token_ids = s /\ e.exhausted \in BOOLEAN
  /\ e.exhausted => Ended(r, s)
  /\ ~e.exhausted /\ e.cache # None =>
       /\ e.cache.fed \in Texts /\ e.cache.root \in Tok
       /\ s = Append(e.cache.fed, e.cache.root)
       /\ Len(s) > Len(Prompt[r])

\* Tokens t could have followed text s of request r one at a time.
OneByOne(r, s, t) ==
  \A i \in 1 .. Len(t) :
    LET before == s \o SubSeq(t, 1, i - 1)
    IN  ~Ended(r, before) /\ Follows(before, t[i])

\* The text of r with the tokens that wait for vLLM to append them.
Pending(r) == IF r \in DOMAIN sampled THEN text[r] \o sampled[r] ELSE text[r]

TypeInv ==
  /\ text \in [Req -> Texts]
  /\ status \in [Req -> {"waiting", "running", "preempted", "finished"}]
  /\ planning \in BOOLEAN /\ finished \subseteq Req
  /\ DOMAIN rows \subseteq Req /\ DOMAIN requests \subseteq Req
  /\ DOMAIN sampled \subseteq DOMAIN rows
  /\ \A r \in DOMAIN sampled : sampled[r] \in Texts

\* A text does not end before its request does, and starts as the prompt.
TextInv ==
  \A r \in Req :
    /\ Len(text[r]) >= Len(Prompt[r])
    /\ status[r] # "finished" => ~Ended(r, text[r])
    /\ status[r] = "waiting" => text[r] = Prompt[r]

\* What the scheduler's output says of each request.
OutputInv ==
  /\ \A r \in finished : status[r] = "finished"
  /\ \A r \in DOMAIN rows :
       /\ status[r] = "running"
       /\ rows[r].was = "waiting" => text[r] = Prompt[r]
       /\ rows[r].was \notin {"waiting", "preempted"} => r \in DOMAIN requests

\* The runner knows every running request, once it has been told.
KnownInv ==
  /\ planning => DOMAIN sampled = {}
  /\ ~planning => DOMAIN rows \subseteq DOMAIN requests
  /\ \A r \in Req : status[r] = "running" => r \in DOMAIN requests \cup DOMAIN rows

RunnerInv ==
  /\ \A r \in DOMAIN requests :
       status[r] # "finished" => StandsAt(requests[r], r, Pending(r))
  /\ \A r \in DOMAIN sampled : OneByOne(r, text[r], sampled[r])

Inv == TypeInv /\ TextInv /\ OutputInv /\ KnownInv /\ RunnerInv

-----------------------------------------------------------------------------
(* Sequences.                                                              *)

LEMMA TailOfConcat ==
  ASSUME NEW S, NEW x \in S, NEW a \in Seq(S)
  PROVE  /\ <<x>> \o a \in Seq(S)
         /\ Tail(<<x>> \o a) = a
<1>1. /\ <<x>> \in Seq(S) /\ Len(<<x>>) = 1
  OBVIOUS
<1>2. /\ <<x>> \o a \in Seq(S) /\ Len(<<x>> \o a) = 1 + Len(a)
      /\ \A i \in 1 .. Len(a) : (<<x>> \o a)[i + 1] = a[i]
  BY <1>1, ConcatProperties
<1>3. /\ Tail(<<x>> \o a) \in Seq(S) /\ Len(Tail(<<x>> \o a)) = Len(a)
      /\ \A i \in 1 .. Len(a) : Tail(<<x>> \o a)[i] = (<<x>> \o a)[i + 1]
  BY <1>2, HeadTailProperties, LenProperties
<1> QED
  BY <1>2, <1>3, SeqEqual

\* The beginnings of a text with one token appended.
LEMMA SubSeqOfAppend ==
  ASSUME NEW S, NEW a \in Seq(S), NEW x \in S, NEW n \in 0 .. Len(a)
  PROVE  SubSeq(Append(a, x), 1, n) = SubSeq(a, 1, n)
<1>1. /\ Append(a, x) \in Seq(S) /\ Len(Append(a, x)) = Len(a) + 1
      /\ \A i \in 1 .. Len(a) : Append(a, x)[i] = a[i]
  BY AppendProperties
<1> QED
  BY <1>1

LEMMA Beginning ==
  ASSUME NEW S, NEW a \in Seq(S), NEW n \in 0 .. Len(a)
  PROVE  /\ SubSeq(a, 1, n) \in Seq(S)
         /\ Len(SubSeq(a, 1, n)) = n
         /\ \A i \in 1 .. n : SubSeq(a, 1, n)[i] = a[i]
  OBVIOUS

\* A text that goes on with a: its length, its last token, and the whole of a.
LEMMA Continued ==
  ASSUME NEW S, NEW s \in Seq(S), NEW a \in Seq(S)
  PROVE  /\ s \o a \in Seq(S)
         /\ Len(s \o a) = Len(s) + Len(a)
         /\ Len(a) > 0 => (s \o a)[Len(s \o a)] = a[Len(a)]
         /\ SubSeq(s \o a, 1, Len(s)) = s
         /\ SubSeq(a, 1, Len(a)) = a
         /\ s \o SubSeq(a, 1, 0) = s
         /\ s \o << >> = s
<1>1. /\ s \o a \in Seq(S) /\ Len(s \o a) = Len(s) + Len(a)
      /\ \A i \in 1 .. Len(s) : (s \o a)[i] = s[i]
      /\ \A i \in 1 .. Len(a) : (s \o a)[Len(s) + i] = a[i]
  BY ConcatProperties
<1>2. Len(a) > 0 => (s \o a)[Len(s \o a)] = a[Len(a)]
  BY <1>1, LenProperties
<1>3. SubSeq(s \o a, 1, Len(s)) = s
  BY <1>1, LenProperties, SeqEqual
<1>4. SubSeq(a, 1, Len(a)) = a
  BY SubSeqFull
<1>5. /\ SubSeq(a, 1, 0) = << >> /\ s \o << >> = s
  BY SubSeqEmpty, ConcatEmptySeq
<1> QED
  BY <1>1, <1>2, <1>3, <1>4, <1>5

LEMMA AppendConcat ==
  ASSUME NEW S, NEW s \in Seq(S), NEW a \in Seq(S), NEW x \in S
  PROVE  /\ Append(a, x) \in Seq(S)
         /\ Len(Append(a, x)) = Len(a) + 1
         /\ s \o Append(a, x) = Append(s \o a, x)
         /\ s \o << x >> = Append(s, x)
<1>1. /\ << x >> \in Seq(S) /\ Append(a, x) = a \o << x >>
      /\ Append(s, x) = s \o << x >>
  BY AppendIsConcat
<1>2. s \o a \in Seq(S)
  BY ConcatProperties
<1>3. Append(s \o a, x) = (s \o a) \o << x >>
  BY <1>2, AppendIsConcat
<1>4. s \o (a \o << x >>) = (s \o a) \o << x >>
  BY <1>1, ConcatAssociative
<1> QED
  BY <1>1, <1>3, <1>4, AppendProperties

-----------------------------------------------------------------------------
(* What a step of the model returns.                                       *)

\* The tokens request r may still get after text s; Remaining is this of its entry.
Left(r, s) ==
  Smaller(MaxTokens[r] - (Len(s) - Len(Prompt[r])), MaxModelLen - Len(s))

LEMMA Constants ==
  ASSUME NEW r \in Req
  PROVE  /\ Prompt[r] \in Texts /\ Len(Prompt[r]) \in Nat
         /\ MaxTokens[r] \in Nat \ {0} /\ MaxModelLen \in Nat \ {0}
         /\ None \notin Tok
<1> QED
  BY TextAssumption, LenProperties DEF Texts

LEMMA LeftIsInteger ==
  ASSUME NEW r \in Req, NEW s \in Texts
  PROVE  Left(r, s) \in Int
<1>1. Len(s) \in Nat
  BY LenProperties DEF Texts
<1> QED
  BY <1>1, Constants DEF Left, Smaller

\* Whether more tokens end a text that holds the prompt.
LEMMA EndedAfter ==
  ASSUME NEW r \in Req, NEW s \in Texts, NEW b \in Texts,
         Len(s) >= Len(Prompt[r]), Len(b) > 0
  PROVE  Ended(r, s \o b) <=> (b[Len(b)] \in Stop \/ Len(b) >= Left(r, s))
<1>1. /\ Len(s \o b) = Len(s) + Len(b)
      /\ (s \o b)[Len(s \o b)] = b[Len(b)]
  BY Continued DEF Texts
<1>2. Len(s) \in Nat /\ Len(b) \in Nat
  BY LenProperties DEF Texts
<1> DEFINE p == Len(Prompt[r])  m == MaxTokens[r]
<1>a. p \in Nat /\ m \in Nat /\ MaxModelLen \in Nat
  BY Constants
<1>b. Left(r, s) = IF m - (Len(s) - p) < MaxModelLen - Len(s)
                   THEN m - (Len(s) - p) ELSE MaxModelLen - Len(s)
  BY DEF Left, Smaller
<1>3. (Len(s \o b) >= MaxModelLen \/ Len(s \o b) - p >= m) <=> Len(b) >= Left(r, s)
  <2> HIDE DEF p, m
  <2> QED
    BY <1>1, <1>2, <1>a, <1>b
<1>4. Len(s \o b) > Len(Prompt[r])
  BY <1>1, <1>2, Constants
<1> QED
  BY <1>1, <1>3, <1>4 DEF Ended, Promise!Ended

\* A text that has not ended leaves room for a token, once it is more than the prompt.
LEMMA LeftIsPositive ==
  ASSUME NEW r \in Req, NEW s \in Texts, Len(s) > Len(Prompt[r]), ~Ended(r, s)
  PROVE  Left(r, s) >= 1
<1>1. Len(s) \in Nat
  BY LenProperties DEF Texts
<1> QED
  BY <1>1, Constants DEF Left, Smaller, Ended, Promise!Ended

LEMMA AcceptedTokens ==
  ASSUME NEW s \in Texts, NEW n \in Int, NEW a \in Accepted(s, n)
  PROVE  /\ a \in Texts /\ Len(a) \in Nat /\ Len(a) <= n
         /\ \A i \in 1 .. Len(a) :
              /\ Follows(s \o SubSeq(a, 1, i - 1), a[i])
              /\ i < Len(a) => a[i] \notin Stop
<1>1. PICK k \in 0 .. n : a \in [1 .. k -> Tok]
  BY DEF Accepted
<1>2. a \in Texts /\ Len(a) = k
  BY <1>1, IsASeq, LenProperties DEF Texts
<1> QED
  BY <1>1, <1>2 DEF Accepted

\* Accepted tokens within what is left of the text come one by one.
LEMMA AcceptedOneByOne ==
  ASSUME NEW r \in Req, NEW s \in Texts, NEW n \in Int, NEW a \in Accepted(s, n),
         Len(s) >= Len(Prompt[r]), ~Ended(r, s), n <= Left(r, s)
  PROVE  OneByOne(r, s, a)
<1>1. /\ a \in Texts /\ Len(a) \in Nat /\ Len(a) <= n
      /\ \A i \in 1 .. Len(a) :
           /\ Follows(s \o SubSeq(a, 1, i - 1), a[i])
           /\ i < Len(a) => a[i] \notin Stop
  BY AcceptedTokens
<1>2. SUFFICES ASSUME NEW i \in 1 .. Len(a)
               PROVE  ~Ended(r, s \o SubSeq(a, 1, i - 1))
  BY <1>1 DEF OneByOne
<1>3. CASE i = 1
  <2>1. s \o SubSeq(a, 1, 0) = s
    BY <1>1, Continued DEF Texts
  <2>2. i - 1 = 0
    BY <1>3
  <2> QED
    BY <2>1, <2>2
<1>4. CASE i > 1
  <2> DEFINE b == SubSeq(a, 1, i - 1)
  <2>1. i - 1 \in 0 .. Len(a) /\ i - 1 < Len(a) /\ i - 1 \in 1 .. i - 1
    BY <1>1, <1>4
  <2>2. b \in Texts /\ Len(b) = i - 1 /\ b[i - 1] = a[i - 1]
    BY <1>1, <2>1, Beginning DEF Texts
  <2>3. a[i - 1] \notin Stop
    BY <1>1, <1>4
  <2>4. ~(Len(b) >= Left(r, s))
    BY <1>1, <2>1, <2>2, LeftIsInteger
  <2> HIDE DEF b
  <2>5. Len(b) > 0
    BY <1>4, <2>2
  <2>6. ~Ended(r, s \o b)
    BY <2>2, <2>3, <2>4, <2>5, EndedAfter
  <2> QED
    BY <2>6 DEF b
<1> QED
  BY <1>3, <1>4

\* One more token, chosen after tokens that came one by one and did not end the text.
LEMMA OneMore ==
  ASSUME NEW r \in Req, NEW s \in Texts, NEW a \in Texts, NEW x \in Tok,
         OneByOne(r, s, a), ~Ended(r, s \o a), Follows(s \o a, x)
  PROVE  OneByOne(r, s, Append(a, x))
<1> DEFINE t == Append(a, x)
<1>1. /\ Len(t) = Len(a) + 1 /\ Len(a) \in Nat
      /\ \A i \in 1 .. Len(a) : t[i] = a[i]
      /\ t[Len(a) + 1] = x
  BY AppendProperties, LenProperties DEF Texts
<1>2. \A n \in 0 .. Len(a) : SubSeq(t, 1, n) = SubSeq(a, 1, n)
  BY SubSeqOfAppend DEF Texts
<1>3. SubSeq(a, 1, Len(a)) = a
  BY Continued DEF Texts
<1> HIDE DEF t
<1>4. SUFFICES ASSUME NEW i \in 1 .. Len(t)
               PROVE  /\ ~Ended(r, s \o SubSeq(t, 1, i - 1))
                      /\ Follows(s \o SubSeq(t, 1, i - 1), t[i])
  BY DEF OneByOne, t
<1>5. CASE i \in 1 .. Len(a)
  <2>1. i - 1 \in 0 .. Len(a)
    BY <1>1, <1>5
  <2>2. SubSeq(t, 1, i - 1) = SubSeq(a, 1, i - 1) /\ t[i] = a[i]
    BY <1>1, <1>2, <1>5, <2>1
  <2> QED
    BY <1>5, <2>2 DEF OneByOne
<1>6. CASE i = Len(a) + 1
  <2>1. i - 1 = Len(a) /\ Len(a) \in 0 .. Len(a)
    BY <1>1, <1>6
  <2>2. SubSeq(t, 1, i - 1) = a /\ t[i] = x
    BY <1>1, <1>2, <1>3, <1>6, <2>1
  <2> QED
    BY <2>2
<1> QED
  BY <1>1, <1>5, <1>6

-----------------------------------------------------------------------------
(* What a row returns, for an entry that stands at an unended text s.      *)

\* The entry the runner keeps after outcome o.
After(s, o) ==
  [token_ids |-> s \o o.tokens, cache |-> o.cache, exhausted |-> o.exhausted]

\* What every outcome must be.
Sound(r, s, o) ==
  /\ o.tokens \in Texts /\ OneByOne(r, s, o.tokens)
  /\ StandsAt(After(s, o), r, s \o o.tokens)

LEMMA PrefillIsSound ==
  ASSUME NEW r \in Req, NEW s \in Texts, requests[r].token_ids = s,
         ~Ended(r, s), Len(s) >= Len(Prompt[r]), NEW o \in PrefillOutcomes(r)
  PROVE  Sound(r, s, o)
<1>1. PICK x \in Choices(s) :
        o = [tokens |-> <<x>>, cache |-> [fed |-> s, root |-> x], exhausted |-> FALSE]
  BY DEF PrefillOutcomes
<1>2. x \in Tok /\ Follows(s, x)
  BY DEF Choices
<1>3. /\ <<>> \in Texts /\ s \o <<>> = s /\ Len(<<>>) = 0
      /\ Append(<<>>, x) = <<x>>
  BY <1>2, Continued, EmptySeq DEF Texts
<1>4. OneByOne(r, s, <<>>)
  BY <1>3 DEF OneByOne
<1>5. OneByOne(r, s, <<x>>)
  <2>1. OneByOne(r, s, Append(<<>>, x))
    BY <1>2, <1>3, <1>4, OneMore
  <2> QED
    BY <1>3, <2>1
<1>6. /\ <<x>> \in Texts /\ s \o <<x>> = Append(s, x)
      /\ Len(Append(s, x)) = Len(s) + 1
  BY <1>2, <1>3, AppendConcat, AppendProperties DEF Texts
<1>7. Len(s) \in Nat /\ Len(Prompt[r]) \in Nat
  BY Constants, LenProperties DEF Texts
<1>8. StandsAt(After(s, o), r, s \o <<x>>)
  BY <1>1, <1>2, <1>6, <1>7 DEF StandsAt, After
<1> QED
  BY <1>1, <1>5, <1>6, <1>8 DEF Sound

LEMMA RoundIsSound ==
  ASSUME NEW r \in Req, NEW s \in Texts, StandsAt(requests[r], r, s),
         ~Ended(r, s), requests[r].cache # None, ~requests[r].exhausted,
         NEW o \in RoundOutcomes(r)
  PROVE  Sound(r, s, o)
<1> DEFINE old == requests[r].cache
           left == Left(r, s)
           n == Smaller(Accepts, RoundCap(r) - 1)
<1>1. /\ old.fed \in Texts /\ old.root \in Tok /\ s = Append(old.fed, old.root)
      /\ Len(s) > Len(Prompt[r]) /\ requests[r].token_ids = s
  BY DEF StandsAt
<1>2. /\ Len(s) \in Nat /\ Len(Prompt[r]) \in Nat
      /\ Len(s) >= Len(Prompt[r])
  BY <1>1, Constants, LenProperties DEF Texts
<1>3. RoundCap(r) = left + 1 /\ left \in Int /\ left >= 1
  BY <1>1, LeftIsInteger, LeftIsPositive DEF RoundCap, Remaining, Left
<1>4. n \in Int /\ n <= left
  BY <1>3, RunnerAssumption DEF Smaller
<1>5. PICK step \in DecodeSteps(r, RoundCap(r)) :
        o = [tokens |-> Settled(step), cache |-> step.cache,
             exhausted |-> step.next_token = None]
  BY DEF RoundOutcomes
<1> DEFINE ends(a) == Len(a) + 1 >= RoundCap(r) \/ (a # <<>> /\ a[Len(a)] \in Stop)
<1>6. PICK a \in Accepted(s, n), next \in Tok \cup {None} :
        /\ IF ends(a) THEN next = None ELSE next \in Choices(s \o a)
        /\ step = [tokens |-> <<old.root>> \o a, next_token |-> next,
                   cache |-> [fed |-> s \o a, root |-> next]]
  <2> DEFINE c == Append(old.fed, old.root)
             nexts(a) == IF ends(a) THEN {None} ELSE Choices(c \o a)
             steps(a) == {[tokens |-> <<old.root>> \o a, next_token |-> next,
                           cache |-> [fed |-> c \o a, root |-> next]] : next \in nexts(a)}
  <2>1. DecodeSteps(r, RoundCap(r)) = UNION {steps(a) : a \in Accepted(c, n)}
    BY Zenon DEF DecodeSteps
  <2>2. PICK a \in Accepted(c, n) : step \in steps(a)
    <3> HIDE DEF steps, n, c
    <3> QED
      BY <2>1
  <2>3. c = s
    BY <1>1
  <2> HIDE DEF c
  <2>4. PICK next \in nexts(a) :
          step = [tokens |-> <<old.root>> \o a, next_token |-> next,
                  cache |-> [fed |-> s \o a, root |-> next]]
    BY <2>2, <2>3
  <2>5. /\ next \in Tok \cup {None}
        /\ IF ends(a) THEN next = None ELSE next \in Choices(s \o a)
    BY <2>3, <2>4 DEF Choices
  <2> QED
    BY <2>2, <2>3, <2>4, <2>5
<1>7. /\ a \in Texts /\ Len(a) \in Nat /\ Len(a) <= n
      /\ \A i \in 1 .. Len(a) : i < Len(a) => a[i] \notin Stop
  BY <1>4, AcceptedTokens
<1>8. OneByOne(r, s, a)
  BY <1>2, <1>4, AcceptedOneByOne
<1>9. Tail(step.tokens) = a
  BY <1>1, <1>6, <1>7, TailOfConcat DEF Texts
<1>10. ends(a) <=> Len(a) >= left \/ (a # <<>> /\ a[Len(a)] \in Stop)
  BY <1>3, <1>7
<1>11. /\ a # <<>> <=> Len(a) > 0
       /\ s \o <<>> = s
  BY <1>7, EmptySeq, Continued DEF Texts
<1>12. None \notin Tok
  BY Constants
<1> HIDE DEF n, left, old, ends
<1>13. ends(a) <=> Ended(r, s \o a)
  <2>1. CASE a = <<>>
    <3>1. ~Ended(r, s \o a)
      BY <2>1, <1>11
    <3>2. ~ends(a)
      BY <2>1, <1>3, <1>7, <1>10, <1>11
    <3> QED
      BY <3>1, <3>2
  <2>2. CASE a # <<>>
    BY <2>2, <1>2, <1>7, <1>10, <1>11, EndedAfter DEF left
  <2> QED
    BY <2>1, <2>2
<1>14. CASE ends(a)
  <2>1. next = None /\ o.tokens = a /\ o.exhausted = TRUE
    BY <1>14, <1>5, <1>6, <1>9 DEF Settled
  <2>2. StandsAt(After(s, o), r, s \o a)
    BY <1>13, <1>14, <2>1 DEF StandsAt, After
  <2> QED
    BY <1>7, <1>8, <2>1, <2>2 DEF Sound
<1>15. CASE ~ends(a)
  <2>1. next \in Tok /\ Follows(s \o a, next) /\ next # None
    BY <1>15, <1>6, <1>12 DEF Choices
  <2>2. /\ o.tokens = Append(a, next) /\ o.exhausted = FALSE
        /\ o.cache = [fed |-> s \o a, root |-> next]
    BY <2>1, <1>5, <1>6, <1>9 DEF Settled
  <2>3. /\ Append(a, next) \in Texts
        /\ s \o Append(a, next) = Append(s \o a, next)
        /\ s \o a \in Texts /\ Len(s \o a) = Len(s) + Len(a)
    BY <1>7, <2>1, AppendConcat, Continued DEF Texts
  <2>4. Len(Append(s \o a, next)) = Len(s) + Len(a) + 1
    BY <2>1, <2>3, AppendProperties DEF Texts
  <2>5. OneByOne(r, s, Append(a, next))
    BY <1>7, <1>8, <1>13, <1>15, <2>1, OneMore
  <2>6. Len(s \o Append(a, next)) > Len(Prompt[r])
    BY <1>1, <1>2, <1>7, <2>3, <2>4
  <2>7. StandsAt(After(s, o), r, s \o Append(a, next))
    <3> DEFINE e == After(s, o)
    <3>1. /\ e.token_ids = s \o Append(a, next) /\ e.exhausted = FALSE
          /\ e.cache.fed = s \o a /\ e.cache.root = next
      BY <2>2 DEF After
    <3> HIDE DEF e
    <3>2. StandsAt(e, r, s \o Append(a, next))
      BY <2>1, <2>3, <2>6, <3>1 DEF StandsAt
    <3> QED
      BY <3>2 DEF e
  <2> QED
    BY <2>2, <2>3, <2>5, <2>7 DEF Sound
<1> QED
  BY <1>14, <1>15

LEMMA OutcomeIsSound ==
  ASSUME NEW r \in Req, NEW s \in Texts, StandsAt(requests[r], r, s),
         ~Ended(r, s), Len(s) >= Len(Prompt[r]), NEW o \in Outcomes(r)
  PROVE  Sound(r, s, o)
<1>1. ~requests[r].exhausted /\ requests[r].token_ids = s
  BY DEF StandsAt
<1>2. CASE requests[r].cache = None
  BY <1>1, <1>2, PrefillIsSound DEF Outcomes
<1>3. CASE requests[r].cache # None
  BY <1>1, <1>3, RoundIsSound DEF Outcomes
<1> QED
  BY <1>2, <1>3

\* A row that is not ready returns nothing.
LEMMA NothingIsSound ==
  ASSUME NEW r \in Req, NEW s \in Texts
  PROVE  <<>> \in Texts /\ OneByOne(r, s, <<>>) /\ s \o <<>> = s
<1>1. <<>> \in Texts /\ Len(<<>>) = 0 /\ s \o <<>> = s
  BY EmptySeq, Continued DEF Texts
<1> QED
  BY <1>1 DEF OneByOne

\* vLLM cuts nothing from tokens that came one by one.
LEMMA NothingIsCut ==
  ASSUME NEW r \in Req, text[r] \in Texts, NEW t \in Texts, OneByOne(r, text[r], t)
  PROVE  Appended(r, t) = text[r] \o t
<1> DEFINE texts == {text[r] \o SubSeq(t, 1, i) : i \in 0 .. Len(t)}
           ended == {u \in texts : Promise!Ended(r, u)}
           kept  == IF ended = {} THEN {text[r] \o t} ELSE ended
<1>1. Len(t) \in Nat /\ SubSeq(t, 1, Len(t)) = t
  BY LenProperties, Continued DEF Texts
<1>2. \A i \in 0 .. Len(t) : i < Len(t) => ~Promise!Ended(r, text[r] \o SubSeq(t, 1, i))
  <2>1. SUFFICES ASSUME NEW i \in 0 .. Len(t), i < Len(t)
                 PROVE  ~Promise!Ended(r, text[r] \o SubSeq(t, 1, i))
    OBVIOUS
  <2>2. i + 1 \in 1 .. Len(t) /\ (i + 1) - 1 = i
    BY <1>1, <2>1
  <2>3. ~Ended(r, text[r] \o SubSeq(t, 1, (i + 1) - 1))
    BY <2>2 DEF OneByOne
  <2> QED
    BY <2>2, <2>3 DEF Ended
<1>3. kept = {text[r] \o t}
  <2>1. \A u \in ended : u = text[r] \o t
    <3>1. SUFFICES ASSUME NEW i \in 0 .. Len(t),
                          Promise!Ended(r, text[r] \o SubSeq(t, 1, i))
                   PROVE  text[r] \o SubSeq(t, 1, i) = text[r] \o t
      OBVIOUS
    <3>2. ~(i < Len(t))
      BY <1>2, <3>1, Zenon
    <3>3. Len(t) \in Nat
      BY <1>1
    <3>4. i = Len(t)
      BY <3>2, <3>3
    <3> QED
      BY <1>1, <3>4
  <2> QED
    BY <2>1
<1>4. Appended(r, t) = CHOOSE u \in kept : \A v \in kept : Len(u) <= Len(v)
  BY DEF Appended
<1>5. text[r] \o t \in Texts
  BY Continued DEF Texts
<1>6. Len(text[r] \o t) <= Len(text[r] \o t)
  BY <1>5, LenProperties DEF Texts
<1> HIDE DEF kept
<1> QED
  BY <1>3, <1>4, <1>6

-----------------------------------------------------------------------------
(* Every step keeps the invariant.                                         *)

LEMMA InitEstablishes == Init => Inv
<1> SUFFICES ASSUME Init PROVE Inv
  OBVIOUS
<1>1. \A r \in Req : text[r] \in Texts /\ Len(text[r]) \in Nat /\ ~Ended(r, text[r])
  BY Constants DEF Init, Ended, Promise!Ended
<1>2. DOMAIN rows = {} /\ DOMAIN requests = {} /\ DOMAIN sampled = {}
  BY DEF Init, Empty
<1>3. TypeInv
  <2>1. text \in [Req -> Texts]
    BY TextAssumption DEF Init, Texts
  <2>2. status \in [Req -> {"waiting", "running", "preempted", "finished"}]
    BY DEF Init
  <2> QED
    BY <1>2, <2>1, <2>2 DEF Init, TypeInv
<1>4. TextInv
  BY <1>1 DEF Init, TextInv
<1>5. OutputInv /\ KnownInv /\ RunnerInv
  BY <1>2 DEF Init, OutputInv, KnownInv, RunnerInv
<1> QED
  BY <1>3, <1>4, <1>5 DEF Inv

LEMMA ScheduleKeeps ==
  ASSUME Inv, NEW r \in Req, NEW n \in Int, Schedule(r, n)
  PROVE  Inv'
<1> USE DEF Schedule, output, runner
<1>1. /\ DOMAIN rows' = DOMAIN rows \cup {r} /\ r \notin DOMAIN rows
      /\ rows'[r].was = status[r]
      /\ \A q \in DOMAIN rows : rows'[q] = rows[q]
  BY DEF With
<1>2. /\ status' = [status EXCEPT ![r] = "running"] /\ status[r] # "finished"
      /\ UNCHANGED <<text, finished, requests, planning, sampled>> /\ planning
  OBVIOUS
<1> USE DEF Inv
<1>3. /\ status' \in [Req -> {"waiting", "running", "preempted", "finished"}]
      /\ status'[r] = "running"
      /\ \A q \in Req : q # r => status'[q] = status[q]
      /\ \A q \in Req : status'[q] # "finished" <=> status[q] # "finished"
  BY <1>2 DEF TypeInv
<1>4. TypeInv'
  BY <1>1, <1>2, <1>3 DEF TypeInv
<1>5. TextInv'
  BY <1>2, <1>3 DEF TextInv, Ended, Promise!Ended
<1>6. KnownInv'
  BY <1>1, <1>2, <1>3 DEF KnownInv
<1>7. OutputInv'
  <2>1. \A q \in finished : q \in Req
    BY DEF TypeInv
  <2>2. \A q \in finished' : status'[q] = "finished"
    BY <1>2, <1>3, <2>1 DEF OutputInv
  <2>3. status[r] \in {"waiting", "running", "preempted", "finished"}
    BY DEF TypeInv
  <2>4. status[r] = "waiting" => text[r] = Prompt[r]
    BY DEF TextInv
  <2>5. status[r] = "running" => r \in DOMAIN requests
    BY <1>1 DEF KnownInv
  <2>6. ASSUME NEW q \in DOMAIN rows'
        PROVE  /\ status'[q] = "running"
               /\ rows'[q].was = "waiting" => text'[q] = Prompt[q]
               /\ rows'[q].was \notin {"waiting", "preempted"} => q \in DOMAIN requests'
    <3>1. CASE q = r
      BY <3>1, <1>1, <1>2, <1>3, <2>3, <2>4, <2>5
    <3>2. CASE q # r
      <4>1. q \in DOMAIN rows /\ q \in Req /\ rows'[q] = rows[q]
        BY <3>2, <1>1 DEF TypeInv
      <4> QED
        BY <3>2, <4>1, <1>2, <1>3 DEF OutputInv
    <3> QED
      BY <3>1, <3>2
  <2> QED
    BY <2>2, <2>6 DEF OutputInv
<1>8. RunnerInv'
  <2>1. \A q \in DOMAIN requests : q \in Req
    BY DEF TypeInv
  <2>2. \A q : Pending(q)' = Pending(q)
    BY <1>2 DEF Pending
  <2> QED
    BY <1>2, <1>3, <2>1, <2>2 DEF RunnerInv, StandsAt, OneByOne, Ended, Promise!Ended
<1> QED
  BY <1>4, <1>5, <1>6, <1>7, <1>8

LEMMA PreemptKeeps ==
  ASSUME Inv, NEW r \in Req, Preempt(r)
  PROVE  Inv'
<1> USE DEF Preempt, output, runner
<1>1. /\ status' = [status EXCEPT ![r] = "preempted"] /\ status[r] = "running"
      /\ UNCHANGED <<text, finished, rows, requests, planning, sampled>>
      /\ r \notin DOMAIN rows
  BY DEF Running
<1> USE DEF Inv
<1>2. /\ status' \in [Req -> {"waiting", "running", "preempted", "finished"}]
      /\ status'[r] = "preempted"
      /\ \A q \in Req : q # r => status'[q] = status[q]
      /\ \A q \in Req : status'[q] # "finished" <=> status[q] # "finished"
  BY <1>1 DEF TypeInv
<1>3. TypeInv'
  BY <1>1, <1>2 DEF TypeInv
<1>4. TextInv'
  BY <1>1, <1>2 DEF TextInv, Ended, Promise!Ended
<1>5. KnownInv'
  BY <1>1, <1>2 DEF KnownInv
<1>6. OutputInv'
  BY <1>1, <1>2 DEF OutputInv, TypeInv
<1>7. RunnerInv'
  <2>1. \A q \in DOMAIN requests : q \in Req
    BY DEF TypeInv
  <2>2. \A q : Pending(q)' = Pending(q)
    BY <1>1 DEF Pending
  <2> QED
    BY <1>1, <1>2, <2>1, <2>2 DEF RunnerInv, StandsAt, OneByOne, Ended, Promise!Ended
<1> QED
  BY <1>3, <1>4, <1>5, <1>6, <1>7

LEMMA AbortKeeps ==
  ASSUME Inv, NEW r \in Req, Abort(r)
  PROVE  Inv'
<1> USE DEF Abort, runner
<1>1. /\ status' = [status EXCEPT ![r] = "finished"] /\ finished' = finished \cup {r}
      /\ UNCHANGED <<text, rows, requests, planning, sampled>>
      /\ DOMAIN rows = {}
  OBVIOUS
<1> USE DEF Inv
<1>2. /\ status' \in [Req -> {"waiting", "running", "preempted", "finished"}]
      /\ status'[r] = "finished"
      /\ \A q \in Req : q # r => status'[q] = status[q]
      /\ \A q \in Req : status'[q] # "finished" => status[q] # "finished"
  BY <1>1 DEF TypeInv
<1>3. TypeInv'
  BY <1>1, <1>2 DEF TypeInv
<1>4. TextInv'
  BY <1>1, <1>2 DEF TextInv, Ended, Promise!Ended
<1>5. KnownInv'
  BY <1>1, <1>2 DEF KnownInv
<1>6. OutputInv'
  BY <1>1, <1>2 DEF OutputInv, TypeInv
<1>7. RunnerInv'
  <2>1. \A q \in DOMAIN requests : q \in Req
    BY DEF TypeInv
  <2>2. \A q : Pending(q)' = Pending(q)
    BY <1>1 DEF Pending
  <2> QED
    BY <1>1, <1>2, <2>1, <2>2 DEF RunnerInv, StandsAt, OneByOne, Ended, Promise!Ended
<1> QED
  BY <1>3, <1>4, <1>5, <1>6, <1>7

LEMMA BeginKeeps ==
  ASSUME Inv, Begin
  PROVE  Inv'
<1> USE DEF Begin, vllm, output
<1>1. /\ UNCHANGED <<text, status, finished, rows, sampled>>
      /\ planning' = FALSE
  OBVIOUS
<1> DEFINE known == (DOMAIN requests \ finished) \cup DOMAIN rows
<1>2. /\ DOMAIN requests' = known
      /\ \A r \in known : requests'[r] =
           IF r \notin DOMAIN rows THEN requests[r]
           ELSE CASE rows[r].was = "waiting"   -> NewRequest(r)
                  [] rows[r].was = "preempted" -> ResumedRequest(r)
                  [] OTHER                     -> requests[r]
  OBVIOUS
<1> USE DEF Inv
<1>3. /\ DOMAIN sampled = {} /\ known \subseteq Req
      /\ \A r : Pending(r) = text[r] /\ Pending(r)' = text[r]
  BY <1>1 DEF KnownInv, TypeInv, Pending
<1>4. TypeInv'
  BY <1>1, <1>2, <1>3 DEF TypeInv
<1>5. TextInv'
  BY <1>1 DEF TextInv, Ended, Promise!Ended
<1>6. OutputInv'
  <2>1. ASSUME NEW r \in DOMAIN rows
        PROVE  r \in DOMAIN requests'
    BY <1>2
  <2> QED
    BY <1>1, <2>1 DEF OutputInv
<1>7. KnownInv'
  <2>1. ASSUME NEW r \in Req, status[r] = "running"
        PROVE  r \in known
    <3>1. r \notin finished
      BY <2>1 DEF OutputInv
    <3> QED
      BY <2>1, <3>1 DEF KnownInv
  <2> QED
    BY <1>1, <1>2, <2>1 DEF KnownInv
<1>8. RunnerInv'
  <2>1. ASSUME NEW r \in known, status[r] # "finished"
        PROVE  StandsAt(requests'[r], r, text[r])
    <3> DEFINE e == requests'[r]
    <3>1. CASE r \in DOMAIN rows /\ rows[r].was = "waiting"
      <4>1. e = NewRequest(r) /\ text[r] = Prompt[r]
        BY <3>1, <1>2 DEF OutputInv
      <4>2. /\ e.token_ids = text[r] /\ e.cache = None /\ e.exhausted = FALSE
        BY <4>1 DEF NewRequest
      <4> HIDE DEF e
      <4>3. StandsAt(e, r, text[r])
        BY <4>2 DEF StandsAt
      <4> QED
        BY <4>3 DEF e
    <3>2. CASE r \in DOMAIN rows /\ rows[r].was = "preempted"
      <4>1. e = ResumedRequest(r)
        BY <3>2, <1>2
      <4>2. /\ e.token_ids = text[r] /\ e.cache = None /\ e.exhausted = FALSE
        BY <4>1 DEF ResumedRequest
      <4> HIDE DEF e
      <4>3. StandsAt(e, r, text[r])
        BY <4>2 DEF StandsAt
      <4> QED
        BY <4>3 DEF e
    <3>3. CASE ~(r \in DOMAIN rows /\ rows[r].was \in {"waiting", "preempted"})
      <4>1. e = requests[r] /\ r \in DOMAIN requests
        BY <3>3, <1>2 DEF OutputInv
      <4> QED
        BY <4>1, <2>1, <1>3 DEF RunnerInv
    <3> QED
      BY <3>1, <3>2, <3>3
  <2>2. ASSUME NEW r \in DOMAIN requests', status'[r] # "finished"
        PROVE  StandsAt(requests'[r], r, Pending(r)')
    <3>1. r \in known /\ status[r] # "finished"
      BY <2>2, <1>1, <1>2
    <3>2. StandsAt(requests'[r], r, text[r])
      BY <2>1, <3>1
    <3> QED
      BY <3>2, <1>3
  <2> QED
    BY <2>2, <1>1, <1>3 DEF RunnerInv, StandsAt, OneByOne, Ended, Promise!Ended
<1> QED
  BY <1>4, <1>5, <1>6, <1>7, <1>8

LEMMA RunRowKeeps ==
  ASSUME Inv, NEW r \in Req, RunRow(r)
  PROVE  Inv'
<1> USE DEF RunRow, vllm, output
<1> DEFINE s == text[r]
<1>1. /\ UNCHANGED <<text, status, finished, rows, planning>> /\ ~planning
      /\ r \in DOMAIN rows /\ r \notin DOMAIN sampled
  OBVIOUS
<1> USE DEF Inv
<1>2. /\ s \in Texts /\ status[r] = "running" /\ r \in DOMAIN requests
      /\ ~Ended(r, s) /\ Len(s) >= Len(Prompt[r])
  BY <1>1 DEF TypeInv, OutputInv, KnownInv, TextInv
<1>3. StandsAt(requests[r], r, s)
  BY <1>1, <1>2 DEF RunnerInv, Pending
\* What the row returned, and the entry after it.
<1>4. PICK t \in Texts :
        /\ sampled' = With(sampled, r, t) /\ OneByOne(r, s, t)
        /\ DOMAIN requests' = DOMAIN requests
        /\ StandsAt(requests'[r], r, s \o t)
        /\ \A q \in DOMAIN requests : q # r => requests'[q] = requests[q]
  <2>1. CASE ~Ready(r)
    BY <2>1, <1>2, <1>3, NothingIsSound
  <2>2. CASE Ready(r)
    <3>1. PICK o \in Outcomes(r) :
            /\ sampled' = With(sampled, r, o.tokens)
            /\ requests' = [requests EXCEPT ![r] =
                 [token_ids |-> @.token_ids \o o.tokens, cache |-> o.cache,
                  exhausted |-> o.exhausted]]
      BY <2>2
    <3>2. Sound(r, s, o)
      BY <1>2, <1>3, OutcomeIsSound
    <3>3. requests'[r] = After(s, o)
      BY <1>2, <1>3, <3>1 DEF StandsAt, After
    <3> QED
      BY <3>1, <3>2, <3>3 DEF Sound
  <2> QED
    BY <2>1, <2>2
<1>5. /\ DOMAIN sampled' = DOMAIN sampled \cup {r} /\ sampled'[r] = t
      /\ \A q \in DOMAIN sampled : q # r /\ sampled'[q] = sampled[q]
  BY <1>1, <1>4 DEF With
<1>6. TypeInv'
  BY <1>1, <1>4, <1>5 DEF TypeInv
<1>7. TextInv'
  BY <1>1 DEF TextInv, Ended, Promise!Ended
<1>8. OutputInv' /\ KnownInv'
  BY <1>1, <1>4 DEF OutputInv, KnownInv
<1>9. RunnerInv'
  <2>1. Pending(r)' = s \o t
    BY <1>1, <1>5 DEF Pending
  <2>2. ASSUME NEW q \in DOMAIN requests, q # r PROVE Pending(q)' = Pending(q)
    BY <2>2, <1>1, <1>5 DEF Pending
  <2>3. ASSUME NEW q \in DOMAIN requests', status'[q] # "finished"
        PROVE  StandsAt(requests'[q], q, Pending(q)')
    <3>1. CASE q = r
      BY <3>1, <2>1, <1>4
    <3>2. CASE q # r
      BY <3>2, <2>2, <2>3, <1>1, <1>4 DEF RunnerInv
    <3> QED
      BY <3>1, <3>2
  <2>4. ASSUME NEW q \in DOMAIN sampled' PROVE OneByOne(q, text[q], sampled'[q])
    <3>1. CASE q = r
      BY <3>1, <1>4, <1>5
    <3>2. CASE q # r
      BY <3>2, <1>5 DEF RunnerInv
    <3> QED
      BY <3>1, <3>2
  <2> QED
    BY <2>3, <2>4, <1>1 DEF RunnerInv, StandsAt, OneByOne, Ended, Promise!Ended
<1> QED
  BY <1>6, <1>7, <1>8, <1>9

\* What update_from_output does to the texts: nothing is cut.
LEMMA UpdatedText ==
  ASSUME Inv, UpdateFromOutput
  PROVE  /\ text' \in [Req -> Texts]
         /\ DOMAIN sampled = DOMAIN rows
         /\ \A q \in DOMAIN rows : /\ q \in Req /\ sampled[q] \in Texts
                                   /\ text'[q] = text[q] \o sampled[q]
         /\ \A q \in Req : q \notin DOMAIN rows => text'[q] = text[q]
<1> USE DEF UpdateFromOutput, Inv
<1>1. DOMAIN sampled = DOMAIN rows
  BY DEF TypeInv
<1>2. ASSUME NEW q \in DOMAIN rows
      PROVE  /\ q \in Req /\ sampled[q] \in Texts
             /\ text'[q] = text[q] \o sampled[q] /\ text'[q] \in Texts
  <2>1. q \in Req /\ sampled[q] \in Texts /\ text[q] \in Texts
    BY <1>1 DEF TypeInv
  <2>2. OneByOne(q, text[q], sampled[q])
    BY <1>1 DEF RunnerInv
  <2>3. Appended(q, sampled[q]) = text[q] \o sampled[q]
    BY <2>1, <2>2, NothingIsCut
  <2>4. text[q] \o sampled[q] \in Texts
    BY <2>1, Continued DEF Texts
  <2> QED
    BY <2>1, <2>3, <2>4
<1>3. ASSUME NEW q \in Req, q \notin DOMAIN rows
      PROVE  text'[q] = text[q] /\ text'[q] \in Texts
  BY <1>3 DEF TypeInv
<1>4. text' = [q \in Req |-> text'[q]]
  BY Zenon
<1> QED
  BY <1>1, <1>2, <1>3, <1>4

LEMMA UpdateKeeps ==
  ASSUME Inv, UpdateFromOutput
  PROVE  Inv'
<1>1. /\ text' \in [Req -> Texts] /\ DOMAIN sampled = DOMAIN rows
      /\ \A q \in DOMAIN rows : /\ q \in Req /\ sampled[q] \in Texts
                                /\ text'[q] = text[q] \o sampled[q]
      /\ \A q \in Req : q \notin DOMAIN rows => text'[q] = text[q]
  BY UpdatedText
<1>2. /\ finished' = {q \in DOMAIN rows : Ended(q, text'[q])}
      /\ status' = [q \in Req |-> IF q \in finished' THEN "finished" ELSE status[q]]
      /\ planning' = TRUE /\ DOMAIN rows' = {} /\ DOMAIN sampled' = {}
      /\ requests' = requests /\ ~planning
  BY DEF UpdateFromOutput, Ended, Empty
<1> USE DEF Inv
<1>3. /\ status' \in [Req -> {"waiting", "running", "preempted", "finished"}]
      /\ finished' \subseteq Req
  BY <1>1, <1>2 DEF TypeInv
<1>4. TypeInv'
  BY <1>1, <1>2, <1>3 DEF TypeInv
<1>5. TextInv'
  <2>1. ASSUME NEW q \in Req
        PROVE  /\ Len(text'[q]) >= Len(Prompt[q])
               /\ status'[q] # "finished" => ~Ended(q, text'[q])
               /\ status'[q] = "waiting" => text'[q] = Prompt[q]
    <3>1. CASE q \in DOMAIN rows
      <4>1. status[q] = "running"
        BY <3>1 DEF OutputInv
      <4>2. Len(text'[q]) >= Len(Prompt[q])
        <5>1. /\ text[q] \in Texts /\ sampled[q] \in Texts
              /\ Len(text[q]) >= Len(Prompt[q])
          BY <3>1, <1>1 DEF TypeInv, TextInv
        <5>2. /\ Len(text[q] \o sampled[q]) = Len(text[q]) + Len(sampled[q])
              /\ Len(text[q]) \in Nat /\ Len(sampled[q]) \in Nat
              /\ Len(Prompt[q]) \in Nat
          BY <5>1, Continued, Constants, LenProperties DEF Texts
        <5> QED
          BY <3>1, <5>1, <5>2, <1>1
      <4> QED
        BY <3>1, <4>1, <4>2, <1>2
    <3>2. CASE q \notin DOMAIN rows
      BY <3>2, <1>1, <1>2 DEF TextInv
    <3> QED
      BY <3>1, <3>2
  <2> QED
    BY <2>1 DEF TextInv, Ended, Promise!Ended
<1>6. OutputInv'
  BY <1>2, <1>3 DEF OutputInv
<1>7. KnownInv'
  <2>1. ASSUME NEW q \in Req, status'[q] = "running" PROVE q \in DOMAIN requests'
    BY <2>1, <1>2 DEF KnownInv
  <2> QED
    BY <1>2, <2>1 DEF KnownInv
<1>8. RunnerInv'
  <2>1. ASSUME NEW q \in DOMAIN requests', status'[q] # "finished"
        PROVE  StandsAt(requests'[q], q, Pending(q)')
    <3>1. q \in Req /\ q \in DOMAIN requests /\ status[q] # "finished"
      BY <2>1, <1>2 DEF TypeInv
    <3>2. Pending(q)' = Pending(q)
      BY <3>1, <1>1, <1>2 DEF Pending
    <3> QED
      BY <3>1, <3>2, <1>2 DEF RunnerInv
  <2> QED
    BY <2>1, <1>2 DEF RunnerInv, StandsAt, OneByOne, Ended, Promise!Ended
<1> QED
  BY <1>4, <1>5, <1>6, <1>7, <1>8

LEMMA StutterKeeps ==
  ASSUME Inv, UNCHANGED vars
  PROVE  Inv'
<1>1. UNCHANGED <<text, status, finished, rows, requests, planning, sampled>>
  BY DEF vars, vllm, output, runner
<1> QED
  BY <1>1 DEF Inv, TypeInv, TextInv, OutputInv, KnownInv, RunnerInv, StandsAt, OneByOne,
              Pending, Ended, Promise!Ended

LEMMA StepKeeps == Inv /\ [Next]_vars => Inv'
<1> SUFFICES ASSUME Inv, [Next]_vars PROVE Inv'
  OBVIOUS
<1>1. ASSUME NEW r \in Req, NEW n \in 1 .. Chunk, Schedule(r, n) PROVE Inv'
  <2>1. n \in Int
    OBVIOUS
  <2> QED
    BY <1>1, <2>1, ScheduleKeeps
<1>2. CASE Begin
  BY <1>2, BeginKeeps
<1>3. ASSUME NEW r \in Req, RunRow(r) PROVE Inv'
  BY <1>3, RunRowKeeps
<1>4. CASE UpdateFromOutput
  BY <1>4, UpdateKeeps
<1>5. ASSUME NEW r \in Req, Preempt(r) PROVE Inv'
  BY <1>5, PreemptKeeps
<1>6. ASSUME NEW r \in Req, Abort(r) PROVE Inv'
  BY <1>6, AbortKeeps
<1>7. CASE AllForgotten
  BY <1>7, StutterKeeps DEF AllForgotten
<1>8. CASE UNCHANGED vars
  BY <1>8, StutterKeeps
<1> QED
  BY <1>1, <1>2, <1>3, <1>4, <1>5, <1>6, <1>7, <1>8 DEF Next, Engine

LEMMA AlwaysInv == Spec => []Inv
<1> QED
  BY InitEstablishes, StepKeeps, PTL DEF Spec

-----------------------------------------------------------------------------
(* The theorems.                                                           *)

\* Between steps the runner has every unfinished request's text, and its cache has been
\* fed all of it but the root (execute and _run).
THEOREM AlwaysFollowsText == Spec => []RunnerFollowsText
<1>1. Inv => RunnerFollowsText
  <2> SUFFICES ASSUME Inv, planning, NEW r \in DOMAIN requests, status[r] # "finished"
               PROVE  /\ requests[r].token_ids = text[r]
                      /\ requests[r].cache # None =>
                           text[r] = Append(requests[r].cache.fed, requests[r].cache.root)
    BY DEF RunnerFollowsText
  <2>1. r \in Req /\ ~Ended(r, text[r]) /\ Pending(r) = text[r]
    BY DEF Inv, TypeInv, TextInv, KnownInv, Pending
  <2>2. StandsAt(requests[r], r, text[r])
    BY <2>1 DEF Inv, RunnerInv
  <2> QED
    BY <2>1, <2>2 DEF StandsAt
<1> QED
  BY <1>1, AlwaysInv, PTL

\* A request whose rounds are over is one that vLLM has finished, so that the error of
\* _run for an exhausted request is never raised.
THEOREM ExhaustedAlwaysFinished == Spec => []ExhaustedIsFinished
<1>1. Inv => ExhaustedIsFinished
  <2> SUFFICES ASSUME Inv, planning, NEW r \in DOMAIN requests, status[r] # "finished"
               PROVE  ~requests[r].exhausted
    BY DEF ExhaustedIsFinished
  <2>1. r \in Req /\ ~Ended(r, text[r]) /\ Pending(r) = text[r]
    BY DEF Inv, TypeInv, TextInv, KnownInv, Pending
  <2>2. StandsAt(requests[r], r, text[r])
    BY <2>1 DEF Inv, RunnerInv
  <2> QED
    BY <2>1, <2>2 DEF StandsAt
<1> QED
  BY <1>1, AlwaysInv, PTL

\* Tokens that come one by one are what the promise allows.
LEMMA OneByOneIsPromised ==
  ASSUME NEW r \in Req, NEW s \in Texts, NEW t \in Texts, OneByOne(r, s, t)
  PROVE  Promise!MayBecome(r, s, s \o t)
<1> DEFINE u == s \o t
<1>1. /\ Len(s) \in Nat /\ Len(t) \in Nat /\ Len(u) = Len(s) + Len(t)
      /\ SubSeq(u, 1, Len(s)) = s /\ u \in Texts
  BY Continued, LenProperties DEF Texts
<1>2. ASSUME NEW i \in Len(s) + 1 .. Len(u)
      PROVE  ~Promise!Ended(r, SubSeq(u, 1, i - 1)) /\ Follows(SubSeq(u, 1, i - 1), u[i])
  <2> DEFINE j == i - Len(s)
  <2>1. j \in 1 .. Len(t) /\ j - 1 \in 0 .. Len(t) /\ i - 1 = Len(s) + (j - 1)
    BY <1>1
  <2>2. u[i] = t[j]
    BY <1>1, <2>1, ConcatProperties DEF Texts
  <2>3. SubSeq(u, 1, i - 1) = s \o SubSeq(t, 1, j - 1)
    <3> DEFINE b == SubSeq(t, 1, j - 1)
    <3>1. /\ b \in Texts /\ Len(b) = j - 1
          /\ \A k \in 1 .. j - 1 : b[k] = t[k]
      BY <2>1, Beginning DEF Texts
    <3>2. /\ SubSeq(u, 1, i - 1) \in Texts /\ Len(SubSeq(u, 1, i - 1)) = i - 1
          /\ \A k \in 1 .. i - 1 : SubSeq(u, 1, i - 1)[k] = u[k]
      BY <1>1, <2>1, Beginning DEF Texts
    <3> HIDE DEF b, j
    <3>3. /\ s \o b \in Texts /\ Len(s \o b) = i - 1
          /\ \A k \in 1 .. i - 1 :
               (s \o b)[k] = IF k <= Len(s) THEN s[k] ELSE b[k - Len(s)]
      <4>1. /\ s \o b \in Texts /\ Len(s \o b) = Len(s) + Len(b)
            /\ \A k \in 1 .. Len(s) + Len(b) :
                 (s \o b)[k] = IF k <= Len(s) THEN s[k] ELSE b[k - Len(s)]
        BY <3>1, ConcatProperties DEF Texts
      <4>2. Len(s) + Len(b) = i - 1
        BY <2>1, <3>1
      <4> QED
        BY <4>1, <4>2
    <3>4. \A k \in 1 .. i - 1 : u[k] = IF k <= Len(s) THEN s[k] ELSE t[k - Len(s)]
      BY <1>1, <2>1, ConcatProperties DEF Texts
    <3>5. ASSUME NEW k \in 1 .. i - 1
          PROVE  SubSeq(u, 1, i - 1)[k] = (s \o b)[k]
      BY <1>1, <2>1, <3>1, <3>2, <3>3, <3>4
    <3>6. SubSeq(u, 1, i - 1) = s \o b
      BY <3>2, <3>3, <3>5, SeqEqual DEF Texts
    <3> QED
      BY <3>6 DEF b
  <2>4. ~Ended(r, s \o SubSeq(t, 1, j - 1)) /\ Follows(s \o SubSeq(t, 1, j - 1), t[j])
    BY <2>1 DEF OneByOne
  <2> QED
    BY <2>2, <2>3, <2>4 DEF Ended
<1>3. Len(s) <= Len(u)
  BY <1>1
<1> QED
  BY <1>1, <1>2, <1>3 DEF Promise!MayBecome

\* Rounds of many tokens, cut into chunks and preempted anywhere, give each request a
\* text that one token at a time could have given it.
THEOREM GivesWhatIsPromised == Spec => TextAsGenerated
<1>1. Init => Promise!Init
  BY DEF Init, Promise!Init
<1>2. Inv /\ [Next]_vars => [Promise!Next]_text
  <2> SUFFICES ASSUME Inv, [Next]_vars PROVE text' = text \/ Promise!Next
    OBVIOUS
  <2>1. CASE UpdateFromOutput
    <3>1. ASSUME NEW q \in Req PROVE Promise!MayBecome(q, text[q], text'[q])
      <4>1. text[q] \in Texts
        BY DEF Inv, TypeInv
      <4>2. CASE q \in DOMAIN rows
        <5>1. /\ q \in DOMAIN sampled /\ sampled[q] \in Texts
              /\ text'[q] = text[q] \o sampled[q]
          BY <2>1, <4>2, UpdatedText
        <5>2. OneByOne(q, text[q], sampled[q])
          BY <5>1 DEF Inv, RunnerInv
        <5> QED
          BY <4>1, <5>1, <5>2, OneByOneIsPromised
      <4>3. CASE q \notin DOMAIN rows
        <5>1. text'[q] = text[q] \o <<>>
          BY <2>1, <4>1, <4>3, UpdatedText, NothingIsSound
        <5>2. <<>> \in Texts /\ OneByOne(q, text[q], <<>>)
          BY <4>1, NothingIsSound
        <5> QED
          BY <4>1, <5>1, <5>2, OneByOneIsPromised
      <4> QED
        BY <4>2, <4>3
    <3> QED
      BY <3>1 DEF Promise!Next
  <2>2. CASE ~UpdateFromOutput
    BY <2>2 DEF Next, Engine, Schedule, Begin, RunRow, Preempt, Abort, AllForgotten,
                vars, vllm, output, runner
  <2> QED
    BY <2>1, <2>2
<1> QED
  BY <1>1, <1>2, AlwaysInv, PTL DEF Spec, TextAsGenerated, Promise!Spec
=============================================================================
