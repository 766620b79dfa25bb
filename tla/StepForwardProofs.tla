------------------------- MODULE StepForwardProofs ---------------------------
(***************************************************************************)
(* For all prompts, schedules, caps and artifacts: a row runs whole however *)
(* it is cut into infers, the positions below next_prompt_logprob_pos and   *)
(* only they have their logprobs, and the prompt's logprobs come with the   *)
(* first token and never change.                                            *)
(***************************************************************************)
EXTENDS StepForward, SequenceTheorems, TLAPS

-----------------------------------------------------------------------------
(* The inductive invariant.                                                *)

\* The rows of the step that are not collected yet.
Uncollected == {queue[i] : i \in 1 .. Len(queue)}

\* All the logprobs of a prompt.
Full(r) == [i \in 1 .. PromptLen[r] - 1 |-> Tokens(r, i)]

TypeInv ==
  /\ batch \in BOOLEAN
  /\ num \in [Req -> Nat] /\ out \in [Req -> Nat] /\ pos \in [Req -> Nat]
  /\ cache \in [Req -> Texts]
  /\ row \in [Req -> Row \cup {None}]
  /\ queue \in Seq(Req)
  /\ table \in [Req -> Seq(Texts \cup {None}) \cup {None}]
  /\ given \in [Req -> Seq(Texts \cup {None}) \cup {None}]
  /\ ready \in [Req -> Seq(Texts \cup {None}) \cup {None}]

\* A row waits once, and only a row of the step.
QueueInv ==
  /\ \A i, j \in 1 .. Len(queue) : queue[i] = queue[j] => i = j
  /\ Uncollected \subseteq InStep

\* How far a row has come, and what its cache holds.
RowInv(r) ==
  /\ cache[r] = Tokens(r, Len(cache[r]))
  /\ r \in InStep =>
       /\ row[r].start <= row[r].at /\ row[r].at <= row[r].end /\ row[r].start < row[r].end
       /\ Len(cache[r]) = row[r].at
       /\ row[r].at > row[r].start => row[r].last = Tokens(r, row[r].at)
       /\ r \notin Uncollected => row[r].at = row[r].end /\ num[r] = row[r].end

\* The kept logits are those of the row's tokens from start, and none is missing that
\* a position of the prompt needs, unless the row is bare.
KeptInv(r) ==
  r \in InStep =>
    /\ \A i \in 1 .. Len(row[r].kept) : row[r].kept[i] = Tokens(r, row[r].start + i)
    /\ row[r].micro \/ row[r].bare => r \in Wants
    /\ ~(row[r].micro /\ row[r].bare)
    /\ r \in Wants /\ ~row[r].bare =>
         /\ row[r].at < EndPos(r) - 1 \/ (~row[r].micro /\ Unfinished(r)) =>
              Len(row[r].kept) = row[r].at - row[r].start
         /\ Len(row[r].kept) >= Smaller(row[r].at, EndPos(r) - 1) - row[r].start

\* No position between what was given and where the row starts is skipped.
PositionInv(r) ==
  /\ pos[r] >= 1 /\ pos[r] <= PromptLen[r]
  /\ r \notin InStep /\ num[r] = 0 => pos[r] = 1
  /\ r \in Wants =>
       pos[r] >= Smaller((IF r \in Uncollected THEN row[r].start ELSE num[r]) + 1, PromptLen[r])

TableInv(r) ==
  IF table[r] = None THEN r \in Wants => pos[r] \in {1, PromptLen[r]}
  ELSE /\ r \in Wants
       /\ table[r] = [i \in 1 .. PromptLen[r] - 1 |-> IF i < pos[r] THEN Tokens(r, i) ELSE None]

\* Logprobs that are complete are in the table, on their way to vLLM or there.
AnswerInv(r) ==
  /\ ready[r] # None =>
       /\ r \in InStep \ Uncollected /\ r \in Wants /\ Samples(r) /\ ready[r] = Full(r)
  /\ r \in Wants /\ pos[r] = PromptLen[r] /\ PromptLen[r] > 1 =>
       table[r] # None \/ ready[r] # None \/ given[r] = Full(r)
  /\ r \in Wants /\ r \in InStep \ Uncollected /\ Samples(r) =>
       table[r] = None /\ pos[r] = PromptLen[r]

RequestInv(r) ==
  RowInv(r) /\ KeptInv(r) /\ PositionInv(r) /\ TableInv(r) /\ AnswerInv(r)

Inv == TypeInv /\ QueueInv /\ \A r \in Req : RequestInv(r)

-----------------------------------------------------------------------------
(* A request's tokens.                                                     *)

LEMMA Constants ==
  ASSUME NEW r \in Req
  PROVE  PromptLen[r] \in Nat \ {0}
<1> QED
  BY RequestAssumption

LEMMA TokensAre ==
  ASSUME NEW r \in Req, NEW n \in Nat
  PROVE  /\ Tokens(r, n) \in Texts
         /\ Len(Tokens(r, n)) = n
         /\ \A i \in 1 .. n : Tokens(r, n)[i] = Token(r, i)
<1>1. \A i \in 1 .. n : Token(r, i) \in Req \X Nat
  BY DEF Token
<1>2. Tokens(r, n) \in [1 .. n -> Req \X Nat]
  BY <1>1 DEF Tokens
<1> QED
  BY <1>2 DEF Tokens, Texts

LEMMA BeginningOfTokens ==
  ASSUME NEW r \in Req, NEW m \in Nat, NEW k \in 0 .. m
  PROVE  SubSeq(Tokens(r, m), 1, k) = Tokens(r, k)
<1>1. /\ Tokens(r, m) \in Texts /\ Len(Tokens(r, m)) = m
      /\ \A i \in 1 .. m : Tokens(r, m)[i] = Token(r, i)
  BY TokensAre
<1>2. /\ Tokens(r, k) \in Texts /\ Len(Tokens(r, k)) = k
      /\ \A i \in 1 .. k : Tokens(r, k)[i] = Token(r, i)
  BY TokensAre
<1>3. /\ SubSeq(Tokens(r, m), 1, k) \in Texts /\ Len(SubSeq(Tokens(r, m), 1, k)) = k
      /\ \A i \in 1 .. k : SubSeq(Tokens(r, m), 1, k)[i] = Tokens(r, m)[i]
  BY <1>1 DEF Texts
<1>4. ASSUME NEW i \in 1 .. k PROVE SubSeq(Tokens(r, m), 1, k)[i] = Tokens(r, k)[i]
  BY <1>1, <1>2, <1>3
<1> HIDE DEF Tokens
<1> QED
  BY <1>2, <1>3, <1>4, SeqEqual DEF Texts

\* The tokens go on where they stop.
LEMMA MoreTokens ==
  ASSUME NEW r \in Req, NEW k \in Nat, NEW n \in Nat
  PROVE  Tokens(r, k) \o [i \in 1 .. n |-> Token(r, k + i)] = Tokens(r, k + n)
<1> DEFINE new == [i \in 1 .. n |-> Token(r, k + i)]
<1>1. \A i \in 1 .. n : Token(r, k + i) \in Req \X Nat
  BY DEF Token
<1>2. new \in [1 .. n -> Req \X Nat]
  BY <1>1
<1>3. /\ new \in Texts /\ Len(new) = n
      /\ \A i \in 1 .. n : new[i] = Token(r, k + i)
  BY <1>2 DEF Texts
<1>4. /\ Tokens(r, k) \in Texts /\ Len(Tokens(r, k)) = k
      /\ \A i \in 1 .. k : Tokens(r, k)[i] = Token(r, i)
  BY TokensAre
<1>5. /\ Tokens(r, k + n) \in Texts /\ Len(Tokens(r, k + n)) = k + n
      /\ \A i \in 1 .. k + n : Tokens(r, k + n)[i] = Token(r, i)
  BY TokensAre
<1> HIDE DEF new
<1>6. /\ Tokens(r, k) \o new \in Texts /\ Len(Tokens(r, k) \o new) = k + n
      /\ \A i \in 1 .. k + n : (Tokens(r, k) \o new)[i] =
            IF i <= k THEN Tokens(r, k)[i] ELSE new[i - k]
  <2>1. /\ Tokens(r, k) \o new \in Texts
        /\ Len(Tokens(r, k) \o new) = Len(Tokens(r, k)) + Len(new)
        /\ \A i \in 1 .. Len(Tokens(r, k)) + Len(new) : (Tokens(r, k) \o new)[i] =
              IF i <= Len(Tokens(r, k)) THEN Tokens(r, k)[i] ELSE new[i - Len(Tokens(r, k))]
    BY <1>3, <1>4, ConcatProperties DEF Texts
  <2> QED
    BY <1>3, <1>4, <2>1
<1>7. ASSUME NEW i \in 1 .. k + n PROVE (Tokens(r, k) \o new)[i] = Tokens(r, k + n)[i]
  <2>1. CASE i <= k
    BY <2>1, <1>4, <1>5, <1>6
  <2>2. CASE i > k
    <3>1. i - k \in 1 .. n /\ k + (i - k) = i /\ ~(i <= k)
      BY <2>2
    <3>2. new[i - k] = Token(r, i)
      BY <3>1, <1>3
    <3>3. (Tokens(r, k) \o new)[i] = new[i - k]
      BY <3>1, <1>6
    <3>4. Tokens(r, k + n)[i] = Token(r, i)
      BY <1>5
    <3> QED
      BY <3>2, <3>3, <3>4
  <2>3. i <= k \/ i > k
    OBVIOUS
  <2> QED
    BY <2>1, <2>2, <2>3
<1>8. Tokens(r, k) \o new = Tokens(r, k + n)
  BY <1>5, <1>6, <1>7, SeqEqual DEF Texts
<1> QED
  BY <1>8 DEF new

\* The prompt replayed to k tokens, and behind it what the slot held: all m tokens.
LEMMA PrefixRestored ==
  ASSUME NEW r \in Req, NEW m \in Nat, NEW k \in 0 .. m
  PROVE  Tokens(r, k) \o SubSeq(Tokens(r, m), k + 1, m) = Tokens(r, m)
<1>1. /\ Tokens(r, m) \in Texts /\ Len(Tokens(r, m)) = m
  BY TokensAre
<1>2. SubSeq(Tokens(r, m), 1, k) = Tokens(r, k)
  BY BeginningOfTokens
<1>3. SubSeq(Tokens(r, m), 1, k) \o SubSeq(Tokens(r, m), k + 1, m) = SubSeq(Tokens(r, m), 1, m)
  <2>1. 1 \in 1 .. m + 1 /\ k \in 1 - 1 .. m /\ m \in k .. m
    OBVIOUS
  <2> QED
    BY <1>1, <2>1, ConcatAdjacentSubSeq DEF Texts
<1>4. SubSeq(Tokens(r, m), 1, m) = Tokens(r, m)
  BY <1>1, SubSeqFull DEF Texts
<1> QED
  BY <1>2, <1>3, <1>4

\* The logits after a token are those of the tokens up to it.
LEMMA LogitsAre ==
  ASSUME NEW r \in Req, NEW m \in Nat, NEW from \in 0 .. m
  PROVE  /\ LogitsAfter(Tokens(r, m), from) \in Seq(Texts)
         /\ Len(LogitsAfter(Tokens(r, m), from)) = m - from
         /\ \A i \in 1 .. m - from :
              LogitsAfter(Tokens(r, m), from)[i] = Tokens(r, from + i)
<1>1. Len(Tokens(r, m)) = m
  BY TokensAre
<1>2. ASSUME NEW i \in 1 .. m - from
      PROVE  /\ SubSeq(Tokens(r, m), 1, from + i) = Tokens(r, from + i)
             /\ Tokens(r, from + i) \in Texts
  <2>1. from + i \in 0 .. m /\ from + i \in Nat
    OBVIOUS
  <2> QED
    BY <2>1, BeginningOfTokens, TokensAre
<1>3. LogitsAfter(Tokens(r, m), from) = [i \in 1 .. m - from |-> Tokens(r, from + i)]
  BY <1>1, <1>2 DEF LogitsAfter
<1>4. m - from \in Nat
  OBVIOUS
<1>5. [i \in 1 .. m - from |-> Tokens(r, from + i)] \in [1 .. m - from -> Texts]
  BY <1>2
<1> QED
  BY <1>3, <1>4, <1>5

\* Texts kept one after the other.
LEMMA KeptIsJoined ==
  ASSUME NEW a \in Seq(Texts), NEW b \in Seq(Texts)
  PROVE  /\ a \o b \in Seq(Texts)
         /\ Len(a \o b) = Len(a) + Len(b)
         /\ \A i \in 1 .. Len(a) : (a \o b)[i] = a[i]
         /\ \A i \in 1 .. Len(b) : (a \o b)[Len(a) + i] = b[i]
<1>1. Len(a) \in Nat /\ Len(b) \in Nat
  BY LenProperties
<1>2. /\ a \o b \in Seq(Texts)
      /\ Len(a \o b) = Len(a) + Len(b)
      /\ \A i \in 1 .. Len(a) + Len(b) : (a \o b)[i] =
            IF i <= Len(a) THEN a[i] ELSE b[i - Len(a)]
  BY ConcatProperties
<1>3. ASSUME NEW i \in 1 .. Len(a) PROVE (a \o b)[i] = a[i]
  <2>1. i \in 1 .. Len(a) + Len(b) /\ i <= Len(a)
    BY <1>1
  <2> QED
    BY <1>2, <2>1
<1>4. ASSUME NEW i \in 1 .. Len(b) PROVE (a \o b)[Len(a) + i] = b[i]
  <2>1. /\ Len(a) + i \in 1 .. Len(a) + Len(b) /\ ~(Len(a) + i <= Len(a))
        /\ (Len(a) + i) - Len(a) = i
    BY <1>1
  <2> QED
    BY <1>2, <2>1
<1> QED
  BY <1>2, <1>3, <1>4

-----------------------------------------------------------------------------
(* What is known of a row.                                                 *)

LEMMA RowIs ==
  ASSUME TypeInv, NEW r \in InStep
  PROVE  /\ r \in Req /\ row[r] \in Row
         /\ row[r].start \in Nat /\ row[r].at \in Nat /\ row[r].end \in Nat
         /\ row[r].kept \in Seq(Texts) /\ Len(row[r].kept) \in Nat
         /\ row[r].last \in Texts
         /\ row[r].micro \in BOOLEAN /\ row[r].bare \in BOOLEAN
         /\ PromptLen[r] \in Nat \ {0}
         /\ EndPos(r) \in Nat \ {0} /\ EndPos(r) <= PromptLen[r] /\ EndPos(r) <= row[r].end + 1
<1>1. r \in Req /\ row[r] # None
  BY DEF InStep
<1>2. row[r] \in Row
  BY <1>1 DEF TypeInv
<1>3. /\ row[r].start \in Nat /\ row[r].at \in Nat /\ row[r].end \in Nat
      /\ row[r].kept \in Seq(Texts) /\ row[r].last \in Texts
      /\ row[r].micro \in BOOLEAN /\ row[r].bare \in BOOLEAN
  BY <1>2 DEF Row
<1>4. PromptLen[r] \in Nat \ {0}
  BY <1>1, Constants
<1>5. /\ EndPos(r) \in Nat \ {0} /\ EndPos(r) <= PromptLen[r] /\ EndPos(r) <= row[r].end + 1
  BY <1>3, <1>4 DEF EndPos, Smaller
<1>6. Len(row[r].kept) \in Nat
  BY <1>3, LenProperties
<1> QED
  BY <1>1, <1>2, <1>3, <1>4, <1>5, <1>6

\* A row fed n tokens more has its tokens up to there.
LEMMA FedIs ==
  ASSUME TypeInv, NEW r \in InStep, RowInv(r), NEW n \in Nat
  PROVE  Fed(r, n) = Tokens(r, row[r].at + n)
<1> DEFINE at == row[r].at
<1>1. at \in Nat /\ r \in Req
  BY RowIs
<1>2. cache[r] = Tokens(r, at)
  BY DEF RowInv
<1>3. SubSeq(Tokens(r, at), 1, at) = Tokens(r, at)
  BY <1>1, BeginningOfTokens
<1>4. Tokens(r, at) \o [i \in 1 .. n |-> Token(r, at + i)] = Tokens(r, at + n)
  BY <1>1, MoreTokens
<1> QED
  BY <1>2, <1>3, <1>4 DEF Fed

\* What holds of a request holds as long as nothing of it changes.
LEMMA Unmoved ==
  ASSUME NEW r \in Req, RequestInv(r),
         row'[r] = row[r], cache'[r] = cache[r], num'[r] = num[r], pos'[r] = pos[r],
         table'[r] = table[r], ready'[r] = ready[r], given'[r] = given[r],
         (r \in Uncollected)' <=> r \in Uncollected
  PROVE  RequestInv(r)'
<1>1. (r \in InStep)' <=> r \in InStep
  BY DEF InStep
<1>2. EndPos(r)' = EndPos(r) /\ (Samples(r)' <=> Samples(r)) /\ (Unfinished(r)' <=> Unfinished(r))
  BY DEF EndPos, Samples, Unfinished
<1>3. RowInv(r)'
  BY <1>1 DEF RequestInv, RowInv
<1>4. KeptInv(r)'
  BY <1>1, <1>2 DEF RequestInv, KeptInv
<1>5. PositionInv(r)'
  BY <1>1 DEF RequestInv, PositionInv
<1>6. TableInv(r)'
  BY DEF RequestInv, TableInv
<1>7. AnswerInv(r)'
  BY <1>1, <1>2 DEF RequestInv, AnswerInv
<1> QED
  BY <1>3, <1>4, <1>5, <1>6, <1>7 DEF RequestInv

\* An infer or a replay changes nothing but the row and its cache.
LEMMA Infers ==
  ASSUME NEW r \in Uncollected, r \in InStep, RequestInv(r),
         UNCHANGED <<num, pos, table, given, ready, queue>>,
         row'[r] # None, row'[r].start = row[r].start, row'[r].end = row[r].end
  PROVE  PositionInv(r)' /\ TableInv(r)' /\ AnswerInv(r)'
<1>1. r \in Req /\ (r \in InStep)' /\ (r \in Uncollected)'
  BY DEF InStep, Uncollected
<1>2. PositionInv(r)'
  BY <1>1 DEF RequestInv, PositionInv
<1>3. TableInv(r)'
  BY DEF RequestInv, TableInv
<1>4. AnswerInv(r)'
  BY <1>1 DEF RequestInv, AnswerInv
<1> QED
  BY <1>2, <1>3, <1>4

-----------------------------------------------------------------------------
(* A piece of a normal row.                                                *)

LEMMA PieceFields ==
  ASSUME TypeInv, NEW r \in InStep, RowInv(r), NEW n \in Nat, NEW all \in BOOLEAN
  PROVE  LET x    == AfterPiece(r, n, all)
             at   == row[r].at
             keep == all /\ ~row[r].bare /\ r \in Wants
         IN  /\ x \in Row /\ x.start = row[r].start /\ x.end = row[r].end
             /\ x.at = at + n /\ x.last = Tokens(r, at + n) /\ (x.micro <=> row[r].micro)
             /\ x.bare <=> r \in Wants /\ ~keep
             /\ x.kept = IF keep THEN row[r].kept \o LogitsAfter(Tokens(r, at + n), at) ELSE <<>>
<1> DEFINE at == row[r].at
           keep == all /\ ~row[r].bare /\ r \in Wants
           fed == Fed(r, n)
           kept == IF keep THEN row[r].kept \o LogitsAfter(fed, at) ELSE <<>>
           bare == r \in Wants /\ ~keep
<1>1. /\ row[r] \in Row /\ at \in Nat /\ row[r].kept \in Seq(Texts) /\ r \in Req
      /\ row[r].bare \in BOOLEAN
  BY RowIs
<1>2. fed = Tokens(r, at + n) /\ at + n \in Nat /\ at \in 0 .. at + n
  <2>1. Fed(r, n) = Tokens(r, row[r].at + n)
    BY FedIs
  <2>2. at + n \in Nat /\ at \in 0 .. at + n
    BY <1>1
  <2> QED
    BY <2>1, <2>2
<1>3. fed \in Texts
  BY <1>1, <1>2, TokensAre
<1>4. LogitsAfter(fed, at) \in Seq(Texts)
  BY <1>1, <1>2, LogitsAre
<1>5. row[r].kept \o LogitsAfter(fed, at) \in Seq(Texts) /\ <<>> \in Seq(Texts)
  BY <1>1, <1>4, KeptIsJoined, EmptySeq
<1>6. kept \in Seq(Texts)
  <2>1. CASE keep
    BY <1>5, <2>1
  <2>2. CASE ~keep
    BY <1>5, <2>2
  <2> QED
    BY <2>1, <2>2
<1>7. bare \in BOOLEAN
  OBVIOUS
<1>8. AfterPiece(r, n, all) = [row[r] EXCEPT !.at = at + n, !.kept = kept, !.last = fed, !.bare = bare]
  BY DEF AfterPiece
<1> HIDE DEF kept, fed, bare, at
<1>9. [row[r] EXCEPT !.at = at + n, !.kept = kept, !.last = fed, !.bare = bare] \in Row
  BY <1>1, <1>2, <1>3, <1>6, <1>7 DEF Row
<1>10. LET x == [row[r] EXCEPT !.at = at + n, !.kept = kept, !.last = fed, !.bare = bare]
       IN  /\ x.start = row[r].start /\ x.end = row[r].end /\ x.at = at + n /\ x.last = fed
           /\ x.kept = kept /\ x.micro = row[r].micro /\ x.bare = bare
  BY <1>1 DEF Row
<1> QED
  BY <1>2, <1>8, <1>9, <1>10 DEF kept, fed, bare, at

LEMMA PieceLengthIs ==
  ASSUME TypeInv, NEW r \in InStep, Unfinished(r)
  PROVE  PieceLength(r) \in Nat \ {0} /\ row[r].at + PieceLength(r) <= row[r].end
<1>1. row[r].at \in Nat /\ row[r].end \in Nat /\ row[r].at < row[r].end /\ TokenCap \in Nat \ {0}
  BY RowIs, ForwardAssumption DEF Unfinished
<1> QED
  BY <1>1 DEF PieceLength, Smaller

\* A piece advances its rows over their own tokens, and keeps their logits if it has them.
LEMMA PieceKeepsRow ==
  ASSUME TypeInv, NEW r \in Uncollected, r \in InStep, RequestInv(r), ~row[r].micro, Unfinished(r),
         NEW all \in BOOLEAN,
         row'[r] = AfterPiece(r, PieceLength(r), all), cache'[r] = Fed(r, PieceLength(r)),
         queue' = queue
  PROVE  RowInv(r)' /\ KeptInv(r)' /\ row'[r] \in Row /\ cache'[r] \in Texts
<1> DEFINE n == PieceLength(r)
           at == row[r].at
           start == row[r].start
           logits == LogitsAfter(Tokens(r, at + n), at)
           keep == all /\ ~row[r].bare /\ r \in Wants
<1>1. /\ r \in Req /\ at \in Nat /\ start \in Nat /\ row[r].end \in Nat
      /\ row[r].kept \in Seq(Texts) /\ Len(row[r].kept) \in Nat /\ EndPos(r) \in Nat
  BY RowIs
<1>2. n \in Nat \ {0} /\ at + n <= row[r].end
  BY PieceLengthIs
<1>3. RowInv(r)
  BY DEF RequestInv
<1>4. /\ row'[r] \in Row /\ row'[r].start = start /\ row'[r].end = row[r].end
      /\ row'[r].at = at + n /\ row'[r].last = Tokens(r, at + n) /\ ~row'[r].micro
      /\ row'[r].bare <=> r \in Wants /\ ~keep
      /\ row'[r].kept = IF keep THEN row[r].kept \o logits ELSE <<>>
  BY <1>2, <1>3, PieceFields
<1>5. cache'[r] = Tokens(r, at + n)
  BY <1>2, <1>3, FedIs
<1>6. Tokens(r, at + n) \in Texts /\ Len(Tokens(r, at + n)) = at + n
  BY <1>1, <1>2, TokensAre
<1>7. (r \in InStep)' /\ (r \in Uncollected)'
  BY <1>1, <1>4, NoneAssumption DEF InStep, Uncollected
<1>8. EndPos(r)' = EndPos(r)
  BY <1>4 DEF EndPos
<1>9. RowInv(r)'
  <2>1. start <= at
    BY <1>3 DEF RowInv
  <2>2. start <= at + n /\ start < row[r].end
    BY <2>1, <1>1, <1>2
  <2> HIDE DEF n, at, start
  <2> QED
    BY <1>2, <1>4, <1>5, <1>6, <1>7, <2>2 DEF RowInv
<1>10. CASE keep
  <2>1. Len(row[r].kept) = at - start
    BY <1>7, <1>10 DEF RequestInv, KeptInv
  <2>2. \A i \in 1 .. Len(row[r].kept) : row[r].kept[i] = Tokens(r, start + i)
    BY <1>7 DEF RequestInv, KeptInv
  <2>3. /\ logits \in Seq(Texts) /\ Len(logits) = n
        /\ \A i \in 1 .. n : logits[i] = Tokens(r, at + i)
    <3>1. at + n \in Nat /\ at \in 0 .. at + n /\ (at + n) - at = n
      BY <1>1, <1>2
    <3> HIDE DEF at, n
    <3> QED
      BY <1>1, <3>1, LogitsAre
  <2>4. row'[r].kept = row[r].kept \o logits
    BY <1>4, <1>10
  <2>5. /\ row'[r].kept \in Seq(Texts) /\ Len(row'[r].kept) = at + n - start
        /\ \A i \in 1 .. Len(row[r].kept) : row'[r].kept[i] = row[r].kept[i]
        /\ \A i \in 1 .. n : row'[r].kept[Len(row[r].kept) + i] = logits[i]
    <3> HIDE DEF logits, n
    <3>1. /\ row[r].kept \o logits \in Seq(Texts)
          /\ Len(row[r].kept \o logits) = Len(row[r].kept) + Len(logits)
          /\ \A i \in 1 .. Len(row[r].kept) : (row[r].kept \o logits)[i] = row[r].kept[i]
          /\ \A i \in 1 .. Len(logits) :
               (row[r].kept \o logits)[Len(row[r].kept) + i] = logits[i]
      BY <1>1, <2>3, KeptIsJoined
    <3>2. Len(row'[r].kept) = at + n - start
      <4>1. Len(row'[r].kept) = (at - start) + n
        BY <2>1, <2>3, <2>4, <3>1
      <4> HIDE DEF at, start
      <4> QED
        BY <1>1, <1>2, <4>1
    <3> QED
      BY <2>3, <2>4, <3>1, <3>2
  <2>6. ASSUME NEW i \in 1 .. Len(row'[r].kept)
        PROVE  row'[r].kept[i] = Tokens(r, start + i)
    <3> HIDE DEF logits, n, at, start
    <3>1. CASE i <= at - start
      <4>1. i \in 1 .. Len(row[r].kept)
        BY <1>1, <2>1, <3>1
      <4> QED
        BY <4>1, <2>2, <2>5
    <3>2. CASE i > at - start
      <4>1. /\ i - (at - start) \in 1 .. n /\ at + (i - (at - start)) = start + i
            /\ (at - start) + (i - (at - start)) = i
        BY <1>1, <1>2, <2>5, <3>2
      <4>2. logits[i - (at - start)] = Tokens(r, start + i)
        BY <2>3, <4>1
      <4>3. row'[r].kept[Len(row[r].kept) + (i - (at - start))] = logits[i - (at - start)]
        BY <2>5, <4>1
      <4> QED
        BY <2>1, <4>1, <4>2, <4>3
    <3>3. i <= at - start \/ i > at - start
      BY <1>1
    <3> QED
      BY <3>1, <3>2, <3>3
  <2>7. ~row'[r].bare
    BY <1>4, <1>10
  <2>8. Len(row'[r].kept) >= Smaller(row'[r].at, EndPos(r) - 1) - start
    <3>1. Smaller(at + n, EndPos(r) - 1) <= at + n
      BY <1>1, <1>2 DEF Smaller
    <3>2. Len(row'[r].kept) = at + n - start /\ row'[r].at = at + n
      BY <1>4, <2>5
    <3>3. Smaller(at + n, EndPos(r) - 1) \in Int
      BY <1>1, <1>2 DEF Smaller
    <3> HIDE DEF at, start, n
    <3> QED
      BY <1>1, <1>2, <3>1, <3>2, <3>3
  <2>9. KeptInv(r)'
    <3>1. Len(row'[r].kept) = row'[r].at - row'[r].start
      <4>1. row'[r].at = at + n /\ row'[r].start = start
        BY <1>4
      <4>2. Len(row'[r].kept) = at + n - start
        BY <2>5
      <4> HIDE DEF at, n, start
      <4> QED
        BY <1>1, <1>2, <4>1, <4>2
    <3>2. \A i \in 1 .. Len(row'[r].kept) : row'[r].kept[i] = Tokens(r, row'[r].start + i)
      BY <1>4, <2>6
    <3>3. Len(row'[r].kept) >= Smaller(row'[r].at, EndPos(r)' - 1) - row'[r].start
      BY <1>4, <1>8, <2>8
    <3>4. r \in Wants
      BY <1>10
    <3> QED
      BY <2>7, <3>1, <3>2, <3>3, <3>4 DEF KeptInv
  <2> QED
    BY <1>4, <1>5, <1>6, <1>9, <2>9
<1>11. CASE ~keep
  <2>1. row'[r].kept = <<>> /\ Len(row'[r].kept) = 0
    BY <1>4, <1>11, EmptySeq
  <2>2. \A i \in 1 .. Len(row'[r].kept) : row'[r].kept[i] = Tokens(r, row'[r].start + i)
    BY <2>1
  <2>3. KeptInv(r)'
    BY <1>4, <1>11, <2>2 DEF KeptInv
  <2> QED
    BY <1>4, <1>5, <1>6, <1>9, <2>3
<1> QED
  BY <1>10, <1>11

-----------------------------------------------------------------------------
(* A microstep, and a replay.                                              *)

LEMMA MicrostepFields ==
  ASSUME TypeInv, NEW r \in InStep, RowInv(r)
  PROVE  LET x  == AfterMicrostep(r)
             at == row[r].at
         IN  /\ x \in Row /\ x.start = row[r].start /\ x.end = row[r].end
             /\ x.at = at + 1 /\ x.last = Tokens(r, at + 1)
             /\ x.micro = row[r].micro /\ x.bare = row[r].bare
             /\ x.kept = IF at + 1 < EndPos(r) THEN Append(row[r].kept, Tokens(r, at + 1))
                         ELSE row[r].kept
<1> DEFINE at == row[r].at
           fed == Fed(r, 1)
           kept == IF at + 1 < EndPos(r) THEN Append(row[r].kept, fed) ELSE row[r].kept
<1>1. row[r] \in Row /\ at \in Nat /\ row[r].kept \in Seq(Texts) /\ r \in Req /\ at + 1 \in Nat
  BY RowIs
<1>2. fed = Tokens(r, at + 1)
  BY FedIs
<1>3. fed \in Texts
  BY <1>1, <1>2, TokensAre
<1>4. kept \in Seq(Texts)
  BY <1>1, <1>3, AppendProperties
<1>5. AfterMicrostep(r) = [row[r] EXCEPT !.at = at + 1, !.kept = kept, !.last = fed]
  BY DEF AfterMicrostep, EndPos
<1>6. kept = IF at + 1 < EndPos(r) THEN Append(row[r].kept, Tokens(r, at + 1)) ELSE row[r].kept
  BY <1>2
<1> HIDE DEF kept, fed, at
<1>7. [row[r] EXCEPT !.at = at + 1, !.kept = kept, !.last = fed] \in Row
  BY <1>1, <1>3, <1>4 DEF Row
<1>8. LET x == [row[r] EXCEPT !.at = at + 1, !.kept = kept, !.last = fed]
      IN  /\ x.start = row[r].start /\ x.end = row[r].end /\ x.at = at + 1 /\ x.last = fed
          /\ x.kept = kept /\ x.micro = row[r].micro /\ x.bare = row[r].bare
  BY <1>1 DEF Row
<1> QED
  BY <1>2, <1>5, <1>6, <1>7, <1>8 DEF at

\* A microstep advances a row by one of its tokens, and keeps its logits while a position
\* of the prompt still needs them.
LEMMA MicrostepKeepsRow ==
  ASSUME TypeInv, NEW r \in Uncollected, r \in InStep, RequestInv(r), row[r].micro, Unfinished(r),
         row'[r] = AfterMicrostep(r), cache'[r] = Fed(r, 1), queue' = queue
  PROVE  RowInv(r)' /\ KeptInv(r)' /\ row'[r] \in Row /\ cache'[r] \in Texts
<1> DEFINE at == row[r].at
           start == row[r].start
           end == EndPos(r)
<1>1. /\ r \in Req /\ at \in Nat /\ start \in Nat /\ row[r].end \in Nat
      /\ row[r].kept \in Seq(Texts) /\ Len(row[r].kept) \in Nat /\ end \in Nat
  BY RowIs
<1>2. RowInv(r)
  BY DEF RequestInv
<1>3. /\ row'[r] \in Row /\ row'[r].start = start /\ row'[r].end = row[r].end
      /\ row'[r].at = at + 1 /\ row'[r].last = Tokens(r, at + 1)
      /\ row'[r].micro = row[r].micro /\ row'[r].bare = row[r].bare
      /\ row'[r].kept = IF at + 1 < end THEN Append(row[r].kept, Tokens(r, at + 1))
                        ELSE row[r].kept
  BY <1>2, MicrostepFields
<1>4. cache'[r] = Tokens(r, at + 1)
  BY <1>2, FedIs
<1>5. Tokens(r, at + 1) \in Texts /\ Len(Tokens(r, at + 1)) = at + 1
  BY <1>1, TokensAre
<1>6. (r \in InStep)' /\ (r \in Uncollected)'
  BY <1>1, <1>3, NoneAssumption DEF InStep, Uncollected
<1>7. EndPos(r)' = end
  BY <1>3 DEF EndPos
<1>8. start <= at /\ at < row[r].end /\ start < row[r].end
  BY <1>2 DEF RowInv, Unfinished
<1>9. RowInv(r)'
  <2>1. start <= at + 1 /\ at + 1 <= row[r].end
    BY <1>1, <1>8
  <2> HIDE DEF at, start
  <2> QED
    BY <1>3, <1>4, <1>5, <1>6, <1>8, <2>1 DEF RowInv
<1>10. /\ r \in Wants /\ ~row[r].bare
       /\ at < end - 1 => Len(row[r].kept) = at - start
       /\ Len(row[r].kept) >= Smaller(at, end - 1) - start
       /\ \A i \in 1 .. Len(row[r].kept) : row[r].kept[i] = Tokens(r, start + i)
  BY DEF RequestInv, KeptInv
<1> HIDE DEF at, start, end
<1>11. /\ at + 1 < end - 1 => Len(row'[r].kept) = at + 1 - start
       /\ Len(row'[r].kept) >= Smaller(at + 1, end - 1) - start
       /\ \A i \in 1 .. Len(row'[r].kept) : row'[r].kept[i] = Tokens(r, start + i)
  <2>1. CASE at + 1 < end
    <3>1. row'[r].kept = Append(row[r].kept, Tokens(r, at + 1)) /\ Len(row[r].kept) = at - start
      BY <1>1, <1>3, <1>10, <2>1
    <3>2. /\ Len(row'[r].kept) = Len(row[r].kept) + 1
          /\ \A i \in 1 .. Len(row[r].kept) : row'[r].kept[i] = row[r].kept[i]
          /\ row'[r].kept[Len(row[r].kept) + 1] = Tokens(r, at + 1)
      BY <1>1, <1>5, <3>1, AppendProperties
    <3>3. Len(row'[r].kept) = at + 1 - start
      BY <1>1, <3>1, <3>2
    <3>4. ASSUME NEW i \in 1 .. Len(row'[r].kept) PROVE row'[r].kept[i] = Tokens(r, start + i)
      <4>1. CASE i = Len(row[r].kept) + 1
        <5>1. start + i = at + 1
          BY <1>1, <3>1, <4>1
        <5> QED
          BY <3>2, <4>1, <5>1
      <4>2. CASE i # Len(row[r].kept) + 1
        <5>1. i \in 1 .. Len(row[r].kept)
          BY <1>1, <3>2, <4>2
        <5> QED
          BY <1>10, <3>2, <5>1
      <4> QED
        BY <4>1, <4>2
    <3>5. Smaller(at + 1, end - 1) <= at + 1 /\ Smaller(at + 1, end - 1) \in Int
      BY <1>1 DEF Smaller
    <3>6. Len(row'[r].kept) >= Smaller(at + 1, end - 1) - start
      BY <1>1, <3>3, <3>5
    <3> QED
      BY <3>3, <3>4, <3>6
  <2>2. CASE ~(at + 1 < end)
    <3>1. row'[r].kept = row[r].kept
      BY <1>3, <2>2
    <3>2. Smaller(at, end - 1) = end - 1 /\ Smaller(at + 1, end - 1) = end - 1 /\ ~(at + 1 < end - 1)
      BY <1>1, <2>2 DEF Smaller
    <3> QED
      BY <1>10, <3>1, <3>2
  <2> QED
    BY <2>1, <2>2
<1>12. KeptInv(r)'
  <2>1. row'[r].at = at + 1 /\ row'[r].start = start /\ row'[r].micro /\ ~row'[r].bare
    BY <1>3, <1>10
  <2>2. Len(row'[r].kept) >= Smaller(row'[r].at, EndPos(r)' - 1) - row'[r].start
    BY <1>7, <1>11, <2>1
  <2>3. row'[r].at < EndPos(r)' - 1 => Len(row'[r].kept) = row'[r].at - row'[r].start
    BY <1>1, <1>7, <1>11, <2>1
  <2>4. \A i \in 1 .. Len(row'[r].kept) : row'[r].kept[i] = Tokens(r, row'[r].start + i)
    BY <1>11, <2>1
  <2> QED
    BY <1>10, <2>1, <2>2, <2>3, <2>4 DEF KeptInv
<1> QED
  BY <1>3, <1>4, <1>5, <1>9, <1>12

\* A replay leaves the row's cache as it was and the row with the logits it lacked.
LEMMA ReplayKeepsRow ==
  ASSUME TypeInv, NEW r \in Uncollected, r \in InStep, RequestInv(r), NeedsReplay(r),
         ~Unfinished(r),
         row'[r] = [row[r] EXCEPT !.kept = ReplayedLogits(r), !.bare = FALSE,
                                  !.last = IF batch THEN @ ELSE Tokens(r, row[r].end)],
         cache'[r] = IF batch THEN OwnPrefixRestored(r) ELSE Tokens(r, row[r].end),
         queue' = queue
  PROVE  /\ RowInv(r)' /\ KeptInv(r)' /\ row'[r] \in Row /\ cache'[r] \in Texts
         /\ row'[r].start = row[r].start /\ row'[r].end = row[r].end
<1> DEFINE start == row[r].start
           end == EndPos(r)
           last == IF batch THEN row[r].last ELSE Tokens(r, row[r].end)
           kept == ReplayedLogits(r)
<1>1. /\ r \in Req /\ row[r] \in Row
      /\ row[r].at \in Nat /\ start \in Nat /\ row[r].end \in Nat
      /\ end \in Nat \ {0} /\ end <= row[r].end + 1 /\ row[r].last \in Texts
      /\ PromptLen[r] \in Nat \ {0}
  BY RowIs
<1>2. /\ row[r].bare /\ r \in Wants /\ ~row[r].micro
  BY DEF NeedsReplay, RequestInv, KeptInv
<1>3. /\ row[r].at = row[r].end /\ start < row[r].end
      /\ row[r].last = Tokens(r, row[r].end) /\ cache[r] = Tokens(r, row[r].end)
  <2>1. row[r].at <= row[r].end /\ ~(row[r].at < row[r].end) /\ start < row[r].end
    BY DEF RequestInv, RowInv, Unfinished
  <2>2. row[r].at = row[r].end
    BY <1>1, <2>1
  <2> QED
    BY <1>1, <2>1, <2>2 DEF RequestInv, RowInv
<1>4. Tokens(r, row[r].end) \in Texts /\ Len(Tokens(r, row[r].end)) = row[r].end
  BY <1>1, TokensAre
<1>5. start <= end - 1
  <2>1. FirstPos(r) < end
    BY DEF NeedsReplay
  <2>2. pos[r] \in Nat
    BY <1>1 DEF TypeInv
  <2>3. FirstPos(r) >= start + 1 /\ FirstPos(r) \in Nat
    BY <1>1, <2>2 DEF FirstPos, Larger
  <2> HIDE DEF start, end
  <2> QED
    BY <1>1, <2>1, <2>3
<1>6. /\ kept \in Seq(Texts) /\ Len(kept) = end - 1 - start
      /\ \A i \in 1 .. end - 1 - start : kept[i] = Tokens(r, start + i)
  <2>1. end - 1 \in Nat /\ start \in 0 .. end - 1
    BY <1>1, <1>5
  <2>2. kept = LogitsAfter(Tokens(r, end - 1), start)
    BY DEF ReplayedLogits
  <2> HIDE DEF start, end, kept
  <2> QED
    BY <1>1, <2>1, <2>2, LogitsAre
<1>7. cache'[r] = Tokens(r, row[r].end)
  <2>1. OwnPrefixRestored(r) = Tokens(r, end - 1) \o SubSeq(Tokens(r, row[r].end), end, row[r].end)
    BY <1>3, <1>4 DEF OwnPrefixRestored
  <2>2. end - 1 \in 0 .. row[r].end /\ (end - 1) + 1 = end
    BY <1>1
  <2>3. Tokens(r, end - 1) \o SubSeq(Tokens(r, row[r].end), (end - 1) + 1, row[r].end)
          = Tokens(r, row[r].end)
    BY <1>1, <2>2, PrefixRestored
  <2> HIDE DEF end
  <2> QED
    BY <2>1, <2>2, <2>3
<1>8. last = Tokens(r, row[r].end)
  BY <1>3
<1>9. row'[r] = [row[r] EXCEPT !.kept = kept, !.bare = FALSE, !.last = last]
  BY <1>1 DEF Row
<1> HIDE DEF kept, last
<1>10. /\ row'[r] \in Row /\ row'[r].start = start /\ row'[r].end = row[r].end
       /\ row'[r].at = row[r].at /\ row'[r].last = last /\ row'[r].kept = kept
       /\ row'[r].micro = row[r].micro /\ row'[r].bare = FALSE
  BY <1>1, <1>4, <1>6, <1>8, <1>9 DEF Row
<1>11. (r \in InStep)' /\ (r \in Uncollected)'
  BY <1>1, <1>10, NoneAssumption DEF InStep, Uncollected
<1>12. EndPos(r)' = end /\ Unfinished(r)' = Unfinished(r)
  BY <1>10 DEF EndPos, Unfinished
<1>13. RowInv(r)'
  <2>1. start <= row[r].end
    BY <1>1, <1>3
  <2> HIDE DEF start
  <2> QED
    BY <1>1, <1>3, <1>4, <1>7, <1>8, <1>10, <1>11, <2>1 DEF RowInv
<1>14. KeptInv(r)'
  <2>1. Smaller(row[r].end, end - 1) = end - 1 /\ ~(row[r].end < end - 1)
    BY <1>1 DEF Smaller
  <2>2. Len(row'[r].kept) >= Smaller(row'[r].at, EndPos(r)' - 1) - row'[r].start
    <3>1. row'[r].at = row[r].end /\ row'[r].start = start /\ Len(row'[r].kept) = end - 1 - start
      BY <1>3, <1>6, <1>10
    <3> HIDE DEF start, end
    <3> QED
      BY <1>1, <1>12, <2>1, <3>1
  <2>3. ~(row'[r].at < EndPos(r)' - 1) /\ ~Unfinished(r)'
    BY <1>3, <1>10, <1>12, <2>1
  <2>4. \A i \in 1 .. Len(row'[r].kept) : row'[r].kept[i] = Tokens(r, row'[r].start + i)
    BY <1>6, <1>10
  <2> QED
    BY <1>2, <1>10, <2>2, <2>3, <2>4 DEF KeptInv
<1> QED
  BY <1>4, <1>7, <1>10, <1>13, <1>14

-----------------------------------------------------------------------------
(* The steps.                                                              *)

LEMMA NoneIsApart ==
  /\ \A x \in Row : x # None
  /\ \A x \in Seq(Texts \cup {None}) : x # None
<1> QED
  BY NoneAssumption

LEMMA EmptyQueue == <<>> \in Seq(Req) /\ Len(<<>>) = 0 /\ <<>> \in Texts
<1> QED
  BY EmptySeq DEF Texts

LEMMA InitInv == Init => Inv
<1> SUFFICES ASSUME Init PROVE Inv
  OBVIOUS
<1>1. TypeInv
  <2>1. Batches \subseteq BOOLEAN
    BY ForwardAssumption
  <2> QED
    BY <2>1, EmptyQueue DEF Init, NoRows, TypeInv
<1>2. InStep = {} /\ Uncollected = {}
  BY EmptyQueue DEF Init, NoRows, InStep, Uncollected
<1>3. QueueInv
  BY <1>2, EmptyQueue DEF Init, QueueInv
<1>4. ASSUME NEW r \in Req PROVE RequestInv(r)
  <2>1. /\ num[r] = 0 /\ pos[r] = 1 /\ table[r] = None /\ ready[r] = None /\ cache[r] = <<>>
        /\ PromptLen[r] \in Nat \ {0}
    BY Constants DEF Init, NoRows
  <2>2. Len(cache[r]) = 0 /\ cache[r] = Tokens(r, 0)
    <3>1. Tokens(r, 0) \in Texts /\ Len(Tokens(r, 0)) = 0
      BY TokensAre
    <3>2. Tokens(r, 0) = <<>>
      BY <3>1, EmptySeq DEF Texts
    <3> QED
      BY <2>1, <3>2, EmptyQueue
  <2>3. RowInv(r)
    BY <1>2, <2>2 DEF RowInv
  <2>4. Smaller(0 + 1, PromptLen[r]) = 1
    BY <2>1 DEF Smaller
  <2>5. PositionInv(r)
    BY <1>2, <2>1, <2>4 DEF PositionInv
  <2>6. KeptInv(r) /\ TableInv(r)
    BY <1>2, <2>1 DEF KeptInv, TableInv
  <2>7. AnswerInv(r)
    BY <1>2, <2>1 DEF AnswerInv
  <2> QED
    BY <2>3, <2>5, <2>6, <2>7 DEF RequestInv
<1> QED
  BY <1>1, <1>3, <1>4 DEF Inv

LEMMA AppendedRow ==
  ASSUME TypeInv, QueueInv, NEW r \in Req, r \notin InStep, queue' = Append(queue, r)
  PROVE  /\ queue' \in Seq(Req)
         /\ Uncollected' = Uncollected \cup {r}
         /\ \A i, j \in 1 .. Len(queue') : queue'[i] = queue'[j] => i = j
<1>1. queue \in Seq(Req) /\ Len(queue) \in Nat
  BY LenProperties DEF TypeInv
<1>2. /\ queue' \in Seq(Req) /\ Len(queue') = Len(queue) + 1
      /\ \A i \in 1 .. Len(queue) : queue'[i] = queue[i]
      /\ queue'[Len(queue) + 1] = r
  BY <1>1, AppendProperties
<1>3. \A i \in 1 .. Len(queue') : i \in 1 .. Len(queue) \/ i = Len(queue) + 1
  BY <1>1, <1>2
<1>4. 1 .. Len(queue) \subseteq 1 .. Len(queue') /\ Len(queue) + 1 \in 1 .. Len(queue')
  BY <1>1, <1>2
<1>5. Uncollected' = Uncollected \cup {r}
  <2>1. Uncollected' \subseteq Uncollected \cup {r}
    BY <1>2, <1>3 DEF Uncollected
  <2>2. Uncollected \cup {r} \subseteq Uncollected'
    BY <1>2, <1>4 DEF Uncollected
  <2> QED
    BY <2>1, <2>2
<1>6. \A i \in 1 .. Len(queue) : queue[i] # r
  BY DEF QueueInv, Uncollected
<1>7. ASSUME NEW i \in 1 .. Len(queue'), NEW j \in 1 .. Len(queue'), queue'[i] = queue'[j]
      PROVE  i = j
  BY <1>2, <1>3, <1>6, <1>7 DEF QueueInv
<1> QED
  BY <1>2, <1>5, <1>7

\* A request starts where its cache reaches, and no position is left behind.
LEMMA StartsInTime ==
  ASSUME TypeInv, NEW r \in Wants, r \notin InStep, r \notin Uncollected, PositionInv(r),
         NEW n \in Nat, MayStartFrom(r, n), NEW start \in Loaded(r, n), start \in 0 .. n
  PROVE  pos[r] >= Smaller(start + 1, PromptLen[r])
<1>1. /\ r \in Req /\ PromptLen[r] \in Nat \ {0}
  BY Constants, RequestAssumption
<1>2. pos[r] \in Nat /\ num[r] \in Nat /\ pos[r] >= 1 /\ pos[r] >= Smaller(num[r] + 1, PromptLen[r])
  BY <1>1 DEF TypeInv, PositionInv
<1>3. num[r] = 0 => pos[r] = 1
  BY DEF PositionInv
<1>4. CASE start = 0
  BY <1>1, <1>2, <1>4 DEF Smaller
<1>5. CASE start <= num[r]
  BY <1>1, <1>2, <1>5 DEF Smaller
<1>6. CASE start # 0 /\ ~(start <= num[r])
  <2>1. num[r] = 0 /\ n > 0
    BY <1>2, <1>6 DEF MayStartFrom
  <2>2. ~RecomputesFromStart(r, n)
    BY <1>6 DEF Loaded
  <2>3. PromptLen[r] = 1
    BY <1>1, <1>3, <2>1, <2>2 DEF RecomputesFromStart
  <2> QED
    BY <1>2, <2>3 DEF Smaller
<1> QED
  BY <1>4, <1>5, <1>6

LEMMA ScheduleKeeps ==
  ASSUME Inv, NEW r \in Req, NEW n \in Nat, NEW start \in 0 .. n, NEW end \in Nat,
         NEW micro \in BOOLEAN, ScheduleRow(r, n, micro, start, end), end >= n + 1
  PROVE  Inv'
<1> DEFINE new == NewRow(micro, start, end)
<1>1. TypeInv /\ QueueInv /\ \A q \in Req : RequestInv(q)
  BY DEF Inv
<1>2. r \notin InStep /\ r \notin Uncollected
  BY <1>1 DEF ScheduleRow, QueueInv
<1>3. /\ queue' = Append(queue, r)
      /\ row' = [row EXCEPT ![r] = new]
      /\ num' = [num EXCEPT ![r] = n]
      /\ cache' = [cache EXCEPT ![r] = Tokens(r, start)]
      /\ UNCHANGED <<batch, pos, table, out, given, ready>>
  BY DEF ScheduleRow, Tokens
<1>4. /\ queue' \in Seq(Req) /\ Uncollected' = Uncollected \cup {r}
      /\ \A i, j \in 1 .. Len(queue') : queue'[i] = queue'[j] => i = j
  BY <1>1, <1>2, <1>3, AppendedRow
<1>5. start \in Nat /\ Tokens(r, start) \in Texts /\ Len(Tokens(r, start)) = start
  <2>1. start \in Nat
    OBVIOUS
  <2> QED
    BY <2>1, TokensAre
<1>6. /\ new \in Row /\ new.start = start /\ new.at = start /\ new.end = end /\ new.kept = <<>>
      /\ new.micro = micro /\ new.bare = FALSE
  <2>1. <<>> \in Seq(Texts) /\ <<>> \in Texts
    BY EmptySeq DEF Texts
  <2> QED
    BY <1>5, <2>1 DEF NewRow, Row
<1> HIDE DEF new
<1>7. /\ row'[r] = new /\ num'[r] = n /\ cache'[r] = Tokens(r, start)
      /\ \A q \in Req \ {r} : row'[q] = row[q] /\ num'[q] = num[q] /\ cache'[q] = cache[q]
  BY <1>1, <1>3 DEF TypeInv
<1>8. TypeInv'
  BY <1>1, <1>3, <1>4, <1>5, <1>6 DEF TypeInv
<1>9. r \in InStep' /\ InStep' = InStep \cup {r}
  BY <1>6, <1>7, NoneIsApart DEF InStep
<1>10. QueueInv'
  BY <1>1, <1>4, <1>9 DEF QueueInv
<1>11. ASSUME NEW q \in Req PROVE RequestInv(q)'
  <2>1. CASE q # r
    <3>1. (q \in Uncollected)' <=> q \in Uncollected
      BY <1>4, <2>1
    <3> QED
      BY <1>1, <1>3, <1>7, <2>1, <3>1, Unmoved
  <2>2. CASE q = r
    <3>1. RequestInv(r) /\ PromptLen[r] \in Nat \ {0}
      BY <1>1, Constants
    <3>2. r \in Uncollected'
      BY <1>4
    <3>3. RowInv(r)'
      <4>1. start <= start /\ start <= end /\ start < end /\ ~(start > start)
        BY <1>5
      <4> QED
        BY <1>5, <1>6, <1>7, <3>2, <4>1 DEF RowInv
    <3>4. KeptInv(r)'
      <4>1. micro => r \in Wants
        BY DEF ScheduleRow, NeedsMicrosteps
      <4>2. EndPos(r)' = Smaller(end + 1, PromptLen[r])
        BY <1>6, <1>7 DEF EndPos
      <4>3. /\ 0 = start - start
            /\ 0 >= Smaller(start, Smaller(end + 1, PromptLen[r]) - 1) - start
        BY <1>5, <3>1 DEF Smaller
      <4>4. row'[r].kept = <<>> /\ Len(row'[r].kept) = 0
        BY <1>6, <1>7, EmptyQueue
      <4>5. row'[r].start = start /\ row'[r].at = start /\ row'[r].bare = FALSE /\ row'[r].micro = micro
        BY <1>6, <1>7
      <4>6. \A i \in 1 .. Len(row'[r].kept) : row'[r].kept[i] = Tokens(r, row'[r].start + i)
        BY <4>4
      <4>7. Len(row'[r].kept) = row'[r].at - row'[r].start
        BY <4>3, <4>4, <4>5
      <4>8. Len(row'[r].kept) >= Smaller(row'[r].at, EndPos(r)' - 1) - row'[r].start
        BY <4>2, <4>3, <4>4, <4>5
      <4> QED
        BY <4>1, <4>5, <4>6, <4>7, <4>8 DEF KeptInv
    <3>5. PositionInv(r)'
      <4>1. r \in Wants => pos[r] >= Smaller(start + 1, PromptLen[r])
        BY <1>1, <1>2, <3>1, StartsInTime DEF RequestInv, ScheduleRow
      <4>2. pos'[r] = pos[r] /\ row'[r].start = start /\ r \in InStep'
        BY <1>3, <1>6, <1>7, <1>9
      <4> QED
        BY <3>1, <3>2, <4>1, <4>2 DEF RequestInv, PositionInv
    <3>6. TableInv(r)'
      BY <1>3, <3>1 DEF RequestInv, TableInv
    <3>7. AnswerInv(r)'
      BY <1>2, <1>3, <3>1, <3>2 DEF RequestInv, AnswerInv
    <3> QED
      BY <2>2, <3>3, <3>4, <3>5, <3>6, <3>7 DEF RequestInv
  <2> QED
    BY <2>1, <2>2
<1> QED
  BY <1>8, <1>10, <1>11 DEF Inv

\* The rows the code works on wait, and are of the step.
LEMMA CurrentRows ==
  ASSUME TypeInv, QueueInv, NEW r \in Current
  PROVE  r \in Uncollected /\ r \in InStep /\ r \in Req
<1>1. queue \in Seq(Req) /\ Len(queue) \in Nat
  BY LenProperties DEF TypeInv
<1>2. r \in Uncollected
  <2>1. CASE batch
    BY <2>1 DEF Current, Uncollected
  <2>2. CASE ~batch
    <3>1. queue # <<>> /\ r = Head(queue)
      BY <2>2 DEF Current
    <3>2. 1 \in 1 .. Len(queue)
      BY <1>1, <3>1, EmptySeq
    <3>3. r = queue[1]
      BY <3>1
    <3> QED
      BY <3>2, <3>3 DEF Uncollected
  <2> QED
    BY <2>1, <2>2
<1> QED
  BY <1>2 DEF QueueInv, InStep

\* A step that only works on the rows of R.
LEMMA OnlyRows ==
  ASSUME Inv, NEW R, R \subseteq Uncollected,
         UNCHANGED <<batch, num, pos, table, out, given, queue, ready>>,
         row' = [r \in Req |-> IF r \in R THEN row'[r] ELSE row[r]],
         cache' = [r \in Req |-> IF r \in R THEN cache'[r] ELSE cache[r]],
         \A r \in R : /\ RowInv(r)' /\ KeptInv(r)' /\ row'[r] \in Row /\ cache'[r] \in Texts
                      /\ row'[r].start = row[r].start /\ row'[r].end = row[r].end
  PROVE  Inv'
<1>1. TypeInv /\ QueueInv /\ \A q \in Req : RequestInv(q)
  BY DEF Inv
<1>2. ASSUME NEW q \in R PROVE q \in Uncollected /\ q \in InStep /\ q \in Req
  BY <1>1 DEF QueueInv, InStep
<1>3. Uncollected' = Uncollected
  BY DEF Uncollected
<1>4. TypeInv'
  <2>1. ASSUME NEW q \in Req PROVE row'[q] \in Row \cup {None} /\ cache'[q] \in Texts
    BY <1>1 DEF TypeInv
  <2>2. row' \in [Req -> Row \cup {None}]
    BY <2>1, Zenon
  <2>3. cache' \in [Req -> Texts]
    BY <2>1, Zenon
  <2> QED
    BY <1>1, <2>2, <2>3 DEF TypeInv
<1>5. InStep' = InStep
  <2>1. ASSUME NEW q \in Req PROVE row'[q] # None <=> row[q] # None
    <3>1. CASE q \in R
      BY <1>2, <3>1, NoneIsApart DEF InStep
    <3>2. CASE q \notin R
      <4>1. row'[q] = row[q]
        BY <3>2, Zenon
      <4> QED
        BY <4>1
    <3> QED
      BY <3>1, <3>2
  <2> QED
    BY <2>1 DEF InStep
<1>6. QueueInv'
  BY <1>1, <1>3, <1>5 DEF QueueInv
<1>7. ASSUME NEW q \in Req PROVE RequestInv(q)'
  <2>1. CASE q \in R
    <3>1. q \in Uncollected /\ q \in InStep
      BY <1>2, <2>1
    <3>2. RequestInv(q)
      BY <1>1
    <3>3. row'[q] # None /\ row'[q].start = row[q].start /\ row'[q].end = row[q].end
      BY <2>1, NoneIsApart
    <3>4. PositionInv(q)' /\ TableInv(q)' /\ AnswerInv(q)'
      BY <3>1, <3>2, <3>3, Infers
    <3> QED
      BY <2>1, <3>4 DEF RequestInv
  <2>2. CASE q \notin R
    <3>1. row'[q] = row[q] /\ cache'[q] = cache[q]
      BY <2>2, Zenon
    <3> QED
      BY <1>1, <1>3, <3>1, Unmoved
  <2> QED
    BY <2>1, <2>2
<1> QED
  BY <1>4, <1>6, <1>7 DEF Inv

LEMMA NormalPieceKeeps ==
  ASSUME Inv, NEW all \in KeepsAll, NormalPiece(all)
  PROVE  Inv'
<1> DEFINE R == {r \in Current : ~row[r].micro /\ Unfinished(r)}
<1>1. TypeInv /\ QueueInv /\ \A q \in Req : RequestInv(q)
  BY DEF Inv
<1>2. all \in BOOLEAN
  BY DEF KeepsAll
<1>3. ASSUME NEW r \in R
      PROVE  /\ r \in Uncollected /\ r \in InStep /\ r \in Req /\ ~row[r].micro /\ Unfinished(r)
             /\ row'[r] = AfterPiece(r, PieceLength(r), all) /\ cache'[r] = Fed(r, PieceLength(r))
  <2>1. r \in Uncollected /\ r \in InStep /\ r \in Req
    BY <1>1, CurrentRows
  <2> QED
    BY <2>1 DEF NormalPiece
<1>4. UNCHANGED <<batch, num, pos, table, out, given, queue, ready>>
  BY DEF NormalPiece
<1>5. ASSUME NEW r \in R
      PROVE  /\ RowInv(r)' /\ KeptInv(r)' /\ row'[r] \in Row /\ cache'[r] \in Texts
             /\ row'[r].start = row[r].start /\ row'[r].end = row[r].end
  <2>1. RequestInv(r) /\ RowInv(r)
    BY <1>1, <1>3 DEF RequestInv
  <2>2. RowInv(r)' /\ KeptInv(r)' /\ row'[r] \in Row /\ cache'[r] \in Texts
    BY <1>1, <1>2, <1>3, <1>4, <2>1, PieceKeepsRow
  <2>3. row'[r].start = row[r].start /\ row'[r].end = row[r].end
    BY <1>1, <1>2, <1>3, <2>1, PieceLengthIs, PieceFields
  <2> QED
    BY <2>2, <2>3
<1>6. /\ row' = [r \in Req |-> IF r \in R THEN row'[r] ELSE row[r]]
      /\ cache' = [r \in Req |-> IF r \in R THEN cache'[r] ELSE cache[r]]
  BY <1>3 DEF NormalPiece
<1>7. R \subseteq Uncollected
  BY <1>3
<1> HIDE DEF R
<1> QED
  BY <1>4, <1>5, <1>6, <1>7, OnlyRows

LEMMA MicrostepKeeps ==
  ASSUME Inv, Microstep
  PROVE  Inv'
<1> DEFINE R == {r \in Current : row[r].micro /\ Unfinished(r)}
<1>1. TypeInv /\ QueueInv /\ \A q \in Req : RequestInv(q)
  BY DEF Inv
<1>2. ASSUME NEW r \in R
      PROVE  /\ r \in Uncollected /\ r \in InStep /\ r \in Req /\ row[r].micro /\ Unfinished(r)
             /\ row'[r] = AfterMicrostep(r) /\ cache'[r] = Fed(r, 1)
  <2>1. r \in Uncollected /\ r \in InStep /\ r \in Req
    BY <1>1, CurrentRows
  <2> QED
    BY <2>1 DEF Microstep
<1>3. UNCHANGED <<batch, num, pos, table, out, given, queue, ready>>
  BY DEF Microstep
<1>4. ASSUME NEW r \in R
      PROVE  /\ RowInv(r)' /\ KeptInv(r)' /\ row'[r] \in Row /\ cache'[r] \in Texts
             /\ row'[r].start = row[r].start /\ row'[r].end = row[r].end
  <2>1. RequestInv(r) /\ RowInv(r)
    BY <1>1, <1>2 DEF RequestInv
  <2>2. RowInv(r)' /\ KeptInv(r)' /\ row'[r] \in Row /\ cache'[r] \in Texts
    BY <1>1, <1>2, <1>3, <2>1, MicrostepKeepsRow
  <2>3. row'[r].start = row[r].start /\ row'[r].end = row[r].end
    BY <1>1, <1>2, <2>1, MicrostepFields
  <2> QED
    BY <2>2, <2>3
<1>5. /\ row' = [r \in Req |-> IF r \in R THEN row'[r] ELSE row[r]]
      /\ cache' = [r \in Req |-> IF r \in R THEN cache'[r] ELSE cache[r]]
  BY <1>2 DEF Microstep
<1>6. R \subseteq Uncollected
  BY <1>2
<1> HIDE DEF R
<1> QED
  BY <1>3, <1>4, <1>5, <1>6, OnlyRows

LEMMA ReplayKeeps ==
  ASSUME Inv, Replay
  PROVE  Inv'
<1> DEFINE R == {r \in Current : NeedsReplay(r)}
<1>1. TypeInv /\ QueueInv /\ \A q \in Req : RequestInv(q)
  BY DEF Inv
<1>2. ASSUME NEW r \in R
      PROVE  /\ r \in Uncollected /\ r \in InStep /\ r \in Req /\ NeedsReplay(r) /\ ~Unfinished(r)
             /\ row'[r] = [row[r] EXCEPT !.kept = ReplayedLogits(r), !.bare = FALSE,
                                        !.last = IF batch THEN @ ELSE Tokens(r, row[r].end)]
             /\ cache'[r] = IF batch THEN OwnPrefixRestored(r) ELSE Tokens(r, row[r].end)
  <2>1. r \in Uncollected /\ r \in InStep /\ r \in Req
    BY <1>1, CurrentRows
  <2> QED
    BY <2>1 DEF Replay
<1>3. UNCHANGED <<batch, num, pos, table, out, given, queue, ready>>
  BY DEF Replay
<1>4. ASSUME NEW r \in R
      PROVE  /\ RowInv(r)' /\ KeptInv(r)' /\ row'[r] \in Row /\ cache'[r] \in Texts
             /\ row'[r].start = row[r].start /\ row'[r].end = row[r].end
  BY <1>1, <1>2, <1>3, ReplayKeepsRow
<1>5. /\ row' = [r \in Req |-> IF r \in R THEN row'[r] ELSE row[r]]
      /\ cache' = [r \in Req |-> IF r \in R THEN cache'[r] ELSE cache[r]]
  BY <1>2 DEF Replay
<1>6. R \subseteq Uncollected
  BY <1>2
<1> HIDE DEF R
<1> QED
  BY <1>3, <1>4, <1>5, <1>6, OnlyRows

-----------------------------------------------------------------------------
(* The logprobs are collected and returned.                                *)

\* What the table of r holds at position p.
TableAt(r, p) == [i \in 1 .. PromptLen[r] - 1 |-> IF i < p THEN Tokens(r, i) ELSE None]

LEMMA TableIs ==
  ASSUME NEW r \in Req, NEW p \in Nat
  PROVE  /\ TableAt(r, p) \in Seq(Texts \cup {None})
         /\ DOMAIN TableAt(r, p) = 1 .. PromptLen[r] - 1
         /\ EmptyTable(r) = TableAt(r, 1)
         /\ p >= PromptLen[r] => TableAt(r, p) = Full(r)
<1>1. PromptLen[r] - 1 \in Nat /\ PromptLen[r] \in Nat
  BY Constants
<1>2. \A i \in 1 .. PromptLen[r] - 1 : Tokens(r, i) \in Texts
  BY <1>1, TokensAre
<1>3. TableAt(r, p) \in [1 .. PromptLen[r] - 1 -> Texts \cup {None}]
  BY <1>2 DEF TableAt
<1>4. TableAt(r, p) \in Seq(Texts \cup {None})
  BY <1>1, <1>3
<1>5. \A i \in 1 .. PromptLen[r] - 1 : ~(i < 1) /\ (p >= PromptLen[r] => i < p)
  BY <1>1
<1> QED
  BY <1>3, <1>4, <1>5 DEF TableAt, EmptyTable, Full

\* The new position and table follow each other, and no position up to the row's end is
\* left behind.
LEMMA AccumulatedIs ==
  ASSUME TypeInv, NEW r \in Uncollected, r \in InStep, RequestInv(r), ~Unfinished(r),
         ~NeedsReplay(r)
  PROVE  LET a == Accumulated(r)
         IN  /\ a.pos \in Nat /\ a.pos >= 1 /\ a.pos <= PromptLen[r]
             /\ r \in Wants => a.pos >= EndPos(r)
             /\ a.table = None \/ (r \in Wants /\ a.table = TableAt(r, a.pos))
             /\ a.table = None /\ r \in Wants /\ PromptLen[r] > 1 =>
                  pos[r] = a.pos /\ table[r] = None
             /\ a.table = None /\ r \in Wants => a.pos \in {1, PromptLen[r]}
<1> DEFINE start == row[r].start
           end == EndPos(r)
           p == pos[r]
           first == FirstPos(r)
           new == first .. end - 1
           old == IF table[r] = None THEN EmptyTable(r) ELSE table[r]
           stays == [pos |-> p, table |-> table[r]]
<1>1. /\ r \in Req /\ row[r].at \in Nat /\ start \in Nat /\ row[r].end \in Nat
      /\ end \in Nat \ {0} /\ end <= row[r].end + 1 /\ end <= PromptLen[r]
      /\ PromptLen[r] \in Nat \ {0} /\ Len(row[r].kept) \in Nat
  BY RowIs
<1>2. p \in Nat /\ p >= 1 /\ p <= PromptLen[r]
  BY <1>1 DEF TypeInv, RequestInv, PositionInv
<1>3. row[r].at = row[r].end
  <2>1. row[r].at <= row[r].end /\ ~(row[r].at < row[r].end)
    BY DEF RequestInv, RowInv, Unfinished
  <2> QED
    BY <1>1, <2>1
<1>4. ASSUME r \in Wants
      PROVE  /\ p >= Smaller(start + 1, PromptLen[r])
             /\ p >= PromptLen[r] \/ first = p
             /\ first >= end => p >= end
             /\ p < end => first = p
  <2>1. p >= Smaller(start + 1, PromptLen[r])
    BY <1>4 DEF RequestInv, PositionInv
  <2>2. first = Larger(Larger(1, start + 1), p)
    BY DEF FirstPos
  <2> HIDE DEF first, p, start, end
  <2> QED
    BY <1>1, <1>2, <2>1, <2>2 DEF Smaller, Larger
<1>5. table[r] = None \/ (r \in Wants /\ table[r] = TableAt(r, p))
  BY DEF RequestInv, TableInv, TableAt
<1>6. table[r] = None /\ r \in Wants => p \in {1, PromptLen[r]}
  BY DEF RequestInv, TableInv
<1>7. stays.pos = p /\ stays.table = table[r]
  OBVIOUS
<1>8. CASE r \notin Wants
  <2>1. Accumulated(r) = stays
    BY <1>8 DEF Accumulated
  <2> HIDE DEF stays, p, end
  <2> QED
    BY <1>2, <1>5, <1>7, <1>8, <2>1
<1>9. CASE r \in Wants /\ row[r].bare
  <2>1. Accumulated(r) = stays
    BY <1>9 DEF Accumulated
  <2>2. ~(p < PromptLen[r]) \/ ~(first < end)
    BY <1>9 DEF NeedsReplay
  <2>3. first \in Int
    BY <1>1, <1>2 DEF FirstPos, Larger
  <2> HIDE DEF stays, p, end, first
  <2>4. p >= end
    BY <1>1, <1>2, <1>4, <1>9, <2>2, <2>3
  <2>5. Accumulated(r).pos = p /\ Accumulated(r).table = table[r]
    BY <1>7, <2>1
  <2> USE DEF p, end
  <2> QED
    BY <1>2, <1>5, <1>6, <1>9, <2>4, <2>5
<1>10. CASE r \in Wants /\ ~row[r].bare /\ PromptLen[r] <= 1
  <2>1. PromptLen[r] = 1 /\ end = 1 /\ p = 1
    BY <1>1, <1>2, <1>10
  <2>2. Accumulated(r) = [pos |-> PromptLen[r], table |-> old]
    BY <1>10 DEF Accumulated
  <2>3. [pos |-> PromptLen[r], table |-> old].pos = 1
        /\ [pos |-> PromptLen[r], table |-> old].table = old
    BY <2>1
  <2>4. old = TableAt(r, 1)
    BY <1>5, <2>1, TableIs, <1>1
  <2>5. ~(1 > 1) /\ 1 \in Nat /\ 1 >= 1 /\ 1 <= 1
    OBVIOUS
  <2>6. Accumulated(r).pos = 1 /\ Accumulated(r).table = old
    BY <2>2, <2>3
  <2> HIDE DEF old
  <2> QED
    BY <1>10, <2>1, <2>4, <2>5, <2>6
<1>11. CASE r \in Wants /\ ~row[r].bare /\ ~(PromptLen[r] <= 1) /\ new = {}
  <2>1. Accumulated(r) = stays
    BY <1>11 DEF Accumulated
  <2>2. first \in Int
    BY <1>1, <1>2 DEF FirstPos, Larger
  <2> HIDE DEF stays, p, end, first
  <2>3. first >= end
    <3>1. first \notin new
      BY <1>11
    <3> QED
      BY <1>1, <2>2, <3>1
  <2>4. p >= end
    BY <1>4, <1>11, <2>3
  <2>5. Accumulated(r).pos = p /\ Accumulated(r).table = table[r]
    BY <1>7, <2>1
  <2> USE DEF p, end
  <2> QED
    BY <1>2, <1>5, <1>6, <1>11, <2>4, <2>5
<1>12. CASE r \in Wants /\ ~row[r].bare /\ ~(PromptLen[r] <= 1) /\ new # {}
  <2>1. first \in Int
    BY <1>1, <1>2 DEF FirstPos, Larger
  <2>2. first < end
    <3>1. PICK i \in first .. end - 1 : TRUE
      BY <1>12
    <3> HIDE DEF first, end
    <3> QED
      BY <1>1, <2>1, <3>1
  <2>3. first >= start + 1
    BY <1>1, <1>2 DEF FirstPos, Larger
  <2>4. first = p /\ p < end
    <3>1. r \in Wants
      BY <1>12
    <3>2. /\ p >= PromptLen[r] \/ first = p
          /\ p < end => first = p
      BY <1>4, <3>1
    <3>3. first >= p
      BY <1>1, <1>2 DEF FirstPos, Larger
    <3> HIDE DEF first, end, p
    <3> QED
      BY <1>1, <1>2, <2>1, <2>2, <3>2, <3>3
  <2>5. /\ Len(row[r].kept) >= end - 1 - start
        /\ \A i \in 1 .. Len(row[r].kept) : row[r].kept[i] = Tokens(r, start + i)
    <3>1. /\ Len(row[r].kept) >= Smaller(row[r].at, end - 1) - start
          /\ \A i \in 1 .. Len(row[r].kept) : row[r].kept[i] = Tokens(r, start + i)
      BY <1>12 DEF RequestInv, KeptInv
    <3>2. Smaller(row[r].at, end - 1) = end - 1
      BY <1>1, <1>3 DEF Smaller
    <3> QED
      BY <3>1, <3>2
  <2>6. CoversRows(r)
    <3> HIDE DEF start, end
    <3>1. end - start - 1 <= Len(row[r].kept)
      BY <1>1, <2>5
    <3> QED
      BY <3>1 DEF CoversRows, start, end
  <2> DEFINE t == [i \in DOMAIN old |-> IF i \in new THEN PositionLogits(r, i) ELSE old[i]]
             x == [pos |-> end, table |-> t]
  <2>7. Accumulated(r) = x
    BY <1>12, <2>6 DEF Accumulated
  <2>8. old = TableAt(r, p)
    <3>1. CASE table[r] = None
      <4>1. p = 1
        BY <1>1, <1>6, <1>12, <2>4, <3>1
      <4> QED
        BY <1>1, <3>1, <4>1, TableIs
    <3>2. CASE table[r] # None
      BY <1>5, <3>2
    <3> QED
      BY <3>1, <3>2
  <2>9. DOMAIN old = 1 .. PromptLen[r] - 1
    BY <1>1, <1>2, <2>8, TableIs
  <2>10. ASSUME NEW i \in 1 .. PromptLen[r] - 1
         PROVE  (IF i \in new THEN PositionLogits(r, i) ELSE old[i])
                  = IF i < end THEN Tokens(r, i) ELSE None
    <3>1. CASE i \in new
      <4>1. i - start \in 1 .. Len(row[r].kept) /\ start + (i - start) = i /\ i < end
        <5> HIDE DEF first, start, end
        <5> QED
          BY <1>1, <2>1, <2>3, <2>5, <3>1
      <4>2. row[r].kept[i - start] = Tokens(r, i)
        BY <2>5, <4>1
      <4> QED
        BY <3>1, <4>1, <4>2 DEF PositionLogits
    <3>2. CASE i \notin new
      <4>1. old[i] = IF i < p THEN Tokens(r, i) ELSE None
        BY <2>8 DEF TableAt
      <4>2. i < p <=> i < end
        <5> HIDE DEF first, p, end
        <5> QED
          BY <1>1, <1>2, <2>1, <2>4, <3>2
      <4> HIDE DEF p, end, old, new
      <4> QED
        BY <3>2, <4>1, <4>2
    <3> QED
      BY <3>1, <3>2
  <2>11. t = TableAt(r, end)
    <3> HIDE DEF old, new, end
    <3> QED
      BY <2>9, <2>10 DEF TableAt
  <2>12. t # None
    <3>1. end \in Nat
      BY <1>1
    <3> HIDE DEF t, end
    <3> QED
      BY <1>1, <2>11, <3>1, TableIs, NoneIsApart
  <2>13. x.pos = end /\ x.table = t
    OBVIOUS
  <2>14. end >= 1 /\ end <= PromptLen[r] /\ end \in Nat /\ end >= end
    BY <1>1
  <2> HIDE DEF x, t
  <2>15. Accumulated(r).pos = end /\ Accumulated(r).table = t
    BY <2>7, <2>13
  <2> QED
    BY <1>12, <2>11, <2>12, <2>14, <2>15
<1> QED
  BY <1>8, <1>9, <1>10, <1>11, <1>12

\* Collected rows no longer wait.
LEMMA CollectedRows ==
  ASSUME TypeInv, QueueInv, Current # {}, queue' = IF batch THEN <<>> ELSE Tail(queue)
  PROVE  /\ queue' \in Seq(Req)
         /\ Uncollected' = Uncollected \ Current
         /\ \A i, j \in 1 .. Len(queue') : queue'[i] = queue'[j] => i = j
<1>1. queue \in Seq(Req) /\ Len(queue) \in Nat
  BY LenProperties DEF TypeInv
<1>2. CASE batch
  <2>1. Current = Uncollected
    BY <1>2 DEF Current, Uncollected
  <2>2. queue' = <<>> /\ Len(queue') = 0
    BY <1>2, EmptyQueue
  <2>3. Uncollected' = {}
    BY <2>2 DEF Uncollected
  <2>4. ASSUME NEW i \in 1 .. Len(queue') PROVE FALSE
    <3>1. i \in 1 .. 0
      BY <2>2, Zenon
    <3> QED
      BY <3>1, SMT
  <2>5. queue' \in Seq(Req) /\ Uncollected' = Uncollected \ Current
    BY <2>1, <2>2, <2>3, EmptyQueue
  <2> QED
    BY <2>4, <2>5
<1>3. CASE ~batch
  <2>1. queue # <<>> /\ Current = {Head(queue)} /\ queue' = Tail(queue)
    BY <1>3 DEF Current
  <2>2. Len(queue) >= 1 /\ Head(queue) = queue[1]
    BY <1>1, <2>1, EmptySeq
  <2>3. /\ queue' \in Seq(Req) /\ Len(queue') = Len(queue) - 1
        /\ \A i \in 1 .. Len(queue') : queue'[i] = queue[i + 1]
    BY <1>1, <2>1, HeadTailProperties
  <2>4. \A i, j \in 1 .. Len(queue) : queue[i] = queue[j] => i = j
    BY DEF QueueInv
  <2>5. \A i \in 1 .. Len(queue') : i + 1 \in 1 .. Len(queue) /\ i + 1 # 1
    BY <1>1, <2>3
  <2>6. ASSUME NEW i \in 1 .. Len(queue), i # 1
        PROVE  i - 1 \in 1 .. Len(queue') /\ (i - 1) + 1 = i
    <3>1. i - 1 \in 1 .. Len(queue) - 1 /\ (i - 1) + 1 = i
      BY <1>1, <2>6
    <3> QED
      BY <2>3, <3>1
  <2>7. Uncollected' = Uncollected \ Current
    <3>1. ASSUME NEW q \in Uncollected' PROVE q \in Uncollected \ Current
      <4>1. PICK i \in 1 .. Len(queue') : q = queue'[i]
        BY <3>1 DEF Uncollected
      <4>2. q = queue[i + 1] /\ i + 1 \in 1 .. Len(queue) /\ i + 1 # 1 /\ 1 \in 1 .. Len(queue)
        BY <1>1, <2>2, <2>3, <2>5, <4>1
      <4>3. q # queue[1]
        BY <2>4, <4>2
      <4> QED
        BY <2>1, <2>2, <4>2, <4>3 DEF Uncollected
    <3>2. ASSUME NEW q \in Uncollected \ Current PROVE q \in Uncollected'
      <4>1. PICK i \in 1 .. Len(queue) : q = queue[i]
        BY DEF Uncollected
      <4>2. i # 1
        BY <2>1, <2>2, <4>1
      <4>3. i - 1 \in 1 .. Len(queue') /\ (i - 1) + 1 = i
        BY <2>6, <4>1, <4>2
      <4>4. q = queue'[i - 1]
        BY <2>3, <4>1, <4>3
      <4> QED
        BY <4>3, <4>4 DEF Uncollected
    <3> QED
      BY <3>1, <3>2
  <2>8. ASSUME NEW i \in 1 .. Len(queue'), NEW j \in 1 .. Len(queue'), queue'[i] = queue'[j]
        PROVE  i = j
    <3>1. i + 1 = j + 1
      BY <2>3, <2>4, <2>5, <2>8
    <3> QED
      BY <3>1, <1>1, <2>3
  <2> QED
    BY <2>3, <2>7, <2>8
<1> QED
  BY <1>2, <1>3

LEMMA CollectKeeps ==
  ASSUME Inv, Collect
  PROVE  Inv'
<1> DEFINE after(r) == Accumulated(r)
           popped   == {r \in Current : Completed(r, after(r).pos)}
<1>1. TypeInv /\ QueueInv /\ \A q \in Req : RequestInv(q)
  BY DEF Inv
<1>2. /\ Current # {} /\ \A r \in Current : ~Unfinished(r) /\ ~NeedsReplay(r)
      /\ pos' = [r \in Req |-> IF r \in Current THEN after(r).pos ELSE pos[r]]
      /\ table' = [r \in Req |-> IF r \in popped THEN None
                                 ELSE IF r \in Current THEN after(r).table ELSE table[r]]
      /\ ready' = [r \in Req |-> IF r \in popped THEN after(r).table ELSE ready[r]]
      /\ num' = [r \in Req |-> IF r \in Current THEN row[r].end ELSE num[r]]
      /\ queue' = IF batch THEN <<>> ELSE Tail(queue)
      /\ UNCHANGED <<batch, cache, out, given, row>>
  BY DEF Collect
<1>3. /\ queue' \in Seq(Req) /\ Uncollected' = Uncollected \ Current
      /\ \A i, j \in 1 .. Len(queue') : queue'[i] = queue'[j] => i = j
  BY <1>1, <1>2, CollectedRows
<1>4. ASSUME NEW r \in Current
      PROVE  /\ r \in Uncollected /\ r \in InStep /\ r \in Req /\ RequestInv(r)
             /\ after(r).pos \in Nat /\ after(r).pos >= 1 /\ after(r).pos <= PromptLen[r]
             /\ r \in Wants => after(r).pos >= EndPos(r)
             /\ after(r).table = None \/ (r \in Wants /\ after(r).table = TableAt(r, after(r).pos))
             /\ after(r).table = None /\ r \in Wants /\ PromptLen[r] > 1 =>
                  pos[r] = after(r).pos /\ table[r] = None
             /\ after(r).table = None /\ r \in Wants => after(r).pos \in {1, PromptLen[r]}
  <2>1. r \in Uncollected /\ r \in InStep /\ r \in Req
    BY <1>1, CurrentRows
  <2>2. RequestInv(r)
    BY <1>1, <2>1
  <2> QED
    BY <1>1, <1>2, <2>1, <2>2, AccumulatedIs
<1>5. ASSUME NEW r \in Current PROVE after(r).table \in Seq(Texts \cup {None}) \cup {None}
  BY <1>4, TableIs
<1>6. popped \subseteq Current
  OBVIOUS
<1>7. \A r \in popped : Samples(r) /\ r \in Wants /\ after(r).pos >= PromptLen[r]
  BY DEF Completed
<1>8. \A r \in Current : Samples(r) /\ r \in Wants /\ after(r).pos >= PromptLen[r] => r \in popped
  BY DEF Completed
<1> HIDE DEF after, popped
<1>9. InStep' = InStep
  BY <1>2 DEF InStep
<1>10. TypeInv'
  <2>1. num' \in [Req -> Nat] /\ pos' \in [Req -> Nat]
    <3>1. ASSUME NEW r \in Current PROVE row[r].end \in Nat
      BY <1>1, <1>4, RowIs
    <3> QED
      BY <1>1, <1>2, <1>4, <3>1 DEF TypeInv
  <2>2. table' \in [Req -> Seq(Texts \cup {None}) \cup {None}]
    BY <1>1, <1>2, <1>5, <1>6 DEF TypeInv
  <2>3. ready' \in [Req -> Seq(Texts \cup {None}) \cup {None}]
    BY <1>1, <1>2, <1>5, <1>6 DEF TypeInv
  <2> QED
    BY <1>1, <1>2, <1>3, <2>1, <2>2, <2>3 DEF TypeInv
<1>11. QueueInv'
  BY <1>1, <1>3, <1>9 DEF QueueInv
<1>12. ASSUME NEW r \in Req, r \notin Current PROVE RequestInv(r)'
  <2>1. /\ pos'[r] = pos[r] /\ table'[r] = table[r] /\ ready'[r] = ready[r] /\ num'[r] = num[r]
    BY <1>2, <1>6, <1>12
  <2>2. (r \in Uncollected)' <=> r \in Uncollected
    BY <1>3, <1>12
  <2> QED
    BY <1>1, <1>2, <2>1, <2>2, Unmoved
<1>13. ASSUME NEW r \in Current PROVE RequestInv(r)'
  <2> DEFINE a == after(r)
  <2>1. /\ r \in Uncollected /\ r \in InStep /\ r \in Req /\ RequestInv(r) /\ r \notin Uncollected'
    BY <1>3, <1>4
  <2>2. /\ row[r].start \in Nat /\ row[r].at \in Nat /\ row[r].end \in Nat /\ row[r].at = row[r].end
        /\ PromptLen[r] \in Nat \ {0} /\ row[r].start < row[r].end
    <3>1. /\ row[r].start \in Nat /\ row[r].at \in Nat /\ row[r].end \in Nat
          /\ PromptLen[r] \in Nat \ {0}
      BY <1>1, <2>1, RowIs
    <3>2. row[r].at <= row[r].end /\ ~(row[r].at < row[r].end) /\ row[r].start < row[r].end
      BY <1>2, <2>1 DEF RequestInv, RowInv, Unfinished
    <3> QED
      BY <3>1, <3>2
  <2>3. /\ pos'[r] = a.pos /\ num'[r] = row[r].end /\ row'[r] = row[r] /\ given'[r] = given[r]
        /\ table'[r] = IF r \in popped THEN None ELSE a.table
        /\ ready'[r] = IF r \in popped THEN a.table ELSE ready[r]
    BY <1>2, <2>1
  <2>4. ready[r] = None
    BY <2>1 DEF RequestInv, AnswerInv
  <2>5. RowInv(r)'
    BY <1>2, <1>9, <2>1, <2>2, <2>3 DEF RequestInv, RowInv
  <2>6. KeptInv(r)'
    <3>1. EndPos(r)' = EndPos(r) /\ ~Unfinished(r)'
      <4>1. ~Unfinished(r)
        BY <1>2
      <4> QED
        BY <2>3, <4>1 DEF EndPos, Unfinished
    <3>2. ~Unfinished(r)
      BY <1>2
    <3> QED
      BY <1>9, <2>1, <2>3, <3>1, <3>2 DEF RequestInv, KeptInv
  <2>7. PositionInv(r)'
    <3>1. r \in Wants => a.pos >= Smaller(row[r].end + 1, PromptLen[r])
      BY <1>4 DEF EndPos
    <3>2. a.pos >= 1 /\ a.pos <= PromptLen[r]
      BY <1>4
    <3> QED
      BY <1>9, <2>1, <2>3, <3>1, <3>2 DEF PositionInv
  <2>8. r \in popped => a.pos = PromptLen[r]
    <3>1. r \in popped => a.pos >= PromptLen[r]
      BY <1>7
    <3>2. a.pos <= PromptLen[r] /\ a.pos \in Nat
      BY <1>4
    <3> HIDE DEF a
    <3> QED
      BY <2>2, <3>1, <3>2
  <2>9. TableInv(r)'
    <3>1. CASE r \in popped
      BY <2>3, <2>8, <3>1 DEF TableInv
    <3>2. CASE r \notin popped /\ a.table = None
      <4>1. r \in Wants => a.pos \in {1, PromptLen[r]}
        BY <1>4, <3>2
      <4> QED
        BY <2>3, <3>2, <4>1 DEF TableInv
    <3>3. CASE r \notin popped /\ a.table # None
      <4>1. r \in Wants /\ a.table = TableAt(r, a.pos)
        BY <1>4, <3>3
      <4> QED
        BY <2>3, <3>3, <4>1 DEF TableInv, TableAt
    <3> QED
      BY <3>1, <3>2, <3>3
  <2>10. AnswerInv(r)'
    <3>1. Samples(r)' <=> Samples(r)
      BY <2>3 DEF Samples
    <3>2. ready'[r] # None =>
            /\ r \in InStep' \ Uncollected' /\ r \in Wants /\ Samples(r)' /\ ready'[r] = Full(r)
      <4>1. SUFFICES ASSUME ready'[r] # None
                     PROVE  r \in Wants /\ Samples(r)' /\ ready'[r] = Full(r)
        BY <1>9, <2>1
      <4>2. r \in popped /\ ready'[r] = a.table /\ a.table # None
        BY <2>3, <2>4, <4>1
      <4>3. a.table = TableAt(r, a.pos) /\ a.pos \in Nat
        BY <1>4, <4>2
      <4>4. a.pos >= PromptLen[r]
        BY <1>7, <4>2
      <4>5. TableAt(r, a.pos) = Full(r)
        <5> HIDE DEF a
        <5> QED
          BY <2>1, <4>3, <4>4, TableIs
      <4> QED
        BY <1>7, <3>1, <4>2, <4>3, <4>5
    <3>3. r \in Wants /\ pos'[r] = PromptLen[r] /\ PromptLen[r] > 1 =>
            table'[r] # None \/ ready'[r] # None \/ given'[r] = Full(r)
      <4>1. SUFFICES ASSUME r \in Wants, a.pos = PromptLen[r], PromptLen[r] > 1, a.table = None
                     PROVE  given[r] = Full(r)
        BY <2>3
      <4>2. pos[r] = PromptLen[r] /\ table[r] = None
        BY <1>4, <4>1
      <4> QED
        BY <2>1, <2>4, <4>1, <4>2 DEF RequestInv, AnswerInv
    <3>4. r \in Wants /\ Samples(r)' => table'[r] = None /\ pos'[r] = PromptLen[r]
      <4>1. SUFFICES ASSUME r \in Wants, Samples(r) PROVE r \in popped
        BY <2>3, <2>8, <3>1
      <4>2. EndPos(r) = PromptLen[r]
        BY <2>2, <4>1 DEF EndPos, Samples, Smaller
      <4>3. a.pos >= PromptLen[r]
        BY <1>4, <4>1, <4>2
      <4> QED
        BY <1>8, <4>1, <4>3
    <3> QED
      BY <3>2, <3>3, <3>4 DEF AnswerInv
  <2> QED
    BY <2>5, <2>6, <2>7, <2>9, <2>10 DEF RequestInv
<1> QED
  BY <1>10, <1>11, <1>12, <1>13 DEF Inv

LEMMA ReturnKeeps ==
  ASSUME Inv, Return
  PROVE  Inv'
<1>1. TypeInv /\ QueueInv /\ \A q \in Req : RequestInv(q)
  BY DEF Inv
<1>2. /\ queue = <<>>
      /\ out' = [r \in Req |-> IF r \in InStep /\ Samples(r) THEN out[r] + 1 ELSE out[r]]
      /\ given' = [r \in Req |-> IF ready[r] # None THEN ready[r] ELSE given[r]]
      /\ ready' = NoRows /\ row' = NoRows
      /\ UNCHANGED <<batch, num, pos, table, cache, queue>>
  BY DEF Return
<1>3. /\ \A r \in Req : row'[r] = None /\ ready'[r] = None
      /\ \A r \in Req : r \notin InStep'
      /\ InStep' = {}
  BY <1>2 DEF NoRows, InStep
<1>4. Uncollected = {} /\ Uncollected' = {}
  BY <1>2, EmptyQueue DEF Uncollected
<1>5. TypeInv'
  <2>1. out' \in [Req -> Nat]
    BY <1>1, <1>2 DEF TypeInv
  <2>2. given' \in [Req -> Seq(Texts \cup {None}) \cup {None}]
    BY <1>1, <1>2 DEF TypeInv
  <2> QED
    BY <1>1, <1>2, <2>1, <2>2 DEF TypeInv, NoRows
<1>6. QueueInv'
  <2>1. \A i, j \in 1 .. Len(queue') : queue'[i] = queue'[j] => i = j
    BY <1>1, <1>2 DEF QueueInv
  <2> QED
    BY <1>4, <2>1 DEF QueueInv
<1>7. ASSUME NEW r \in Req PROVE RequestInv(r)'
  <2>1. RequestInv(r) /\ r \notin InStep' /\ r \notin Uncollected /\ r \notin Uncollected'
    BY <1>1, <1>3, <1>4
  <2>2. cache'[r] = cache[r] /\ pos'[r] = pos[r] /\ table'[r] = table[r] /\ num'[r] = num[r]
    BY <1>2
  <2>3. RowInv(r)'
    BY <2>1, <2>2 DEF RequestInv, RowInv
  <2>4. KeptInv(r)' /\ TableInv(r)'
    BY <2>1, <2>2 DEF RequestInv, KeptInv, TableInv
  <2>5. PositionInv(r)'
    <3>1. num[r] = 0 => pos[r] = 1
      <4>1. CASE r \in InStep
        <5>1. num[r] = row[r].end /\ row[r].start < row[r].end
          BY <2>1, <4>1 DEF RequestInv, RowInv
        <5>2. row[r].start \in Nat /\ row[r].end \in Nat
          BY <1>1, <4>1, RowIs
        <5> QED
          BY <5>1, <5>2
      <4>2. CASE r \notin InStep
        BY <2>1, <4>2 DEF RequestInv, PositionInv
      <4> QED
        BY <4>1, <4>2
    <3> QED
      BY <2>1, <2>2, <3>1 DEF RequestInv, PositionInv
  <2>6. AnswerInv(r)'
    <3>1. r \in Wants /\ pos'[r] = PromptLen[r] /\ PromptLen[r] > 1 =>
            table'[r] # None \/ given'[r] = Full(r)
      <4>1. ready[r] # None => ready[r] = Full(r)
        BY <2>1 DEF RequestInv, AnswerInv
      <4> QED
        BY <1>2, <2>1, <2>2, <4>1 DEF RequestInv, AnswerInv
    <3> QED
      BY <1>3, <2>1, <3>1 DEF AnswerInv
  <2> QED
    BY <2>3, <2>4, <2>5, <2>6 DEF RequestInv
<1> QED
  BY <1>5, <1>6, <1>7 DEF Inv

LEMMA NextKeeps == Inv /\ [Next]_vars => Inv'
<1> SUFFICES ASSUME Inv, [Next]_vars PROVE Inv'
  OBVIOUS
<1>1. ASSUME NEW r \in Req, NEW n \in 0 .. Known(r) - 1, NEW start \in 0 .. n,
             NEW end \in n + 1 .. Known(r), NEW micro \in BOOLEAN,
             ScheduleRow(r, n, micro, start, end)
      PROVE  Inv'
  <2>1. PromptLen[r] \in Nat /\ out[r] \in Nat
    BY Constants DEF Inv, TypeInv
  <2>2. n \in Nat /\ end \in Nat /\ end >= n + 1
    BY <2>1 DEF Known
  <2> QED
    BY <1>1, <2>2, ScheduleKeeps
<1>2. ASSUME NEW all \in KeepsAll, NormalPiece(all) PROVE Inv'
  BY <1>2, NormalPieceKeeps
<1>3. CASE UNCHANGED vars
  <2>1. TypeInv' /\ QueueInv'
    BY <1>3 DEF Inv, vars, TypeInv, QueueInv, Uncollected, InStep
  <2>2. ASSUME NEW r \in Req PROVE RequestInv(r)'
    <3>1. (r \in Uncollected)' <=> r \in Uncollected
      BY <1>3 DEF vars, Uncollected
    <3> QED
      BY <1>3, <3>1, Unmoved DEF Inv, vars
  <2> QED
    BY <2>1, <2>2 DEF Inv
<1>4. CASE AllAnswered
  BY <1>3, <1>4 DEF AllAnswered
<1> QED
  BY <1>1, <1>2, <1>3, <1>4, MicrostepKeeps, ReplayKeeps, CollectKeeps, ReturnKeeps DEF Next

LEMMA AlwaysInv == Spec => []Inv
<1> QED
  BY InitInv, NextKeeps, PTL DEF Spec

-----------------------------------------------------------------------------
(* The theorems.                                                           *)

\* However a row is cut into pieces, microsteps and replays, its cache advances over its
\* own tokens, and its last logits are those of all tokens up to its scheduled end.
THEOREM RowsAlwaysRunWhole == Spec => []RowsRunWhole
<1>1. Inv => RowsRunWhole
  <2> SUFFICES ASSUME Inv PROVE RowsRunWhole
    OBVIOUS
  <2>1. \A r \in Req : cache[r] = Tokens(r, Len(cache[r]))
    BY DEF Inv, RequestInv, RowInv
  <2>2. ASSUME NEW r \in InStep
        PROVE  /\ Len(cache[r]) = row[r].at
               /\ row[r].at = row[r].end => row[r].last = Tokens(r, row[r].end)
    <3>1. TypeInv /\ r \in Req /\ RowInv(r)
      BY DEF Inv, RequestInv, InStep
    <3>2. row[r].start \in Nat /\ row[r].at \in Nat /\ row[r].end \in Nat
      BY <3>1, RowIs
    <3> QED
      BY <3>1, <3>2 DEF RowInv
  <2> QED
    BY <2>1, <2>2 DEF RowsRunWhole
<1> QED
  BY <1>1, AlwaysInv, PTL

\* The positions below next_prompt_logprob_pos, and only they, have their logprobs, each
\* from exactly the tokens before it.
THEOREM TableAlwaysFollowsPosition == Spec => []TableFollowsPosition
<1>1. Inv => TableFollowsPosition
  <2> SUFFICES ASSUME Inv, NEW r \in Wants
               PROVE  IF table[r] = None THEN pos[r] \in {1, PromptLen[r]}
                      ELSE \A i \in DOMAIN table[r] :
                             table[r][i] = IF i < pos[r] THEN Tokens(r, i) ELSE None
    BY DEF TableFollowsPosition
  <2>1. TableInv(r)
    BY RequestAssumption DEF Inv, RequestInv
  <2> QED
    BY <2>1 DEF TableInv
<1> QED
  BY <1>1, AlwaysInv, PTL

\* What the step's answer means for the promise.
LEMMA ReturnEchoes ==
  ASSUME Inv, Return
  PROVE  Promise!Return({r \in InStep : Samples(r)})
<1> DEFINE R == {r \in InStep : Samples(r)}
           promised == [r \in Req |-> IF PromptLen[r] = 1 THEN None ELSE given[r]]
           next == [r \in Req |-> IF PromptLen[r] = 1 THEN None ELSE given'[r]]
<1>1. out' = [r \in Req |-> IF r \in R THEN out[r] + 1 ELSE out[r]]
  BY DEF Return
<1>2. \A r \in Req : given'[r] = IF ready[r] # None THEN ready[r] ELSE given[r]
  BY DEF Return
<1>3. Uncollected = {}
  BY EmptyQueue DEF Return, Uncollected
<1>4. ASSUME NEW r \in Req, PromptLen[r] # 1
      PROVE  given'[r] = IF r \in R \cap Wants THEN Full(r) ELSE given[r]
  <2>1. AnswerInv(r) /\ PromptLen[r] > 1
    BY <1>4, Constants DEF Inv, RequestInv
  <2>2. CASE r \in R \cap Wants
    <3>1. table[r] = None /\ pos[r] = PromptLen[r]
      BY <1>3, <2>1, <2>2 DEF AnswerInv
    <3>2. ready[r] # None \/ given[r] = Full(r)
      BY <2>1, <2>2, <3>1 DEF AnswerInv
    <3>3. ready[r] # None => ready[r] = Full(r)
      BY <2>1 DEF AnswerInv
    <3> QED
      BY <1>2, <2>2, <3>2, <3>3
  <2>3. CASE r \notin R \cap Wants
    <3>1. ready[r] = None
      BY <2>1, <2>3 DEF AnswerInv
    <3> QED
      BY <1>2, <2>3, <3>1
  <2> QED
    BY <2>2, <2>3
<1>5. ASSUME NEW r \in Req, PromptLen[r] # 1 PROVE Promise!Echo(r) = Full(r)
  BY <1>5 DEF Promise!Echo, Promise!FirstTokens, Promise!Token, Full, Tokens, Token
<1>6. ASSUME NEW r \in Req, PromptLen[r] = 1 PROVE Promise!Echo(r) = None
  BY <1>6 DEF Promise!Echo
<1>7. next = [r \in Req |-> IF r \in R \cap Wants THEN Promise!Echo(r) ELSE promised[r]]
  <2>1. ASSUME NEW r \in Req
        PROVE  (IF PromptLen[r] = 1 THEN None ELSE given'[r])
                 = IF r \in R \cap Wants THEN Promise!Echo(r)
                   ELSE IF PromptLen[r] = 1 THEN None ELSE given[r]
    BY <1>4, <1>5, <1>6
  <2> QED
    BY <2>1, Zenon
<1> QED
  BY <1>1, <1>7 DEF Promise!Return

\* A request's prompt logprobs come with its first token, complete, and never change,
\* over chunks, prefix hits, preemptions, microsteps and replays.
THEOREM PromptsAreEchoed == Spec => EchoesPrompts
<1>1. Init => Promise!Init
  BY DEF Init, NoRows, Promise!Init
<1>2. Inv /\ [Next]_vars => [Promise!Next]_(Promise!vars)
  <2> SUFFICES ASSUME Inv, [Next]_vars PROVE Promise!Next \/ UNCHANGED Promise!vars
    OBVIOUS
  <2>1. CASE Return
    <3> DEFINE R == {r \in InStep : Samples(r)}
    <3>1. R \in SUBSET Req
      BY DEF InStep
    <3>2. Promise!Return(R)
      BY <2>1, ReturnEchoes
    <3> HIDE DEF R
    <3> QED
      BY <3>1, <3>2, Zenon DEF Promise!Next, Promise!Return
  <2>2. CASE ~Return
    <3>1. out' = out /\ given' = given
      BY <2>2 DEF Next, ScheduleRow, NormalPiece, Microstep, Replay, Collect, AllAnswered, vars
    <3> QED
      BY <3>1 DEF Promise!vars
  <2> QED
    BY <2>1, <2>2
<1> QED
  BY <1>1, <1>2, AlwaysInv, PTL DEF Spec, EchoesPrompts, Promise!Spec
=============================================================================
