----------------------------- MODULE HostSampling -----------------------------
(***************************************************************************)
(* Sampling the rows of a batch: the flags _make_sampling_metadata derives *)
(* from all of them, and HostTopKTopPSampler.  Instead of sorting the      *)
(* vocabulary as vLLM does, that looks at the few most likely tokens,      *)
(* proves from them that they decide the row, and otherwise widens the     *)
(* search or asks vLLM's own mask.                                         *)
(*                                                                         *)
(* A logit is represented by its weight (exp, at the row's temperature), a *)
(* natural number; 0 is a logit of minus infinity.  Probabilities are      *)
(* exact; where vLLM's sums may be rounded, its mask is any that rounding  *)
(* allows.                                                                 *)
(***************************************************************************)
EXTENDS Integers, FiniteSetsExt, SequencesExt

CONSTANTS
  Vocab,        \* the number of tokens
  Batches,      \* sequences of rows [weight, topK, p, zero]: their logits, top_k and top_p
                \* (out of One), and whether their temperature is 0
  One,          \* the denominator of the p
  Rounding,     \* how far, out of One, vLLM's cumulative sums may be off
  Candidates,   \* TOP_P_CANDIDATES
  Second        \* the least size of the second top-k pass

Token == 1 .. Vocab

ASSUME SamplingAssumption ==
  /\ Vocab \in Nat \ {0} /\ One \in Nat \ {0} /\ Rounding \in Nat /\ Second \in Nat \ {0}
  /\ Candidates \in Seq(Nat \ {0})
  /\ \A rows \in Batches : \A i \in DOMAIN rows :
       /\ rows[i].weight \in [Token -> Nat] /\ \E t \in Token : rows[i].weight[t] > 0
       /\ rows[i].topK \in 0 .. Vocab /\ rows[i].p \in 1 .. One /\ rows[i].zero \in BOOLEAN

VARIABLES
  rows,
  left,     \* for each row, the sizes of the searches still to try
  draw      \* for each row: the list it is drawn from and how much of that is kept

samplingVars == <<rows, left, draw>>

Row == DOMAIN rows

-----------------------------------------------------------------------------
(* A list to draw from: weights in order, each with its token.             *)

Scored(weight, t) == [token |-> t, weight |-> weight[t]]

\* The weight of the first n of a list.
Mass(list, n) ==
  LET mass[i \in 0 .. n] == IF i = 0 THEN 0 ELSE mass[i - 1] + list[i].weight
  IN  mass[n]

\* The most likely tokens of T; those of no weight are not told apart.
MostLikely(weight, T) ==
  LET best == Max({weight[t] : t \in T})
  IN  IF best = 0 THEN {Min(T)} ELSE {t \in T : weight[t] = best}

\* The tokens not in a list.
Rest(list) == Token \ {list[i].token : i \in DOMAIN list}

OneMore(weight, lists) ==
  UNION {{Append(list, Scored(weight, t)) : t \in MostLikely(weight, Rest(list))} : list \in lists}

\* The lists topk may give of the n most likely tokens: ties in any order.
Top(weight, n) ==
  LET tops[m \in 0 .. n] == IF m = 0 THEN {<<>>} ELSE OneMore(weight, tops[m - 1])
  IN  tops[n]

Sorted(weight) == Top(weight, Vocab)

\* In the vocabulary's order, without the tokens outside T.
Masked(weight, T) ==
  [t \in Token |-> [token |-> t, weight |-> IF t \in T THEN weight[t] ELSE 0]]

Kept(list, n, by) == [list |-> list, n |-> n, by |-> by]

\* The top_k of _make_cached_sampling_state: none is the whole vocabulary.
K(row) == IF row.topK > 0 THEN row.topK ELSE Vocab

\* The k-th largest of a list, in its order.
Threshold(list, k) == list[k].weight

\* A list with what top-k drops weighing nothing.
TopK(list, k) ==
  [i \in DOMAIN list |->
     IF list[i].weight >= Threshold(list, k) THEN list[i] ELSE [list[i] EXCEPT !.weight = 0]]

(***************************************************************************)
(* vLLM's mask: sort ascending, drop what is below the k-th largest, then  *)
(* what has a cumulative mass of at most 1 - p, but for the last.  In a    *)
(* descending list, the mass up to and including an entry is the mass of   *)
(* what is not before it.                                                  *)
(***************************************************************************)
Ascending(list, i) == Mass(list, Len(list)) - Mass(list, i - 1)

Cutoff(list, p) == (One - p) * Mass(list, Len(list))

TokensIn(list, n) == {list[i].token : i \in {j \in 1 .. n : list[j].weight > 0}}

\* The numbers of tokens it may keep of a sorted list, its sums off by up to slack.
CutsOff(list, p, slack) ==
  {n \in DOMAIN list :
     /\ n > 1 => One * Ascending(list, n) > Cutoff(list, p) - slack * Mass(list, Len(list))
     /\ n < Len(list) => One * Ascending(list, n + 1) <= Cutoff(list, p) + slack * Mass(list, Len(list))}

MasksWithin(row, slack) ==
  UNION {LET top == TopK(list, K(row))
         IN  {TokensIn(top, n) : n \in IF row.p = One THEN {Vocab} ELSE CutsOff(top, row.p, slack)}
         : list \in Sorted(row.weight)}

ReferenceMasks(row) == MasksWithin(row, Rounding)

ExactMasks(row) == MasksWithin(row, 0)

-----------------------------------------------------------------------------
HasK(row) == K(row) < Vocab

HasP(row) == row.p < One

\* The sizes of _sample_top_k's passes, from the largest k of the batch.
TopKSizes(batched) ==
  LET initial == Min({2 * Max({K(batched[i]) : i \in {j \in DOMAIN batched : HasK(batched[j])}}) + 1, Vocab})
      second  == Min({Max({2 * initial, Second}), Vocab})
  IN  IF second = initial THEN <<initial>> ELSE <<initial, second>>

\* The candidates _sample_top_p tries: those before the first that is not a part only.
TopPSizes ==
  SubSeq(Candidates, 1, Max({n \in 0 .. Len(Candidates) : \A i \in 1 .. n : Candidates[i] < Vocab}))

Undrawn == Kept(<<>>, 0, "nothing")

\* Mutant: a temperature of 0 is not enough.
GreedyByTopK(row) == row.topK = 1

\* The rows _make_sampling_metadata counts as greedy.
IsGreedy(row) == row.zero \/ row.topK = 1

AllGreedy == \A r \in Row : IsGreedy(rows[r])

AllRandom == \A r \in Row : ~IsGreedy(rows[r])

SamplingInit ==
  /\ rows \in Batches
  /\ left = [r \in Row |-> IF HasK(rows[r]) THEN TopKSizes(rows)
                            ELSE IF HasP(rows[r]) THEN TopPSizes ELSE <<>>]
  /\ draw = [r \in Row |-> Undrawn]

\* Whether a pass has seen every token that ties with the k-th.
Complete(list, k) == list[Len(list)].weight < Threshold(list, k) \/ Len(list) = Vocab

\* _top_k_nucleus: how many entries are kept, ...
NumKept(list, p) ==
  Max({1} \cup {i \in DOMAIN list : One * Ascending(list, i) > Cutoff(list, p)})

Distance(a, b) == IF a > b THEN a - b ELSE b - a

\* ... and whether vLLM may keep others: a cut through a tie, or one near a sum.
SplitTie(list, p) ==
  /\ NumKept(list, p) < Len(list)
  /\ list[NumKept(list, p)].weight = list[NumKept(list, p) + 1].weight

NearCutoff(list, p) ==
  \E i \in 2 .. Len(list) :
    Distance(One * Ascending(list, i), Cutoff(list, p)) <= Rounding * Mass(list, Len(list))

\* Mutant: a nucleus cut through a tie is as good as any.
UncertainBySumsOnly(list, p) == p < One /\ NearCutoff(list, p)

Uncertain(list, p) == p < One /\ (SplitTie(list, p) \/ NearCutoff(list, p))

-----------------------------------------------------------------------------
\* vLLM's sampler takes the best tokens of a batch that is all greedy, and draws all
\* rows of any other.
Pending(r) == ~AllGreedy /\ draw[r] = Undrawn

\* A batch's rows are searched together, but do not depend on one another.
Searches(r) == Pending(r) /\ left[r] # <<>>

Seen(r) == Top(rows[r].weight, Head(left[r]))

(***************************************************************************)
(* A pass of _sample_top_k draws a row, widens it, or leaves it to vLLM's  *)
(* mask: with fewer than k finite logits, or an ambiguous nucleus.         *)
(***************************************************************************)
SearchTopK(r, list) ==
  LET k   == K(rows[r])
      top == TopK(list, k)
      ask == Threshold(list, k) = 0 \/ (Complete(list, k) /\ Uncertain(top, rows[r].p))
  IN  /\ Searches(r) /\ HasK(rows[r])
      /\ left' = [left EXCEPT ![r] = IF ask THEN <<>> ELSE Tail(@)]
      /\ draw' = IF Complete(list, k) /\ ~ask
                 THEN [draw EXCEPT ![r] = Kept(top, NumKept(top, rows[r].p), "search")] ELSE draw
      /\ UNCHANGED rows

\* _sample_candidates: up to the first token at which the mass reaches p.
Nucleus(list, total, p) == Min({n \in DOMAIN list : One * Mass(list, n) >= p * total})

Covers(list, total, p) == One * Mass(list, Len(list)) >= p * total

\* _sample_top_p, at one of the TOP_P_CANDIDATES.
SearchTopP(r, list) ==
  LET total == Mass(Masked(rows[r].weight, Token), Vocab)
  IN  /\ Searches(r) /\ ~HasK(rows[r])
      /\ left' = [left EXCEPT ![r] = Tail(@)]
      /\ draw' = IF Covers(list, total, rows[r].p)
                 THEN [draw EXCEPT ![r] = Kept(list, Nucleus(list, total, rows[r].p), "search")] ELSE draw
      /\ UNCHANGED rows

\* The rest are drawn from the vocabulary, under vLLM's mask if they filter.
DrawAll(r) ==
  /\ Pending(r) /\ left[r] = <<>>
  /\ \E T \in IF HasK(rows[r]) \/ HasP(rows[r]) THEN ReferenceMasks(rows[r]) ELSE {Token} :
       draw' = [draw EXCEPT ![r] = Kept(Masked(rows[r].weight, T), Vocab, "mask")]
  /\ UNCHANGED <<rows, left>>

\* _inverse_cdf: the entry drawn at a uniform variate times the kept mass.
Pick(list, n, target) == Min({n} \cup {i \in DOMAIN list : Mass(list, i) > target})

AllDrawn == (\A r \in Row : ~Pending(r)) /\ UNCHANGED samplingVars

SamplingNext ==
  \/ \E r \in Row : \/ DrawAll(r)
                    \/ Searches(r) /\ \E list \in Seen(r) : SearchTopK(r, list) \/ SearchTopP(r, list)
  \/ AllDrawn

SamplingSpec == SamplingInit /\ [][SamplingNext]_samplingVars

-----------------------------------------------------------------------------
\* The tokens a row may be drawn from.
KeptTokens(r) == TokensIn(draw[r].list, draw[r].n)

MostLikelyOf(r) == MostLikely(rows[r].weight, Token)

\* The tokens a row may get.  In a batch that is neither all greedy nor all random, a
\* temperature of 0 is replaced and the row's best token returned after all; in one
\* that is all random, logits would be divided by it.
Answers(r) ==
  IF AllGreedy \/ (rows[r].zero /\ ~AllRandom) THEN {Min(MostLikelyOf(r))}
  ELSE IF rows[r].zero THEN Token
  ELSE KeptTokens(r)

WeightsOf(T, r) == [v \in Range(rows[r].weight) |-> Cardinality({t \in T : rows[r].weight[t] = v})]

(***************************************************************************)
(* A row that is drawn gets each token as often as under vLLM's mask: by   *)
(* its weight inside and never outside, although few tokens were looked    *)
(* at.  With a top-k the tokens are the very ones of the mask, however     *)
(* ties and rounding turn out there; with a top-p alone there are as many  *)
(* of each weight as in an exact mask ("a tied nucleus boundary can retain *)
(* different equal-score token identities from vLLM's full sort").         *)
(***************************************************************************)
DrawsAsReference ==
  \A r \in Row : draw[r] # Undrawn =>
    LET list == draw[r].list
        n    == draw[r].n
        T    == KeptTokens(r)
        picks(t) == {x \in 0 .. Mass(list, n) - 1 : list[Pick(list, n, x)].token = t}
    IN  /\ \A t \in Token : Cardinality(picks(t)) = IF t \in T THEN rows[r].weight[t] ELSE 0
        /\ draw[r].by = "search" =>
             IF HasK(rows[r]) THEN ReferenceMasks(rows[r]) = {T}
             ELSE \E mask \in ExactMasks(rows[r]) : WeightsOf(T, r) = WeightsOf(mask, r)

(***************************************************************************)
(* What a row gets is decided by its own parameters, although the batch    *)
(* decides how rows are sampled: the best token at temperature 0, one of   *)
(* the best with a top-k of 1, and otherwise a drawn one ("Checking only   *)
(* top_k would incorrectly mark such requests as random").                 *)
(***************************************************************************)
RowsKeepTheirTemperature ==
  \A r \in Row : ~Pending(r) =>
    IF rows[r].zero THEN Answers(r) = {Min(MostLikelyOf(r))}
    ELSE IF rows[r].topK = 1 THEN Answers(r) # {} /\ Answers(r) \subseteq MostLikelyOf(r)
    ELSE draw[r] # Undrawn /\ Answers(r) = KeptTokens(r)
===============================================================================
