---------------------------- MODULE MCHostSampling ----------------------------
(***************************************************************************)
(* Rows over a vocabulary of seven, alone, or next to a row that widens    *)
(* their passes or is searched for a top-p alone.                          *)
(***************************************************************************)
EXTENDS HostSampling

\* Logits in descending order: a token's number means nothing to the sampler.
Weights ==
  {w \in [Token -> 0 .. 3] : w[1] > 0 /\ \A t \in 2 .. Vocab : w[t] <= w[t - 1]}

Tied(w) == Max({Cardinality({t \in Token : w[t] = v}) : v \in 1 .. 3})

\* Ties of up to three for every k and p, ...
AnyRow ==
  [weight : {w \in Weights : Tied(w) <= 3}, topK : 0 .. 3, p : {2, 5, 7, One}, zero : {FALSE}]

\* ... and one that no pass for a top-k of 1 sees the end of.
LongTie == [weight |-> [t \in Token |-> IF t < Vocab THEN 2 ELSE 1], topK |-> 1, p |-> One, zero |-> FALSE]

\* One that widens the passes, one without a top-k, and one at temperature 0.
Neighbours ==
  {[weight |-> [t \in Token |-> IF t < 3 THEN 8 ELSE 7 - t], topK |-> 2, p |-> One, zero |-> FALSE],
   [weight |-> [t \in Token |-> Vocab - t], topK |-> 0, p |-> 3, zero |-> FALSE],
   [weight |-> [t \in Token |-> IF t < 3 THEN 2 ELSE 1], topK |-> 0, p |-> One, zero |-> TRUE]}

SomeRow == {row \in AnyRow : row.topK \in {0, 1} /\ Tied(row.weight) = 3 /\ row.p = 5}

AllBatches ==
  {<<row>> : row \in AnyRow \cup Neighbours \cup {LongTie}} \cup {<<row, next>> : row \in SomeRow, next \in Neighbours}

Sizes == <<1, 2>>
===============================================================================
