---------------------------- MODULE MCPrefixWalk ----------------------------
(***************************************************************************)
(* A small instance of PrefixWalk: prompts of up to five tokens in blocks  *)
(* of two, one image or none, requests and snapshots of every kind.        *)
(***************************************************************************)
EXTENDS PrefixWalk

\* Embeddings: two text tokens, and two images behind one placeholder token.
IdOf == [c \in {"a", "b", "x", "y"} |-> IF c \in {"x", "y"} THEN "img" ELSE c]

Ids(content) == [i \in 1 .. Len(content) |-> IdOf[content[i]]]

MmOf(content, session, known) ==
  LET images == {i \in 1 .. Len(content) : content[i] \in {"x", "y"}}
      At(i)  == [start |-> i - 1, stop |-> i,
                 image |-> IF known THEN content[i] ELSE None]
  IN  IF images = {} THEN None
      ELSE [session |-> session, spans |-> <<At(CHOOSE i \in images : TRUE)>>]

Texts == {<<a, b, c, "a">> : a \in {"a", "b"}, b \in {"a", "x", "y"},
                              c \in {"a", "b"}}

Hashes(content) ==
  [i \in 1 .. Len(content) \div BlockSize |-> SubSeq(content, 1, i * BlockSize)]

Text(content, num, blocks, hashed, session, known) ==
  [num |-> num, blocks |-> blocks,
   hashes |-> IF hashed THEN Hashes(content) ELSE None,
   ids |-> SubSeq(Ids(content), 1, num), mm |-> MmOf(content, session, known),
   embeds |-> None, content |-> content]

\* A request with explicit prompt embeddings: its prompt has no token ids, so
\* only generated tokens are known, and only when they alone reach num.
Embeds(prompt, out, num, blocks) ==
  [num |-> num, blocks |-> blocks, hashes |-> None,
   ids |-> IF Len(out) < num THEN None ELSE SubSeq(Ids(out), 1, num),
   mm |-> None, embeds |-> prompt, content |-> prompt \o out]

\* The scheduler leaves the last prompt token to compute, and a hit covers
\* whole blocks: 2 or 4 of five prompt tokens.
MCRequests ==
  {Text(Append(t, "b"), n, <<1, 2>>, h, "s", k) :
      t \in Texts, n \in {2, 4}, h \in BOOLEAN, k \in BOOLEAN}
  \cup {Embeds(Append(t, "b"), <<>>, n, <<1, 2>>) : t \in Texts, n \in {2, 4}}

Held(n, blocks) ==
  {Text(t, n, blocks, h, s, k) :
      t \in Texts, h \in BOOLEAN, s \in {"s", "r"}, k \in BOOLEAN}
  \cup {Embeds(SubSeq(t, 1, 2), SubSeq(t, 3, 4), n, blocks) : t \in Texts}
  \cup {Embeds(t, <<"a">>, n, blocks) : t \in Texts}

\* A second snapshot, to choose between.
Other == {Text(<<"a", "a", "a", "a">>, 3, <<1, 2>>, FALSE, "s", TRUE),
          Text(<<"a", "x", "b", "a">>, 4, <<1, 3>>, FALSE, "s", TRUE)}

MCStores ==
  {<<s, o>> : s \in UNION {Held(n, bs) : n \in {1, 3, 4},
                              bs \in {<<1, 2>>, <<2, 1>>, <<1, 3>>}},
              o \in Other}

MCBlockOwners == {{}, {1, 2}}
=============================================================================
