----------------------- MODULE MCRuntimeCacheManager -----------------------
(***************************************************************************)
(* A small instance of RuntimeCacheManager: three requests, two slots on   *)
(* two cards, two blocks whose numbers are recycled, and prefixes of one   *)
(* block that collide on a number with other tokens or the same ones.      *)
(***************************************************************************)
EXTENDS RuntimeCacheManager, TLC

Prefix(num, blocks, ids) ==
  [req |-> None, num |-> num, blocks |-> blocks, hashes |-> None, ids |-> ids,
   mm |-> None, embeds |-> None, cache |-> None]

MCPrefixes ==
  {Prefix(2, <<1>>, <<"a", "a">>), Prefix(2, <<1>>, <<"b", "a">>)}

MCBlockTables == {<<1>>}

\* No rank is like every slot ranked alike.
Zero == <<0, 0>>
MCRanks == {[s \in Slot |-> Zero], [s \in Slot |-> IF s = 0 THEN <<2, 1>> ELSE Zero]}

Symmetry == Permutations(Req)
=============================================================================
