-------------------------- MODULE MCPrefixCacheCost --------------------------
(***************************************************************************)
(* Small instances of PrefixCacheCost: prompts of up to five tokens, the   *)
(* buckets of one, two and four tokens, three slots.                       *)
(***************************************************************************)
EXTENDS PrefixCacheCost
=============================================================================
