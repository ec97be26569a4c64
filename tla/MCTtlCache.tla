----------------------------- MODULE MCTtlCache -----------------------------
(***************************************************************************)
(* TtlCache for TLC: one key with a stale window of its own and one that   *)
(* relies on the default, plus keys written directly to fill the dict.     *)
(***************************************************************************)
EXTENDS TtlCache, TLC

CONSTANTS swrKey, plainKey

\* The first key has a stale_ttl, every other key passes none.
MCStaleTtl == [k \in Key |-> IF k = swrKey THEN 60 ELSE 0]

\* Callers and future identities are interchangeable.
CacheSymmetry == Permutations(Caller) \cup Permutations(Fetch)

=============================================================================
