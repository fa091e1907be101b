------------------------------- MODULE BpfMap -------------------------------
(***************************************************************************)
(* BPF_MAP_TYPE_HASH as the probe uses it: a finite partial function with  *)
(* a fixed number of slots.  Inserting under a key that is present         *)
(* overwrites; inserting a new key into a full map fails, and the probe    *)
(* ignores that result ("let _ = MAP.insert(..)").                         *)
(***************************************************************************)
EXTENDS Naturals, FiniteSets

EmptyMap == [x \in {} |-> 0]

\* m is a partial function from K to V.
IsMap(m, K, V) == DOMAIN m \subseteq K /\ m \in [DOMAIN m -> V]

\* m with the entry of k set to v, whatever its size (a HashMap of userspace).
Put(m, k, v) == [x \in DOMAIN m \cup {k} |-> IF x = k THEN v ELSE m[x]]

\* A bounded insert whose failure is ignored.
Insert(m, k, v, slots) ==
    IF k \in DOMAIN m \/ Cardinality(DOMAIN m) < slots THEN Put(m, k, v) ELSE m

Remove(m, k) == [x \in DOMAIN m \ {k} |-> m[x]]

\* The value under k, or the default the caller falls back to.
Get(m, k, default) == IF k \in DOMAIN m THEN m[k] ELSE default
=============================================================================
