-------------------------------- MODULE Maps --------------------------------
(***************************************************************************)
(* The std::collections::BTreeMap of the sources, as functions whose       *)
(* domain is the set of keys present.                                      *)
(***************************************************************************)

EmptyMap == [k \in {} |-> k]

\* BTreeMap::insert: binds k to v, replacing an earlier binding.
Insert(m, k, v) == [x \in DOMAIN m \cup {k} |-> IF x = k THEN v ELSE m[x]]

\* BTreeMap::remove and retain: drops every key of K that is present.
Without(m, K) == [x \in DOMAIN m \ K |-> m[x]]

=============================================================================
