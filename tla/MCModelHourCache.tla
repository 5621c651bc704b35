-------------------------- MODULE MCModelHourCache --------------------------
(* Small instances of ModelHourCache for TLC. *)
EXTENDS ModelHourCache

Interchangeable == Permutations(Stoppable) \cup Permutations(Keys)

\* Bound: where all want the same hour one load fails by itself or the cache is cleared,
\* else no load fails.
OneHour == \A c, d \in Consumers : key[c] = key[d]
Failed == {f \in Consumers : failure[f] = "error"}
FewFailures == IF OneHour THEN Cardinality(Failed) + clears <= 1 ELSE Failed = {}

MCSpec == Init /\ [][Next /\ FewFailures']_vars
=============================================================================
