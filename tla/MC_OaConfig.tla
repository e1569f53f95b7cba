----------------------------- MODULE MC_OaConfig -----------------------------
(* OaConfig for TLC: adders, users and uuids are interchangeable.         *)
EXTENDS OaConfig, TLC

Symmetry == Permutations(Adders) \cup Permutations(Users) \cup Permutations(Uuids)

=============================================================================
