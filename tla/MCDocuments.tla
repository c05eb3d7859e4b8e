----------------------------- MODULE MCDocuments -----------------------------
(* UserDocuments with two subjects of one provider and three requests.      *)
EXTENDS UserDocuments, TLC

CONSTANTS s1, s2, q1, q2, q3

OneProvider == (s1 :> "google") @@ (s2 :> "google")

RequestSymmetry == Permutations(Requests)
=============================================================================
