------------------------------ MODULE MCReview ------------------------------
(* Instances of Review for TLC. *)
EXTENDS Review, TLC

CONSTANTS a, b

\* Every extraction yields the same question, ...
Same == {<<a>>}
\* ... or a later one finds a question that the first one missed.
Shifting == {<<b>>, <<a, b>>}

ClientSymmetry == Permutations(Client)
=============================================================================
