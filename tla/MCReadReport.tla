----------------------------- MODULE MCReadReport -----------------------------
(* The instance of ReadReport that TLC checks. *)
EXTENDS ReadReport, TLC

\* Books and process ids are interchangeable in every safety property.
Symmetry == Permutations(Books) \union Permutations(Pids)
===============================================================================
