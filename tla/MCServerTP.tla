----------------------------- MODULE MCServerTP ------------------------------
(* Small instances of ServerTP. *)
EXTENDS ServerTP

\* Connections are interchangeable, and so are workers (safety only).
Symmetry == Permutations(Conn) \cup Permutations(Worker)
==============================================================================
