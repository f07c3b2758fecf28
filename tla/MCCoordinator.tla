---- MODULE MCCoordinator ----
(* Model-checking instances of Coordinator: symmetric clients and classes. *)
EXTENDS Coordinator, TLC
Symmetry == Permutations(Clients) \cup Permutations(Classes)
====
