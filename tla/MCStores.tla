------------------------------- MODULE MCStores -------------------------------
(* A small instance of Stores. *)
EXTENDS Stores, TLC

\* One package has a successor, one overrides a builtin, one is not signed.
Bundle(n, v, signed) ==
  [name |-> n, v |-> v, manifest |-> "ok", signed |-> signed, intact |-> TRUE, entry |-> TRUE, factory |-> TRUE]
SomeBundles ==
  {Bundle("a", 1, TRUE), Bundle("a", 2, TRUE), Bundle("loki", 1, TRUE), Bundle("b", 1, FALSE)}
\* Requests for the catalogue are alike.
RequesterSymmetry == Permutations(Requesters)
ThreeDirectories == <<"a", "b", "loki">>
=============================================================================
