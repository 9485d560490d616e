------------------------------- MODULE MCGraph -------------------------------
(* Every acyclic graph on four nodes is put in order; every sorted one is asked *)
(* for the d-connections of every node under every separator.                  *)
EXTENDS Graph
=============================================================================
