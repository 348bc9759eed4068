--------------------------- MODULE MCPersistence ---------------------------
(* Instances of Persistence for TLC. *)
EXTENDS Persistence

CONSTANTS hits, load

SinglesAndPair == {<<hits>>, <<load>>, <<hits, load>>}
=============================================================================
