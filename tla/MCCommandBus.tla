---------------------------- MODULE MCCommandBus ----------------------------
(* CommandBus on a small instance; clients and command ids are symmetric.  *)
EXTENDS CommandBus, TLC

Symmetry == Permutations(Clients) \cup Permutations(Commands)

=============================================================================
