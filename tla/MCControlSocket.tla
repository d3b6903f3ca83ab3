-------------------------- MODULE MCControlSocket --------------------------
(* Instances of ControlSocket: daemons that share one lock file.           *)

EXTENDS ControlSocket, TLC

\* Every daemon runs with the same runtime directory.
OneLock == [d \in Daemons |-> "lock"]

Symmetry == Permutations(Daemons)

=============================================================================
