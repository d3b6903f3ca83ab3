----------------------------- MODULE MCOpenFiles -----------------------------
(* Instances of OpenFiles for TLC.                                         *)
EXTENDS OpenFiles

CONSTANT f1

\* The calls race for one file.
OneFile == [c \in Callers |-> f1]
=============================================================================
