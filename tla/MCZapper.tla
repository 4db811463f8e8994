------------------------------- MODULE MCZapper -------------------------------
(***************************************************************************)
(* Instances of Zapper for TLC: the second of two programs is configured,  *)
(* so that the initial value of pr_counter is not the configured program.  *)
(***************************************************************************)
EXTENDS Zapper

CONSTANTS p0, p1   \* model values

MCPrograms == {p0, p1}

===============================================================================
