----------------------------- MODULE MCSrtQueue -----------------------------
(***************************************************************************)
(* The instances of SrtQueue for TLC: pages of two slots and a table of    *)
(* two pages, so that a few messages fill the queue, and pages are deleted *)
(* and allocated again while pushes are under way.                         *)
(***************************************************************************)
EXTENDS SrtQueue, TLC

\* Producers differ in their names only; used where no liveness is checked.
Symmetry == Permutations(Producers)

\* Nothing is claimed of a queue once it has been overrun, and it stays so.
BeforeOverrun == ~ overrun
=============================================================================
