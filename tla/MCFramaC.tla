------------------------------ MODULE MCFramaC ------------------------------
(* An instance of FramaC for TLC. *)
EXTENDS FramaC

\* One unit has more functions than the cap on entries lets through, and two
\* have one: four entries, the last of them the only deep one.
ThreeUnits == <<3, 1, 1>>
=============================================================================
