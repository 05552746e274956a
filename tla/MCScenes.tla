------------------------------- MODULE MCScenes -------------------------------
(* A small instance of Scenes for TLC. *)
EXTENDS Scenes

CONSTANTS r1, r2, mum
===============================================================================
