------------------------------ MODULE MCVoiceFlow ------------------------------
(* A small instance of VoiceFlow for TLC. *)
EXTENDS VoiceFlow

CONSTANTS w1, w2
===============================================================================
