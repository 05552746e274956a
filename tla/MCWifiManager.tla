---------------------------- MODULE MCWifiManager ----------------------------
(* Small instances of WifiManager for TLC. *)
EXTENDS WifiManager

CONSTANTS home
=============================================================================
