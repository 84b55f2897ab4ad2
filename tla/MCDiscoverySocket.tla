------------------------- MODULE MCDiscoverySocket -------------------------
(* Small instances of DiscoverySocket: the announce task and a refresh.     *)
EXTENDS DiscoverySocket

CONSTANTS ticker, refresh
=============================================================================
