---------------------------- MODULE MCAddressing ----------------------------
(* A small instance of Addressing: two devices on one host, so that either    *)
(* may come to serve where the other did; its two ports are two addresses.    *)
EXTENDS Addressing

CONSTANTS alice, bob, desk
=============================================================================
