------------------------------- MODULE MCNode -------------------------------
(* A small instance of Node: two settings, and one with a folder that cannot  *)
(* be created.                                                                *)
EXTENDS Node

CONSTANTS old, new, unwritable
=============================================================================
