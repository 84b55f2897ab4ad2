------------------------------ MODULE MCSendJob ------------------------------
(* A small instance of SendJob: two sends, so that the second can meet what *)
(* the first has left behind.                                               *)
EXTENDS SendJob
=============================================================================
