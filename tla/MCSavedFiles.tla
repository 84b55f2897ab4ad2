---------------------------- MODULE MCSavedFiles ----------------------------
(* Three uploads into a folder that holds an a.txt: two of a.txt and one of *)
(* a file that is itself called a (1).txt.                                  *)
EXTENDS SavedFiles, TLC

CONSTANTS u1, u2, u3

Named == (u1 :> <<"a">>) @@ (u2 :> <<"a">>) @@ (u3 :> <<"a", 1>>)
There == {<<"a">>}
=============================================================================
