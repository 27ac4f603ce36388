----------------------------- MODULE MCHttpRead -----------------------------
(* Sizes for model-checking HttpRead: a body may be empty, fit into the      *)
(* header's last read, into the limit, reach it exactly or exceed it by more *)
(* than one piece, and so may what is announced; 11 is a Content-Length of   *)
(* -1 when an unsigned int has 12 values.                                    *)
EXTENDS HttpRead

Heads == {2, 4}
Bodies == {0, 3, 10}
Lengths == {0, 1, 3, 10, 11}
=============================================================================
