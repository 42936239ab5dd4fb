------------------------------ MODULE MCStudio ------------------------------
(* Two tabs, of one user or of two.                                        *)
EXTENDS Studio
=============================================================================
