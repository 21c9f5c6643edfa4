---------------------------- MODULE MCPaperTrading ----------------------------
(* Model values for checking PaperTrading with TLC. *)
EXTENDS PaperTrading, TLC
=============================================================================
