--------------------------- MODULE MCRestartBudget ---------------------------
(* A small instance of RestartBudget for TLC.                              *)
EXTENDS RestartBudget

CONSTANTS a, b
Two == {a, b}
=============================================================================
