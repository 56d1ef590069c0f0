------------------------------ MODULE MCMcpStdio ------------------------------
(***************************************************************************)
(* Instances of McpStdio for TLC: a few calls, notifications and closers   *)
(* over a pipe that one request fills.                                     *)
(***************************************************************************)
EXTENDS McpStdio

CONSTANTS c1, n1, k1, k2
===============================================================================
