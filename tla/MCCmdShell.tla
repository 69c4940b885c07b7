----------------------------- MODULE MCCmdShell -----------------------------
(* A session on two directories.                                            *)
EXTENDS CmdShell

CONSTANTS d1, d2
=============================================================================
