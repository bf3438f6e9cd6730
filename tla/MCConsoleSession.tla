-------------------------- MODULE MCConsoleSession --------------------------
(* ConsoleSession on small instances.                                      *)
EXTENDS ConsoleSession
=============================================================================
