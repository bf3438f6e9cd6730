------------------------ MODULE MCConsoleNavigation ------------------------
(* ConsoleNavigation on a small instance.                                  *)
EXTENDS ConsoleNavigation, TLC
=============================================================================
