------------------------- MODULE MCPositionManager -------------------------
(* Five fills at two prices and sizes that close, flip and rebuild a         *)
(* position with inexact averages.  Symbols do not interact: two are there  *)
(* so that a fill could reach the wrong one.                               *)
EXTENDS PositionManager

=============================================================================
