------------------------- MODULE MCChangeNotification -------------------------
(* Instance of ChangeNotification for TLC: all constants are numbers. *)
EXTENDS ChangeNotification
=============================================================================
