----------------------------- MODULE MCChangePod -----------------------------
(* Instances of ChangePod for TLC. *)
EXTENDS ChangePod, TLC

CONSTANTS p1, p2, h1, h2

TwoPods    == {p1, p2}
OneMortal  == {p1}
NoPod      == {}
TwoHandlers == {h1, h2}
OneHandler == {h1}
=============================================================================
