------------------------------ MODULE MCProbe ------------------------------
(* Constants for model-checking Probe.                                      *)
EXTENDS Probe

CONSTANTS a, b, u

OneId == {a}
TwoIds == {a, b}
OneUrl == {u}
OneWork == {1}
TwoWorks == {1, 2}
OneProbe == {10}
TwoProbes == {8, 10}
HttpOnly == {"HTTP"}
=============================================================================
