----------------------------- MODULE MCAppleA13 -----------------------------
(* Model-checking instances of AppleA13. *)
EXTENDS AppleA13

TwoCPUs == 0 .. 1
OneCluster == [c \in TwoCPUs |-> 0]
TwoClusters == [c \in TwoCPUs |-> c]

AllTypes == {IMMEDIATE, RETRACT, DEFERRED, NOWAKE}
LiveTypes == {DEFERRED}
=============================================================================
