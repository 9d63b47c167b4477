---------------------------- MODULE MCAppleRTKit ----------------------------
(* AppleRTKit with the message records of its two sides.                   *)
EXTENDS AppleRTKit

MCMessages == AllMessages
=============================================================================
