---------------------------- MODULE MCAppleAIC ----------------------------
(***************************************************************************)
(* Instances of AppleAIC for TLC.  Two questions, two instances: how EIRs  *)
(* are spread over CPUs and reach them, and how IPIs travel.               *)
(***************************************************************************)
EXTENDS AppleAIC

\* EIRs: shared and private destinations, none, and one bit that is no CPU.
EIRDestVals == {{0}, {0, 1}, {9}}
EIREIRVals == {{i} : i \in IRQs}
EIRIPIVals == {}

\* IPIs: each bank sends to CPU 0 and the SELF kind to itself; as a mask, bit 0
\* stands for the NORMAL kind.  No EIR is enabled.
IPIDestVals == {}
IPIEIRVals == {}
IPIIPIVals == {{0}, {31}}
=============================================================================
