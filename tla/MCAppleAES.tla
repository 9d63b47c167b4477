----------------------------- MODULE MCAppleAES -----------------------------
(* Instances of AppleAES for TLC. *)
EXTENDS AppleAES, TLC

\* A KEY has several words; two stand for them.
WorkWords == "key" :> 2 @@ "hardware_key" :> 1 @@ "data" :> 1 @@ "stop_flag" :> 1

WakeWords == "key" :> 1 @@ "stop_flag" :> 1
WakeEnable == {{"flag_command", "command_fifo_low"}}
WakeClear == {{"flag_command"}}

WorkerSymmetry == Permutations(Workers)
=============================================================================
