--------------------------- MODULE MCUSBTCPRemote ---------------------------
(***************************************************************************)
(* USBTCPRemote for model checking.                                        *)
(***************************************************************************)
EXTENDS USBTCPRemote
=============================================================================
