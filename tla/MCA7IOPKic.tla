----------------------------- MODULE MCA7IOPKic -----------------------------
(* The SEP's interrupt controller, with the masks the processors write.    *)
EXTENDS A7IOPKic

AllMasks == {Sources}
=============================================================================
