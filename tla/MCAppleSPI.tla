----------------------------- MODULE MCAppleSPI -----------------------------
EXTENDS AppleSPI, TLC

\* DMA, without and with auto-generated data.
MCConfigs == [mode : {"DMA"}, agd : BOOLEAN]

\* Two small buffers to send from, one to receive into.
MCSizes == [tx |-> {2}, rx |-> {3}]
MCMaxHeld == [tx |-> 2, rx |-> 1]

TagSymmetry == Permutations(Tags)
=============================================================================
