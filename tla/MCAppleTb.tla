---------------------------- MODULE MCAppleTb ----------------------------
(* Instances of AppleTb for TLC.                                          *)
EXTENDS AppleTb

\* Settings with every mode and display: off, display off, on or dimmed.
MCAllIdles  == {-2, 0, 1}
MCAllDims   == {0, -2}
MCAllParams == {<<1, -2>>, <<0, -2>>}
==========================================================================
