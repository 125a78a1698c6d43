-------------------------- MODULE MCFthdStream --------------------------
(* Instances of FthdStream for TLC.                                       *)
EXTENDS FthdStream
=========================================================================
