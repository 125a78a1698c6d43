-------------------------- MODULE MCFthdIspCmd --------------------------
(* Instances of FthdIspCmd for TLC.                                       *)
EXTENDS FthdIspCmd
=========================================================================
