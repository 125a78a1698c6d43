---------------------------- MODULE MCFthdIrq ----------------------------
(* Instances of FthdIrq for TLC.                                          *)
EXTENDS FthdIrq

\* Three channels; the last two share a source bit.
MCKind3   == [c \in 0 .. 2 |-> <<"io", "sharedmalloc", "buf_t2h">>[c + 1]]
MCSource3 == [c \in 0 .. 2 |-> <<0, 1, 1>>[c + 1]]
MCSize3   == [c \in 0 .. 2 |-> <<1, 2, 1>>[c + 1]]
==========================================================================
