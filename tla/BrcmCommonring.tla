--------------------------- MODULE BrcmCommonring ---------------------------
(***************************************************************************)
(* What the two kinds of ring of the Broadcom Wi-Fi driver have in common  *)
(* (commonring.c): the size, and indices that wrap at it.                  *)
(***************************************************************************)
EXTENDS Integers

CONSTANTS Depth,     \* slots in the ring (commonring->depth)
          Thrs,      \* BRCMF_MSGBUF_UPDATE_RX_PTR_THRS
          MaxMsgs    \* bound: messages that pass through a ring

ASSUME DepthAssumption == Depth \in Nat /\ Depth >= 2
ASSUME ThrsAssumption == Thrs \in Nat /\ Thrs >= 1
ASSUME MaxMsgsAssumption == MaxMsgs \in Nat

Slots == 0..(Depth - 1)

Wrapped(p) == IF p = Depth THEN 0 ELSE p

\* How far b is ahead of a, going round the ring.
Ahead(a, b) == IF a <= b THEN b - a ELSE Depth - a + b
=============================================================================
