--------------------------- MODULE FthdIrqProofs ---------------------------
(***************************************************************************)
(* Proofs about the camera's interrupt handling, for any number of         *)
(* channels, any placing of them on the four source bits and any ring      *)
(* sizes.  The inductive invariant is IrqInv: it says where the loop index *)
(* may be, that the messages of a ring are the entries from the host's to  *)
(* the firmware's index, that a set latch means a set status bit, and that *)
(* a set status bit always has the work coming to read it.                 *)
(***************************************************************************)
EXTENDS FthdIrq, FiniteSetTheorems, TLAPS

USE IrqAssumption

---------------------------------------------------------------------------
(* The inductive invariant, part by part.                                  *)

\* TypeOK in two parts: the rings, and what most steps change.
RingsTyped ==
    /\ DOMAIN slot = Inbox /\ DOMAIN idx = Inbox /\ DOMAIN fwIdx = Inbox
    /\ \A c \in Inbox : /\ slot[c] \in [Slot(c) -> {"host"} \cup Messages]
                        /\ {idx[c], fwIdx[c]} \subseteq Slot(c)
RestTyped ==
    /\ ready \in [Waked -> BOOLEAN]
    /\ sleeper \in [Waked -> {"none", "asleep", "awake"}]
    /\ owes \in SUBSET (0 .. 3) /\ status \in SUBSET (0 .. 3)
    /\ pending \in SUBSET (0 .. 3)
    /\ enabled \in BOOLEAN /\ latch \in BOOLEAN /\ msi \in BOOLEAN
    /\ installed \in BOOLEAN /\ queued \in BOOLEAN
    /\ pc \in {"idle", "read", "mask", "clear", "ack", "for", "drain", "handle", "exit"}
    /\ i \in 0 .. NChan + 1
    /\ objs \in Int /\ live \in Nat
    /\ crashed \in BOOLEAN
    /\ faults \in 0 .. MaxFaults

\* An entry holds what its own channel can say.
OwnMessages == \A c \in Inbox : slot[c] \in [Slot(c) -> {"host"} \cup Message(c)]

\* The for loop has not passed its end, and its body is at a T2H channel.
LoopInRange ==
    /\ pc \in {"read", "for"} => i <= NChan
    /\ pc \in {"drain", "handle"} => i \in Inbox

\* Channel c's messages are the entries from r up to w, around the ring.
Spans(c, r, w) ==
    /\ r < w => \A k \in Slot(c) : slot[c][k] # "host" <=> r <= k /\ k < w
    /\ w < r => \A k \in Slot(c) : slot[c][k] # "host" <=> k < w \/ r <= k
    /\ r = w => \/ \A k \in Slot(c) : slot[c][k] # "host"
                \/ \A k \in Slot(c) : slot[c][k] = "host"
RingsSpan == \A c \in Inbox : Spans(c, idx[c], fwIdx[c])

\* The entry fthd_handle_irq has received is still the firmware's.
InHand == pc = "handle" => slot[i][idx[i]] # "host"

\* The bridge is masked only while the work runs; outside the two writes of
\* the acknowledgement its latch stands for a bit of the status.
LatchTrue ==
    /\ pc = "idle" => enabled
    /\ latch /\ pc # "ack" => status # {}

\* Whenever a bit is set, the work, its queue or an MSI will see it.
StatusHeard == status # {} => Attention

\* The objects the firmware is giving back can be counted.
FreesFinite == IsFiniteSet(Outstanding("free"))

IrqInv ==
    /\ TypeOK /\ OwnMessages /\ LoopInRange /\ RingsSpan /\ InHand
    /\ LatchTrue /\ StatusHeard /\ NeverUninstalled
    /\ NoLostInterrupt
    /\ FreesFinite /\ SharedMemoryAgrees

---------------------------------------------------------------------------
(* The rings.                                                              *)

\* A channel's entry index and the one after it are in its ring.
LEMMA NextInRing ==
    ASSUME NEW c \in Inbox, NEW k \in Slot(c)
    PROVE  NextSlot(c, k) \in Slot(c)
  BY DEF NextSlot, Slot, Inbox, Chan

\* The channels of a driver are numbers, and each kind is used one way.
LEMMA Channels ==
    /\ Inbox \subseteq Chan /\ Waked \subseteq Chan /\ Chan \subseteq Nat
    /\ \A c \in Inbox : c \notin Waked /\ Kind[c] \in T2H /\ Kind[c] \notin H2T
    /\ \A c \in Chan : Kind[c] \in T2H => c \in Inbox
    /\ \A c \in Chan : Kind[c] \in H2T => c \in Waked
  BY DEF Inbox, Waked, Chan, H2T, T2H

\* What the two loops do to their index.
LEMMA Indices ==
    /\ 0 \in 0 .. NChan + 1 /\ NChan \in 0 .. NChan + 1
    /\ \A k \in 0 .. NChan + 1 : k < NChan <=> k \in Chan
    /\ \A k \in Chan : k \in Int /\ k < NChan /\ 0 <= k /\ {k, k + 1} \subseteq 0 .. NChan + 1
    /\ \A k \in 0 .. NChan + 1 : k \in Int /\ k < StuckLimit
  BY DEF Chan

\* If any entry of a ring is the firmware's, the one at the host's index is.
LEMMA FirstIsHost ==
    ASSUME NEW c \in Inbox, NEW r \in Slot(c), NEW w \in Slot(c), Spans(c, r, w),
           NEW k \in Slot(c), slot[c][k] # "host"
    PROVE  slot[c][r] # "host"
  BY DEF Spans, Slot, Inbox, Chan

\* Writing an entry at the firmware's index extends the span.
LEMMA SpanGrows ==
    ASSUME NEW c \in Inbox, NEW r \in Slot(c), NEW w \in Slot(c), Spans(c, r, w),
           NEW m, m # "host", slot[c][w] = "host",
           \A k \in Slot(c) : slot'[c][k] = IF k = w THEN m ELSE slot[c][k]
    PROVE  Spans(c, r, NextSlot(c, w))'
  BY Channels DEF Spans, Slot, NextSlot

\* Giving back the entry at the host's index shortens it.
LEMMA SpanShrinks ==
    ASSUME NEW c \in Inbox, NEW r \in Slot(c), NEW w \in Slot(c), Spans(c, r, w),
           slot[c][r] # "host",
           \A k \in Slot(c) : slot'[c][k] = IF k = r THEN "host" ELSE slot[c][k]
    PROVE  Spans(c, NextSlot(c, r), w)'
<1>1. c \in Chan /\ Size[c] \in Nat \ {0} /\ r \in Int /\ w \in Int
  BY Channels DEF Slot
<1>2. CASE r + 1 >= Size[c]
  BY <1>1, <1>2 DEF Spans, Slot, NextSlot
<1>3. CASE r + 1 < Size[c]
  BY <1>1, <1>3 DEF Spans, Slot, NextSlot
<1> QED
  BY <1>1, <1>2, <1>3

\* A ring nobody writes keeps its span.
LEMMA SpanKept ==
    ASSUME NEW c \in Inbox, NEW r \in Slot(c), NEW w \in Slot(c), Spans(c, r, w),
           slot'[c] = slot[c]
    PROVE  Spans(c, r, w)'
  BY DEF Spans

---------------------------------------------------------------------------
(* The messages with the driver, counted.                                  *)

\* What is outstanding, entry by entry.
LEMMA OutstandingIs ==
    ASSUME NEW m
    PROVE  /\ \A c \in Inbox : \A k \in Slot(c) : <<c, k>> \in Outstanding(m) <=> slot[c][k] = m
           /\ \A x \in Outstanding(m) : \E c \in Inbox : \E k \in Slot(c) : x = <<c, k>>
  BY DEF Outstanding

\* Writing a message into an entry of the host's adds it to those outstanding.
LEMMA OneMore ==
    ASSUME NEW m, m # "host", NEW c \in Inbox, NEW k \in Slot(c), slot[c][k] # m,
           \A d \in Inbox : \A n \in Slot(d) :
               slot'[d][n] = IF d = c /\ n = k THEN m ELSE slot[d][n]
    PROVE  /\ <<c, k>> \notin Outstanding(m)
           /\ Outstanding(m)' = Outstanding(m) \cup {<<c, k>>}
<1>1. ASSUME NEW x PROVE x \in Outstanding(m)' <=> x \in Outstanding(m) \cup {<<c, k>>}
  BY DEF Outstanding
<1> QED
  BY <1>1, OutstandingIs

\* Giving it back removes it.
LEMMA OneLess ==
    ASSUME NEW m, m # "host", NEW c \in Inbox, NEW k \in Slot(c), slot[c][k] = m,
           \A d \in Inbox : \A n \in Slot(d) :
               slot'[d][n] = IF d = c /\ n = k THEN "host" ELSE slot[d][n]
    PROVE  /\ <<c, k>> \in Outstanding(m)
           /\ Outstanding(m)' = Outstanding(m) \ {<<c, k>>}
<1>1. ASSUME NEW x PROVE x \in Outstanding(m)' <=> x \in Outstanding(m) \ {<<c, k>>}
  BY DEF Outstanding
<1> QED
  BY <1>1, OutstandingIs

\* A write of something else leaves them alone.
LEMMA NoneChanged ==
    ASSUME NEW m, \A d \in Inbox : \A n \in Slot(d) : slot'[d][n] = m <=> slot[d][n] = m
    PROVE  Outstanding(m)' = Outstanding(m)
<1>1. ASSUME NEW x PROVE x \in Outstanding(m)' <=> x \in Outstanding(m)
  BY DEF Outstanding
<1> QED
  BY <1>1

---------------------------------------------------------------------------
(* One lemma for each action.                                              *)

\* What a step that leaves the rings alone keeps.
LEMMA RingsKept ==
    ASSUME IrqInv, UNCHANGED <<slot, idx, fwIdx, objs, live>>
    PROVE  (RingsTyped /\ OwnMessages /\ RingsSpan /\ FreesFinite /\ SharedMemoryAgrees)'
<1>1. Outstanding("free")' = Outstanding("free")
  BY NoneChanged
<1>2. RingsSpan'
  BY SpanKept DEF IrqInv, TypeOK, RingsSpan
<1> QED
  BY <1>1, <1>2 DEF IrqInv, TypeOK, RingsTyped, OwnMessages, FreesFinite, SharedMemoryAgrees

\* The parts of TypeOK.
LEMMA Types == TypeOK <=> RingsTyped /\ RestTyped
  BY DEF TypeOK, RingsTyped, RestTyped

\* The firmware answers an entry of an H2T ring.
LEMMA FwAnswerInv ==
    ASSUME IrqInv, NEW c \in Waked, FwAnswer(c)
    PROVE  IrqInv'
<1>1. RestTyped'
  BY Types, Channels, Indices
    DEF IrqInv, RestTyped, LoopInRange, FwAnswer, ringVars, hwVars, workVars, waitVars,
        histVars
<1>2. (RingsTyped /\ OwnMessages /\ RingsSpan /\ FreesFinite /\ SharedMemoryAgrees)'
  BY RingsKept DEF FwAnswer, ringVars, hwVars, workVars, waitVars, histVars
<1>3. (LoopInRange /\ InHand)'
  BY Channels, Indices
    DEF IrqInv, TypeOK, LoopInRange, InHand, FwAnswer, ringVars, hwVars, workVars,
        waitVars, histVars
<1>4. (LatchTrue /\ StatusHeard /\ NeverUninstalled)'
  BY Indices
    DEF IrqInv, TypeOK, LoopInRange, LatchTrue, StatusHeard, NeverUninstalled, Attention,
        FwAnswer, ringVars, hwVars, workVars, waitVars, histVars
<1>5. NoLostInterrupt'
  BY <1>4, Channels, Indices
    DEF IrqInv, TypeOK, LoopInRange, LatchTrue, StatusHeard, NoLostInterrupt, Coming,
        Attention, FwAnswer, ringVars, hwVars, workVars, waitVars, histVars
<1> QED
  BY <1>1, <1>2, <1>3, <1>4, <1>5 DEF IrqInv, TypeOK, RingsTyped, RestTyped

\* It sets a source bit while the work may be clearing others.
LEMMA FwRaiseInv ==
    ASSUME IrqInv, NEW s \in 0 .. 3, FwRaise(s)
    PROVE  IrqInv'
<1>1. RestTyped'
  BY Types, Channels, Indices
    DEF IrqInv, RestTyped, LoopInRange, FwRaise, ringVars, hwVars, workVars, waitVars,
        histVars
<1>2. (RingsTyped /\ OwnMessages /\ RingsSpan /\ FreesFinite /\ SharedMemoryAgrees)'
  BY RingsKept DEF FwRaise, ringVars, hwVars, workVars, waitVars, histVars
<1>3. (LoopInRange /\ InHand)'
  BY Channels, Indices
    DEF IrqInv, TypeOK, LoopInRange, InHand, FwRaise, ringVars, hwVars, workVars, waitVars,
        histVars
<1>4. (LatchTrue /\ StatusHeard /\ NeverUninstalled)'
  BY Indices
    DEF IrqInv, TypeOK, LoopInRange, LatchTrue, StatusHeard, NeverUninstalled, Attention,
        FwRaise, ringVars, hwVars, workVars, waitVars, histVars
<1>5. NoLostInterrupt'
  BY <1>4, Channels, Indices
    DEF IrqInv, TypeOK, LoopInRange, LatchTrue, StatusHeard, NoLostInterrupt, Coming,
        Attention, FwRaise, ringVars, hwVars, workVars, waitVars, histVars
<1> QED
  BY <1>1, <1>2, <1>3, <1>4, <1>5 DEF IrqInv, TypeOK, RingsTyped, RestTyped

\* A waiter tests, and sleeps or goes (wait_event).
LEMMA TestInv ==
    ASSUME IrqInv, NEW c \in Waked, Test(c)
    PROVE  IrqInv'
<1>1. RestTyped'
  BY Types, Channels, Indices
    DEF IrqInv, RestTyped, LoopInRange, Test, ringVars, hwVars, workVars, waitVars,
        histVars
<1>2. (RingsTyped /\ OwnMessages /\ RingsSpan /\ FreesFinite /\ SharedMemoryAgrees)'
  BY RingsKept DEF Test, ringVars, hwVars, workVars, waitVars, histVars
<1>3. (LoopInRange /\ InHand)'
  BY Channels, Indices
    DEF IrqInv, TypeOK, LoopInRange, InHand, Test, ringVars, hwVars, workVars, waitVars,
        histVars
<1>4. (LatchTrue /\ StatusHeard /\ NeverUninstalled)'
  BY Indices
    DEF IrqInv, TypeOK, LoopInRange, LatchTrue, StatusHeard, NeverUninstalled, Attention,
        Test, ringVars, hwVars, workVars, waitVars, histVars
<1>5. NoLostInterrupt'
  BY <1>4, Channels, Indices
    DEF IrqInv, TypeOK, LoopInRange, LatchTrue, StatusHeard, NoLostInterrupt, Coming,
        Attention, Test, ringVars, hwVars, workVars, waitVars, histVars
<1> QED
  BY <1>1, <1>2, <1>3, <1>4, <1>5 DEF IrqInv, TypeOK, RingsTyped, RestTyped

\* A waiter times out.
LEMMA TimeoutInv ==
    ASSUME IrqInv, NEW c \in Waked, Timeout(c)
    PROVE  IrqInv'
<1>1. RestTyped'
  BY Types, Channels, Indices
    DEF IrqInv, RestTyped, LoopInRange, Timeout, ringVars, hwVars, workVars, waitVars,
        histVars
<1>2. (RingsTyped /\ OwnMessages /\ RingsSpan /\ FreesFinite /\ SharedMemoryAgrees)'
  BY RingsKept DEF Timeout, ringVars, hwVars, workVars, waitVars, histVars
<1>3. (LoopInRange /\ InHand)'
  BY Channels, Indices
    DEF IrqInv, TypeOK, LoopInRange, InHand, Timeout, ringVars, hwVars, workVars, waitVars,
        histVars
<1>4. (LatchTrue /\ StatusHeard /\ NeverUninstalled)'
  BY Indices
    DEF IrqInv, TypeOK, LoopInRange, LatchTrue, StatusHeard, NeverUninstalled, Attention,
        Timeout, ringVars, hwVars, workVars, waitVars, histVars
<1>5. NoLostInterrupt'
  BY <1>4, Channels, Indices
    DEF IrqInv, TypeOK, LoopInRange, LatchTrue, StatusHeard, NoLostInterrupt, Coming,
        Attention, Timeout, ringVars, hwVars, workVars, waitVars, histVars
<1> QED
  BY <1>1, <1>2, <1>3, <1>4, <1>5 DEF IrqInv, TypeOK, RingsTyped, RestTyped

\* The interrupt handler queues the work (fthd_irq_handler).
LEMMA IrqHandlerInv ==
    ASSUME IrqInv, IrqHandler
    PROVE  IrqInv'
<1>1. RestTyped'
  BY Types, Channels, Indices
    DEF IrqInv, RestTyped, LoopInRange, IrqHandler, ringVars, hwVars, workVars, waitVars,
        histVars
<1>2. (RingsTyped /\ OwnMessages /\ RingsSpan /\ FreesFinite /\ SharedMemoryAgrees)'
  BY RingsKept DEF IrqHandler, ringVars, hwVars, workVars, waitVars, histVars
<1>3. (LoopInRange /\ InHand)'
  BY Channels, Indices
    DEF IrqInv, TypeOK, LoopInRange, InHand, IrqHandler, ringVars, hwVars, workVars,
        waitVars, histVars
<1>4. (LatchTrue /\ StatusHeard /\ NeverUninstalled)'
  BY Indices
    DEF IrqInv, TypeOK, LoopInRange, LatchTrue, StatusHeard, NeverUninstalled, Attention,
        IrqHandler, ringVars, hwVars, workVars, waitVars, histVars
<1>5. NoLostInterrupt'
  BY <1>4, Channels, Indices
    DEF IrqInv, TypeOK, LoopInRange, LatchTrue, StatusHeard, NoLostInterrupt, Coming,
        Attention, IrqHandler, ringVars, hwVars, workVars, waitVars, histVars
<1> QED
  BY <1>1, <1>2, <1>3, <1>4, <1>5 DEF IrqInv, TypeOK, RingsTyped, RestTyped

\* The work starts.
LEMMA WorkStartInv ==
    ASSUME IrqInv, WorkStart
    PROVE  IrqInv'
<1>1. RestTyped'
  BY Types, Channels, Indices
    DEF IrqInv, RestTyped, LoopInRange, WorkStart, ringVars, hwVars, workVars, waitVars,
        histVars
<1>2. (RingsTyped /\ OwnMessages /\ RingsSpan /\ FreesFinite /\ SharedMemoryAgrees)'
  BY RingsKept DEF WorkStart, ringVars, hwVars, workVars, waitVars, histVars
<1>3. (LoopInRange /\ InHand)'
  BY Channels, Indices
    DEF IrqInv, TypeOK, LoopInRange, InHand, WorkStart, ringVars, hwVars, workVars,
        waitVars, histVars
<1>4. (LatchTrue /\ StatusHeard /\ NeverUninstalled)'
  BY Indices
    DEF IrqInv, TypeOK, LoopInRange, LatchTrue, StatusHeard, NeverUninstalled, Attention,
        WorkStart, ringVars, hwVars, workVars, waitVars, histVars
<1>5. NoLostInterrupt'
  BY <1>4, Channels, Indices
    DEF IrqInv, TypeOK, LoopInRange, LatchTrue, StatusHeard, NoLostInterrupt, Coming,
        Attention, WorkStart, ringVars, hwVars, workVars, waitVars, histVars
<1> QED
  BY <1>1, <1>2, <1>3, <1>4, <1>5 DEF IrqInv, TypeOK, RingsTyped, RestTyped

\* It reads the status, or leaves its loop.
LEMMA ReadStatusInv ==
    ASSUME IrqInv, ReadStatus
    PROVE  IrqInv'
<1>1. RestTyped'
  BY Types, Channels, Indices
    DEF IrqInv, RestTyped, LoopInRange, ReadStatus, ringVars, hwVars, workVars, waitVars,
        histVars
<1>2. (RingsTyped /\ OwnMessages /\ RingsSpan /\ FreesFinite /\ SharedMemoryAgrees)'
  BY RingsKept DEF ReadStatus, ringVars, hwVars, workVars, waitVars, histVars
<1>3. (LoopInRange /\ InHand)'
  BY Channels, Indices
    DEF IrqInv, TypeOK, LoopInRange, InHand, ReadStatus, ringVars, hwVars, workVars,
        waitVars, histVars
<1>4. (LatchTrue /\ StatusHeard /\ NeverUninstalled)'
  BY Indices
    DEF IrqInv, TypeOK, LoopInRange, LatchTrue, StatusHeard, NeverUninstalled, Attention,
        ReadStatus, ringVars, hwVars, workVars, waitVars, histVars
<1>5. NoLostInterrupt'
  BY <1>4, Channels, Indices
    DEF IrqInv, TypeOK, LoopInRange, LatchTrue, StatusHeard, NoLostInterrupt, Coming,
        Attention, ReadStatus, ringVars, hwVars, workVars, waitVars, histVars
<1> QED
  BY <1>1, <1>2, <1>3, <1>4, <1>5 DEF IrqInv, TypeOK, RingsTyped, RestTyped

\* It masks the bridge.
LEMMA MaskIrqInv ==
    ASSUME IrqInv, MaskIrq
    PROVE  IrqInv'
<1>1. RestTyped'
  BY Types, Channels, Indices
    DEF IrqInv, RestTyped, LoopInRange, MaskIrq, ringVars, hwVars, workVars, waitVars,
        histVars
<1>2. (RingsTyped /\ OwnMessages /\ RingsSpan /\ FreesFinite /\ SharedMemoryAgrees)'
  BY RingsKept DEF MaskIrq, ringVars, hwVars, workVars, waitVars, histVars
<1>3. (LoopInRange /\ InHand)'
  BY Channels, Indices
    DEF IrqInv, TypeOK, LoopInRange, InHand, MaskIrq, ringVars, hwVars, workVars, waitVars,
        histVars
<1>4. (LatchTrue /\ StatusHeard /\ NeverUninstalled)'
  BY Indices
    DEF IrqInv, TypeOK, LoopInRange, LatchTrue, StatusHeard, NeverUninstalled, Attention,
        MaskIrq, ringVars, hwVars, workVars, waitVars, histVars
<1>5. NoLostInterrupt'
  BY <1>4, Channels, Indices
    DEF IrqInv, TypeOK, LoopInRange, LatchTrue, StatusHeard, NoLostInterrupt, Coming,
        Attention, MaskIrq, ringVars, hwVars, workVars, waitVars, histVars
<1> QED
  BY <1>1, <1>2, <1>3, <1>4, <1>5 DEF IrqInv, TypeOK, RingsTyped, RestTyped

\* It clears the bits it has read, and those stay in pending.
LEMMA ClearStatusInv ==
    ASSUME IrqInv, ClearStatus
    PROVE  IrqInv'
<1>1. RestTyped'
  BY Types, Channels, Indices
    DEF IrqInv, RestTyped, LoopInRange, ClearStatus, ringVars, hwVars, workVars, waitVars,
        histVars
<1>2. (RingsTyped /\ OwnMessages /\ RingsSpan /\ FreesFinite /\ SharedMemoryAgrees)'
  BY RingsKept DEF ClearStatus, ringVars, hwVars, workVars, waitVars, histVars
<1>3. (LoopInRange /\ InHand)'
  BY Channels, Indices
    DEF IrqInv, TypeOK, LoopInRange, InHand, ClearStatus, ringVars, hwVars, workVars,
        waitVars, histVars
<1>4. (LatchTrue /\ StatusHeard /\ NeverUninstalled)'
  BY Indices
    DEF IrqInv, TypeOK, LoopInRange, LatchTrue, StatusHeard, NeverUninstalled, Attention,
        ClearStatus, ringVars, hwVars, workVars, waitVars, histVars
<1>5. NoLostInterrupt'
  BY <1>4, Channels, Indices
    DEF IrqInv, TypeOK, LoopInRange, LatchTrue, StatusHeard, NoLostInterrupt, Coming,
        Attention, ClearStatus, ringVars, hwVars, workVars, waitVars, histVars
<1> QED
  BY <1>1, <1>2, <1>3, <1>4, <1>5 DEF IrqInv, TypeOK, RingsTyped, RestTyped

\* It clears the latch: a bit set since is seen by the next read.
LEMMA AckLatchInv ==
    ASSUME IrqInv, AckLatch
    PROVE  IrqInv'
<1>1. RestTyped'
  BY Types, Channels, Indices
    DEF IrqInv, RestTyped, LoopInRange, AckLatch, ringVars, hwVars, workVars, waitVars,
        histVars
<1>2. (RingsTyped /\ OwnMessages /\ RingsSpan /\ FreesFinite /\ SharedMemoryAgrees)'
  BY RingsKept DEF AckLatch, ringVars, hwVars, workVars, waitVars, histVars
<1>3. (LoopInRange /\ InHand)'
  BY Channels, Indices
    DEF IrqInv, TypeOK, LoopInRange, InHand, AckLatch, ringVars, hwVars, workVars,
        waitVars, histVars
<1>4. (LatchTrue /\ StatusHeard /\ NeverUninstalled)'
  BY Indices
    DEF IrqInv, TypeOK, LoopInRange, LatchTrue, StatusHeard, NeverUninstalled, Attention,
        AckLatch, ringVars, hwVars, workVars, waitVars, histVars
<1>5. NoLostInterrupt'
  BY <1>4, Channels, Indices
    DEF IrqInv, TypeOK, LoopInRange, LatchTrue, StatusHeard, NoLostInterrupt, Coming,
        Attention, AckLatch, ringVars, hwVars, workVars, waitVars, histVars
<1> QED
  BY <1>1, <1>2, <1>3, <1>4, <1>5 DEF IrqInv, TypeOK, RingsTyped, RestTyped

\* It passes a channel whose bit is not pending.
LEMMA SkipChannelInv ==
    ASSUME IrqInv, SkipChannel
    PROVE  IrqInv'
<1>1. RestTyped'
  BY Types, Channels, Indices
    DEF IrqInv, RestTyped, LoopInRange, SkipChannel, ringVars, hwVars, workVars, waitVars,
        histVars
<1>2. (RingsTyped /\ OwnMessages /\ RingsSpan /\ FreesFinite /\ SharedMemoryAgrees)'
  BY RingsKept DEF SkipChannel, ringVars, hwVars, workVars, waitVars, histVars
<1>3. (LoopInRange /\ InHand)'
  BY Channels, Indices
    DEF IrqInv, TypeOK, LoopInRange, InHand, SkipChannel, ringVars, hwVars, workVars,
        waitVars, histVars
<1>4. (LatchTrue /\ StatusHeard /\ NeverUninstalled)'
  BY Indices
    DEF IrqInv, TypeOK, LoopInRange, LatchTrue, StatusHeard, NeverUninstalled, Attention,
        SkipChannel, ringVars, hwVars, workVars, waitVars, histVars
<1>5. NoLostInterrupt'
  BY <1>4, Channels, Indices
    DEF IrqInv, TypeOK, LoopInRange, LatchTrue, StatusHeard, NoLostInterrupt, Coming,
        Attention, SkipChannel, ringVars, hwVars, workVars, waitVars, histVars
<1> QED
  BY <1>1, <1>2, <1>3, <1>4, <1>5 DEF IrqInv, TypeOK, RingsTyped, RestTyped

\* It wakes the waiter of an H2T channel.
LEMMA WakeChannelInv ==
    ASSUME IrqInv, WakeChannel
    PROVE  IrqInv'
<1>1. RestTyped'
  BY Types, Channels, Indices
    DEF IrqInv, RestTyped, LoopInRange, WakeChannel, ringVars, hwVars, workVars, waitVars,
        histVars
<1>2. (RingsTyped /\ OwnMessages /\ RingsSpan /\ FreesFinite /\ SharedMemoryAgrees)'
  BY RingsKept DEF WakeChannel, ringVars, hwVars, workVars, waitVars, histVars
<1>3. (LoopInRange /\ InHand)'
  BY Channels, Indices
    DEF IrqInv, TypeOK, LoopInRange, InHand, WakeChannel, ringVars, hwVars, workVars,
        waitVars, histVars
<1>4. (LatchTrue /\ StatusHeard /\ NeverUninstalled)'
  BY Indices
    DEF IrqInv, TypeOK, LoopInRange, LatchTrue, StatusHeard, NeverUninstalled, Attention,
        WakeChannel, ringVars, hwVars, workVars, waitVars, histVars
<1>5. NoLostInterrupt'
  BY <1>4, Channels, Indices
    DEF IrqInv, TypeOK, LoopInRange, LatchTrue, StatusHeard, NoLostInterrupt, Coming,
        Attention, WakeChannel, ringVars, hwVars, workVars, waitVars, histVars
<1> QED
  BY <1>1, <1>2, <1>3, <1>4, <1>5 DEF IrqInv, TypeOK, RingsTyped, RestTyped

\* It enters the loop of a T2H channel.
LEMMA EnterChannelInv ==
    ASSUME IrqInv, EnterChannel
    PROVE  IrqInv'
<1>1. RestTyped'
  BY Types, Channels, Indices
    DEF IrqInv, RestTyped, LoopInRange, EnterChannel, ringVars, hwVars, workVars, waitVars,
        histVars
<1>2. (RingsTyped /\ OwnMessages /\ RingsSpan /\ FreesFinite /\ SharedMemoryAgrees)'
  BY RingsKept DEF EnterChannel, ringVars, hwVars, workVars, waitVars, histVars
<1>3. (LoopInRange /\ InHand)'
  BY Channels, Indices
    DEF IrqInv, TypeOK, LoopInRange, InHand, EnterChannel, ringVars, hwVars, workVars,
        waitVars, histVars
<1>4. (LatchTrue /\ StatusHeard /\ NeverUninstalled)'
  BY Indices
    DEF IrqInv, TypeOK, LoopInRange, LatchTrue, StatusHeard, NeverUninstalled, Attention,
        EnterChannel, ringVars, hwVars, workVars, waitVars, histVars
<1>5. NoLostInterrupt'
  BY <1>4, Channels, Indices
    DEF IrqInv, TypeOK, LoopInRange, LatchTrue, StatusHeard, NoLostInterrupt, Coming,
        Attention, EnterChannel, ringVars, hwVars, workVars, waitVars, histVars
<1> QED
  BY <1>1, <1>2, <1>3, <1>4, <1>5 DEF IrqInv, TypeOK, RingsTyped, RestTyped

\* It has passed all channels.
LEMMA EndForInv ==
    ASSUME IrqInv, EndFor
    PROVE  IrqInv'
<1>1. RestTyped'
  BY Types, Channels, Indices
    DEF IrqInv, RestTyped, LoopInRange, EndFor, ringVars, hwVars, workVars, waitVars,
        histVars
<1>2. (RingsTyped /\ OwnMessages /\ RingsSpan /\ FreesFinite /\ SharedMemoryAgrees)'
  BY RingsKept DEF EndFor, ringVars, hwVars, workVars, waitVars, histVars
<1>3. (LoopInRange /\ InHand)'
  BY Channels, Indices
    DEF IrqInv, TypeOK, LoopInRange, InHand, EndFor, ringVars, hwVars, workVars, waitVars,
        histVars
<1>4. (LatchTrue /\ StatusHeard /\ NeverUninstalled)'
  BY Indices
    DEF IrqInv, TypeOK, LoopInRange, LatchTrue, StatusHeard, NeverUninstalled, Attention,
        EndFor, ringVars, hwVars, workVars, waitVars, histVars
<1>5. NoLostInterrupt'
  BY <1>4, Channels, Indices
    DEF IrqInv, TypeOK, LoopInRange, LatchTrue, StatusHeard, NoLostInterrupt, Coming,
        Attention, EndFor, ringVars, hwVars, workVars, waitVars, histVars
<1> QED
  BY <1>1, <1>2, <1>3, <1>4, <1>5 DEF IrqInv, TypeOK, RingsTyped, RestTyped

\* It receives a message, or leaves a ring that has none left.
LEMMA ReceiveInv ==
    ASSUME IrqInv, Receive
    PROVE  IrqInv'
<1>1. RestTyped'
  BY Types, Channels, Indices
    DEF IrqInv, RestTyped, LoopInRange, Receive, ringVars, hwVars, workVars, waitVars,
        histVars
<1>2. (RingsTyped /\ OwnMessages /\ RingsSpan /\ FreesFinite /\ SharedMemoryAgrees)'
  BY RingsKept DEF Receive, ringVars, hwVars, workVars, waitVars, histVars
<1>3. (LoopInRange /\ InHand)'
  BY Channels, Indices
    DEF IrqInv, TypeOK, LoopInRange, InHand, Receive, ringVars, hwVars, workVars, waitVars,
        histVars
<1>4. (LatchTrue /\ StatusHeard /\ NeverUninstalled)'
  BY Indices
    DEF IrqInv, TypeOK, LoopInRange, LatchTrue, StatusHeard, NeverUninstalled, Attention,
        Receive, ringVars, hwVars, workVars, waitVars, histVars
<1>5. NoLostInterrupt'
  <2> USE DEF Receive, ringVars, hwVars, workVars, waitVars, histVars
  <2>1. i \in Inbox /\ pc = "drain" /\ UNCHANGED <<slot, ready, sleeper, owes, status, pending>>
    BY DEF IrqInv, LoopInRange
  <2>2. CASE slot[i][idx[i]] # "host"
    BY <2>1, <2>2, <1>4
      DEF IrqInv, NoLostInterrupt, Coming, LatchTrue, StatusHeard, Attention
  <2>3. CASE slot[i][idx[i]] = "host"
    <3>1. \A k \in Slot(i) : slot[i][k] = "host"
      BY <2>1, <2>3, FirstIsHost DEF IrqInv, TypeOK, RingsSpan
    <3>2. pc' = "for" /\ i' = i + 1
      BY <2>3
    <3>3. ASSUME NEW c \in Chan, c # i, Coming(c)
          PROVE  Coming(c)'
      <4>1. i \in Chan /\ i \in Int /\ c \in Int
        BY <2>1, Channels, Indices
      <4> QED
        BY <3>3, <4>1, <3>2, <2>1, <1>4 DEF Coming, StatusHeard
    <3>4. ASSUME NEW c \in Inbox, \E k \in Slot(c) : slot[c][k] # "host"
          PROVE  c # i /\ Coming(c)
      BY <3>1, <3>4, <2>1 DEF IrqInv, NoLostInterrupt
    <3>5. ASSUME NEW c \in Waked, ready[c], sleeper[c] = "asleep"
          PROVE  c # i /\ Coming(c)
      BY <3>5, <2>1, Channels DEF IrqInv, NoLostInterrupt
    <3> QED
      BY <3>3, <3>4, <3>5, <2>1, Channels DEF NoLostInterrupt
  <2> QED
    BY <2>2, <2>3
<1> QED
  BY <1>1, <1>2, <1>3, <1>4, <1>5 DEF IrqInv, TypeOK, RingsTyped, RestTyped

\* A request that fails stays where it is.
LEMMA NotSentBackInv ==
    ASSUME IrqInv, NotSentBack
    PROVE  IrqInv'
<1>1. RestTyped'
  BY Types, Channels, Indices
    DEF IrqInv, RestTyped, LoopInRange, NotSentBack, ringVars, hwVars, workVars, waitVars,
        histVars
<1>2. (RingsTyped /\ OwnMessages /\ RingsSpan /\ FreesFinite /\ SharedMemoryAgrees)'
  BY RingsKept DEF NotSentBack, ringVars, hwVars, workVars, waitVars, histVars
<1>3. (LoopInRange /\ InHand)'
  BY Channels, Indices
    DEF IrqInv, TypeOK, LoopInRange, InHand, NotSentBack, ringVars, hwVars, workVars,
        waitVars, histVars
<1>4. (LatchTrue /\ StatusHeard /\ NeverUninstalled)'
  BY Indices
    DEF IrqInv, TypeOK, LoopInRange, LatchTrue, StatusHeard, NeverUninstalled, Attention,
        NotSentBack, ringVars, hwVars, workVars, waitVars, histVars
<1>5. NoLostInterrupt'
  BY <1>4, Channels, Indices
    DEF IrqInv, TypeOK, LoopInRange, LatchTrue, StatusHeard, NoLostInterrupt, Coming,
        Attention, NotSentBack, ringVars, hwVars, workVars, waitVars, histVars
<1> QED
  BY <1>1, <1>2, <1>3, <1>4, <1>5 DEF IrqInv, TypeOK, RingsTyped, RestTyped

\* A NULL object is followed.
LEMMA AllocCrashesInv ==
    ASSUME IrqInv, AllocCrashes
    PROVE  IrqInv'
<1>1. RestTyped'
  BY Types, Channels, Indices
    DEF IrqInv, RestTyped, LoopInRange, AllocCrashes, ringVars, hwVars, workVars, waitVars,
        histVars
<1>2. (RingsTyped /\ OwnMessages /\ RingsSpan /\ FreesFinite /\ SharedMemoryAgrees)'
  BY RingsKept DEF AllocCrashes, ringVars, hwVars, workVars, waitVars, histVars
<1>3. (LoopInRange /\ InHand)'
  BY Channels, Indices
    DEF IrqInv, TypeOK, LoopInRange, InHand, AllocCrashes, ringVars, hwVars, workVars,
        waitVars, histVars
<1>4. (LatchTrue /\ StatusHeard /\ NeverUninstalled)'
  BY Indices
    DEF IrqInv, TypeOK, LoopInRange, LatchTrue, StatusHeard, NeverUninstalled, Attention,
        AllocCrashes, ringVars, hwVars, workVars, waitVars, histVars
<1>5. NoLostInterrupt'
  BY <1>4, Channels, Indices
    DEF IrqInv, TypeOK, LoopInRange, LatchTrue, StatusHeard, NoLostInterrupt, Coming,
        Attention, AllocCrashes, ringVars, hwVars, workVars, waitVars, histVars
<1> QED
  BY <1>1, <1>2, <1>3, <1>4, <1>5 DEF IrqInv, TypeOK, RingsTyped, RestTyped

\* The work ends, well before the limit of its loop, and unmasks the bridge.
LEMMA WorkExitInv ==
    ASSUME IrqInv, WorkExit
    PROVE  IrqInv'
<1>1. RestTyped'
  BY Types, Channels, Indices
    DEF IrqInv, RestTyped, LoopInRange, WorkExit, ringVars, hwVars, workVars, waitVars,
        histVars
<1>2. (RingsTyped /\ OwnMessages /\ RingsSpan /\ FreesFinite /\ SharedMemoryAgrees)'
  BY RingsKept DEF WorkExit, ringVars, hwVars, workVars, waitVars, histVars
<1>3. (LoopInRange /\ InHand)'
  BY Channels, Indices
    DEF IrqInv, TypeOK, LoopInRange, InHand, WorkExit, ringVars, hwVars, workVars,
        waitVars, histVars
<1>4. (LatchTrue /\ StatusHeard /\ NeverUninstalled)'
  BY Indices
    DEF IrqInv, TypeOK, LoopInRange, LatchTrue, StatusHeard, NeverUninstalled, Attention,
        WorkExit, ringVars, hwVars, workVars, waitVars, histVars
<1>5. NoLostInterrupt'
  BY <1>4, Channels, Indices
    DEF IrqInv, TypeOK, LoopInRange, LatchTrue, StatusHeard, NoLostInterrupt, Coming,
        Attention, WorkExit, ringVars, hwVars, workVars, waitVars, histVars
<1> QED
  BY <1>1, <1>2, <1>3, <1>4, <1>5 DEF IrqInv, TypeOK, RingsTyped, RestTyped

---------------------------------------------------------------------------
(* The steps that write a ring.                                            *)

\* Writing one entry of one ring keeps every ring's type.
LEMMA WriteTyped ==
    ASSUME RingsTyped, OwnMessages, NEW c \in Inbox, NEW k \in Slot(c),
           NEW m \in {"host"} \cup Message(c),
           slot' = [slot EXCEPT ![c][k] = m]
    PROVE  /\ DOMAIN slot' = Inbox
           /\ \A d \in Inbox : slot'[d] \in [Slot(d) -> {"host"} \cup Messages]
           /\ OwnMessages'
           /\ \A d \in Inbox : \A n \in Slot(d) :
                  slot'[d][n] = IF d = c /\ n = k THEN m ELSE slot[d][n]
           /\ \A d \in Inbox \ {c} : slot'[d] = slot[d]
<1>1. Message(c) \subseteq Messages
  BY DEF Message, Messages
<1>2. ASSUME NEW d \in Inbox
      PROVE  slot'[d] = IF d = c THEN [slot[c] EXCEPT ![k] = m] ELSE slot[d]
  BY DEF RingsTyped
<1>3. slot[c] \in [Slot(c) -> {"host"} \cup Messages] /\ slot[c] \in [Slot(c) -> {"host"} \cup Message(c)]
  BY DEF RingsTyped, OwnMessages
<1>4. OwnMessages'
  BY <1>2, <1>3 DEF OwnMessages
<1>5. \A d \in Inbox : slot'[d] \in [Slot(d) -> {"host"} \cup Messages]
  BY <1>1, <1>2, <1>3 DEF RingsTyped
<1>6. DOMAIN slot' = Inbox
  BY DEF RingsTyped
<1>7. \A d \in Inbox : \A n \in Slot(d) :
          slot'[d][n] = IF d = c /\ n = k THEN m ELSE slot[d][n]
  BY <1>2, <1>3
<1> QED
  BY <1>2, <1>4, <1>5, <1>6, <1>7

\* The firmware posts: the span grows, and it owes the channel's bit.
LEMMA FwPostInv ==
    ASSUME IrqInv, NEW c \in Inbox, NEW m \in Messages, FwPost(c, m)
    PROVE  IrqInv'
<1> USE DEF waitVars, hwVars, workVars
<1> DEFINE w == fwIdx[c]
<1>1. /\ w \in Slot(c) /\ idx[c] \in Slot(c) /\ slot[c][w] = "host"
      /\ m \in Message(c) /\ m # "host" /\ slot' = [slot EXCEPT ![c][w] = m]
      /\ RingsTyped
  BY DEF IrqInv, TypeOK, RingsTyped, FwPost, Messages
<1>2. /\ DOMAIN slot' = Inbox /\ OwnMessages'
      /\ \A d \in Inbox : slot'[d] \in [Slot(d) -> {"host"} \cup Messages]
      /\ \A d \in Inbox : \A n \in Slot(d) :
             slot'[d][n] = IF d = c /\ n = w THEN m ELSE slot[d][n]
      /\ \A d \in Inbox \ {c} : slot'[d] = slot[d]
  BY <1>1, WriteTyped DEF IrqInv
<1>3. /\ DOMAIN fwIdx' = Inbox /\ fwIdx'[c] = NextSlot(c, w)
      /\ \A d \in Inbox \ {c} : fwIdx'[d] = fwIdx[d]
      /\ idx' = idx
  BY DEF IrqInv, TypeOK, FwPost
<1>4. RingsTyped'
  BY <1>1, <1>2, <1>3, NextInRing DEF RingsTyped
<1>5. RingsSpan'
  <2>1. ASSUME NEW r \in Slot(c), NEW n \in Slot(c), r = idx[c], n = w
        PROVE  Spans(c, r, NextSlot(c, n))'
    <3>1. /\ Spans(c, r, n) /\ slot[c][n] = "host" /\ m # "host"
          /\ \A k \in Slot(c) : slot'[c][k] = IF k = n THEN m ELSE slot[c][k]
      BY <1>1, <1>2, <2>1 DEF IrqInv, RingsSpan
    <3> QED
      BY <3>1, SpanGrows
  <2>2. ASSUME NEW d \in Inbox \ {c} PROVE Spans(d, idx[d], fwIdx[d])'
    BY <1>2, <1>3, SpanKept DEF IrqInv, RingsSpan, TypeOK
  <2> QED
    BY <2>1, <2>2, <1>1, <1>3 DEF RingsSpan
<1>6. FreesFinite' /\ SharedMemoryAgrees' /\ objs' \in Int /\ live' \in Nat
  <2>0. objs' = objs /\ objs \in Int /\ live \in Nat /\ IsFiniteSet(Outstanding("free"))
        /\ objs = live + Cardinality(Outstanding("free"))
    BY DEF FwPost, IrqInv, TypeOK, FreesFinite, SharedMemoryAgrees
  <2>1. CASE m = "free"
    <3>1. <<c, w>> \notin Outstanding("free") /\ Outstanding("free")' = Outstanding("free") \cup {<<c, w>>}
      BY <2>1, <1>1, <1>2, OneMore
    <3>2. live' = live - 1 /\ live > 0
      BY <2>1 DEF FwPost
    <3>3. IsFiniteSet(Outstanding("free")') /\ Cardinality(Outstanding("free")') = Cardinality(Outstanding("free")) + 1
      BY <2>0, <3>1, FS_AddElement
    <3> QED
      BY <2>0, <3>2, <3>3, FS_CardinalityType DEF FreesFinite, SharedMemoryAgrees
  <2>2. CASE m # "free"
    <3>1. Outstanding("free")' = Outstanding("free")
      BY <2>2, <1>1, <1>2, NoneChanged
    <3> QED
      BY <2>0, <2>2, <3>1 DEF FwPost, FreesFinite, SharedMemoryAgrees
  <2> QED
    BY <2>1, <2>2
<1>7. RestTyped'
  BY <1>6, Channels DEF IrqInv, TypeOK, RestTyped, FwPost
<1>8. (LoopInRange /\ LatchTrue /\ StatusHeard /\ NeverUninstalled)'
  BY DEF IrqInv, LoopInRange, LatchTrue, StatusHeard, NeverUninstalled, Attention, FwPost
<1>9. InHand'
  BY <1>1, <1>2, <1>3, <1>8 DEF IrqInv, InHand, LoopInRange, TypeOK, FwPost
<1>10. NoLostInterrupt'
  <2>1. ASSUME NEW d \in Chan, Coming(d) PROVE Coming(d)'
    BY <2>1 DEF Coming, Attention, FwPost
  <2>2. Coming(c)'
    BY DEF Coming, FwPost
  <2>3. ASSUME NEW d \in Inbox, (\E k \in Slot(d) : slot[d][k] # "host")'
        PROVE  Coming(d)'
    BY <2>1, <2>2, <2>3, <1>2, Channels DEF IrqInv, NoLostInterrupt
  <2>4. ASSUME NEW d \in Waked, ready'[d], sleeper'[d] = "asleep"
        PROVE  Coming(d)'
    BY <2>1, <2>4, Channels DEF IrqInv, NoLostInterrupt, FwPost
  <2> QED
    BY <2>3, <2>4 DEF NoLostInterrupt
<1> QED
  BY <1>2, <1>4, <1>5, <1>6, <1>7, <1>8, <1>9, <1>10
    DEF IrqInv, TypeOK, RingsTyped, RestTyped

\* The work gives an entry back: the span shrinks, and what it still holds is
\* received before the work leaves the channel.
LEMMA SendBackRings ==
    ASSUME IrqInv, pc = "handle", SendBack(i), fwIdx' = fwIdx
    PROVE  /\ i \in Inbox /\ idx[i] \in Slot(i) /\ slot[i][idx[i]] # "host"
           /\ RingsTyped' /\ OwnMessages' /\ RingsSpan'
           /\ \A d \in Inbox : \A n \in Slot(d) :
                  slot'[d][n] = IF d = i /\ n = idx[i] THEN "host" ELSE slot[d][n]
<1>1. /\ i \in Inbox /\ idx[i] \in Slot(i) /\ slot[i][idx[i]] # "host" /\ fwIdx[i] \in Slot(i)
      /\ RingsTyped /\ slot' = [slot EXCEPT ![i][idx[i]] = "host"]
  BY DEF IrqInv, TypeOK, RingsTyped, LoopInRange, InHand, SendBack
<1>2. /\ DOMAIN slot' = Inbox /\ OwnMessages'
      /\ \A d \in Inbox : slot'[d] \in [Slot(d) -> {"host"} \cup Messages]
      /\ \A d \in Inbox : \A n \in Slot(d) :
             slot'[d][n] = IF d = i /\ n = idx[i] THEN "host" ELSE slot[d][n]
      /\ \A d \in Inbox \ {i} : slot'[d] = slot[d]
  <2>1. OwnMessages /\ "host" \in {"host"} \cup Message(i)
    BY DEF IrqInv
  <2>2. \A c \in Inbox : \A k \in Slot(c) : c = i /\ k = idx[i] =>
            /\ DOMAIN slot' = Inbox /\ OwnMessages'
            /\ \A d \in Inbox : slot'[d] \in [Slot(d) -> {"host"} \cup Messages]
            /\ \A d \in Inbox : \A n \in Slot(d) :
                   slot'[d][n] = IF d = c /\ n = k THEN "host" ELSE slot[d][n]
            /\ \A d \in Inbox \ {c} : slot'[d] = slot[d]
    BY <1>1, <2>1, WriteTyped
  <2> QED
    BY <1>1, <2>2
<1>3. /\ DOMAIN idx' = Inbox /\ idx'[i] = NextSlot(i, idx[i])
      /\ \A d \in Inbox \ {i} : idx'[d] = idx[d]
  BY <1>1 DEF RingsTyped, SendBack
<1>4. RingsTyped'
  BY <1>1, <1>2, <1>3, NextInRing DEF RingsTyped
<1>5. RingsSpan'
  <2>1. ASSUME NEW c \in Inbox, NEW r \in Slot(c), c = i, r = idx[i]
        PROVE  Spans(c, NextSlot(c, r), fwIdx[c])'
    BY <1>1, <1>2, <2>1, SpanShrinks DEF IrqInv, RingsSpan
  <2>2. ASSUME NEW d \in Inbox \ {i} PROVE Spans(d, idx[d], fwIdx[d])'
    BY <1>2, <1>3, SpanKept DEF IrqInv, RingsSpan, TypeOK
  <2> QED
    BY <2>1, <2>2, <1>1, <1>3 DEF RingsSpan
<1> QED
  BY <1>1, <1>2, <1>4, <1>5

\* Handling leaves the loop in the drain of the same channel.
LEMMA HandledInv ==
    ASSUME IrqInv, pc = "handle", SendBack(i), pc' = "drain",
           UNCHANGED <<waitVars, fwIdx, owes, hwVars, installed, queued, i, pending, crashed>>,
           objs' \in Int, live' \in Nat, faults' \in 0 .. MaxFaults,
           FreesFinite', SharedMemoryAgrees'
    PROVE  IrqInv'
<1> USE DEF waitVars, hwVars
<1>1. RingsTyped' /\ OwnMessages' /\ RingsSpan' /\ i \in Inbox
      /\ \A d \in Inbox : \A n \in Slot(d) : slot'[d][n] # "host" => slot[d][n] # "host"
  BY SendBackRings
<1>2. RestTyped'
  BY DEF IrqInv, TypeOK, RestTyped
<1>3. (LoopInRange /\ InHand /\ LatchTrue /\ StatusHeard /\ NeverUninstalled)'
  BY <1>1
    DEF IrqInv, LoopInRange, InHand, LatchTrue, StatusHeard, NeverUninstalled, Attention
<1>4. NoLostInterrupt'
  <2>1. ASSUME NEW d \in Chan, Coming(d) PROVE Coming(d)'
    BY <2>1 DEF Coming, Attention
  <2> QED
    BY <2>1, <1>1, Channels DEF IrqInv, NoLostInterrupt
<1> QED
  BY <1>1, <1>2, <1>3, <1>4 DEF IrqInv, TypeOK, RingsTyped, RestTyped

\* terminal, buf_t2h and io_t2h: no shared memory is concerned.
LEMMA HandleMessageInv ==
    ASSUME IrqInv, HandleMessage
    PROVE  IrqInv'
<1> USE DEF HandleMessage, histVars
<1>1. slot[i][idx[i]] # "free"
  BY DEF IrqInv, TypeOK, LoopInRange, OwnMessages, Message
<1>2. Outstanding("free")' = Outstanding("free")
  BY <1>1, SendBackRings, NoneChanged
<1> QED
  BY <1>2, HandledInv DEF IrqInv, TypeOK, FreesFinite, SharedMemoryAgrees

\* sharedmalloc_handler frees: one object less, one request less.
LEMMA HandleFreeInv ==
    ASSUME IrqInv, HandleFree
    PROVE  IrqInv'
<1> USE DEF HandleFree, histVars
<1>1. /\ objs' = objs - 1 /\ objs \in Int /\ live \in Nat /\ IsFiniteSet(Outstanding("free"))
      /\ objs = live + Cardinality(Outstanding("free"))
  BY DEF IrqInv, TypeOK, FreesFinite, SharedMemoryAgrees
<1>2. \A c \in Inbox : \A k \in Slot(c) : c = i /\ k = idx[i] =>
          /\ <<c, k>> \in Outstanding("free")
          /\ Outstanding("free")' = Outstanding("free") \ {<<c, k>>}
  BY SendBackRings, OneLess
<1>3. /\ <<i, idx[i]>> \in Outstanding("free")
      /\ Outstanding("free")' = Outstanding("free") \ {<<i, idx[i]>>}
  BY <1>2, SendBackRings
<1>4. /\ IsFiniteSet(Outstanding("free")')
      /\ Cardinality(Outstanding("free")') = Cardinality(Outstanding("free")) - 1
      /\ Cardinality(Outstanding("free")) \in Nat
  <2>1. ASSUME NEW S, NEW x \in S, IsFiniteSet(S)
        PROVE  /\ IsFiniteSet(S \ {x}) /\ Cardinality(S \ {x}) = Cardinality(S) - 1
               /\ Cardinality(S) \in Nat
    BY <2>1, FS_RemoveElement, FS_CardinalityType
  <2> QED
    BY <2>1, <1>1, <1>3
<1>5. (FreesFinite /\ SharedMemoryAgrees)'
  BY <1>1, <1>4 DEF FreesFinite, SharedMemoryAgrees
<1> QED
  BY <1>1, <1>5, HandledInv DEF IrqInv, TypeOK

\* sharedmalloc_handler allocates: the object is live on both sides.
LEMMA HandleAllocInv ==
    ASSUME IrqInv, HandleAlloc
    PROVE  IrqInv'
<1> USE DEF HandleAlloc
<1>1. Outstanding("free")' = Outstanding("free")
  BY SendBackRings, NoneChanged
<1>2. (FreesFinite /\ SharedMemoryAgrees)' /\ objs' \in Int /\ live' \in Nat
  BY <1>1, FS_CardinalityType DEF IrqInv, TypeOK, FreesFinite, SharedMemoryAgrees
<1> QED
  BY <1>2, HandledInv DEF IrqInv, TypeOK

---------------------------------------------------------------------------
(* The theorems.                                                           *)

\* The driver as fthd_hw_init leaves it satisfies the invariant.
LEMMA InitInv == Init => IrqInv
<1> SUFFICES ASSUME Init PROVE IrqInv
  OBVIOUS
<1>1. Outstanding("free") = {}
  BY DEF Init, Outstanding
<1>2. FreesFinite /\ SharedMemoryAgrees
  <2>1. IsFiniteSet({}) /\ Cardinality({}) = 0
    BY FS_EmptySet
  <2>2. objs = 0 /\ live = 0
    BY DEF Init
  <2>3. FreesFinite /\ Cardinality(Outstanding("free")) = 0
    BY <1>1, <2>1 DEF FreesFinite
  <2> QED
    BY <2>2, <2>3 DEF SharedMemoryAgrees
<1>3. RingsTyped /\ OwnMessages /\ RingsSpan
  BY Channels DEF Init, RingsTyped, OwnMessages, RingsSpan, Spans, Slot, Messages
<1>4. RestTyped
  <2>1. enabled \in BOOLEAN /\ latch \in BOOLEAN /\ msi \in BOOLEAN /\ installed \in BOOLEAN
        /\ queued \in BOOLEAN /\ crashed \in BOOLEAN
    BY Zenon DEF Init
  <2>2. ready \in [Waked -> BOOLEAN] /\ sleeper \in [Waked -> {"none", "asleep", "awake"}]
    BY Zenon DEF Init
  <2> QED
    BY <2>1, <2>2, Indices DEF Init, RestTyped
<1>5. LoopInRange /\ InHand /\ LatchTrue /\ StatusHeard /\ NeverUninstalled /\ NoLostInterrupt
  BY DEF Init, LoopInRange, InHand, LatchTrue, StatusHeard, NeverUninstalled,
       NoLostInterrupt
<1> QED
  BY <1>2, <1>3, <1>4, <1>5 DEF IrqInv, TypeOK, RingsTyped, RestTyped

\* A step that changes nothing.
LEMMA StutterInv ==
    ASSUME IrqInv, UNCHANGED vars
    PROVE  IrqInv'
<1> USE DEF vars
<1>1. (RingsTyped /\ OwnMessages /\ RingsSpan /\ FreesFinite /\ SharedMemoryAgrees)'
  BY RingsKept
<1>2. RestTyped'
  BY DEF IrqInv, TypeOK, RestTyped
<1>3. (LoopInRange /\ InHand /\ LatchTrue /\ StatusHeard /\ NeverUninstalled)'
  BY DEF IrqInv, LoopInRange, InHand, LatchTrue, StatusHeard, NeverUninstalled, Attention
<1>4. NoLostInterrupt'
  BY DEF IrqInv, NoLostInterrupt, Coming, Attention
<1> QED
  BY <1>1, <1>2, <1>3, <1>4 DEF IrqInv, TypeOK, RingsTyped, RestTyped

\* Every step keeps it.
LEMMA NextInv ==
    ASSUME IrqInv, [Next]_vars
    PROVE  IrqInv'
<1>1. CASE UNCHANGED vars
  BY <1>1, StutterInv
<1>2. CASE Firmware
  BY <1>2, FwPostInv, FwAnswerInv DEF Firmware
<1>3. CASE \E s \in 0 .. 3 : FwRaise(s)
  BY <1>3, FwRaiseInv
<1>4. CASE IrqHandler
  BY <1>4, IrqHandlerInv
<1>5. CASE Work
  BY <1>5, WorkStartInv, ReadStatusInv, MaskIrqInv, ClearStatusInv, AckLatchInv,
     SkipChannelInv, WakeChannelInv, EnterChannelInv, EndForInv, ReceiveInv, HandleMessageInv,
     HandleFreeInv, HandleAllocInv, NotSentBackInv, AllocCrashesInv, WorkExitInv DEF Work
<1>6. CASE Waiters
  BY <1>6, TestInv, TimeoutInv DEF Waiters
<1> QED
  BY <1>1, <1>2, <1>3, <1>4, <1>5, <1>6 DEF Next

\* The messages of a ring begin at the host's index, and one being handled is
\* there (fthd_channel_ringbuf_receive).
LEMMA StaysInStep == IrqInv => InStep
<1> SUFFICES ASSUME IrqInv, NEW c \in Inbox
             PROVE  /\ (\E k \in Slot(c) : slot[c][k] # "host") => slot[c][idx[c]] # "host"
                    /\ pc = "handle" /\ i = c => slot[c][idx[c]] # "host"
  BY DEF InStep
<1>1. (\E k \in Slot(c) : slot[c][k] # "host") => slot[c][idx[c]] # "host"
  BY FirstIsHost DEF IrqInv, TypeOK, RingsSpan
<1> QED
  BY <1>1 DEF IrqInv, InHand

\* The inductive invariant holds in every reachable state.
THEOREM IrqInvariant == Spec => []IrqInv
  BY InitInv, NextInv, PTL DEF Spec

\* Types are as declared, whatever the driver's interrupt code does.
THEOREM TypeCorrect == Spec => []TypeOK
<1>1. IrqInv => TypeOK
  BY DEF IrqInv
<1> QED
  BY <1>1, IrqInvariant, PTL

\* No interrupt is lost: although fthd_irq_work clears the status and the
\* bridge's latch while the firmware sets bits, a message in a ring and an
\* answer somebody sleeps for always have the work coming to their channel.
THEOREM NoInterruptLost == Spec => []NoLostInterrupt
<1>1. IrqInv => NoLostInterrupt
  BY DEF IrqInv
<1> QED
  BY <1>1, IrqInvariant, PTL

\* No message is received out of order or hidden behind an empty entry.
THEOREM RingsInStep == Spec => []InStep
  BY StaysInStep, IrqInvariant, PTL

\* Each shared-malloc request is carried out once.
THEOREM MemoryAgrees == Spec => []SharedMemoryAgrees
<1>1. IrqInv => SharedMemoryAgrees
  BY DEF IrqInv
<1> QED
  BY <1>1, IrqInvariant, PTL

\* All that the run checks of the interrupt code, and that the "irq stuck" exit
\* of fthd_irq_work is never taken.
THEOREM ReceivedOnceHolds == Spec => []ReceivedOnce
<1>1. IrqInv => ReceivedOnce
  BY StaysInStep DEF IrqInv, ReceivedOnce
<1> QED
  BY <1>1, IrqInvariant, PTL
============================================================================
