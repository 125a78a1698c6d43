----------------------------- MODULE FthdIrq -----------------------------
(***************************************************************************)
(* Interrupt handling of the FaceTime HD driver (fthd_drv.c): the hard     *)
(* interrupt handler, the work it schedules, and the handlers of the four  *)
(* firmware-to-host ("T2H") channels.  Host-to-firmware channels are here  *)
(* only for the wake-up they get from the work; what their callers do is   *)
(* FthdIspCmd's and FthdStream's subject.                                  *)
(*                                                                         *)
(* External, modelled from how the driver uses them: the firmware, which   *)
(* writes an entry first and then sets its channel's source bit in         *)
(* ISP_IRQ_STATUS; and the two config words of the bridge, 0x94 as the     *)
(* interrupt enable and 0x90 as a write-one-to-clear latch that sends one  *)
(* MSI when it is set and enabled.                                         *)
(***************************************************************************)
EXTENDS Integers, FiniteSets

CONSTANTS NChan,      \* dev_priv->num_channels
          Kind,       \* which of the dev_priv->channel_* each channel is
          Source,     \* chan->source
          Size,       \* chan->size of each channel
          StuckLimit, \* the 500 of fthd_irq_work
          MaxFaults,  \* bound on failing allocations
          MaxObjs     \* bound on live shared-malloc objects

Chan  == 0 .. NChan - 1
Slot(c) == 0 .. Size[c] - 1
\* fthd_handle_irq only wakes the waiters of these.
H2T   == {"io", "buf_h2t", "debug"}
\* On these it receives messages.
T2H   == {"sharedmalloc", "terminal", "buf_t2h", "io_t2h"}
Waked == {c \in Chan : Kind[c] \in H2T}
Inbox == {c \in Chan : Kind[c] \in T2H}

\* isp_init refuses more than 32 channels, so 500 rounds are far away;
\* BUG_ON(chan->source > 3).
ASSUME IrqAssumption ==
    /\ NChan \in Nat /\ Size \in [Chan -> Nat \ {0}]
    /\ Kind \in [Chan -> H2T \cup T2H]
    /\ Source \in [Chan -> 0 .. 3]
    /\ StuckLimit \in Nat /\ NChan + 1 < StuckLimit
    /\ MaxFaults \in Nat /\ MaxObjs \in Nat

VARIABLES
    slot,      \* each T2H entry: "host" (bit 0 set), or the firmware's message
    idx,       \* chan->ringbuf.idx
    ready,     \* an H2T entry somebody waits for has been answered
    sleeper,   \* who waits on chan->wq
    fwIdx,     \* external: the entry the firmware writes next
    owes,      \* external: source bits it has still to set
    status,    \* ISP_IRQ_STATUS
    enabled,   \* external: config word 0x94
    latch,     \* external: config word 0x90
    msi,       \* external: an MSI is on its way to fthd_irq_handler
    installed, \* the handler is installed
    queued,    \* irq_work is queued
    pc,        \* where fthd_irq_work is
    i,         \* its loop variable, used by both loops
    pending,   \* its copy of ISP_IRQ_STATUS
    objs,      \* live isp_mem_obj's of type FTHD_MEM_SHAREDMALLOC
    crashed,   \* a NULL pointer was followed
    \* History.
    live,      \* objects the firmware has been given and not handed back
    faults     \* failed allocations

ringVars == <<slot, idx>>
waitVars == <<ready, sleeper>>
hwVars   == <<status, enabled, latch, msi>>
workVars == <<queued, pc, i, pending>>
histVars == <<live, faults>>
vars     == <<slot, idx, ready, sleeper, fwIdx, owes, status, enabled, latch, msi,
              installed, queued, pc, i, pending, objs, crashed, live, faults>>

\* What the firmware says on a T2H channel: on sharedmalloc "alloc" (no
\* address, a size), "zero" (no address, no size) or "free" (an address).
Message(c) == IF Kind[c] = "sharedmalloc" THEN {"alloc", "zero", "free"} ELSE {"msg"}
Messages   == {"alloc", "zero", "free", "msg"}

TypeOK ==
    /\ DOMAIN slot = Inbox /\ DOMAIN idx = Inbox /\ DOMAIN fwIdx = Inbox
    /\ \A c \in Inbox : /\ slot[c] \in [Slot(c) -> {"host"} \cup Messages]
                        /\ {idx[c], fwIdx[c]} \subseteq Slot(c)
    /\ ready \in [Waked -> BOOLEAN]
    /\ sleeper \in [Waked -> {"none", "asleep", "awake"}]
    /\ owes \in SUBSET (0 .. 3) /\ status \in SUBSET (0 .. 3)
    /\ pending \in SUBSET (0 .. 3)
    /\ enabled \in BOOLEAN /\ latch \in BOOLEAN /\ msi \in BOOLEAN
    /\ installed \in BOOLEAN /\ queued \in BOOLEAN
    /\ pc \in {"idle", "read", "mask", "clear", "ack", "for", "drain", "handle", "exit"}
    /\ i \in 0 .. NChan + 1
    /\ objs \in Int /\ live \in Nat
    /\ crashed \in BOOLEAN
    /\ faults \in 0 .. MaxFaults

\* After fthd_irq_enable at the end of fthd_hw_init.
Init ==
    /\ slot = [c \in Inbox |-> [k \in Slot(c) |-> "host"]]
    /\ idx = [c \in Inbox |-> 0] /\ fwIdx = [c \in Inbox |-> 0]
    /\ ready = [c \in Waked |-> FALSE]
    /\ sleeper = [c \in Waked |-> "none"]
    /\ owes = {} /\ status = {} /\ pending = {}
    /\ enabled = TRUE /\ latch = FALSE /\ msi = FALSE
    /\ installed = TRUE /\ queued = FALSE
    /\ pc = "idle" /\ i = 0
    /\ objs = 0 /\ live = 0 /\ crashed = FALSE
    /\ faults = 0

---------------------------------------------------------------------------
(* External: the firmware and the bridge.                                  *)

Outstanding(m) == UNION {{<<c, k>> : k \in {n \in Slot(c) : slot[c][n] = m}} : c \in Inbox}
\* if (++chan->ringbuf.idx >= chan->size) chan->ringbuf.idx = 0;
NextSlot(c, k) == IF k + 1 >= Size[c] THEN 0 ELSE k + 1

\* It writes a message in an entry the host has given back.
FwPost(c, m) ==
    /\ slot[c][fwIdx[c]] = "host"
    /\ m \in Message(c)
    /\ m = "free" => live > 0
    /\ m = "alloc" => objs + Cardinality(Outstanding("alloc")) < MaxObjs
    /\ slot' = [slot EXCEPT ![c][fwIdx[c]] = m]
    /\ fwIdx' = [fwIdx EXCEPT ![c] = NextSlot(c, @)]
    /\ live' = IF m = "free" THEN live - 1 ELSE live
    /\ owes' = owes \cup {Source[c]}
    /\ UNCHANGED <<idx, waitVars, hwVars, installed, workVars, objs, crashed, faults>>

\* It answers an entry of an H2T ring.
FwAnswer(c) ==
    /\ ~ready[c]
    /\ ready' = [ready EXCEPT ![c] = TRUE]
    /\ owes' = owes \cup {Source[c]}
    /\ UNCHANGED <<ringVars, sleeper, fwIdx, hwVars, installed, workVars, objs,
                   crashed, histVars>>

\* It sets the source bit; the bridge latches it and sends an MSI.
FwRaise(s) ==
    /\ s \in owes
    /\ owes' = owes \ {s}
    /\ status' = status \cup {s}
    /\ latch' = TRUE
    /\ msi' = (msi \/ (enabled /\ ~latch))
    /\ UNCHANGED <<ringVars, waitVars, fwIdx, enabled, installed, workVars, objs,
                   crashed, histVars>>

---------------------------------------------------------------------------
(* wait_event on chan->wq: test, sleep, test again after each wake-up.  A  *)
(* thread that times out leaves as well.                                   *)
Test(c) ==
    /\ sleeper[c] # "asleep"
    /\ sleeper' = [sleeper EXCEPT ![c] = IF ready[c] THEN "none" ELSE "asleep"]
    /\ ready' = [ready EXCEPT ![c] = FALSE]
    /\ UNCHANGED <<ringVars, fwIdx, owes, hwVars, installed, workVars, objs, crashed,
                   histVars>>

Timeout(c) ==
    /\ sleeper[c] = "asleep"
    /\ sleeper' = [sleeper EXCEPT ![c] = "none"]
    /\ UNCHANGED <<ringVars, ready, fwIdx, owes, hwVars, installed, workVars, objs,
                   crashed, histVars>>

---------------------------------------------------------------------------
\* fthd_irq_handler: schedule_work, unless the status is clear.
IrqHandler ==
    /\ msi /\ installed
    /\ msi' = FALSE
    /\ queued' = (queued \/ status # {})
    /\ UNCHANGED <<ringVars, waitVars, fwIdx, owes, status, enabled, latch, installed,
                   pc, i, pending, objs, crashed, histVars>>

(* fthd_irq_work, one action for each access to shared state.              *)
WorkStart ==
    /\ pc = "idle" /\ queued
    /\ queued' = FALSE
    /\ pc' = "read" /\ i' = 0
    /\ UNCHANGED <<ringVars, waitVars, fwIdx, owes, hwVars, installed, pending, objs,
                   crashed, live, faults>>

\* while(i++ < 500) { pending = ISP_IRQ_STATUS; if (!(pending & 0xf0)) break;
ReadStatus ==
    /\ pc = "read"
    /\ i' = i + 1
    /\ pending' = IF i < StuckLimit THEN status ELSE pending
    /\ pc' = IF i < StuckLimit /\ status # {} THEN "mask" ELSE "exit"
    /\ UNCHANGED <<ringVars, waitVars, fwIdx, owes, hwVars, installed, queued, objs,
                   crashed, live, faults>>

MaskIrq ==
    /\ pc = "mask"
    /\ enabled' = FALSE
    /\ pc' = "clear"
    /\ UNCHANGED <<ringVars, waitVars, fwIdx, owes, status, latch, msi, installed,
                   queued, i, pending, objs, crashed, histVars>>

\* Mutant: every bit is cleared, not only those that were read.
ClearAll ==
    /\ pc = "clear"
    /\ status' = {}
    /\ pc' = "ack"
    /\ UNCHANGED <<ringVars, waitVars, fwIdx, owes, enabled, latch, msi, installed,
                   queued, i, pending, objs, crashed, histVars>>

\* ISP_IRQ_CLEAR = pending.
ClearStatus ==
    /\ pc = "clear"
    /\ status' = status \ pending
    /\ pc' = "ack"
    /\ UNCHANGED <<ringVars, waitVars, fwIdx, owes, enabled, latch, msi, installed,
                   queued, i, pending, objs, crashed, histVars>>

\* Config word 0x90 = 0x200; then the for loop starts at i = 0.
AckLatch ==
    /\ pc = "ack"
    /\ latch' = FALSE
    /\ pc' = "for" /\ i' = 0
    /\ UNCHANGED <<ringVars, waitVars, fwIdx, owes, status, enabled, msi, installed,
                   queued, pending, objs, crashed, histVars>>

\* The next channel; one whose bit is not pending is skipped.
SkipChannel ==
    /\ pc = "for" /\ i < NChan /\ Source[i] \notin pending
    /\ i' = i + 1
    /\ UNCHANGED <<ringVars, waitVars, fwIdx, owes, hwVars, installed, queued, pc,
                   pending, objs, crashed, histVars>>

\* fthd_handle_irq on io, buf_h2t, debug: wake_up_interruptible.
WakeChannel ==
    /\ pc = "for" /\ i < NChan /\ Source[i] \in pending /\ Kind[i] \in H2T
    /\ sleeper' = [sleeper EXCEPT ![i] = IF @ = "asleep" THEN "awake" ELSE @]
    /\ i' = i + 1
    /\ UNCHANGED <<ringVars, ready, fwIdx, owes, hwVars, installed, queued, pc,
                   pending, objs, crashed, histVars>>

EnterChannel ==
    /\ pc = "for" /\ i < NChan /\ Source[i] \in pending /\ Kind[i] \in T2H
    /\ pc' = "drain"
    /\ UNCHANGED <<ringVars, waitVars, fwIdx, owes, hwVars, installed, queued, i,
                   pending, objs, crashed, histVars>>

EndFor ==
    /\ pc = "for" /\ i = NChan
    /\ pc' = "read"
    /\ UNCHANGED <<ringVars, waitVars, fwIdx, owes, hwVars, installed, queued, i,
                   pending, objs, crashed, histVars>>

\* Mutant: idx is advanced here as it is for FW_CHAN_TYPE_OUT.
ReceiveAdvances ==
    /\ pc = "drain"
    /\ \/ /\ slot[i][idx[i]] # "host"
          /\ idx' = [idx EXCEPT ![i] = NextSlot(i, @)]
          /\ pc' = "handle" /\ i' = i
       \/ /\ slot[i][idx[i]] = "host"
          /\ pc' = "for" /\ i' = i + 1
          /\ UNCHANGED idx
    /\ UNCHANGED <<slot, waitVars, fwIdx, owes, hwVars, installed, queued, pending,
                   objs, crashed, histVars>>

\* fthd_channel_ringbuf_receive in the while of fthd_handle_irq.
Receive ==
    /\ pc = "drain"
    /\ \/ /\ slot[i][idx[i]] # "host"
          /\ pc' = "handle" /\ i' = i
       \/ /\ slot[i][idx[i]] = "host"
          /\ pc' = "for" /\ i' = i + 1
    /\ UNCHANGED <<ringVars, waitVars, fwIdx, owes, hwVars, installed, queued, pending,
                   objs, crashed, histVars>>

\* fthd_channel_ringbuf_send on a T2H ring: the entry at idx is given back
\* (or -EAGAIN if it has been), and idx moves on in either case.
SendBack(c) ==
    /\ slot' = [slot EXCEPT ![c][idx[c]] = "host"]
    /\ idx' = [idx EXCEPT ![c] = NextSlot(c, @)]

(* The handlers.  terminal, buf_t2h and io_t2h always send the entry back. *)
HandleMessage ==
    /\ pc = "handle" /\ Kind[i] # "sharedmalloc"
    /\ SendBack(i)
    /\ pc' = "drain"
    /\ UNCHANGED <<waitVars, fwIdx, owes, hwVars, installed, queued, i, pending, objs,
                   crashed, histVars>>

HandleFree ==
    /\ pc = "handle" /\ Kind[i] = "sharedmalloc" /\ slot[i][idx[i]] = "free"
    /\ objs' = objs - 1
    /\ SendBack(i)
    /\ pc' = "drain"
    /\ UNCHANGED <<waitVars, fwIdx, owes, hwVars, installed, queued, i, pending,
                   crashed, histVars>>

HandleAlloc ==
    /\ pc = "handle" /\ Kind[i] = "sharedmalloc" /\ slot[i][idx[i]] = "alloc"
    /\ objs' = objs + 1 /\ live' = live + 1
    /\ SendBack(i)
    /\ pc' = "drain"
    /\ UNCHANGED <<waitVars, fwIdx, owes, hwVars, installed, queued, i, pending,
                   crashed, faults>>

\* A size of 0, or no memory for the object: sharedmalloc_handler returns
\* without sending the entry back, and the while receives it again.
NotSentBack ==
    /\ pc = "handle" /\ Kind[i] = "sharedmalloc"
    /\ \/ slot[i][idx[i]] = "zero" /\ UNCHANGED faults
       \/ /\ slot[i][idx[i]] = "alloc"
          /\ faults < MaxFaults /\ faults' = faults + 1
    /\ pc' = "drain"
    /\ UNCHANGED <<ringVars, waitVars, fwIdx, owes, hwVars, installed, queued, i,
                   pending, objs, crashed, live>>

\* No room in ISP memory: isp_mem_create sets obj to NULL and goes on.
AllocCrashes ==
    /\ pc = "handle" /\ Kind[i] = "sharedmalloc" /\ slot[i][idx[i]] = "alloc"
    /\ faults < MaxFaults /\ faults' = faults + 1
    /\ crashed' = TRUE
    /\ UNCHANGED <<ringVars, waitVars, fwIdx, owes, hwVars, installed, workVars, objs,
                   live>>

\* if (i >= 500) fthd_irq_uninstall; config word 0x94 = 0x200.
WorkExit ==
    /\ pc = "exit"
    /\ installed' = (i < StuckLimit)
    /\ enabled' = TRUE
    /\ msi' = (msi \/ latch)
    /\ pc' = "idle" /\ i' = 0 /\ pending' = {}
    /\ UNCHANGED <<ringVars, waitVars, fwIdx, owes, status, latch, queued, objs,
                   crashed, histVars>>

Work == \/ WorkStart \/ ReadStatus \/ MaskIrq \/ ClearStatus \/ AckLatch
        \/ SkipChannel \/ WakeChannel \/ EnterChannel \/ EndFor \/ Receive
        \/ HandleMessage \/ HandleFree \/ HandleAlloc \/ NotSentBack \/ AllocCrashes
        \/ WorkExit
Waiters == \E c \in Waked : Test(c) \/ Timeout(c)
Firmware == \/ \E c \in Inbox, m \in Messages : FwPost(c, m)
            \/ \E c \in Waked : FwAnswer(c)

Next == \/ ~crashed /\ (Firmware \/ (\E s \in 0 .. 3 : FwRaise(s)) \/ IrqHandler
                        \/ Work \/ Waiters)
        \/ crashed /\ UNCHANGED vars
Spec == Init /\ [][Next]_vars

(* The processor serves interrupts, runs the work it has queued, and the   *)
(* firmware sets the bits it owes.  Posting and waiting need no fairness.  *)
Fairness == /\ WF_vars(~crashed /\ IrqHandler)
            /\ WF_vars(~crashed /\ Work)
            /\ \A s \in 0 .. 3 : WF_vars(~crashed /\ FwRaise(s))
FairSpec == Spec /\ Fairness

---------------------------------------------------------------------------
\* Somebody will read the status again.
Attention == \/ msi /\ installed
             \/ queued
             \/ pc \notin {"idle", "exit"}
             \/ pc = "exit" /\ latch
\* The work will come to channel c: before the firmware sets its bit, while
\* the bit is set, or in the round that has read it.
Coming(c) == \/ Source[c] \in owes
             \/ Source[c] \in status /\ Attention
             \/ Source[c] \in pending /\ pc \in {"mask", "clear", "ack"}
             \/ Source[c] \in pending /\ pc = "for" /\ i <= c
             \/ pc \in {"drain", "handle"} /\ (i = c \/ (i < c /\ Source[c] \in pending))

(* No lost interrupt: a message in a T2H ring, or an answer somebody       *)
(* sleeps for, always has the work coming to its channel, although the     *)
(* work clears the status and the latch while the firmware sets them.      *)
NoLostInterrupt ==
    /\ \A c \in Inbox : (\E k \in Slot(c) : slot[c][k] # "host") => Coming(c)
    /\ \A c \in Waked : ready[c] /\ sleeper[c] = "asleep" => Coming(c)

(* T2H rings stay in step: if the firmware has any message outstanding,    *)
(* the entry at the host's idx is one, so none is received out of order or *)
(* hidden behind an empty entry.                                           *)
InStep ==
    \A c \in Inbox :
        /\ (\E k \in Slot(c) : slot[c][k] # "host") => slot[c][idx[c]] # "host"
        /\ pc = "handle" /\ i = c => slot[c][idx[c]] # "host"

(* Every shared-malloc request is carried out once: the driver's live      *)
(* objects are those the firmware holds and those whose "free" it has not  *)
(* received yet.                                                           *)
SharedMemoryAgrees == objs = live + Cardinality(Outstanding("free"))

(* The handler stays installed: with as few channels as isp_init allows    *)
(* the "irq stuck" exit is never taken.                                    *)
NeverUninstalled == installed

(* No interrupt is lost, a message is handled once and in order, what it   *)
(* asked for is done once, and the handler is never uninstalled            *)
(* (fthd_irq_work, fthd_handle_irq).                                       *)
ReceivedOnce ==
    TypeOK /\ NoLostInterrupt /\ InStep /\ SharedMemoryAgrees /\ NeverUninstalled

\* A sharedmalloc request of size 0 keeps the work for ever.
Blocked == \E c \in Inbox : slot[c][idx[c]] = "zero"
\* The firmware stops posting for good.
Quiet == <>[][\A c \in Inbox, m \in Messages : ~FwPost(c, m)]_vars

(* Once the firmware stops posting, every message is given back, unless a  *)
(* request of size 0 blocks the work.  (While it goes on posting, the      *)
(* while loop may stay with one channel for ever.)                         *)
MessagesReturn ==
    Quiet => \A c \in Inbox : \A k \in Slot(c) :
                 slot[c][k] # "host" ~> (slot[c][k] = "host" \/ Blocked \/ crashed)

(* Likewise a sleeper whose answer has come is woken, or its wait is over, *)
(* without its timeout being needed for progress.                          *)
SleepersWake ==
    Quiet => \A c \in Waked :
                 (ready[c] /\ sleeper[c] = "asleep") ~>
                     (sleeper[c] # "asleep" \/ Blocked \/ crashed)

(* Once the firmware pauses nobody is left unserved by fthd_irq_work.      *)
Served == MessagesReturn /\ SleepersWake
==========================================================================
