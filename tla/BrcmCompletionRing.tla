------------------------- MODULE BrcmCompletionRing -------------------------
(***************************************************************************)
(* A completion ring of the Broadcom Wi-Fi driver: the device writes, the  *)
(* interrupt thread reads (brcmf_msgbuf_process_rx of msgbuf.c on the read *)
(* half of commonring.c).  The thread takes the run of messages up to the  *)
(* end of the ring, hands slots back every few messages while it is still  *)
(* working through the run, and looks again only when it ended at the      *)
(* ring's end.  The doorbell status is cleared before the ring is read.    *)
(***************************************************************************)
EXTENDS BrcmCommonring

VARIABLES
    r_ptr, w_ptr,       \* the host's read index and its copy of the write index
    pc,                 \* interrupt thread: "idle", "look", "work"
    buf, count,         \* the next message of the run, how many are left
    processed,          \* handled and not yet handed back
    slot,               \* the ring's memory
    devR, devW,         \* the indices in shared memory
    bell,               \* the doorbell status bit is set
    sent, got           \* messages posted, messages handled

vars == <<r_ptr, w_ptr, pc, buf, count, processed, slot, devR, devW, bell, sent, got>>
device == <<slot, devW, sent>>

\* *n_items of brcmf_commonring_get_read_ptr: the run up to the write index
\* or the end of the ring.
Run(r, w) == IF w >= r THEN w - r ELSE Depth - r

Init ==
    /\ r_ptr = 0 /\ w_ptr = 0
    /\ pc = "idle" /\ buf = 0 /\ count = 0 /\ processed = 0
    /\ slot = [i \in Slots |-> 0]
    /\ devR = 0 /\ devW = 0 /\ bell = FALSE
    /\ sent = 0 /\ got = 0

\* The device writes a message where it sees room, moves its index and rings.
DevicePost ==
    /\ sent < MaxMsgs
    /\ Wrapped(devW + 1) # devR
    /\ slot' = [slot EXCEPT ![devW] = sent]
    /\ devW' = Wrapped(devW + 1)
    /\ sent' = sent + 1
    /\ bell' = TRUE
    /\ UNCHANGED <<r_ptr, w_ptr, pc, buf, count, processed, devR, got>>

\* brcmf_pcie_isr_thread acknowledges the doorbell, then calls rx_trigger.
Trigger ==
    /\ pc = "idle" /\ bell
    /\ bell' = FALSE
    /\ pc' = "look"
    /\ UNCHANGED <<r_ptr, w_ptr, buf, count, processed, device, devR, got>>

\* brcmf_commonring_get_read_ptr.
Look ==
    /\ pc = "look"
    /\ w_ptr' = devW
    /\ count' = Run(r_ptr, devW)
    /\ buf' = r_ptr
    /\ processed' = 0
    /\ pc' = IF count' = 0 THEN "idle" ELSE "work"
    /\ UNCHANGED <<r_ptr, device, devR, bell, got>>

\* Mutant: the whole run is handed back at once.
ReadCompleteAll(n) ==
    /\ r_ptr' = w_ptr
    /\ devR' = r_ptr'
\* brcmf_commonring_read_complete(commonring, n).
ReadComplete(n) ==
    /\ r_ptr' = Wrapped(r_ptr + n)
    /\ devR' = r_ptr'

\* One message is handled; every Thrs messages the slots are handed back.
Process ==
    /\ pc = "work" /\ count > 0
    /\ got' = got + 1
    /\ buf' = buf + 1
    /\ count' = count - 1
    /\ IF processed + 1 = Thrs
       THEN ReadComplete(processed + 1) /\ processed' = 0
       ELSE processed' = processed + 1 /\ UNCHANGED <<r_ptr, devR>>
    /\ UNCHANGED <<w_ptr, pc, device, bell>>

\* Mutant: the wrapped part of the ring is left for the next doorbell.
AgainNever(r) == FALSE
\* The loop looks again when the run ended at the end of the ring.
Again(r) == r = 0

Finish ==
    /\ pc = "work" /\ count = 0
    /\ IF processed > 0 THEN ReadComplete(processed) ELSE UNCHANGED <<r_ptr, devR>>
    /\ processed' = 0
    /\ pc' = IF Again(r_ptr') THEN "look" ELSE "idle"
    /\ UNCHANGED <<w_ptr, buf, count, device, bell, got>>

\* The device has no more messages and the thread waits for a doorbell.
Done ==
    /\ sent = MaxMsgs /\ pc = "idle" /\ ~bell
    /\ UNCHANGED vars

Next == DevicePost \/ Trigger \/ Look \/ Process \/ Finish \/ Done

Host == Trigger \/ Look \/ Process \/ Finish

Spec == Init /\ [][Next]_vars

(***************************************************************************)
(* Properties.                                                             *)
(***************************************************************************)
\* Every variable stays in its range; r_ptr never runs past the ring's end.
TypeOK ==
    /\ r_ptr \in Slots /\ w_ptr \in Slots /\ devR \in Slots /\ devW \in Slots
    /\ pc \in {"idle", "look", "work"} /\ bell \in BOOLEAN
    /\ buf \in 0..Depth /\ count \in Nat /\ buf + count <= Depth
    /\ processed \in Nat
    /\ slot \in [Slots -> Nat]
    /\ sent \in Nat /\ got \in Nat

\* The thread handles the device's messages once each and in order, although
\* it hands slots back in the middle of a run and the device reuses them
\* (brcmf_msgbuf_process_rx).
HandledInOrder == pc = "work" /\ count > 0 => slot[buf] = got

\* No message is lost or overwritten before it is handled.
NothingLost ==
    \A i \in Slots :
        Ahead(devR, i) < Ahead(devR, devW) /\ Ahead(devR, i) >= processed
        => slot[i] = got - processed + Ahead(devR, i)

(***************************************************************************)
(* The inductive invariant: what the thread is working through lies        *)
(* between the shared indices.                                             *)
(***************************************************************************)
Position ==
    /\ devR = r_ptr
    /\ sent = got - processed + Ahead(devR, devW)
    /\ pc # "work" => processed = 0
    /\ pc = "work" =>
        /\ r_ptr + processed = buf \/ (r_ptr = 0 /\ processed = 0 /\ buf = Depth)
        /\ count > 0 => r_ptr + processed = buf
        /\ processed + count <= Ahead(devR, devW)

CompletionInv == TypeOK /\ Position /\ NothingLost
=============================================================================
