--------------------------- MODULE BrcmSubmitRing ---------------------------
(***************************************************************************)
(* A submission ring of the Broadcom Wi-Fi driver (commonring.c used with  *)
(* the PCIe callbacks of pcie.c): the host writes fixed-size messages, the *)
(* device reads them.  The host keeps its own copy of both indices and     *)
(* refreshes the read index only when its copy says the ring is full; what *)
(* the device sees is the write index the host last stored in device       *)
(* memory.  Between two flushes the host reserves slots, fills them one by *)
(* one and may take the unfilled ones back; the device reads at any time.  *)
(*                                                                         *)
(* A message is its number: the host numbers what it fills, and the device *)
(* counts what it reads, so order, loss and duplication are visible.       *)
(***************************************************************************)
EXTENDS BrcmCommonring

VARIABLES
    r_ptr, w_ptr, f_ptr,   \* the host's indices: read copy, write, flushed
    was_full,              \* the ring was found full and not yet found roomy
    fill,                  \* ret_ptr: the slot the next message goes to
    todo,                  \* slots reserved and not yet filled
    slot,                  \* the ring's memory
    devR, devW,            \* the indices in device memory
    up,                    \* devinfo->state is BRCMFMAC_PCIE_STATE_UP
    sent, got              \* messages filled, messages read

ring == <<r_ptr, w_ptr, f_ptr, was_full, fill, todo>>
vars == <<r_ptr, w_ptr, f_ptr, was_full, fill, todo, slot, devR, devW, up, sent, got>>

(***************************************************************************)
(* Index arithmetic of commonring.c.                                       *)
(***************************************************************************)
Available(r, w) == IF r <= w THEN Depth - w + r ELSE r - w

Lesser(a, b) == IF a < b THEN a ELSE b

\* Mutant: the free slot is given out too.
GrantedAll(n, r, w) ==
    LET m == Lesser(n, Available(r, w))
    IN  IF m + w > Depth THEN Depth - w ELSE m

\* How many of n slots are given out: one slot stays free, and a reservation
\* does not run over the end of the ring.
Granted(n, r, w) ==
    LET m == Lesser(n, Available(r, w) - 1)
    IN  IF m + w > Depth THEN Depth - w ELSE m

Cancelled(w, n) == IF w = 0 THEN Depth - n ELSE w - n

\* cr_update_rptr: the device's read index, when the bus is up.
Refreshed == IF up THEN devR ELSE r_ptr

\* The read index the retry loop ends with when it wants `enough`.
Looked(enough) == IF enough THEN r_ptr ELSE Refreshed

Roomy(r) == Available(r, w_ptr) > 1
Relaxed(r) == Roomy(r) /\ (~was_full \/ Available(r, w_ptr) > Depth \div 8)

Init ==
    /\ r_ptr = 0 /\ w_ptr = 0 /\ f_ptr = 0 /\ was_full = FALSE
    /\ fill = 0 /\ todo = 0
    /\ slot = [i \in Slots |-> 0]
    /\ devR = 0 /\ devW = 0 /\ up = TRUE
    /\ sent = 0 /\ got = 0

(***************************************************************************)
(* brcmf_commonring_write_available: asked before a batch; after the ring  *)
(* was full it says yes only once an eighth of it is free.                 *)
(***************************************************************************)
WriteAvailable ==
    /\ todo = 0
    /\ LET r == Looked(Relaxed(r_ptr))
       IN  /\ r_ptr' = r
           /\ was_full' = IF Relaxed(r) THEN FALSE ELSE was_full \/ ~Roomy(r)
    /\ UNCHANGED <<w_ptr, f_ptr, fill, todo, slot, devR, devW, up, sent, got>>

(***************************************************************************)
(* brcmf_commonring_reserve_for_write (n = 1) and                          *)
(* brcmf_commonring_reserve_for_write_multiple.                            *)
(***************************************************************************)
Reserve(n) ==
    /\ todo = 0
    /\ LET r == Looked(Roomy(r_ptr))
           a == Granted(n, r, w_ptr)
       IN  /\ r_ptr' = r
           /\ IF Roomy(r)
              THEN /\ fill' = w_ptr
                   /\ todo' = a
                   /\ w_ptr' = Wrapped(w_ptr + a)
                   /\ UNCHANGED was_full
              ELSE /\ was_full' = TRUE
                   /\ UNCHANGED <<fill, todo, w_ptr>>
    /\ UNCHANGED <<f_ptr, slot, devR, devW, up, sent, got>>

\* The caller writes one message at ret_ptr and moves ret_ptr on.
Fill ==
    /\ todo > 0
    /\ sent < MaxMsgs
    /\ slot' = [slot EXCEPT ![fill] = sent]
    /\ fill' = fill + 1
    /\ todo' = todo - 1
    /\ sent' = sent + 1
    /\ UNCHANGED <<r_ptr, w_ptr, f_ptr, was_full, devR, devW, up, got>>

\* brcmf_commonring_write_cancel: no buffer or packet id for the rest.
WriteCancel ==
    /\ todo > 0
    /\ w_ptr' = Cancelled(w_ptr, todo)
    /\ todo' = 0
    /\ UNCHANGED <<r_ptr, f_ptr, was_full, fill, slot, devR, devW, up, sent, got>>

\* brcmf_commonring_write_complete; cr_write_wptr stores nothing while down.
WriteComplete ==
    /\ todo = 0
    /\ f_ptr' = w_ptr
    /\ devW' = IF up THEN w_ptr ELSE devW
    /\ UNCHANGED <<r_ptr, w_ptr, was_full, fill, todo, slot, devR, up, sent, got>>

\* The device takes the next message it has been told of.
DeviceRead ==
    /\ devR # devW
    /\ devR' = Wrapped(devR + 1)
    /\ got' = got + 1
    /\ UNCHANGED <<ring, slot, devW, up, sent>>

\* Suspend and hot resume switch the callbacks off and on again.
EnterD3 ==
    /\ up /\ up' = FALSE
    /\ UNCHANGED <<ring, slot, devR, devW, sent, got>>

LeaveD3 ==
    /\ ~up /\ up' = TRUE
    /\ UNCHANGED <<ring, slot, devR, devW, sent, got>>

Next ==
    \/ WriteAvailable
    \/ \E n \in 1..Depth : Reserve(n)
    \/ Fill \/ WriteCancel \/ WriteComplete
    \/ DeviceRead
    \/ EnterD3 \/ LeaveD3

Spec == Init /\ [][Next]_vars

(***************************************************************************)
(* Properties.                                                             *)
(***************************************************************************)
\* The first slot that holds no message yet.
Front == IF todo > 0 THEN fill ELSE w_ptr

\* Every variable stays in its range: no index ever reaches Depth, and the
\* slots still to fill end at the write index.
TypeOK ==
    /\ r_ptr \in Slots /\ w_ptr \in Slots /\ f_ptr \in Slots
    /\ devR \in Slots /\ devW \in Slots
    /\ was_full \in BOOLEAN /\ up \in BOOLEAN
    /\ fill \in 0..Depth /\ todo \in Nat /\ fill + todo <= Depth
    /\ slot \in [Slots -> Nat]
    /\ sent \in Nat /\ got \in Nat

\* The device reads the messages the host wrote, each once and in order,
\* whatever was reserved, cancelled or flushed in between (commonring.c).
DeviceReadsInOrder == devR # devW => slot[devR] = got

\* Every message written and not read is still in its slot: a reservation
\* never reaches a slot the device has still to read, even though the host
\* works with an old copy of the read index.
NothingOverwritten ==
    /\ sent - got = Ahead(devR, Front)
    /\ \A i \in Slots : Ahead(devR, i) < sent - got => slot[i] = got + Ahead(devR, i)

\* The device is never told of a slot that is reserved and not filled.
OnlyFilledShown == Ahead(devR, devW) <= sent - got

(***************************************************************************)
(* The inductive invariant: the indices stand in the order                 *)
(*   read copy, device read, device write, front, write                    *)
(* around the ring, which has at most Depth - 1 slots in use.              *)
(***************************************************************************)
Order ==
    /\ Ahead(r_ptr, w_ptr) = Ahead(r_ptr, devR) + Ahead(devR, w_ptr)
    /\ Ahead(devR, w_ptr) = Ahead(devR, Front) + todo
    /\ Ahead(devR, devW) <= Ahead(devR, Front)
    /\ todo > 0 => w_ptr = Wrapped(fill + todo)

RingInv == TypeOK /\ Order /\ NothingOverwritten
=============================================================================
