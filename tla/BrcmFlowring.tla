---------------------------- MODULE BrcmFlowring ----------------------------
(***************************************************************************)
(* Transmit flow rings of the Broadcom Wi-Fi driver (flowring.c and the    *)
(* transmit half of msgbuf.c).  Four threads meet here:                    *)
(*   - the transmit path, which queues packets, creates a ring for a new   *)
(*     destination and stops the interface when a queue is long;           *)
(*   - the create worker, which asks the firmware for the ring;            *)
(*   - the txflow worker, which moves queued packets into the ring;        *)
(*   - the interrupt thread, which handles the firmware's answers;         *)
(* and, when a peer leaves, a deleter that closes the ring and has the     *)
(* firmware give it up.  None of them share a lock around the queue.       *)
(*                                                                         *)
(* All rings belong to one interface; a destination and its ring have the  *)
(* same name, so a packet is known by its ring and counted.                *)
(***************************************************************************)
EXTENDS Integers, FiniteSets, Functions

CONSTANTS Rings,        \* flow ids, naturals
          None,
          High, Low,    \* BRCMF_FLOWRING_HIGH, BRCMF_FLOWRING_LOW
          Delay,        \* BRCMF_MSGBUF_DELAY_TXWORKER_THRS
          Trickle,      \* BRCMF_MSGBUF_TRICKLE_TXWORKER_THRS
          Depth, Eighth,\* slots of a flow ring, and depth / 8
          Pktids,       \* NR_TX_PKTIDS, shared by all rings
          SlowFirmware, \* the firmware needs longer to create a ring than
                        \* the transmit path from there to its queue
          MaxPkts,      \* bound: packets sent down in a behaviour
          MaxFails,     \* bound: allocations and requests that fail
          MaxDeletes    \* bound: peers that leave

VARIABLES
    status,       \* "none", or the ring's RING_CLOSED, RING_OPEN, RING_CLOSING
    q,            \* length of the ring's skblist
    blocked,      \* ring->blocked
    stopped,      \* the interface is stopped for BRCMF_NETIF_STOP_REASON_FLOW
    works,        \* rings waiting for the create worker
    ctl,          \* requests the firmware has: <<"create" or "delete", ring>>
    unseen,       \* requests in the control ring whose index was not written
    stray,        \* rings removed with a request left in the control ring
    dma,          \* rings whose memory is allocated
    unread, inair,\* messages in the ring, messages the firmware works on
    out,          \* commonring->outstanding_tx
    wasfull,      \* commonring->was_full
    flow_map, txwork,   \* rings to serve; txflow_work is queued
    done_map,           \* txstatus_done_map
    tx, wk, del,        \* where the transmit path, the worker, the deleter are
    pkts, gone,         \* packets sent down; packets freed, sent or not
    fails, deletes, late, \* failures, deletions, waits for statuses given up
    fault               \* a ring or memory that is gone was used or freed

queueVars == <<q, blocked, stopped>>
hwVars == <<unread, inair, out, wasfull>>
schedVars == <<flow_map, txwork, done_map>>
reqVars == <<ctl, unseen, stray>>
lifeVars == <<status, works, reqVars, dma>>
boundVars == <<fails, deletes, late>>
vars == <<queueVars, hwVars, schedVars, lifeVars, boundVars, tx, wk, del, pkts, gone, fault>>

\* The sum of f over the rings.
Total(f) == FoldFunction(+, 0, f)

Idle == [at |-> "idle", r |-> None]
Running == ~fault

(***************************************************************************)
(* brcmf_flowring_block, under block_lock: the interface follows the ring  *)
(* unless another open ring is blocked.                                    *)
(***************************************************************************)
OthersBlock(r) == \E s \in Rings \ {r} : status[s] = "open" /\ blocked[s]

Block(r, b) ==
    IF blocked[r] = b THEN UNCHANGED <<blocked, stopped>>
    ELSE /\ blocked' = [blocked EXCEPT ![r] = b]
         /\ stopped' = IF OthersBlock(r) THEN stopped ELSE b

\* brcmf_flowring_qlen.
Qlen(r) == IF status[r] = "open" THEN q[r] ELSE 0

Unblock(r) == Block(r, FALSE)

\* brcmf_flowring_delete: unblock, forget, free what is queued.
DeleteRing(r) ==
    IF status[r] = "none" THEN UNCHANGED <<queueVars, status, gone>>
    ELSE /\ Unblock(r)
         /\ status' = [status EXCEPT ![r] = "none"]
         /\ q' = [q EXCEPT ![r] = 0]
         /\ gone' = gone + q[r]

\* Mutant: the memory goes and the ring stays.
RemoveRingKeeps(r) ==
    /\ dma' = dma \ {r}
    /\ fault' = (r \notin dma)
    /\ UNCHANGED <<queueVars, status, gone>>
\* brcmf_msgbuf_remove_flowring frees the ring's memory first.
RemoveRing(r) ==
    /\ DeleteRing(r)
    /\ dma' = dma \ {r}
    /\ fault' = (r \notin dma)

\* brcmf_msgbuf_schedule_txdata.
Kick(r, force) ==
    /\ flow_map' = flow_map \cup {r}
    /\ txwork' = (txwork \/ force \/ out[r] < Delay)

Init ==
    /\ status = [r \in Rings |-> "none"] /\ q = [r \in Rings |-> 0]
    /\ blocked = [r \in Rings |-> FALSE] /\ stopped = FALSE
    /\ works = {} /\ ctl = {} /\ unseen = {} /\ stray = {} /\ dma = {}
    /\ unread = [r \in Rings |-> 0] /\ inair = [r \in Rings |-> 0]
    /\ out = [r \in Rings |-> 0] /\ wasfull = [r \in Rings |-> FALSE]
    /\ flow_map = {} /\ txwork = FALSE /\ done_map = {}
    /\ tx = Idle /\ wk = Idle /\ del = Idle
    /\ pkts = 0 /\ gone = 0 /\ fails = 0 /\ deletes = 0 /\ late = 0 /\ fault = FALSE

(***************************************************************************)
(* brcmf_commonring_write_complete, for the control ring: writing the index *)
(* shows the firmware every request in the ring.  It fails, and so does the *)
(* doorbell, once the device has been put to sleep; a request whose caller *)
(* is told so stays in the ring and is shown with the next one, if not at  *)
(* once.  Two of a kind for one ring, which takes such a request, are one. *)
(***************************************************************************)
Submit(req, wrote) ==
    /\ ctl' = IF wrote THEN ctl \cup unseen \cup {req} ELSE ctl
    /\ unseen' = IF wrote THEN {} ELSE unseen \cup {req}

\* The doorbell is rung; the device may have slept until just before.
Sent(req) ==
    /\ \E wrote \in BOOLEAN :
          /\ wrote \/ fails < MaxFails
          /\ Submit(req, wrote)
          /\ fails' = IF wrote THEN fails ELSE fails + 1
    /\ UNCHANGED stray

\* The control ring is full, the bus is down, or the doorbell is not rung.
NotSent(kind, r) ==
    /\ fails < MaxFails /\ fails' = fails + 1
    /\ \/ UNCHANGED reqVars
       \/ /\ status[r] # "none"
          /\ \E wrote \in BOOLEAN : Submit(<<kind, r>>, wrote)
          /\ stray' = stray \cup {r}

(***************************************************************************)
(* The transmit path: brcmf_msgbuf_tx_queue_data.                          *)
(***************************************************************************)
\* A known destination: the ring is looked up now and used in the next step.
TxLookup(r) ==
    /\ Running /\ tx = Idle /\ ~stopped /\ pkts < MaxPkts
    /\ status[r] # "none"
    /\ tx' = [at |-> "enqueue", r |-> r]
    /\ pkts' = pkts + 1
    /\ UNCHANGED <<queueVars, hwVars, schedVars, lifeVars, boundVars, wk, del, gone, fault>>

\* A new destination: the ring is made and the worker is asked to create it
\* in the firmware; the packet is queued in the next step.
TxCreate(r) ==
    /\ Running /\ tx = Idle /\ ~stopped /\ pkts < MaxPkts
    /\ status[r] = "none"
    /\ status' = [status EXCEPT ![r] = "closed"]
    /\ blocked' = [blocked EXCEPT ![r] = FALSE]
    /\ works' = works \cup {r}
    /\ pkts' = pkts + 1
    /\ tx' = [at |-> "first", r |-> r]
    /\ UNCHANGED <<q, stopped, hwVars, schedVars, reqVars, dma, boundVars, wk, del, gone, fault>>

\* The first packet of a ring does not wake the txflow worker: the answer of
\* the firmware will.
TxFirst ==
    /\ Running /\ tx.at = "first"
    /\ IF status[tx.r] = "none"
       THEN fault' = TRUE /\ UNCHANGED <<q, tx>>
       ELSE q' = [q EXCEPT ![tx.r] = @ + 1] /\ tx' = Idle /\ UNCHANGED fault
    /\ UNCHANGED <<blocked, stopped, hwVars, schedVars, lifeVars, boundVars, wk, del, pkts, gone>>

\* skb_queue_tail, then the decision to block; the ring may be gone by now.
TxEnqueue ==
    /\ Running /\ tx.at = "enqueue"
    /\ LET r == tx.r
       IN  IF status[r] = "none"
           THEN /\ fault' = TRUE
                /\ UNCHANGED <<q, tx>>
           ELSE /\ q' = [q EXCEPT ![r] = @ + 1]
                /\ tx' = [at |-> IF ~blocked[r] /\ q[r] + 1 > High THEN "block" ELSE "kick", r |-> r]
                /\ UNCHANGED fault
    /\ UNCHANGED <<blocked, stopped, hwVars, schedVars, lifeVars, boundVars, wk, del, pkts, gone>>

TxBlock ==
    /\ Running /\ tx.at = "block"
    /\ IF status[tx.r] = "none"
       THEN fault' = TRUE /\ UNCHANGED <<blocked, stopped, tx>>
       ELSE Block(tx.r, TRUE) /\ tx' = [tx EXCEPT !.at = "recheck"] /\ UNCHANGED fault
    /\ UNCHANGED <<q, hwVars, schedVars, lifeVars, boundVars, wk, del, pkts, gone>>

\* Mutant: the queue is not looked at again after blocking.
ShortNever(n) == FALSE
Short(n) == n < Low

TxRecheck ==
    /\ Running /\ tx.at = "recheck"
    /\ IF status[tx.r] = "none"
       THEN fault' = TRUE /\ UNCHANGED <<blocked, stopped, tx>>
       ELSE /\ IF Short(q[tx.r]) THEN Block(tx.r, FALSE) ELSE UNCHANGED <<blocked, stopped>>
            /\ tx' = [tx EXCEPT !.at = "kick"] /\ UNCHANGED fault
    /\ UNCHANGED <<q, hwVars, schedVars, lifeVars, boundVars, wk, del, pkts, gone>>

\* Every Trickle-th packet wakes the worker however much is outstanding.
TxKick ==
    /\ Running /\ tx.at = "kick"
    /\ Kick(tx.r, q[tx.r] % Trickle = 0)
    /\ tx' = Idle
    /\ UNCHANGED <<queueVars, hwVars, done_map, lifeVars, boundVars, wk, del, pkts, gone, fault>>

(***************************************************************************)
(* The create worker and the firmware's answer.                            *)
(***************************************************************************)
\* brcmf_flowring_tid looks at the ring.
CreateRequest(r) ==
    /\ Running /\ r \in works
    /\ works' = works \ {r}
    /\ dma' = dma \cup {r}
    /\ unread' = [unread EXCEPT ![r] = 0]      \* brcmf_commonring_config
    /\ fault' = (status[r] = "none")
    /\ Sent(<<"create", r>>)
    /\ UNCHANGED <<queueVars, status, inair, out, wasfull, schedVars, deletes, late, tx, wk, del, pkts, gone>>

\* Without memory the ring is deleted, not removed.
Forget(r) == DeleteRing(r) /\ UNCHANGED <<dma, fault>>

CreateNoMemory(r) ==
    /\ Running /\ r \in works /\ fails < MaxFails
    /\ works' = works \ {r}
    /\ Forget(r)
    /\ fails' = fails + 1
    /\ UNCHANGED <<hwVars, schedVars, reqVars, deletes, late, tx, wk, del, pkts>>

\* What was allocated is freed again, although the request may be in the ring.
CreateNoRoom(r) ==
    /\ Running /\ r \in works
    /\ works' = works \ {r}
    /\ unread' = [unread EXCEPT ![r] = 0]
    /\ NotSent("create", r)
    /\ DeleteRing(r)
    /\ UNCHANGED <<inair, out, wasfull, schedVars, dma, deletes, late, tx, wk, del, pkts, fault>>

Created(r) ==
    /\ Running /\ <<"create", r>> \in ctl
    /\ SlowFirmware => tx # [at |-> "first", r |-> r]
    /\ ctl' = ctl \ {<<"create", r>>}
    /\ status' = IF status[r] = "none" THEN status ELSE [status EXCEPT ![r] = "open"]
    /\ Kick(r, TRUE)
    /\ UNCHANGED <<queueVars, hwVars, done_map, works, unseen, stray, dma, boundVars, tx, wk, del, pkts, gone, fault>>

CreateFailed(r) ==
    /\ Running /\ <<"create", r>> \in ctl /\ fails < MaxFails
    /\ ctl' = ctl \ {<<"create", r>>}
    /\ RemoveRing(r)
    /\ fails' = fails + 1
    /\ UNCHANGED <<hwVars, schedVars, works, unseen, stray, deletes, late, tx, wk, del, pkts>>

(***************************************************************************)
(* The txflow worker.  It holds the ring's lock from WkRing until it leaves*)
(* the loop.                                                               *)
(***************************************************************************)
WkStart ==
    /\ Running /\ wk = Idle /\ txwork
    /\ txwork' = FALSE
    /\ wk' = [at |-> "scan", r |-> None]
    /\ UNCHANGED <<queueVars, hwVars, flow_map, done_map, lifeVars, boundVars, tx, del, pkts, gone, fault>>

\* brcmf_commonring_write_available.
Writable(r) == Depth - unread[r] > 1 /\ (~wasfull[r] \/ Depth - unread[r] > Eighth)

\* for_each_set_bit: the lowest ring of the map from where the scan stands.
Ahead == {r \in flow_map : wk.at = "scan" /\ (wk.r = None \/ r > wk.r)}

WkRing(r) ==
    /\ Running /\ r \in Ahead /\ \A s \in Ahead : r <= s
    /\ flow_map' = flow_map \ {r}
    /\ wasfull' = [wasfull EXCEPT ![r] = IF Writable(r) THEN FALSE ELSE @ \/ Depth - unread[r] <= 1]
    /\ wk' = [at |-> IF Writable(r) THEN "loop" ELSE "scan", r |-> r]
    /\ UNCHANGED <<queueVars, unread, inair, out, txwork, done_map, lifeVars, boundVars, tx, del, pkts, gone, fault>>

WkEnd ==
    /\ Running /\ wk.at = "scan" /\ Ahead = {}
    /\ wk' = Idle
    /\ UNCHANGED <<queueVars, hwVars, schedVars, lifeVars, boundVars, tx, del, pkts, gone, fault>>

\* brcmf_flowring_dequeue takes a packet ...
WkDequeue ==
    /\ Running /\ wk.at = "loop" /\ Qlen(wk.r) > 0
    /\ q' = [q EXCEPT ![wk.r] = @ - 1]
    /\ wk' = [wk EXCEPT !.at = "unblock"]
    /\ UNCHANGED <<blocked, stopped, hwVars, schedVars, lifeVars, boundVars, tx, del, pkts, gone, fault>>

\* ... and lets the interface go on when the queue is short again.
WkUnblock ==
    /\ Running /\ wk.at = "unblock"
    /\ IF blocked[wk.r] /\ q[wk.r] < Low THEN Block(wk.r, FALSE) ELSE UNCHANGED <<blocked, stopped>>
    /\ fault' = (status[wk.r] = "none")
    /\ wk' = [wk EXCEPT !.at = "post"]
    /\ UNCHANGED <<q, hwVars, schedVars, lifeVars, boundVars, tx, del, pkts, gone>>

Held == Total(unread) + Total(inair)

Room(r) == Depth - unread[r] > 1

\* Mutant: the packet that could not be placed is dropped.
PutBackNot(r) == UNCHANGED q
PutBack(r) == q' = [q EXCEPT ![r] = @ + 1]

Fits(r) == Held < Pktids /\ Room(r)

\* A packet id and a slot of the ring, or the packet goes back to the head
\* of the queue.
WkPost ==
    /\ Running /\ wk.at = "post"
    /\ LET r == wk.r
       IN  \/ /\ status[r] = "none" \/ (Fits(r) /\ r \notin dma)
             /\ fault' = TRUE
             /\ UNCHANGED <<q, unread, out, wasfull, wk>>
          \/ /\ status[r] # "none" /\ Fits(r) /\ r \in dma
             /\ unread' = [unread EXCEPT ![r] = @ + 1]
             /\ out' = [out EXCEPT ![r] = @ + 1]
             /\ wk' = [wk EXCEPT !.at = "loop"]
             /\ UNCHANGED <<q, wasfull, fault>>
          \/ /\ status[r] # "none" /\ ~Fits(r)
             /\ PutBack(r)
             /\ wasfull' = [wasfull EXCEPT ![r] = @ \/ Held < Pktids]
             /\ wk' = [wk EXCEPT !.at = "scan"]
             /\ UNCHANGED <<unread, out, fault>>
    /\ UNCHANGED <<blocked, stopped, inair, schedVars, lifeVars, boundVars, tx, del, pkts, gone>>

\* The queue is empty, or the ring is no longer open.
WkLeave ==
    /\ Running /\ wk.at = "loop" /\ Qlen(wk.r) = 0
    /\ wk' = [wk EXCEPT !.at = "scan"]
    /\ UNCHANGED <<queueVars, hwVars, schedVars, lifeVars, boundVars, tx, del, pkts, gone, fault>>

(***************************************************************************)
(* The firmware and the interrupt thread.                                  *)
(***************************************************************************)
FirmwareRead(r) ==
    /\ Running /\ unread[r] > 0
    /\ unread' = [unread EXCEPT ![r] = @ - 1]
    /\ inair' = [inair EXCEPT ![r] = @ + 1]
    /\ UNCHANGED <<queueVars, out, wasfull, schedVars, lifeVars, boundVars, tx, wk, del, pkts, gone, fault>>

\* brcmf_msgbuf_process_txstatus.
TxStatus(r) ==
    /\ Running /\ inair[r] > 0
    /\ inair' = [inair EXCEPT ![r] = @ - 1]
    /\ out' = [out EXCEPT ![r] = @ - 1]
    /\ done_map' = done_map \cup {r}
    /\ gone' = gone + 1
    /\ UNCHANGED <<queueVars, unread, wasfull, flow_map, txwork, lifeVars, boundVars, tx, wk, del, pkts, fault>>

\* The end of brcmf_proto_msgbuf_rx_trigger.
Worthwhile(n, o) == n > Trickle \/ (n > 0 /\ o < Trickle)

AfterStatus(r) ==
    /\ Running /\ r \in done_map
    /\ done_map' = done_map \ {r}
    /\ IF Worthwhile(Qlen(r), out[r]) THEN Kick(r, TRUE) ELSE UNCHANGED <<flow_map, txwork>>
    /\ UNCHANGED <<queueVars, hwVars, lifeVars, boundVars, tx, wk, del, pkts, gone, fault>>

(***************************************************************************)
(* A peer leaves: brcmf_flowring_delete_peer, brcmf_msgbuf_delete_flowring.*)
(***************************************************************************)
\* The ring's lock is free: the worker is not in the ring's loop.
NotInTxflow(r) == ~(wk.r = r /\ wk.at \in {"loop", "unblock", "post"})

DelClose(r) ==
    /\ Running /\ del = Idle /\ deletes < MaxDeletes
    /\ status[r] = "open" /\ NotInTxflow(r)
    /\ status' = [status EXCEPT ![r] = "closing"]
    /\ del' = [at |-> "wait", r |-> r]
    /\ deletes' = deletes + 1
    /\ UNCHANGED <<queueVars, hwVars, schedVars, works, reqVars, dma, fails, late, tx, wk, pkts, gone, fault>>

\* All statuses came in, or the retries are used up and the count is reset.
DelDrained ==
    /\ Running /\ del.at = "wait" /\ out[del.r] = 0
    /\ del' = [del EXCEPT !.at = "send"]
    /\ UNCHANGED <<queueVars, hwVars, schedVars, lifeVars, boundVars, tx, wk, pkts, gone, fault>>

DelGiveUp ==
    /\ Running /\ del.at = "wait" /\ out[del.r] # 0 /\ fails < MaxFails
    /\ out' = [out EXCEPT ![del.r] = 0]
    /\ del' = [del EXCEPT !.at = "send"]
    /\ late' = late + 1 /\ fails' = fails + 1
    /\ UNCHANGED <<queueVars, unread, inair, wasfull, schedVars, lifeVars, deletes, tx, wk, pkts, gone, fault>>

\* brcmf_flowring_ifidx_get looks at the ring.
DelSend ==
    /\ Running /\ del.at = "send"
    /\ fault' = (status[del.r] = "none")
    /\ Sent(<<"delete", del.r>>)
    /\ del' = Idle
    /\ UNCHANGED <<queueVars, hwVars, schedVars, status, works, dma, deletes, late, tx, wk, pkts, gone>>

\* Removed at once, although the request may be in the control ring.
DelRemove ==
    /\ Running /\ del.at = "send"
    /\ NotSent("delete", del.r)
    /\ RemoveRing(del.r)
    /\ del' = Idle
    /\ UNCHANGED <<hwVars, schedVars, works, deletes, late, tx, wk, pkts>>

\* The firmware dropped the ring; what it had not read is answered first.
Deleted(r) ==
    /\ Running /\ <<"delete", r>> \in ctl /\ unread[r] = 0 /\ inair[r] = 0
    /\ ctl' = ctl \ {<<"delete", r>>}
    /\ RemoveRing(r)
    /\ UNCHANGED <<hwVars, schedVars, works, unseen, stray, boundVars, tx, wk, del, pkts>>

\* A failed deletion forgets the ring and keeps the memory for ever.
DeleteFailed(r) ==
    /\ Running /\ <<"delete", r>> \in ctl /\ fails < MaxFails
    /\ ctl' = ctl \ {<<"delete", r>>}
    /\ DeleteRing(r)
    /\ fails' = fails + 1
    /\ UNCHANGED <<hwVars, schedVars, works, unseen, stray, dma, deletes, late, tx, wk, del, pkts, fault>>

Tx == TxFirst \/ TxEnqueue \/ TxBlock \/ TxRecheck \/ TxKick
Worker == WkStart \/ (\E r \in Rings : WkRing(r)) \/ WkEnd \/ WkDequeue \/ WkUnblock \/ WkPost \/ WkLeave
Creates == \E r \in Rings : CreateRequest(r) \/ CreateNoMemory(r) \/ CreateNoRoom(r)
Answers == \E r \in Rings : Created(r) \/ CreateFailed(r) \/ Deleted(r) \/ DeleteFailed(r)
Deleter == (\E r \in Rings : DelClose(r)) \/ DelDrained \/ DelGiveUp \/ DelSend \/ DelRemove

Next ==
    \/ \E r \in Rings : TxLookup(r) \/ TxCreate(r)
    \/ Tx \/ Creates \/ Answers \/ Worker \/ Deleter
    \/ \E r \in Rings : FirmwareRead(r) \/ TxStatus(r) \/ AfterStatus(r)

Spec == Init /\ [][Next]_vars

(***************************************************************************)
(* Properties.                                                             *)
(***************************************************************************)
\* The queues, the rings and the sets of rings stay within their limits; a
\* flow ring is never filled to its last slot (reserve_for_write).
TypeOK ==
    /\ status \in [Rings -> {"none", "closed", "open", "closing"}]
    /\ q \in [Rings -> 0..MaxPkts] /\ blocked \in [Rings -> BOOLEAN] /\ stopped \in BOOLEAN
    /\ unread \in [Rings -> 0..(Depth - 1)]
    /\ works \subseteq Rings /\ dma \subseteq Rings /\ stray \subseteq Rings
    /\ flow_map \subseteq Rings /\ done_map \subseteq Rings

\* No packet is lost or sent twice: each one is queued, in a thread's hands,
\* in the ring, with the firmware, or freed (txflow puts back what it cannot
\* place; deletion frees what is queued).  That ends when a deletion does not
\* wait for statuses, and when a ring is removed with its request in the
\* control ring: the answer is for the next ring of that number.
PacketsAccounted ==
    fault \/ late > 0 \/ stray # {} \/
    pkts = gone + Total(q) + Total(unread) + Total(inair)
           + (IF tx.at \in {"first", "enqueue"} THEN 1 ELSE 0) + (IF wk.at \in {"unblock", "post"} THEN 1 ELSE 0)

\* The interface is stopped only while some ring is blocked, so somebody is
\* left who will let it go on.
StoppedHasReason == stopped => \E r \in Rings : blocked[r]

\* outstanding_tx is what the firmware still has, unless a deletion gave up
\* waiting for it.
OutstandingTrue == late > 0 \/ \A r \in Rings \ stray : out[r] = unread[r] + inair[r]

\* "make sure it is not in txflow": nothing is put in a ring that is being
\* closed, and its memory stays until the firmware has given it up.
NotInTxflowWhenClosing ==
    \A r \in Rings \ stray : status[r] = "closing" =>
        ~(wk.r = r /\ wk.at \in {"unblock", "post"})

\* A ring the firmware may use has memory.
RingHasMemory == \A r \in Rings \ stray : status[r] \in {"open", "closing"} => r \in dma

\* The memory of a ring is freed once, and only a packet caught between the
\* look-up of its ring and its queueing can meet a ring that is gone; unless
\* a ring was removed with its request in the control ring.
FaultNeedsDeletion ==
    fault => stray # {} \/
             (deletes + fails > 0 /\ tx.at \in {"first", "enqueue", "block", "recheck"})

\* From creation to deletion a ring has its memory, its count of outstanding
\* packets is right, nothing is posted once it is closing, and a ring that is
\* gone is used only as above (brcmf_msgbuf_delete_flowring).  A ring that was
\* removed with its request in the control ring loses all this, the others
\* keep it.
RingLife ==
    TypeOK /\ RingHasMemory /\ OutstandingTrue /\ NotInTxflowWhenClosing /\ FaultNeedsDeletion

\* A stopped interface is let go again: the check after blocking catches a
\* worker that emptied the queue in between (flowring.c).  A request the
\* firmware has not seen keeps it until the next one is written.
StopEnds == stopped ~> ~stopped \/ fault \/ unseen # {}
=============================================================================
