------------------------------- MODULE BrcmFws -------------------------------
(***************************************************************************)
(* Firmware signalling of the SDIO and USB buses (fwsignal.c): packets     *)
(* wait in the power-save queues of their destination, the worker sends    *)
(* them against the credits of their fifo, the firmware's status returns   *)
(* the credit or gives the packet back (suppressed), and an asleep station *)
(* is told of its waiting traffic by the TIM bits.                         *)
(*                                                                         *)
(* The driver's state is one record, because its handlers are built from   *)
(* calls that each change several parts of it; the spin lock makes every   *)
(* handler one step, except where it is dropped around the bus: by the     *)
(* worker, and in the middle of any handler that reports traffic at once.  *)
(***************************************************************************)
EXTENDS Integers, Sequences, FiniteSets, SequencesExt, FiniteSetsExt

CONSTANTS Nodes,       \* the number of station entries (32 in the code)
          FwsFifos,    \* access categories 0 .. FwsFifos-1; fifo FwsFifos is multicast
          Slots,       \* hanger slots (3072)
          PsqLen,      \* limit of a power-save queue (256)
          FwsHigh, FwsLow,  \* flow control marks (128, 64)
          FreeRun,     \* the free-running number counts modulo this (256)
          FwsCredit,   \* the credits of a fifo in the firmware's credit map
          Traffic,     \* what is sent: pairs (to the station?, fifo)
          FwsPkts, FwsSteps  \* bounds: packets; packets and upsets together

VARIABLES fws,         \* the driver's state
          worker,      \* the dequeue worker: [pc, f, p]
          firm,        \* the firmware: its queue, generations and credits owed
          budget       \* packets and upsets (failures, sleeps, signals) left

fwsVars == <<fws, worker, firm, budget>>

Iface == Nodes + 1     \* the table is searched nodes first, then the interface
Entries == 1..Iface
Bcmc == FwsFifos
FwFifo == 0..Bcmc
Ac == 0..(Bcmc - 1)
NoPkt == 0

-----------------------------------------------------------------------------
(* Packets, hanger slots, and the power-save queues.                       *)

Pkt(e, f, slot, seq) ==
  [e |-> e, f |-> f, slot |-> slot, seq |-> seq, gen |-> 0, st |-> "delayed", cr |-> FALSE,
   at |-> "queue", tells |-> {}]

InFlight(d, e) == {p \in DOMAIN d.skb : d.skb[p].e = e /\ d.skb[p].at \in {"hand", "bus", "air"}}

\* The packet's buffer is released; the second release of one is recorded.
FreePkt(d, p) ==
  IF d.skb[p].at = "freed" THEN [d EXCEPT !.twice = TRUE]
  ELSE [d EXCEPT !.skb[p].at = "freed"]

\* Round robin from the slot after the last one given; the last one is never tried.
FreeSlot(d) ==
  LET try == {i \in 1..(Slots - 1) : d.slot[(d.pos + i) % Slots].s = "free"}
  IN  IF try = {} THEN Slots ELSE (d.pos + Min(try)) % Slots

FreeSlots(d, S) == [d EXCEPT !.slot = [i \in 0..(Slots - 1) |->
                      IF i \in S THEN [s |-> "free", p |-> NoPkt] ELSE @[i]]]

PsqPkts(d, e) == UNION {Range(d.psq[e][f][q]) : f \in FwFifo, q \in 0..1}
\* An entry's queues hold nothing until they are initialised.
PsqFull(d, e) == ~d.made[e] \/ Cardinality(PsqPkts(d, e)) >= PsqLen
EmptyPsq == [f \in FwFifo |-> [q \in 0..1 |-> <<>>]]

\* a was numbered after b, across the wrap.
After(a, b) == (a > b /\ a - b < FreeRun \div 2) \/ (a < b /\ b - a > FreeRun \div 2)

MutInOrder(d, q, p) == Append(q, p)   \* no look for the place

\* brcmf_fws_enq looks for the place from the tail, so that suppressed packets
\* stay in the order of their numbers whatever the order of their statuses.
InOrder(d, q, p) ==
  LET before == {i \in DOMAIN q : After(d.skb[p].seq, d.skb[q[i]].seq)}
  IN  InsertAt(q, Max(before \cup {0}) + 1, p)

-----------------------------------------------------------------------------
(* The calls the handlers are made of.                                     *)

FcActive(d) == d.map

\* Only when there are credits for delayed traffic, or no credits are used.
ScheduleDeq(d) ==
  [d EXCEPT !.work = @ \/ d.cmap \cap d.dmap # {} \/ (~FcActive(d) /\ d.dmap # {})]

\* The station's traffic bits; a change waits for the next packet to that station,
\* but an asleep one's is sent at once in a packet of its own where that is asked.
TimUpdate(d, e, f) ==
  [d EXCEPT !.pend[e] = IF d.psq[e][f] = EmptyPsq[f] THEN @ \ {f} ELSE @ \cup {f}]
MutTimDue(d, e) == d.open[e] /\ d.pend[e] # d.last[e]   \* the wrong state
TimDue(d, e) == ~d.open[e] /\ d.pend[e] # d.last[e]

\* Thread t gives that packet to the bus with the lock dropped, in the middle of a
\* handler; p is the packet it was enqueueing.  The bits count as reported from here.
NoTim == [pc |-> "none", e |-> 0, bits |-> {}, p |-> NoPkt]
SendTim(d, e, t, p) ==
  [d EXCEPT !.last[e] = d.pend[e],
            !.tim[t] = [pc |-> "tx", e |-> e, bits |-> d.pend[e], p |-> p]]

FlowControlCheck(d, e) ==
  LET n == Cardinality(PsqPkts(d, e))
      stop == d.stop /\ n > FwsLow
  IN  [d EXCEPT !.stop = stop \/ n >= FwsHigh]

Closed(d, e, f) ==
  \/ e # Iface /\ ~d.open[Iface]
  \/ ~d.open[e] /\ d.reqc[e] = 0 /\ d.reqp[e] = 0
  \/ f \notin d.ac[e]

\* Borrowed credits are kept.
MutReturnCredit(d, f) ==
  [d EXCEPT !.cmap = @ \cup {f}, !.credit[f] = IF @ + 1 > d.init[f] THEN d.init[f] ELSE @ + 1]

\* A returned credit first repays what the fifo borrowed, from the highest lender
\* down; what is kept is capped at the firmware's grant.  (credits = 1)
ReturnCredit(d, f) ==
  LET lenders == IF f \in Ac \ {0} THEN {l \in Ac : d.lent[f][l] > 0} ELSE {}
      l == Max(lenders)
  IN  IF lenders # {}
      THEN [d EXCEPT !.lent[f][l] = @ - 1, !.credit[l] = @ + 1, !.cmap = @ \cup {f, l}]
      ELSE [d EXCEPT !.cmap = @ \cup {f},
                     !.credit[f] = IF @ + 1 > d.init[f] THEN d.init[f] ELSE @ + 1]
\* A requested credit the station did not use is given back while it sleeps.
ReturnReqCredit(d, p) ==
  LET e == d.skb[p].e
  IN  IF d.skb[p].cr /\ ~d.open[e] THEN [d EXCEPT !.reqc[e] = @ + 1] ELSE d

\* What is left of a handler after its packet has been enqueued: by the sender, or
\* by the firmware's signals, which mark the slot, whoever has it by now.
AfterEnq(d, t, p) ==
  LET slot == d.skb[p].slot
      c == FlowControlCheck(d, d.skb[p].e)
  IN  IF t = "xmit" THEN ScheduleDeq(c)
      ELSE [c EXCEPT !.slot[slot].s = IF @ = "free" THEN @ ELSE "supp"]

\* brcmf_fws_enq: the bits, counts and marks follow a successful insertion.
Enqueued(d, t, p, q, list) ==
  LET e == d.skb[p].e
      f == d.skb[p].f
      in == TimUpdate([d EXCEPT !.psq[e][f][q] = list, !.dmap = @ \cup {f}, !.enq[f] = @ + 1,
                                !.skb[p].st = IF q = 1 THEN "suppressed" ELSE "delayed",
                                !.skb[p].at = "queue"], e, f)
  IN  IF TimDue(in, e) THEN SendTim(in, e, t, p) ELSE AfterEnq(in, t, p)

\* A packet just used a request of the station's, or none.
UseReqCredit(d, e, p) ==
  IF d.reqc[e] > 0 THEN [d EXCEPT !.reqc[e] = @ - 1, !.skb[p].cr = TRUE]
  ELSE [d EXCEPT !.reqp[e] = IF @ > 0 THEN @ - 1 ELSE 0, !.skb[p].cr = FALSE]

\* The entry brcmf_fws_deq takes a packet from: an occupied, open one; while an
\* entry is suppressed only its suppressed packets, until none is in transit.
Wake(d, f, e) == d.supp[e] /\ d.psq[e][f][1] = <<>> /\ d.suptr[e] = 0
Offers(d, f, e) ==
  /\ d.occ[e] /\ ~Closed(d, e, f)
  /\ d.psq[e][f][1] # <<>> \/ (d.psq[e][f][0] # <<>> /\ (~d.supp[e] \/ Wake(d, f, e)))

Deq(d, f) ==
  LET order == [i \in 1..Iface |-> ((d.node[f] + i - 1) % Iface) + 1]
      hits == {i \in 1..Iface : Offers(d, f, order[i])}
      k == IF hits = {} THEN Iface ELSE Min(hits)
      woken == {order[i] : i \in {j \in 1..k : LET e == order[j] IN
                  d.occ[e] /\ ~Closed(d, e, f) /\ Wake(d, f, e)}}
      d1 == [d EXCEPT !.supp = [e \in Entries |-> @[e] /\ e \notin woken]]
      e == order[k]
      q == IF d.psq[e][f][1] # <<>> THEN 1 ELSE 0
      p == Head(d.psq[e][f][q])
      d2 == UseReqCredit([d1 EXCEPT !.psq[e][f][q] = Tail(@), !.node[f] = (@ + k) % Iface,
                                    !.skb[p].at = "hand"], e, p)
      d3 == TimUpdate(FlowControlCheck(d2, e), e, f)
  IN  IF hits = {} THEN [d |-> d1, p |-> NoPkt]
      ELSE [d |-> [d3 EXCEPT !.enq[f] = @ - 1,
                             !.dmap = IF d.enq[f] - 1 = 0 THEN @ \ {f} ELSE @], p |-> p]

\* brcmf_fws_txs_process for one slot: keep is FALSE for the suppressing flags.
TxStatus(d, slot, remove, host, gen) ==
  LET p == d.slot[slot].p
      e == d.skb[p].e
      f == d.skb[p].f
      d1 == [d EXCEPT !.transit[e] = @ - 1,
                      !.suptr[e] = IF d.supp[e] /\ @ # 0 THEN @ - 1 ELSE @]
      d2 == IF ~d.explicit \/ d.skb[p].cr \/ host THEN ScheduleDeq(ReturnCredit(d1, f)) ELSE d1
      d3 == ReturnReqCredit(d2, p)
      done(x) == FreePkt(FreeSlots(x, {slot}), p)
      sup == [d3 EXCEPT !.supp[e] = TRUE,
                        !.suptr[e] = IF d.supp[e] THEN @ ELSE d1.transit[e],
                        !.gen[e] = gen, !.skb[p].gen = gen]
  IN  IF d.slot[slot].s = "free" THEN d
      ELSE IF remove THEN done(d3)
      ELSE IF PsqFull(d3, e) THEN done(sup)
      ELSE Enqueued(sup, "rx", p, 1, InOrder(sup, sup.psq[e][f][1], p))

\* A packet the bus refused goes back to the head of its queue, with its credits;
\* neither the counts nor the delay bit are restored.  When the entry has gone or
\* its queue is full the packet is dropped.
RollbackToq(d, p) ==
  LET e == d.skb[p].e
      f == d.skb[p].f
      q == IF d.skb[p].st = "suppressed" THEN 1 ELSE 0
  IN  IF d.occ[e] /\ ~PsqFull(d, e)
      THEN [ReturnReqCredit(ReturnCredit(d, f), p)
              EXCEPT !.psq[e][f][q] = <<p>> \o @, !.skb[p].at = "queue", !.rolled = @ \cup {f}]
      ELSE [TxStatus(d, d.skb[p].slot, TRUE, TRUE, 0) EXCEPT !.tossed = @ \cup {e}]

\* The lowest fifo with a credit lends it.
BorrowCredit(d, f) ==
  LET lenders == {l \in 0..(f - 1) : d.credit[l] > 0}
      l == Min(lenders)
  IN  IF lenders = {} THEN [d EXCEPT !.cmap = @ \ {f}]
      ELSE [d EXCEPT !.lent[f][l] = @ + 1, !.credit[l] = @ - 1,
                     !.cmap = (IF d.credit[l] = 1 THEN @ \ {l} ELSE @) \cup {f}]

\* brcmf_fws_precommit_skb and hdrpush: the packet carries the entry's generation
\* (its own if it was suppressed) and, if they have changed, the station's traffic bits.
Committed(d, p) ==
  LET e == d.skb[p].e
  IN  [d EXCEPT !.skb[p].gen = IF d.skb[p].st = "suppressed" THEN @ ELSE d.gen[e],
                !.skb[p].tells = IF d.pend[e] # d.last[e] THEN {d.pend[e]} ELSE {},
                !.last[e] = d.pend[e], !.transit[e] = @ + 1,
                !.suptr[e] = IF d.supp[e] THEN @ + 1 ELSE @]

\* brcmf_fws_psq_flush on every queue of an entry.
PsqFlush(d, e) ==
  LET gone == PsqPkts(d, e)
      d1 == FreeSlots(d, {d.skb[p].slot : p \in gone})
  IN  [d1 EXCEPT !.psq[e] = EmptyPsq, !.twice = @ \/ \E p \in gone : d.skb[p].at = "freed",
                 !.skb = [p \in DOMAIN @ |-> IF p \in gone THEN [@[p] EXCEPT !.at = "freed"] ELSE @[p]]]

MacdescInit(d, e) == [d EXCEPT !.occ[e] = TRUE, !.open[e] = TRUE, !.reqc[e] = 0, !.reqp[e] = 0,
                               !.ac[e] = FwFifo]
MacdescDeinit(d, e) == [d EXCEPT !.occ[e] = FALSE, !.open[e] = FALSE, !.reqc[e] = 0, !.reqp[e] = 0]

\* Packets in the bus queue and in the hanger are freed; a suppressed one was
\* freed with its power-save queue.  Packets in the worker's hands are not spared.
HangerCleanup(d) ==
  LET used == {i \in 0..(Slots - 1) : d.slot[i].s = "inuse"}
      gone == {d.slot[i].p : i \in used}
  IN  [FreeSlots(d, 0..(Slots - 1)) EXCEPT
         !.twice = @ \/ \E p \in gone : d.skb[p].at = "freed",
         !.skb = [p \in DOMAIN @ |-> IF p \in gone THEN [@[p] EXCEPT !.at = "freed"] ELSE @[p]]]

-----------------------------------------------------------------------------
\* A sender and the firmware's signals, one thread each, take their turns when they
\* are not in the bus themselves.
Unlocked == worker.pc \in {"idle", "tx", "ret"}
Turns(t) == Unlocked /\ fws.tim[t].pc = "none"

\* brcmf_fws_attach and brcmf_fws_add_interface.
Attached(explicit) ==
  MacdescInit(
    [skb |-> <<>>, slot |-> [i \in 0..(Slots - 1) |-> [s |-> "free", p |-> NoPkt]], pos |-> 0,
     made |-> [e \in Entries |-> e = Iface], psq |-> [e \in Entries |-> EmptyPsq],
     seq |-> [e \in Entries |-> [f \in FwFifo |-> 0]],
     occ |-> [e \in Entries |-> FALSE], open |-> [e \in Entries |-> FALSE],
     supp |-> [e \in Entries |-> FALSE], gen |-> [e \in Entries |-> 0],
     ac |-> [e \in Entries |-> {}], reqc |-> [e \in Entries |-> 0],
     reqp |-> [e \in Entries |-> 0], transit |-> [e \in Entries |-> 0],
     suptr |-> [e \in Entries |-> 0], pend |-> [e \in Entries |-> {}],
     last |-> [e \in Entries |-> {}], node |-> [f \in FwFifo |-> 0],
     credit |-> [f \in FwFifo |-> 0], init |-> [f \in FwFifo |-> 0],
     lent |-> [f \in Ac |-> [l \in Ac |-> 0]], cmap |-> {}, dmap |-> {},
     enq |-> [f \in FwFifo |-> 0], explicit |-> explicit, map |-> FALSE, bcmc |-> FALSE,
     blocked |-> FALSE, stop |-> FALSE, work |-> FALSE, gone |-> FALSE,
     tim |-> [xmit |-> NoTim, rx |-> NoTim],
     rolled |-> {}, tossed |-> {}, twice |-> FALSE, raced |-> FALSE, stranded |-> FALSE], Iface)

\* With its credits, and a station known.
Running(d) ==
  LET c == [f \in FwFifo |-> FwsCredit]
  IN  [MacdescInit(d, 1) EXCEPT !.made[1] = TRUE, !.map = TRUE, !.credit = c, !.init = c,
                                !.cmap = FwFifo]

FwsInit ==
  /\ fws \in {Attached(FALSE)} \cup {Running(Attached(x)) : x \in BOOLEAN}
  /\ worker = [pc |-> "idle", f |-> 0, p |-> NoPkt, ph |-> "own"]
  /\ firm = [bus |-> <<>>, q |-> <<>>, gen |-> [e \in Entries |-> 0],
             owed |-> [f \in FwFifo |-> 0], seen |-> [e \in Entries |-> [f \in FwFifo |-> 0]],
             shuffled |-> FALSE, swapped |-> FALSE,
             told |-> [e \in Entries |-> {}], untold |-> {}]
  /\ budget = FwsSteps

\* brcmf_fws_process_skb: a packet for the station (its entry, if it has one), for
\* the access point, or multicast.  An insertion that fails leaves the packet in
\* its hanger slot, where only a clean-up finds it.
FwsProcess(station, f) ==
  LET known == {n \in 1..Nodes : fws.occ[n]}
      e == IF station /\ known # {} THEN Min(known) ELSE Iface
      slot == FreeSlot(fws)
      p == Len(fws.skb) + 1
      new == Pkt(e, f, slot, fws.seq[e][f])
      d == [fws EXCEPT !.skb = Append(@, new), !.slot[slot] = [s |-> "inuse", p |-> p],
                       !.pos = slot, !.seq[e][f] = (@ + 1) % FreeRun]
  IN  /\ Turns("xmit") /\ Len(fws.skb) < FwsPkts /\ budget > 0 /\ ~fws.stop /\ ~fws.gone
      /\ station => f # Bcmc
      /\ fws' = IF slot = Slots
                THEN [fws EXCEPT !.skb = Append(@, [new EXCEPT !.at = "freed"])]
                ELSE IF PsqFull(d, e) THEN ScheduleDeq([d EXCEPT !.skb[p].at = "lost"])
                ELSE Enqueued(d, "xmit", p, 0, Append(d.psq[e][f][0], p))
      /\ budget' = budget - 1
      /\ UNCHANGED <<worker, firm>>

\* brcmf_fws_dequeue_worker holds the lock except while the bus has the packet.
\* A fifo is served without credits (raw), from its own, then from borrowed ones.
Idle == [pc |-> "idle", f |-> 0, p |-> NoPkt, ph |-> "own"]
AtFifo(d, f) == [pc |-> IF FcActive(d) THEN "own" ELSE "raw", f |-> f, p |-> NoPkt, ph |-> "own"]
NextFifo(d) == IF worker.f = 0 \/ d.blocked THEN Idle ELSE AtFifo(d, worker.f - 1)
Handed(p) == [worker EXCEPT !.pc = "tx", !.p = p, !.ph = worker.pc]

WorkerStart ==
  /\ worker.pc = "idle" /\ fws.work
  /\ fws' = [fws EXCEPT !.work = FALSE]
  /\ worker' = IF fws.blocked THEN Idle ELSE AtFifo(fws, Bcmc)
  /\ UNCHANGED <<firm, budget>>

\* Before the credit map has come packets leave the hanger and need no status.
WorkerRaw ==
  LET r == Deq(fws, worker.f)
  IN  /\ worker.pc = "raw"
      /\ IF r.p = NoPkt THEN fws' = r.d /\ worker' = NextFifo(r.d)
         ELSE /\ fws' = [FreeSlots(r.d, {r.d.skb[r.p].slot}) EXCEPT !.skb[r.p].st = "raw"]
              /\ worker' = Handed(r.p)
      /\ UNCHANGED <<firm, budget>>

\* After the fifo's own credits: borrow, or go on to the next fifo.
TryBorrow(d) ==
  IF worker.f \in Ac \ {0} /\ d.credit[worker.f] = 0 /\ ~d.blocked
  THEN [worker EXCEPT !.pc = "borrow", !.p = NoPkt] ELSE NextFifo(d)

WorkerOwn ==
  LET f == worker.f
      r == IF fws.credit[f] # 0 \/ (~fws.bcmc /\ f = Bcmc) THEN Deq(fws, f)
           ELSE [d |-> fws, p |-> NoPkt]
  IN  /\ worker.pc = "own"
      /\ IF r.p = NoPkt THEN fws' = r.d /\ worker' = TryBorrow(r.d)
         ELSE /\ fws' = Committed([r.d EXCEPT !.credit[f] = @ - 1], r.p)
              /\ worker' = Handed(r.p)
      /\ UNCHANGED <<firm, budget>>

WorkerBorrow ==
  LET f == worker.f
      b == BorrowCredit(fws, f)
      r == Deq(b, f)
  IN  /\ worker.pc = "borrow"
      /\ IF f \notin b.cmap THEN fws' = b /\ worker' = NextFifo(b)
         ELSE IF r.p = NoPkt THEN fws' = ReturnCredit(r.d, f) /\ worker' = NextFifo(r.d)
         ELSE fws' = Committed(r.d, r.p) /\ worker' = Handed(r.p)
      /\ UNCHANGED <<firm, budget>>

\* What the bus has been given, in order, with the bits of entry e it tells.  untold:
\* the newest bits of the entry were refused or overtaken by older ones.
Given(p, e, tells) ==
  [firm EXCEPT !.bus = Append(@, [p |-> p, e |-> e, tells |-> tells]),
               !.untold = IF tells = {} THEN @ ELSE IF fws.last[e] \in tells THEN @ \ {e}
                          ELSE @ \cup {e}]
Withheld(e, tells) ==
  [firm EXCEPT !.untold = IF fws.last[e] \in tells THEN @ \cup {e} ELSE @]

\* The bus takes the packet into its queue; its completion, and the firmware's
\* status, may come before the worker has the lock again.
BusTakes ==
  /\ worker.pc = "tx"
  /\ LET k == fws.skb[worker.p] IN
     /\ firm' = Given(worker.p, k.e, k.tells)
     /\ fws' = IF k.at = "hand" THEN [fws EXCEPT !.skb[worker.p] = [@ EXCEPT !.at = "bus", !.tells = {}]]
               ELSE [fws EXCEPT !.raced = TRUE]
  /\ worker' = [worker EXCEPT !.pc = "ret"]
  /\ UNCHANGED budget

WorkerReturns ==
  /\ worker.pc = "ret"
  /\ worker' = IF fws.blocked THEN NextFifo(fws)
               ELSE [worker EXCEPT !.pc = worker.ph, !.p = NoPkt]
  /\ UNCHANGED <<fws, firm, budget>>

\* The bus refuses the packet (its queue is full, or it is down).
BusRefuses ==
  LET p == worker.p
      e == fws.skb[p].e
      d == [fws EXCEPT !.transit[e] = @ - 1, !.suptr[e] = IF fws.supp[e] THEN @ - 1 ELSE @,
                       !.skb[p].tells = {}]
      back == IF fws.skb[p].at = "freed" THEN [d EXCEPT !.raced = TRUE] ELSE RollbackToq(d, p)
      raw == [worker EXCEPT !.pc = "raw", !.p = NoPkt]
  IN  /\ worker.pc = "tx" /\ budget > 0
      /\ budget' = budget - 1
      /\ fws' = IF worker.ph = "raw" THEN FreePkt(fws, p) ELSE back
      /\ worker' = CASE worker.ph = "raw" -> IF fws.blocked THEN NextFifo(fws) ELSE raw
                     [] worker.ph = "own" -> TryBorrow(back)
                     [] OTHER -> NextFifo(back)
      /\ firm' = Withheld(e, fws.skb[p].tells)

\* The packet of traffic bits: a refused one is freed, nobody tries again.  With the
\* lock back the handler goes on with its own packet, which may have left.
TimTaken(t) ==
  /\ fws.tim[t].pc = "tx"
  /\ fws' = [fws EXCEPT !.tim[t].pc = "back"]
  /\ firm' = Given(NoPkt, fws.tim[t].e, {fws.tim[t].bits})
  /\ UNCHANGED <<worker, budget>>
TimRefused(t) ==
  /\ fws.tim[t].pc = "tx" /\ budget > 0
  /\ budget' = budget - 1
  /\ fws' = [fws EXCEPT !.tim[t].pc = "back"]
  /\ firm' = Withheld(fws.tim[t].e, {fws.tim[t].bits})
  /\ UNCHANGED worker
TimReturns(t) ==
  LET p == fws.tim[t].p
      d == [fws EXCEPT !.tim[t] = NoTim]
  IN  /\ Unlocked /\ fws.tim[t].pc = "back"
      /\ fws' = IF p = NoPkt THEN d
                ELSE [AfterEnq(d, t, p) EXCEPT !.raced = @ \/ d.skb[p].at = "freed"]
      /\ UNCHANGED <<worker, firm, budget>>

-----------------------------------------------------------------------------
(* The bus and the firmware: what reaches the driver while it is unlocked. *)

\* brcmf_proto_bcdc_txcomplete: with flow control the packet waits for its status,
\* the ones sent without credits included, which never get one.
BusDone ==
  LET b == Head(firm.bus)
      p == b.p
      f == fws.skb[p].f
      raw == fws.skb[p].st = "raw"
      passed == [firm EXCEPT !.bus = Tail(@),
                             !.told[b.e] = IF b.tells = {} THEN @ ELSE UNION b.tells]
  IN  /\ Unlocked /\ firm.bus # <<>>
      /\ fws' = CASE p = NoPkt \/ fws.skb[p].at = "freed" -> fws
                  [] ~FcActive(fws) -> FreePkt(fws, p)
                  [] OTHER -> [fws EXCEPT !.skb[p].at = IF raw THEN "lost" ELSE "air"]
      /\ firm' = IF p = NoPkt \/ raw THEN passed
                 ELSE [passed EXCEPT !.q = Append(@, p),
                                     !.owed[f] = IF fws.skb[p].cr THEN @ ELSE @ + 1]
      /\ UNCHANGED <<worker, budget>>

\* The transfer failed: the packet is tossed by its hanger slot.
BusFails ==
  LET b == Head(firm.bus)
      p == b.p
      raw == fws.skb[p].st = "raw"
  IN  /\ Unlocked /\ firm.bus # <<>> /\ budget > 0
      /\ budget' = budget - 1
      /\ fws' = CASE p = NoPkt \/ fws.skb[p].at = "freed" -> fws
                  [] ~FcActive(fws) -> FreePkt(fws, p)
                  [] OTHER -> [TxStatus(fws, fws.skb[p].slot, TRUE, TRUE, 0) EXCEPT !.raced = @ \/ raw]
      /\ firm' = [firm EXCEPT !.bus = Tail(@),
                    !.untold = IF b.tells # {} /\ \A i \in 2 .. Len(firm.bus) : firm.bus[i].e # b.e
                                                                 \/ firm.bus[i].tells = {}
                               THEN @ \cup {b.e} ELSE @]
      /\ UNCHANGED worker

\* The firmware sends what it got in the order it got it, per station and fifo,
\* unless the station has since gone to sleep (its generation has changed): those
\* it gives back in any order, as the seek in brcmf_fws_enq expects.
Turn(i) == \A j \in 1..(i - 1) :
  LET a == fws.skb[firm.q[i]]
      b == fws.skb[firm.q[j]] IN <<a.e, a.f>> # <<b.e, b.f>>

FirmDelivers(i) ==
  LET p == firm.q[i]
      k == fws.skb[p]
  IN  /\ Turns("rx") /\ Turn(i) /\ k.gen = firm.gen[k.e]
      /\ fws' = TxStatus(fws, k.slot, TRUE, FALSE, 0)
      /\ firm' = [firm EXCEPT !.q = RemoveAt(@, i), !.seen[k.e][k.f] = p,
                              !.swapped = @ \/ (~firm.shuffled /\ p < firm.seen[k.e][k.f])]
      /\ UNCHANGED <<worker, budget>>

FirmSuppresses(i) ==
  LET p == firm.q[i]
      k == fws.skb[p]
  IN  /\ Turns("rx") /\ k.gen # firm.gen[k.e]
      /\ fws' = TxStatus(fws, k.slot, FALSE, FALSE, firm.gen[k.e])
      /\ firm' = [firm EXCEPT !.q = RemoveAt(@, i), !.shuffled = @ \/ ~Turn(i)]
      /\ UNCHANGED <<worker, budget>>

\* A station falls asleep with packets queued in the firmware; not while packets
\* of the generation before are still on their way.
FirmFlips(e) ==
  /\ Unlocked /\ budget > 0 /\ fws.occ[e]
  /\ \A p \in InFlight(fws, e) : fws.skb[p].gen = firm.gen[e] /\ fws.skb[p].st # "raw"
  /\ firm' = [firm EXCEPT !.gen[e] = 1 - @]
  /\ budget' = budget - 1
  /\ UNCHANGED <<fws, worker>>

FifoCreditBack(f) ==
  /\ Turns("rx") /\ fws.explicit /\ firm.owed[f] > 0
  /\ fws' = ScheduleDeq(ReturnCredit(fws, f))
  /\ firm' = [firm EXCEPT !.owed[f] = @ - 1]
  /\ UNCHANGED <<worker, budget>>

\* The firmware's events and the interface's end, and the signals that change an
\* entry, in the thread of the signals; each uses budget.
Event(d) ==
  /\ Unlocked /\ budget > 0 /\ ~fws.gone
  /\ budget' = budget - 1
  /\ fws' = d
  /\ UNCHANGED <<worker, firm>>
Signal(d) == Turns("rx") /\ Event(d)

CreditMap(c) ==
  LET credit == [f \in FwFifo |-> fws.credit[f] + c[f] - fws.init[f]]
  IN  Event(ScheduleDeq([fws EXCEPT !.map = TRUE, !.credit = credit, !.init = c,
                                     !.cmap = {f \in FwFifo : credit[f] > 0}]))
BcmcSupport == ~fws.bcmc /\ Event([fws EXCEPT !.bcmc = TRUE])

MacState(e, open) ==
  LET pend == {f \in Ac : fws.psq[e][f] # EmptyPsq[f]} \cup (fws.pend[e] \ Ac)
      d == [fws EXCEPT !.reqc[e] = 0, !.reqp[e] = 0, !.open[e] = open]
  IN  /\ e # Iface /\ fws.occ[e] /\ fws.open[e] # open
      /\ Signal(IF open THEN ScheduleDeq(d)
                ELSE IF TimDue([d EXCEPT !.pend[e] = pend], e)
                     THEN SendTim([d EXCEPT !.pend[e] = pend], e, "rx", NoPkt)
                     ELSE [d EXCEPT !.pend[e] = pend])

IfState(open) ==
  LET d == [fws EXCEPT !.open[Iface] = open]
  IN  fws.open[Iface] # open /\ Signal(IF open THEN ScheduleDeq(d) ELSE d)

Request(e, credit) ==
  LET d == IF credit THEN [fws EXCEPT !.reqc[e] = 1] ELSE [fws EXCEPT !.reqp[e] = 1]
  IN  e # Iface /\ fws.occ[e] /\ ~fws.open[e] /\ Signal(ScheduleDeq([d EXCEPT !.ac[e] = FwFifo]))

\* brcmf_fws_macdesc_indicate: a new station, a station that goes, and one whose
\* handle changes: its descriptor moves, but its queued packets stay where they
\* are and the new place's queues are not initialised.
Known == {n \in 1..Nodes : fws.occ[n]}
MacAdd(e) ==
  /\ Known = {}
  /\ Signal([MacdescInit(fws, e) EXCEPT !.psq[e] = EmptyPsq, !.made[e] = TRUE,
                                    !.stranded = @ \/ PsqPkts(fws, e) # {}])
MacDel(e) == e # Iface /\ fws.occ[e] /\ Signal(MacdescDeinit(PsqFlush(fws, e), e))
MacMove(e) ==
  \E m \in Known \ {e} :
    LET d == [fws EXCEPT !.occ[e] = TRUE, !.open[e] = fws.open[m], !.supp[e] = fws.supp[m],
                         !.gen[e] = fws.gen[m], !.ac[e] = fws.ac[m], !.reqc[e] = fws.reqc[m],
                         !.reqp[e] = fws.reqp[m], !.seq[e] = fws.seq[m], !.stranded = TRUE]
    IN  Signal(MacdescDeinit(d, m))

\* brcmf_fws_del_interface: every entry's queue, the bus queue, then the hanger.
DelInterface ==
  LET flushed == FoldSet(LAMBDA e, d : IF d.occ[e] THEN [PsqFlush(d, e) EXCEPT !.occ[e] = FALSE] ELSE d,
                         fws, Entries)
      d == MacdescDeinit(flushed, Iface)
  IN  /\ Event([HangerCleanup(d) EXCEPT !.gone = TRUE,
                   !.raced = @ \/ worker.pc = "tx"])

BusBlocked(b) ==
  /\ fws.blocked # b /\ (b => budget > 0)
  /\ budget' = IF b THEN budget - 1 ELSE budget
  /\ fws' = LET d == [fws EXCEPT !.blocked = b] IN IF b THEN d ELSE ScheduleDeq(d)
  /\ UNCHANGED <<worker, firm>>

FwsNext ==
  \/ \E t \in Traffic : FwsProcess(t[1], t[2])
  \/ WorkerStart \/ WorkerRaw \/ WorkerOwn \/ WorkerBorrow \/ WorkerReturns
  \/ BusTakes \/ BusRefuses \/ BusDone \/ BusFails
  \/ \E t \in {"xmit", "rx"} : TimTaken(t) \/ TimRefused(t) \/ TimReturns(t)
  \/ \E i \in DOMAIN firm.q : FirmDelivers(i) \/ FirmSuppresses(i)
  \/ \E f \in FwFifo : FifoCreditBack(f)
  \/ CreditMap([f \in FwFifo |-> FwsCredit]) \/ BcmcSupport \/ DelInterface
  \/ \E e \in Entries : \/ FirmFlips(e) \/ MacDel(e) \/ \E b \in BOOLEAN : MacState(e, b) \/ Request(e, b)
  \/ \E e \in 1..Nodes : MacAdd(e) \/ MacMove(e)
  \/ \E b \in BOOLEAN : IfState(b) \/ BusBlocked(b)

FwsSpec == FwsInit /\ [][FwsNext]_fwsVars

-----------------------------------------------------------------------------
(* What the module promises.  gone: the interface was deleted, which drops *)
(* packets without their credits; raced: it was deleted under the worker,  *)
(* a packet sent without credits failed after they came into use, or a     *)
(* packet was released before the handler that had enqueued it went on;    *)
(* stranded: a station's handle changed, which strands its queue, or its   *)
(* entry was filled anew over packets suppressed after it had been freed.  *)

Settled == ~fws.gone /\ ~fws.raced
Flying(f) == {p \in DOMAIN fws.skb : /\ fws.skb[p].f = f /\ fws.skb[p].st # "raw"
                                     /\ fws.skb[p].at \in {"hand", "bus", "air"}}

\* No packet is released twice, and until it is released a packet is in one queue
\* or on its way, with the hanger slot its status will name (brcmf_fws_hanger_*).
PacketsKept ==
  /\ ~fws.gone => ~fws.twice
  /\ Settled /\ ~fws.stranded =>
       \A p \in DOMAIN fws.skb :
         LET k == fws.skb[p] IN
         /\ k.at = "queue" <=> p \in PsqPkts(fws, k.e)
         /\ k.at \in {"queue", "hand", "bus", "air"} /\ k.st # "raw" =>
              fws.slot[k.slot].p = p /\ fws.slot[k.slot].s # "free"
         /\ k.at = "freed" => \A i \in DOMAIN fws.slot : fws.slot[i].p # p

\* A fifo's credits, what it lent and what its packets hold are the firmware's
\* grant: none is lost or made up by borrowing, rollback or suppression
\* (brcmf_fws_return_credits, brcmf_fws_borrow_credit).
CreditsBalance ==
  Settled => \A f \in FwFifo :
    LET held == {p \in Flying(f) : ~fws.explicit \/ fws.skb[p].cr \/ fws.skb[p].at # "air"}
        owed == IF fws.explicit THEN firm.owed[f] ELSE 0
        lent == IF f = Bcmc THEN 0 ELSE MapThenSumSet(LAMBDA b : fws.lent[b][f], Ac)
        lenders == IF f = Bcmc THEN 0 ELSE MapThenSumSet(LAMBDA l : fws.lent[f][l], Ac)
    IN  fws.credit[f] + Cardinality(held) + owed - lenders + lent = fws.init[f]

\* An entry's transit count is its packets on their way, and a suppressed entry
\* waits for exactly those (brcmf_fws_txs_process, brcmf_fws_commit_skb).
TransitRight ==
  Settled => \A e \in Entries \ fws.tossed :
    LET n == Cardinality({p \in InFlight(fws, e) : fws.skb[p].st # "raw"})
    IN  fws.transit[e] = n /\ (fws.supp[e] => fws.suptr[e] = n)

\* A station gets the packets of a fifo in the order they were queued, whatever is
\* suppressed, sent again or rolled back meanwhile, when the statuses of suppressed
\* packets come in order.  When they do not, the suppressed packets wait in order
\* all the same, but where the bus refused one (brcmf_fws_enq, brcmf_fws_deq).
OrderKept == Settled =>
    /\ ~firm.swapped
    /\ \A e \in Entries, f \in FwFifo \ fws.rolled : LET w == fws.psq[e][f][1] IN
         \A i, j \in DOMAIN w : i < j => w[i] < w[j]

\* The bits of entry e that the firmware has when the bus has passed on what it has.
Told(e) ==
  LET news == {i \in DOMAIN firm.bus : firm.bus[i].e = e /\ firm.bus[i].tells # {}}
  IN  IF news = {} THEN firm.told[e] ELSE UNION firm.bus[Max(news)].tells
Telling(e) == \/ worker.pc = "tx" /\ fws.skb[worker.p].e = e /\ fws.skb[worker.p].tells # {}
              \/ \E t \in {"xmit", "rx"} : fws.tim[t].pc = "tx" /\ fws.tim[t].e = e

\* The firmware knows, or is being told, of an asleep station's waiting packets
\* (brcmf_fws_tim_update, brcmf_fws_hdrpush), whoever else runs while the lock is
\* dropped for it; not of those the bus refused, and not while the newest report
\* was refused or overtaken by an older one.
TimReported ==
  Settled /\ ~fws.stranded => \A e \in 1..Nodes, f \in Ac \ fws.rolled :
    fws.occ[e] /\ ~fws.open[e] /\ fws.psq[e][f] # EmptyPsq[f]
      => Telling(e) \/ e \in firm.untold \/ f \in Told(e)

\* The worker does not rest while a packet may be sent and has a credit
\* (brcmf_fws_schedule_deq), a sender's under way being yet to come; not on a fifo the bus refused, not while packets are
\* suppressed, whose status schedules before it queues them, and not with explicit
\* credits, when the status that ends a suppression schedules nothing.  A fifo that
\* borrowed may lose its credit bit with a credit left; a packet on its way then
\* brings the bit back.
NoStall ==
  worker.pc = "idle" /\ ~fws.work /\ fws.tim["xmit"].pc = "none" /\ ~fws.blocked /\ Settled /\ ~fws.explicit /\ ~fws.stranded =>
    \A f \in FwFifo \ fws.rolled, e \in Entries :
      Offers(fws, f, e) /\ ~fws.supp[e] /\ fws.psq[e][f][1] = <<>> =>
        FcActive(fws) /\ (fws.credit[f] <= 0 \/ Flying(f) # {})
=============================================================================
