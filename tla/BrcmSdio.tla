------------------------------ MODULE BrcmSdio ------------------------------
(***************************************************************************)
(* The SDIO bus of the Wi-Fi driver (sdio.c, bcmsdh.c) once the firmware   *)
(* runs: the data worker and its deferred procedure call, the interrupt    *)
(* handler, the watchdog that puts the bus to sleep, the freezer of system *)
(* suspend, data packets on their way to the firmware, and the control     *)
(* frames of BCDC commands (bcdc.c).                                       *)
(*                                                                         *)
(* What the driver does while it has claimed the host is one step.  The    *)
(* worker claims and releases it several times in one call, and the        *)
(* watchdog, the interrupt handler and the waiting command take it in      *)
(* between.  The frames the worker reads are those of BrcmSdioRx, here     *)
(* with what they change in this module: a frame is read, dropped, or      *)
(* refused with a NAK that the firmware answers by sending it again.       *)
(*                                                                         *)
(* The out-of-band flow control of old firmwares (I_HMB_FC_CHANGE) and     *)
(* polling (bus->poll is FALSE, sdio.c:4086) are left out.                 *)
(***************************************************************************)
EXTENDS Integers, Sequences, FiniteSets, FiniteSetsExt

CONSTANTS
    Wrap,        \* sequence numbers are counted modulo Wrap (256 in the driver)
    CtlCredits,  \* TXCTL_CREDITS
    Window,      \* how many frames the firmware takes ahead
    GlomSize,    \* txglomsz: data packets of one transfer
    QueueLen, QueueHigh, QueueLow,   \* TXQLEN, TXHI, TXLOW
    RxBound, TxBound, TxMinMax,      \* frames of one call of the worker
    IdleTime,    \* watchdog ticks before the bus sleeps
    Budget       \* how often each kind of outside step happens, and all together

VARIABLES
    sd,      \* struct brcmf_sdio, and the device behind the bus
    dpc,     \* the data worker: where it is, and its local variables
    cmd,     \* the one command that holds the driver's proto_block mutex
    dog,     \* where the watchdog thread is
    left     \* what is left of Budget

sdioVars == <<sd, dpc, cmd, dog, left>>

Prec == {0, 1}     \* two of the eight precedences

Spend(k) == left[k] > 0 /\ left.all > 0 /\ left' = [left EXCEPT ![k] = @ - 1, !.all = @ - 1]

-----------------------------------------------------------------------------
(* Queue, window, interrupt line.                                          *)

\* Packets of the precedences the firmware has not stopped (brcmu_pktq_mlen).
Mlen(s) == (IF 0 \in s.flow THEN 0 ELSE s.txq[0]) + (IF 1 \in s.flow THEN 0 ELSE s.txq[1])
QLen(s) == s.txq[0] + s.txq[1]

\* The code subtracts bytes as ints: zero and the top bit are tested apart.
Offered(d) == d # 0 /\ d % Wrap < Wrap \div 2
DataOk(s)  == Offered(s.tx_max - s.tx_seq - (IF s.ctl THEN CtlCredits ELSE 0))
TxctlOk(s) == Offered(s.tx_max - s.tx_seq)

Running == dpc.pc \notin {"off", "out", "frozen"}

\* Does the device raise its interrupt?  With the clock-available filter on
\* (SBSDIO_DEVCTL_CA_INT_ONLY) only the clock does.
Asserted(s) == IF s.caOnly THEN s.ready ELSE s.int # {}

\* Can function 2 be used?
Reachable(s) == IF s.sr THEN ~s.asleep ELSE s.clk = "avail"

MutTrigger(s) == IF s.triggered \/ Running THEN s ELSE [s EXCEPT !.triggered = TRUE, !.queued = TRUE]
Trigger(s) == IF s.triggered THEN s ELSE [s EXCEPT !.triggered = TRUE, !.queued = TRUE]
ScheduleDpc(s) == [s EXCEPT !.triggered = TRUE, !.queued = TRUE]

-----------------------------------------------------------------------------
(* Clock and sleep.                                                        *)

\* ok: the clock comes before the poll for it ends.
HtClk(s, on, pend, ok) ==
    CASE s.sr -> [s EXCEPT !.clk = IF on THEN "avail" ELSE "sdonly"]
      [] ~s.sr /\ on /\ ~s.ready /\ pend ->
           [s EXCEPT !.req = TRUE, !.caOnly = TRUE, !.clk = "pending"]
      [] ~s.sr /\ on /\ (s.ready \/ ~pend) ->
           [s EXCEPT !.req = TRUE, !.caOnly = @ /\ s.clk # "pending",
                     !.ready = @ \/ ok, !.clk = IF s.ready \/ ok THEN "avail" ELSE @]
      [] ~s.sr /\ ~on ->
           [s EXCEPT !.caOnly = @ /\ s.clk # "pending", !.clk = "sdonly",
                     !.req = FALSE, !.ready = FALSE]

SdClk(s, on) == [s EXCEPT !.clk = IF on THEN "sdonly" ELSE "none"]

ClkCtl(s, target, pend, ok) ==
    CASE s.clk = target -> s
      [] s.clk # target /\ target = "avail" ->
           HtClk(IF s.clk = "none" THEN SdClk(s, TRUE) ELSE s, TRUE, pend, ok)
      [] s.clk # target /\ target = "none" ->
           SdClk(IF s.clk = "avail" THEN HtClk(s, FALSE, FALSE, ok) ELSE s, FALSE)

WdTimer(s, on) ==
    CASE ~on -> [s EXCEPT !.wd = FALSE]
      [] on  -> [s EXCEPT !.wd = @ \/ s.data]

\* The keep-on bit is written until it reads back; ok: it did.
KsoControl(s, on) == [s EXCEPT !.asleep = ~on]

BusSleep(s, sleep, pend, ok) ==
    IF s.sr /\ sleep # s.sleeping /\ ~ok
    THEN s
    ELSE LET k == IF s.sr /\ sleep # s.sleeping THEN KsoControl(s, ~sleep) ELSE s
             c == IF ~sleep THEN WdTimer(ClkCtl(k, "avail", pend, ok), TRUE)
                  ELSE IF s.sr THEN k ELSE ClkCtl(k, "none", pend, ok)
         IN  [c EXCEPT !.sleeping = sleep]

\* brcmf_sdio_intr_rstatus: read the device's bits and acknowledge them.
IntrRstatus(s) == [s EXCEPT !.intst = @ \cup s.int, !.int = {}]

-----------------------------------------------------------------------------

SdioInit ==
    /\ sd \in [
         sr : BOOLEAN, oob : BOOLEAN, data : {TRUE}, clk : {"sdonly"}, sleeping : {FALSE},
         wd : {FALSE}, idle : {0}, ipend : {FALSE}, irq_en : {TRUE}, intst : {{}},
         rxskip : {FALSE}, rxpending : {FALSE}, triggered : {FALSE}, queued : {FALSE},
         txq : {[p \in Prec |-> 0]}, txoff : {FALSE}, flow : {{}},
         tx_seq : {Wrap - 1}, tx_max : {0},
         ctl : {FALSE}, frame : {0}, err : {FALSE}, rxctl : {0},
         freezing : {FALSE},
         \* the device
         asleep : {FALSE}, ready : {FALSE}, req : {FALSE}, caOnly : {FALSE},
         int : {{}}, mail : {{}}, nak : {FALSE}, out : {<<>>}, got : {Wrap - 1},
         grant : {Wrap}, reqs : {<<>>}, seen : {{}},
         \* what the properties look at: packets, and transfers to a sleeping device
         given : {0}, done : {0}, evicted : {0}, slept : {FALSE}, lost : {FALSE}, raced : {FALSE}]
    /\ dpc = [pc |-> "off", intst |-> {}, quota |-> 0, err |-> FALSE]
    /\ cmd = [pc |-> "idle", id |-> 0, res |-> "none"]
    /\ dog = "wait"
    /\ left = Budget

Touch(s) == [s EXCEPT !.slept = @ \/ ~Reachable(s)]

-----------------------------------------------------------------------------
(* The interrupt handler.                                                  *)

\* In band: the SDIO core calls it with the host claimed.
IbIrq ==
    /\ ~sd.oob /\ Asserted(sd)
    /\ sd' = ScheduleDpc(IF sd.asleep THEN sd ELSE IntrRstatus(sd))
    /\ UNCHANGED <<dpc, cmd, dog, left>>

\* Out of band: a level-triggered line, off until the worker has looked.
OobIrq ==
    /\ sd.oob /\ Asserted(sd) /\ sd.irq_en
    /\ sd' = [ScheduleDpc(sd) EXCEPT !.irq_en = FALSE, !.ipend = TRUE]
    /\ UNCHANGED <<dpc, cmd, dog, left>>

-----------------------------------------------------------------------------
(* The data worker.                                                        *)

At(p) == dpc.pc = p
Go(p) == dpc' = [dpc EXCEPT !.pc = p]

WorkStart ==
    /\ At("off") /\ sd.queued
    /\ sd' = [sd EXCEPT !.queued = FALSE]
    /\ Go("loop")
    /\ UNCHANGED <<cmd, dog, left>>

WorkLoop ==
    /\ At("loop")
    /\ sd' = [sd EXCEPT !.triggered = FALSE]
    /\ dpc' = [dpc EXCEPT !.pc = IF sd.triggered THEN "wake" ELSE "out", !.err = FALSE]
    /\ UNCHANGED <<cmd, dog, left>>

\* dpc_running is FALSE; the worker freezes if the system suspends.
WorkOut ==
    /\ At("out")
    /\ sd' = [sd EXCEPT !.data = ~sd.freezing]
    /\ Go(IF sd.freezing THEN "frozen" ELSE "off")
    /\ UNCHANGED <<cmd, dog, left>>

\* NAKHANDLED lets frames in again; FC replaces the stopped precedences.
HostMail(s) ==
    [s EXCEPT !.rxskip = @ /\ "nak" \notin s.mail, !.mail = {},
              !.flow = IF "stop" \in s.mail THEN {0} ELSE IF "go" \in s.mail THEN {} ELSE @]

\* HT clock awaited and there: cancel the filter.
PendingClock(s) ==
    IF ~s.sr /\ s.clk = "pending" /\ s.ready
    THEN [s EXCEPT !.caOnly = FALSE, !.clk = "avail"] ELSE s

\* From the claim of the host to its release: clock on, status, mailbox.
DpcWake ==
    /\ At("wake")
    /\ \E ok \in BOOLEAN :
         /\ IF ok THEN UNCHANGED left ELSE sd.sr /\ sd.sleeping /\ Spend("fails")
         /\ LET w == BusSleep(PendingClock(sd), FALSE, TRUE, ok)
                r == IF w.ipend /\ ~w.asleep THEN IntrRstatus(w) ELSE w
                h == IF "mail" \in r.intst THEN HostMail(r) ELSE r
                i == (r.intst \ {"mail"}) \cup
                     (IF "mail" \in r.intst /\ "nak" \in r.mail THEN {"frame"} ELSE {})
                j == IF h.rxskip THEN i \ {"frame"} ELSE i
                reads == "frame" \in j /\ h.clk = "avail"
            IN  /\ sd' = [h EXCEPT !.ipend = FALSE, !.intst = {},
                                   !.rxpending = @ \/ reads, !.raced = @ \/ ~ok]
                /\ dpc' = [pc |-> IF reads THEN "rx" ELSE "clear", intst |-> j,
                           quota |-> RxBound, err |-> w.ipend /\ w.asleep]
    /\ UNCHANGED <<cmd, dog>>

\* What a frame's header says of the window and of the stopped precedences.
Header(s, f) ==
    [s EXCEPT !.flow = f.flow,
              !.tx_max = IF (f.max - s.tx_seq) % Wrap > Wrap \div 4
                         THEN (s.tx_seq + 2) % Wrap ELSE f.max]

\* A control frame is kept for the command unless one still lies there.
ReadControl(s, f) == IF f.kind # "ctl" \/ s.rxctl # 0 THEN s ELSE [s EXCEPT !.rxctl = f.id]

\* A frame is read well, is given up, or is refused for the firmware to repeat.
ReadFrame ==
    /\ At("rx") /\ ~sd.rxskip /\ dpc.quota > 0 /\ sd.data /\ sd.out # <<>>
    /\ LET f == Head(sd.out)
           t == [Touch(sd) EXCEPT !.out = Tail(@)]
       IN  \/ sd' = ReadControl(Header(t, f), f) /\ UNCHANGED left
           \/ sd' = Header(t, f) /\ Spend("fails")
           \/ sd' = [Touch(sd) EXCEPT !.rxskip = TRUE, !.nak = TRUE] /\ Spend("fails")
    /\ dpc' = [dpc EXCEPT !.quota = @ - 1]
    /\ UNCHANGED <<cmd, dog>>

\* An all-zero header: no more frames.
ReadNothing ==
    /\ At("rx") /\ ~sd.rxskip /\ dpc.quota > 0 /\ sd.data /\ sd.out = <<>>
    /\ sd' = [Touch(sd) EXCEPT !.rxpending = FALSE]
    /\ dpc' = [dpc EXCEPT !.pc = "clear", !.intst = @ \ {"frame"}]
    /\ UNCHANGED <<cmd, dog, left>>

\* The level-triggered line is let through again.
ClrIntr(s) == IF s.oob /\ ~s.irq_en /\ ~s.ipend THEN [s EXCEPT !.irq_en = TRUE] ELSE s

\* Frames are read, or enough of them: keep the bits not dealt with.
DpcClear ==
    /\ At("clear") \/ (At("rx") /\ (sd.rxskip \/ dpc.quota = 0 \/ ~sd.data))
    /\ sd' = ClrIntr([sd EXCEPT !.intst = @ \cup dpc.intst])
    /\ Go("ctl")
    /\ UNCHANGED <<cmd, dog, left>>

Sent(s, n) == [Touch(s) EXCEPT !.tx_seq = (@ + n) % Wrap, !.got = @ + n]

\* Send queued packets next?  Few if frames are still to be read.
ThenSend(s, e) ==
    IF s.clk = "avail" /\ Mlen(s) > 0 /\ DataOk(s)
    THEN [dpc EXCEPT !.pc = "send", !.err = e, !.quota = IF s.rxpending THEN TxMinMax ELSE TxBound]
    ELSE [dpc EXCEPT !.pc = "end", !.err = e]

\* brcmf_sdio_tx_ctrlframe, up to three attempts.
TxCtrlframe ==
    \/ /\ sd' = [Sent(sd, 1) EXCEPT !.ctl = FALSE, !.err = FALSE,
                     !.reqs = Append(@, sd.frame), !.seen = @ \cup {sd.frame}]
       /\ dpc' = ThenSend(sd', dpc.err) /\ UNCHANGED left
    \/ /\ sd' = [Touch(sd) EXCEPT !.ctl = FALSE, !.err = TRUE]
       /\ dpc' = ThenSend(sd', TRUE) /\ Spend("fails")

DpcCtl ==
    /\ At("ctl")
    /\ IF sd.ctl /\ sd.clk = "avail" /\ TxctlOk(sd)
       THEN TxCtrlframe
       ELSE dpc' = ThenSend(sd, dpc.err) /\ UNCHANGED <<sd, left>>
    /\ UNCHANGED <<cmd, dog>>

\* Packets leave the queue from the highest precedence that is not stopped.
Dequeued(s, n) ==
    LET hi == IF 1 \in s.flow THEN 0 ELSE Min({n, s.txq[1]})
    IN  [s EXCEPT !.txq = [p \in Prec |-> IF p = 1 THEN @[1] - hi ELSE @[0] - (n - hi)]]

MutBatch(s) == Min({GlomSize, Mlen(s)})
\* How many packets one transfer takes.
Batch(s) == Min({(s.tx_max - s.tx_seq) % Wrap, GlomSize, Mlen(s)})

\* One transfer; a failed one completes its packets all the same.
SendFromQ ==
    /\ At("send") /\ dpc.quota > 0 /\ DataOk(sd) /\ Batch(sd) > 0
    /\ LET n == Batch(sd)
           d == [Dequeued(sd, n) EXCEPT !.done = @ + n]
       IN  /\ \/ sd' = Sent(d, n) /\ UNCHANGED left
              \/ sd' = Touch(d) /\ Spend("fails")
           /\ dpc' = [dpc EXCEPT !.quota = Max({0, @ - n})]
    /\ UNCHANGED <<cmd, dog>>

SendEnds ==
    /\ At("send") /\ ~(dpc.quota > 0 /\ DataOk(sd) /\ Batch(sd) > 0)
    /\ sd' = [sd EXCEPT !.txoff = @ /\ ~(sd.data /\ QLen(sd) < QueueLow)]
    /\ Go("end")
    /\ UNCHANGED <<cmd, dog, left>>

\* Give up after an error, or run again if something is left.
DpcEnd ==
    /\ At("end")
    /\ sd' = [(IF ~sd.data \/ dpc.err
               THEN [sd EXCEPT !.intst = {}, !.err = @ \/ sd.ctl, !.ctl = FALSE, !.lost = TRUE]
               ELSE [sd EXCEPT !.triggered = @ \/ sd.intst # {} \/ sd.ipend
                                               \/ (Mlen(sd) > 0 /\ DataOk(sd))])
              EXCEPT !.idle = 0]
    /\ Go("loop")
    /\ UNCHANGED <<cmd, dog, left>>

Worker == \/ WorkStart \/ WorkLoop \/ WorkOut \/ DpcWake \/ ReadFrame \/ ReadNothing
          \/ DpcClear \/ DpcCtl \/ SendFromQ \/ SendEnds \/ DpcEnd

-----------------------------------------------------------------------------
(* The watchdog thread.                                                    *)

WatchdogTick ==
    /\ dog = "wait" /\ sd.wd /\ ~sd.freezing /\ Spend("ticks")
    /\ LET quiet == ~sd.triggered /\ ~Running /\ sd.clk = "avail"
       IN  /\ sd' = [sd EXCEPT !.idle = IF quiet THEN @ + 1 ELSE 0]
           /\ dog' = IF quiet /\ sd.idle + 1 > IdleTime THEN "sleep" ELSE "wait"
    /\ UNCHANGED <<dpc, cmd>>

\* It now has the host, whatever happened since it looked.
WatchdogSleep ==
    /\ dog = "sleep"
    /\ \E ok \in BOOLEAN :
         /\ IF ok THEN UNCHANGED left ELSE sd.sr /\ Spend("fails")
         /\ sd' = [BusSleep(WdTimer(sd, FALSE), TRUE, FALSE, ok) EXCEPT
                     !.idle = 0, !.raced = @ \/ Running]
    /\ dog' = "wait"
    /\ UNCHANGED <<dpc, cmd>>

-----------------------------------------------------------------------------
(* System suspend that keeps the card's power.                             *)

FreezerOn ==
    /\ ~sd.freezing /\ Spend("suspends")
    /\ sd' = Trigger([sd EXCEPT !.freezing = TRUE])
    /\ UNCHANGED <<dpc, cmd, dog>>

\* Both threads are frozen or asleep.
FreezerSleep ==
    /\ sd.freezing /\ ~sd.sleeping /\ At("frozen") /\ dog = "wait"
    /\ sd' = WdTimer(BusSleep(sd, TRUE, FALSE, TRUE), FALSE)
    /\ UNCHANGED <<dpc, cmd, dog, left>>

FreezerOff ==
    /\ sd.freezing /\ sd.sleeping /\ At("frozen")
    /\ sd' = [BusSleep(sd, FALSE, FALSE, TRUE) EXCEPT !.freezing = FALSE]
    /\ UNCHANGED <<dpc, cmd, dog, left>>

Thaw ==
    /\ At("frozen") /\ ~sd.freezing
    /\ sd' = [sd EXCEPT !.data = TRUE]
    /\ Go("off")
    /\ UNCHANGED <<cmd, dog, left>>

-----------------------------------------------------------------------------
(* Packets and commands.                                                   *)

\* brcmf_sdio_prec_enq: refuse, or push out a packet of lower precedence.
PrecEnq(s, p) ==
    CASE QLen(s) < QueueLen -> [s EXCEPT !.txq[p] = @ + 1, !.given = @ + 1]
      [] QLen(s) >= QueueLen /\ p = 1 /\ s.txq[0] > 0 ->
           [s EXCEPT !.txq = [q \in Prec |-> IF q = 1 THEN @[1] + 1 ELSE @[0] - 1],
                     !.given = @ + 1, !.evicted = @ + 1]
      [] OTHER -> s

BusTxdata(p) ==
    /\ sd.data /\ Spend("pkts")
    /\ LET q == PrecEnq(sd, p)
       IN  sd' = Trigger([q EXCEPT !.txoff = @ \/ QLen(q) >= QueueHigh])
    /\ UNCHANGED <<dpc, cmd, dog>>

\* The command puts its frame where the worker finds it and waits.
BusTxctl ==
    /\ cmd.pc = "idle" /\ sd.data /\ Spend("cmds")
    /\ sd' = Trigger([sd EXCEPT !.frame = cmd.id + 1, !.ctl = TRUE])
    /\ cmd' = [pc |-> "tx", id |-> cmd.id + 1, res |-> "none"]
    /\ UNCHANGED <<dpc, dog>>

Sending(s) == IF s.err THEN [cmd EXCEPT !.pc = "idle", !.res = "txerr"]
                       ELSE [cmd EXCEPT !.pc = "rx"]

TxctlDone ==
    /\ cmd.pc = "tx" /\ ~sd.ctl
    /\ cmd' = Sending(sd)
    /\ UNCHANGED <<sd, dpc, dog, left>>

\* The time is over; the host is not claimed yet.
TxctlExpires ==
    /\ cmd.pc = "tx" /\ sd.ctl /\ Spend("timeouts")
    /\ cmd' = [cmd EXCEPT !.pc = "late"]
    /\ UNCHANGED <<sd, dpc, dog>>

\* With the host claimed it looks again.
TxctlLate ==
    /\ cmd.pc = "late"
    /\ sd' = [sd EXCEPT !.ctl = FALSE]
    /\ cmd' = IF sd.ctl THEN [cmd EXCEPT !.pc = "idle", !.res = "txtimeout"] ELSE Sending(sd)
    /\ UNCHANGED <<dpc, dog, left>>

\* A frame for another request is thrown away and the wait starts again.
RxctlFrame ==
    /\ cmd.pc = "rx" /\ sd.rxctl # 0
    /\ sd' = [sd EXCEPT !.rxctl = 0]
    /\ cmd' = IF sd.rxctl = cmd.id THEN [cmd EXCEPT !.pc = "idle", !.res = "ok"]
              ELSE IF sd.data THEN cmd ELSE [cmd EXCEPT !.pc = "idle", !.res = "rxerr"]
    /\ UNCHANGED <<dpc, dog, left>>

RxctlTimeout ==
    /\ cmd.pc = "rx" /\ sd.rxctl = 0 /\ Spend("timeouts")
    /\ cmd' = [cmd EXCEPT !.pc = "idle", !.res = "rxerr"]
    /\ UNCHANGED <<sd, dpc, dog>>

Caller == \/ BusTxctl \/ TxctlDone \/ TxctlExpires \/ TxctlLate \/ RxctlFrame \/ RxctlTimeout
          \/ \E p \in Prec : BusTxdata(p)

-----------------------------------------------------------------------------
(* The firmware.                                                           *)

ToHost(s, kind, id, flow) ==
    [s EXCEPT !.grant = s.got + Window, !.int = @ \cup {"frame"},
              !.out = Append(@, [kind |-> kind, id |-> id, flow |-> flow,
                                 max |-> (s.got + Window) % Wrap])]

FirmAnswers ==
    /\ sd.reqs # <<>>
    /\ sd' = [ToHost(sd, "ctl", Head(sd.reqs), {}) EXCEPT !.reqs = Tail(@)]
    /\ UNCHANGED <<dpc, cmd, dog, left>>

FirmSends ==
    /\ Spend("frames")
    /\ \E f \in SUBSET {0} : sd' = ToHost(sd, "data", 0, f)
    /\ UNCHANGED <<dpc, cmd, dog>>

FirmRepeats ==
    /\ sd.nak
    /\ sd' = [sd EXCEPT !.nak = FALSE, !.mail = @ \cup {"nak"}, !.int = @ \cup {"mail"}]
    /\ UNCHANGED <<dpc, cmd, dog, left>>

ClockComes ==
    /\ sd.req /\ ~sd.ready
    /\ sd' = [sd EXCEPT !.ready = TRUE]
    /\ UNCHANGED <<dpc, cmd, dog, left>>

Firmware == FirmAnswers \/ FirmSends \/ FirmRepeats \/ ClockComes

SdioNext == \/ IbIrq \/ OobIrq \/ Worker \/ WatchdogTick \/ WatchdogSleep
            \/ FreezerOn \/ FreezerSleep \/ FreezerOff \/ Thaw \/ Caller \/ Firmware

SdioSpec == SdioInit /\ [][SdioNext]_sdioVars

-----------------------------------------------------------------------------
(* Properties.                                                             *)

\* The firmware is never sent more than it allowed, across the wrap of the
\* sequence number, the reserve for control frames and the repair of a bad
\* window (data_ok, brcmf_sdio_sendfromq, brcmf_sdio_hdparse).
WindowKept == sd.got <= sd.grant /\ sd.got % Wrap = sd.tx_seq

\* Every packet the bus took is completed once, or pushed out of the queue
\* (brcmf_sdio_prec_enq, brcmf_sdio_txpkt).
PacketsOnce == sd.given = QLen(sd) + sd.done + sd.evicted

\* A frame is offered to the worker only while its command waits, and a
\* command learns truly whether the firmware has it (brcmf_sdio_bus_txctl).
FrameHonest ==
    /\ sd.ctl => cmd.pc \in {"tx", "late"} /\ sd.frame = cmd.id
    /\ cmd.pc = "rx" => cmd.id \in sd.seen
    /\ cmd.res \in {"txerr", "txtimeout"} => cmd.id \notin sd.seen

\* Function 2 is used only with the clock on and the device awake, unless the
\* watchdog, having seen the worker idle, gets the host while it runs, or the
\* device did not wake, which the worker does not look at (brcmf_sdio_dpc).
BusAwake == sd.slept => sd.raced

\* The driver is at rest and no interrupt is on its way.
AtRest == At("off") /\ ~sd.queued /\ ~Asserted(sd) /\ dog = "wait"

\* At rest nothing is left that could go on: no control frame and no packet
\* the window lets through, no frame unread (brcmf_sdio_trigger_dpc,
\* brcmf_sdio_dpc, brcmf_sdio_clrintr); README.md tells the exceptions.
NothingWaits ==
    AtRest =>
      /\ ~sd.triggered
      /\ sd.oob => sd.irq_en
      /\ (Mlen(sd) > 0 /\ DataOk(sd)) => sd.lost \/ sd.clk = "pending" \/ cmd.res = "txtimeout"
      /\ (sd.ctl /\ TxctlOk(sd)) => sd.clk = "pending" \/ sd.raced
      /\ sd.out # <<>> => (sd.rxskip /\ sd.nak) \/ sd.lost \/ sd.caOnly
=============================================================================
