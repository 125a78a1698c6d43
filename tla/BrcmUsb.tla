------------------------------- MODULE BrcmUsb -------------------------------
(***************************************************************************)
(* The USB bus of the Wi-Fi driver (usb.c).  First the firmware image is   *)
(* given to the boot loader in chunks and started; then packets move in    *)
(* USB requests (URBs) taken from and given back to two lists, while the   *)
(* one control URB carries the commands of BCDC, and the device sleeps,    *)
(* wakes and is shut down.                                                 *)
(*                                                                         *)
(* One step is what runs under one spin lock or between two waits: the     *)
(* sender takes a request, submits it and looks at the flow limit in three *)
(* steps, a completed request is put back and then the limit is looked at  *)
(* in two.                                                                 *)
(***************************************************************************)
EXTENDS Integers, FiniteSetsExt

CONSTANTS
    NTxq, NRxq,       \* requests of each kind
    ImageLen, Chunk, Align,   \* of the firmware image, TRX_RDL_CHUNK and 64, in units of 4 bytes
    VersionTries,     \* BRCMF_USB_RESET_GETVER_LOOP_CNT
    UsbPkts, UsbCmds, UsbPower, UsbFaults   \* bounds

VARIABLES
    load,    \* the download: step, bytes sent, what the boot loader reports
    usb,     \* struct brcmf_usbdev_info
    tx,      \* how many transmit requests are free, and how many with the device
    rx,      \* how many receive requests are with the device
    ctl,     \* the control URB and the command that uses it
    pm,      \* suspend, shutdown: which requests are cancelled next
    used     \* how often each kind of outside step happened

usbVars == <<load, usb, tx, rx, ctl, pm, used>>

LowWatermark  == NTxq \div 4
HighWatermark == LowWatermark * 3

Count(k, max) == used[k] < max /\ used' = [used EXCEPT ![k] = @ + 1]
Fault == Count("faults", UsbFaults)

\* sent: what the driver counts as sent; got: what the boot loader received,
\* told: what it has counted, hole: not the image's units in their places.
\* bytes: its count as read last.  junk: an answer was read that never came.
Loader(p) == [pc |-> p, sent |-> 0, got |-> 0, told |-> 0, hole |-> FALSE, bytes |-> 0,
              tries |-> 0, dead |-> FALSE, junk |-> FALSE, guess |-> FALSE]

UsbInit ==
    /\ load = Loader("dlneeded")
    /\ usb = [state |-> "down", flowblock |-> FALSE, at |-> "idle", check |-> 0,
              refused |-> FALSE, late |-> FALSE, starved |-> FALSE]
    /\ tx = [free |-> NTxq, posted |-> 0]
    /\ rx = 0
    /\ ctl = [op |-> FALSE, urb |-> "none", completed |-> FALSE, status |-> 0,
              pc |-> "idle", res |-> "none", timedout |-> FALSE]
    /\ pm = "idle"
    /\ used = [pkts |-> 0, cmds |-> 0, power |-> 0, faults |-> 0]

-----------------------------------------------------------------------------
(* The download (before brcmf_attach).                                     *)

Loading(p) == load.pc = p /\ UNCHANGED <<usb, tx, rx, ctl, pm, used>>

\* A submission is refused, nothing comes in time, or the device says no.
LoadFails == load' = [load EXCEPT !.pc = "failed"]

\* brcmf_usb_sync_complete looks at no status: the answer of a read that
\* failed is what its new buffer held.
Junk(l) == {[l EXCEPT !.junk = TRUE, !.bytes = b] : b \in 0 .. ImageLen}

\* The boot loader answers GETVER; an unanswered one leaves the id 0xDEAD.
DlNeeded ==
    /\ Loading("dlneeded")
    /\ \/ load' = Loader("loaded")
       \/ \E d \in BOOLEAN : load' = [load EXCEPT !.pc = "start", !.dead = d]

\* brcmf_usb_dlstart, DL_START: the boot loader waits for the image.
DlStart ==
    /\ Loading("start")
    /\ \/ /\ ~load.dead
          /\ LET l == [load EXCEPT !.pc = "write"] IN load' \in {l} \cup Junk(l)
       \/ LoadFails

\* Never a multiple of 64 bytes: that would need a zero-length packet.
SendLen == LET n == Min({ImageLen - load.sent, Chunk}) IN IF n % Align = 0 THEN n - 1 ELSE n

\* The chunk is counted whatever became of its request; the boot loader gets
\* all of it, or the first n units when the request fails.
SendBulk ==
    \/ \E n \in 0 .. SendLen :
          load' = [load EXCEPT !.pc = "getstate", !.sent = @ + SendLen, !.got = @ + n,
                               !.hole = @ \/ (n > 0 /\ load.got # load.sent)]
    \/ LoadFails

\* Mutant: it has not.
MutDlSendBulk ==
    /\ Loading("write") /\ load.bytes # ImageLen /\ load.sent < ImageLen
    /\ SendBulk
\* The device has told that it got all that was sent: send the next chunk.
DlSendBulk ==
    /\ Loading("write") /\ load.bytes # ImageLen /\ load.bytes = load.sent
    /\ SendBulk

\* Not yet: ask again, for ever when a request failed.
DlPoll ==
    /\ Loading("write") /\ load.bytes # ImageLen /\ load.bytes # load.sent
    /\ load' = [load EXCEPT !.pc = "getstate"]

\* DL_GETSTATE; the device may be behind, or find the header or the sum bad.
DlGetState ==
    /\ Loading("getstate")
    /\ \/ \E b \in load.told .. load.got :
             load' = [load EXCEPT !.pc = "write", !.told = b, !.bytes = b]
       \/ load' \in Junk([load EXCEPT !.pc = "write"])
       \/ LoadFails

\* brcmf_usb_dlrun: DL_GO, when the boot loader says the image can be run; it
\* says so only of a whole one.
DlRun ==
    /\ Loading("write") /\ load.bytes = ImageLen
    /\ \/ /\ load.got = ImageLen /\ ~load.hole
          /\ load' = [load EXCEPT !.pc = "resetcfg"]
       \/ load' = [load EXCEPT !.pc = "resetcfg", !.guess = TRUE]
       \/ LoadFails

\* Until the firmware answers GETVER with the postboot id, or too often.
ResetCfg ==
    /\ Loading("resetcfg")
    /\ \/ load' = Loader("loaded")
       \/ load' = [load EXCEPT !.tries = @ + 1,
                               !.pc = IF load.tries + 1 < VersionTries THEN @ ELSE "failed"]
       \/ LoadFails

-----------------------------------------------------------------------------
(* Receive requests.                                                       *)

\* A frame came: handed up, and brcmf_usb_rx_refill sends the request out again,
\* with a new packet, if there is one and the bus takes it.
RxComplete ==
    /\ rx > 0
    /\ \/ usb.state \in {"up", "sleep"} /\ UNCHANGED <<rx, usb, used>>
       \/ usb.state \in {"up", "sleep"} /\ rx' = rx - 1 /\ Fault /\ usb' = [usb EXCEPT !.starved = TRUE]
       \/ usb.state = "down" /\ rx' = rx - 1 /\ UNCHANGED <<usb, used>>
    /\ UNCHANGED <<load, tx, ctl, pm>>

\* The URB failed or is empty: no refill.
RxFails ==
    /\ rx > 0 /\ Fault
    /\ rx' = rx - 1
    /\ usb' = [usb EXCEPT !.starved = TRUE]
    /\ UNCHANGED <<load, tx, ctl, pm>>

-----------------------------------------------------------------------------
(* Transmit requests.                                                      *)

\* brcmf_usb_tx takes a request.
TxTake ==
    /\ usb.at = "idle" /\ usb.state = "up" /\ tx.free > 0 /\ Count("pkts", UsbPkts)
    /\ tx' = [tx EXCEPT !.free = @ - 1]
    /\ usb' = [usb EXCEPT !.at = "submit"]
    /\ UNCHANGED <<load, rx, ctl, pm>>

\* No request, or the bus is not up: the packet is refused.
TxRefuse ==
    /\ usb.at = "idle" /\ load.pc = "loaded" /\ Count("pkts", UsbPkts)
    /\ usb.state # "up" \/ tx.free = 0
    /\ UNCHANGED <<load, usb, tx, rx, ctl, pm>>

TxSubmit ==
    /\ usb.at = "submit"
    /\ \/ /\ tx' = [tx EXCEPT !.posted = @ + 1]
          /\ usb' = [usb EXCEPT !.at = "flow", !.late = @ \/ usb.state # "up"]
          /\ UNCHANGED used
       \/ /\ tx' = [tx EXCEPT !.free = @ + 1]
          /\ usb' = [usb EXCEPT !.at = "idle", !.refused = TRUE] /\ Fault
    /\ UNCHANGED <<load, rx, ctl, pm>>

TxFlow ==
    /\ usb.at = "flow"
    /\ usb' = [usb EXCEPT !.at = "idle", !.flowblock = @ \/ tx.free < LowWatermark]
    /\ UNCHANGED <<load, tx, rx, ctl, pm, used>>

\* The completion puts the request back, and then looks at the limit.
Completed(n) ==
    /\ tx' = [free |-> tx.free + n, posted |-> tx.posted - n]
    /\ usb' = [usb EXCEPT !.check = @ + n]
TxComplete ==
    /\ tx.posted > 0
    /\ Completed(1)
    /\ UNCHANGED <<load, rx, ctl, pm, used>>

MutTxCheck ==
    /\ usb.check > 0
    /\ usb' = [usb EXCEPT !.check = @ - 1, !.flowblock = @ /\ tx.free # HighWatermark]
    /\ UNCHANGED <<load, tx, rx, ctl, pm, used>>
TxCheck ==
    /\ usb.check > 0
    /\ usb' = [usb EXCEPT !.check = @ - 1, !.flowblock = @ /\ ~(tx.free > HighWatermark)]
    /\ UNCHANGED <<load, tx, rx, ctl, pm, used>>

-----------------------------------------------------------------------------
(* Commands: brcmf_usb_tx_ctlpkt, then brcmf_usb_rx_ctlpkt.                *)

CtlEnds(r) == [ctl EXCEPT !.pc = "idle", !.res = r]

\* The command of the mutex holder starts: a write, later a read.
CtlStart(dir) ==
    /\ \/ dir = "out" /\ ctl.pc = "idle" /\ load.pc = "loaded" /\ Count("cmds", UsbCmds)
       \/ dir = "in" /\ ctl.pc = "written" /\ UNCHANGED used
    /\ ctl' = IF usb.state # "up" \/ ctl.op
              THEN CtlEnds("refused")
              ELSE [ctl EXCEPT !.op = TRUE, !.completed = FALSE, !.urb = dir, !.status = 0, !.pc = dir]
    /\ UNCHANGED <<load, usb, tx, rx, pm>>

\* usb_submit_urb fails: the bit is given back.
CtlSubmitFails(dir) ==
    /\ ctl.pc = dir /\ ctl.urb = dir /\ ~ctl.completed /\ Fault
    /\ ctl' = [CtlEnds("refused") EXCEPT !.op = FALSE, !.urb = "none"]
    /\ UNCHANGED <<load, usb, tx, rx, pm>>

\* brcmf_usb_ctl_complete.
CtlComplete(st) ==
    /\ ctl.urb # "none"
    /\ IF st = 0 THEN UNCHANGED used ELSE Fault
    /\ ctl' = [ctl EXCEPT !.urb = "none", !.completed = TRUE, !.status = st]
    /\ UNCHANGED <<load, usb, tx, rx, pm>>

\* A write counts as done whatever its status, a read does not.
CtlDone(dir) ==
    /\ ctl.pc = dir /\ ctl.completed
    /\ ctl' = [(IF dir = "out" THEN [ctl EXCEPT !.pc = "written"]
                ELSE CtlEnds(IF ctl.status = 0 THEN "ok" ELSE "error")) EXCEPT !.op = FALSE]
    /\ UNCHANGED <<load, usb, tx, rx, pm, used>>

\* The time is over: usb_kill_urb, and ctl_op keeps its bit.
CtlTimeout(dir) ==
    /\ ctl.pc = dir /\ ~ctl.completed /\ Fault
    /\ ctl' = [CtlEnds("error") EXCEPT !.urb = "none", !.completed = TRUE, !.timedout = TRUE]
    /\ UNCHANGED <<load, usb, tx, rx, pm>>

-----------------------------------------------------------------------------
(* Up, down, suspend and resume.                                           *)

Idle == pm = "idle"

\* brcmf_usb_up from the attach, brcmf_usb_resume: rx_fill_all gives the device
\* every free request.
UsbUp ==
    /\ Idle /\ load.pc = "loaded" /\ usb.state \in {"down", "sleep"} /\ Count("power", UsbPower)
    /\ usb' = [usb EXCEPT !.state = "up", !.starved = FALSE]
    /\ rx' = NRxq
    /\ UNCHANGED <<load, tx, ctl, pm>>

\* brcmf_usb_down and brcmf_usb_suspend change the state and cancel: the control
\* URB first.
UsbDown(to) ==
    /\ Idle /\ usb.state = "up" /\ Count("power", UsbPower)
    /\ usb' = [usb EXCEPT !.state = to]
    /\ pm' = "tx"
    /\ ctl' = IF ctl.urb = "none" THEN ctl ELSE [ctl EXCEPT !.urb = "none", !.completed = TRUE, !.status = 1]
    /\ UNCHANGED <<load, tx, rx>>

\* usb_kill_urb of each request: a posted one completes with an error.
KillTx ==
    /\ pm = "tx" /\ pm' = "rx"
    /\ Completed(tx.posted)
    /\ UNCHANGED <<load, rx, ctl, used>>

KillRx ==
    /\ pm = "rx" /\ pm' = "idle"
    /\ rx' = 0
    /\ UNCHANGED <<load, usb, tx, ctl, used>>

UsbNext ==
    \/ DlNeeded \/ DlStart \/ DlSendBulk \/ DlPoll \/ DlGetState \/ DlRun \/ ResetCfg
    \/ RxComplete \/ RxFails \/ KillRx
    \/ TxTake \/ TxRefuse \/ TxSubmit \/ TxFlow \/ TxCheck \/ TxComplete \/ KillTx
    \/ \E d \in {"out", "in"} : CtlStart(d) \/ CtlSubmitFails(d) \/ CtlDone(d) \/ CtlTimeout(d)
    \/ \E st \in {0, 1} : CtlComplete(st)
    \/ UsbUp \/ \E s \in {"down", "sleep"} : UsbDown(s)

UsbSpec == UsbInit /\ [][UsbNext]_usbVars

-----------------------------------------------------------------------------
(* Properties.                                                             *)

\* No status of a request is looked at, so a chunk may be lost, and an answer be
\* no answer.  Yet the boot loader never holds a later part of the image in the
\* place of a lost one, since the next chunk waits for its count, and only a
\* whole image is started; the exceptions are a count, and for the start a
\* state, that was read from an answer that never came.  A chunk is not empty
\* (brcmf_usb_dl_writeimage, brcmf_usb_dlrun).
ImageWhole ==
    /\ load.got <= load.sent /\ load.sent <= ImageLen
    /\ load.hole => load.junk
    /\ load.pc = "resetcfg" => load.guess \/ (load.got = ImageLen /\ ~load.hole)
    /\ (load.pc = "write" /\ load.bytes = load.sent /\ load.sent < ImageLen) => SendLen > 0

\* The flow block is lifted: while it lasts a request is still with the device
\* or a completion is about to look, unless a submission was refused
\* (brcmf_usb_tx, brcmf_usb_tx_complete).
BlockEnds == (usb.flowblock /\ usb.check = 0 /\ usb.at = "idle" /\ ~usb.refused) =>
                tx.posted > 0

\* A running bus listens with every request that did not fail, and a stopped
\* one has all of them back, unless a sender passed the test of the state
\* before the bus stopped (brcmf_usb_rx_complete, brcmf_cancel_all_urbs).
Listens ==
    /\ (usb.state = "up" /\ Idle /\ ~usb.starved) => rx = NRxq
    /\ (usb.state # "up" /\ Idle) => rx = 0
    /\ (usb.state # "up" /\ Idle /\ ~usb.late /\ usb.at # "submit") => tx.posted = 0

\* The control URB belongs to the command that waits; the bit stays set after
\* it only when its time was over (brcmf_usb_tx_ctlpkt, brcmf_usb_rx_ctlpkt).
CtlOwned ==
    /\ ctl.urb # "none" => ctl.op /\ ctl.pc = ctl.urb
    /\ (ctl.op /\ ctl.pc \notin {"out", "in"}) => ctl.timedout
=============================================================================
