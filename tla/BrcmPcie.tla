------------------------------ MODULE BrcmPcie ------------------------------
(***************************************************************************)
(* The PCIe bus of the Wi-Fi driver (pcie.c with the bus part of core.c):  *)
(* probe, the firmware load that ends in brcmf_pcie_setup, the interrupt,  *)
(* the mailbox through which host and firmware agree on deep sleep and on  *)
(* D3, suspend and resume, the reset work that a halted firmware or        *)
(* debugfs arms, and removal.                                              *)
(*                                                                         *)
(* Five actors interleave: the loader (a system work), the interrupt       *)
(* thread, the reset work, the holder of the device lock (suspend, resume  *)
(* or remove) and the firmware.  The line is an MSI, so the handler runs   *)
(* only for this device and only while the mailbox mask is set.            *)
(***************************************************************************)
EXTENDS Integers, FiniteSets

CONSTANTS Allowed   \* how often each kind of outside step may happen: a record

VARIABLES
    bus,     \* struct brcmf_bus and brcmf_pub: data, drvr, proto, func, removing, up, took (the protocol away)
    info,    \* struct brcmf_pciedev_info: state, mask, irq, rings, arrays, ci, completed
    load,    \* the firmware request and brcmf_pcie_setup
    isr,     \* the interrupt thread
    work,    \* the reset work
    pm,      \* what runs under the device lock
    chip,    \* the device: firmware, its interrupt bits and the two mailboxes
    was,     \* what happened so far that the properties refer to
    left     \* outside steps left

pcieVars == <<bus, info, load, isr, work, pm, chip, was, left>>

Spend(k) == left[k] > 0 /\ left.all > 0 /\ left' = [left EXCEPT ![k] = @ - 1, !.all = @ - 1]
Fault == Spend("faults")

NoBus == [data |-> "none", drvr |-> FALSE, proto |-> FALSE, func |-> FALSE, removing |-> FALSE, up |-> FALSE,
          took |-> "none"]
NoInfo == [state |-> "down", mask |-> FALSE, irq |-> FALSE, rings |-> FALSE, scratch |-> FALSE, arrays |-> 0, ci |-> FALSE,
           completed |-> FALSE]
NoChip == [firm |-> "off", ints |-> {}, dtoh |-> {}, htod |-> "none"]

PcieInit ==
    /\ bus = NoBus /\ info = NoInfo /\ chip = NoChip
    /\ load = [pc |-> "idle", asked |-> 0]
    /\ isr = [pc |-> "idle", status |-> {}, mail |-> {}]
    /\ work = [pc |-> "idle", queued |-> FALSE]
    /\ pm = [pc |-> "idle", next |-> "none", asleep |-> FALSE]
    /\ was = [reset |-> FALSE, again |-> FALSE, rxbad |-> {}, haltbad |-> FALSE, late |-> FALSE, raced |-> FALSE,
              timedout |-> FALSE, overwritten |-> FALSE, oops |-> FALSE]
    /\ left = Allowed

-----------------------------------------------------------------------------
(* Reset requests.                                                         *)

MutScheduleReset(w) == IF bus.drvr /\ bus.func THEN [w EXCEPT !.queued = TRUE] ELSE w
\* brcmf_bus_schedule_reset, under bus_reset_lock.
ScheduleReset(w) == IF bus.drvr /\ bus.func /\ ~bus.removing THEN [w EXCEPT !.queued = TRUE] ELSE w

Again == was.again \/ work.pc # "idle" \/ load.asked > 0 \/ load.pc # "idle"

\* "reset" of debugfs, there while brcmf_cfg80211_attach's wiphy is.
BusResetWrite ==
    /\ bus.data = "live" /\ bus.proto /\ bus.func /\ Spend("resets")
    /\ work' = ScheduleReset(work)
    /\ was' = [was EXCEPT !.again = Again]
    /\ UNCHANGED <<bus, info, load, isr, pm, chip>>

-----------------------------------------------------------------------------
(* Probe and the firmware load.                                            *)

Probed == /\ bus' = [NoBus EXCEPT !.data = "live", !.drvr = TRUE]
          /\ info' = [NoInfo EXCEPT !.ci = TRUE]
          /\ load' = [load EXCEPT !.asked = @ + 1]
          /\ chip' = NoChip

\* brcmf_pcie_probe when the device is found; what fails is freed again.
Probe ==
    /\ bus.data = "none" /\ pm.pc = "idle" /\ load.asked = 0 /\ load.pc = "idle"
    /\ \/ Probed /\ Spend("probes")
       \/ Fault /\ UNCHANGED <<bus, info, load, chip>>
    /\ UNCHANGED <<isr, work, pm, was>>

\* The request is answered: brcmf_pcie_setup, with or without the files.
FwDone ==
    /\ load.pc = "idle" /\ load.asked > 0
    /\ \/ /\ bus.data = "live"
          /\ load' = [pc |-> "boot", asked |-> load.asked - 1] /\ UNCHANGED left
       \/ /\ bus.data = "live" /\ Fault
          /\ load' = [pc |-> "fail", asked |-> load.asked - 1]
       \/ /\ bus.data # "live"
          /\ load' = [load EXCEPT !.asked = @ - 1] /\ UNCHANGED left
    /\ was' = [was EXCEPT !.raced = @ \/ pm.pc # "idle" \/ pm.asleep, !.oops = @ \/ bus.data # "live"]
    /\ UNCHANGED <<bus, info, isr, work, pm, chip>>

\* brcmf_detach: interfaces, events, protocol, cfg80211.
Detached(b, by) == [b EXCEPT !.proto = FALSE, !.up = FALSE, !.took = IF b.proto THEN by ELSE @]

SetupStep(p) == load.pc = p /\ bus.data = "live" /\ UNCHANGED <<isr, work, pm>>
SetupGoes(p) == load' = [load EXCEPT !.pc = p]
SetupFails == SetupGoes("fail") /\ Fault

\* brcmf_pcie_download_fw_nvram: the firmware tells where its shared area is,
\* in time and inside the memory.
SetupBoot ==
    /\ SetupStep("boot")
    /\ \/ chip' = [NoChip EXCEPT !.firm = "run"] /\ SetupGoes("shared") /\ UNCHANGED left
       \/ SetupFails /\ UNCHANGED chip
    /\ UNCHANGED <<was, bus, info>>

\* brcmf_pcie_init_share_ram_info: a version the driver knows; then it is up.
SetupShared ==
    /\ SetupStep("shared")
    /\ \/ info' = [info EXCEPT !.state = "up"] /\ SetupGoes("rings") /\ UNCHANGED left
       \/ SetupFails /\ UNCHANGED info
    /\ UNCHANGED <<was, bus, chip>>

\* brcmf_pcie_init_ringbuffers, which gives all back when one part fails.
SetupRings ==
    /\ SetupStep("rings")
    /\ \/ info' = [info EXCEPT !.rings = TRUE] /\ SetupGoes("scratch") /\ UNCHANGED left
       \/ SetupFails /\ UNCHANGED info
    /\ UNCHANGED <<was, bus, chip>>

\* brcmf_pcie_init_scratchbuffers, likewise.
SetupScratch ==
    /\ SetupStep("scratch")
    /\ \/ info' = [info EXCEPT !.scratch = TRUE] /\ SetupGoes("irq") /\ UNCHANGED left
       \/ SetupFails /\ UNCHANGED info
    /\ UNCHANGED <<was, bus, chip>>

\* brcmf_pcie_request_irq, then the array of flow rings.
SetupIrq ==
    /\ SetupStep("irq")
    /\ \/ info' = [info EXCEPT !.mask = FALSE, !.irq = TRUE, !.arrays = @ + 1]
          /\ SetupGoes("proto") /\ UNCHANGED left
       \/ info' = [info EXCEPT !.mask = FALSE] /\ SetupFails
    /\ UNCHANGED <<was, bus, chip>>

\* brcmf_attach up to brcmf_pcie_preinit.
SetupProto ==
    /\ SetupStep("proto")
    /\ \/ /\ bus' = [bus EXCEPT !.proto = TRUE, !.up = TRUE]
          /\ info' = [info EXCEPT !.mask = TRUE]
          /\ SetupGoes("started") /\ UNCHANGED left
       \/ bus' = [bus EXCEPT !.up = FALSE] /\ SetupFails /\ UNCHANGED info
    /\ UNCHANGED <<was, chip>>

\* brcmf_bus_started: INIT_WORK; or brcmf_detach.
SetupStarted ==
    /\ SetupStep("started")
    /\ \/ bus' = [bus EXCEPT !.func = TRUE] /\ SetupGoes("idle") /\ UNCHANGED left
       \/ bus' = Detached(bus, "attach") /\ SetupFails
    /\ UNCHANGED <<was, info, chip>>

\* The setup failed: brcmf_fw_crashed, then device_release_driver.
SetupFailed ==
    /\ load.pc = "fail" /\ bus.data = "live"
    /\ work' = ScheduleReset(work)
    /\ load' = [load EXCEPT !.pc = "release"]
    /\ UNCHANGED <<bus, info, isr, pm, chip, was, left>>

\* The device was removed under the setup.
SetupGone ==
    /\ load.pc # "idle" /\ bus.data # "live"
    /\ load' = [load EXCEPT !.pc = "idle"]
    /\ was' = [was EXCEPT !.oops = @ \/ load.pc # "release"]
    /\ UNCHANGED <<bus, info, isr, work, pm, chip, left>>

-----------------------------------------------------------------------------
(* The interrupt.                                                          *)

\* brcmf_pcie_quick_check_isr.
QuickCheck ==
    /\ info.irq /\ info.mask /\ chip.ints # {} /\ isr.pc = "idle"
    /\ info' = [info EXCEPT !.mask = FALSE]
    /\ isr' = [isr EXCEPT !.pc = "woken"]
    /\ UNCHANGED <<bus, load, work, pm, chip, was, left>>

\* The thread takes the status and clears it.
IsrStatus ==
    /\ isr.pc = "woken"
    /\ isr' = [isr EXCEPT !.pc = IF "fn0" \in chip.ints THEN "mail" ELSE "rx", !.status = chip.ints]
    /\ chip' = [chip EXCEPT !.ints = {}]
    /\ UNCHANGED <<bus, info, load, work, pm, was, left>>

\* brcmf_pcie_handle_mb_data: read and cleared, then bit by bit.
IsrMail ==
    /\ isr.pc = "mail"
    /\ chip' = [chip EXCEPT !.dtoh = {}]
    /\ isr' = [isr EXCEPT !.mail = chip.dtoh, !.pc = IF "ds" \in chip.dtoh THEN "dsread" ELSE "acks"]
    /\ UNCHANGED <<bus, info, load, work, pm, was, left>>

\* brcmf_pcie_send_mb_data of the deep sleep answer: wait for an empty mailbox ...
IsrDsRead ==
    /\ isr.pc = "dsread"
    /\ \/ chip.htod = "none" /\ isr' = [isr EXCEPT !.pc = "dswrite"] /\ UNCHANGED left
       \/ chip.htod # "none" /\ isr' = [isr EXCEPT !.pc = "acks"] /\ Spend("timeouts")
    /\ UNCHANGED <<bus, info, load, work, pm, chip, was>>

\* ... and write: another sender may have come first.
Post(m) == /\ chip' = [chip EXCEPT !.htod = m]
           /\ was' = [was EXCEPT !.overwritten = @ \/ chip.htod # "none"]
IsrDsWrite ==
    /\ isr.pc = "dswrite" /\ Post("dsack")
    /\ isr' = [isr EXCEPT !.pc = "acks"]
    /\ UNCHANGED <<bus, info, load, work, pm, left>>

\* D3 acknowledged; the firmware halted: brcmf_fw_crashed.
IsrAcks ==
    /\ isr.pc = "acks"
    /\ info' = [info EXCEPT !.completed = @ \/ "d3ack" \in isr.mail]
    /\ work' = IF "halt" \in isr.mail /\ bus.data = "live" THEN ScheduleReset(work) ELSE work
    /\ was' = [was EXCEPT !.haltbad = @ \/ ("halt" \in isr.mail /\ bus.data # "live"),
                          !.again = IF "halt" \in isr.mail THEN Again ELSE @]
    /\ isr' = [isr EXCEPT !.pc = "rx", !.mail = {}]
    /\ UNCHANGED <<bus, load, pm, chip, left>>

\* The doorbell of the rings: tested, ...
IsrRx ==
    /\ isr.pc = "rx"
    /\ isr' = [isr EXCEPT !.pc = IF "d2h" \in isr.status /\ info.state = "up" THEN "trigger" ELSE "test"]
    /\ UNCHANGED <<bus, info, load, work, pm, chip, was, left>>

\* ... and brcmf_proto_msgbuf_rx_trigger uses the protocol.
IsrTrigger ==
    /\ isr.pc = "trigger"
    /\ was' = [was EXCEPT !.rxbad = IF bus.proto THEN @ ELSE @ \cup {bus.took}]
    /\ isr' = [isr EXCEPT !.pc = "test"]
    /\ UNCHANGED <<bus, info, load, work, pm, chip, left>>

\* The state is tested, and then the mask is set.
IsrTest ==
    /\ isr.pc = "test"
    /\ isr' = [isr EXCEPT !.pc = IF info.state = "up" THEN "enable" ELSE "idle", !.status = {}]
    /\ UNCHANGED <<bus, info, load, work, pm, chip, was, left>>
IsrEnable ==
    /\ isr.pc = "enable"
    /\ info' = [info EXCEPT !.mask = TRUE]
    /\ was' = [was EXCEPT !.late = @ \/ info.state # "up"]
    /\ isr' = [isr EXCEPT !.pc = "idle"]
    /\ UNCHANGED <<bus, load, work, pm, chip, left>>

-----------------------------------------------------------------------------
(* The reset work: brcmf_pcie_reset.                                       *)

WorkGoes(p) == work' = [work EXCEPT !.pc = p]

ResetBegins ==
    /\ work.pc = "idle" /\ work.queued
    /\ work' = [pc |-> "detach", queued |-> FALSE]
    /\ info' = [info EXCEPT !.mask = FALSE]
    /\ was' = [was EXCEPT !.reset = TRUE]
    /\ UNCHANGED <<bus, load, isr, pm, chip, left>>

ResetDetach ==
    /\ work.pc = "detach" /\ WorkGoes("release")
    /\ bus' = Detached(bus, "reset")
    /\ UNCHANGED <<info, load, isr, pm, chip, was, left>>

\* brcmf_pcie_release_irq waits for the thread; the buffers; the chip is reset.
ResetRelease ==
    /\ work.pc = "release" /\ (info.irq => isr.pc = "idle") /\ WorkGoes("load")
    /\ info' = [info EXCEPT !.irq = FALSE, !.rings = FALSE, !.scratch = FALSE, !.mask = @ /\ ~info.irq]
    /\ chip' = NoChip
    /\ UNCHANGED <<bus, load, isr, pm, was, left>>

\* The firmware is asked for again.
ResetLoad ==
    /\ work.pc = "load" /\ WorkGoes("idle")
    /\ \/ load' = [load EXCEPT !.asked = @ + 1] /\ UNCHANGED left
       \/ UNCHANGED load /\ Fault
    /\ UNCHANGED <<bus, info, isr, pm, chip, was>>

-----------------------------------------------------------------------------
(* Under the device lock: suspend, resume, remove.                         *)

\* brcmf_bus_change_state: ignored while nothing is attached.
BusState(up) == IF bus.drvr THEN [bus EXCEPT !.up = up] ELSE bus

PmGoes(p) == pm' = [pm EXCEPT !.pc = p]

MutEnterD3 ==
    /\ pm.pc = "idle" /\ ~pm.asleep /\ bus.data = "live" /\ bus.func /\ load.pc = "idle" /\ load.asked = 0
    /\ Spend("sleeps")
    /\ PmGoes("informread")
    /\ bus' = [bus EXCEPT !.up = FALSE]
    /\ UNCHANGED <<info, load, isr, work, chip, was>>
\* brcmf_pcie_pm_enter_D3 of a running device.
EnterD3 ==
    /\ pm.pc = "idle" /\ ~pm.asleep /\ bus.data = "live" /\ bus.func /\ load.pc = "idle" /\ load.asked = 0
    /\ Spend("sleeps")
    /\ PmGoes("informread")
    /\ bus' = BusState(FALSE)
    /\ info' = [info EXCEPT !.completed = FALSE]
    /\ UNCHANGED <<load, isr, work, chip, was>>

\* The mailbox is polled; a full one is given up after a second.
InformRead ==
    /\ pm.pc = "informread"
    /\ \/ chip.htod = "none" /\ PmGoes("informwrite") /\ UNCHANGED left
       \/ chip.htod # "none" /\ PmGoes("informed") /\ Spend("timeouts")
    /\ UNCHANGED <<bus, info, load, isr, work, chip, was>>
InformWrite ==
    /\ pm.pc = "informwrite" /\ Post("d3") /\ PmGoes("informed")
    /\ UNCHANGED <<bus, info, load, isr, work, left>>

D3Acked ==
    /\ pm.pc = "informed" /\ info.completed
    /\ info' = [info EXCEPT !.state = "down"]
    /\ pm' = [pm EXCEPT !.pc = "idle", !.asleep = TRUE]
    /\ UNCHANGED <<bus, load, isr, work, chip, was, left>>

\* No answer in time: the bus is up again, the firmware is told nothing.
D3Timeout ==
    /\ pm.pc = "informed" /\ ~info.completed /\ Spend("timeouts")
    /\ bus' = BusState(TRUE)
    /\ PmGoes("idle")
    /\ was' = [was EXCEPT !.timedout = TRUE]
    /\ UNCHANGED <<info, load, isr, work, chip>>

\* The sleeping device loses its power.
PowerLost ==
    /\ pm.pc = "idle" /\ pm.asleep /\ chip.firm # "off" /\ Spend("faults")
    /\ chip' = NoChip
    /\ UNCHANGED <<bus, info, load, isr, work, pm, was>>

\* brcmf_pcie_pm_leave_D3: the firmware still runs, or all is done again.
Cleanup == /\ info' = [info EXCEPT !.ci = FALSE]
           /\ pm' = [pc |-> "stop", next |-> "probe", asleep |-> FALSE]
LeaveD3 ==
    /\ pm.pc = "idle" /\ pm.asleep
    /\ \/ chip.firm # "off" /\ PmGoes("wakeread") /\ UNCHANGED info
       \/ chip.firm = "off" /\ Cleanup
    /\ UNCHANGED <<bus, load, isr, work, chip, was, left>>
WakeRead ==
    /\ pm.pc = "wakeread"
    /\ \/ chip.htod = "none" /\ PmGoes("wakewrite") /\ UNCHANGED <<info, left>>
       \/ chip.htod # "none" /\ Cleanup /\ Spend("timeouts")
    /\ UNCHANGED <<bus, load, isr, work, chip, was>>
WakeWrite ==
    /\ pm.pc = "wakewrite" /\ Post("d0")
    /\ info' = [info EXCEPT !.state = "up", !.mask = TRUE]
    /\ bus' = BusState(TRUE)
    /\ pm' = [pm EXCEPT !.pc = "idle", !.asleep = FALSE]
    /\ UNCHANGED <<load, isr, work, left>>

\* A load is under way: nothing makes the removal wait for it.
Raced == was' = [was EXCEPT !.raced = @ \/ load.pc \notin {"idle", "fail", "release"} \/ load.asked > 0]

\* brcmf_pcie_remove, by the user or by a failed setup.
Remove ==
    /\ pm.pc = "idle" /\ ~pm.asleep /\ bus.data = "live"
    /\ \/ Spend("removes") /\ UNCHANGED load
       \/ load.pc = "release" /\ load' = [load EXCEPT !.pc = "idle"] /\ UNCHANGED left
    /\ pm' = [pm EXCEPT !.pc = "stop", !.next = "none"]
    /\ UNCHANGED <<bus, info, isr, work, chip, was>>

\* The state first, then the mask (while there is a chip).
RemoveStop ==
    /\ pm.pc = "stop" /\ PmGoes("sync")
    /\ info' = [info EXCEPT !.state = "down", !.mask = @ /\ ~info.ci]
    /\ Raced /\ UNCHANGED <<bus, load, isr, work, chip, left>>

\* synchronize_irq waits for the thread.
RemoveSync ==
    /\ pm.pc = "sync" /\ (info.irq => isr.pc = "idle") /\ PmGoes("cancel")
    /\ UNCHANGED <<bus, info, load, isr, work, chip, was, left>>

\* brcmf_bus_cancel_reset_work: no more requests, and the one there is drained.
RemoveCancel ==
    /\ pm.pc = "cancel" /\ PmGoes("cancelled")
    /\ bus' = [bus EXCEPT !.removing = TRUE]
    /\ work' = [work EXCEPT !.queued = FALSE]
    /\ UNCHANGED <<info, load, isr, chip, was, left>>

\* brcmf_detach and brcmf_free; the bus structures are freed.
RemoveFree ==
    /\ pm.pc = "cancelled" /\ work.pc = "idle" /\ PmGoes("release")
    /\ bus' = [Detached(bus, "remove") EXCEPT !.data = "freed", !.drvr = FALSE, !.func = FALSE]
    /\ info' = [info EXCEPT !.arrays = @ - (IF info.arrays > 0 THEN 1 ELSE 0)]
    /\ Raced /\ UNCHANGED <<load, isr, work, chip, left>>

\* brcmf_pcie_release_irq, the buffers, the chip; after a cold resume, probe.
RemoveRelease ==
    /\ pm.pc = "release" /\ (info.irq => isr.pc = "idle")
    /\ \/ /\ pm.next = "probe" /\ Probed /\ UNCHANGED <<was, left>>
       \/ /\ pm.next = "probe" /\ Fault
          /\ bus' = [bus EXCEPT !.data = "freed"]
          /\ info' = NoInfo /\ chip' = NoChip /\ UNCHANGED <<load, was>>
       \/ /\ pm.next = "none"
          /\ bus' = [bus EXCEPT !.data = "none"]
          /\ info' = [NoInfo EXCEPT !.arrays = info.arrays] /\ chip' = NoChip
          /\ UNCHANGED <<load, was, left>>
    /\ pm' = [pc |-> "idle", next |-> "none", asleep |-> FALSE]
    /\ UNCHANGED <<isr, work>>

-----------------------------------------------------------------------------
(* The firmware.                                                           *)

Says(mail, int) == chip' = [chip EXCEPT !.dtoh = @ \cup mail, !.ints = @ \cup {int}]
Firmware == UNCHANGED <<bus, info, load, isr, work, pm, was>>

\* It reads its mailbox.
FirmReads ==
    /\ chip.firm \in {"run", "d3"} /\ chip.htod # "none"
    /\ chip' = CASE chip.htod = "d3" -> [chip EXCEPT !.htod = "none", !.firm = "d3",
                                                     !.dtoh = @ \cup {"d3ack"}, !.ints = @ \cup {"fn0"}]
                 [] chip.htod = "d0" -> [chip EXCEPT !.htod = "none", !.firm = "run"]
                 [] OTHER -> [chip EXCEPT !.htod = "none"]
    /\ Firmware /\ UNCHANGED left
FirmDoorbell == chip.firm = "run" /\ Spend("doorbells") /\ Says({}, "d2h") /\ Firmware
FirmDeepSleep == chip.firm = "run" /\ Spend("deepsleeps") /\ Says({"ds"}, "fn0") /\ Firmware
FirmHalts ==
    /\ chip.firm = "run" /\ Spend("halts")
    /\ chip' = [chip EXCEPT !.firm = "halted", !.dtoh = @ \cup {"halt"}, !.ints = @ \cup {"fn0"}]
    /\ Firmware

PcieNext ==
    \/ Probe \/ FwDone \/ SetupBoot \/ SetupShared \/ SetupRings \/ SetupScratch \/ SetupIrq \/ SetupProto \/ SetupStarted
    \/ SetupFailed \/ SetupGone \/ BusResetWrite
    \/ QuickCheck \/ IsrStatus \/ IsrMail \/ IsrDsRead \/ IsrDsWrite \/ IsrAcks \/ IsrRx \/ IsrTrigger
    \/ IsrTest \/ IsrEnable
    \/ ResetBegins \/ ResetDetach \/ ResetRelease \/ ResetLoad
    \/ EnterD3 \/ InformRead \/ InformWrite \/ D3Acked \/ D3Timeout \/ PowerLost
    \/ LeaveD3 \/ WakeRead \/ WakeWrite
    \/ Remove \/ RemoveStop \/ RemoveSync \/ RemoveCancel \/ RemoveFree \/ RemoveRelease
    \/ FirmReads \/ FirmDoorbell \/ FirmDeepSleep \/ FirmHalts

PcieSpec == PcieInit /\ [][PcieNext]_pcieVars

-----------------------------------------------------------------------------
(* Properties.                                                             *)

\* Once the removal has drained the reset work none is armed or runs any more,
\* whoever crashes or writes (core.c, above brcmf_bus_schedule_reset).
ResetDrained ==
    /\ pm.pc \in {"cancelled", "release"} => ~work.queued
    /\ (pm.pc = "release" \/ bus.data # "live") => work.pc = "idle" /\ ~work.queued

\* The interrupt thread meets a protocol that is gone only when a reset or a
\* failed attach took it away, never a removal, and a halt finds the bus freed only when a thread that had
\* tested the state before the removal cleared it set the mask again, or the
\* removal raced a firmware load (brcmf_pcie_isr_thread, brcmf_pcie_remove).
IsrOutlived ==
    /\ was.raced \/ was.rxbad \subseteq {"reset", "attach"}
    /\ was.haltbad => was.late \/ was.raced

Settled == /\ bus.data = "live" /\ bus.func /\ bus.proto /\ isr.pc = "idle" /\ pm.pc = "idle"
           /\ work.pc = "idle" /\ load.pc = "idle" /\ load.asked = 0

\* A device that is up and that nobody works on hears the firmware, unless a
\* second reset was asked for while the first was under way
\* (brcmf_pcie_isr_thread, brcmf_pcie_reset).
NotDeaf == (Settled /\ info.state = "up" /\ ~pm.asleep /\ ~was.again) => info.mask /\ info.irq

\* Host and firmware agree on D3: a suspend that succeeded was acknowledged, and
\* after a resume the firmware hears of D0, unless an earlier suspend had timed
\* out, another sender overwrote the message, the power was lost or a reset ran
\* (brcmf_pcie_pm_enter_D3, brcmf_pcie_pm_leave_D3).
SleepAgreed ==
    /\ (pm.asleep /\ pm.pc = "idle" /\ ~was.timedout /\ ~was.reset) => chip.firm \in {"d3", "off"}
    /\ (Settled /\ ~pm.asleep /\ chip.htod = "none" /\ ~was.timedout /\ ~was.overwritten) => chip.firm # "d3"

\* A removed device holds nothing: no buffers, no interrupt, and no array of
\* flow rings but those a reset left behind, unless it raced a firmware load
\* (brcmf_pcie_remove).
PcieGivesBack ==
    (bus.data = "none" /\ ~was.raced) =>
        /\ ~info.irq /\ ~info.rings /\ ~info.scratch /\ ~info.mask /\ ~bus.drvr
        /\ ~was.reset => info.arrays = 0
=============================================================================
