# Verification of the MacBook Pro 14,x Linux drivers

This directory holds a TLA+ development beside the code of the repository:
modules that model the drivers, TLC configurations that check them on small
instances, and proofs checked by TLAPS. `PROJECT.json` lists the components,
the runs, the source lines of every definition, the hazards the properties are
aimed at, the findings and the theorems.

## 1. The system

The repository packages Linux support for one family of machines. Three parts
are programs of their own, running in the kernel:

| Part | Directory | What it is |
|---|---|---|
| FaceTime HD camera | `camera/src` | PCI driver: boots a firmware in the camera's ISP, talks to it over rings in device memory, offers a V4L2 video device |
| Touch Bar and light sensor | `touchbar/src` | HID drivers behind the iBridge: mode and brightness of the Touch Bar, ambient light sensor |
| Wi-Fi (BCM4350) | `wifi-bcm4350/src` | `brcmfmac` for one more chip: message rings over PCIe, flow control, firmware commands, cfg80211 |

The rest installs them: build scripts, DKMS, packages for two distributions,
udev rules, a firmware extractor, the Touch ID port (an upstream program with
patches) and audio and Wi-Fi set-up scripts. It has no state of its own beyond
files on disk and is not modelled.

### 1.1 Camera

State: a table of *channels*, each a ring of 64-byte entries in the ISP's
memory whose ownership bit says who may touch an entry; an allocator for that
memory; an IOMMU table; per video buffer a *context* with a state; format,
frame rate and controls; and the driver's private data, made by probe and
freed by remove, suspend, or a failing step.

Operations and who performs them:
- threads of applications: open, close, set format, request buffers, queue,
  start, stop; each becomes vb2 callbacks under `vb2_queue_lock` and firmware
  commands on the `io` channel;
- the interrupt handler and the work it schedules: reads the status word,
  wakes the waiters of outgoing channels, receives on incoming ones;
- the firmware: answers commands, returns buffers, asks for shared memory;
- the PCI core: probe, remove, suspend, resume.

Hard: commands time out and their answers arrive later; ring entries are
written under one lock and waited for under none; buffer contexts are changed
by the interrupt work and by the application's thread without a lock; status
bits are set while they are being cleared; every step of probe can fail.

Correct means: an answer reaches the command it belongs to; nothing the
firmware may write to is freed or somebody else's; a buffer is given back once;
no interrupt is lost; no freed state is used; frames fit their buffers.

### 1.2 Touch Bar and light sensor

`apple-ibridge.c` splits one HID device into virtual ones and forwards
callbacks to the drivers of the Touch Bar (`apple-ib-tb.c`) and of the light
sensor (`apple-ib-als.c`). The Touch Bar driver keeps the current and the
*pending* mode and display state, the keys that are down and how they were
translated, timeouts, and a count of power references kept by hand. Input
events, sysfs writes and power management change what is pending under
`tb_lock`; one delayed work sends it to the device with the lock released. The
light sensor driver keeps the sensitivity it last sent.

Hard: the worker's decisions are carried out after the lock is released;
cancelling work that already runs; two interfaces suspended one after the
other; transfers that fail; sysfs and HID events without a common lock.

Correct means: the device ends up in the mode the settings and the keys ask
for; no key stays down; references balance; nothing runs without its
interfaces; the sensor has the sensitivity that suits the brightness.

### 1.3 Wi-Fi

`brcmfmac` talks to a firmware. Over PCIe the host and the device share
*common rings* with a read and a write index each (`commonring.c`, `pcie.c`);
`msgbuf.c` runs the protocol on them (commands, received packets and events,
flow rings for transmission); `flowring.c` keeps the queues in front of flow
rings; `fwil.c` serialises firmware commands; `fweh.c` queues events for the
handlers; `core.c` keeps the network interfaces; `cfg80211.c`, `p2p.c`,
`pno.c` and `btcoex.c` implement what user space asks for; `firmware.c` and
`chip.c` find and start the firmware. `sdio.c`, `bcmsdh.c`, `usb.c`, `bcdc.c`
and `fwsignal.c` are the same for the other buses.

Its state, and who changes it:
- rings, flow rings and their queues: the transmit path, two workers, the
  interrupt thread and the firmware;
- the tables of firmware signalling (packet hanger, power-save queues of each
  station, credits of each fifo): the transmit path, the dequeue worker, the
  bus's completions and the firmware's signals, under one spin lock;
- the state of a bus: PCIe (loader, interrupt thread, reset work, the holder of
  the device lock, firmware), SDIO (data worker, interrupt, watchdog, freezer,
  senders, the command that waits), USB (senders, completions, suspend);
- interfaces, the scan in progress, the connection, access points, scheduled
  scans, the coexistence session: user calls under cfg80211's lock, the event
  worker and timers, which take none;
- the request for firmware files and the parsed NVRAM: the loader.

Hard: indices cached on both sides; one shared buffer and one completion for
all commands, with a timeout; four threads around one queue with no lock; rings
deleted while packets for them are under way; packets given back by a station
that fell asleep; a lock dropped around the bus; sequence numbers that wrap;
suspends, resets and removals at any point; one refused command among twenty;
firmware events that race with user requests and with timers.

Correct means: messages are read once, in order, and not overwritten; answers
go to their commands; packets, credits and requests are conserved; a stopped
interface is started again; nothing that could be sent waits; after a removal
nobody touches the device; what the driver believes of the firmware (link,
keys, elements, power, offload, parameters) is so; scans, connections and
dialogues with user space end exactly once.

## 2. Modules

A module models one component. `MC<module>` instantiates it where a
configuration needs defined values; modules whose constants are numbers and
model values are run directly. Six MC modules put components that share no
state side by side in one run: `MCFthdCamera` (`FthdLifecycle`, `FthdIommu`,
`FthdFormat`), `MCAppleIbridge` (`AppleAls`, `AppleTb`), `MCBrcmTransmit`
(`BrcmFlowring`, `BrcmSubmitRing`, `BrcmFws`, `BrcmReorder`), `MCBrcmMsgbuf`
(`BrcmCompletionRing`, `BrcmIoctl`, `BrcmFlowring`), `MCBrcmControl`
(`BrcmScan`, `BrcmVif`, `BrcmConnect`, `BrcmAp`, `BrcmPno`, `BrcmBtcoex`) and
`MCBrcmBus` (`BrcmPcie`, `BrcmSdio`, `BrcmSdioRx`, `BrcmUsb`, `BrcmFirmware`).
`MCAppleIbridge` and
`MCBrcmControl` extend one of them (`AppleTb`, `BrcmVif`) and instantiate the
others, so that its properties and theorems need no prefix. Their variable
`part`, chosen in the initial state, says which component takes the steps of a
behaviour; the others stay in their initial states, or, where that saves time,
their variables hold no value. The states are then the
sum and not the product of the components', and nothing is lost, as no action
and no property of one mentions a variable of another. Fairness is asked only
of the component that moves. Each proof module extends the module it is
about, or the MC module in which that is a part. An operator that a mutant of a
property uses stands in front of the one it replaces and says what it changes. Names follow the source; fields of C structures are variables or
functions over the things that have the structure. Where a lock is held across
several statements these are one action; where it is not, each access to
shared state that another thread can see is an action of its own. A crash
(null or freed pointer) is a state the model can reach (`crashed`, `fault`,
`dead`), in which it stops.

### 2.1 `FthdIspCmd`: commands to the camera's firmware
`fthd_isp_cmd`, `fthd_isp_debug_cmd`, `fthd_channel_ringbuf_send`,
`fthd_channel_wait_ready` and the allocation of request objects, for any number
of callers on a ring of `Size` entries. `Send` allocates, writes and posts
under the ring's lock, `Ring` is the doorbell under its own lock, `WaitReady`,
`GiveUp` (timeout or signal) and `Finish` are the wait and what follows. The
firmware takes entries in ring order and answers into the object it was given.
The ring index advances before the ownership bit is examined, as in the code,
so a send that fails moves it too; properties say what survives that.

### 2.2 `FthdStream`: the life of a video buffer
The vb2 callbacks of `fthd_v4l2.c` with the contexts `h2t_bufs`, one thread at
a time, against `fthd_buffer_return_handler` in the interrupt work. Sends are
split where the interrupt work can come between. One failure (of a send, a
mapping, a start or a stop) may be injected anywhere. `stop_streaming` waits
with the queue lock held and no timeout; the states in which it waits for ever
are reached and named by `BufferReturns`.

### 2.3 `FthdIrq`: interrupts
`fthd_irq_handler`, `fthd_irq_work`, `fthd_handle_irq` and the handlers of the
four incoming channels. Status word, clear register, the bridge's latch and
enable words are separate variables written one at a time, and the firmware
posts entries and sets bits between any two of them.

### 2.4 `FthdLifecycle`: probe, remove, suspend and resume
The steps of `fthd_pci_probe` are a table (what they take, what undoes them);
an error at any of them runs the code's own error path. Applications open and
close; PCI calls happen in the order the core makes them. `drvdata` may point at
freed memory, as in the code.

### 2.5 `FthdIommu` and `FthdFormat`
`FthdIommu` maps scatter-gather lists into the device's page table with the
code's roundings; `FthdFormat` follows a frame size through `TRY_FMT`,
`S_FMT`, `queue_setup` and the crop computation of `fthd_start_channel`, with
the code's integer divisions, alignments and bounds.

### 2.6 `AppleTb`: the Touch Bar driver
All of `apple-ib-tb.c` that changes state: HID events of the Touch Bar's keys,
input events of the keyboard, sysfs stores, the delayed work with its two
transfers, probe and remove per interface, suspend, resume and reset-resume.
Time is counted in ticks since the last event, up to `MaxIdle`, beyond which no
timeout tells values apart.

### 2.7 `AppleAls`: the light sensor behind the iBridge
Sensitivity table and hysteresis of `apple-ib-als.c`; a HID event or a sysfs
access is three steps (compute, send, note), as no lock covers them.
`reset_resume` goes through `appleib_forward_int_op` of `apple-ibridge.c`.

### 2.8 `BrcmCommonring`, `BrcmSubmitRing`, `BrcmCompletionRing`: the common rings
`BrcmCommonring` has what both kinds share: the depth and the wrapping index.
`commonring.c` with the PCIe callbacks: reserve one or many, cancel, complete,
the host's stale copy of the read index, and the device reading at any moment;
and the read half used by `brcmf_msgbuf_process_rx`, which hands slots back
every `Thrs` messages. A message is its number, so loss, duplication and
reordering are visible.

### 2.9 `BrcmIoctl`: firmware commands
`fwil.c`'s `proto_block` mutex around `brcmf_msgbuf_query_dcmd`: one input
buffer, one completion flag, response buffers with packet ids. The interrupt
thread's stores are separate steps. A wait that times out leaves the request
behind (`timeouts`), and so does a doorbell not rung because the device has just
been put to sleep (`missed`): `Submit` writes the index and rings or fails at
either, and the last `unseen` requests of the ring are shown with the next one.

### 2.10 `BrcmFlowring`: transmission
`flowring.c` and the transmit half of `msgbuf.c`: look-up, creation, queueing
and blocking in the transmit path; the create worker; the txflow worker; the
firmware's answers; deletion of a ring. A request to create or delete a ring is
written like a command: it may be seen at once, stay in the control ring though the
driver counts it as sent (`Sent`, `unseen`), or be reported as failed, with nothing
written or with the request in the control ring and its ring removed (`NotSent`,
`stray`). A destination has a ring of the same
name; the hash and the address modes are left out.

### 2.11 `BrcmScan`: scanning
`cfg80211.c`'s scan state (`scan_request`, `int_escan_map`, the bits of
`scan_status`, the timer and its work) has no lock of its own. Three threads
use it: the user's (operations of cfg80211, one at a time under the wiphy's
lock), the event worker, and the timer's work. `brcmf_notify_escan_complete`,
which each of them can run, is six steps: read the request, clear it, stop the
timer, abort in the firmware, report, clear the bit. `owner` is the request
cfg80211 waits for, and the firmware has one scan engine. Left out: what is
scanned and found, scans for action frames, and the tests of the vif in front
of a scan (not ready, connecting), which refuse it without a change of state.

### 2.12 `BrcmVif`: virtual interfaces
A user adds, changes or deletes an interface by arming the wait, sending the
command, waiting with a timeout and disarming (`cfg80211.c`, `p2p.c`);
`fweh.c`'s worker handles the events one by one and makes or removes the
objects of `core.c`. Users hold the rtnl lock throughout, the worker only to
unregister a device, so both run at once. A request, the vif allocated for it,
the firmware's interface and the `brcmf_if` made for that have the same number:
a vif bound to somebody else's interface is visible. Accidents (a timeout, a
refused command, an interface the firmware removes on its own) are counted.
`stray` notes that the driver has given up an interface the firmware keeps, or
left a removal to a user who waits for something else; `late` that the worker
came to an interface after the user was done with it. `old` is the firmware
whose events for the P2P device look like those for TDLS. Left out: the primary
interface, a second P2P connection, the wait for `vif_disabled`, the monitor.

### 2.13 `BrcmFws` and `BrcmReorder`: firmware signalling
`fwsignal.c`. The driver's state is one record (`fws`), because its handlers are
built from calls that each change several parts of it; the spin lock makes every
handler one step, except where the code drops it around `brcmf_proto_txdata`.
The dequeue worker does, so `worker` has a place for each fifo (`raw` without
credits, `own`, `borrow`) and for the packet it has handed to the bus. And
`brcmf_fws_tim_update` does, in the middle of whatever handler reports an asleep
station's traffic at once: `fws.tim` has the packet of traffic bits of the sender
and of the thread of the firmware's signals, each of which goes on with its own
packet when it has the lock back (`TimTaken`, `TimRefused`, `TimReturns`). The
bus passes on in order; `firm.told` is what the firmware was last told. The
firmware keeps what it got, delivers per station and fifo in order, gives back
what a station that fell asleep did not get (its generation has changed), in
any order, and owes credits. Packets are numbered in the order of their queueing.
`BrcmReorder` is `brcmf_fws_rxreorder` with its ring of slots; the window of the
firmware, which tells where a packet belongs, is external.

### 2.14 `BrcmPcie`: the PCIe bus
Probe, the loader with `brcmf_pcie_setup` and a failure at any of its stages,
the interrupt thread (mask, mailbox, rings, unmask), both mailbox words, deep
sleep and the D3 handshake with its timeout, the hot and the cold resume, the
reset work, and removal, which waits for the reset work. `info` is the
driver's structure, `left` what was freed or released.

### 2.15 `BrcmSdio` and `BrcmSdioRx`: the SDIO bus
`BrcmSdio` has the data worker, `brcmf_sdio_dpc`, both kinds of interrupt, the
watchdog that puts the bus to sleep, the freezer of system suspend, the transmit
queue with its precedences and flow control, the send window and control frames
with their timeout. What runs while the host is claimed is one step.
`BrcmSdioRx` has the reading itself: read-ahead, descriptors and superframes,
refusals (NAK) and what is sent again.

### 2.16 `BrcmUsb`: the USB bus
The download of the image in chunks that are never a multiple of 64 bytes, the
two lists of requests with the flow limits, the one control request, suspend,
resume, up and down. `brcmf_usb_sync_complete` looks at no status, so a failed
chunk counts as sent (`SendBulk`) and a failed read gives what its buffer held
(`Junk`). A reset-resume and the disconnection are not in it.

### 2.17 `BrcmFirmware`: files and NVRAM
The chain of requests (`brcmf_fw_get_firmwares`, board files before the chip's,
optional items, what is held and released), and the parser of `firmware.c` as a
function from token sequences to the image, against a reference that reads the
text line by line (`Assigned`, `Fitting`, `ForDevice`). A token has a width in bytes, so that the lengths the code computes are
exact. The two forms with several devices in one file are in it.

### 2.18 `BrcmConnect`: connections
The calls are sequences of commands, the event worker between any two of them;
`sme` is cfg80211's own state, `fw` the firmware's connection. An event carries
the number of the call it belongs to, and `late` notes that an event of an
earlier call changed something.

### 2.19 `BrcmAp`: access points
An operation is a sequence of commands computed from the settings, and one step
that says how many were obeyed: cfg80211's lock keeps operations apart and no
event changes this state. `ap` is what the driver believes, `dev` what the
firmware has.

### 2.20 `BrcmPno` and `BrcmBtcoex`
`BrcmPno`: requests in an array whose indices are the buckets the firmware names;
the merged configuration is computed as in the code (greatest common divisor of
the periods, ends of the channel lists), and the offload is torn down and built
again command by command. `BrcmBtcoex`: the state machine of `btcoex.c` with its
timer, its work and the user's calls as three threads without a lock.

## 3. Runs

Each run is one question. `pass`: TLC finds no error. `violation`: the property
states what a comment or a document of the repository says, and TLC finds a
behaviour of the code that breaks it; section 3.2 quotes the line.

### 3.1 What each run checks

| Run | Configuration | Properties | Shows |
|---|---|---|---|
| `cmd` | `FthdIspCmd.cfg` | `NoStrandedCommand`, `FirmwareMemoryLive`, `HonestResult`, `Answered` | Two callers on a two-entry command ring, every timeout, signal and overflow included: which guarantees of the ring survive which accident; and with a working firmware a posted command ends without needing its timeout. |
| `stream` | `FthdStream.cfg` | `BuffersOwned`, `BufferReturns` | Two buffers, three contexts, an application that queues, dequeues, starts, stops and releases as it likes, one failure anywhere: who owns a buffer, and who finishes it. It may stop: the stop that waits for a buffer never sent is a state TLC reaches. Every buffer given to the driver comes back, with the three exceptions BufferReturns names. |
| `irq` | `FthdIrq.cfg` | `ReceivedOnce`, `Served` | Three channels, two of them on one source bit, rings of one and two entries: the firmware posts and raises at every point of the interrupt work; nothing is lost, received twice or skipped; once it pauses, every message is given back and every waiter whose answer came is woken. |
| `tb` | `AppleTb.cfg` | `DeviceKnown`, `Prompt`, `KeysReleased` | One touch bar key, the Fn key and other input, and one accident (a sysfs write, a failed transfer, a suspend or a removal of an interface), against the worker at every point where it holds no lock: a pending command is never left waiting, no key sticks, power references balance, the driver's idea of the device stays right, the worker never runs without its interfaces, and no marker value is sent. |
| `ibridge` | `AppleIbridge.cfg` | `Follows`, `NoFlapping`, `TouchBarFollows` | The two sub-drivers side by side. Light sensor: two sysfs users, events and a reset, with brightness below, between, inside and above the ranges; the sensitivity follows the brightness without flapping wherever nobody raced. Touch Bar: with no timeouts, or dimmed after one tick and off after two, and across a suspend: mode and display end up as the Fn key and the settings ask, and an idle bar goes off and stays off. |
| `als_resume` (violation) | `AppleAlsResume.cfg` | `ReportsAfterResume` | The iBridge forwards reset_resume to the Touch Bar only: the light sensor stays unconfigured. |
| `camera` | `FthdCamera.cfg` | `StateLives`, `TableRight`, `FrameRight` | Three parts of the camera driver side by side. Life: three lives of the private data, two applications, a failure at any call of probe, suspends, resumes and unbinding at any point; when freed state can be used, and what is given back. IOMMU: three buffers of one or two segments, whole pages and fractions, mapped and freed in every order in a small table; the device sees the live buffers' pages and nothing else. Format: three sensors, known at probe, at the first stream or never, and requested sizes around every bound; the crop window is legal, undistorted and never enlarged, and frames fit their buffers. The histories end with the last life, so the run may stop. |
| `life_resume` (violation) | `FthdLifecycleResume.cfg` | `ResumeSafe` | A resume that fails after drvdata was set frees the private data and leaves drvdata pointing at it; the next suspend or remove uses it. |
| `msgbuf` | `BrcmMsgbuf.cfg` | `NothingLost`, `CommandsSeparate`, `NobodyWaits`, `StopEnds` | Three parts of the message-buffer protocol side by side, with the fairness of threads and firmware. A completion ring of six slots handed back two at a time, the device writing at any moment: messages are handled once, in order, none is overwritten, and none is left behind at the wrap. Commands: two callers, three commands, two response buffers, up to two waits that give up and one request whose index or doorbell the sleeping device misses, with the interrupt thread's stores and the callers' reads in every order: commands get their own answer, with their own input, and buffers are conserved until a request is left behind; the count of posted buffers stays true even then. Flow rings: with a slow firmware, a ring that cannot be created, a peer that leaves, a deletion that fails and a request the firmware is not shown or that stays behind when its ring is removed, a stopped interface is started again; two packets meet all that, and three when nothing fails or leaves. Nobody waits for ever: every completion is handled, a command always returns, every queued packet leaves its queue unless a request was not shown. Commands and packets are used up in the end, so the run may stop. |
| `transmit` | `BrcmTransmit.cfg` | `NothingOverwritten`, `PacketsAccounted`, `RingLife`, `FwsKept`, `FwsSent`, `ReorderRight` | Four parts of the data path, side by side. Two flow rings of one interface, three packets, two packet ids, one failure (which may be a request the sleeping device is not shown, or left in the control ring when its ring is removed) and one peer that leaves, all threads interleaved: packets are conserved, a ring in use has memory and a true count, nothing is posted to a closing ring, memory is freed once, and only a packet between look-up and queueing can meet a deleted ring. A submission ring of 16 slots, 20 messages, reservations of every size, cancels, flushes and reads in every order, with the bus going down and up: the device reads every message once, in order, and no unread slot is reused. Firmware signalling: two stations, two fifos and multicast, three packets and four steps that may be upsets (failures, suppressions, sleeps, signals, a deletion), with the worker interrupted wherever it drops the lock: packets, hanger slots, transit counts and credits stay in step, suppressed packets wait in order and a station gets its packets in order when their statuses come so, and the worker does not rest on one it could send. Reordering: seven packets in a window of two over four slots, with holes, moves and the end of the flow in every legal order: handed up once and in order. The packets are used up in the end, so the run may stop. |
| `control` | `BrcmControl.cfg` | `ScanEnds`, `HostFollows`, `ConnectAgrees`, `ApFollows`, `PnoRight`, `CoexBack` | Six parts of the control path side by side. Scanning: two requests of cfg80211, a hit of a scheduled scan with its internal scan, one operation that ends a scan, the timer and its work, all interleaved; a request is reported once and never left without something that ends it, except in the races named. Interfaces: two requests of any kind with two accidents (timeouts, refused commands, removals nobody asked for); the driver's interfaces follow the firmware's, no vif leaks, and freed memory is used only as named. A connection: four calls, seven kinds of security, a refused command and an event nobody expects, the worker between any two commands; driver, firmware and cfg80211 agree when all is handled. Access points: four operations on two interfaces, or on a group with and without the feature of protected frames, one of some twenty commands refused; radio, protection, keys and elements are what the driver believes. Scheduled scans: three requests for two buckets, a refused command, hits, a suspend; the offload is that of the requests there are and a hit finds its request. Bluetooth coexistence: five calls against timer and work; the firmware gets its parameters back. Calls are used up in the end, so the run may stop. |
| `bus` | `BrcmBus.cfg` | `SdioSent`, `SdioPrompt`, `SdioFrames`, `UsbPools`, `PcieRemoved`, `PcieAgrees`, `FilesRight` | The three buses and the files of a device, side by side. PCIe: probe, firmware load, setup with a failure at any stage, interrupts, a firmware that halts, resets, two suspends and a removal, five such events in any order. SDIO: the worker, both interrupts, the watchdog, senders, a command and a suspend, with a window of three frames at the wrap of its numbers. SDIO receiving: four frames and two faults, read ahead or not, superframes included. USB: the download of an image in chunks, four packets, two commands, suspends and a fault. Files: requests of up to three items for up to two boards, and some two hundred and fifty NVRAM texts, character by character. Each bus keeps, sends and gives back what it should, and the image holds what its text says. Events are used up in the end, so the run may stop. |

### 3.2 Findings

- **ReportsAfterResume** (`code_bug`, run `als_resume`, `src/touchbar/src/apple-ibridge.c:115`): appleib_forward_int_op leaves its loop with an unconditional break after the first sub-device (src/touchbar/src/apple-ibridge.c:115), so appleals_reset_resume is never called and the sensor does not report after a reset; its comment (src/touchbar/src/apple-ibridge.c:87) says "Forward a hid-driver callback to all drivers on all virtual HID devices attached to the given real HID device."
- **ResumeSafe** (`code_bug`, run `life_resume`, `src/camera/src/fthd_drv.c:408`): fthd_pci_init sets drvdata and no error path of fthd_pci_probe clears it; the driver core does so when a probe fails, but not when fthd_pci_resume fails: the freed fthd_private is read by the next fthd_pci_suspend or fthd_pci_remove. The comment in fthd_pci_suspend says it would refuse (src/camera/src/fthd_drv.c:535) "transition instead of risking a use-after-free on resume".

### 3.3 Theorems

| Module | Theorem | States |
|---|---|---|
| `FthdIspCmdProofs` | `TypeCorrect` | Every variable keeps its type. |
| `FthdIspCmdProofs` | `NoStrandedCommandHolds` | Until a send overflows the ring, no posted command is hidden from the firmware's in-order scan, whatever the ring size and the number of callers. |
| `FthdIspCmdProofs` | `OwnResponseHolds` | An answered caller finds its own answer in its entry unless at least Size sends have passed it by. |
| `FthdIspCmdProofs` | `FirmwareMemoryLiveHolds` | Every entry in the firmware's hands names a live request object, unless its own command gave up or was a power-down. |
| `FthdIspCmdProofs` | `ExecutedOnceHolds` | A successful wait means the command was executed; it is executed twice only after an entry was orphaned. |
| `FthdIspCmdProofs` | `HonestResultHolds` | The status read by a caller is the one the firmware gave to its own command, late answers to abandoned commands included, until the ring overflows. |
| `AppleIbridgeProofs` | `ComputeSuits` | For every brightness and every current sensitivity, appleals_compute_sensitivity returns a table entry that suits the brightness, and leaves a suitable one alone. |
| `AppleIbridgeProofs` | `SensTypeCorrect` | The driver's fields keep their ranges, and no request carries the dynamic marker, for any users, brightness values and bounds. |
| `AppleIbridgeProofs` | `SensitivityFollows` | In dynamic mode the sensor has the sensitivity the driver notes, and it suits the reported brightness, unless threads raced or the device was reset. |
| `AppleIbridgeProofs` | `FixedStays` | In fixed mode the sensor has the hysteresis the user set, unless threads raced or the device was reset. |
| `AppleIbridgeProofs` | `NeverFlaps` | While events are reported a sensitivity is replaced only when the brightness has left its range. |
| `BrcmTransmitProofs` | `PacketsAccountedHolds` | For any number of rings, packets, failures and deletions every packet is queued, in a thread's hands, in a ring, with the firmware or freed, until a deletion gives up its wait or a ring is removed with its request in the control ring. |
| `BrcmTransmitProofs` | `RingLifeHolds` | A flow ring has its memory and a true outstanding count from creation to deletion, nothing is posted in a closing ring, and a ring that is gone is met only by a packet between look-up and queueing; a ring removed with its request in the control ring loses this, no other ring does. |
| `BrcmTransmitProofs` | `TypeCorrect` | No index of a submission ring leaves it, for every depth. |
| `BrcmTransmitProofs` | `NeverOverwrites` | Every message written and not yet read stays in its slot, for every depth and any number of messages, although room is judged from a stale read index. |
| `BrcmTransmitProofs` | `ReadsInOrder` | The device reads every message once and in order. |
| `BrcmTransmitProofs` | `ShowsOnlyFilled` | The published write index never passes a slot that is reserved and not filled. |
| `BrcmMsgbufProofs` | `TypeCorrect` | The read index and the run being handled stay inside the ring, for every depth and threshold. |
| `BrcmMsgbufProofs` | `NeverLoses` | No completion is overwritten before it is handled, although slots are handed back in the middle of a run. |
| `BrcmMsgbufProofs` | `HandlesInOrder` | Completions are handled once each and in order. |
| `BrcmMsgbufProofs` | `CommandsSeparateHolds` | For any number of callers, response buffers and packet ids: until a request is left behind, by a timeout or a doorbell not rung, each command returns its own answer and its own input is read; response buffers are conserved and counted. |
| `FthdIrqProofs` | `TypeCorrect` | The work's loop index and every ring index stay in range, for any channels and ring sizes. |
| `FthdIrqProofs` | `NoInterruptLost` | A message in a ring, and an answer somebody sleeps for, always have the work coming to their channel, although status and latch are cleared while the firmware sets bits. |
| `FthdIrqProofs` | `RingsInStep` | No message is received out of order or hidden behind an empty entry. |
| `FthdIrqProofs` | `MemoryAgrees` | Each shared-malloc request is carried out once: the driver's objects are those the firmware has or is giving back. |
| `FthdIrqProofs` | `ReceivedOnceHolds` | All the run checks of the interrupt code, and that its "irq stuck" exit is dead. |
| `AppleIbridgeProofs` | `TypeCorrect` | Modes, displays, times and the positions of worker and power management keep their types, for any keys and settings. |
| `AppleIbridgeProofs` | `PromptHolds` | A pending command is queued or being carried out: it waits for no timer and no event. |
| `AppleIbridgeProofs` | `KeysReleasedHolds` | Every key that is down for the input layer is held and was translated as it will be when it goes up. |
| `AppleIbridgeProofs` | `DeviceKnownHolds` | The driver knows what the device was last told, through transfers that race with updates, two suspends, resumes and removals; power references balance. |
| `FthdStreamProofs` | `TypeCorrect` | No index leaves h2t_bufs and count stays in range, for any number of buffers and contexts. |
| `FthdStreamProofs` | `BuffersOwnedHolds` | Callbacks and interrupt work keep to the buffers that are theirs, whatever fails. |
| `FthdStreamProofs` | `ListOnceHolds` | As long as no send, start or stop failed, the firmware has the list of a buffer at most once, whatever else fails. |
| `FthdStreamProofs` | `NoFailureNoHarm` | Without a failure no thread follows a null pointer, nothing is completed twice, and vb2 counts every buffer the firmware has as active. |
| `BrcmControlProofs` | `CoexBackHolds` | Every coexistence session ends and gives the firmware its parameters back, for any number of calls and of refused reads and writes, but for a group of parameters the firmware refused to tell or to take back. |
| `BrcmControlProofs` | `ScanEndsHolds` | A scan is reported once, and until then something is left that ends it, for any interleaving of user, event worker and timer. |
| `BrcmVifProofs` | `HostFollowsHolds` | When all events are handled the driver has the firmware's interfaces, no vif is leaked, and a freed one is used only after an accident, for any number of interfaces, users' operations and failures. |

## 4. Bounds

Bounds are constants with names (`MaxFaults`, `MaxMsgs`, `MaxTimeouts`, ...)
and guard the actions that consume them; nothing else cuts the state space.
- Two callers, users or rings are enough for every race in the code: no
  critical section distinguishes a third party, and rings are chosen smaller
  than what two callers can fill so that overflow happens.
- Counters that the code lets run on (failures, suspends, sysfs writes) allow
  one or two accidents: the properties say what one accident may do; two
  independent ones are allowed where their combination matters
  (`MaxTimeouts = 2` in `BrcmIoctl`).
- `BrcmSubmitRing` has 16 slots and 20 messages, so that indices wrap and
  reservations straddle the wrap; `BrcmCompletionRing` 6 slots and 14 messages
  with slots handed back two at a time. Both are proved for every depth.
- `BrcmIoctl`'s `NrPktids = 4` lets the packet ids go round once within a
  behaviour of three commands, one of whose doorbells may not be rung
  (`MaxMissed = 1`); the code has about a thousand ids. What may happen after a
  request was left behind is in section 7; the theorem holds for every number.
- `BrcmFlowring` scales the thresholds 1024/768/96/32/512 to 2/1/2/2/3, which
  keeps every threshold reachable with three packets, as do two packet ids; in
  the liveness run (`msgbuf`) the first and the third are 1, so that a stop comes
  sooner and a second packet wakes nobody, and a behaviour has two packets with a
  failure and a deletion or three (`CalmPkts`) with neither. Two of its assumptions
  are constants: `Pktids` (the pool is shared by all rings) and `SlowFirmware`
  (the firmware's answer to a ring's creation comes after the packet that
  caused it was queued, a few instructions later in the same function). The
  safety run `transmit` makes neither assumption; liveness needs both, because a
  packet put back for want of an id, or queued after the answer, waits for the
  next packet or status of its own ring.
- `AppleTb` allows one accident among sysfs writes, suspends, removals and
  failed transfers (`MaxAccidents`), each of them at any point; `Params` are
  the settings in force when the module is loaded. With two accidents at once
  the run does not end in reasonable time.
- `FthdIrq` has an outgoing and two incoming channels, the latter on one source
  bit, and the code's own limit of 500 rounds.
- The debug channel (`DebugChannel`) uses the same functions as the command
  channel and differs in the commands it carries and in the status it ignores;
  the theorems of `FthdIspCmdProofs` hold for both, TLC runs the command
  channel.
- `BrcmScan` has two requests, so that a completion of the first can meet the
  second, one hit of a scheduled scan and one operation that ends a scan. No
  command fails except for a firmware that is busy, which takes the same path.
- `BrcmVif` has two requests and two accidents: mixing up two requests takes a
  timeout and a second request. Three requests with two accidents, checked once
  on their own, show nothing else.
- `BrcmFws`: two station entries and the interface's, two fifos and multicast,
  credit 1 (a fifo borrows, and multicast goes out past its credit until the
  firmware announces credits for it, so two packets of a fifo are in flight),
  four hanger slots of which round robin uses
  three, a free-running number modulo 8, `FwsSteps = 4` packets and upsets.
  `BrcmReorder`: four slots, a window of two, seven packets, so that the ring
  wraps.
- `BrcmSdio`: numbers modulo 16 (256 in the code), a window of three and a
  reserve of two for control frames, a queue of two, and a budget of four for
  packets, commands, ticks, a suspend and a failure together; the first window
  lies at the wrap. The interrupt out of band and the chip that saves its state when
  asleep do not depend on each other; the run has both or neither. `BrcmSdioRx`: numbers modulo 4, four frames, two faults,
  `RxLeft = 3` frames per turn.
- `BrcmUsb`: an image of six units in chunks of four, where a multiple of two
  stands for one of 64 bytes; four packets, two commands, three suspends or
  resumes, one fault; the chunks of a download may fail, and its answers be junk,
  as often as they like.
- `BrcmPcie`: five events in all (`Allowed.all`), of each kind those it names;
  two suspends because a late acknowledgement of one counts for the next.
- `BrcmFirmware`: up to three items and two boards, one failure; texts of two
  lines, the first out of twelve and the second out of three, and seven texts of
  several devices, with every end of line, NULs and newlines in turn, and without the
  last end; an image of 70 bytes so that one text does not fit.
- `BrcmConnect`: two access points, four calls, a refused command and an event
  nobody expects: a stale event needs a call before and one after it.
  They are interchangeable (`ApSymmetry`; all properties of the run are invariants).
  `BrcmAp`: four operations, one refused command; a P2P group on firmware with and
  without FEAT_MFP, two access points on firmware with it, since the guards on the
  feature are in what both have in common. `BrcmPno`: three requests for
  two buckets. `BrcmBtcoex`: five calls, one refused read or
  write of a group of parameters.
- Where a promise is off for good (`BrcmScan` once the start of a scan has met a
  completion, or both `raced` and `mixed` hold; `BrcmFws` once the interface is deleted) the behaviour is not
  followed further.
- The largest runs are `bus` (2.7 million states), `control` (2.1 million) and
  `transmit` (1.8 million); with two workers no run takes much more than three
  minutes, statistics of coverage aside.

`CHECK_DEADLOCK FALSE` is set where the system may stop: bounded histories
that end (packets, lives, commands used up), or a stop that waits for ever in
the code (`FthdStream`).

## 5. Fairness

Fairness is weak unless said otherwise and always on what the kernel or the
device guarantees: a work that is queued runs, a thread holding a lock goes on,
a timer that has expired is served, the firmware works through what it was
given. There is none on users, on failures, or on packets being sent.
- `FthdIspCmd`: the firmware, and each caller's own steps, what follows a failed
  wait included. The wait's timeout itself (`WaitFails`) is not fair: `Answered`
  rests on the firmware's answer alone.
- `FthdStream`: the application's call in progress, the interrupt work, and
  strongly each return of a buffer: streaming firmware returns every buffer it
  holds sooner or later, also when it is stopped and restarted in between.
- `FthdIrq`: handler, work, and the firmware's raising of a bit for an entry it
  has written.
- `AppleTb`: worker, clock, and the power-management core's current step.
- `MCBrcmMsgbuf`: for the part that moves, the driver's threads and the firmware's
  reading and answering, each of them once for all rings or callers and not for
  every ring. The timeout of a command is not fair. What is asked for is bounded,
  so that `NobodyWaits` can ask for all waits to be over at once.
- Everything else is checked for safety only. What must eventually happen on the
  buses and in signalling is stated as an invariant of the states in which every
  thread rests (`NoStall`, `NothingWaits`, `Listens`, `NotDeaf`): there nothing
  that could go on may be left. This needs no fairness and does not hide a
  wake-up that is lost.

## 6. Proofs

All proofs are from the assumptions about their constants that the modules, or the
MC modules that instantiate them, state (`ASSUME`, evaluated by TLC in the runs): no bound on callers, ring sizes,
messages, brightness values or users.

`FthdIspCmdProofs`. `NoStrandedCommand` is not inductive: it speaks of ring
positions between the firmware's index and the driver's. The strengthening
relates every entry to the caller that posted it (who owns it, in which phase
it is, which object it names), the distance between the two indices to the
number of entries the firmware owns, and history variables (which entries were
orphaned, how often a position was passed) to the phases. Wrap-around is the
hard case: the proof splits on which side of the wrap an entry lies. From the
one invariant follow `OwnResponse` (a caller finds its own answer unless `Size`
sends passed it), `FirmwareMemoryLive`, `ExecutedOnce` and `HonestResult`.

`AppleIbridgeProofs`, light sensor (`AppleAls` under the name `A`, as `MCAppleIbridge`
instantiates it). `ComputeSuits` shows for every brightness and sensitivity
that the table look-up returns an entry that suits, and leaves a suitable one
alone; the invariant says what a thread carries between compute, send and note
and that without a race at most one thread carries anything. The theorems are about the
specification of the run: the Touch Bar's steps leave the sensor's variables alone.

`BrcmTransmitProofs`, flow rings. `PacketsAccounted` counts packets over all rings;
eight actions move one packet each, and a deletion frees a whole queue. `FlowInv` says in which phase of
its life each ring is and which thread or request moves it to the next (`Phases`):
that a ring asked for is still there when the answer comes, so that its memory is
freed once; that a ring which the firmware does not serve is empty (`Drained`), so
that configuring it anew loses nothing; and that a ring found gone was deleted
(`GoneByDeletion`). A request counts wherever it is, shown to the firmware or not
yet, and is in one place (`Asked`, `Once`). Nothing of this holds of a ring that was
removed with its request in the control ring (`stray`): the parts speak of the
others, and what such a ring may do to them is `SentFacts`, `NotSentFacts` and
`DeleteFacts`. `Total` is a fold of the community modules over the rings.
The lemma `TotalChange` says that changing one entry changes the sum by the
difference, for any finite set of rings: `SumExists` builds the fold's recursive
function by a least counterexample over cardinalities, without induction, since
the library's induction theorems cannot be cited.

`BrcmTransmitProofs`, submission ring. `RingInv` writes every index as a count of messages
modulo the depth and orders the counts: read by the device, as known to the
host, published, filled, reserved, at most `Depth - 1` apart. "Nothing is
overwritten" follows because two counts less than `Depth` apart have different
slots. A cancel at slot zero needs the fact that a reservation never straddles
the end.

`BrcmMsgbufProofs`, completion ring. The same with the run being handled
between the index given back and the one last read from the device.

`BrcmMsgbufProofs`, commands. `CommandsSeparate` says what a caller sees and what
the firmware reads; the state that carries it is spread over eight shared
variables. `IoctlInv` has three parts. Always: types, that only the holder of
the mutex is between taking it and returning, and the count of response buffers.
While no request was left behind (`Separate`; no wait has timed out and no doorbell
was missed, `NoneLeft`): there is exactly one request when
somebody waits and none otherwise, it is in the control ring, in the completion
ring or in the interrupt thread's hands, and every allocated buffer is with the
firmware, on its way back, or about to be freed. While the packet ids have not
gone round (`Fresh`): ids are given out in order, so the one a late answer names
is not in use again. The lemmas on `Rank` say that the search round the array
meets every free id once; they need cardinalities of sets of ids.

`FthdIrqProofs`. `IrqInv` says where the loop index may be (the nested loop over
channels and rounds), that a ring's messages are the entries from the driver's
index to the firmware's (`RingsSpan`, split on which index is larger and on full
or empty), that a set latch means a set status bit, and that a set status bit
always has the work coming (`StatusHeard`). The hard step is the acknowledgement:
the status is cleared before the latch, and the firmware may set a bit between.
The number of objects is a cardinality; `FreesFinite` keeps it meaningful.

`AppleIbridgeProofs`, Touch Bar, about `AppleTb`'s own specification. Three layers: where worker, suspending thread and delayed work
are with respect to each other (`WorkerShape`, `PmShape`, `FlushShape`); one part
for each promise (`PromptInv`, `PowerInv`, `KeyInv`); and `KnownInv`, which follows
what the device was told through a transfer that races with an update, the two
suspends, and the reset. `DeviceKnown` speaks of the states in which nothing is
pending; the invariant has to say for every other state what is about to be known.

`FthdStreamProofs`. `BuffersOwned` follows from three parts: one that always
holds, one that holds while no send, start or stop has failed (`Owned`: a list is
with the firmware once, and belongs to a buffer the driver owns), and one that
holds while moreover no frame came back before `start_streaming` had marked it
(`InOrder`). `First` is a CHOOSE of the smallest match; that it exists is the
well-foundedness of the natural numbers.

`BrcmControlProofs`. `CoexInv` says where a session is and what ends it, which
copy of a parameter group holds the firmware's own values, and what is true until
a call overlaps the end of a session. `ScanInv` says what each thread carries
between reading `scan_request` and acting on it, and keeps apart the three races
the property names (`raced`, `mixed`, `crossed`).

`BrcmVifProofs`. `HostFollows` (`Matching`, `Paired` and `NoFault` together)
speaks of the states in which everybody rests; `VifInv` has to say for all others
what is under way. Until a fault: what the user's operation holds (`UserShape`); that
the list, the interfaces and the vifs point at each other (`Listing`, `Pairing`); that
an interface still to be announced is new and announced once (`News`); that the queue,
taken together, tells what the firmware has (`Told`); that an announcement nobody
waits for takes a timeout, and one timeout leaves one of them (`Belatedly`,
`OneLate`). While at most one accident happened and nothing was given up (`Sound`)
each slot has the firmware's interface, or news of it is queued, or its interface is
being removed (`Follows`). Without any accident vif and interface have the same number
and the worker removes nothing (`Clean`): that is why there is no fault then. `Sound`
excludes two interfaces bound to one vif of which the first will be removed
(`Doomed`), which an accident can bring about and which resolves itself into `stray`.
What the invariant says of the queue is put into sets per slot (`Comes`, `Leaves`,
`Latest`, `Asked`, `Finals`), and five lemmas say how an event that comes in or is
handled changes those, so that no action's proof reasons about positions. TLC checked
`VifInv` in all states of the run before it was proved; `VifAssumption` says
that the number for "none" is no request's and no slot's.

Proved as parts or consequences of these invariants, and so not listed in a run
of their own: the type invariants of the modules, `OwnResponse`,
`ExecutedOnce`, the sensor's `FixedKept`, `DeviceReadsInOrder`,
`OnlyFilledShown`, `HandledInOrder`, `ListOnce` and `NoFailureNoHarm`.

In `MCBrcm...` modules the theorems are about the composed specification; each
part's invariant is kept by the steps of the other parts because they leave its
variables alone. `BrcmVifProofs` is about `BrcmVif`'s own specification, whose steps
are those of the part "vif".

Proving changed the model or its properties in these places:
- `BrcmIoctl`'s `TypeOK` said that the firmware's buffers are allocated and
  different. That is not so for every pool: see section 7 (`PostedOnce`).
- `Prompt` has an exception for a display update left over by a removal with a
  key down, which the settings the run used before could not reach.
- `BrcmVif` did not say that the worker, replacing an interface, may free the vif
  that somebody waits for, and that a user may then free or follow it again: an
  inductive invariant for `HostFollows` fails there. Those steps are faults now
  (`AddEvent`, `AddRefused`, `AddDone`, `Held`, `DelEnd`).
- `FthdStream` counts how often the firmware has a list instead of noting that it
  has it: with a set, giving a list twice would not have shown.

Out of the prover's reach and left to TLC: every liveness property (they need
fairness). Only model-checked so far, and proved nowhere: the properties of the
modules of section 2 that section 3.3 does not name; the plan says which come next.

## 7. Observations

Met while modelling, besides the findings of section 3.2. Names are those of the
modules; a run's property is often the conjunction of several, named where it is
defined. For example `OwnAnswer`, `InputIntact` and `NoLeakWithoutTimeout` are
parts of `CommandsSeparate`, `PowerBalanced` of `DeviceKnown`, `FrameFits` of
`FrameRight`, `ReportedOnce` of `ScanEnds`, and `NoFault` of `HostFollows`. The properties are
stated so that they hold with these behaviours; where a property has an
exception, this is why.

Camera:
- `fthd_drv.c:235` counts rounds in `i`, which the loop over the channels
  inside also uses: the limit of 500 is never reached, and the "irq stuck" exit
  is dead code (`NeverUninstalled`, a part of `ReceivedOnce`, says so).
- `fthd_drv.c:112`: a shared-malloc request of size 0, or one whose allocation
  fails, is not given back, and the loop receives it again for ever
  (`Blocked` in `FthdIrq`). `fthd_isp.c:63` follows a null pointer when the
  range cannot be allocated (`AllocCrashes`).
- `fthd_v4l2.c:274`: the loop of `start_streaming` counts skipped contexts, so
  a queued context above a gap is not sent, and `stop_streaming` waits for it.
- `fthd_v4l2.c:518`: `S_FMT` is accepted while buffers are allocated
  (`FrameFits`). `fthd_v4l2.c:773` returns 0 after an error of the control
  handler: probe succeeds without a video device.

Touch Bar and light sensor:
- `apple-ib-tb.c:467`: input between the worker's decision to turn the display
  off and its command does not turn it on again, although line 80 says "as soon
  as new input is received".
- `apple-ib-tb.c:392`: a transfer that failed for good is not tried again when
  no timeout is set. `KnowsDevice`, `Prompt` and the liveness properties
  therefore except failures.
- `apple-ib-tb.c:1251`: the work flushed by suspend re-arms itself, so work can
  be pending while the device is switched off.
- `apple-ib-tb.c:382` and `:1189`: after a resume two power references are taken
  and one given back; after a removal `tb_autopm_off` stays set and the next
  binding takes none (`PowerBalanced` speaks of the time before).
- `apple-ib-tb.c:1297`: a key held at suspend counts as pressed afterwards
  (`missed`). `:1027`: removing a suspended device does not unregister the
  input handler; this combination is not in the model.
- `apple-ib-tb.c:1027`: removing the driver with a key down keeps the key in
  `keys`. With a setting that turns the display off, the update of the next
  probe then stays pending until that key's next event (an exception of `Prompt`).
- `modprobe.d/mbp-t1-touchbar.conf:3` says fnmode 0 is "media/special keys";
  the code shows function keys.
- `apple-ib-als.c:213`: two threads at once can leave the sensor with a
  sensitivity the driver does not know (`raced`). `:333` divides by a sampling
  frequency of 0, and `apple-ibridge.c:385` returns the entry in front of the
  array when a sub-device cannot be added; neither is in the model.

Wi-Fi:
- `msgbuf.c:507`: the answer to a command that timed out completes the next one,
  with its own data; its response buffer is never freed. `OwnAnswer`,
  `InputIntact` and `NoLeakWithoutTimeout` hold while no request is left behind. When
  the ids have gone round meanwhile, that command frees an id which was given
  out again and whose buffer the firmware still has (`PostedOnce`).
- `msgbuf.c:470`: `brcmf_commonring_write_complete` returns -EIO when the device
  was put to sleep after the bus check of `fwil.c:102` (`pcie.c:1044`, `:1061`),
  but the request is in the control ring and is shown with the next one. Its
  answer then completes that command, without a timeout (`missed` in
  `BrcmIoctl`). An index that could not be written before a doorbell that could is
  not noticed at all (`pcie.c:1044`: nobody looks at the result): that command
  waits until the next one, or its time runs out (`CommandUnseen`, an exception of
  `NobodyWaits`).
- `msgbuf.c:639`, `:1460`: on the same error the flow ring is removed and its
  memory freed while its create or delete request stays in the control ring. The
  firmware then opens memory that was freed, or its answer removes the ring a
  second time, or a new ring of that number (`stray` in `BrcmFlowring`). A create
  request it was not shown keeps the ring's packets, and possibly the interface,
  until the next control message (`unseen`, an exception of `StopEnds` and
  `NobodyWaits`). Two requests, or two work items, of one kind for such a
  ring count as one in the model. The index of a flow ring itself is
  taken to be written: what the worker fills in while the device sleeps is shown
  with the ring's next message, and liveness is about a device that is up.
- `flowring.c:264`: a packet between look-up and queueing can meet a ring whose
  deletion was answered meanwhile (`fault` in `BrcmFlowring`).
- `cfg80211.c:1195` says that clearing the request prevents "a double
  cfg80211_scan_done"; two threads that both read it before one clears it
  report it twice (`raced` in `ReportedOnce`).
- `cfg80211.c:3565`: the timer's work, or the firmware's event, of a scan that
  was already ended ends the next one (`crossed`). An internal scan has no
  timer. When `int_escan_map` is set after a request of cfg80211 began, the
  next completion drops that request (`cfg80211.c:3831`, `mixed` in `Guarded`).
- `fweh.c:188`: the worker asks whether somebody waits after it has woken him.
  By then he may have removed the interface and disarmed, and the worker
  removes a freed interface "in case no-one waits" (`late` in `NoFault`).
- `cfg80211.c:6735`: an interface announced after its request timed out is bound
  to the next request's vif. A removal by the firmware while an interface is
  being registered frees it under the user.
- `p2p.c:2214`: after a failure to read the P2P device's index,
  `bss_idx[DEVICE]` keeps the freed vif; and nothing clears
  `bss_idx[CONNECTION]` when the firmware removes the connection.
- `fweh.c:144`: an old firmware's removal of the P2P device is ignored, so that
  deleting it always waits for the timeout. `p2p.c:2393` returns without
  disarming, which the order of calls seems to prevent; not in the model.
- `flowring.c:146` returns -ENOMEM where the caller expects the invalid id.

Wi-Fi, firmware signalling (`BrcmFws`, `BrcmReorder`):
- `brcmf_fws_txs_suppressed` runs after the status has scheduled the worker; with
  explicit credits the status that ends a suppression schedules nothing. Packets
  then wait for the next event (exceptions of `NoStall`).
- Suppressed packets are put in the order of their numbers, as `brcmf_fws_enq`
  says ("Fix out of order delivery of frames"), but only among those queued at
  that time: the worker may send a later one before an earlier one's status is
  there (`shuffled`).
- A roll-back restores neither the counts of the fifo nor the delay bit and TIM
  (`rolled`); one that fails counts the packet out of transit twice. A packet
  whose insertion fails stays in its hanger slot until a clean-up (`lost`). The
  credits of flushed packets are lost, and flushing does not look at flow control.
- A raw packet of before the credit map is never finalised (`lost`).
- A borrowing fifo clears its own credit bit although its own credit came back.
- A descriptor that moves or is added again strands queued packets (`stranded`).
  `core.c:972` deletes the interface's entry before the network device is
  unregistered; packets in between have no entry, and the worker may use the one
  it holds. Both are outside the model, as is `fwsignal.c:1716` (no memory).
- `brcmf_fws_commit_skb` reads the packet after the bus has it, and
  `brcmf_fws_enq` reads the packet it has queued after `brcmf_fws_tim_update`
  dropped the lock; both may have been released by then (`raced`).
- The traffic bits count as reported when they are written into a packet. When the
  bus refuses or loses it nobody reports them again until they change, and of two
  reports made by two threads the older may reach the bus last (`untold`, an
  exception of `TimReported`).

Wi-Fi, SDIO (`BrcmSdio`, `BrcmSdioRx`); the exceptions of `NothingWaits`:
- A failed transfer in the worker zeroes the interrupt status it has read, so a
  frame or a packet waits for the next interrupt (`lost`).
- A suspend that comes while the clock is pending leaves the interrupt filter at
  clock-available only (`caOnly`), and what waits for the clock waits on
  (`pending`).
- A control frame that timed out gives its reserve of the window back without
  triggering the worker (`txtimeout`).
- A firmware that does not answer a NAK stops all reading (`rxskip`).
- The watchdog may get the host between two claims of the worker and put the bus
  to sleep, and the worker does not look whether the device woke (`raced`).
- Also: the reserve of `data_ok` fails at the wrap and with several frames in one
  transfer; a late answer to a command makes the next one drop its own; a packet
  pushed out of the full queue is never completed (`evicted`); resuming does not
  start the watchdog's timer; `pending` in the interrupt worker is read
  uninitialised when its first read fails.
- A superframe without its descriptor leaks its packets; events inside a failed
  superframe are not asked for again; `rd_new` is used uninitialised when a
  superframe's header fails.

Wi-Fi, USB (`BrcmUsb`):
- `ctl_op` stays set after a control transfer that timed out, and every later
  command fails with -EIO. A write counts as done whatever its status.
- A download that times out leaves its request running while the buffer is freed.
  The status of a download's requests is not looked at: a chunk that failed counts
  as sent, and the loop then asks for the state for ever; a read that failed is
  taken from an uninitialised buffer (`junk`), so that the driver may send on over
  a lost chunk or start an image the boot loader has not accepted (`guess`).
- A submission refused while the flow is blocked can leave it blocked; failed or
  empty receive requests are refilled only by resume or up; a sender past its
  check may submit after stop. `reset_resume` runs the second phase of probing
  again.

Wi-Fi, PCIe (`BrcmPcie`):
- The reset does not set the state to down, so the interrupt thread unmasks and
  triggers the detached protocol. Removal does not wait for the firmware load
  (`brcmf_pcie_remove`), and a failed probe inside resume leaves `drvdata`
  dangling. A reset during a reset loads the firmware twice.
- `brcmf_pcie_send_mb_data` has no lock: D3_INFORM and the acknowledgement of
  deep sleep overwrite each other.
- A D3 handshake that timed out leaves the firmware in D3, and its late
  acknowledgement counts for the next one. A cold resume skips the masking on
  removal; suspending before setup ended waits on an uninitialised queue; the
  array of flow rings leaks with every reset.

Wi-Fi, files (`BrcmFirmware`):
- A last line without an end whose key the parser knows is taken note of though
  its entry is not in the image (`CutOff`); with a lone "pcie/" line the bound of
  `brcmf_fw_strip_multi_v2` wraps (`wild`). The copies for one of several devices
  have no room for the board revision and MAC address that are added.
- A devpath line among the last 19 bytes is not searched; a version 1 path
  prefix also matches a longer bus number. A later request refused at submission gives up although the
  chip's own file may exist (`quit`).

Wi-Fi, connections (`BrcmConnect`):
- A link-down of before a connect fails the new one, whose success then only sets
  the carrier; the second half of `brcmf_link_down` may wipe the new connection's
  settings; a SET_SSID event after a disconnect turns the carrier on; the end of a
  roam sets CONNECTED although the user has disconnected (all `late`).
- Disconnecting leaves the carrier on and the key in the firmware; a refused
  DISASSOC leaves the firmware connected (`kept`). A failed open leaves READY.
- An ad-hoc network that is not found leaves CONNECTING.
- `cfg80211.c` compares event codes with `&` (`DEAUTH_IND | DISASSOC_IND`), and
  cipher suites too (`brcmf_set_sharedkey`): a WEP key with another cipher is an
  error.

Wi-Fi, access points (`BrcmAp`):
- Stopping a second access point returns early: AP_CREATED and the carrier stay,
  and DOWN takes the first one down too. Only the first WEP key is sent again,
  where the comment at `cfg80211.c:5296` says to reconfigure them. A start that
  fails after DOWN leaves the radio down.
- The saved elements are updated though the firmware refused them; clearing
  forgets the lists for probe requests and association requests without deleting
  them, and those whose deletion the firmware refused. A firmware without
  FEAT_MFP is not told that management frames are to be protected, though the
  settings require it and the start succeeds. A cipher that is not known clears the entry in the table while the
  firmware keeps the key; a failed add leaves the entry.

Wi-Fi, coexistence and scheduled scans (`BrcmBtcoex`, `BrcmPno`):
- A session started between the two stores that end the one before loses its
  interface, which is used later (`crash`); ending DHCP may restore parameters
  while the handler runs (`crossed`). A failed read is saved as the register's
  number ("junk"). Nobody looks at the result of a write: a refused restoring
  write clears the saved flag and leaves the override in the firmware, and the
  next session saves it as the firmware's own (both `hurt`). The SUPPRESS bit stays after a start that was busy.
- A hit that is being reported while a request is stopped may name another
  request (`shifted`). A failed start removes its request without ending the scan
  for its hit. A suspend stops only the request of network detection, and a
  failed internal scan reports request 0 as stopped.

## 8. What is not modelled

- `fthd_ddr.c` and the DDR and PLL part of `fthd_hw.c`: register sequences with
  constants from a trace; a model would repeat the constants.
- The contents of firmware commands (structures in `fthd_isp.h`) except those
  whose sizes a property is about.
- `fthd_debugfs.c` except that its commands use the debug ring.
- Hash table, address modes and TDLS list of `flowring.c`.
- Memory ordering: reads and writes of shared variables are taken in program
  order, which is what the barriers and x86 give for the device memory and the
  locked accesses modelled here.
- `chip.c` and `of.c`, `acpi.c`, `dmi.c`, `common.c`: enumeration of cores,
  register sequences, module parameters and tables of quirks; one thread and no
  state that outlives the call.
- Of the buses: probing, register and memory windows, consoles, the OTP, the
  download over SDIO, and SDIO's out-of-band flow control of old firmwares.
- Of `cfg80211.c`: station queries and events of an access point's stations,
  channel tables and regulatory settings, TDLS, reading keys and default keys,
  and wake-on-WLAN other than network detection.
- `p2p.c`'s action frames and remain-on-channel.
- `vendor.c`, `xtlv.c` and the vendor variants: packing of one call's arguments
  and dispatch tables.
- Failed allocations, except where a property is about them.
- Scripts, packaging, the Touch ID port, audio and Wi-Fi set-up.

## 9. Plan

Done: the modules of section 2. Next:
1. Proofs: the rest of `MCBrcmTransmit` (`ReorderRight`, `FwsKept`), the rest of
   `MCBrcmControl` (`ConnectAgrees`, `ApFollows`), then the buses (`UsbPools`, `PcieRemoved`, `SdioFrames`) and
   `FthdLifecycle` (`StateLives`). `PnoRight` is about greatest common divisors
   computed by recursion over data, and stays with TLC.
2. An abstract FIFO that `BrcmSubmitRing` refines, with the proof.
3. The double report of a scan and the late removal (section 7) as runs of
   their own, quoting the comments they contradict.
4. `BrcmP2p`: action frames with completions and the off-channel window.
