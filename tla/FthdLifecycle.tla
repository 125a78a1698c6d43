--------------------------- MODULE FthdLifecycle ---------------------------
(***************************************************************************)
(* The life of the camera driver's fthd_private (fthd_drv.c): probe with   *)
(* its error paths, remove, and suspend and resume, which are a remove and *)
(* a probe; against applications with the video device open and against    *)
(* the interrupt work.  The calls made by probe are steps of a table.      *)
(*                                                                         *)
(* External: the PCI core, which serialises probe, remove, suspend and     *)
(* resume, freezes tasks while the system sleeps, and clears drvdata when  *)
(* a probe (not a resume) fails.                                           *)
(***************************************************************************)
EXTENDS Naturals, Sequences, FiniteSets

CONSTANTS File,     \* files an application may open
          MaxGen    \* bound on the number of fthd_private objects

ASSUME LifecycleAssumption == MaxGen \in Nat

VARIABLES
    phase,     \* what the PCI core is doing with the driver
    pc,        \* the step of probe, of its error path or of remove
    goal,      \* the phase a failing probe or a remove ends in
    held,      \* what the current fthd_private holds
    live, gen, \* the current fthd_private exists; how many there have been
    drvdata,   \* which one pci_get_drvdata returns (0: NULL)
    users,     \* its users count
    fgen,      \* per file: the fthd_private it was opened on (0: closed)
    busy,      \* per file: inside an ioctl
    work,      \* irq_work
    \* History.
    leaked,    \* what freed objects still held
    accident,  \* what has gone wrong
    dead       \* the kernel used freed memory, or a NULL channel

vars == <<phase, pc, goal, held, live, gen, drvdata, users, fgen, busy, work,
          leaked, accident, dead>>
coreVars == <<phase, pc, goal>>
objVars  == <<held, live, gen, drvdata, leaked>>
userVars == <<users, fgen, busy>>

Res == {"pci", "regions", "maps", "msi", "irq", "iommu", "mem", "queue", "channels",
        "irqen", "video", "debugfs"}

\* The calls of fthd_pci_init, fthd_buffer_init, fthd_hw_init with isp_init,
\* fthd_firmware_start, fthd_v4l2_register and fthd_debugfs_init, what each
\* acquires and the error label of fthd_pci_probe it leads to.
Steps ==
    <<[s |-> "enable",   gain |-> {"pci"},             undo |-> "init"],
      [s |-> "reserve",  gain |-> {"regions", "maps"}, undo |-> "init"],
      [s |-> "msi",      gain |-> {"msi"},             undo |-> "init"],
      [s |-> "irq",      gain |-> {"irq"},             undo |-> "init"],
      [s |-> "dma",      gain |-> {},                  undo |-> "init"],
      [s |-> "buffer",   gain |-> {"iommu"},           undo |-> "pci"],
      [s |-> "ddr",      gain |-> {},                  undo |-> "buffer"],
      [s |-> "mem",      gain |-> {"mem"},             undo |-> "buffer"],
      [s |-> "wake",     gain |-> {"queue"},           undo |-> "buffer"],
      [s |-> "channels", gain |-> {"channels"},        undo |-> "buffer"],
      [s |-> "magic",    gain |-> {"irqen"},           undo |-> "buffer"],
      [s |-> "start",    gain |-> {},                  undo |-> "hw"],
      [s |-> "video",    gain |-> {"video"},           undo |-> "firmware"],
      [s |-> "debugfs",  gain |-> {"debugfs"},         undo |-> "v4l2"]>>
At(s) == phase = "probe" /\ Steps[pc].s = s

UndoLabels   == <<"v4l2", "firmware", "hw", "buffer", "pci", "work">>
RemoveLabels == <<"stop", "irq", "cancel", "uninit">>

TypeOK ==
    /\ phase \in {"none", "probe", "undo", "bound", "remove", "asleep", "failed"}
    /\ CASE phase = "probe"  -> pc \in 1 .. Len(Steps)
         [] phase = "undo"   -> pc \in 1 .. Len(UndoLabels)
         [] phase = "remove" -> pc \in 1 .. Len(RemoveLabels)
         [] OTHER            -> pc = 0
    /\ goal \in {"none", "asleep", "failed"}
    /\ held \subseteq Res /\ leaked \subseteq Res
    /\ live \in BOOLEAN /\ gen \in 0 .. MaxGen /\ drvdata \in 0 .. gen
    /\ users \in 0 .. Cardinality(File)
    /\ fgen \in [File -> 0 .. gen] /\ busy \in [File -> BOOLEAN]
    /\ work \in {"idle", "queued", "running"}
    /\ accident \subseteq {"failure", "unbound", "undone", "resume", "heapless", "controls"}
    /\ dead \in {"no", "freed", "null"}

Init ==
    /\ phase = "none" /\ pc = 0 /\ goal = "none"
    /\ held = {} /\ live = FALSE /\ gen = 0 /\ drvdata = 0
    /\ users = 0 /\ fgen = [f \in File |-> 0] /\ busy = [f \in File |-> FALSE]
    /\ work = "idle" /\ leaked = {} /\ accident = {} /\ dead = "no"

Frozen  == goal # "none" \/ phase = "asleep"
Freed(g) == g < gen \/ ~live
Opened  == {f \in File : fgen[f] = gen /\ gen # 0}
Die(how) == dead' = how /\ UNCHANGED <<coreVars, objVars, userVars, work, accident>>

---------------------------------------------------------------------------
(* fthd_pci_probe, for a new device or (resuming) out of fthd_pci_resume.  *)
Probe(from, to) ==
    /\ phase = from /\ gen < MaxGen
    /\ phase' = "probe" /\ pc' = 1 /\ goal' = to
    /\ gen' = gen + 1 /\ live' = TRUE /\ users' = 0
    /\ UNCHANGED <<held, drvdata, fgen, busy, work, leaked, accident, dead>>

NextStep == {pc + 1}

\* On to step p, or bound after the last.
Advance(p) ==
    /\ phase' = IF p > Len(Steps) THEN "bound" ELSE "probe"
    /\ pc' = IF p > Len(Steps) THEN 0 ELSE p
    /\ goal' = IF p > Len(Steps) THEN "none" ELSE goal

ProbeStep ==
    /\ phase = "probe"
    /\ ~(At("start") /\ "channels" \notin held)
    /\ \E p \in NextStep : Advance(p)
    /\ held' = held \cup Steps[pc].gain
    /\ drvdata' = IF At("dma") THEN gen ELSE drvdata
    /\ UNCHANGED <<live, gen, users, fgen, busy, work, leaked, accident, dead>>

\* heap_size == 0: isp_init returns 0 without channels, and fthd_hw_init goes
\* on to fthd_irq_enable.
NoHeap ==
    /\ At("wake")
    /\ pc' = pc + 3
    /\ held' = held \cup {"queue", "irqen"}
    /\ accident' = accident \cup {"heapless"}
    /\ UNCHANGED <<phase, goal, live, gen, drvdata, userVars, work, leaked, dead>>

\* fthd_isp_cmd with channel_io NULL.
StartWithoutChannels == At("start") /\ "channels" \notin held /\ Die("null")

\* fthd_v4l2_register when the control handler has an error: it undoes its
\* work and returns 0.
NoControls ==
    /\ At("video")
    /\ pc' = pc + 1
    /\ accident' = accident \cup {"controls"}
    /\ UNCHANGED <<phase, goal, objVars, userVars, work, dead>>

\* What a failing call has given back itself: fthd_pci_init everything but
\* the mappings, isp_init (magic) what isp_uninit frees.
SelfUndone ==
    CASE Steps[pc].undo = "init" -> {"pci", "regions", "msi", "irq"}
      [] At("magic")             -> {"mem", "channels"}
      [] OTHER                   -> {}

LabelOf(u) == IF u = "init" THEN 6 ELSE CHOOSE i \in 1 .. 6 : UndoLabels[i] = u

ProbeFail ==
    /\ phase = "probe"
    /\ phase' = "undo" /\ pc' = LabelOf(Steps[pc].undo)
    /\ held' = held \ SelfUndone
    /\ accident' = accident \cup {"failure"}
    /\ UNCHANGED <<goal, live, gen, drvdata, userVars, work, leaked, dead>>

\* The error path of fthd_pci_probe, label by label.
UndoGives == <<{"video"}, {}, {"irqen"}, {"iommu"}, {"irq", "msi", "regions", "pci"}, {}>>

Undo ==
    /\ phase = "undo" /\ pc < 6
    /\ pc' = pc + 1
    /\ held' = held \ UndoGives[pc]
    /\ accident' = IF pc = 1 /\ Opened # {} THEN accident \cup {"undone"} ELSE accident
    /\ UNCHANGED <<phase, goal, live, gen, drvdata, userVars, work, leaked, dead>>

\* fail_work: cancel_work_sync and kfree.
UndoWork ==
    /\ phase = "undo" /\ pc = 6 /\ work # "running"
    /\ work' = "idle"
    /\ phase' = goal /\ pc' = 0 /\ goal' = "none"
    /\ live' = FALSE /\ held' = {} /\ leaked' = leaked \cup held
    /\ drvdata' = IF goal = "none" THEN 0 ELSE drvdata
    /\ accident' = IF goal = "failed" THEN accident \cup {"resume"} ELSE accident
    /\ UNCHANGED <<gen, userVars, dead>>

---------------------------------------------------------------------------
(* fthd_pci_remove.  Out of suspend it leads to "asleep".                  *)

Dangling == drvdata # 0 /\ Freed(drvdata)

Remove(to) ==
    /\ drvdata' = 0
    /\ held' = held \ {"debugfs", "video"}
    /\ phase' = "remove" /\ pc' = 1 /\ goal' = to
    /\ UNCHANGED <<live, gen, userVars, work, leaked, dead>>

\* Unbinding, unloading or shutdown, with files open or not.
Unbind ==
    /\ phase = "bound"
    /\ Remove("none")
    /\ accident' = IF Opened # {} THEN accident \cup {"unbound"} ELSE accident

\* With no drvdata, remove only disables the device.
UnbindEmpty ==
    /\ phase = "failed" /\ drvdata = 0
    /\ phase' = "none"
    /\ UNCHANGED <<pc, goal, objVars, userVars, work, accident, dead>>

\* Mutant: suspend does not look at the users.
MaySuspendAlways == TRUE

\* fthd_pci_suspend refuses while the camera is in use.
MaySuspend == users = 0

Suspend ==
    /\ phase = "bound" /\ \A f \in File : ~busy[f]
    /\ MaySuspend
    /\ Remove("asleep")
    /\ UNCHANGED accident

SuspendEmpty ==
    /\ phase = "failed" /\ drvdata = 0
    /\ phase' = "asleep"
    /\ UNCHANGED <<pc, goal, objVars, userVars, work, accident, dead>>

\* Suspend and remove of a driver whose drvdata was freed.
UseDangling == phase = "failed" /\ Dangling /\ Die("freed")

\* fthd_stop_firmware, fthd_irq_uninstall, cancel_work_sync.
RemoveStop ==
    /\ phase = "remove" /\ pc = 1
    /\ pc' = 2
    /\ UNCHANGED <<phase, goal, objVars, userVars, work, accident, dead>>

RemoveIrq ==
    /\ phase = "remove" /\ pc = 2
    /\ pc' = 3 /\ held' = held \ {"irq"}
    /\ UNCHANGED <<phase, goal, live, gen, drvdata, leaked, userVars, work, accident, dead>>

\* cancel_work_sync waits for a work that runs.
Cancelled == work # "running"

RemoveCancel ==
    /\ phase = "remove" /\ pc = 3 /\ Cancelled
    /\ pc' = 4 /\ work' = IF work = "queued" THEN "idle" ELSE work
    /\ UNCHANGED <<phase, goal, objVars, userVars, accident, dead>>

\* isp_uninit, fthd_hw_deinit, fthd_buffer_exit, the mappings and regions; the
\* objects isp_init made for the firmware's queue, heap and arguments stay.
RemoveGives == {"channels", "mem", "irqen", "iommu", "msi", "maps", "regions", "pci"}

RemoveUninit ==
    /\ phase = "remove" /\ pc = 4
    /\ phase' = goal /\ pc' = 0 /\ goal' = "none"
    /\ live' = FALSE /\ held' = {} /\ leaked' = leaked \cup (held \ RemoveGives)
    /\ UNCHANGED <<gen, drvdata, userVars, work, accident, dead>>

---------------------------------------------------------------------------
(* Applications: fthd_v4l2_open, ioctls that send commands, and            *)
(* fthd_v4l2_release, which a process may call at any later time.          *)

Open(f) ==
    /\ ~Frozen /\ "video" \in held /\ fgen[f] = 0
    /\ fgen' = [fgen EXCEPT ![f] = gen]
    /\ users' = users + 1
    /\ UNCHANGED <<coreVars, objVars, busy, work, accident, dead>>

Ioctl(f) ==
    /\ ~Frozen /\ fgen[f] = gen /\ "video" \in held /\ ~busy[f]
    /\ busy' = [busy EXCEPT ![f] = TRUE]
    /\ UNCHANGED <<coreVars, objVars, users, fgen, work, accident, dead>>

IoctlEnd(f) ==
    /\ busy[f]
    /\ IF Freed(fgen[f])
       THEN Die("freed")
       ELSE /\ busy' = [busy EXCEPT ![f] = FALSE]
            /\ UNCHANGED <<coreVars, objVars, users, fgen, work, accident, dead>>

Release(f) ==
    /\ ~Frozen /\ fgen[f] # 0 /\ ~busy[f]
    /\ IF Freed(fgen[f])
       THEN Die("freed")
       ELSE /\ fgen' = [fgen EXCEPT ![f] = 0]
            /\ users' = users - 1
            /\ UNCHANGED <<coreVars, objVars, busy, work, accident, dead>>

---------------------------------------------------------------------------
(* Interrupts: fthd_irq_handler, and fthd_irq_work, which masks delivery   *)
(* and allows it again at its end.                                         *)

Irq ==
    /\ {"irq", "irqen"} \subseteq held /\ work = "idle"
    /\ work' = "queued"
    /\ UNCHANGED <<coreVars, objVars, userVars, accident, dead>>

WorkRun ==
    /\ work = "queued"
    /\ work' = "running" /\ held' = held \ {"irqen"}
    /\ UNCHANGED <<coreVars, live, gen, drvdata, leaked, userVars, accident, dead>>

WorkEnd ==
    /\ work = "running"
    /\ work' = "idle" /\ held' = held \cup {"irqen"}
    /\ UNCHANGED <<coreVars, live, gen, drvdata, leaked, userVars, accident, dead>>

Next ==
    /\ dead = "no"
    /\ \/ Probe("none", "none") \/ Probe("asleep", "failed")
       \/ ProbeStep \/ NoHeap \/ StartWithoutChannels \/ NoControls \/ ProbeFail
       \/ Undo \/ UndoWork
       \/ Unbind \/ UnbindEmpty \/ Suspend \/ SuspendEmpty \/ UseDangling
       \/ RemoveStop \/ RemoveIrq \/ RemoveCancel \/ RemoveUninit
       \/ \E f \in File : Open(f) \/ Ioctl(f) \/ IoctlEnd(f) \/ Release(f)
       \/ Irq \/ WorkRun \/ WorkEnd
Spec == Init /\ [][Next]_vars

---------------------------------------------------------------------------
(* Freed driver state is used only after the driver was unbound, or a      *)
(* probe failed, under an open file, or after a resume failed; in          *)
(* particular never because the system slept.                              *)
FreedNeedsAccident ==
    dead = "freed" => accident \cap {"unbound", "undone", "resume"} # {}

(* Commands go to channels that exist, unless the firmware asked for no    *)
(* heap: every other way out of isp_init either filled them or failed.     *)
CommandsHaveChannels == dead = "null" => "heapless" \in accident

(* The interrupt work never runs on freed driver state or on freed         *)
(* channels, through remove and through every error path of probe.         *)
WorkHasState ==
    work # "idle" => live /\ ("channels" \in held \/ "heapless" \in accident)

(* A camera that was never refused anything gives everything back when it  *)
(* is removed or put to sleep, but for the firmware's memory objects.      *)
GivesBack == "failure" \notin accident => leaked \subseteq {"queue"}

(* The users count, by which suspend decides, is the number of files open  *)
(* on this fthd_private.                                                   *)
UsersCounted == live => users = Cardinality(Opened)

(* Through probe, its error paths, remove, suspend and resume: the kernel  *)
(* uses freed state or missing channels only after the accidents named     *)
(* above, the interrupt work never; the count by which suspend decides is  *)
(* right; and what was taken is given back (fthd_drv.c).                   *)
StateLives ==
    /\ TypeOK /\ FreedNeedsAccident /\ CommandsHaveChannels /\ WorkHasState /\ UsersCounted
    /\ GivesBack

---------------------------------------------------------------------------
(* The comment in fthd_pci_suspend: "Refuse the transition instead of      *)
(* risking a use-after-free on resume".                                    *)
ResumeSafe == dead = "freed" => accident \cap {"unbound", "undone"} # {}
============================================================================
