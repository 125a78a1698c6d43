----------------------------- MODULE AppleTb -----------------------------
(***************************************************************************)
(* The Touch Bar driver (touchbar/src/apple-ib-tb.c).  Input events, sysfs *)
(* writes and resume decide, under tb_lock, which mode and display the bar *)
(* should have and leave them in pnd_tb_mode and pnd_tb_disp; a delayed    *)
(* work sends them to the device over USB with the lock released, and      *)
(* dims and turns off the display when there has been no input.            *)
(*                                                                         *)
(* Time is counted in ticks.  External: the USB device, the workqueue, the *)
(* input core, and the power-management core that calls suspend and resume *)
(* for the two interfaces one after the other.                             *)
(***************************************************************************)
EXTENDS Integers, FiniteSets

CONSTANTS Key,          \* touch bar keys (slots)
          Translatable, \* those with an entry in appletb_fn_codes
          Idles,        \* idle_timeout values written to sysfs or preset
          Dims,         \* dim_timeout values, -2 for "calculated"
          FnModes,      \* fnmode values
          Params, DefFn,  \* the module parameters: <<idle, dim>>, fnmode
          MaxIdle,      \* bound on the time counted since the last event
          MaxStores, MaxSuspends, MaxRemoves, MaxFails,  \* bounds on each
          MaxAccidents  \* and on all of them together

None == -1              \* no work pending

ASSUME TbAssumption ==
    /\ Translatable \subseteq Key
    /\ Idles \subseteq Int /\ Dims \subseteq Int /\ FnModes \subseteq 0 .. 3
    /\ \A n \in Idles \cup Dims : n >= -2
    /\ Params \subseteq Idles \X Dims /\ DefFn \in FnModes
    /\ {MaxIdle, MaxStores, MaxSuspends, MaxRemoves, MaxFails, MaxAccidents} \subseteq Nat

Iface == {"mode", "disp"}
Mode  == {"ESC", "FN", "SPCL", "OFF", "UPD"}
\* "0" is what kzalloc leaves; no command has that value.
Disp  == {"0", "ON", "DIM", "OFF", "UPD"}

VARIABLES
    hdev,       \* interfaces with a hid device (mode_iface.hdev, disp_iface.hdev)
    suspended,  \* interfaces marked suspended
    active,
    curMode, pndMode, curDisp, pndDisp,
    restore,    \* restore_autopm
    autopmOff,  \* tb_autopm_off
    keys,       \* last_tb_keys_pressed
    xlated,     \* last_tb_keys_translated
    fn,         \* last_fn_pressed
    idleTime,   \* ticks since last_event_time
    idleTimeout, dimTimeout, dimCalc, fnMode,
    due,        \* external: ticks until tb_work runs, 0 queued, None not pending
    \* The worker and its local variables.
    pc, wMode, wDisp, wRestore, rc1, rc2, wNext, wSecs,
    \* The thread that suspends, resumes, removes or probes.
    pm, pmIface, pmMsg, flush,
    \* External.
    devMode, devDisp,  \* what the device was last told
    pmRefs,            \* power references held with hid_hw_power
    held,              \* keys physically down
    fnHeld,            \* so is Fn
    down,              \* key codes the input layer has down
    \* History and bounds.
    offUnder,          \* a key went down when the bar was about to go off
    missed,            \* a key was down when the driver was (de)activated
    stores, suspends, removes, fails

ifVars   == <<hdev, suspended, active>>
cmdVars  == <<curMode, pndMode, curDisp, pndDisp>>
pmVars   == <<restore, autopmOff, pmRefs>>
keyVars  == <<keys, xlated, fn, held, fnHeld, down>>
setVars  == <<idleTimeout, dimTimeout, dimCalc, fnMode>>
workVars == <<pc, wMode, wDisp, wRestore, rc1, rc2, wNext, wSecs>>
thrVars  == <<pm, pmIface, pmMsg, flush>>
devVars  == <<devMode, devDisp>>
histVars == <<offUnder, missed>>
bndVars  == <<stores, suspends, removes, fails>>
vars == <<hdev, suspended, active, curMode, pndMode, curDisp, pndDisp, restore,
          autopmOff, keys, xlated, fn, idleTime, idleTimeout, dimTimeout, dimCalc,
          fnMode, due, pc, wMode, wDisp, wRestore, rc1, rc2, wNext, wSecs, pm, pmIface,
          pmMsg, flush, devMode, devDisp, pmRefs, held, fnHeld, down, offUnder, missed,
          stores, suspends, removes, fails>>

WorkerPc == {"idle", "mode", "disp", "relock", "sched", "timeout", "store"}
PmPc == {"run", "flush", "wait", "offMode", "offDisp", "offStore", "register", "undo",
         "cancel", "quit", "gone"}

Spare == stores + suspends + removes + fails < MaxAccidents

TypeOK ==
    /\ hdev \subseteq Iface /\ suspended \subseteq Iface /\ active \in BOOLEAN
    /\ curMode \in Mode /\ pndMode \in Mode \cup {"NONE"}
    /\ curDisp \in Disp /\ pndDisp \in Disp \cup {"NONE"}
    /\ restore \in BOOLEAN /\ autopmOff \in BOOLEAN
    /\ keys \subseteq Key /\ xlated \subseteq Key /\ fn \in BOOLEAN
    /\ held \subseteq Key /\ fnHeld \in BOOLEAN
    /\ down \subseteq Key \X {"fn", "special"}
    /\ idleTime \in 0 .. MaxIdle
    /\ idleTimeout \in Idles /\ dimTimeout \in Int /\ dimTimeout >= -1 /\ dimCalc \in BOOLEAN
    /\ fnMode \in FnModes
    /\ due \in Nat \cup {None}
    /\ pc \in WorkerPc
    /\ wMode \in Mode \cup {"NONE"} /\ wDisp \in Disp \cup {"NONE"}
    /\ wRestore \in BOOLEAN
    /\ rc1 \in {"skip", "ok", "fail"} /\ rc2 \in {"skip", "ok", "fail"}
    /\ wNext \in {"NONE", "DIM", "OFF"} /\ wSecs \in Nat \cup {None}
    /\ pm \in PmPc /\ pmIface \in Iface /\ pmMsg \in {"suspend", "freeze"}
    /\ flush \in {"done", "queued", "running"}
    /\ devMode \in Mode /\ devDisp \in Disp
    /\ pmRefs \in Int
    /\ {offUnder, missed} \subseteq BOOLEAN
    /\ stores \in 0 .. MaxStores /\ suspends \in 0 .. MaxSuspends
    /\ removes \in 0 .. MaxRemoves /\ fails \in 0 .. MaxFails

\* appletb_alloc_device (kzalloc); the device boots with everything off.
Init ==
    /\ hdev = {} /\ suspended = {} /\ active = FALSE
    /\ curMode = "ESC" /\ pndMode = "ESC" /\ curDisp = "0" /\ pndDisp = "0"
    /\ restore = FALSE /\ autopmOff = FALSE
    /\ keys = {} /\ xlated = {} /\ fn = FALSE
    /\ held = {} /\ fnHeld = FALSE /\ down = {}
    /\ idleTime = 0
    /\ idleTimeout \in {p[1] : p \in Params} /\ dimTimeout = 0 /\ dimCalc = FALSE /\ fnMode = DefFn
    /\ due = None
    /\ pc = "idle" /\ wMode = "NONE" /\ wDisp = "NONE" /\ wRestore = FALSE
    /\ rc1 = "skip" /\ rc2 = "skip" /\ wNext = "NONE" /\ wSecs = None
    /\ pm = "run" /\ pmIface = "mode" /\ pmMsg = "suspend" /\ flush = "done"
    /\ devMode = "OFF" /\ devDisp = "OFF" /\ pmRefs = 0
    /\ offUnder = FALSE /\ missed = FALSE
    /\ stores = 0 /\ suspends = 0 /\ removes = 0 /\ fails = 0
---------------------------------------------------------------------------
(* What the bar should show.                                               *)

Min2(a, b) == IF a < b THEN a ELSE b

\* appletb_get_fn_tb_mode.
FnTbMode ==
    CASE fnMode = 0 -> "FN"
      [] fnMode = 3 -> "SPCL"
      [] fnMode = 2 -> IF fn THEN "SPCL" ELSE "FN"
      [] OTHER      -> IF fn THEN "FN" ELSE "SPCL"

WantMode == IF idleTimeout = -2 THEN "OFF" ELSE FnTbMode
WantDisp == IF idleTimeout \in {-2, 0} THEN "OFF"
            ELSE IF dimTimeout = 0 THEN "DIM" ELSE "ON"

\* The pending value if there is one, or the current.
Latest(pnd, cur) == IF pnd # "NONE" THEN pnd ELSE cur

\* Mutant: a pending work is not brought forward.
UpdateLate(pM, pD, force) ==
    LET newMode == Latest(pM, curMode) # WantMode' /\ keys' = {}
        newDisp == /\ Latest(pD, curDisp) # WantDisp'
                   /\ keys' = {} \/ WantDisp' # "OFF"
    IN  /\ pndMode' = IF newMode THEN WantMode' ELSE pM
        /\ pndDisp' = IF newDisp THEN WantDisp' ELSE pD
        /\ due' = IF (newMode \/ newDisp \/ force) /\ due = None THEN 0 ELSE due

\* appletb_update_touchbar_no_lock, with the values the caller has just
\* stored, and pM, pD in pnd_tb_mode and pnd_tb_disp.
Update(pM, pD, force) ==
    LET newMode == Latest(pM, curMode) # WantMode' /\ keys' = {}
        newDisp == /\ Latest(pD, curDisp) # WantDisp'
                   /\ keys' = {} \/ WantDisp' # "OFF"
    IN  /\ pndMode' = IF newMode THEN WantMode' ELSE pM
        /\ pndDisp' = IF newDisp THEN WantDisp' ELSE pD
        /\ due' = IF newMode \/ newDisp \/ force THEN 0 ELSE due

\* appletb_set_idle_timeout's part for a calculated dim_timeout.
CalcDim(n) == IF n > 0 THEN n - Min2(30, n \div 3) ELSE -1

---------------------------------------------------------------------------
(* Input.                                                                  *)

Listening == "mode" \in hdev \ suspended

\* Mutant: a release is translated by the mode of the moment.
TranslatedFresh(k, press) == k \in Translatable /\ Latest(pndMode', curMode) = "SPCL"

\* A key is translated by the mode it was pressed in.
Translated(k, press) ==
    /\ k \in Translatable
    /\ IF press THEN Latest(pndMode', curMode) = "SPCL" ELSE k \in xlated

\* Keys are suppressed while the bar is off.
Dark == curMode = "OFF" \/ curDisp = "OFF"

\* The worker is about to turn the bar off, or at it (history only).
GoingOff == \/ "OFF" \in {pndMode, pndDisp, wNext}
            \/ pc \in {"mode", "disp", "relock"} /\ "OFF" \in {wMode, wDisp}

\* appletb_hid_event: a key goes down, or up.
KeyEvent(k) ==
    LET press == k \notin held
        code(c) == IF press THEN down \cup {<<k, c>>} ELSE down \ {<<k, c>>}
    IN  /\ Listening /\ active
        /\ held' = IF press THEN held \cup {k} ELSE held \ {k}
        /\ keys' = IF press THEN keys \cup {k} ELSE keys \ {k}
        /\ idleTime' = 0
        /\ UNCHANGED <<fn, fnHeld, setVars>>
        /\ Update(pndMode, pndDisp, FALSE)
        /\ \/ Dark /\ UNCHANGED <<xlated, down>>
           \/ /\ ~Dark /\ Translated(k, press)
              /\ xlated' = xlated \cup {k} /\ down' = code("special")
           \/ /\ ~Dark /\ ~Translated(k, press)
              /\ xlated' = xlated \ {k} /\ down' = code("fn")
        /\ offUnder' = (offUnder \/ GoingOff)
        /\ UNCHANGED <<ifVars, curMode, curDisp, pmVars, workVars, thrVars, devVars, missed,
                       bndVars>>

\* The same while the driver is not active: the key passes unchanged, and
\* while the device sleeps or has no driver there is no event at all.
KeyUnseen(k) ==
    /\ ~(Listening /\ active)
    /\ held' = IF k \in held THEN held \ {k} ELSE held \cup {k}
    /\ down' = IF ~Listening THEN down
               ELSE IF k \in held THEN down \ {<<k, "fn">>} ELSE down \cup {<<k, "fn">>}
    /\ UNCHANGED <<ifVars, cmdVars, pmVars, keys, xlated, fn, fnHeld, idleTime, setVars,
                   due, workVars, thrVars, devVars, histVars, bndVars>>

\* appletb_inp_event: Fn on the keyboard,
FnEvent ==
    /\ fnHeld' = ~fnHeld
    /\ \/ /\ active
          /\ fn' = fnHeld' /\ idleTime' = 0
          /\ UNCHANGED <<keys, setVars>>
          /\ Update(pndMode, pndDisp, FALSE)
       \/ /\ ~active
          /\ UNCHANGED <<fn, idleTime, keys, setVars, pndMode, pndDisp, due>>
    /\ UNCHANGED <<ifVars, curMode, curDisp, pmVars, xlated, held, down, workVars,
                   thrVars, devVars, histVars, bndVars>>

\* ... and any other key or touch on the keyboard or the touchpad.
OtherEvent ==
    /\ active
    /\ idleTime' = 0
    /\ UNCHANGED <<keyVars, setVars>>
    /\ Update(pndMode, pndDisp, FALSE)
    /\ UNCHANGED <<ifVars, curMode, curDisp, pmVars, workVars, thrVars, devVars, histVars,
                   bndVars>>

---------------------------------------------------------------------------
(* sysfs: idle_timeout_store, dim_timeout_store, fnmode_store.             *)
Store == Spare /\ stores < MaxStores /\ stores' = stores + 1
         /\ active /\ pm # "register"
StoreRest == UNCHANGED <<ifVars, curMode, curDisp, pmVars, keyVars, idleTime, workVars,
                         thrVars, devVars, histVars, suspends, removes, fails>>

StoreIdle(n) ==
    /\ Store
    /\ idleTimeout' = n
    /\ dimTimeout' = IF dimCalc THEN CalcDim(n) ELSE dimTimeout
    /\ UNCHANGED <<dimCalc, fnMode>>
    /\ StoreRest
    /\ Update(pndMode, pndDisp, TRUE)

StoreDim(n) ==
    /\ Store
    /\ dimCalc' = (n = -2)
    /\ dimTimeout' = IF n = -2 THEN CalcDim(idleTimeout) ELSE n
    /\ UNCHANGED <<idleTimeout, fnMode>>
    /\ StoreRest
    /\ Update(pndMode, pndDisp, TRUE)

StoreFn(n) ==
    /\ Store
    /\ fnMode' = n
    /\ UNCHANGED <<idleTimeout, dimTimeout, dimCalc>>
    /\ StoreRest
    /\ Update(pndMode, pndDisp, FALSE)

---------------------------------------------------------------------------
(* appletb_set_tb_worker.                                                  *)

\* appletb_send_usb_ctrl has used up its retries, or the other side is gone.
Outcome(ok) == \/ ok /\ UNCHANGED fails
               \/ ~ok /\ Spare /\ fails < MaxFails /\ fails' = fails + 1

\* appletb_set_tb_disp: the power reference is taken before the command and
\* given back after it, whether or not the command succeeds.
PmChange(d) == (IF d # "OFF" /\ ~autopmOff THEN 1 ELSE 0)
               - (IF d = "OFF" /\ autopmOff THEN 1 ELSE 0)
SetTbDisp(d, ok, more) ==
    /\ devDisp' = IF ok THEN d ELSE devDisp
    /\ autopmOff' = (d # "OFF")
    /\ pmRefs' = pmRefs + PmChange(d) + more

WorkStart ==
    /\ pc = "idle" /\ due = 0
    /\ due' = None
    /\ wMode' = pndMode /\ wDisp' = pndDisp /\ wRestore' = restore
    /\ pc' = "mode"
    /\ flush' = IF flush = "queued" THEN "running" ELSE flush
    /\ UNCHANGED <<ifVars, cmdVars, pmVars, keyVars, idleTime, setVars, rc1, rc2, wNext,
                   wSecs, pm, pmIface, pmMsg, devVars, histVars, bndVars>>

WorkMode ==
    /\ pc = "mode"
    /\ \/ /\ wMode = "NONE"
          /\ UNCHANGED <<rc1, devMode, fails>>
       \/ \E ok \in BOOLEAN :
             /\ wMode # "NONE" /\ Outcome(ok)
             /\ rc1' = IF ok THEN "ok" ELSE "fail"
             /\ devMode' = IF ok THEN wMode ELSE devMode
    /\ pc' = "disp"
    /\ UNCHANGED <<ifVars, cmdVars, pmVars, keyVars, idleTime, setVars, due, wMode, wDisp,
                   wRestore, rc2, wNext, wSecs, thrVars, devDisp, histVars, stores,
                   suspends, removes>>

\* The display, and after a resume the power reference once more.
WorkDisp ==
    /\ pc = "disp"
    /\ \/ /\ wDisp = "NONE"
          /\ pmRefs' = IF wRestore /\ autopmOff THEN pmRefs + 1 ELSE pmRefs
          /\ UNCHANGED <<rc2, devDisp, autopmOff, fails>>
       \/ \E ok \in BOOLEAN :
             /\ wDisp # "NONE" /\ Outcome(ok)
             /\ rc2' = IF ok THEN "ok" ELSE "fail"
             /\ SetTbDisp(wDisp, ok, IF wRestore /\ wDisp # "OFF" THEN 1 ELSE 0)
    /\ pc' = "relock"
    /\ UNCHANGED <<ifVars, cmdVars, restore, keyVars, idleTime, setVars, due, wMode, wDisp,
                   wRestore, rc1, wNext, wSecs, thrVars, devMode, histVars, stores,
                   suspends, removes>>

MinTimeout == IF idleTimeout \in {-2, 0} THEN -1
              ELSE IF idleTimeout = -1 THEN dimTimeout
              ELSE IF dimTimeout <= 0 THEN idleTimeout
              ELSE Min2(dimTimeout, idleTimeout)
\* time_to_off when it is positive, and None when nothing is to be scheduled.
TimeToOff == IF idleTimeout <= 0 \/ idleTime >= idleTimeout THEN None
             ELSE idleTimeout - idleTime

NextDisp  == IF idleTimeout > 0 /\ idleTime >= idleTimeout THEN "OFF" ELSE "DIM"

\* Mutant: a request that came during the transfer is taken for done.
LeftForgets(pnd, sent, rc) == IF rc = "ok" THEN "NONE" ELSE pnd

\* What is left to do after a transfer.
Left(pnd, sent, rc) == IF rc = "ok" /\ pnd = sent THEN "NONE" ELSE pnd

\* With the lock again: note what was done, and decide what comes next.
WorkRelock ==
    LET again == \/ rc1 = "ok" /\ pndMode # wMode
                 \/ rc2 = "ok" /\ pndDisp # wDisp
    IN  /\ pc = "relock"
        /\ curMode' = IF rc1 = "ok" THEN wMode ELSE curMode
        /\ pndMode' = Left(pndMode, wMode, rc1)
        /\ curDisp' = IF rc2 = "ok" THEN wDisp ELSE curDisp
        /\ pndDisp' = Left(pndDisp, wDisp, rc2)
        /\ restore' = FALSE
        /\ \/ again /\ pc' = "sched" /\ wSecs' = 0 /\ UNCHANGED wNext
           \/ ~again /\ MinTimeout <= 0 /\ pc' = "sched" /\ UNCHANGED <<wSecs, wNext>>
           \/ /\ ~again /\ MinTimeout > 0 /\ MinTimeout > idleTime
              /\ pc' = "sched" /\ wSecs' = MinTimeout - idleTime /\ UNCHANGED wNext
           \/ /\ ~again /\ MinTimeout > 0 /\ MinTimeout <= idleTime /\ keys # {}
              /\ pc' = "sched" /\ wSecs' = MinTimeout /\ UNCHANGED wNext
           \/ /\ ~again /\ MinTimeout > 0 /\ MinTimeout <= idleTime /\ keys = {}
              /\ wNext' = NextDisp
              /\ wSecs' = TimeToOff
              /\ pc' = IF NextDisp = curDisp' THEN "sched" ELSE "timeout"
        /\ wMode' = "NONE" /\ wDisp' = "NONE" /\ wRestore' = FALSE
        /\ rc1' = "skip" /\ rc2' = "skip"
        /\ UNCHANGED <<ifVars, autopmOff, pmRefs, keyVars, idleTime, setVars, due, thrVars,
                       devVars, histVars, bndVars>>

\* Dim or turn off, again without the lock.
WorkTimeout ==
    /\ pc = "timeout"
    /\ \E ok \in BOOLEAN :
          /\ Outcome(ok)
          /\ SetTbDisp(wNext, ok, 0)
          /\ pc' = IF ok THEN "store" ELSE "sched"
    /\ UNCHANGED <<ifVars, cmdVars, restore, keyVars, idleTime, setVars, due, wMode, wDisp,
                   wRestore, rc1, rc2, wNext, wSecs, thrVars, devMode, histVars, stores,
                   suspends, removes>>

\* Mutant: the new display is not noted.
NotedNot == curDisp

\* cur_tb_disp after the timeout's command.
Noted == wNext

WorkStore ==
    /\ pc = "store"
    /\ curDisp' = Noted
    /\ pc' = "sched"
    /\ UNCHANGED <<ifVars, curMode, pndMode, pndDisp, pmVars, keyVars, idleTime, setVars,
                   due, wMode, wDisp, wRestore, rc1, rc2, wNext, wSecs, thrVars, devVars,
                   histVars, bndVars>>

\* schedule_delayed_work does nothing when the work is pending already.
WorkSched ==
    /\ pc = "sched"
    /\ due' = IF wSecs # None /\ due = None THEN wSecs ELSE due
    /\ pc' = "idle"
    /\ wNext' = "NONE" /\ wSecs' = None
    /\ flush' = IF flush = "running" THEN "done" ELSE flush
    /\ UNCHANGED <<ifVars, cmdVars, pmVars, keyVars, idleTime, setVars, wMode, wDisp,
                   wRestore, rc1, rc2, pm, pmIface, pmMsg, devVars, histVars, bndVars>>

\* External: time passes.
Tick ==
    /\ idleTime < MaxIdle \/ due > 0
    /\ idleTime' = Min2(idleTime + 1, MaxIdle)
    /\ due' = IF due > 0 THEN due - 1 ELSE due
    /\ UNCHANGED <<ifVars, cmdVars, pmVars, keyVars, setVars, workVars, thrVars, devVars,
                   histVars, bndVars>>
---------------------------------------------------------------------------
(* Suspend and resume, called for one interface after the other.           *)

\* appletb_suspend up to the unlock.  External: the input core has released
\* the keys of the interface's input device.
Suspend(f, msg) ==
    /\ pm = "run" /\ f \in hdev \ suspended
    /\ suspended = {} => Spare /\ suspends < MaxSuspends
    /\ suspended # {} => msg = pmMsg
    /\ suspends' = IF suspended = {} THEN suspends + 1 ELSE suspends
    /\ active' = (active /\ suspended # {})
    /\ due' = IF suspended = {} THEN None ELSE due
    /\ suspended' = suspended \cup {f}
    /\ down' = IF f = "mode" THEN {} ELSE down
    /\ missed' = (missed \/ keys # {})
    /\ pm' = "flush" /\ pmMsg' = msg
    /\ UNCHANGED <<hdev, cmdVars, pmVars, keys, xlated, fn, held, fnHeld, idleTime, setVars,
                   workVars, pmIface, flush, devVars, offUnder, stores, removes, fails>>

\* flush_delayed_work: a timer is cut short; wait for the queued or the
\* running instance, but not for one it schedules.
SuspendFlush ==
    /\ pm = "flush"
    /\ due' = IF due > 0 THEN 0 ELSE due
    /\ flush' = IF due # None THEN "queued" ELSE IF pc # "idle" THEN "running" ELSE "done"
    /\ pm' = "wait"
    /\ UNCHANGED <<ifVars, cmdVars, pmVars, keyVars, idleTime, setVars, workVars, pmIface,
                   pmMsg, devVars, histVars, bndVars>>

SuspendWait ==
    /\ pm = "wait" /\ flush = "done"
    /\ pm' = IF ~(hdev \subseteq suspended) THEN "run"
             ELSE IF pmMsg = "suspend" THEN "offMode" ELSE "offStore"
    /\ UNCHANGED <<ifVars, cmdVars, pmVars, keyVars, idleTime, setVars, due, workVars,
                   pmIface, pmMsg, flush, devVars, histVars, bndVars>>

SuspendOffMode ==
    /\ pm = "offMode"
    /\ \E ok \in BOOLEAN : Outcome(ok) /\ devMode' = IF ok THEN "OFF" ELSE devMode
    /\ pm' = "offDisp"
    /\ UNCHANGED <<ifVars, cmdVars, pmVars, keyVars, idleTime, setVars, due, workVars,
                   pmIface, pmMsg, flush, devDisp, histVars, stores, suspends, removes>>

SuspendOffDisp ==
    /\ pm = "offDisp"
    /\ \E ok \in BOOLEAN : Outcome(ok) /\ SetTbDisp("OFF", ok, 0)
    /\ pm' = "offStore"
    /\ UNCHANGED <<ifVars, cmdVars, restore, keyVars, idleTime, setVars, due, workVars,
                   pmIface, pmMsg, flush, devMode, histVars, stores, suspends, removes>>

SuspendStore ==
    /\ pm = "offStore"
    /\ curMode' = "OFF" /\ curDisp' = "OFF"
    /\ pm' = "run" /\ pmMsg' = "suspend"
    /\ UNCHANGED <<ifVars, pndMode, pndDisp, pmVars, keyVars, idleTime, setVars, due,
                   workVars, pmIface, flush, devVars, histVars, bndVars>>

\* appletb_reset_resume.  External: a device that slept comes back switched
\* off and without the power reference.
Resume(f) ==
    /\ pm = "run" /\ f \in suspended
    /\ suspended' = suspended \ {f}
    /\ LET reset == hdev \subseteq suspended
       IN  /\ devMode' = IF reset THEN "OFF" ELSE devMode
           /\ devDisp' = IF reset THEN "OFF" ELSE devDisp
           /\ pmRefs' = IF reset THEN 0 ELSE pmRefs
    /\ UNCHANGED <<keyVars, setVars>>
    /\ \/ /\ hdev = Iface /\ suspended' = {}
          /\ active' = TRUE /\ restore' = TRUE /\ idleTime' = 0
          /\ Update(pndMode, pndDisp, TRUE)
       \/ /\ ~(hdev = Iface /\ suspended' = {})
          /\ UNCHANGED <<active, restore, idleTime, pndMode, pndDisp, due>>
    /\ missed' = (missed \/ held # {})
    /\ UNCHANGED <<hdev, curMode, curDisp, autopmOff, workVars, thrVars, offUnder, bndVars>>

---------------------------------------------------------------------------
(* appletb_probe and appletb_remove, called for each interface.            *)

\* With the second interface the driver becomes active and asks for an update.
Probe(f) ==
    /\ pm = "run" /\ f \notin hdev /\ suspended = {}
    /\ hdev' = hdev \cup {f}
    /\ UNCHANGED keyVars
    /\ \/ /\ hdev' = Iface /\ ~active
          /\ active' = TRUE
          /\ fnMode' = DefFn
          /\ \E p \in Params :
                 /\ idleTimeout' = p[1] /\ dimCalc' = (p[2] = -2)
                 /\ dimTimeout' = IF p[2] = -2 THEN CalcDim(p[1]) ELSE p[2]
          /\ idleTime' = 0
          /\ Update("UPD", "UPD", FALSE)
          /\ pm' = "register" /\ pmIface' = f
       \/ /\ ~(hdev' = Iface /\ ~active)
          /\ UNCHANGED <<active, setVars, idleTime, pndMode, pndDisp, due, pm, pmIface>>
    /\ missed' = (missed \/ held # {})
    /\ UNCHANGED <<suspended, curMode, curDisp, pmVars, workVars, pmMsg, flush, devVars,
                   offUnder, bndVars>>

\* The input handler and the sysfs attributes are registered, or not, and
\* then the driver is inactive again and the interface given up.
ProbeRegister ==
    /\ pm = "register"
    /\ \/ pm' = "run" /\ pmIface' = "mode" /\ UNCHANGED <<active, missed, removes>>
       \/ /\ Spare /\ removes < MaxRemoves
          /\ removes' = removes + 1
          /\ active' = FALSE /\ missed' = (missed \/ keys # {})
          /\ pm' = "undo" /\ UNCHANGED pmIface
    /\ UNCHANGED <<hdev, suspended, cmdVars, pmVars, keyVars, idleTime, setVars, due,
                   workVars, pmMsg, flush, devVars, offUnder, stores, suspends, fails>>

\* cancel_delayed_work_sync waits for the worker.
Synced == pc = "idle"

ProbeUndo ==
    /\ pm = "undo" /\ Synced
    /\ due' = None
    /\ hdev' = hdev \ {pmIface}
    /\ down' = IF pmIface = "mode" THEN {} ELSE down
    /\ pm' = "run" /\ pmIface' = "mode"
    /\ UNCHANGED <<suspended, active, cmdVars, pmVars, keys, xlated, fn, held, fnHeld,
                   idleTime, setVars, workVars, pmMsg, flush, devVars, histVars,
                   bndVars>>

\* appletb_test_and_mark_inactive.
Remove(f) ==
    /\ pm = "run" /\ f \in hdev /\ suspended = {} /\ Spare /\ removes < MaxRemoves
    /\ removes' = removes + 1
    /\ pmIface' = f
    /\ pm' = IF hdev = Iface /\ active THEN "cancel" ELSE "gone"
    /\ active' = (active /\ hdev # Iface)
    /\ missed' = (missed \/ keys # {})
    /\ UNCHANGED <<hdev, suspended, cmdVars, pmVars, keyVars, idleTime, setVars, due,
                   workVars, pmMsg, flush, devVars, offUnder, stores, suspends, fails>>

RemoveCancel ==
    /\ pm = "cancel" /\ Synced
    /\ due' = None
    /\ pm' = "quit"
    /\ UNCHANGED <<ifVars, cmdVars, pmVars, keyVars, idleTime, setVars, workVars, pmIface,
                   pmMsg, flush, devVars, histVars, bndVars>>

\* Mode off, display on, and the power reference is given back.
RemoveQuit ==
    /\ pm = "quit"
    /\ \E okM, okD \in BOOLEAN :
          /\ Outcome(okM /\ okD)
          /\ devMode' = IF okM THEN "OFF" ELSE devMode
          /\ SetTbDisp("ON", okD, -1)
    /\ pm' = "gone"
    /\ UNCHANGED <<ifVars, cmdVars, restore, keyVars, idleTime, setVars, due, workVars,
                   pmIface, pmMsg, flush, histVars, stores, suspends, removes>>

RemoveGone ==
    /\ pm = "gone"
    /\ hdev' = hdev \ {pmIface}
    /\ down' = IF pmIface = "mode" THEN {} ELSE down
    /\ pm' = "run" /\ pmIface' = "mode"
    /\ UNCHANGED <<suspended, active, cmdVars, pmVars, keys, xlated, fn, held, fnHeld,
                   idleTime, setVars, due, workVars, pmMsg, flush, devVars,
                   histVars, bndVars>>

Worker == \/ WorkStart \/ WorkMode \/ WorkDisp \/ WorkRelock \/ WorkTimeout \/ WorkStore
          \/ WorkSched
Input  == \/ \E k \in Key : KeyEvent(k) \/ KeyUnseen(k)
          \/ FnEvent \/ OtherEvent
Sysfs  == \/ \E n \in Idles : StoreIdle(n)
          \/ \E n \in Dims : StoreDim(n)
          \/ \E n \in FnModes : StoreFn(n)
PmStep == \/ SuspendFlush \/ SuspendWait \/ SuspendOffMode \/ SuspendOffDisp
          \/ SuspendStore \/ ProbeRegister \/ ProbeUndo \/ RemoveCancel \/ RemoveQuit \/ RemoveGone
PmCall == \E f \in Iface : \/ \E msg \in {"suspend", "freeze"} : Suspend(f, msg)
                           \/ Resume(f) \/ Probe(f) \/ Remove(f)
Next == Worker \/ Input \/ Sysfs \/ PmStep \/ PmCall \/ Tick
Spec == Init /\ [][Next]_vars

(* The workqueue runs what is queued, timers expire, and a suspend or a    *)
(* remove that has begun goes on.  Input, sysfs and the power-management   *)
(* core are under no obligation.                                           *)
Fairness == WF_vars(Worker) /\ WF_vars(Tick) /\ WF_vars(PmStep)
FairSpec == Spec /\ Fairness

---------------------------------------------------------------------------
Quiescent == pc = "idle" /\ pm = "run" /\ active

(* The driver's idea of the device is right: whenever the worker is idle   *)
(* and nothing is pending, cur_tb_mode and cur_tb_disp are what the device *)
(* was last told, across suspends, removals and racing updates, unless a   *)
(* transfer failed.                                                        *)
KnowsDevice ==
    Quiescent /\ fails = 0 =>
        /\ pndMode = "NONE" => curMode = devMode
        /\ pndDisp = "NONE" => curDisp = devDisp

(* The worker, which follows disp_field and usb_iface without a lock, runs *)
(* only while both interfaces are there.                                   *)
WorkerHasInterfaces == pc # "idle" => hdev = Iface

(* A pending command never waits for a timer or for the next event: the    *)
(* work is queued, or is just carrying it out, or a transfer has failed.   *)
(* The exception is a driver that became active again believing a key down *)
(* (appletb_probe): it has not chosen a mode yet, and waits for the key.   *)
Prompt ==
    active /\ fails = 0 /\ (pndMode # "NONE" \/ pndDisp # "NONE") =>
        \/ due = 0
        \/ pc \in {"mode", "disp", "relock"}
        \/ pc = "sched" /\ wSecs = 0
        \/ pndMode = "UPD" /\ keys # {}

(* No key stays down in the input layer after it was released, whatever    *)
(* the mode did meanwhile, unless the bar was about to go off when the key *)
(* went down, or a key was down when the driver was (de)activated.         *)
KeysReleased == \A k \in Key, c \in {"fn", "special"} :
                    <<k, c>> \in down => k \in held \/ offUnder \/ missed

(* The device is sent real commands only: the marker "UPD" never leaves    *)
(* the driver, unless it was deactivated with a key down, which it then    *)
(* takes to be down for ever.                                              *)
RealCommands == "UPD" \in {devMode, devDisp} => missed

(* One power reference for each time autopm was turned off, until the      *)
(* driver is suspended or removed.                                         *)
PowerBalanced ==
    suspends = 0 /\ removes = 0 => pmRefs = IF autopmOff THEN 1 ELSE 0

(* The driver's idea of the device and of its power is right, what it      *)
(* sends is real, and it sends while its interfaces are there              *)
(* (appletb_set_tb_worker).                                                *)
DeviceKnown ==
    TypeOK /\ KnowsDevice /\ RealCommands /\ WorkerHasInterfaces /\ PowerBalanced

(* Once input, settings and power are left alone, the bar gets the mode    *)
(* the Fn key and the settings ask for, if no transfer fails.              *)
ModeFollows ==
    \A m \in Mode : <>[](active /\ keys = {} /\ WantMode = m) =>
                        <>[](devMode = m \/ fails > 0)

(* Without dim and idle timeouts, the display does too.                    *)
DisplayFollows ==
    \A d \in Disp : <>[](active /\ keys = {} /\ MinTimeout <= 0 /\ WantDisp = d) =>
                        <>[](devDisp = d \/ fails > 0)

(* After idle_timeout without input the display goes off, and stays off.   *)
IdleTurnsOff ==
    <>[](active /\ keys = {} /\ idleTimeout > 0 /\ idleTime = MaxIdle) =>
        <>[](devDisp = "OFF" \/ fails > 0)

(* Mode and display both end up as the Fn key, the settings and the time   *)
(* without input ask (appletb_update_touchbar_no_lock and the worker).     *)
BarFollows == ModeFollows /\ DisplayFollows /\ IdleTurnsOff
==========================================================================
