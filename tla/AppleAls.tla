----------------------------- MODULE AppleAls -----------------------------
(***************************************************************************)
(* The ambient light sensor (touchbar/src/apple-ib-als.c) behind the       *)
(* iBridge multiplexer (apple-ibridge.c).  The driver gives the sensor an  *)
(* absolute sensitivity; with hysteresis 0 it follows the brightness       *)
(* through a table of overlapping ranges.  HID events and sysfs accesses   *)
(* compute, send and note the sensitivity with no lock.                    *)
(*                                                                         *)
(* External: the sensor, IIO, and the power-management core.               *)
(***************************************************************************)
EXTENDS Integers, FiniteSets

CONSTANTS User,       \* threads that use the sysfs files
          Illums,     \* brightness values
          Fixed,      \* fixed sensitivities written by the user
          MaxOps,     \* bound on sysfs accesses
          MaxResets   \* bound on suspends

Dyn == 0                      \* APPLEALS_DYN_SENS
Thread == User \cup {"event"}
\* The sub-devices of the iBridge, in the order of appleib_sub_hid_ids.
Subs == <<"tb", "als">>

VARIABLES
    bound,     \* appleals_probe has succeeded
    hyst,      \* cur_hysteresis
    sens,      \* cur_sensitivity
    events,    \* events_enabled
    pc, new,   \* per thread: where it is, and the value it is sending
    \* External: the sensor.
    report,    \* its reporting state
    devSens,   \* its sensitivity (0: its own default)
    illum,     \* the brightness it last measured
    \* History and bounds.
    raced,     \* two threads were changing the sensitivity at once
    ops, resets

vars == <<bound, hyst, sens, events, pc, new, report, devSens, illum, raced, ops, resets>>
---------------------------------------------------------------------------
(* The table, by index.                                                    *)

Index == 1 .. 7
Sensitivity == <<1, 3, 9, 27, 81, 243, 729>>
IllumLow    == <<0, 10, 30, 90, 270, 810, 2430>>
IllumHigh   == <<14, 40, 120, 360, 1080, 3240, 9720>>

Covers(i, v) == IllumLow[i] <= v /\ v <= IllumHigh[i]

\* Mutant: the range of the current sensitivity is open above.
StillInRangeOpen(v, s) == \E i \in Index : Sensitivity[i] = s /\ IllumLow[i] <= v

\* Mutant: the current sensitivity is not looked at.
StillInRangeNever(v, s) == FALSE

StillInRange(v, s) == \E i \in Index : Sensitivity[i] = s /\ Covers(i, v)

AboveTable == Sensitivity[7]

\* The first range that covers v, or the highest.
NewSensitivity(v) ==
    IF \E i \in Index : Covers(i, v)
    THEN Sensitivity[CHOOSE i \in Index :
                        Covers(i, v) /\ \A j \in 1 .. (i - 1) : ~Covers(j, v)]
    ELSE AboveTable

\* appleals_compute_sensitivity.
ComputeSensitivity(v, s) == IF StillInRange(v, s) THEN s ELSE NewSensitivity(v)

\* Sensitivity s is meant for brightness v; the last range has no upper end.
Suits(s, v) ==
    \E i \in Index : Sensitivity[i] = s /\ IllumLow[i] <= v /\ (v <= IllumHigh[i] \/ i = 7)
---------------------------------------------------------------------------
Sens == {Sensitivity[i] : i \in Index} \cup Fixed

TypeOK ==
    /\ bound \in BOOLEAN /\ events \in BOOLEAN /\ report \in BOOLEAN /\ raced \in BOOLEAN
    /\ hyst \in Sens \cup {Dyn}
    /\ sens \in Sens \cup {Dyn} /\ devSens \in Sens \cup {0}
    /\ pc \in [Thread -> {"idle", "send", "store", "fixed", "read"}]
    /\ new \in [Thread -> Sens \cup {0}]
    /\ \A t \in Thread : pc[t] \in {"send", "store", "fixed"} => new[t] # 0
    /\ illum \in Illums
    /\ ops \in 0 .. MaxOps /\ resets \in 0 .. MaxResets

Init ==
    /\ bound = FALSE /\ hyst = Dyn /\ sens = Dyn /\ events = FALSE
    /\ pc = [t \in Thread |-> "idle"] /\ new = [t \in Thread |-> 0]
    /\ report = FALSE /\ devSens = 0 /\ illum \in Illums
    /\ raced = FALSE /\ ops = 0 /\ resets = 0

Idle == \A t \in Thread : pc[t] = "idle"
\* Thread t changes the sensitivity while another one does.
Races(t) == raced' = (raced \/ \E u \in Thread \ {t} : pc[u] # "idle")

\* appleals_config_sensor: what the sensor is set to.
ConfigSensor(on, s) ==
    /\ report' = on
    /\ devSens' = IF s # Dyn THEN s ELSE devSens

\* appleals_probe.
Probe ==
    /\ ~bound
    /\ bound' = TRUE
    /\ ConfigSensor(FALSE, Dyn)
    /\ UNCHANGED <<hyst, sens, events, pc, new, illum, raced, ops, resets>>

\* appleals_update_dyn_sensitivity in thread t for brightness v, up to the
\* request to the sensor.
UpdateDyn(t, v) ==
    LET s == ComputeSensitivity(v, sens)
    IN  /\ pc' = [pc EXCEPT ![t] = IF s # sens THEN "send" ELSE "idle"]
        /\ new' = [new EXCEPT ![t] = IF s # sens THEN s ELSE 0]
        /\ Races(t)
\* appleals_push_new_value.
PushNewValue(t, v, h) == IF h = Dyn THEN UpdateDyn(t, v) ELSE UNCHANGED <<pc, new, raced>>

SendSens(t) ==
    /\ pc[t] = "send"
    /\ devSens' = new[t]
    /\ pc' = [pc EXCEPT ![t] = "store"]
    /\ UNCHANGED <<bound, hyst, sens, events, new, report, illum, raced, ops, resets>>

StoreSens(t) ==
    /\ pc[t] = "store"
    /\ sens' = new[t]
    /\ pc' = [pc EXCEPT ![t] = "idle"]
    /\ new' = [new EXCEPT ![t] = 0]
    /\ UNCHANGED <<bound, hyst, events, report, devSens, illum, raced, ops, resets>>

\* appleib_hid_raw_event and appleals_hid_event: the sensor reports v.
HidEvent(v) ==
    /\ bound /\ report /\ pc["event"] = "idle"
    /\ illum' = v
    /\ PushNewValue("event", v, hyst)
    /\ UNCHANGED <<bound, hyst, sens, events, report, devSens, ops, resets>>

\* External: the brightness changes unreported.
Dusk(v) ==
    /\ ~report
    /\ illum' = v
    /\ UNCHANGED <<bound, hyst, sens, events, pc, new, report, devSens, raced, ops, resets>>

User0(u) == bound /\ pc[u] = "idle" /\ ops < MaxOps /\ ops' = ops + 1

\* appleals_enable_events.
EnableEvents(u) ==
    /\ User0(u)
    /\ report' = TRUE /\ events' = TRUE
    /\ PushNewValue(u, illum, hyst)
    /\ UNCHANGED <<bound, hyst, sens, devSens, illum, resets>>

DisableEvents(u) ==
    /\ User0(u)
    /\ report' = FALSE /\ events' = FALSE
    /\ UNCHANGED <<bound, hyst, sens, pc, new, devSens, illum, raced, resets>>

\* appleals_write_raw, IIO_CHAN_INFO_HYSTERESIS: dynamic,
WriteDyn(u) ==
    /\ User0(u) /\ hyst # Dyn
    /\ hyst' = Dyn
    /\ UpdateDyn(u, illum)
    /\ UNCHANGED <<bound, sens, events, report, devSens, illum, resets>>

\* ... and a fixed value n, sent and then noted.
WriteFixed(u, n) ==
    /\ User0(u)
    /\ devSens' = n
    /\ pc' = [pc EXCEPT ![u] = "fixed"] /\ new' = [new EXCEPT ![u] = n]
    /\ Races(u)
    /\ UNCHANGED <<bound, hyst, sens, events, report, illum, resets>>

\* appleals_read_raw, IIO_CHAN_INFO_HYSTERESIS: fetched and then noted.
ReadHyst(u) ==
    /\ User0(u) /\ hyst # Dyn
    /\ pc' = [pc EXCEPT ![u] = "read"] /\ new' = [new EXCEPT ![u] = devSens]
    /\ Races(u)
    /\ UNCHANGED <<bound, hyst, sens, events, report, devSens, illum, resets>>

StoreHyst(u) ==
    /\ pc[u] \in {"fixed", "read"}
    /\ sens' = new[u] /\ hyst' = new[u]
    /\ pc' = [pc EXCEPT ![u] = "idle"] /\ new' = [new EXCEPT ![u] = 0]
    /\ UNCHANGED <<bound, events, report, devSens, illum, raced, ops, resets>>

\* appleib_forward_int_op: the loop over sub_hdevs ends after the first.
Forwarded == {Subs[1]}

\* Resume after a reset, through appleib_hid_reset_resume; the sensor has its
\* defaults again, and appleals_reset_resume sets it up if it is called.
ResetResume ==
    /\ bound /\ Idle /\ resets < MaxResets
    /\ resets' = resets + 1
    /\ report' = (events /\ "als" \in Forwarded)
    /\ devSens' = IF "als" \in Forwarded THEN sens ELSE 0
    /\ IF "als" \in Forwarded THEN PushNewValue("event", illum, hyst)
                              ELSE UNCHANGED <<pc, new, raced>>
    /\ UNCHANGED <<bound, hyst, sens, events, illum, ops>>

Next ==
    \/ Probe \/ ResetResume
    \/ \E v \in Illums : HidEvent(v) \/ Dusk(v)
    \/ \E t \in Thread : SendSens(t) \/ StoreSens(t)
    \/ \E u \in User : \/ EnableEvents(u) \/ DisableEvents(u) \/ WriteDyn(u)
                       \/ \E n \in Fixed : WriteFixed(u, n)
                       \/ ReadHyst(u) \/ StoreHyst(u)
Spec == Init /\ [][Next]_vars

---------------------------------------------------------------------------
(* With hysteresis 0 and events on, the driver's sensitivity suits the     *)
(* brightness last reported and is the one the sensor has, unless two      *)
(* threads set it at the same time or the device was reset.                *)
Follows ==
    bound /\ Idle /\ hyst = Dyn /\ events /\ ~raced /\ resets = 0 =>
        Suits(sens, illum) /\ devSens = sens

(* With a fixed hysteresis the sensor has it, under the same conditions.   *)
FixedKept ==
    Idle /\ hyst # Dyn /\ ~raced /\ resets = 0 => sens = hyst /\ devSens = hyst

(* The comment on the table: the "sensitivity is only changed if the value *)
(* leaves the current sensitivity's range", as far as events report it.    *)
NoFlapping ==
    [][hyst = Dyn /\ hyst' = Dyn /\ report /\ sens' # sens /\ ~raced =>
            ~Suits(sens, illum)]_vars

---------------------------------------------------------------------------
(* A claim of the documentation that the code does not keep.               *)

(* "Forward a hid-driver callback to all drivers on all virtual HID        *)
(* devices": so after a resume the sensor reports again.                   *)
ReportsAfterResume == bound /\ Idle /\ events => report
==========================================================================
