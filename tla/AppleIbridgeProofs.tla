------------------------- MODULE AppleIbridgeProofs -------------------------
(***************************************************************************)
(* Proofs about the two sub-drivers of the iBridge.                        *)
(*                                                                         *)
(* The light sensor: what appleals_compute_sensitivity returns for every   *)
(* brightness, and that the driver follows the brightness, for any number  *)
(* of sysfs users, any brightness values and any bounds.  The inductive    *)
(* invariant SensInv says who is changing the sensitivity and with what.   *)
(*                                                                         *)
(* The Touch Bar, for any keys, settings and number of stores, suspends,   *)
(* removals and failures.  The inductive invariant TbInv has three layers. *)
(* The first says where the worker, the thread that suspends and removes,  *)
(* and the delayed work are with respect to each other.  The second is one *)
(* part for each of the promises: commands are prompt and real, power      *)
(* references balance, keys are released.  The third, KnownInv, follows    *)
(* what the device was told through transfers that race with updates,      *)
(* suspends and resets.                                                    *)
(***************************************************************************)
EXTENDS MCAppleIbridge, TLAPS

---------------------------------------------------------------------------
(* The light sensor.                                                       *)

(* The thread that is changing the sensitivity, if any, is alone.          *)
Alone == \A t, u \in A!Thread : alsPc[t] # "idle" /\ alsPc[u] # "idle" => t = u

(* A value on its way suits the brightness, and the old one does not.      *)
SensSending == \A t \in A!Thread :
    alsPc[t] \in {"send", "store"} =>
           /\ hyst = A!Dyn
           /\ report => A!Suits(new[t], illum) /\ ~A!Suits(sens, illum)

(* While nobody has raced and the device was not reset, the sensor has     *)
(* what the driver believes.                                               *)
SensKnown ==
    /\ report = events
    /\ A!Idle /\ hyst = A!Dyn => sens = A!Dyn \/ devSens = sens
    /\ A!Idle /\ hyst = A!Dyn /\ report => A!Suits(sens, illum)
    /\ hyst # A!Dyn /\ (\A t \in A!Thread : alsPc[t] # "fixed") => sens = hyst /\ devSens = hyst
    /\ \A t \in A!Thread : /\ alsPc[t] = "store" => devSens = new[t]
                           /\ alsPc[t] = "fixed" => devSens = new[t] /\ new[t] # 0
                           /\ alsPc[t] = "read" => devSens = new[t] /\ hyst # A!Dyn

(* Only users read and write the hysteresis.                               *)
Reading == \A t \in A!Thread : alsPc[t] = "read" /\ ~raced => hyst # A!Dyn

(* Nothing reports before the probe.                                       *)
Unbound == ~bound => ~events

SensInv == /\ A!TypeOK /\ Unbound
           /\ ~raced => Alone /\ SensSending /\ Reading
           /\ ~raced /\ resets = 0 => SensKnown

---------------------------------------------------------------------------
(* The table of appleals_sensitivity_map, entry by entry.                  *)
LEMMA Table ==
    /\ A!Index = {1, 2, 3, 4, 5, 6, 7}
    /\ A!Sensitivity[1] = 1 /\ A!Sensitivity[2] = 3 /\ A!Sensitivity[3] = 9
    /\ A!Sensitivity[4] = 27 /\ A!Sensitivity[5] = 81 /\ A!Sensitivity[6] = 243
    /\ A!Sensitivity[7] = 729
    /\ A!IllumLow[1] = 0 /\ A!IllumLow[2] = 10 /\ A!IllumLow[3] = 30 /\ A!IllumLow[4] = 90
    /\ A!IllumLow[5] = 270 /\ A!IllumLow[6] = 810 /\ A!IllumLow[7] = 2430
    /\ A!IllumHigh[1] = 14 /\ A!IllumHigh[2] = 40 /\ A!IllumHigh[3] = 120
    /\ A!IllumHigh[4] = 360 /\ A!IllumHigh[5] = 1080 /\ A!IllumHigh[6] = 3240
    /\ A!IllumHigh[7] = 9720
BY DEF A!Index, A!Sensitivity, A!IllumLow, A!IllumHigh

(* NewSensitivity of appleals_compute_sensitivity, the second loop: the    *)
(* first range that covers the brightness, or the last one above them all. *)
LEMMA FirstRange ==
    ASSUME NEW v \in Nat
    PROVE  \E i \in A!Index : /\ A!NewSensitivity(v) = A!Sensitivity[i]
                              /\ A!Covers(i, v) \/ (i = 7 /\ v > 9720)
<1>1. CASE v > 9720
  <2>1. ~ \E i \in A!Index : A!Covers(i, v)
    BY <1>1, Table DEF A!Covers
  <2>2. A!NewSensitivity(v) = A!Sensitivity[7]
    BY <2>1 DEF A!NewSensitivity, A!AboveTable
  <2> QED
    BY <2>2, <1>1, Table
<1>2. CASE v <= 9720
  <2> DEFINE First(i) == A!Covers(i, v) /\ \A j \in 1 .. (i - 1) : ~A!Covers(j, v)
  <2>1. \E i \in A!Index : First(i)
    <3>1. CASE v <= 14
      BY <3>1, Table DEF A!Covers
    <3>2. CASE v > 14 /\ v <= 40
      <4>1. A!Covers(2, v) /\ ~A!Covers(1, v)
        BY <3>2, Table DEF A!Covers
      <4> QED
        BY <4>1, Table
    <3>3. CASE v > 40 /\ v <= 120
      <4>1. A!Covers(3, v) /\ ~A!Covers(1, v) /\ ~A!Covers(2, v)
        BY <3>3, Table DEF A!Covers
      <4> QED
        BY <4>1, Table
    <3>4. CASE v > 120 /\ v <= 360
      <4>1. A!Covers(4, v) /\ ~A!Covers(1, v) /\ ~A!Covers(2, v) /\ ~A!Covers(3, v)
        BY <3>4, Table DEF A!Covers
      <4> QED
        BY <4>1, Table
    <3>5. CASE v > 360 /\ v <= 1080
      <4>1. A!Covers(5, v) /\ \A j \in 1 .. 4 : ~A!Covers(j, v)
        BY <3>5, Table DEF A!Covers
      <4> QED
        BY <4>1, Table
    <3>6. CASE v > 1080 /\ v <= 3240
      <4>1. A!Covers(6, v) /\ \A j \in 1 .. 5 : ~A!Covers(j, v)
        BY <3>6, Table DEF A!Covers
      <4> QED
        BY <4>1, Table
    <3>7. CASE v > 3240
      <4>1. A!Covers(7, v) /\ \A j \in 1 .. 6 : ~A!Covers(j, v)
        BY <3>7, <1>2, Table DEF A!Covers
      <4> QED
        BY <4>1, Table
    <3> QED
      BY <3>1, <3>2, <3>3, <3>4, <3>5, <3>6, <3>7
  <2> DEFINE k == CHOOSE i \in A!Index : First(i)
  <2>2. k \in A!Index /\ First(k)
    BY <2>1
  <2>3. A!NewSensitivity(v) = A!Sensitivity[k]
    BY <2>1 DEF A!NewSensitivity
  <2>4. k \in A!Index /\ A!Covers(k, v)
    BY <2>2
  <2> HIDE DEF k
  <2> QED
    BY <2>3, <2>4
<1> QED
  BY <1>1, <1>2

(* appleals_compute_sensitivity returns a sensitivity of the table that    *)
(* suits the brightness, and changes it only when the old one does not.    *)
THEOREM ComputeSuits ==
    ASSUME NEW v \in Nat, NEW s \in Nat
    PROVE  /\ \E i \in A!Index : A!ComputeSensitivity(v, s) = A!Sensitivity[i]
           /\ A!ComputeSensitivity(v, s) # 0
           /\ A!Suits(A!ComputeSensitivity(v, s), v)
           /\ A!ComputeSensitivity(v, s) # s => ~A!Suits(s, v)
<1>1. PICK i \in A!Index : /\ A!NewSensitivity(v) = A!Sensitivity[i]
                           /\ A!Covers(i, v) \/ (i = 7 /\ v > 9720)
  BY FirstRange
<1>2. A!Suits(A!Sensitivity[i], v)
  BY <1>1, Table DEF A!Suits, A!Covers
<1>3. \A k \in A!Index : A!Sensitivity[k] # 0
  BY Table
<1>4. CASE A!StillInRange(v, s)
  <2>1. A!ComputeSensitivity(v, s) = s
    BY <1>4 DEF A!ComputeSensitivity
  <2>2. PICK k \in A!Index : A!Sensitivity[k] = s /\ A!Covers(k, v)
    BY <1>4 DEF A!StillInRange
  <2>3. A!Suits(s, v)
    BY <2>2 DEF A!Suits, A!Covers
  <2> QED
    BY <2>1, <2>2, <2>3, <1>3
<1>5. CASE ~A!StillInRange(v, s)
  <2>1. A!ComputeSensitivity(v, s) = A!Sensitivity[i]
    BY <1>5, <1>1 DEF A!ComputeSensitivity
  <2>2. ASSUME A!Suits(s, v) PROVE s = A!Sensitivity[i]
    <3>1. PICK k \in A!Index : /\ A!Sensitivity[k] = s /\ A!IllumLow[k] <= v
                               /\ v <= A!IllumHigh[k] \/ k = 7
      BY <2>2 DEF A!Suits
    <3>2. ~A!Covers(k, v)
      BY <3>1, <1>5 DEF A!StillInRange
    <3>3. k = 7 /\ v > 9720
      BY <3>1, <3>2, Table DEF A!Covers
    <3>4. i = 7
      BY <3>3, <1>1, Table DEF A!Covers
    <3> QED
      BY <3>1, <3>3, <3>4
  <2> QED
    BY <2>1, <2>2, <1>2, <1>3
<1> QED
  BY <1>4, <1>5
---------------------------------------------------------------------------
(* The parts of TypeOK that the provers need as facts about numbers.       *)
LEMMA Numbers ==
    ASSUME A!TypeOK
    PROVE  /\ sens \in Nat /\ devSens \in Nat /\ hyst \in Nat /\ illum \in Nat
           /\ \A t \in A!Thread : new[t] \in Nat
           /\ \A i \in A!Index : A!Sensitivity[i] \in A!Sens
<1>1. Fixed \subseteq Nat /\ Illums \subseteq Nat
  BY AlsAssumption
<1>2. \A i \in A!Index : A!Sensitivity[i] \in Nat
  BY Table
<1>3. A!Sens \subseteq Nat
  BY <1>1, <1>2 DEF A!Sens
<1> QED
  BY <1>1, <1>3 DEF A!TypeOK, A!Sens, A!Dyn

(* A computation in thread t keeps the types.                              *)
LEMMA UpdateType ==
    ASSUME A!TypeOK, NEW t \in A!Thread, NEW v \in Illums, A!UpdateDyn(t, v)
    PROVE  /\ alsPc' \in [A!Thread -> {"idle", "send", "store", "fixed", "read"}]
           /\ new' \in [A!Thread -> A!Sens \cup {0}]
           /\ \A u \in A!Thread : alsPc'[u] \in {"send", "store", "fixed"} => new'[u] # 0
           /\ raced' \in BOOLEAN
<1> DEFINE s == A!ComputeSensitivity(v, sens)
<1>1. v \in Nat /\ sens \in Nat
  BY Numbers, AlsAssumption
<1>2. s \in A!Sens /\ s # 0
  BY <1>1, ComputeSuits, Numbers
<1>3. /\ alsPc' = [alsPc EXCEPT ![t] = IF s # sens THEN "send" ELSE "idle"]
      /\ new' = [new EXCEPT ![t] = IF s # sens THEN s ELSE 0]
      /\ raced' \in BOOLEAN
  BY DEF A!UpdateDyn, A!Races
<1> HIDE DEF s
<1> QED
  BY <1>2, <1>3 DEF A!TypeOK

\* appleals_push_new_value starts a well-typed update.
LEMMA PushType ==
    ASSUME A!TypeOK, NEW t \in A!Thread, NEW v \in Illums, NEW h, A!PushNewValue(t, v, h)
    PROVE  /\ alsPc' \in [A!Thread -> {"idle", "send", "store", "fixed", "read"}]
           /\ new' \in [A!Thread -> A!Sens \cup {0}]
           /\ \A u \in A!Thread : alsPc'[u] \in {"send", "store", "fixed"} => new'[u] # 0
           /\ raced' \in BOOLEAN
<1>1. CASE h = A!Dyn
  BY <1>1, UpdateType DEF A!PushNewValue
<1>2. CASE h # A!Dyn
  BY <1>2 DEF A!PushNewValue, A!TypeOK
<1> QED
  BY <1>1, <1>2

(* The iBridge forwards nothing to the light sensor.                       *)
LEMMA NotForwarded == "als" \notin A!Forwarded
BY DEF A!Forwarded, A!Subs

\* The HID event and every sysfs user are threads of the model.
LEMMA EventThread == "event" \in A!Thread /\ User \subseteq A!Thread
BY DEF A!Thread

(* Every step keeps the types.                                             *)
LEMMA SensTypeStep == A!TypeOK /\ [A!Next]_A!vars => A!TypeOK'
<1> SUFFICES ASSUME A!TypeOK, [A!Next]_A!vars PROVE A!TypeOK'
  OBVIOUS
<1>1. CASE A!Probe
  BY <1>1, Zenon DEF A!Probe, A!ConfigSensor, A!TypeOK
<1>2. CASE A!ResetResume
  <2>1. /\ resets' = resets + 1 /\ resets < MaxResets
        /\ report' \in BOOLEAN /\ devSens' = 0
        /\ UNCHANGED <<alsPc, new, raced, bound, hyst, sens, events, illum, ops>>
    BY <1>2, NotForwarded DEF A!ResetResume
  <2> QED
    BY <2>1, AlsAssumption DEF A!TypeOK
<1>3. ASSUME NEW v \in Illums, A!HidEvent(v) PROVE A!TypeOK'
  <2>1. A!PushNewValue("event", v, hyst)
    BY <1>3 DEF A!HidEvent
  <2> QED
    BY <1>3, <2>1, PushType, EventThread DEF A!HidEvent, A!TypeOK
<1>4. ASSUME NEW v \in Illums, A!Dusk(v) PROVE A!TypeOK'
  BY <1>4 DEF A!Dusk, A!TypeOK
<1>5. ASSUME NEW t \in A!Thread, A!SendSens(t) PROVE A!TypeOK'
  BY <1>5 DEF A!SendSens, A!TypeOK
<1>6. ASSUME NEW t \in A!Thread, A!StoreSens(t) PROVE A!TypeOK'
  BY <1>6 DEF A!StoreSens, A!TypeOK
<1>7. ASSUME NEW u \in User PROVE A!EnableEvents(u) => A!TypeOK'
  <2> SUFFICES ASSUME A!EnableEvents(u) PROVE A!TypeOK'
    OBVIOUS
  <2>1. A!PushNewValue(u, illum, hyst) /\ illum \in Illums /\ u \in A!Thread
    BY EventThread DEF A!EnableEvents, A!TypeOK
  <2>2. ops' \in 0 .. MaxOps
    BY AlsAssumption DEF A!EnableEvents, A!User0, A!TypeOK
  <2> QED
    BY <2>1, <2>2, PushType DEF A!EnableEvents, A!TypeOK
<1>8. ASSUME NEW u \in User PROVE A!DisableEvents(u) => A!TypeOK'
  <2> SUFFICES ASSUME A!DisableEvents(u) PROVE A!TypeOK'
    OBVIOUS
  <2>2. ops' \in 0 .. MaxOps
    BY AlsAssumption DEF A!DisableEvents, A!User0, A!TypeOK
  <2> QED
    BY <2>2 DEF A!DisableEvents, A!TypeOK
<1>9. ASSUME NEW u \in User PROVE A!WriteDyn(u) => A!TypeOK'
  <2> SUFFICES ASSUME A!WriteDyn(u) PROVE A!TypeOK'
    OBVIOUS
  <2>1. A!UpdateDyn(u, illum) /\ illum \in Illums /\ u \in A!Thread
    BY EventThread DEF A!WriteDyn, A!TypeOK
  <2>2. ops' \in 0 .. MaxOps
    BY AlsAssumption DEF A!WriteDyn, A!User0, A!TypeOK
  <2> QED
    BY <2>1, <2>2, UpdateType DEF A!WriteDyn, A!TypeOK
<1>10. ASSUME NEW u \in User, NEW n \in Fixed PROVE A!WriteFixed(u, n) => A!TypeOK'
  <2> SUFFICES ASSUME A!WriteFixed(u, n) PROVE A!TypeOK'
    OBVIOUS
  <2>1. n \in A!Sens /\ n # 0 /\ u \in A!Thread
    BY EventThread, AlsAssumption DEF A!Sens
  <2>2. ops' \in 0 .. MaxOps /\ raced' \in BOOLEAN
    BY AlsAssumption DEF A!WriteFixed, A!User0, A!Races, A!TypeOK
  <2> QED
    BY <2>1, <2>2 DEF A!WriteFixed, A!TypeOK
<1>11. ASSUME NEW u \in User PROVE A!ReadHyst(u) => A!TypeOK'
  <2> SUFFICES ASSUME A!ReadHyst(u) PROVE A!TypeOK'
    OBVIOUS
  <2>1. u \in A!Thread
    BY EventThread
  <2>2. ops' \in 0 .. MaxOps /\ raced' \in BOOLEAN
    BY AlsAssumption DEF A!ReadHyst, A!User0, A!Races, A!TypeOK
  <2> QED
    BY <2>1, <2>2 DEF A!ReadHyst, A!TypeOK
<1>12. ASSUME NEW u \in User PROVE A!StoreHyst(u) => A!TypeOK'
  BY EventThread DEF A!StoreHyst, A!TypeOK, A!Dyn
<1>13. CASE UNCHANGED A!vars
  BY <1>13 DEF A!vars, A!TypeOK
<1> QED
  BY <1>1, <1>2, <1>3, <1>4, <1>5, <1>6, <1>7, <1>8, <1>9, <1>10, <1>11, <1>12, <1>13
  DEF A!Next
---------------------------------------------------------------------------
(* appleals_update_dyn_sensitivity by a thread that was idle and raced     *)
(* with nobody: it keeps a value that suits, or sends one that does.       *)
LEMMA Updated ==
    ASSUME A!TypeOK, NEW t \in A!Thread, NEW v \in Illums, A!UpdateDyn(t, v),
           alsPc[t] = "idle", ~raced'
    PROVE  /\ ~raced /\ A!Idle
           /\ \A u \in A!Thread : u # t => alsPc'[u] = "idle"
           /\ \/ alsPc'[t] = "idle" /\ sens # A!Dyn /\ A!Suits(sens, v)
              \/ alsPc'[t] = "send" /\ A!Suits(new'[t], v) /\ ~A!Suits(sens, v)
<1> DEFINE s == A!ComputeSensitivity(v, sens)
<1>1. v \in Nat /\ sens \in Nat
  BY Numbers, AlsAssumption
<1>2. s # 0 /\ A!Suits(s, v) /\ (s # sens => ~A!Suits(sens, v))
  BY <1>1, ComputeSuits
<1>3. /\ alsPc' = [alsPc EXCEPT ![t] = IF s # sens THEN "send" ELSE "idle"]
      /\ new' = [new EXCEPT ![t] = IF s # sens THEN s ELSE 0]
  BY DEF A!UpdateDyn
<1>4. ~raced /\ \A u \in A!Thread \ {t} : alsPc[u] = "idle"
  BY Zenon DEF A!UpdateDyn, A!Races
<1>5. A!Idle
  BY <1>4 DEF A!Idle
<1> HIDE DEF s
<1>6. CASE s = sens
  BY <1>2, <1>3, <1>4, <1>5, <1>6 DEF A!TypeOK, A!Dyn
<1>7. CASE s # sens
  BY <1>2, <1>3, <1>4, <1>5, <1>7 DEF A!TypeOK
<1> QED
  BY <1>6, <1>7

(* The initial state satisfies the invariant.                              *)
LEMMA SensInitInv == A!Init => SensInv
<1> SUFFICES ASSUME A!Init PROVE SensInv
  OBVIOUS
<1>1. A!TypeOK
  <2>1. ops \in 0 .. MaxOps /\ resets \in 0 .. MaxResets
    BY AlsAssumption DEF A!Init
  <2>2. bound \in BOOLEAN /\ events \in BOOLEAN /\ report \in BOOLEAN /\ raced \in BOOLEAN
    BY Zenon DEF A!Init
  <2>3. /\ alsPc \in [A!Thread -> {"idle", "send", "store", "fixed", "read"}]
        /\ new \in [A!Thread -> A!Sens \cup {0}]
        /\ \A t \in A!Thread : alsPc[t] = "idle"
    BY DEF A!Init
  <2> QED
    BY <2>1, <2>2, <2>3 DEF A!Init, A!TypeOK
<1>2. Unbound /\ Alone /\ SensSending /\ Reading
  BY DEF A!Init, Unbound, Alone, SensSending, Reading
<1>3. SensKnown
  BY DEF A!Init, SensKnown
<1> QED
  BY <1>1, <1>2, <1>3 DEF SensInv

(* Everything but the types, which TypeStep keeps.                         *)
SensRest == /\ Unbound
            /\ ~raced => Alone /\ SensSending /\ Reading
            /\ ~raced /\ resets = 0 => SensKnown

(* A step that computes the sensitivity keeps the invariant: t was idle,   *)
(* the mode is dynamic afterwards and only thread t has moved.             *)
LEMMA UpdateStep ==
    ASSUME SensInv, NEW t \in A!Thread, alsPc[t] = "idle", illum' \in Illums,
           A!UpdateDyn(t, illum'), hyst' = A!Dyn, bound, UNCHANGED <<bound, sens, devSens, resets>>,
           resets = 0 => report' = events'
    PROVE  SensRest'
<1>1. Unbound'
  BY DEF Unbound
<1> SUFFICES ASSUME ~raced' PROVE Alone' /\ SensSending' /\ Reading' /\ (resets' = 0 => SensKnown')
  BY <1>1 DEF SensRest
<1>2. A!TypeOK
  BY DEF SensInv
<1>3. /\ ~raced /\ A!Idle
      /\ \A u \in A!Thread : u # t => alsPc'[u] = "idle"
      /\ \/ alsPc'[t] = "idle" /\ sens # A!Dyn /\ A!Suits(sens, illum')
         \/ alsPc'[t] = "send" /\ A!Suits(new'[t], illum') /\ ~A!Suits(sens, illum')
  BY <1>2, Updated
<1>4. Alone'
  BY <1>3 DEF Alone
<1>5. SensSending'
  BY <1>3 DEF SensSending
<1>6. Reading'
  BY <1>3 DEF Reading
<1>7. ASSUME resets' = 0 PROVE SensKnown'
  <2>1. SensKnown
    BY <1>3, <1>7 DEF SensInv
  <2>2. sens = A!Dyn \/ devSens = sens
    BY <2>1, <1>3 DEF SensKnown, A!Idle
  <2>3. report' = events'
    BY <1>7
  <2>4. A!Idle' => alsPc'[t] = "idle"
    BY DEF A!Idle
  <2>5. (A!Idle /\ hyst = A!Dyn => sens = A!Dyn \/ devSens = sens)'
    BY <2>2
  <2>6. (A!Idle /\ hyst = A!Dyn /\ report => A!Suits(sens, illum))'
    BY <1>3, <2>4
  <2>7. \A u \in A!Thread : alsPc'[u] \notin {"store", "fixed", "read"}
    BY <1>3
  <2> QED
    BY <2>3, <2>5, <2>6, <2>7 DEF SensKnown
<1> QED
  BY <1>4, <1>5, <1>6, <1>7

(* With a fixed hysteresis nobody is sending, so reports change nothing.   *)
LEMMA FixedStep ==
    ASSUME SensInv, hyst # A!Dyn, bound, UNCHANGED <<bound, hyst, sens, devSens, alsPc, new, raced, resets>>,
           resets = 0 => report' = events'
    PROVE  SensRest'
<1>1. Unbound'
  BY DEF Unbound
<1>2. ASSUME ~raced' PROVE Alone' /\ SensSending' /\ Reading'
  BY <1>2 DEF SensInv, Alone, SensSending, Reading
<1>3. ASSUME ~raced', resets' = 0 PROVE SensKnown'
  BY <1>3 DEF SensInv, SensKnown, A!Idle
<1> QED
  BY <1>1, <1>2, <1>3 DEF SensRest

(* appleals_push_new_value keeps the invariant.                            *)
LEMMA PushStep ==
    ASSUME SensInv, NEW t \in A!Thread, alsPc[t] = "idle", illum' \in Illums,
           A!PushNewValue(t, illum', hyst), bound, UNCHANGED <<bound, hyst, sens, devSens, resets>>,
           resets = 0 => report' = events'
    PROVE  SensRest'
<1>1. CASE hyst = A!Dyn
  <2>1. A!UpdateDyn(t, illum') /\ hyst' = A!Dyn
    BY <1>1 DEF A!PushNewValue
  <2> QED
    BY <2>1, UpdateStep
<1>2. CASE hyst # A!Dyn
  <2>1. UNCHANGED <<alsPc, new, raced>>
    BY <1>2 DEF A!PushNewValue
  <2> QED
    BY <2>1, <1>2, FixedStep
<1> QED
  BY <1>1, <1>2
(* A user who sets or reads a fixed hysteresis keeps the invariant; here   *)
(* up to the point where the value is noted.                               *)
LEMMA BeginFixed ==
    ASSUME SensInv, NEW u \in User,
           (\E n \in Fixed : A!WriteFixed(u, n)) \/ A!ReadHyst(u)
    PROVE  SensRest'
<1>1. /\ UNCHANGED <<bound, hyst, sens, events, report, illum, resets>>
      /\ bound /\ alsPc[u] = "idle" /\ A!Races(u)
  BY DEF A!WriteFixed, A!ReadHyst, A!User0
<1>2. Unbound'
  BY <1>1 DEF SensInv, Unbound
<1> SUFFICES ASSUME ~raced' PROVE Alone' /\ SensSending' /\ Reading' /\ (resets' = 0 => SensKnown')
  BY <1>2 DEF SensRest
<1>3. u \in A!Thread /\ A!TypeOK
  BY EventThread DEF SensInv
<1>4. ~raced /\ \A t \in A!Thread : alsPc[t] = "idle"
  BY <1>1, <1>3, Zenon DEF A!Races
<1>5. CASE \E n \in Fixed : A!WriteFixed(u, n)
  <2>1. PICK n \in Fixed : A!WriteFixed(u, n)
    BY <1>5
  <2>2. /\ alsPc'[u] = "fixed" /\ new'[u] = n /\ devSens' = n /\ n # 0
        /\ \A t \in A!Thread : t # u => alsPc'[t] = "idle"
    BY <2>1, <1>3, <1>4, AlsAssumption DEF A!WriteFixed, A!TypeOK
  <2>3. ~A!Idle'
    BY <2>2, <1>3 DEF A!Idle
  <2>4. Alone' /\ SensSending' /\ Reading'
    BY <2>2 DEF Alone, SensSending, Reading
  <2>5. resets' = 0 => SensKnown'
    BY <2>2, <2>3, <1>1, <1>3, <1>4 DEF SensInv, SensKnown
  <2> QED
    BY <2>4, <2>5
<1>6. CASE A!ReadHyst(u)
  <2>2. /\ alsPc'[u] = "read" /\ new'[u] = devSens /\ devSens' = devSens /\ hyst # A!Dyn
        /\ \A t \in A!Thread : t # u => alsPc'[t] = "idle"
    BY <1>6, <1>3, <1>4 DEF A!ReadHyst, A!TypeOK
  <2>3. ~A!Idle'
    BY <2>2, <1>3 DEF A!Idle
  <2>4. Alone' /\ SensSending' /\ Reading'
    BY <2>2, <1>1 DEF Alone, SensSending, Reading
  <2>5. resets' = 0 => SensKnown'
    BY <2>2, <2>3, <1>1, <1>3, <1>4 DEF SensInv, SensKnown
  <2> QED
    BY <2>4, <2>5
<1> QED
  BY <1>5, <1>6

(* When the only thread at work ends, all are idle.                        *)
LEMMA Ends ==
    ASSUME A!TypeOK, Alone, NEW t \in A!Thread, alsPc[t] # "idle", alsPc' = [alsPc EXCEPT ![t] = "idle"]
    PROVE  /\ \A u \in A!Thread : u # t => alsPc[u] = "idle"
           /\ \A u \in A!Thread : alsPc'[u] = "idle"
BY DEF A!TypeOK, Alone

(* Noting the fixed hysteresis keeps the invariant.                        *)
LEMMA EndFixed ==
    ASSUME SensInv, NEW u \in User, A!StoreHyst(u)
    PROVE  SensRest'
<1>1. /\ alsPc[u] \in {"fixed", "read"} /\ sens' = new[u] /\ hyst' = new[u]
      /\ alsPc' = [alsPc EXCEPT ![u] = "idle"]
      /\ UNCHANGED <<bound, events, report, devSens, raced, resets>>
  BY DEF A!StoreHyst
<1>2. Unbound'
  BY <1>1 DEF SensInv, Unbound
<1> SUFFICES ASSUME ~raced' PROVE Alone' /\ SensSending' /\ Reading' /\ (resets' = 0 => SensKnown')
  BY <1>2 DEF SensRest
<1>3. u \in A!Thread /\ A!TypeOK /\ ~raced /\ Alone
  BY <1>1, EventThread DEF SensInv
<1>4. /\ \A t \in A!Thread : t # u => alsPc[t] = "idle"
      /\ \A t \in A!Thread : alsPc'[t] = "idle"
  BY <1>1, <1>3, Ends
<1>5. Alone' /\ SensSending' /\ Reading'
  BY <1>4 DEF Alone, SensSending, Reading
<1>6. ASSUME resets' = 0 PROVE SensKnown'
  <2>1. SensKnown
    BY <1>1, <1>3, <1>6 DEF SensInv
  <2>2. devSens = new[u] /\ new[u] # A!Dyn
    <3>1. CASE alsPc[u] = "fixed"
      BY <3>1, <2>1, <1>3 DEF SensKnown, A!Dyn
    <3>2. CASE alsPc[u] = "read"
      BY <3>2, <2>1, <1>3, <1>4 DEF SensKnown
    <3> QED
      BY <1>1, <3>1, <3>2
  <2> QED
    BY <2>1, <2>2, <1>1, <1>4 DEF SensKnown
<1> QED
  BY <1>5, <1>6

(* A dynamic sensitivity reaches the sensor.                               *)
LEMMA SendStep ==
    ASSUME SensInv, NEW t \in A!Thread, A!SendSens(t)
    PROVE  SensRest'
<1>1. /\ alsPc[t] = "send" /\ devSens' = new[t] /\ alsPc' = [alsPc EXCEPT ![t] = "store"]
      /\ UNCHANGED <<bound, hyst, sens, events, new, report, illum, raced, resets>>
  BY DEF A!SendSens
<1>2. Unbound'
  BY <1>1 DEF SensInv, Unbound
<1> SUFFICES ASSUME ~raced' PROVE Alone' /\ SensSending' /\ Reading' /\ (resets' = 0 => SensKnown')
  BY <1>2 DEF SensRest
<1>3. A!TypeOK /\ ~raced /\ Alone /\ SensSending /\ Reading
  BY <1>1 DEF SensInv
<1>4. /\ alsPc'[t] = "store"
      /\ \A u \in A!Thread : u # t => alsPc[u] = "idle" /\ alsPc'[u] = "idle"
  BY <1>1, <1>3 DEF A!TypeOK, Alone
<1>5. Alone' /\ Reading'
  BY <1>4 DEF Alone, Reading
<1>6. SensSending'
  BY <1>1, <1>3, <1>4 DEF SensSending
<1>7. ASSUME resets' = 0 PROVE SensKnown'
  <2>1. SensKnown /\ hyst = A!Dyn
    BY <1>1, <1>3, <1>7 DEF SensInv, SensSending
  <2>2. ~A!Idle'
    BY <1>4 DEF A!Idle
  <2> QED
    BY <2>1, <2>2, <1>1, <1>4 DEF SensKnown
<1> QED
  BY <1>5, <1>6, <1>7

(* A dynamic sensitivity is noted.                                         *)
LEMMA StoreStep ==
    ASSUME SensInv, NEW t \in A!Thread, A!StoreSens(t)
    PROVE  SensRest'
<1>1. /\ alsPc[t] = "store" /\ sens' = new[t] /\ alsPc' = [alsPc EXCEPT ![t] = "idle"]
      /\ UNCHANGED <<bound, hyst, events, report, devSens, illum, raced, resets>>
  BY DEF A!StoreSens
<1>2. Unbound'
  BY <1>1 DEF SensInv, Unbound
<1> SUFFICES ASSUME ~raced' PROVE Alone' /\ SensSending' /\ Reading' /\ (resets' = 0 => SensKnown')
  BY <1>2 DEF SensRest
<1>3. A!TypeOK /\ ~raced /\ Alone /\ SensSending
  BY <1>1 DEF SensInv
<1>4. \A u \in A!Thread : alsPc'[u] = "idle"
  BY <1>1, <1>3, Ends
<1>5. Alone' /\ SensSending' /\ Reading'
  BY <1>4 DEF Alone, SensSending, Reading
<1>6. ASSUME resets' = 0 PROVE SensKnown'
  <2>1. SensKnown
    BY <1>1, <1>3, <1>6 DEF SensInv
  <2>2. hyst = A!Dyn /\ (report => A!Suits(new[t], illum)) /\ devSens = new[t]
    BY <2>1, <1>1, <1>3 DEF SensSending, SensKnown
  <2> QED
    BY <2>1, <2>2, <1>1, <1>4 DEF SensKnown
<1> QED
  BY <1>5, <1>6

(* Every step keeps the invariant.                                         *)
LEMMA SensInvStep == SensInv /\ [A!Next]_A!vars => SensInv'
<1> SUFFICES ASSUME SensInv, [A!Next]_A!vars PROVE SensInv'
  OBVIOUS
<1>0. A!TypeOK'
  BY SensTypeStep DEF SensInv
<1> SUFFICES SensRest'
  BY <1>0 DEF SensInv, SensRest
<1>1. CASE A!Probe
  <2>1. report' = FALSE /\ devSens' = devSens /\ ~bound
        /\ UNCHANGED <<hyst, sens, events, alsPc, new, illum, raced, resets>>
    BY <1>1 DEF A!Probe, A!ConfigSensor
  <2>2. events = FALSE
    BY <2>1, Zenon DEF SensInv, Unbound, A!TypeOK
  <2>3. Unbound'
    BY <2>1, <2>2 DEF Unbound
  <2>4. ASSUME ~raced' PROVE Alone' /\ SensSending' /\ Reading'
    BY <2>1, <2>4 DEF SensInv, Alone, SensSending, Reading
  <2>5. ASSUME ~raced', resets' = 0 PROVE SensKnown'
    BY <2>1, <2>2, <2>5 DEF SensInv, SensKnown, A!Idle
  <2> QED
    BY <2>3, <2>4, <2>5 DEF SensRest
<1>2. CASE A!ResetResume
  <2>1. resets' = resets + 1 /\ resets \in Nat /\ bound /\ A!Idle
        /\ UNCHANGED <<alsPc, bound>>
    BY <1>2, NotForwarded DEF A!ResetResume, SensInv, A!TypeOK
  <2>2. resets' # 0
    BY <2>1
  <2> QED
    BY <2>1, <2>2 DEF SensRest, A!Idle, Unbound, Alone, SensSending, Reading
<1>3. ASSUME NEW v \in Illums, A!HidEvent(v) PROVE SensRest'
  <2>1. /\ A!PushNewValue("event", illum', hyst) /\ illum' \in Illums
        /\ alsPc["event"] = "idle" /\ bound
        /\ UNCHANGED <<bound, hyst, sens, events, report, devSens, resets>>
    BY <1>3 DEF A!HidEvent
  <2>2. ~raced' => ~raced
    BY <2>1, Zenon DEF A!PushNewValue, A!UpdateDyn, A!Races
  <2>3. CASE raced
    BY <2>1, <2>2, <2>3 DEF SensRest, Unbound
  <2>4. CASE ~raced
    <3>1. resets = 0 => report' = events'
      BY <2>1, <2>4 DEF SensInv, SensKnown
    <3> QED
      BY <2>1, <3>1, PushStep, EventThread
  <2> QED
    BY <2>3, <2>4
<1>4. ASSUME NEW v \in Illums, A!Dusk(v) PROVE SensRest'
  <2>1. ~report /\ UNCHANGED <<bound, hyst, sens, events, alsPc, new, report, devSens, raced, resets>>
    BY <1>4 DEF A!Dusk
  <2> QED
    BY <2>1 DEF SensInv, SensRest, Unbound, Alone, SensSending, Reading, SensKnown, A!Idle
<1>5. ASSUME NEW u \in User, A!EnableEvents(u) PROVE SensRest'
  <2>1. /\ A!PushNewValue(u, illum', hyst) /\ illum' \in Illums
        /\ alsPc[u] = "idle" /\ bound /\ report' = events'
        /\ UNCHANGED <<bound, hyst, sens, devSens, resets>>
    BY <1>5 DEF A!EnableEvents, A!User0, SensInv, A!TypeOK
  <2> QED
    BY <2>1, PushStep, EventThread
<1>6. ASSUME NEW u \in User, A!DisableEvents(u) PROVE SensRest'
  <2>1. /\ report' = FALSE /\ events' = FALSE
        /\ UNCHANGED <<bound, hyst, sens, alsPc, new, devSens, illum, raced, resets>>
    BY <1>6 DEF A!DisableEvents
  <2>2. Unbound'
    BY <2>1 DEF Unbound
  <2>3. ASSUME ~raced' PROVE Alone' /\ SensSending' /\ Reading'
    BY <2>1, <2>3 DEF SensInv, Alone, SensSending, Reading
  <2>4. ASSUME ~raced', resets' = 0 PROVE SensKnown'
    BY <2>1, <2>4 DEF SensInv, SensKnown, A!Idle
  <2> QED
    BY <2>2, <2>3, <2>4 DEF SensRest
<1>7. ASSUME NEW u \in User, A!WriteDyn(u) PROVE SensRest'
  <2>1. /\ A!UpdateDyn(u, illum') /\ illum' \in Illums
        /\ alsPc[u] = "idle" /\ bound /\ hyst' = A!Dyn /\ hyst # A!Dyn
        /\ UNCHANGED <<bound, sens, events, report, devSens, resets>>
    BY <1>7 DEF A!WriteDyn, A!User0, SensInv, A!TypeOK
  <2>2. ~raced' => ~raced
    BY <2>1, Zenon DEF A!UpdateDyn, A!Races
  <2>3. CASE raced
    BY <2>1, <2>2, <2>3 DEF SensRest, Unbound
  <2>4. CASE ~raced
    <3>1. resets = 0 => report' = events'
      BY <2>1, <2>4 DEF SensInv, SensKnown
    <3> QED
      BY <2>1, <3>1, UpdateStep, EventThread
  <2> QED
    BY <2>3, <2>4
<1>8. CASE UNCHANGED A!vars
  BY <1>8
    DEF A!vars, SensInv, SensRest, Unbound, Alone, SensSending, Reading, SensKnown, A!Idle
<1> QED
  BY <1>1, <1>2, <1>3, <1>4, <1>5, <1>6, <1>7, <1>8, SendStep, StoreStep, BeginFixed,
     EndFixed
  DEF A!Next
---------------------------------------------------------------------------
(* SensInv is an invariant of the driver: the Touch Bar's steps leave the  *)
(* light sensor alone.                                                     *)
THEOREM SensInvariance == IbridgeSpec => [][A!Next]_A!vars /\ []SensInv
<1>1. IbridgeInit => SensInv
  BY SensInitInv DEF IbridgeInit
<1>2. [AlsNext \/ TbNext]_allVars => [A!Next]_A!vars
  <2>1. AlsNext => A!Next
    BY DEF AlsNext
  <2>2. TbNext => UNCHANGED A!vars
    BY DEF TbNext, InTb, alsVars, A!vars
  <2>3. UNCHANGED allVars => UNCHANGED A!vars
    BY DEF allVars, alsVars, A!vars
  <2> QED
    BY <2>1, <2>2, <2>3
<1>3. SensInv /\ [A!Next]_A!vars => SensInv'
  BY SensInvStep
<1> QED
  BY <1>1, <1>2, <1>3, PTL DEF IbridgeSpec

(* Every field of appleals_device keeps its range, and a request on its    *)
(* way to the sensor never carries the "dynamic" marker.                   *)
THEOREM SensTypeCorrect == IbridgeSpec => []A!TypeOK
<1>1. SensInv => A!TypeOK
  BY DEF SensInv
<1> QED
  BY <1>1, SensInvariance, PTL

(* With hysteresis 0 the sensor and cur_sensitivity agree on a sensitivity *)
(* that suits the brightness, wherever no two threads have raced.          *)
THEOREM SensitivityFollows == IbridgeSpec => []Follows
<1>1. SensInv => Follows
  <2> SUFFICES ASSUME SensInv, bound, A!Idle, hyst = A!Dyn, events, ~raced, resets = 0
               PROVE  A!Suits(sens, illum) /\ devSens = sens
    BY DEF Follows, A!Follows
  <2>1. SensKnown /\ A!TypeOK
    BY DEF SensInv
  <2>2. report
    BY <2>1, Zenon DEF SensKnown
  <2>3. A!Suits(sens, illum) /\ (sens = A!Dyn \/ devSens = sens)
    BY <2>1, <2>2 DEF SensKnown
  <2>4. sens # A!Dyn
    BY <2>3, Table DEF A!Suits, A!Dyn
  <2> QED
    BY <2>3, <2>4
<1> QED
  BY <1>1, SensInvariance, PTL

(* A fixed hysteresis is the sensor's sensitivity, with the same provisos. *)
THEOREM FixedStays == IbridgeSpec => []A!FixedKept
<1>1. SensInv => A!FixedKept
  <2> SUFFICES ASSUME SensInv, A!Idle, hyst # A!Dyn, ~raced, resets = 0
               PROVE  sens = hyst /\ devSens = hyst
    BY DEF A!FixedKept
  <2>1. SensKnown
    BY DEF SensInv
  <2> QED
    BY <2>1 DEF SensKnown, A!Idle
<1> QED
  BY <1>1, SensInvariance, PTL

(* While the sensor reports, appleals_update_dyn_sensitivity replaces a    *)
(* sensitivity only when the brightness has left its range.                *)
THEOREM NeverFlaps == IbridgeSpec => NoFlapping
<1> DEFINE Keeps == hyst = A!Dyn /\ hyst' = A!Dyn /\ report /\ sens' # sens /\ ~raced =>
                        ~A!Suits(sens, illum)
<1>1. SensInv /\ [A!Next]_A!vars => [Keeps]_A!vars
  <2> SUFFICES ASSUME SensInv, [A!Next]_A!vars, hyst = A!Dyn, hyst' = A!Dyn, report,
                      sens' # sens, ~raced
               PROVE  ~A!Suits(sens, illum)
    OBVIOUS
  <2>1. SensSending /\ Reading /\ A!TypeOK
    BY DEF SensInv
  <2>2. ASSUME NEW t \in A!Thread, A!StoreSens(t) PROVE ~A!Suits(sens, illum)
    BY <2>1, <2>2 DEF SensSending, A!StoreSens
  <2>3. ASSUME NEW u \in User, A!StoreHyst(u) PROVE FALSE
    <3>1. CASE alsPc[u] = "read"
      BY <2>1, <3>1, EventThread DEF Reading
    <3>2. CASE alsPc[u] = "fixed"
      <4>1. new[u] # 0
        BY <2>1, <3>2, EventThread DEF A!TypeOK
      <4> QED
        BY <4>1, <2>3 DEF A!StoreHyst, A!Dyn
    <3> QED
      BY <2>3, <3>1, <3>2 DEF A!StoreHyst
  <2>4. (\E t \in A!Thread : A!StoreSens(t)) \/ (\E u \in User : A!StoreHyst(u))
    BY DEF A!Next, A!vars, A!Probe, A!ResetResume, A!HidEvent, A!Dusk, A!SendSens,
           A!EnableEvents, A!DisableEvents, A!WriteDyn, A!WriteFixed, A!ReadHyst
  <2> QED
    BY <2>2, <2>3, <2>4
<1> QED
  BY <1>1, SensInvariance, PTL DEF NoFlapping, A!NoFlapping

---------------------------------------------------------------------------
USE TbAssumption DEF None, Iface, Mode, Disp, WorkerPc, PmPc

---------------------------------------------------------------------------
(* Where everybody is.                                                     *)

Sending == pc \in {"mode", "disp", "relock"}

\* The worker's local variables are set where they are used and only there.
WorkerShape ==
    /\ ~Sending => wMode = "NONE" /\ wDisp = "NONE" /\ ~wRestore /\ rc1 = "skip" /\ rc2 = "skip"
    /\ pc = "mode" => rc1 = "skip"
    /\ pc \in {"mode", "disp"} => rc2 = "skip"
    /\ pc \in {"disp", "relock"} => (rc1 = "skip" <=> wMode = "NONE")
    /\ pc = "relock" => (rc2 = "skip" <=> wDisp = "NONE")
    /\ pc \notin {"sched", "timeout", "store"} => wNext = "NONE"
    /\ pc \in {"timeout", "store"} => wNext # "NONE"
    /\ "fail" \in {rc1, rc2} => fails > 0

\* The driver is active exactly while both interfaces are bound and awake;
\* with one missing the work is neither pending nor running.
PmShape ==
    /\ suspended \subseteq hdev
    /\ active => hdev = Iface /\ suspended = {} /\ pm \in {"run", "register"}
    /\ pm = "run" /\ suspended = {} /\ hdev = Iface => active
    /\ pm \in {"flush", "wait"} => suspended # {}
    /\ pm \in {"offMode", "offDisp", "offStore"} => suspended # {} /\ hdev \subseteq suspended
    /\ pm = "register" => active
    /\ pm \in {"undo", "cancel"} => hdev = Iface
    /\ pm \in {"undo", "cancel", "quit", "gone"} => suspended = {}
    /\ pm \in {"quit", "gone"} => pc = "idle" /\ due = None
    /\ hdev # Iface => pc = "idle" /\ due = None

\* While the worker runs only an update can have queued it again.
FlushShape ==
    /\ pc # "idle" => due \in {None, 0}
    /\ suspended # {} /\ due # None => pc = "idle"
    /\ flush = "queued" => pm = "wait" /\ due = 0
    /\ flush = "running" => pm = "wait" /\ pc # "idle"

---------------------------------------------------------------------------
(* One part for each promise.                                              *)

\* A request that came during a transfer has queued the work again.
PromptInv ==
    /\ Prompt
    /\ active /\ Sending /\ (pndMode # wMode \/ pndDisp # wDisp) => due = 0

\* "UPD" is left pending only by a probe with a key believed down.
RealInv ==
    /\ keys # {} /\ ~active => missed
    /\ "UPD" \in {pndMode, pndDisp, wMode, wDisp, curMode, curDisp, devMode, devDisp} => missed

\* What excuses the power references: a suspend or a removal.
PowerInv ==
    /\ restore \/ wRestore \/ suspended # {} => suspends > 0
    /\ pm \in {"cancel", "quit"} => removes > 0
    /\ PowerBalanced

\* A key that is down for the input layer is held, was translated as it will
\* be when it goes up, and keeps the bar from going dark.
KeyInv ==
    /\ xlated \subseteq Translatable
    /\ ~Listening => down = {}
    /\ ~missed /\ active => keys = held
    /\ ~missed /\ ~offUnder /\ ~active =>
           \A k \in Key : /\ <<k, "special">> \notin down
                          /\ <<k, "fn">> \in down => k \in held
    /\ ~missed /\ ~offUnder /\ active =>
           /\ \A k \in Key : /\ <<k, "special">> \in down => k \in held /\ k \in xlated
                             /\ <<k, "fn">> \in down => k \in held /\ k \notin xlated
           /\ down # {} => ~Dark
           /\ keys # {} => ~GoingOff

---------------------------------------------------------------------------
(* What the device was told.                                               *)

InUse   == hdev = Iface /\ (active \/ suspended # {})
Asleep  == hdev \subseteq suspended
Settled == pm = "wait" /\ flush = "done"
\* The run of the work that was under way at the first suspend has ended.
Flushed == hdev = Iface /\ suspended # {} /\ (pm = "run" \/ Asleep \/ Settled)
DueDead == due = None /\ pc = "idle"

\* From then on there are no updates: the work sends all that is pending, and
\* what it does on a timeout is not what an active driver wants.
ReadyInv ==
    Flushed =>
        /\ Sending => pndMode = wMode /\ pndDisp = wDisp
        /\ pc \in {"sched", "timeout", "store"} => pndMode = "NONE" /\ pndDisp = "NONE"
        /\ pc \in {"timeout", "store"} => wNext # WantDisp /\ WantDisp # "OFF"

\* Once the second flush has ended the work sends nothing.
SleepInv ==
    hdev = Iface /\ Asleep /\ (pm \notin {"flush", "wait"} \/ Settled) =>
        /\ wMode = "NONE" /\ wDisp = "NONE"
        /\ \/ pndMode = "NONE" /\ pndDisp = "NONE"
           \/ DueDead

\* A transfer that succeeded is what the device was last told.
SentInv ==
    InUse => /\ rc1 = "ok" => devMode = wMode
             /\ rc2 = "ok" => devDisp = wDisp

\* cur_tb_disp, or what it is about to be.
Shown == IF pc = "store" THEN wNext ELSE curDisp
\* A resume will find that another display is wanted.
Stale == /\ WantDisp # "OFF" /\ curDisp # WantDisp
         /\ pc \in {"timeout", "store"} => wNext # WantDisp

\* The driver knows, or is about to know, or something is pending.
ToldInv ==
    InUse /\ ~Asleep =>
        /\ curMode = devMode \/ pndMode # "NONE" \/ rc1 = "ok"
        /\ \/ Shown = devDisp \/ pndDisp # "NONE" \/ rc2 = "ok"
           \/ suspended # {} /\ Stale

\* When the device sleeps all is ready for the reset that comes.
WakeInv ==
    hdev = Iface /\ Asleep /\ pm = "run" =>
        /\ curMode = "OFF"
        /\ \/ pndDisp # "NONE"
           \/ curDisp = "OFF" /\ pc \notin {"timeout", "store"}
           \/ Stale

KnownInv == fails = 0 => ReadyInv /\ SleepInv /\ SentInv /\ ToldInv /\ WakeInv

TbInv ==
    /\ TypeOK /\ WorkerShape /\ PmShape /\ FlushShape
    /\ PromptInv /\ RealInv /\ PowerInv /\ KeyInv /\ KnownInv

---------------------------------------------------------------------------
(* What an update does.                                                    *)

\* The mode and display wanted are commands.
LEMMA WantTypes ==
    /\ WantMode \in {"FN", "SPCL", "OFF"}
    /\ WantDisp \in {"ON", "DIM", "OFF"}
<1>1. FnTbMode \in {"FN", "SPCL"}
  BY DEF FnTbMode
<1> QED
  BY <1>1 DEF WantMode, WantDisp

\* While the settings are left alone so is the display wanted.
LEMMA WantKept ==
    ASSUME UNCHANGED <<idleTimeout, dimTimeout>>
    PROVE  WantDisp' = WantDisp
  BY DEF WantDisp

\* appletb_update_touchbar_no_lock: what it leaves pending, and when it queues
\* the work.
LEMMA UpdateFacts ==
    ASSUME NEW pM, NEW pD, NEW force \in BOOLEAN, Update(pM, pD, force)
    PROVE  /\ WantMode' \in {"FN", "SPCL", "OFF"} /\ WantDisp' \in {"ON", "DIM", "OFF"}
           /\ pndMode' \in {pM, WantMode'} /\ pndDisp' \in {pD, WantDisp'}
           /\ pndMode' # pM => keys' = {} /\ due' = 0
           /\ pndDisp' # pD => due' = 0
           /\ pndDisp' # pD /\ pndDisp' = "OFF" => keys' = {}
           /\ due' \in {due, 0} /\ (force => due' = 0)
           /\ pM = "UPD" /\ keys' = {} => pndMode' = WantMode' /\ due' = 0
           /\ pD = "UPD" /\ keys' = {} => pndDisp' = WantDisp' /\ due' = 0
           /\ pD = "NONE" /\ curDisp # WantDisp' /\ WantDisp' # "OFF" => pndDisp' = WantDisp'
<1>1. WantMode' \in {"FN", "SPCL", "OFF"} /\ WantDisp' \in {"ON", "DIM", "OFF"}
  <2>1. FnTbMode' \in {"FN", "SPCL"}
    BY DEF FnTbMode
  <2> QED
    BY <2>1 DEF WantMode, WantDisp
<1> QED
  BY <1>1 DEF Update, Latest

\* It leaves commands pending.
LEMMA UpdateTyped ==
    ASSUME TypeOK, NEW pM \in {pndMode, "UPD"}, NEW pD \in {pndDisp, "UPD"},
           NEW force \in BOOLEAN, Update(pM, pD, force)
    PROVE  /\ pndMode' \in Mode \cup {"NONE"} /\ pndDisp' \in Disp \cup {"NONE"}
           /\ due' \in Nat \cup {None}
<1>1. /\ WantMode' \in {"FN", "SPCL", "OFF"} /\ WantDisp' \in {"ON", "DIM", "OFF"}
      /\ pndMode' \in {pM, WantMode'} /\ pndDisp' \in {pD, WantDisp'} /\ due' \in {due, 0}
  BY UpdateFacts
<1> QED
  BY <1>1 DEF TypeOK

\* The worker's times are times.
LEMMA TimesTyped ==
    ASSUME idleTimeout \in Int, dimTimeout \in Int, idleTime \in Int
    PROVE  /\ MinTimeout \in Int /\ TimeToOff \in Nat \cup {None} /\ NextDisp \in {"DIM", "OFF"}
           /\ MinTimeout > idleTime => MinTimeout - idleTime \in Nat
           /\ MinTimeout > 0 => MinTimeout \in Nat
  BY DEF MinTimeout, TimeToOff, NextDisp, Min2

\* The bounds are numbers,
LEMMA Bounds ==
    /\ MaxIdle \in Nat /\ 0 \in 0 .. MaxIdle
    /\ MaxStores \in Nat /\ MaxSuspends \in Nat /\ MaxRemoves \in Nat /\ MaxFails \in Nat
    /\ DefFn \in FnModes
    /\ \A n \in Idles \cup Dims : n \in Int /\ n >= -2
    /\ \A p \in Params : p[1] \in Idles /\ p[2] \in Dims
<1>1. /\ MaxIdle \in Nat /\ MaxStores \in Nat /\ MaxSuspends \in Nat /\ MaxRemoves \in Nat
      /\ MaxFails \in Nat
  OBVIOUS
<1>2. 0 \in 0 .. MaxIdle
  BY <1>1
<1>3. \A n \in Idles \cup Dims : n \in Int /\ n >= -2
  OBVIOUS
<1>4. \A p \in Params : p[1] \in Idles /\ p[2] \in Dims
  OBVIOUS
<1> QED
  BY <1>1, <1>2, <1>3, <1>4

\* ... and so is what they bound.
LEMMA Bounded ==
    ASSUME TypeOK
    PROVE  /\ {stores, suspends, removes, fails, idleTime} \subseteq Nat
           /\ idleTimeout \in Int /\ idleTimeout >= -2
<1>1. {stores, suspends, removes, fails, idleTime} \subseteq Nat
  BY Bounds DEF TypeOK
<1>2. idleTimeout \in Int /\ idleTimeout >= -2
  BY Bounds DEF TypeOK
<1> QED
  BY <1>1, <1>2

\* The timeout that comes first asks for another display than an event would.
LEMMA TimeoutDiffers ==
    ASSUME idleTimeout \in Int, dimTimeout \in Int, idleTime \in Int,
           idleTimeout >= -2, dimTimeout >= -1, MinTimeout > 0, MinTimeout <= idleTime
    PROVE  NextDisp # WantDisp /\ WantDisp # "OFF" /\ NextDisp \in {"DIM", "OFF"}
  BY DEF MinTimeout, NextDisp, WantDisp, Min2

\* A calculated dim_timeout is a time, or none.
LEMMA CalcDimTyped ==
    ASSUME NEW n \in Int
    PROVE  CalcDim(n) \in Int /\ CalcDim(n) >= -1
  BY DEF CalcDim, Min2


\* A display command changes the power reference with autopm.
LEMMA PmChangeFacts ==
    ASSUME NEW d, autopmOff \in BOOLEAN
    PROVE  /\ PmChange(d) \in Int
           /\ pmRefs = (IF autopmOff THEN 1 ELSE 0) =>
                  pmRefs + PmChange(d) = IF d # "OFF" THEN 1 ELSE 0
  BY DEF PmChange

---------------------------------------------------------------------------
(* What the key invariant says of a driver at rest.                        *)

\* A key that is down in the input layer of an active driver is one it knows.
LEMMA DownKnown ==
    ASSUME TypeOK, KeyInv, active, ~missed, ~offUnder
    PROVE  down # {} => keys # {}
<1>1. \A k \in Key : <<k, "special">> \in down \/ <<k, "fn">> \in down => k \in keys
  BY DEF KeyInv
<1>2. \A e \in down : \E k \in Key : e = <<k, "fn">> \/ e = <<k, "special">>
  BY DEF TypeOK
<1> QED
  BY <1>1, <1>2

\* With no key held an inactive driver has none.
LEMMA NoneHeld ==
    ASSUME TypeOK, KeyInv, RealInv, ~active, ~missed, held = {}
    PROVE  keys = {} /\ (~offUnder => down = {})
<1>1. keys = {}
  BY DEF RealInv
<1>2. \A e \in down : \E k \in Key : e = <<k, "fn">> \/ e = <<k, "special">>
  BY DEF TypeOK
<1>3. ~offUnder => \A k \in Key : <<k, "special">> \notin down /\ <<k, "fn">> \notin down
  BY DEF KeyInv
<1> QED
  BY <1>1, <1>2, <1>3

---------------------------------------------------------------------------
(* One lemma for each action.                                              *)

\* A key goes down or up (appletb_hid_event).
LEMMA KeyEventInv ==
    ASSUME TbInv, NEW k \in Key, KeyEvent(k)
    PROVE  TbInv'
<1> USE DEF KeyEvent, ifVars, pmVars, setVars, workVars, thrVars, devVars, bndVars
<1>1. TypeOK'
  <2>1. /\ pndMode' \in Mode \cup {"NONE"} /\ pndDisp' \in Disp \cup {"NONE"}
        /\ due' \in Nat \cup {None}
    BY UpdateTyped DEF TbInv
  <2>2. /\ held' \subseteq Key /\ keys' \subseteq Key /\ xlated' \subseteq Key
        /\ down' \subseteq Key \X {"fn", "special"} /\ idleTime' \in 0 .. MaxIdle
        /\ offUnder' \in BOOLEAN
    BY Bounds DEF TbInv, TypeOK, GoingOff
  <2> QED
    BY <2>1, <2>2 DEF TbInv, TypeOK
<1>2. WorkerShape'
  BY UpdateFacts DEF TbInv, TypeOK, WorkerShape, PmShape, FlushShape, Sending
<1>3. PmShape'
  BY UpdateFacts DEF TbInv, TypeOK, WorkerShape, PmShape, FlushShape
<1>4. FlushShape'
  BY UpdateFacts DEF TbInv, TypeOK, WorkerShape, PmShape, FlushShape
<1>5. PromptInv'
  BY UpdateFacts
    DEF TbInv, TypeOK, WorkerShape, PmShape, FlushShape, PromptInv, Prompt, Sending
<1>6. RealInv'
  BY UpdateFacts DEF TbInv, TypeOK, WorkerShape, PmShape, FlushShape, RealInv
<1>7. PowerInv'
  BY UpdateFacts, Bounds, Bounded
    DEF TbInv, TypeOK, WorkerShape, PmShape, FlushShape, PowerInv, PowerBalanced
<1>8. KeyInv'
  <2>1. xlated' \subseteq Translatable /\ Listening'
    BY DEF TbInv, KeyInv, Listening, Translated
  <2>2. active' /\ (~missed' => keys' = held')
    BY DEF TbInv, KeyInv
  <2>3. ASSUME ~missed', ~offUnder'
        PROVE  /\ \A j \in Key : /\ <<j, "special">> \in down' => j \in held' /\ j \in xlated'
                                 /\ <<j, "fn">> \in down' => j \in held' /\ j \notin xlated'
               /\ down' # {} => ~Dark'
               /\ keys' # {} => ~GoingOff'
    <3>1. /\ ~missed /\ ~offUnder /\ ~GoingOff
          /\ \A j \in Key : /\ <<j, "special">> \in down => j \in held /\ j \in xlated
                            /\ <<j, "fn">> \in down => j \in held /\ j \notin xlated
          /\ down # {} => ~Dark
          /\ xlated \subseteq Translatable
      BY <2>3 DEF TbInv, KeyInv, TypeOK
    <3>2. \A j \in Key : /\ <<j, "special">> \in down' => j \in held' /\ j \in xlated'
                         /\ <<j, "fn">> \in down' => j \in held' /\ j \notin xlated'
      <4>1. CASE Dark
        BY <3>1, <4>1
      <4>2. CASE ~Dark /\ k \notin held
        <5>1. held' = held \cup {k}
          BY <4>2
        <5>2. CASE Translated(k, TRUE)
          <6>1. xlated' = xlated \cup {k} /\ down' = down \cup {<<k, "special">>}
            BY <4>2, <5>2
          <6> HIDE DEF KeyEvent
          <6> QED
            BY <3>1, <4>2, <5>1, <6>1
        <5>3. CASE ~Translated(k, TRUE)
          <6>1. xlated' = xlated \ {k} /\ down' = down \cup {<<k, "fn">>}
            BY <4>2, <5>3
          <6> HIDE DEF KeyEvent
          <6> QED
            BY <3>1, <4>2, <5>1, <6>1
        <5> QED
          BY <5>2, <5>3
      <4>3. CASE ~Dark /\ k \in held
        BY <3>1, <4>3 DEF Translated
      <4> QED
        BY <4>1, <4>2, <4>3
    <3>3. down' # {} => ~Dark'
      BY <3>1 DEF Dark
    <3>4. keys' # {} => ~GoingOff'
      BY <3>1, UpdateFacts DEF GoingOff
    <3> QED
      BY <3>2, <3>3, <3>4
  <2> HIDE DEF KeyEvent
  <2> QED
    BY <2>1, <2>2, <2>3 DEF KeyInv
<1>9. KnownInv'
  BY UpdateFacts, WantKept, WantTypes
    DEF TbInv, TypeOK, WorkerShape, PmShape, FlushShape, KnownInv, ReadyInv, SleepInv,
        SentInv, ToldInv, WakeInv, InUse, Asleep, Settled, Flushed, DueDead, Shown, Stale,
        Sending
<1> QED
  BY <1>1, <1>2, <1>3, <1>4, <1>5, <1>6, <1>7, <1>8, <1>9 DEF TbInv

\* The same while the driver does not see or use it.
LEMMA KeyUnseenInv ==
    ASSUME TbInv, NEW k \in Key, KeyUnseen(k)
    PROVE  TbInv'
<1> USE DEF KeyUnseen, ifVars, cmdVars, pmVars, setVars, workVars, thrVars, devVars,
         histVars, bndVars
<1>1. TypeOK'
  BY Bounds, Bounded DEF TbInv, TypeOK, WorkerShape, PmShape, FlushShape
<1>2. WorkerShape'
  BY DEF TbInv, TypeOK, WorkerShape, PmShape, FlushShape, Sending
<1>3. PmShape'
  BY DEF TbInv, TypeOK, WorkerShape, PmShape, FlushShape
<1>4. FlushShape'
  BY DEF TbInv, TypeOK, WorkerShape, PmShape, FlushShape
<1>5. PromptInv'
  BY DEF TbInv, TypeOK, WorkerShape, PmShape, FlushShape, PromptInv, Prompt, Sending
<1>6. RealInv'
  BY DEF TbInv, TypeOK, WorkerShape, PmShape, FlushShape, RealInv
<1>7. PowerInv'
  BY Bounds, Bounded
    DEF TbInv, TypeOK, WorkerShape, PmShape, FlushShape, PowerInv, PowerBalanced
<1>8. KeyInv'
  BY DEF TbInv, TypeOK, WorkerShape, PmShape, FlushShape, KeyInv, Listening, Dark, GoingOff
<1>9. KnownInv'
  BY WantKept, WantTypes
    DEF TbInv, TypeOK, WorkerShape, PmShape, FlushShape, KnownInv, ReadyInv, SleepInv,
        SentInv, ToldInv, WakeInv, InUse, Asleep, Settled, Flushed, DueDead, Shown, Stale,
        Sending
<1> QED
  BY <1>1, <1>2, <1>3, <1>4, <1>5, <1>6, <1>7, <1>8, <1>9 DEF TbInv

\* The Fn key goes down or up (appletb_inp_event).
LEMMA FnEventInv ==
    ASSUME TbInv, FnEvent
    PROVE  TbInv'
<1> USE DEF FnEvent, ifVars, pmVars, setVars, workVars, thrVars, devVars, histVars, bndVars
<1>1. TypeOK'
  <2>1. /\ pndMode' \in Mode \cup {"NONE"} /\ pndDisp' \in Disp \cup {"NONE"}
        /\ due' \in Nat \cup {None}
    <3>1. CASE active
      BY <3>1, UpdateTyped DEF TbInv
    <3> QED
      BY <3>1 DEF TbInv, TypeOK
  <2>2. fnHeld' \in BOOLEAN /\ fn' \in BOOLEAN /\ idleTime' \in 0 .. MaxIdle
        /\ UNCHANGED <<keys, setVars>>
    BY Bounds DEF TbInv, TypeOK
  <2>3. UNCHANGED <<ifVars, curMode, curDisp, pmVars, xlated, held, down, workVars, thrVars,
                    devVars, histVars, bndVars>>
    OBVIOUS
  <2> HIDE DEF FnEvent
  <2> QED
    BY <2>1, <2>2, <2>3 DEF TbInv, TypeOK
<1>2. WorkerShape'
  BY UpdateFacts DEF TbInv, TypeOK, WorkerShape, PmShape, FlushShape, Sending
<1>3. PmShape'
  BY UpdateFacts DEF TbInv, TypeOK, WorkerShape, PmShape, FlushShape
<1>4. FlushShape'
  BY UpdateFacts DEF TbInv, TypeOK, WorkerShape, PmShape, FlushShape
<1>5. PromptInv'
  BY UpdateFacts
    DEF TbInv, TypeOK, WorkerShape, PmShape, FlushShape, PromptInv, Prompt, Sending
<1>6. RealInv'
  BY UpdateFacts DEF TbInv, TypeOK, WorkerShape, PmShape, FlushShape, RealInv
<1>7. PowerInv'
  BY UpdateFacts, Bounds, Bounded
    DEF TbInv, TypeOK, WorkerShape, PmShape, FlushShape, PowerInv, PowerBalanced
<1>8. KeyInv'
  BY UpdateFacts
    DEF TbInv, TypeOK, WorkerShape, PmShape, FlushShape, KeyInv, Listening, Dark, GoingOff
<1>9. KnownInv'
  BY UpdateFacts, WantKept, WantTypes
    DEF TbInv, TypeOK, WorkerShape, PmShape, FlushShape, KnownInv, ReadyInv, SleepInv,
        SentInv, ToldInv, WakeInv, InUse, Asleep, Settled, Flushed, DueDead, Shown, Stale,
        Sending
<1> QED
  BY <1>1, <1>2, <1>3, <1>4, <1>5, <1>6, <1>7, <1>8, <1>9 DEF TbInv

\* Any other input.
LEMMA OtherEventInv ==
    ASSUME TbInv, OtherEvent
    PROVE  TbInv'
<1> USE DEF OtherEvent, ifVars, pmVars, keyVars, setVars, workVars, thrVars, devVars,
         histVars, bndVars
<1>1. TypeOK'
  <2>1. /\ pndMode' \in Mode \cup {"NONE"} /\ pndDisp' \in Disp \cup {"NONE"}
        /\ due' \in Nat \cup {None}
    BY UpdateTyped DEF TbInv
  <2>2. idleTime' \in 0 .. MaxIdle
    BY Bounds
  <2> QED
    BY <2>1, <2>2 DEF TbInv, TypeOK
<1>2. WorkerShape'
  BY UpdateFacts DEF TbInv, TypeOK, WorkerShape, PmShape, FlushShape, Sending
<1>3. PmShape'
  BY UpdateFacts DEF TbInv, TypeOK, WorkerShape, PmShape, FlushShape
<1>4. FlushShape'
  BY UpdateFacts DEF TbInv, TypeOK, WorkerShape, PmShape, FlushShape
<1>5. PromptInv'
  BY UpdateFacts
    DEF TbInv, TypeOK, WorkerShape, PmShape, FlushShape, PromptInv, Prompt, Sending
<1>6. RealInv'
  BY UpdateFacts DEF TbInv, TypeOK, WorkerShape, PmShape, FlushShape, RealInv
<1>7. PowerInv'
  BY UpdateFacts, Bounds, Bounded
    DEF TbInv, TypeOK, WorkerShape, PmShape, FlushShape, PowerInv, PowerBalanced
<1>8. KeyInv'
  BY UpdateFacts
    DEF TbInv, TypeOK, WorkerShape, PmShape, FlushShape, KeyInv, Listening, Dark, GoingOff
<1>9. KnownInv'
  BY UpdateFacts, WantKept, WantTypes
    DEF TbInv, TypeOK, WorkerShape, PmShape, FlushShape, KnownInv, ReadyInv, SleepInv,
        SentInv, ToldInv, WakeInv, InUse, Asleep, Settled, Flushed, DueDead, Shown, Stale,
        Sending
<1> QED
  BY <1>1, <1>2, <1>3, <1>4, <1>5, <1>6, <1>7, <1>8, <1>9 DEF TbInv

\* idle_timeout_store.
LEMMA StoreIdleInv ==
    ASSUME TbInv, NEW n \in Idles, StoreIdle(n)
    PROVE  TbInv'
<1> USE DEF StoreIdle, StoreRest, Store, ifVars, pmVars, keyVars, workVars, thrVars,
         devVars, histVars
<1>1. TypeOK'
  <2>1. /\ pndMode' \in Mode \cup {"NONE"} /\ pndDisp' \in Disp \cup {"NONE"}
        /\ due' \in Nat \cup {None}
    BY UpdateTyped DEF TbInv
  <2>2. /\ idleTimeout' \in Idles /\ dimTimeout' \in Int /\ dimTimeout' >= -1
        /\ stores' \in 0 .. MaxStores
    BY CalcDimTyped, Bounds DEF TbInv, TypeOK
  <2> QED
    BY <2>1, <2>2 DEF TbInv, TypeOK
<1>2. WorkerShape'
  BY UpdateFacts DEF TbInv, TypeOK, WorkerShape, PmShape, FlushShape, Sending
<1>3. PmShape'
  BY UpdateFacts DEF TbInv, TypeOK, WorkerShape, PmShape, FlushShape
<1>4. FlushShape'
  BY UpdateFacts DEF TbInv, TypeOK, WorkerShape, PmShape, FlushShape
<1>5. PromptInv'
  BY UpdateFacts
    DEF TbInv, TypeOK, WorkerShape, PmShape, FlushShape, PromptInv, Prompt, Sending
<1>6. RealInv'
  BY UpdateFacts DEF TbInv, TypeOK, WorkerShape, PmShape, FlushShape, RealInv
<1>7. PowerInv'
  BY UpdateFacts, Bounds, Bounded
    DEF TbInv, TypeOK, WorkerShape, PmShape, FlushShape, PowerInv, PowerBalanced
<1>8. KeyInv'
  BY UpdateFacts
    DEF TbInv, TypeOK, WorkerShape, PmShape, FlushShape, KeyInv, Listening, Dark, GoingOff
<1>9. KnownInv'
  BY UpdateFacts, WantKept, WantTypes
    DEF TbInv, TypeOK, WorkerShape, PmShape, FlushShape, KnownInv, ReadyInv, SleepInv,
        SentInv, ToldInv, WakeInv, InUse, Asleep, Settled, Flushed, DueDead, Shown, Stale,
        Sending
<1> QED
  BY <1>1, <1>2, <1>3, <1>4, <1>5, <1>6, <1>7, <1>8, <1>9 DEF TbInv

\* dim_timeout_store.
LEMMA StoreDimInv ==
    ASSUME TbInv, NEW n \in Dims, StoreDim(n)
    PROVE  TbInv'
<1> USE DEF StoreDim, StoreRest, Store, ifVars, pmVars, keyVars, workVars, thrVars,
         devVars, histVars
<1>1. TypeOK'
  <2>1. /\ pndMode' \in Mode \cup {"NONE"} /\ pndDisp' \in Disp \cup {"NONE"}
        /\ due' \in Nat \cup {None}
    BY UpdateTyped DEF TbInv
  <2>2. /\ dimCalc' \in BOOLEAN /\ dimTimeout' \in Int /\ dimTimeout' >= -1
        /\ stores' \in 0 .. MaxStores
    BY CalcDimTyped, Bounds, Bounded DEF TbInv, TypeOK
  <2> QED
    BY <2>1, <2>2 DEF TbInv, TypeOK
<1>2. WorkerShape'
  BY UpdateFacts DEF TbInv, TypeOK, WorkerShape, PmShape, FlushShape, Sending
<1>3. PmShape'
  BY UpdateFacts DEF TbInv, TypeOK, WorkerShape, PmShape, FlushShape
<1>4. FlushShape'
  BY UpdateFacts DEF TbInv, TypeOK, WorkerShape, PmShape, FlushShape
<1>5. PromptInv'
  BY UpdateFacts
    DEF TbInv, TypeOK, WorkerShape, PmShape, FlushShape, PromptInv, Prompt, Sending
<1>6. RealInv'
  BY UpdateFacts DEF TbInv, TypeOK, WorkerShape, PmShape, FlushShape, RealInv
<1>7. PowerInv'
  BY UpdateFacts, Bounds, Bounded
    DEF TbInv, TypeOK, WorkerShape, PmShape, FlushShape, PowerInv, PowerBalanced
<1>8. KeyInv'
  BY UpdateFacts
    DEF TbInv, TypeOK, WorkerShape, PmShape, FlushShape, KeyInv, Listening, Dark, GoingOff
<1>9. KnownInv'
  BY UpdateFacts, WantKept, WantTypes
    DEF TbInv, TypeOK, WorkerShape, PmShape, FlushShape, KnownInv, ReadyInv, SleepInv,
        SentInv, ToldInv, WakeInv, InUse, Asleep, Settled, Flushed, DueDead, Shown, Stale,
        Sending
<1> QED
  BY <1>1, <1>2, <1>3, <1>4, <1>5, <1>6, <1>7, <1>8, <1>9 DEF TbInv

\* fnmode_store.
LEMMA StoreFnInv ==
    ASSUME TbInv, NEW n \in FnModes, StoreFn(n)
    PROVE  TbInv'
<1> USE DEF StoreFn, StoreRest, Store, ifVars, pmVars, keyVars, workVars, thrVars, devVars,
         histVars
<1>1. TypeOK'
  <2>1. /\ pndMode' \in Mode \cup {"NONE"} /\ pndDisp' \in Disp \cup {"NONE"}
        /\ due' \in Nat \cup {None}
    BY UpdateTyped DEF TbInv
  <2>2. stores' \in 0 .. MaxStores
    BY Bounds DEF TbInv, TypeOK
  <2> QED
    BY <2>1, <2>2 DEF TbInv, TypeOK
<1>2. WorkerShape'
  BY UpdateFacts DEF TbInv, TypeOK, WorkerShape, PmShape, FlushShape, Sending
<1>3. PmShape'
  BY UpdateFacts DEF TbInv, TypeOK, WorkerShape, PmShape, FlushShape
<1>4. FlushShape'
  BY UpdateFacts DEF TbInv, TypeOK, WorkerShape, PmShape, FlushShape
<1>5. PromptInv'
  BY UpdateFacts
    DEF TbInv, TypeOK, WorkerShape, PmShape, FlushShape, PromptInv, Prompt, Sending
<1>6. RealInv'
  BY UpdateFacts DEF TbInv, TypeOK, WorkerShape, PmShape, FlushShape, RealInv
<1>7. PowerInv'
  BY UpdateFacts, Bounds, Bounded
    DEF TbInv, TypeOK, WorkerShape, PmShape, FlushShape, PowerInv, PowerBalanced
<1>8. KeyInv'
  BY UpdateFacts
    DEF TbInv, TypeOK, WorkerShape, PmShape, FlushShape, KeyInv, Listening, Dark, GoingOff
<1>9. KnownInv'
  BY UpdateFacts, WantKept, WantTypes
    DEF TbInv, TypeOK, WorkerShape, PmShape, FlushShape, KnownInv, ReadyInv, SleepInv,
        SentInv, ToldInv, WakeInv, InUse, Asleep, Settled, Flushed, DueDead, Shown, Stale,
        Sending
<1> QED
  BY <1>1, <1>2, <1>3, <1>4, <1>5, <1>6, <1>7, <1>8, <1>9 DEF TbInv

\* The work takes what is pending (appletb_set_tb_worker).
LEMMA WorkStartInv ==
    ASSUME TbInv, WorkStart
    PROVE  TbInv'
<1> USE DEF WorkStart, ifVars, cmdVars, pmVars, keyVars, setVars, devVars, histVars, bndVars
<1>1. TypeOK'
  BY Bounds, Bounded DEF TbInv, TypeOK, WorkerShape, PmShape, FlushShape
<1>2. WorkerShape'
  BY DEF TbInv, TypeOK, WorkerShape, PmShape, FlushShape, Sending
<1>3. PmShape'
  BY DEF TbInv, TypeOK, WorkerShape, PmShape, FlushShape
<1>4. FlushShape'
  BY DEF TbInv, TypeOK, WorkerShape, PmShape, FlushShape
<1>5. PromptInv'
  BY DEF TbInv, TypeOK, WorkerShape, PmShape, FlushShape, PromptInv, Prompt, Sending
<1>6. RealInv'
  BY DEF TbInv, TypeOK, WorkerShape, PmShape, FlushShape, RealInv
<1>7. PowerInv'
  BY Bounds, Bounded
    DEF TbInv, TypeOK, WorkerShape, PmShape, FlushShape, PowerInv, PowerBalanced
<1>8. KeyInv'
  BY DEF TbInv, TypeOK, WorkerShape, PmShape, FlushShape, KeyInv, Listening, Dark, GoingOff
<1>9. KnownInv'
  BY WantKept, WantTypes
    DEF TbInv, TypeOK, WorkerShape, PmShape, FlushShape, KnownInv, ReadyInv, SleepInv,
        SentInv, ToldInv, WakeInv, InUse, Asleep, Settled, Flushed, DueDead, Shown, Stale,
        Sending
<1> QED
  BY <1>1, <1>2, <1>3, <1>4, <1>5, <1>6, <1>7, <1>8, <1>9 DEF TbInv

\* It sends the mode, without the lock.
LEMMA WorkModeInv ==
    ASSUME TbInv, WorkMode
    PROVE  TbInv'
<1> USE DEF WorkMode, ifVars, cmdVars, pmVars, keyVars, setVars, thrVars, histVars, Outcome
<1>1. TypeOK'
  BY Bounds, Bounded DEF TbInv, TypeOK, WorkerShape, PmShape, FlushShape
<1>2. WorkerShape'
  BY DEF TbInv, TypeOK, WorkerShape, PmShape, FlushShape, Sending
<1>3. PmShape'
  BY DEF TbInv, TypeOK, WorkerShape, PmShape, FlushShape
<1>4. FlushShape'
  BY DEF TbInv, TypeOK, WorkerShape, PmShape, FlushShape
<1>5. PromptInv'
  BY DEF TbInv, TypeOK, WorkerShape, PmShape, FlushShape, PromptInv, Prompt, Sending
<1>6. RealInv'
  BY DEF TbInv, TypeOK, WorkerShape, PmShape, FlushShape, RealInv
<1>7. PowerInv'
  BY Bounds, Bounded
    DEF TbInv, TypeOK, WorkerShape, PmShape, FlushShape, PowerInv, PowerBalanced
<1>8. KeyInv'
  BY DEF TbInv, TypeOK, WorkerShape, PmShape, FlushShape, KeyInv, Listening, Dark, GoingOff
<1>9. KnownInv'
  BY WantKept, WantTypes
    DEF TbInv, TypeOK, WorkerShape, PmShape, FlushShape, KnownInv, ReadyInv, SleepInv,
        SentInv, ToldInv, WakeInv, InUse, Asleep, Settled, Flushed, DueDead, Shown, Stale,
        Sending
<1> QED
  BY <1>1, <1>2, <1>3, <1>4, <1>5, <1>6, <1>7, <1>8, <1>9 DEF TbInv

\* It sends the display, without the lock.
LEMMA WorkDispInv ==
    ASSUME TbInv, WorkDisp
    PROVE  TbInv'
<1> USE DEF WorkDisp, ifVars, cmdVars, keyVars, setVars, thrVars, histVars, SetTbDisp,
         Outcome
<1>1. TypeOK'
  <2>1. autopmOff \in BOOLEAN /\ pmRefs \in Int /\ PmChange(wDisp) \in Int
    BY PmChangeFacts DEF TbInv, TypeOK
  <2>2. pmRefs' \in Int /\ autopmOff' \in BOOLEAN
    <3>1. CASE wDisp = "NONE"
      BY <2>1, <3>1
    <3>2. CASE wDisp # "NONE"
      <4>1. \E more \in {0, 1} : /\ pmRefs' = pmRefs + PmChange(wDisp) + more
                                /\ autopmOff' = (wDisp # "OFF")
        BY <3>2
      <4> HIDE DEF WorkDisp
      <4> QED
        BY <2>1, <4>1
    <3> QED
      BY <3>1, <3>2
  <2>3. devDisp' \in Disp /\ rc2' \in {"skip", "ok", "fail"} /\ fails' \in 0 .. MaxFails
    BY Bounds DEF TbInv, TypeOK
  <2> QED
    BY <2>2, <2>3 DEF TbInv, TypeOK
<1>2. WorkerShape'
  BY DEF TbInv, TypeOK, WorkerShape, PmShape, FlushShape, Sending
<1>3. PmShape'
  BY DEF TbInv, TypeOK, WorkerShape, PmShape, FlushShape
<1>4. FlushShape'
  BY DEF TbInv, TypeOK, WorkerShape, PmShape, FlushShape
<1>5. PromptInv'
  BY DEF TbInv, TypeOK, WorkerShape, PmShape, FlushShape, PromptInv, Prompt, Sending
<1>6. RealInv'
  BY DEF TbInv, TypeOK, WorkerShape, PmShape, FlushShape, RealInv
<1>7. PowerInv'
  <2>1. /\ autopmOff \in BOOLEAN /\ pmRefs \in Int /\ PmChange(wDisp) \in Int
        /\ wRestore \in BOOLEAN
    BY PmChangeFacts DEF TbInv, TypeOK
  <2>2. UNCHANGED <<suspends, removes, restore, wRestore, suspended, pm>>
    OBVIOUS
  <2>3. pmRefs = (IF autopmOff THEN 1 ELSE 0) =>
            pmRefs + PmChange(wDisp) = IF wDisp # "OFF" THEN 1 ELSE 0
    BY <2>1, PmChangeFacts
  <2>4. ~wRestore => \/ UNCHANGED <<pmRefs, autopmOff>>
                     \/ pmRefs' = pmRefs + PmChange(wDisp) /\ autopmOff' = (wDisp # "OFF")
    BY <2>1
  <2>5. suspends = 0 => ~wRestore
    BY DEF TbInv, PowerInv
  <2> HIDE DEF WorkDisp
  <2>6. PowerBalanced'
    <3>1. CASE UNCHANGED <<pmRefs, autopmOff>>
      BY <2>2, <3>1 DEF TbInv, PowerInv, PowerBalanced
    <3>2. CASE pmRefs' = pmRefs + PmChange(wDisp) /\ autopmOff' = (wDisp # "OFF")
      BY <2>2, <2>3, <3>2 DEF TbInv, PowerInv, PowerBalanced
    <3> QED
      BY <2>2, <2>4, <2>5, <3>1, <3>2 DEF PowerBalanced
  <2> QED
    BY <2>2, <2>6 DEF TbInv, PowerInv, PowerBalanced
<1>8. KeyInv'
  BY DEF TbInv, TypeOK, WorkerShape, PmShape, FlushShape, KeyInv, Listening, Dark, GoingOff
<1>9. KnownInv'
  BY WantKept, WantTypes
    DEF TbInv, TypeOK, WorkerShape, PmShape, FlushShape, KnownInv, ReadyInv, SleepInv,
        SentInv, ToldInv, WakeInv, InUse, Asleep, Settled, Flushed, DueDead, Shown, Stale,
        Sending
<1> QED
  BY <1>1, <1>2, <1>3, <1>4, <1>5, <1>6, <1>7, <1>8, <1>9 DEF TbInv

\* With the lock again it notes what was done.
LEMMA WorkRelockInv ==
    ASSUME TbInv, WorkRelock
    PROVE  TbInv'
<1> USE DEF WorkRelock, ifVars, keyVars, setVars, thrVars, devVars, histVars, bndVars, Left
<1>1. TypeOK'
  <2>1. idleTimeout \in Int /\ dimTimeout \in Int /\ idleTime \in Int
    BY Bounded DEF TbInv, TypeOK
  <2>2. wSecs' \in Nat \cup {None} /\ wNext' \in {"NONE", "DIM", "OFF"}
    BY <2>1, TimesTyped DEF TbInv, TypeOK
  <2>3. /\ curMode' \in Mode /\ pndMode' \in Mode \cup {"NONE"}
        /\ curDisp' \in Disp /\ pndDisp' \in Disp \cup {"NONE"}
    BY DEF TbInv, TypeOK, WorkerShape
  <2>4. pc' \in {"sched", "timeout"}
    OBVIOUS
  <2>5. /\ restore' = FALSE /\ wMode' = "NONE" /\ wDisp' = "NONE" /\ wRestore' = FALSE
        /\ rc1' = "skip" /\ rc2' = "skip"
        /\ UNCHANGED <<ifVars, autopmOff, pmRefs, keyVars, idleTime, setVars, due, thrVars,
                       devVars, histVars, bndVars>>
    OBVIOUS
  <2> HIDE DEF WorkRelock, Left
  <2>6. /\ restore' \in BOOLEAN /\ pc' \in WorkerPc /\ wRestore' \in BOOLEAN
        /\ wMode' \in Mode \cup {"NONE"} /\ wDisp' \in Disp \cup {"NONE"}
        /\ rc1' \in {"skip", "ok", "fail"} /\ rc2' \in {"skip", "ok", "fail"}
    BY <2>4, <2>5
  <2>7. UNCHANGED <<hdev, suspended, active, autopmOff, pmRefs, keys, xlated, fn, held, fnHeld,
                    down, idleTime, idleTimeout, dimTimeout, dimCalc, fnMode, due, pm, pmIface,
                    pmMsg, flush, devMode, devDisp, offUnder, missed, stores, suspends,
                    removes, fails>>
    BY <2>5
  <2> QED
    BY <2>2, <2>3, <2>6, <2>7 DEF TbInv, TypeOK
<1>2. WorkerShape'
  BY TimesTyped, TimeoutDiffers, Bounds, Bounded
    DEF TbInv, TypeOK, WorkerShape, PmShape, FlushShape, Sending
<1>3. PmShape'
  BY DEF TbInv, TypeOK, WorkerShape, PmShape, FlushShape
<1>4. FlushShape'
  BY DEF TbInv, TypeOK, WorkerShape, PmShape, FlushShape
<1>5. PromptInv'
  BY DEF TbInv, TypeOK, WorkerShape, PmShape, FlushShape, PromptInv, Prompt, Sending
<1>6. RealInv'
  BY DEF TbInv, TypeOK, WorkerShape, PmShape, FlushShape, RealInv
<1>7. PowerInv'
  BY Bounds, Bounded
    DEF TbInv, TypeOK, WorkerShape, PmShape, FlushShape, PowerInv, PowerBalanced
<1>8. KeyInv'
  <2>1. active /\ ~missed /\ ~offUnder /\ down # {} => ~GoingOff
    BY DownKnown DEF TbInv, KeyInv
  <2>2. Dark' => Dark \/ GoingOff
    BY DEF Dark, GoingOff
  <2>3. GoingOff' => GoingOff \/ keys = {}
    BY DEF GoingOff, TbInv, WorkerShape
  <2>4. UNCHANGED <<hdev, suspended, active, down, keys, held, xlated, missed, offUnder>>
    OBVIOUS
  <2> HIDE DEF WorkRelock
  <2> QED
    BY <2>1, <2>2, <2>3, <2>4 DEF TbInv, KeyInv, Listening
<1>9. KnownInv'
  BY TimesTyped, TimeoutDiffers, Bounds, Bounded, WantKept, WantTypes
    DEF TbInv, TypeOK, WorkerShape, PmShape, FlushShape, KnownInv, ReadyInv, SleepInv,
        SentInv, ToldInv, WakeInv, InUse, Asleep, Settled, Flushed, DueDead, Shown, Stale,
        Sending
<1> QED
  BY <1>1, <1>2, <1>3, <1>4, <1>5, <1>6, <1>7, <1>8, <1>9 DEF TbInv

\* It dims or turns off the display, without the lock.
LEMMA WorkTimeoutInv ==
    ASSUME TbInv, WorkTimeout
    PROVE  TbInv'
<1> USE DEF WorkTimeout, ifVars, cmdVars, keyVars, setVars, thrVars, histVars, SetTbDisp,
         Outcome
<1>1. TypeOK'
  BY Bounds, Bounded DEF TbInv, TypeOK, WorkerShape, PmShape, FlushShape
<1>2. WorkerShape'
  BY DEF TbInv, TypeOK, WorkerShape, PmShape, FlushShape, Sending
<1>3. PmShape'
  BY DEF TbInv, TypeOK, WorkerShape, PmShape, FlushShape
<1>4. FlushShape'
  BY DEF TbInv, TypeOK, WorkerShape, PmShape, FlushShape
<1>5. PromptInv'
  BY DEF TbInv, TypeOK, WorkerShape, PmShape, FlushShape, PromptInv, Prompt, Sending
<1>6. RealInv'
  BY DEF TbInv, TypeOK, WorkerShape, PmShape, FlushShape, RealInv
<1>7. PowerInv'
  <2>1. autopmOff \in BOOLEAN /\ pmRefs \in Int /\ PmChange(wNext) \in Int
    BY PmChangeFacts DEF TbInv, TypeOK
  <2>2. pmRefs' = pmRefs + PmChange(wNext) /\ autopmOff' = (wNext # "OFF")
    BY <2>1
  <2>3. UNCHANGED <<suspends, removes, restore, wRestore, suspended, pm>>
    OBVIOUS
  <2>4. pmRefs = (IF autopmOff THEN 1 ELSE 0) =>
            pmRefs + PmChange(wNext) = IF wNext # "OFF" THEN 1 ELSE 0
    BY <2>1, PmChangeFacts
  <2> HIDE DEF WorkTimeout
  <2> QED
    BY <2>2, <2>3, <2>4 DEF TbInv, PowerInv, PowerBalanced
<1>8. KeyInv'
  BY DEF TbInv, TypeOK, WorkerShape, PmShape, FlushShape, KeyInv, Listening, Dark, GoingOff
<1>9. KnownInv'
  BY WantKept, WantTypes
    DEF TbInv, TypeOK, WorkerShape, PmShape, FlushShape, KnownInv, ReadyInv, SleepInv,
        SentInv, ToldInv, WakeInv, InUse, Asleep, Settled, Flushed, DueDead, Shown, Stale,
        Sending
<1> QED
  BY <1>1, <1>2, <1>3, <1>4, <1>5, <1>6, <1>7, <1>8, <1>9 DEF TbInv

\* It notes that.
LEMMA WorkStoreInv ==
    ASSUME TbInv, WorkStore
    PROVE  TbInv'
<1> USE DEF WorkStore, ifVars, pmVars, keyVars, setVars, thrVars, devVars, histVars,
         bndVars, Noted
<1>1. TypeOK'
  BY Bounds, Bounded DEF TbInv, TypeOK, WorkerShape, PmShape, FlushShape
<1>2. WorkerShape'
  BY DEF TbInv, TypeOK, WorkerShape, PmShape, FlushShape, Sending
<1>3. PmShape'
  BY DEF TbInv, TypeOK, WorkerShape, PmShape, FlushShape
<1>4. FlushShape'
  BY DEF TbInv, TypeOK, WorkerShape, PmShape, FlushShape
<1>5. PromptInv'
  BY DEF TbInv, TypeOK, WorkerShape, PmShape, FlushShape, PromptInv, Prompt, Sending
<1>6. RealInv'
  BY DEF TbInv, TypeOK, WorkerShape, PmShape, FlushShape, RealInv
<1>7. PowerInv'
  BY Bounds, Bounded
    DEF TbInv, TypeOK, WorkerShape, PmShape, FlushShape, PowerInv, PowerBalanced
<1>8. KeyInv'
  <2>1. active /\ ~missed /\ ~offUnder /\ down # {} => ~GoingOff
    BY DownKnown DEF TbInv, KeyInv
  <2>2. (Dark' => Dark \/ GoingOff) /\ (GoingOff' => GoingOff)
    BY DEF Dark, GoingOff
  <2> QED
    BY <2>1, <2>2 DEF TbInv, KeyInv, Listening
<1>9. KnownInv'
  BY WantKept, WantTypes
    DEF TbInv, TypeOK, WorkerShape, PmShape, FlushShape, KnownInv, ReadyInv, SleepInv,
        SentInv, ToldInv, WakeInv, InUse, Asleep, Settled, Flushed, DueDead, Shown, Stale,
        Sending
<1> QED
  BY <1>1, <1>2, <1>3, <1>4, <1>5, <1>6, <1>7, <1>8, <1>9 DEF TbInv

\* It schedules itself again, or not.
LEMMA WorkSchedInv ==
    ASSUME TbInv, WorkSched
    PROVE  TbInv'
<1> USE DEF WorkSched, ifVars, cmdVars, pmVars, keyVars, setVars, devVars, histVars, bndVars
<1>1. TypeOK'
  BY Bounds, Bounded DEF TbInv, TypeOK, WorkerShape, PmShape, FlushShape
<1>2. WorkerShape'
  BY DEF TbInv, TypeOK, WorkerShape, PmShape, FlushShape, Sending
<1>3. PmShape'
  BY DEF TbInv, TypeOK, WorkerShape, PmShape, FlushShape
<1>4. FlushShape'
  BY DEF TbInv, TypeOK, WorkerShape, PmShape, FlushShape
<1>5. PromptInv'
  BY DEF TbInv, TypeOK, WorkerShape, PmShape, FlushShape, PromptInv, Prompt, Sending
<1>6. RealInv'
  BY DEF TbInv, TypeOK, WorkerShape, PmShape, FlushShape, RealInv
<1>7. PowerInv'
  BY Bounds, Bounded
    DEF TbInv, TypeOK, WorkerShape, PmShape, FlushShape, PowerInv, PowerBalanced
<1>8. KeyInv'
  BY DEF TbInv, TypeOK, WorkerShape, PmShape, FlushShape, KeyInv, Listening, Dark, GoingOff
<1>9. KnownInv'
  BY WantKept, WantTypes
    DEF TbInv, TypeOK, WorkerShape, PmShape, FlushShape, KnownInv, ReadyInv, SleepInv,
        SentInv, ToldInv, WakeInv, InUse, Asleep, Settled, Flushed, DueDead, Shown, Stale,
        Sending
<1> QED
  BY <1>1, <1>2, <1>3, <1>4, <1>5, <1>6, <1>7, <1>8, <1>9 DEF TbInv

\* Time passes.
LEMMA TickInv ==
    ASSUME TbInv, Tick
    PROVE  TbInv'
<1> USE DEF Tick, ifVars, cmdVars, pmVars, keyVars, setVars, workVars, thrVars, devVars,
         histVars, bndVars
<1>1. TypeOK'
  <2>1. idleTime' \in 0 .. MaxIdle
    BY Bounds, Bounded DEF TbInv, Min2
  <2>2. due' \in Nat \cup {None}
    BY DEF TbInv, TypeOK
  <2> QED
    BY <2>1, <2>2 DEF TbInv, TypeOK
<1>2. WorkerShape'
  BY DEF TbInv, TypeOK, WorkerShape, PmShape, FlushShape, Sending
<1>3. PmShape'
  BY DEF TbInv, TypeOK, WorkerShape, PmShape, FlushShape
<1>4. FlushShape'
  BY DEF TbInv, TypeOK, WorkerShape, PmShape, FlushShape
<1>5. PromptInv'
  BY DEF TbInv, TypeOK, WorkerShape, PmShape, FlushShape, PromptInv, Prompt, Sending
<1>6. RealInv'
  BY DEF TbInv, TypeOK, WorkerShape, PmShape, FlushShape, RealInv
<1>7. PowerInv'
  BY Bounds, Bounded
    DEF TbInv, TypeOK, WorkerShape, PmShape, FlushShape, PowerInv, PowerBalanced
<1>8. KeyInv'
  BY DEF TbInv, TypeOK, WorkerShape, PmShape, FlushShape, KeyInv, Listening, Dark, GoingOff
<1>9. KnownInv'
  BY WantKept, WantTypes
    DEF TbInv, TypeOK, WorkerShape, PmShape, FlushShape, KnownInv, ReadyInv, SleepInv,
        SentInv, ToldInv, WakeInv, InUse, Asleep, Settled, Flushed, DueDead, Shown, Stale,
        Sending
<1> QED
  BY <1>1, <1>2, <1>3, <1>4, <1>5, <1>6, <1>7, <1>8, <1>9 DEF TbInv

\* An interface is suspended: the driver is inactive from the first.
LEMMA SuspendInv ==
    ASSUME TbInv, NEW f \in Iface, NEW msg \in {"suspend", "freeze"}, Suspend(f, msg)
    PROVE  TbInv'
<1> USE DEF Suspend, cmdVars, pmVars, setVars, workVars, devVars, Spare
<1>1. TypeOK'
  BY Bounds, Bounded DEF TbInv, TypeOK, WorkerShape, PmShape, FlushShape
<1>2. WorkerShape'
  BY DEF TbInv, TypeOK, WorkerShape, PmShape, FlushShape, Sending
<1>3. PmShape'
  BY DEF TbInv, TypeOK, WorkerShape, PmShape, FlushShape
<1>4. FlushShape'
  BY DEF TbInv, TypeOK, WorkerShape, PmShape, FlushShape
<1>5. PromptInv'
  BY DEF TbInv, TypeOK, WorkerShape, PmShape, FlushShape, PromptInv, Prompt, Sending
<1>6. RealInv'
  BY DEF TbInv, TypeOK, WorkerShape, PmShape, FlushShape, RealInv
<1>7. PowerInv'
  BY Bounds, Bounded
    DEF TbInv, TypeOK, WorkerShape, PmShape, FlushShape, PowerInv, PowerBalanced
<1>8. KeyInv'
  BY DEF TbInv, TypeOK, WorkerShape, PmShape, FlushShape, KeyInv, Listening, Dark, GoingOff
<1>9. KnownInv'
  BY WantKept, WantTypes
    DEF TbInv, TypeOK, WorkerShape, PmShape, FlushShape, KnownInv, ReadyInv, SleepInv,
        SentInv, ToldInv, WakeInv, InUse, Asleep, Settled, Flushed, DueDead, Shown, Stale,
        Sending
<1> QED
  BY <1>1, <1>2, <1>3, <1>4, <1>5, <1>6, <1>7, <1>8, <1>9 DEF TbInv

\* flush_delayed_work.
LEMMA SuspendFlushInv ==
    ASSUME TbInv, SuspendFlush
    PROVE  TbInv'
<1> USE DEF SuspendFlush, ifVars, cmdVars, pmVars, keyVars, setVars, workVars, devVars,
         histVars, bndVars
<1>1. TypeOK'
  BY Bounds, Bounded DEF TbInv, TypeOK, WorkerShape, PmShape, FlushShape
<1>2. WorkerShape'
  BY DEF TbInv, TypeOK, WorkerShape, PmShape, FlushShape, Sending
<1>3. PmShape'
  BY DEF TbInv, TypeOK, WorkerShape, PmShape, FlushShape
<1>4. FlushShape'
  BY DEF TbInv, TypeOK, WorkerShape, PmShape, FlushShape
<1>5. PromptInv'
  BY DEF TbInv, TypeOK, WorkerShape, PmShape, FlushShape, PromptInv, Prompt, Sending
<1>6. RealInv'
  BY DEF TbInv, TypeOK, WorkerShape, PmShape, FlushShape, RealInv
<1>7. PowerInv'
  BY Bounds, Bounded
    DEF TbInv, TypeOK, WorkerShape, PmShape, FlushShape, PowerInv, PowerBalanced
<1>8. KeyInv'
  BY DEF TbInv, TypeOK, WorkerShape, PmShape, FlushShape, KeyInv, Listening, Dark, GoingOff
<1>9. KnownInv'
  BY WantKept, WantTypes
    DEF TbInv, TypeOK, WorkerShape, PmShape, FlushShape, KnownInv, ReadyInv, SleepInv,
        SentInv, ToldInv, WakeInv, InUse, Asleep, Settled, Flushed, DueDead, Shown, Stale,
        Sending
<1> QED
  BY <1>1, <1>2, <1>3, <1>4, <1>5, <1>6, <1>7, <1>8, <1>9 DEF TbInv

\* It ends: with both interfaces suspended nothing is left to send.
LEMMA SuspendWaitInv ==
    ASSUME TbInv, SuspendWait
    PROVE  TbInv'
<1> USE DEF SuspendWait, ifVars, cmdVars, pmVars, keyVars, setVars, workVars, devVars,
         histVars, bndVars
<1>1. TypeOK'
  BY Bounds, Bounded DEF TbInv, TypeOK, WorkerShape, PmShape, FlushShape
<1>2. WorkerShape'
  BY DEF TbInv, TypeOK, WorkerShape, PmShape, FlushShape, Sending
<1>3. PmShape'
  BY DEF TbInv, TypeOK, WorkerShape, PmShape, FlushShape
<1>4. FlushShape'
  BY DEF TbInv, TypeOK, WorkerShape, PmShape, FlushShape
<1>5. PromptInv'
  BY DEF TbInv, TypeOK, WorkerShape, PmShape, FlushShape, PromptInv, Prompt, Sending
<1>6. RealInv'
  BY DEF TbInv, TypeOK, WorkerShape, PmShape, FlushShape, RealInv
<1>7. PowerInv'
  BY Bounds, Bounded
    DEF TbInv, TypeOK, WorkerShape, PmShape, FlushShape, PowerInv, PowerBalanced
<1>8. KeyInv'
  BY DEF TbInv, TypeOK, WorkerShape, PmShape, FlushShape, KeyInv, Listening, Dark, GoingOff
<1>9. KnownInv'
  BY WantKept, WantTypes
    DEF TbInv, TypeOK, WorkerShape, PmShape, FlushShape, KnownInv, ReadyInv, SleepInv,
        SentInv, ToldInv, WakeInv, InUse, Asleep, Settled, Flushed, DueDead, Shown, Stale,
        Sending
<1> QED
  BY <1>1, <1>2, <1>3, <1>4, <1>5, <1>6, <1>7, <1>8, <1>9 DEF TbInv

\* The mode is turned off,
LEMMA SuspendOffModeInv ==
    ASSUME TbInv, SuspendOffMode
    PROVE  TbInv'
<1> USE DEF SuspendOffMode, ifVars, cmdVars, pmVars, keyVars, setVars, workVars, histVars,
         Outcome
<1>1. TypeOK'
  BY Bounds, Bounded DEF TbInv, TypeOK, WorkerShape, PmShape, FlushShape
<1>2. WorkerShape'
  BY DEF TbInv, TypeOK, WorkerShape, PmShape, FlushShape, Sending
<1>3. PmShape'
  BY DEF TbInv, TypeOK, WorkerShape, PmShape, FlushShape
<1>4. FlushShape'
  BY DEF TbInv, TypeOK, WorkerShape, PmShape, FlushShape
<1>5. PromptInv'
  BY DEF TbInv, TypeOK, WorkerShape, PmShape, FlushShape, PromptInv, Prompt, Sending
<1>6. RealInv'
  BY DEF TbInv, TypeOK, WorkerShape, PmShape, FlushShape, RealInv
<1>7. PowerInv'
  BY Bounds, Bounded
    DEF TbInv, TypeOK, WorkerShape, PmShape, FlushShape, PowerInv, PowerBalanced
<1>8. KeyInv'
  BY DEF TbInv, TypeOK, WorkerShape, PmShape, FlushShape, KeyInv, Listening, Dark, GoingOff
<1>9. KnownInv'
  BY WantKept, WantTypes
    DEF TbInv, TypeOK, WorkerShape, PmShape, FlushShape, KnownInv, ReadyInv, SleepInv,
        SentInv, ToldInv, WakeInv, InUse, Asleep, Settled, Flushed, DueDead, Shown, Stale,
        Sending
<1> QED
  BY <1>1, <1>2, <1>3, <1>4, <1>5, <1>6, <1>7, <1>8, <1>9 DEF TbInv

\* ... and the display,
LEMMA SuspendOffDispInv ==
    ASSUME TbInv, SuspendOffDisp
    PROVE  TbInv'
<1> USE DEF SuspendOffDisp, ifVars, cmdVars, keyVars, setVars, workVars, histVars,
         SetTbDisp, Outcome, PmChange
<1>1. TypeOK'
  BY Bounds, Bounded DEF TbInv, TypeOK, WorkerShape, PmShape, FlushShape
<1>2. WorkerShape'
  BY DEF TbInv, TypeOK, WorkerShape, PmShape, FlushShape, Sending
<1>3. PmShape'
  BY DEF TbInv, TypeOK, WorkerShape, PmShape, FlushShape
<1>4. FlushShape'
  BY DEF TbInv, TypeOK, WorkerShape, PmShape, FlushShape
<1>5. PromptInv'
  BY DEF TbInv, TypeOK, WorkerShape, PmShape, FlushShape, PromptInv, Prompt, Sending
<1>6. RealInv'
  BY DEF TbInv, TypeOK, WorkerShape, PmShape, FlushShape, RealInv
<1>7. PowerInv'
  BY Bounds, Bounded
    DEF TbInv, TypeOK, WorkerShape, PmShape, FlushShape, PowerInv, PowerBalanced
<1>8. KeyInv'
  BY DEF TbInv, TypeOK, WorkerShape, PmShape, FlushShape, KeyInv, Listening, Dark, GoingOff
<1>9. KnownInv'
  BY WantKept, WantTypes
    DEF TbInv, TypeOK, WorkerShape, PmShape, FlushShape, KnownInv, ReadyInv, SleepInv,
        SentInv, ToldInv, WakeInv, InUse, Asleep, Settled, Flushed, DueDead, Shown, Stale,
        Sending
<1> QED
  BY <1>1, <1>2, <1>3, <1>4, <1>5, <1>6, <1>7, <1>8, <1>9 DEF TbInv

\* ... and noted so.
LEMMA SuspendStoreInv ==
    ASSUME TbInv, SuspendStore
    PROVE  TbInv'
<1> USE DEF SuspendStore, ifVars, pmVars, keyVars, setVars, workVars, devVars, histVars,
         bndVars
<1>1. TypeOK'
  BY Bounds, Bounded DEF TbInv, TypeOK, WorkerShape, PmShape, FlushShape
<1>2. WorkerShape'
  BY DEF TbInv, TypeOK, WorkerShape, PmShape, FlushShape, Sending
<1>3. PmShape'
  BY DEF TbInv, TypeOK, WorkerShape, PmShape, FlushShape
<1>4. FlushShape'
  BY DEF TbInv, TypeOK, WorkerShape, PmShape, FlushShape
<1>5. PromptInv'
  BY DEF TbInv, TypeOK, WorkerShape, PmShape, FlushShape, PromptInv, Prompt, Sending
<1>6. RealInv'
  BY DEF TbInv, TypeOK, WorkerShape, PmShape, FlushShape, RealInv
<1>7. PowerInv'
  BY Bounds, Bounded
    DEF TbInv, TypeOK, WorkerShape, PmShape, FlushShape, PowerInv, PowerBalanced
<1>8. KeyInv'
  BY DEF TbInv, TypeOK, WorkerShape, PmShape, FlushShape, KeyInv, Listening, Dark, GoingOff
<1>9. KnownInv'
  BY WantKept, WantTypes
    DEF TbInv, TypeOK, WorkerShape, PmShape, FlushShape, KnownInv, ReadyInv, SleepInv,
        SentInv, ToldInv, WakeInv, InUse, Asleep, Settled, Flushed, DueDead, Shown, Stale,
        Sending
<1> QED
  BY <1>1, <1>2, <1>3, <1>4, <1>5, <1>6, <1>7, <1>8, <1>9 DEF TbInv

\* An interface resumes; the device may have been reset.
LEMMA ResumeInv ==
    ASSUME TbInv, NEW f \in Iface, Resume(f)
    PROVE  TbInv'
<1> USE DEF Resume, keyVars, setVars, workVars, thrVars, bndVars
<1>1. TypeOK'
  <2>1. ~active
    BY DEF TbInv, PmShape
  <2>2. /\ pndMode' \in Mode \cup {"NONE"} /\ pndDisp' \in Disp \cup {"NONE"}
        /\ due' \in Nat \cup {None} /\ idleTime' \in 0 .. MaxIdle
        /\ active' \in BOOLEAN /\ restore' \in BOOLEAN
    <3>1. CASE hdev = Iface /\ suspended' = {}
      BY <3>1, UpdateTyped, Bounds DEF TbInv
    <3>2. CASE ~(hdev = Iface /\ suspended' = {})
      BY <3>2 DEF TbInv, TypeOK
    <3> QED
      BY <3>1, <3>2
  <2>3. /\ suspended' \subseteq Iface /\ missed' \in BOOLEAN
        /\ devMode' \in Mode /\ devDisp' \in Disp /\ pmRefs' \in Int
    BY DEF TbInv, TypeOK
  <2>4. UNCHANGED <<keyVars, setVars, hdev, curMode, curDisp, autopmOff, workVars, thrVars,
                    offUnder, bndVars>>
    OBVIOUS
  <2> HIDE DEF Resume
  <2> QED
    BY <2>2, <2>3, <2>4 DEF TbInv, TypeOK
<1>2. WorkerShape'
  BY UpdateFacts DEF TbInv, TypeOK, WorkerShape, PmShape, FlushShape, Sending
<1>3. PmShape'
  <2>1. ~active /\ pm = "run" /\ suspended' \subseteq hdev
    BY DEF TbInv, PmShape
  <2>2. CASE hdev = Iface /\ suspended' = {}
    BY <2>1, <2>2 DEF PmShape
  <2>3. CASE ~(hdev = Iface /\ suspended' = {})
    <3>1. UNCHANGED <<active, pm, hdev, pc, due>>
      BY <2>1, <2>3
    <3>2. hdev # Iface => pc = "idle" /\ due = None
      BY DEF TbInv, PmShape
    <3> HIDE DEF Resume
    <3> QED
      BY <2>1, <2>3, <3>1, <3>2 DEF PmShape
  <2> QED
    BY <2>2, <2>3
<1>4. FlushShape'
  BY UpdateFacts DEF TbInv, TypeOK, WorkerShape, PmShape, FlushShape
<1>5. PromptInv'
  <2>1. CASE hdev = Iface /\ suspended' = {}
    <3>1. due' = 0
      BY <2>1, UpdateFacts
    <3> QED
      BY <3>1 DEF PromptInv, Prompt
  <2>2. CASE ~(hdev = Iface /\ suspended' = {})
    <3>1. ~active'
      BY <2>2 DEF TbInv, PmShape
    <3> QED
      BY <3>1 DEF PromptInv, Prompt
  <2> QED
    BY <2>1, <2>2
<1>6. RealInv'
  <2>1. ~active /\ (missed => missed')
    BY DEF TbInv, PmShape
  <2>2. pndMode' = "UPD" => pndMode = "UPD"
    BY UpdateFacts
  <2>3. pndDisp' = "UPD" => pndDisp = "UPD"
    BY UpdateFacts
  <2> QED
    BY <2>1, <2>2, <2>3 DEF TbInv, RealInv
<1>7. PowerInv'
  BY UpdateFacts, Bounds, Bounded
    DEF TbInv, TypeOK, WorkerShape, PmShape, FlushShape, PowerInv, PowerBalanced
<1>8. KeyInv'
  <2>1. ~active /\ (missed' <=> missed \/ held # {})
    BY DEF TbInv, TypeOK, PmShape
  <2>2. ~missed' => keys = {} /\ held = {} /\ (~offUnder => down = {})
    BY <2>1, NoneHeld DEF TbInv
  <2>3. UNCHANGED <<keys, xlated, held, down, offUnder>> /\ (~Listening' => ~Listening)
    BY DEF TbInv, TypeOK, Listening
  <2> HIDE DEF Resume
  <2> QED
    BY <2>1, <2>2, <2>3 DEF TbInv, KeyInv
<1>9. KnownInv'
  BY UpdateFacts, WantKept, WantTypes
    DEF TbInv, TypeOK, WorkerShape, PmShape, FlushShape, KnownInv, ReadyInv, SleepInv,
        SentInv, ToldInv, WakeInv, InUse, Asleep, Settled, Flushed, DueDead, Shown, Stale,
        Sending
<1> QED
  BY <1>1, <1>2, <1>3, <1>4, <1>5, <1>6, <1>7, <1>8, <1>9 DEF TbInv

\* An interface is bound.
LEMMA ProbeInv ==
    ASSUME TbInv, NEW f \in Iface, Probe(f)
    PROVE  TbInv'
<1> USE DEF Probe, pmVars, keyVars, setVars, workVars, devVars, bndVars
<1>1. TypeOK'
  <2>1. ~active /\ active \in BOOLEAN /\ hdev' \subseteq Iface
    BY DEF TbInv, TypeOK, PmShape
  <2>2. /\ pndMode' \in Mode \cup {"NONE"} /\ pndDisp' \in Disp \cup {"NONE"}
        /\ due' \in Nat \cup {None} /\ idleTime' \in 0 .. MaxIdle
        /\ active' \in BOOLEAN /\ pm' \in PmPc /\ pmIface' \in Iface
    <3>1. CASE hdev' = Iface
      BY <2>1, <3>1, UpdateTyped, Bounds DEF TbInv
    <3>2. CASE hdev' # Iface
      BY <2>1, <3>2 DEF TbInv, TypeOK
    <3> QED
      BY <3>1, <3>2
  <2>3. /\ idleTimeout' \in Idles /\ dimTimeout' \in Int /\ dimTimeout' >= -1
        /\ dimCalc' \in BOOLEAN /\ fnMode' \in FnModes
    <3>1. CASE hdev' = Iface
      <4>1. PICK p \in Params :
                /\ idleTimeout' = p[1] /\ dimCalc' = (p[2] = -2)
                /\ dimTimeout' = IF p[2] = -2 THEN CalcDim(p[1]) ELSE p[2]
        BY <2>1, <3>1
      <4>2. p[1] \in Idles /\ p[1] \in Int /\ p[2] \in Int /\ p[2] >= -2
        BY Bounds
      <4>3. CalcDim(p[1]) \in Int /\ CalcDim(p[1]) >= -1
        BY <4>2, CalcDimTyped
      <4>4. fnMode' \in FnModes
        BY <2>1, <3>1, Bounds
      <4> HIDE DEF Probe
      <4> QED
        BY <4>1, <4>2, <4>3, <4>4
    <3>2. CASE hdev' # Iface
      BY <2>1, <3>2 DEF TbInv, TypeOK
    <3> QED
      BY <3>1, <3>2
  <2>4. missed' \in BOOLEAN
    BY DEF TbInv, TypeOK
  <2>5. UNCHANGED <<suspended, keyVars, curMode, curDisp, pmVars, workVars, pmMsg, flush,
                    devVars, offUnder, bndVars>>
    OBVIOUS
  <2> HIDE DEF Probe
  <2> QED
    BY <2>1, <2>2, <2>3, <2>4, <2>5 DEF TbInv, TypeOK
<1>2. WorkerShape'
  BY UpdateFacts DEF TbInv, TypeOK, WorkerShape, PmShape, FlushShape, Sending
<1>3. PmShape'
  <2>1. /\ ~active /\ pm = "run" /\ suspended = {} /\ pc = "idle" /\ due = None
        /\ UNCHANGED <<suspended, pc>>
    BY DEF TbInv, PmShape
  <2>2. CASE hdev' = Iface
    BY <2>1, <2>2 DEF PmShape
  <2>3. CASE hdev' # Iface
    <3>1. UNCHANGED <<active, pm, due>>
      BY <2>1, <2>3
    <3> HIDE DEF Probe
    <3> QED
      BY <2>1, <2>3, <3>1 DEF PmShape
  <2> QED
    BY <2>2, <2>3
<1>4. FlushShape'
  BY UpdateFacts DEF TbInv, TypeOK, WorkerShape, PmShape, FlushShape
<1>5. PromptInv'
  <2>1. ~active /\ pc' = "idle"
    BY DEF TbInv, PmShape
  <2>2. CASE hdev' = Iface
    <3>1. keys' = {} => due' = 0
      BY <2>1, <2>2, UpdateFacts
    <3>2. keys' # {} => pndMode' = "UPD"
      BY <2>1, <2>2, UpdateFacts
    <3> QED
      BY <2>1, <3>1, <3>2 DEF PromptInv, Prompt, Sending
  <2>3. CASE hdev' # Iface
    <3>1. ~active'
      BY <2>1, <2>3
    <3> QED
      BY <3>1 DEF PromptInv, Prompt
  <2> QED
    BY <2>2, <2>3
<1>6. RealInv'
  BY UpdateFacts DEF TbInv, TypeOK, WorkerShape, PmShape, FlushShape, RealInv
<1>7. PowerInv'
  BY UpdateFacts, Bounds, Bounded
    DEF TbInv, TypeOK, WorkerShape, PmShape, FlushShape, PowerInv, PowerBalanced
<1>8. KeyInv'
  <2>1. ~active /\ (missed' <=> missed \/ held # {})
    BY DEF TbInv, TypeOK, PmShape
  <2>2. ~missed' => keys = {} /\ held = {} /\ (~offUnder => down = {})
    BY <2>1, NoneHeld DEF TbInv
  <2>3. UNCHANGED <<keys, xlated, held, down, offUnder>> /\ (~Listening' => ~Listening)
    BY DEF TbInv, TypeOK, Listening
  <2> HIDE DEF Probe
  <2> QED
    BY <2>1, <2>2, <2>3 DEF TbInv, KeyInv
<1>9. KnownInv'
  BY UpdateFacts, WantKept, WantTypes
    DEF TbInv, TypeOK, WorkerShape, PmShape, FlushShape, KnownInv, ReadyInv, SleepInv,
        SentInv, ToldInv, WakeInv, InUse, Asleep, Settled, Flushed, DueDead, Shown, Stale,
        Sending
<1> QED
  BY <1>1, <1>2, <1>3, <1>4, <1>5, <1>6, <1>7, <1>8, <1>9 DEF TbInv

\* The handler and the attributes are registered, or not.
LEMMA ProbeRegisterInv ==
    ASSUME TbInv, ProbeRegister
    PROVE  TbInv'
<1> USE DEF ProbeRegister, cmdVars, pmVars, keyVars, setVars, workVars, devVars, Spare
<1>1. TypeOK'
  <2>1. removes' \in 0 .. MaxRemoves
    BY Bounds DEF TbInv, TypeOK
  <2>2. active' \in BOOLEAN /\ missed' \in BOOLEAN /\ pm' \in PmPc /\ pmIface' \in Iface
    BY DEF TbInv, TypeOK
  <2> QED
    BY <2>1, <2>2 DEF TbInv, TypeOK
<1>2. WorkerShape'
  BY DEF TbInv, TypeOK, WorkerShape, PmShape, FlushShape, Sending
<1>3. PmShape'
  BY DEF TbInv, TypeOK, WorkerShape, PmShape, FlushShape
<1>4. FlushShape'
  BY DEF TbInv, TypeOK, WorkerShape, PmShape, FlushShape
<1>5. PromptInv'
  BY DEF TbInv, TypeOK, WorkerShape, PmShape, FlushShape, PromptInv, Prompt, Sending
<1>6. RealInv'
  BY DEF TbInv, TypeOK, WorkerShape, PmShape, FlushShape, RealInv
<1>7. PowerInv'
  <2>1. CASE pm' = "run"
    BY <2>1 DEF TbInv, TypeOK, PowerInv, PowerBalanced, WorkerShape, PmShape
  <2>2. CASE pm' = "undo"
    <3>1. removes' > 0
      BY <2>2, Bounded DEF TbInv
    <3> QED
      BY <2>2, <3>1 DEF TbInv, TypeOK, PowerInv, PowerBalanced, WorkerShape, PmShape
  <2> QED
    BY <2>1, <2>2
<1>8. KeyInv'
  BY DEF TbInv, TypeOK, WorkerShape, PmShape, FlushShape, KeyInv, Listening, Dark, GoingOff
<1>9. KnownInv'
  BY WantKept, WantTypes
    DEF TbInv, TypeOK, WorkerShape, PmShape, FlushShape, KnownInv, ReadyInv, SleepInv,
        SentInv, ToldInv, WakeInv, InUse, Asleep, Settled, Flushed, DueDead, Shown, Stale,
        Sending
<1> QED
  BY <1>1, <1>2, <1>3, <1>4, <1>5, <1>6, <1>7, <1>8, <1>9 DEF TbInv

\* A probe that failed gives its interface up.
LEMMA ProbeUndoInv ==
    ASSUME TbInv, ProbeUndo
    PROVE  TbInv'
<1> USE DEF ProbeUndo, cmdVars, pmVars, setVars, workVars, devVars, histVars, bndVars,
         Synced
<1>1. TypeOK'
  BY Bounds, Bounded DEF TbInv, TypeOK, WorkerShape, PmShape, FlushShape
<1>2. WorkerShape'
  BY DEF TbInv, TypeOK, WorkerShape, PmShape, FlushShape, Sending
<1>3. PmShape'
  BY DEF TbInv, TypeOK, WorkerShape, PmShape, FlushShape
<1>4. FlushShape'
  BY DEF TbInv, TypeOK, WorkerShape, PmShape, FlushShape
<1>5. PromptInv'
  BY DEF TbInv, TypeOK, WorkerShape, PmShape, FlushShape, PromptInv, Prompt, Sending
<1>6. RealInv'
  BY DEF TbInv, TypeOK, WorkerShape, PmShape, FlushShape, RealInv
<1>7. PowerInv'
  BY Bounds, Bounded
    DEF TbInv, TypeOK, WorkerShape, PmShape, FlushShape, PowerInv, PowerBalanced
<1>8. KeyInv'
  BY DEF TbInv, TypeOK, WorkerShape, PmShape, FlushShape, KeyInv, Listening, Dark, GoingOff
<1>9. KnownInv'
  BY WantKept, WantTypes
    DEF TbInv, TypeOK, WorkerShape, PmShape, FlushShape, KnownInv, ReadyInv, SleepInv,
        SentInv, ToldInv, WakeInv, InUse, Asleep, Settled, Flushed, DueDead, Shown, Stale,
        Sending
<1> QED
  BY <1>1, <1>2, <1>3, <1>4, <1>5, <1>6, <1>7, <1>8, <1>9 DEF TbInv

\* An interface is unbound.
LEMMA RemoveInv ==
    ASSUME TbInv, NEW f \in Iface, Remove(f)
    PROVE  TbInv'
<1> USE DEF Remove, cmdVars, pmVars, keyVars, setVars, workVars, devVars, Spare
<1>1. TypeOK'
  BY Bounds, Bounded DEF TbInv, TypeOK, WorkerShape, PmShape, FlushShape
<1>2. WorkerShape'
  BY DEF TbInv, TypeOK, WorkerShape, PmShape, FlushShape, Sending
<1>3. PmShape'
  BY DEF TbInv, TypeOK, WorkerShape, PmShape, FlushShape
<1>4. FlushShape'
  BY DEF TbInv, TypeOK, WorkerShape, PmShape, FlushShape
<1>5. PromptInv'
  BY DEF TbInv, TypeOK, WorkerShape, PmShape, FlushShape, PromptInv, Prompt, Sending
<1>6. RealInv'
  BY DEF TbInv, TypeOK, WorkerShape, PmShape, FlushShape, RealInv
<1>7. PowerInv'
  BY Bounds, Bounded
    DEF TbInv, TypeOK, WorkerShape, PmShape, FlushShape, PowerInv, PowerBalanced
<1>8. KeyInv'
  BY DEF TbInv, TypeOK, WorkerShape, PmShape, FlushShape, KeyInv, Listening, Dark, GoingOff
<1>9. KnownInv'
  BY WantKept, WantTypes
    DEF TbInv, TypeOK, WorkerShape, PmShape, FlushShape, KnownInv, ReadyInv, SleepInv,
        SentInv, ToldInv, WakeInv, InUse, Asleep, Settled, Flushed, DueDead, Shown, Stale,
        Sending
<1> QED
  BY <1>1, <1>2, <1>3, <1>4, <1>5, <1>6, <1>7, <1>8, <1>9 DEF TbInv

\* The work is cancelled.
LEMMA RemoveCancelInv ==
    ASSUME TbInv, RemoveCancel
    PROVE  TbInv'
<1> USE DEF RemoveCancel, ifVars, cmdVars, pmVars, keyVars, setVars, workVars, devVars,
         histVars, bndVars, Synced
<1>1. TypeOK'
  BY Bounds, Bounded DEF TbInv, TypeOK, WorkerShape, PmShape, FlushShape
<1>2. WorkerShape'
  BY DEF TbInv, TypeOK, WorkerShape, PmShape, FlushShape, Sending
<1>3. PmShape'
  BY DEF TbInv, TypeOK, WorkerShape, PmShape, FlushShape
<1>4. FlushShape'
  BY DEF TbInv, TypeOK, WorkerShape, PmShape, FlushShape
<1>5. PromptInv'
  BY DEF TbInv, TypeOK, WorkerShape, PmShape, FlushShape, PromptInv, Prompt, Sending
<1>6. RealInv'
  BY DEF TbInv, TypeOK, WorkerShape, PmShape, FlushShape, RealInv
<1>7. PowerInv'
  BY Bounds, Bounded
    DEF TbInv, TypeOK, WorkerShape, PmShape, FlushShape, PowerInv, PowerBalanced
<1>8. KeyInv'
  BY DEF TbInv, TypeOK, WorkerShape, PmShape, FlushShape, KeyInv, Listening, Dark, GoingOff
<1>9. KnownInv'
  BY WantKept, WantTypes
    DEF TbInv, TypeOK, WorkerShape, PmShape, FlushShape, KnownInv, ReadyInv, SleepInv,
        SentInv, ToldInv, WakeInv, InUse, Asleep, Settled, Flushed, DueDead, Shown, Stale,
        Sending
<1> QED
  BY <1>1, <1>2, <1>3, <1>4, <1>5, <1>6, <1>7, <1>8, <1>9 DEF TbInv

\* The bar is handed back.
LEMMA RemoveQuitInv ==
    ASSUME TbInv, RemoveQuit
    PROVE  TbInv'
<1> USE DEF RemoveQuit, ifVars, cmdVars, keyVars, setVars, workVars, histVars, SetTbDisp,
         Outcome, PmChange
<1>1. TypeOK'
  BY Bounds, Bounded DEF TbInv, TypeOK, WorkerShape, PmShape, FlushShape
<1>2. WorkerShape'
  BY DEF TbInv, TypeOK, WorkerShape, PmShape, FlushShape, Sending
<1>3. PmShape'
  BY DEF TbInv, TypeOK, WorkerShape, PmShape, FlushShape
<1>4. FlushShape'
  BY DEF TbInv, TypeOK, WorkerShape, PmShape, FlushShape
<1>5. PromptInv'
  BY DEF TbInv, TypeOK, WorkerShape, PmShape, FlushShape, PromptInv, Prompt, Sending
<1>6. RealInv'
  BY DEF TbInv, TypeOK, WorkerShape, PmShape, FlushShape, RealInv
<1>7. PowerInv'
  BY Bounds, Bounded
    DEF TbInv, TypeOK, WorkerShape, PmShape, FlushShape, PowerInv, PowerBalanced
<1>8. KeyInv'
  BY DEF TbInv, TypeOK, WorkerShape, PmShape, FlushShape, KeyInv, Listening, Dark, GoingOff
<1>9. KnownInv'
  BY WantKept, WantTypes
    DEF TbInv, TypeOK, WorkerShape, PmShape, FlushShape, KnownInv, ReadyInv, SleepInv,
        SentInv, ToldInv, WakeInv, InUse, Asleep, Settled, Flushed, DueDead, Shown, Stale,
        Sending
<1> QED
  BY <1>1, <1>2, <1>3, <1>4, <1>5, <1>6, <1>7, <1>8, <1>9 DEF TbInv

\* The interface is gone.
LEMMA RemoveGoneInv ==
    ASSUME TbInv, RemoveGone
    PROVE  TbInv'
<1> USE DEF RemoveGone, cmdVars, pmVars, setVars, workVars, devVars, histVars, bndVars
<1>1. TypeOK'
  BY Bounds, Bounded DEF TbInv, TypeOK, WorkerShape, PmShape, FlushShape
<1>2. WorkerShape'
  BY DEF TbInv, TypeOK, WorkerShape, PmShape, FlushShape, Sending
<1>3. PmShape'
  BY DEF TbInv, TypeOK, WorkerShape, PmShape, FlushShape
<1>4. FlushShape'
  BY DEF TbInv, TypeOK, WorkerShape, PmShape, FlushShape
<1>5. PromptInv'
  BY DEF TbInv, TypeOK, WorkerShape, PmShape, FlushShape, PromptInv, Prompt, Sending
<1>6. RealInv'
  BY DEF TbInv, TypeOK, WorkerShape, PmShape, FlushShape, RealInv
<1>7. PowerInv'
  BY Bounds, Bounded
    DEF TbInv, TypeOK, WorkerShape, PmShape, FlushShape, PowerInv, PowerBalanced
<1>8. KeyInv'
  BY DEF TbInv, TypeOK, WorkerShape, PmShape, FlushShape, KeyInv, Listening, Dark, GoingOff
<1>9. KnownInv'
  BY WantKept, WantTypes
    DEF TbInv, TypeOK, WorkerShape, PmShape, FlushShape, KnownInv, ReadyInv, SleepInv,
        SentInv, ToldInv, WakeInv, InUse, Asleep, Settled, Flushed, DueDead, Shown, Stale,
        Sending
<1> QED
  BY <1>1, <1>2, <1>3, <1>4, <1>5, <1>6, <1>7, <1>8, <1>9 DEF TbInv

---------------------------------------------------------------------------
(* The inductive invariant and what follows from it.                       *)

\* The driver as appletb_alloc_device leaves it.
LEMMA InitInv == Init => TbInv
<1> SUFFICES ASSUME Init PROVE TbInv
  OBVIOUS
<1> USE DEF Init
<1>1. TypeOK
  <2>1. idleTimeout \in Idles
    BY Bounds
  <2>2. /\ idleTime \in 0 .. MaxIdle /\ stores \in 0 .. MaxStores
        /\ suspends \in 0 .. MaxSuspends /\ removes \in 0 .. MaxRemoves
        /\ fails \in 0 .. MaxFails /\ fnMode \in FnModes
    BY Bounds
  <2>3. /\ curMode \in Mode /\ pndMode \in Mode \cup {"NONE"} /\ devMode \in Mode
        /\ curDisp \in Disp /\ pndDisp \in Disp \cup {"NONE"} /\ devDisp \in Disp
        /\ wMode \in Mode \cup {"NONE"} /\ wDisp \in Disp \cup {"NONE"}
    OBVIOUS
  <2>4. /\ pc \in WorkerPc /\ pm \in PmPc /\ pmIface \in Iface /\ flush \in {"done", "queued", "running"}
        /\ pmMsg \in {"suspend", "freeze"} /\ wNext \in {"NONE", "DIM", "OFF"}
        /\ rc1 \in {"skip", "ok", "fail"} /\ rc2 \in {"skip", "ok", "fail"}
    OBVIOUS
  <2>5. /\ due \in Nat \cup {None} /\ wSecs \in Nat \cup {None} /\ pmRefs \in Int
        /\ dimTimeout \in Int /\ dimTimeout >= -1
    OBVIOUS
  <2> QED
    BY <2>1, <2>2, <2>3, <2>4, <2>5 DEF TypeOK
<1>2. WorkerShape /\ PmShape /\ FlushShape
  BY DEF WorkerShape, PmShape, FlushShape, Sending
<1>3. PromptInv /\ RealInv /\ PowerInv
  BY DEF PromptInv, Prompt, RealInv, PowerInv, PowerBalanced, Sending
<1>4. KeyInv
  BY DEF KeyInv, Listening
<1>5. KnownInv
  BY DEF KnownInv, ReadyInv, SleepInv, SentInv, ToldInv, WakeInv, InUse, Asleep, Flushed
<1> QED
  BY <1>1, <1>2, <1>3, <1>4, <1>5 DEF TbInv

\* A stuttering step.
LEMMA StutterInv ==
    ASSUME TbInv, UNCHANGED vars
    PROVE  TbInv'
<1> USE DEF vars
<1>1. TypeOK'
  BY DEF TbInv, TypeOK
<1>2. WorkerShape' /\ PmShape' /\ FlushShape'
  BY DEF TbInv, WorkerShape, PmShape, FlushShape, Sending
<1>3. PromptInv' /\ RealInv' /\ PowerInv'
  BY DEF TbInv, PromptInv, Prompt, RealInv, PowerInv, PowerBalanced, Sending
<1>4. KeyInv'
  BY DEF TbInv, KeyInv, Listening, Dark, GoingOff
<1>5. KnownInv'
  BY WantKept
    DEF TbInv, KnownInv, ReadyInv, SleepInv, SentInv, ToldInv, WakeInv, InUse, Asleep,
     Settled, Flushed, DueDead, Shown, Stale, Sending
<1> QED
  BY <1>1, <1>2, <1>3, <1>4, <1>5 DEF TbInv

\* Every step keeps the invariant.
LEMMA StepInv ==
    ASSUME TbInv, [Next]_vars
    PROVE  TbInv'
<1>1. CASE Worker
  BY <1>1, WorkStartInv, WorkModeInv, WorkDispInv, WorkRelockInv, WorkTimeoutInv,
     WorkStoreInv,
     WorkSchedInv DEF Worker
<1>2. CASE Input
  BY <1>2, KeyEventInv, KeyUnseenInv, FnEventInv, OtherEventInv DEF Input
<1>3. CASE Sysfs
  BY <1>3, StoreIdleInv, StoreDimInv, StoreFnInv DEF Sysfs
<1>4. CASE PmStep
  BY <1>4, SuspendFlushInv, SuspendWaitInv, SuspendOffModeInv, SuspendOffDispInv,
     SuspendStoreInv, ProbeRegisterInv, ProbeUndoInv, RemoveCancelInv, RemoveQuitInv,
     RemoveGoneInv DEF PmStep
<1>5. CASE PmCall
  BY <1>5, SuspendInv, ResumeInv, ProbeInv, RemoveInv DEF PmCall
<1>6. CASE Tick
  BY <1>6, TickInv
<1>7. CASE UNCHANGED vars
  BY <1>7, StutterInv
<1> QED
  BY <1>1, <1>2, <1>3, <1>4, <1>5, <1>6, <1>7 DEF Next

\* The inductive invariant holds in every reachable state.
THEOREM TbInvariant == Spec => []TbInv
<1>1. Init => TbInv
  BY InitInv
<1>2. TbInv /\ [Next]_vars => TbInv'
  BY StepInv
<1> QED
  BY <1>1, <1>2, PTL DEF Spec

\* Every variable has its type: the pending and current commands are commands,
\* and the times are times (apple-ib-tb.c, struct appletb_device).
THEOREM TypeCorrect == Spec => []TypeOK
<1>1. TbInv => TypeOK
  BY DEF TbInv
<1> QED
  BY <1>1, TbInvariant, PTL

\* A pending command is queued or just being carried out: it waits for no timer
\* and no event (appletb_update_touchbar_no_lock, appletb_set_tb_worker).
THEOREM PromptHolds == Spec => []Prompt
<1>1. TbInv => Prompt
  BY DEF TbInv, PromptInv
<1> QED
  BY <1>1, TbInvariant, PTL

\* No key stays down for the input layer after it was released, whatever mode
\* the bar was switched to meanwhile (appletb_hid_event).
THEOREM KeysReleasedHolds == Spec => []KeysReleased
<1>1. TbInv => KeysReleased
  <2> SUFFICES ASSUME TbInv, NEW k \in Key, NEW c \in {"fn", "special"},
                      <<k, c>> \in down, ~missed, ~offUnder
               PROVE  k \in held
    BY DEF KeysReleased
  <2>1. CASE active
    BY <2>1 DEF TbInv, KeyInv
  <2>2. CASE ~active
    BY <2>2 DEF TbInv, KeyInv
  <2> QED
    BY <2>1, <2>2
<1> QED
  BY <1>1, TbInvariant, PTL

\* The driver knows what the device was last told and holds as many power
\* references as it should, sends only real commands, and sends only while both
\* interfaces are there (appletb_set_tb_worker, appletb_suspend, appletb_remove).
THEOREM DeviceKnownHolds == Spec => []DeviceKnown
<1>1. TbInv => KnowsDevice
  <2> SUFFICES ASSUME TbInv, pc = "idle", pm = "run", active, fails = 0
               PROVE  /\ pndMode = "NONE" => curMode = devMode
                      /\ pndDisp = "NONE" => curDisp = devDisp
    BY DEF KnowsDevice, Quiescent
  <2>1. hdev = Iface /\ suspended = {} /\ rc1 = "skip" /\ rc2 = "skip"
    BY DEF TbInv, PmShape, WorkerShape, Sending
  <2>2. InUse /\ ~Asleep /\ Shown = curDisp
    BY <2>1 DEF InUse, Asleep, Shown
  <2> QED
    BY <2>1, <2>2 DEF TbInv, KnownInv, ToldInv
<1>2. TbInv => RealCommands
  BY DEF TbInv, RealInv, RealCommands
<1>3. TbInv => WorkerHasInterfaces
  BY DEF TbInv, PmShape, WorkerHasInterfaces
<1>4. TbInv => TypeOK /\ PowerBalanced
  BY DEF TbInv, PowerInv
<1>5. TbInv => DeviceKnown
  BY <1>1, <1>2, <1>3, <1>4 DEF DeviceKnown
<1> QED
  BY <1>5, TbInvariant, PTL
===========================================================================
