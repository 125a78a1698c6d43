------------------------- MODULE FthdIspCmdProofs -------------------------
(***************************************************************************)
(* Proofs, for every number of callers, every ring size and every memory,  *)
(* of the safety properties of FthdIspCmd.                                 *)
(***************************************************************************)
EXTENDS FthdIspCmd, TLAPS

\* A caller has a request object exactly while it is inside the call.
HasObject ==
    \A c \in Caller : /\ pc[c] = "idle" <=> mem[c] = NoMem
                      /\ pc[c] \notin Posted => verdict[c] = NoVerdict

DistinctObjects ==
    \A c, d \in Caller : c # d /\ mem[c] # NoMem => mem[c] # mem[d]

\* An entry in the firmware's hands holds an offset.
PostedAddr == \A i \in Slot : flag[i] = 0 => addr[i] \in Mem

(* An unanswered command keeps its entry; an answered one keeps it until   *)
(* ringbuf.idx has come round, which takes Size sends.                     *)
Unanswered ==
    \A c \in Caller : pc[c] \in Posted /\ verdict[c] = NoVerdict =>
        flag[entry[c]] = 0 /\ addr[entry[c]] = mem[c]
Distance ==
    \A c \in Caller : pc[c] \in Posted /\ overtaken[c] < Size =>
        /\ addr[entry[c]] = mem[c]
        /\ verdict[c] # NoVerdict => flag[entry[c]] = 1
        /\ \/ idx = entry[c] + 1 + overtaken[c]
           \/ idx + Size = entry[c] + 1 + overtaken[c]
Ready == \A c \in Caller : pc[c] = "ready" => verdict[c] # NoVerdict

\* While the firmware executes an entry, the entry's caller has been counted.
Busy ==
    fwBusy => /\ flag[fwIdx] = 0
              /\ \A c \in Caller : Holds(c, fwIdx) => execs[c] >= 1
Counted ==
    \A c \in Caller :
        /\ verdict[c] # NoVerdict => execs[c] >= 1
        /\ pc[c] = "idle" => execs[c] = 0
        /\ ~everOrphan => /\ execs[c] <= 1
                          /\ \/ verdict[c] # NoVerdict
                             \/ fwBusy /\ Holds(c, fwIdx)
                             \/ execs[c] = 0
NoOrphan == ~everOrphan => orphan = {}

(* Only entries that the firmware serves before the caller's own can hold  *)
(* the offset of the caller's object: they were posted by commands that    *)
(* gave up, before the object's memory was handed to this caller.          *)
Pos(i) == IF i >= fwIdx THEN i - fwIdx ELSE i - fwIdx + Size
Order ==
    ~skipped => \A c \in Caller, i \in Slot :
        pc[c] \in Posted /\ flag[i] = 0 /\ addr[i] = mem[c] =>
            /\ verdict[c] = NoVerdict
            /\ i = entry[c] \/ Pos(i) < Pos(entry[c])
OwnStatus ==
    ~skipped => \A c \in Caller :
        pc[c] \in Posted /\ verdict[c] # NoVerdict =>
            status[mem[c]] = verdict[c]

IInv ==
    /\ TypeOK
    /\ HasObject
    /\ DistinctObjects
    /\ PostedAddr
    /\ Unanswered
    /\ Distance
    /\ Ready
    /\ Busy
    /\ Counted
    /\ NoOrphan
    /\ FirmwareMemoryLive
    /\ Window
    /\ Order
    /\ OwnStatus
---------------------------------------------------------------------------
\* Slots are the indices of get_entry_addr, and the next index is one of them.
LEMMA SlotFacts == /\ 0 \in Slot
                   /\ \A i \in Slot : i \in Nat /\ i < Size /\ NextIdx(i) \in Slot
  BY SizeAssumption DEF Slot, NextIdx

\* What isp_mem_destroy and the return leave behind is well typed.
LEMMA LeaveType ==
  ASSUME NEW c \in Caller, TypeOK, Leave(c)
  PROVE  /\ pc' \in [Caller -> Place]
         /\ mem' \in [Caller -> Mem \cup {NoMem}]
         /\ entry' \in [Caller -> Slot]
         /\ kind' \in [Caller -> {"cmd", "powerdown"}]
         /\ execs' \in [Caller -> 0 .. 2]
         /\ verdict' \in [Caller -> {0, 1, NoVerdict}]
  BY SlotFacts DEF TypeOK, Leave, Place

\* Every step of a caller or of the firmware keeps the types.
LEMMA TypeStep == TypeOK /\ [Next]_vars => TypeOK'
<1> SUFFICES ASSUME TypeOK, [Next]_vars PROVE TypeOK'
  OBVIOUS
<1> USE SlotFacts, SizeAssumption, MemAssumption DEF TypeOK, Place, NoVerdict
<1>1. CASE FwTake
  BY <1>1 DEF FwTake, ringVars, callVars
<1>2. CASE FwAnswer
  BY <1>2 DEF FwAnswer, callVars
<1>3. CASE FwIdle
  BY <1>3 DEF FwIdle, ringVars, fwVars, callVars, histVars
<1>4. ASSUME NEW c \in Caller, CmdStart(c) PROVE TypeOK'
  BY <1>4 DEF CmdStart, ringVars, histVars, Kind
<1>5. ASSUME NEW c \in Caller, SendFails(c) PROVE TypeOK'
  <2>1. overtaken' \in [Caller -> 0 .. Size] /\ idx' \in Slot
    BY <1>5 DEF SendFails, Overtake
  <2>2. skipped' \in BOOLEAN
    BY <1>5, Zenon DEF SendFails
  <2> QED
    BY <1>5, <2>1, <2>2, LeaveType DEF SendFails, fwVars
<1>6. ASSUME NEW c \in Caller, SendPosts(c) PROVE TypeOK'
  <2>1. overtaken' \in [Caller -> 0 .. Size] /\ idx' \in Slot
    BY <1>6 DEF SendPosts, Overtake
  <2> QED
    BY <1>6, <2>1 DEF SendPosts, fwVars
<1>12. ASSUME NEW c \in Caller, RingPowerDown(c) PROVE TypeOK'
  <2>1. everOrphan' \in BOOLEAN /\ bell' \in BOOLEAN
    BY <1>12, Zenon DEF RingPowerDown, Orphan
  <2>2. orphan' \in SUBSET Slot
    BY <1>12 DEF RingPowerDown, Orphan
  <2> QED
    BY <1>12, <2>1, <2>2 DEF RingPowerDown, Leave, ringVars, fwVars
<1>13. ASSUME NEW c \in Caller, RingAndWait(c) PROVE TypeOK'
  BY <1>13 DEF RingAndWait, ringVars, fwVars, histVars
<1>7. ASSUME NEW c \in Caller, WaitReady(c) PROVE TypeOK'
  BY <1>7 DEF WaitReady, ringVars, fwVars, histVars
<1>8. ASSUME NEW c \in Caller, WaitFails(c) PROVE TypeOK'
  BY <1>8 DEF WaitFails, ringVars, fwVars, histVars
<1>9. ASSUME NEW c \in Caller, GiveUp(c) PROVE TypeOK'
  BY <1>9 DEF GiveUp, Leave, Orphan, ringVars, fwVars
<1>10. ASSUME NEW c \in Caller, Finish(c) PROVE TypeOK'
  BY <1>10 DEF Finish, Leave, ringVars, fwVars
<1>11. CASE UNCHANGED vars
  BY <1>11 DEF vars
<1> QED
  BY <1>1, <1>2, <1>3, <1>4, <1>5, <1>6, <1>7, <1>8, <1>9, <1>10, <1>11,
     <1>12, <1>13
  DEF Next, Firmware, Call, Send, Ring

\* The ring as fthd_channel_ringbuf_init leaves it is well typed.
LEMMA InitType == Init => TypeOK
<1> SUFFICES ASSUME Init PROVE TypeOK
  OBVIOUS
<1>1. bell \in BOOLEAN /\ fwBusy \in BOOLEAN /\ everOrphan \in BOOLEAN
      /\ skipped \in BOOLEAN
  BY Zenon DEF Init
<1>2. 0 \in 0 .. Size /\ 0 \in Slot
  BY SlotFacts, SizeAssumption
<1> QED
  BY <1>1, <1>2 DEF Init, TypeOK, Place, NoVerdict

\* Every variable keeps its type.
THEOREM TypeCorrect == Spec => []TypeOK
  BY InitType, TypeStep, PTL DEF Spec
---------------------------------------------------------------------------
\* What each action leaves alone, and the history it writes, spelled out.
LEMMA SendPostsInv ==
  ASSUME NEW c \in Caller, IInv, TypeOK', SendPosts(c)
  PROVE  IInv'
<1> USE SlotFacts, SizeAssumption, MemAssumption DEF NoVerdict
<1>1. /\ TypeOK /\ HasObject /\ DistinctObjects /\ PostedAddr
      /\ Unanswered /\ Distance /\ Ready /\ Busy /\ Counted /\ NoOrphan
      /\ FirmwareMemoryLive /\ Window /\ Order /\ OwnStatus
  BY DEF IInv
<1>2. /\ pc[c] = "send" /\ pc' = [pc EXCEPT ![c] = "bell"]
      /\ flag[idx] = 1 /\ flag' = [flag EXCEPT ![idx] = 0]
      /\ addr' = [addr EXCEPT ![idx] = mem[c]]
      /\ entry' = [entry EXCEPT ![c] = idx]
      /\ idx' = NextIdx(idx)
      /\ UNCHANGED <<bell, fwIdx, fwBusy, status, mem, kind, execs, verdict,
                     orphan, everOrphan, skipped>>
  BY DEF SendPosts, HostOwns, fwVars
<1>3. /\ mem[c] \in Mem /\ verdict[c] = NoVerdict
      /\ pc'[c] = "bell" /\ entry'[c] = idx
      /\ \A d \in Caller : d # c => pc'[d] = pc[d] /\ entry'[d] = entry[d]
      /\ \A i \in Slot : i # idx => flag'[i] = flag[i] /\ addr'[i] = addr[i]
      /\ flag'[idx] = 0 /\ addr'[idx] = mem[c]
  BY <1>1, <1>2 DEF TypeOK, HasObject, Posted
<1>4. HasObject'
  BY <1>1, <1>2, <1>3 DEF HasObject, Posted, TypeOK
<1>5. DistinctObjects'
  BY <1>1, <1>2 DEF DistinctObjects
<1>6. PostedAddr'
  BY <1>1, <1>3 DEF PostedAddr, TypeOK
<1>7. Unanswered'
  BY <1>1, <1>2, <1>3 DEF Unanswered, TypeOK
<1>8. Distance'
  <2>1. \A d \in Caller : overtaken'[d] =
          IF d = c \/ pc[d] \notin Posted THEN 0
          ELSE IF overtaken[d] < Size THEN overtaken[d] + 1 ELSE Size
    BY DEF SendPosts, Overtake
  <2> SUFFICES ASSUME NEW d \in Caller, pc'[d] \in Posted, overtaken'[d] < Size
               PROVE  /\ addr'[entry'[d]] = mem'[d]
                      /\ verdict'[d] # NoVerdict => flag'[entry'[d]] = 1
                      /\ \/ idx' = entry'[d] + 1 + overtaken'[d]
                         \/ idx' + Size = entry'[d] + 1 + overtaken'[d]
    BY DEF Distance
  <2>2. CASE d = c
    BY <1>1, <1>2, <1>3, <2>1, <2>2 DEF TypeOK, NextIdx
  <2>3. CASE d # c
    <3>1. pc[d] \in Posted /\ overtaken'[d] = overtaken[d] + 1
          /\ overtaken[d] < Size /\ overtaken[d] + 1 < Size
      BY <1>1, <1>3, <2>1, <2>3 DEF TypeOK
    <3>2. entry[d] # idx /\ entry[d] \in Slot
      <4>1. /\ entry[d] \in Slot /\ entry[d] \in Nat /\ idx \in Nat
            /\ overtaken[d] \in Nat /\ Size \in Nat
        BY <1>1 DEF TypeOK
      <4>2. \/ idx = entry[d] + 1 + overtaken[d]
            \/ idx + Size = entry[d] + 1 + overtaken[d]
        BY <1>1, <3>1 DEF Distance
      <4> QED
        BY <3>1, <4>1, <4>2
    <3> QED
      <4>1. /\ addr'[entry'[d]] = mem'[d]
            /\ verdict'[d] # NoVerdict => flag'[entry'[d]] = 1
        BY <1>1, <1>2, <1>3, <2>3, <3>1, <3>2 DEF Distance
      <4>2. \/ idx = entry[d] + 1 + overtaken[d]
            \/ idx + Size = entry[d] + 1 + overtaken[d]
        BY <1>1, <3>1 DEF Distance
      <4>3. idx \in Slot /\ overtaken[d] \in Nat /\ entry'[d] = entry[d]
        BY <1>1, <1>3, <2>3 DEF TypeOK
      <4> QED
        BY <1>2, <3>1, <3>2, <4>1, <4>2, <4>3 DEF NextIdx
  <2> QED
    BY <2>2, <2>3
<1>9. Ready'
  BY <1>1, <1>2, <1>3 DEF Ready
<1>10. Busy'
  BY <1>1, <1>2, <1>3 DEF Busy, Holds, TypeOK
<1>11. Counted'
  <2>1. ASSUME NEW d \in Caller, fwBusy, Holds(d, fwIdx)
        PROVE  Holds(d, fwIdx)'
    BY <1>1, <1>2, <1>3, <2>1 DEF Busy, Holds, TypeOK, Posted
  <2> QED
    BY <1>1, <1>2, <1>3, <2>1 DEF Counted
<1>12. NoOrphan'
  BY <1>1, <1>2 DEF NoOrphan
<1>13. FirmwareMemoryLive'
  BY <1>1, <1>2, <1>3 DEF FirmwareMemoryLive, Holds, HostOwns, Posted, TypeOK
<1>14. Window'
  <2> SUFFICES ASSUME ~skipped PROVE Window'
    BY <1>2 DEF Window
  <2>1. idx \in Slot /\ fwIdx \in Slot /\ idx' \in Slot /\ fwIdx' = fwIdx
    BY <1>1, <1>2 DEF TypeOK
  <2>2. \A i \in Slot : flag[i] \in {0, 1} /\ flag'[i] \in {0, 1}
    BY <1>1 DEF TypeOK
  <2>3. CASE idx = fwIdx
    <3>1. \A i \in Slot : flag'[i] = 0 <=> i = idx
      BY <1>1, <1>2, <1>3, <2>1, <2>2, <2>3 DEF Window
    <3> QED
      BY <1>2, <2>1, <2>2, <2>3, <3>1 DEF Window, Between, NextIdx
  <2>4. CASE idx # fwIdx
    <3>1. \A i \in Slot : flag'[i] = 0 <=> Between(i) \/ i = idx
      BY <1>1, <1>3, <2>1, <2>2, <2>4 DEF Window
    <3> QED
      BY <1>2, <2>1, <2>2, <2>4, <3>1 DEF Window, Between, NextIdx
  <2> QED
    BY <2>3, <2>4
<1>15. Order'
  <2> SUFFICES ASSUME ~skipped, NEW d \in Caller, NEW i \in Slot,
                      pc'[d] \in Posted, flag'[i] = 0, addr'[i] = mem'[d]
               PROVE  /\ verdict'[d] = NoVerdict
                      /\ i = entry'[d] \/ Pos(i)' < Pos(entry[d])'
    BY <1>2 DEF Order
  <2>1. idx \in Slot /\ fwIdx \in Slot /\ fwIdx' = fwIdx
    BY <1>1, <1>2 DEF TypeOK
  <2>2. CASE d = c
    <3>1. i # idx => Pos(i) < Pos(idx)
      BY <1>1, <1>2, <1>3, <2>1 DEF Window, Between, Pos
    <3> QED
      BY <1>2, <1>3, <2>1, <2>2, <3>1 DEF Pos
  <2>3. CASE d # c
    <3>1. i # idx
      BY <1>1, <1>2, <1>3, <2>3 DEF DistinctObjects, TypeOK
    <3> QED
      BY <1>1, <1>2, <1>3, <2>1, <2>3, <3>1 DEF Order, Pos
  <2> QED
    BY <2>2, <2>3
<1>16. OwnStatus'
  BY <1>1, <1>2, <1>3 DEF OwnStatus
<1> QED
  BY <1>4, <1>5, <1>6, <1>7, <1>8, <1>9, <1>10, <1>11, <1>12, <1>13, <1>14,
     <1>15, <1>16 DEF IInv

\* A caller that moves on within the call, the ring untouched.
LEMMA MovesOnInv ==
  ASSUME NEW c \in Caller, NEW p \in Posted, IInv, TypeOK', pc[c] \in Posted,
         p = "ready" => verdict[c] # NoVerdict,
         pc' = [pc EXCEPT ![c] = p],
         UNCHANGED <<flag, addr, idx, fwIdx, fwBusy, status, mem, entry, kind,
                     histVars>>
  PROVE  IInv'
<1>1. /\ TypeOK /\ HasObject /\ DistinctObjects /\ PostedAddr
      /\ Unanswered /\ Distance /\ Ready /\ Busy /\ Counted /\ NoOrphan
      /\ FirmwareMemoryLive /\ Window /\ Order /\ OwnStatus
  BY DEF IInv
<1>2. UNCHANGED <<overtaken, execs, verdict, orphan, everOrphan, skipped>>
  BY DEF histVars
<1>3. /\ pc'[c] = p /\ p # "idle" /\ pc[c] # "idle"
      /\ \A d \in Caller : d # c => pc'[d] = pc[d]
      /\ \A d \in Caller : pc'[d] \in Posted <=> pc[d] \in Posted
  BY <1>1 DEF TypeOK, Posted
<1>4. HasObject'
  BY <1>1, <1>2, <1>3 DEF HasObject
<1>5. DistinctObjects'
  BY <1>1, <1>2, <1>3 DEF DistinctObjects
<1>6. PostedAddr'
  BY <1>1, <1>2, <1>3 DEF PostedAddr
<1>7. Unanswered'
  BY <1>1, <1>2, <1>3 DEF Unanswered
<1>8. Distance'
  BY <1>1, <1>2, <1>3 DEF Distance
<1>9. Ready'
  BY <1>1, <1>2, <1>3 DEF Ready
<1>10. Busy'
  BY <1>1, <1>2, <1>3 DEF Busy, Holds
<1>11. Counted'
  BY <1>1, <1>2, <1>3 DEF Counted, Holds
<1>12. NoOrphan'
  BY <1>1, <1>2, <1>3 DEF NoOrphan
<1>13. FirmwareMemoryLive'
  BY <1>1, <1>2, <1>3 DEF FirmwareMemoryLive, Holds, HostOwns
<1>14. Window'
  BY <1>1, <1>2 DEF Window, Between
<1>15. Order'
  BY <1>1, <1>2, <1>3 DEF Order, Pos
<1>16. OwnStatus'
  BY <1>1, <1>2, <1>3 DEF OwnStatus
<1> QED
  BY <1>4, <1>5, <1>6, <1>7, <1>8, <1>9, <1>10, <1>11, <1>12, <1>13, <1>14,
     <1>15, <1>16 DEF IInv

\* What Leave does to the caller and to the others.
LEMMA LeaveFacts ==
  ASSUME NEW c \in Caller, TypeOK, Leave(c)
  PROVE  /\ pc'[c] = "idle" /\ mem'[c] = NoMem /\ execs'[c] = 0
         /\ verdict'[c] = NoVerdict
         /\ \A d \in Caller : d # c =>
               /\ pc'[d] = pc[d] /\ mem'[d] = mem[d] /\ entry'[d] = entry[d]
               /\ execs'[d] = execs[d] /\ verdict'[d] = verdict[d]
  BY DEF TypeOK, Leave

(* A caller that leaves: its entry is orphaned if the firmware still has   *)
(* it; if it is answered, or nothing was posted, nobody misses the object. *)
LEMMA LeavesInv ==
  ASSUME NEW c \in Caller, IInv, TypeOK', Leave(c),
         \/ Orphan(c)
         \/ /\ pc[c] \notin Posted \/ verdict[c] # NoVerdict
            /\ UNCHANGED <<orphan, everOrphan>>,
         \/ skipped'
         \/ UNCHANGED <<idx, overtaken, skipped>>,
         \/ UNCHANGED <<idx, overtaken>>
         \/ idx' = NextIdx(idx) /\ Overtake(c),
         UNCHANGED <<flag, addr, fwIdx, fwBusy, status>>
  PROVE  IInv'
<1> USE SlotFacts, SizeAssumption, MemAssumption DEF NoVerdict
<1>1. /\ TypeOK /\ HasObject /\ DistinctObjects /\ PostedAddr
      /\ Unanswered /\ Distance /\ Ready /\ Busy /\ Counted /\ NoOrphan
      /\ FirmwareMemoryLive /\ Window /\ Order /\ OwnStatus
  BY DEF IInv
<1>2. /\ pc'[c] = "idle" /\ mem'[c] = NoMem /\ execs'[c] = 0
      /\ verdict'[c] = NoVerdict /\ pc'[c] \notin Posted
      /\ \A d \in Caller : d # c =>
            /\ pc'[d] = pc[d] /\ mem'[d] = mem[d] /\ entry'[d] = entry[d]
            /\ execs'[d] = execs[d] /\ verdict'[d] = verdict[d]
  BY <1>1, LeaveFacts DEF Posted
<1>17. ~skipped' => ~skipped /\ UNCHANGED <<idx, overtaken>>
  OBVIOUS
<1>3. /\ orphan \subseteq orphan'
      /\ \A i \in Slot : Holds(c, i) /\ flag[i] = 0 /\ verdict[c] = NoVerdict
                          => i \in orphan'
      /\ ~everOrphan' => ~everOrphan /\ orphan' = orphan
  <2> DEFINE lost == {i \in Slot : Holds(c, i) /\ ~HostOwns(i)}
  <2>1. CASE Orphan(c)
    <3>1. orphan' = orphan \cup lost
      BY <2>1 DEF Orphan
    <3>2. ~everOrphan' => ~everOrphan /\ lost = {}
      BY <2>1, Zenon DEF Orphan
    <3>3. \A i \in Slot : Holds(c, i) /\ flag[i] = 0 => i \in lost
      BY DEF HostOwns
    <3>4. ~everOrphan' => ~everOrphan /\ orphan' = orphan
      BY <3>1, <3>2
    <3>5. orphan \subseteq orphan' /\ lost \subseteq orphan'
      BY <3>1
    <3> QED
      BY <3>3, <3>4, <3>5
  <2>2. CASE /\ pc[c] \notin Posted \/ verdict[c] # NoVerdict
             /\ UNCHANGED <<orphan, everOrphan>>
    BY <2>2 DEF Holds
  <2> QED
    BY <2>1, <2>2
<1>4. HasObject'
  BY <1>1, <1>2 DEF HasObject, Posted
<1>5. DistinctObjects'
  BY <1>1, <1>2, <1>3 DEF DistinctObjects
<1>6. PostedAddr'
  BY <1>1, <1>2, <1>3 DEF PostedAddr
<1>7. Unanswered'
  BY <1>1, <1>2, <1>3 DEF Unanswered
<1>8. Distance'
  <2> SUFFICES ASSUME NEW d \in Caller, pc'[d] \in Posted, overtaken'[d] < Size
               PROVE  /\ addr'[entry'[d]] = mem'[d]
                      /\ verdict'[d] # NoVerdict => flag'[entry'[d]] = 1
                      /\ \/ idx' = entry'[d] + 1 + overtaken'[d]
                         \/ idx' + Size = entry'[d] + 1 + overtaken'[d]
    BY DEF Distance
  <2>1. d # c /\ pc[d] \in Posted
    BY <1>2
  <2>2. CASE UNCHANGED <<idx, overtaken>>
    BY <1>1, <1>2, <2>1, <2>2 DEF Distance
  <2>3. CASE idx' = NextIdx(idx) /\ Overtake(c)
    <3>1. /\ overtaken'[d] = overtaken[d] + 1 /\ overtaken[d] < Size
          /\ overtaken[d] \in Nat /\ idx \in Slot /\ entry[d] \in Slot
      BY <1>1, <2>1, <2>3 DEF Overtake, TypeOK
    <3>2. \/ idx = entry[d] + 1 + overtaken[d]
          \/ idx + Size = entry[d] + 1 + overtaken[d]
      BY <1>1, <2>1, <3>1 DEF Distance
    <3>3. /\ addr'[entry'[d]] = mem'[d]
          /\ verdict'[d] # NoVerdict => flag'[entry'[d]] = 1
      BY <1>1, <1>2, <2>1, <3>1 DEF Distance
    <3>4. idx' = idx + 1 \/ idx' + Size = idx + 1
      BY <2>3, <3>1 DEF NextIdx
    <3> QED
      BY <1>2, <2>1, <3>1, <3>2, <3>3, <3>4
  <2> QED
    BY <2>2, <2>3
<1>9. Ready'
  BY <1>1, <1>2 DEF Ready
<1>10. Busy'
  BY <1>1, <1>2, <1>3 DEF Busy, Holds
<1>11. Counted'
  BY <1>1, <1>2, <1>3 DEF Counted, Holds
<1>12. NoOrphan'
  BY <1>1, <1>2, <1>3 DEF NoOrphan
<1>13. FirmwareMemoryLive'
  <2> SUFFICES ASSUME NEW i \in Slot, ~HostOwns(i)', i \notin orphan'
               PROVE  \E d \in Caller : Holds(d, i)' /\ verdict'[d] = NoVerdict
    BY DEF FirmwareMemoryLive
  <2>1. flag[i] = 0 /\ ~HostOwns(i) /\ i \notin orphan
    BY <1>1, <1>3 DEF HostOwns, TypeOK
  <2>2. PICK d \in Caller : Holds(d, i) /\ verdict[d] = NoVerdict
    BY <1>1, <2>1 DEF FirmwareMemoryLive
  <2>3. d # c
    BY <1>3, <2>1, <2>2
  <2> QED
    BY <1>2, <2>2, <2>3 DEF Holds
<1>14. Window'
  BY <1>1, <1>17 DEF Window, Between
<1>15. Order'
  BY <1>1, <1>2, <1>17 DEF Order, Pos
<1>16. OwnStatus'
  BY <1>1, <1>2, <1>17 DEF OwnStatus
<1> QED
  BY <1>4, <1>5, <1>6, <1>7, <1>8, <1>9, <1>10, <1>11, <1>12, <1>13, <1>14,
     <1>15, <1>16 DEF IInv

\* Allocating the request object in fthd_isp_cmd keeps the invariant.
LEMMA CmdStartInv ==
  ASSUME NEW c \in Caller, IInv, TypeOK', CmdStart(c)
  PROVE  IInv'
<1> USE SlotFacts, SizeAssumption, MemAssumption DEF NoVerdict
<1>1. /\ TypeOK /\ HasObject /\ DistinctObjects /\ PostedAddr
      /\ Unanswered /\ Distance /\ Ready /\ Busy /\ Counted /\ NoOrphan
      /\ FirmwareMemoryLive /\ Window /\ Order /\ OwnStatus
  BY DEF IInv
<1>2. UNCHANGED <<flag, addr, idx, fwIdx, fwBusy, entry, overtaken, execs,
                  verdict, orphan, everOrphan, skipped>>
  BY DEF CmdStart, ringVars, histVars
<1>3. /\ pc[c] = "idle" /\ pc'[c] = "send" /\ pc'[c] \notin Posted
      /\ mem'[c] \in Mem
      /\ \A d \in Caller : d # c => /\ pc'[d] = pc[d] /\ mem'[d] = mem[d]
                                    /\ mem'[c] # mem[d]
      /\ \A m \in Mem : m # mem'[c] => status'[m] = status[m]
      /\ pc[c] \notin Posted
  BY <1>1 DEF CmdStart, TypeOK, Posted
<1>4. HasObject'
  BY <1>1, <1>2, <1>3 DEF HasObject
<1>5. DistinctObjects'
  BY <1>1, <1>2, <1>3 DEF DistinctObjects
<1>6. PostedAddr'
  BY <1>1, <1>2, <1>3 DEF PostedAddr
<1>7. Unanswered'
  BY <1>1, <1>2, <1>3 DEF Unanswered
<1>8. Distance'
  BY <1>1, <1>2, <1>3 DEF Distance
<1>9. Ready'
  BY <1>1, <1>2, <1>3 DEF Ready
<1>10. Busy'
  BY <1>1, <1>2, <1>3 DEF Busy, Holds
<1>11. Counted'
  BY <1>1, <1>2, <1>3 DEF Counted, Holds
<1>12. NoOrphan'
  BY <1>1, <1>2, <1>3 DEF NoOrphan
<1>13. FirmwareMemoryLive'
  BY <1>1, <1>2, <1>3 DEF FirmwareMemoryLive, Holds, HostOwns
<1>14. Window'
  BY <1>1, <1>2 DEF Window, Between
<1>15. Order'
  BY <1>1, <1>2, <1>3 DEF Order, Pos
<1>16. OwnStatus'
  BY <1>1, <1>2, <1>3 DEF OwnStatus, HasObject, TypeOK, Posted
<1> QED
  BY <1>4, <1>5, <1>6, <1>7, <1>8, <1>9, <1>10, <1>11, <1>12, <1>13, <1>14,
     <1>15, <1>16 DEF IInv

\* The firmware taking the next entry keeps the invariant.
LEMMA FwTakeInv ==
  ASSUME IInv, TypeOK', FwTake
  PROVE  IInv'
<1> USE SlotFacts, SizeAssumption, MemAssumption DEF NoVerdict
<1>1. /\ TypeOK /\ HasObject /\ DistinctObjects /\ PostedAddr
      /\ Unanswered /\ Distance /\ Ready /\ Busy /\ Counted /\ NoOrphan
      /\ FirmwareMemoryLive /\ Window /\ Order /\ OwnStatus
  BY DEF IInv
<1>2. /\ UNCHANGED <<flag, addr, idx, fwIdx, status, pc, mem, entry, kind,
                     overtaken, verdict, orphan, everOrphan, skipped>>
      /\ fwIdx \in Slot /\ flag[fwIdx] = 0
  BY <1>1 DEF FwTake, ringVars, callVars, HostOwns, TypeOK
<1>17. ~fwBusy
  BY DEF FwTake
<1>18. fwBusy'
  BY DEF FwTake
<1>3. \A c \in Caller :
        /\ execs'[c] = IF mem[c] = addr[fwIdx] /\ execs[c] < 2
                       THEN execs[c] + 1 ELSE execs[c]
        /\ execs[c] \in 0 .. 2
  BY <1>1 DEF FwTake, TypeOK
<1>4. HasObject'
  BY <1>1, <1>2 DEF HasObject
<1>5. DistinctObjects'
  BY <1>1, <1>2 DEF DistinctObjects
<1>6. PostedAddr'
  BY <1>1, <1>2 DEF PostedAddr
<1>7. Unanswered'
  BY <1>1, <1>2 DEF Unanswered
<1>8. Distance'
  BY <1>1, <1>2 DEF Distance
<1>9. Ready'
  BY <1>1, <1>2 DEF Ready
<1>10. Busy'
  BY <1>1, <1>2, <1>3 DEF Busy, Holds
<1>11. Counted'
  <2> SUFFICES ASSUME NEW c \in Caller
               PROVE  /\ verdict'[c] # NoVerdict => execs'[c] >= 1
                      /\ pc'[c] = "idle" => execs'[c] = 0
                      /\ ~everOrphan' =>
                            /\ execs'[c] <= 1
                            /\ \/ verdict'[c] # NoVerdict
                               \/ fwBusy' /\ Holds(c, fwIdx)'
                               \/ execs'[c] = 0
    BY DEF Counted
  <2>1. verdict'[c] # NoVerdict => execs'[c] >= 1
    BY <1>1, <1>2, <1>3 DEF Counted
  <2>2. pc'[c] = "idle" => execs'[c] = 0
    BY <1>1, <1>2, <1>3 DEF Counted, HasObject, PostedAddr
  <2>3. ASSUME ~everOrphan
        PROVE  /\ execs'[c] <= 1
               /\ \/ verdict'[c] # NoVerdict
                  \/ fwBusy' /\ Holds(c, fwIdx)'
                  \/ execs'[c] = 0
    <3>1. PICK d \in Caller : Holds(d, fwIdx) /\ verdict[d] = NoVerdict
      <4>1. fwIdx \notin orphan /\ ~HostOwns(fwIdx)
        BY <1>1, <1>2, <2>3 DEF NoOrphan, HostOwns
      <4> QED
        BY <1>1, <1>2, <4>1 DEF FirmwareMemoryLive
    <3>2. mem[d] = addr[fwIdx] /\ mem[d] # NoMem
      BY <1>1, <1>2, <3>1 DEF Holds, PostedAddr
    <3>3. execs[d] = 0
      BY <1>1, <1>17, <2>3, <3>1 DEF Counted
    <3>4. CASE c = d
      BY <1>2, <1>3, <1>18, <3>1, <3>2, <3>3, <3>4 DEF Holds
    <3>5. CASE c # d
      <4>1. execs'[c] = execs[c]
        BY <1>1, <1>3, <3>2, <3>5 DEF DistinctObjects
      <4> QED
        BY <1>1, <1>2, <1>17, <2>3, <4>1 DEF Counted
    <3> QED
      BY <3>4, <3>5
  <2> QED
    BY <1>2, <2>1, <2>2, <2>3
<1>12. NoOrphan'
  BY <1>1, <1>2 DEF NoOrphan
<1>13. FirmwareMemoryLive'
  BY <1>1, <1>2 DEF FirmwareMemoryLive, Holds, HostOwns
<1>14. Window'
  BY <1>1, <1>2 DEF Window, Between
<1>15. Order'
  BY <1>1, <1>2 DEF Order, Pos
<1>16. OwnStatus'
  BY <1>1, <1>2 DEF OwnStatus
<1> QED
  BY <1>4, <1>5, <1>6, <1>7, <1>8, <1>9, <1>10, <1>11, <1>12, <1>13, <1>14,
     <1>15, <1>16 DEF IInv

\* The firmware answering an entry keeps the invariant.
LEMMA FwAnswerInv ==
  ASSUME IInv, TypeOK', FwAnswer
  PROVE  IInv'
<1> USE SlotFacts, SizeAssumption, MemAssumption DEF NoVerdict
<1>1. /\ TypeOK /\ HasObject /\ DistinctObjects /\ PostedAddr
      /\ Unanswered /\ Distance /\ Ready /\ Busy /\ Counted /\ NoOrphan
      /\ FirmwareMemoryLive /\ Window /\ Order /\ OwnStatus
  BY DEF IInv
<1>2. /\ UNCHANGED <<addr, idx, pc, mem, entry, kind, overtaken, execs,
                     everOrphan, skipped>>
      /\ fwIdx \in Slot /\ fwIdx' \in Slot /\ fwIdx' = NextIdx(fwIdx)
      /\ flag[fwIdx] = 0 /\ flag'[fwIdx] = 1 /\ addr[fwIdx] \in Mem
      /\ \A i \in Slot : i # fwIdx => flag'[i] = flag[i]
      /\ orphan' = orphan \ {fwIdx}
  BY <1>1 DEF FwAnswer, callVars, TypeOK, Busy, PostedAddr
<1>17. ~fwBusy'
  BY DEF FwAnswer
<1>18. fwBusy
  BY DEF FwAnswer
<1>3. PICK s \in {0, 1} :
        /\ status' = [status EXCEPT ![addr[fwIdx]] = s]
        /\ verdict' = [c \in Caller |->
              IF Holds(c, fwIdx) THEN s ELSE verdict[c]]
  BY DEF FwAnswer
<1>19. \A c \in Caller : verdict'[c] = IF Holds(c, fwIdx) THEN s ELSE verdict[c]
  BY <1>3
<1>20. ASSUME NEW c \in Caller, pc[c] \in Posted, verdict'[c] = NoVerdict
       PROVE  verdict[c] = NoVerdict /\ ~Holds(c, fwIdx) /\ entry[c] # fwIdx
  BY <1>1, <1>19, <1>20 DEF Unanswered, Holds
<1>4. HasObject'
  BY <1>1, <1>2, <1>19 DEF HasObject, Holds
<1>5. DistinctObjects'
  BY <1>1, <1>2, <1>19 DEF DistinctObjects
<1>6. PostedAddr'
  BY <1>1, <1>2, <1>19 DEF PostedAddr
<1>7. Unanswered'
  BY <1>1, <1>2, <1>20 DEF Unanswered, TypeOK
<1>8. Distance'
  <2> SUFFICES ASSUME NEW d \in Caller, pc'[d] \in Posted, overtaken'[d] < Size,
                      verdict'[d] # NoVerdict
               PROVE  flag'[entry'[d]] = 1
    BY <1>1, <1>2 DEF Distance
  <2>1. CASE Holds(d, fwIdx)
    BY <1>2, <2>1 DEF Holds
  <2>2. CASE ~Holds(d, fwIdx)
    BY <1>1, <1>2, <1>19, <2>2 DEF Distance, TypeOK
  <2> QED
    BY <2>1, <2>2
<1>9. Ready'
  BY <1>1, <1>2, <1>19 DEF Ready
<1>10. Busy'
  BY <1>17 DEF Busy
<1>11. Counted'
  <2> SUFFICES ASSUME NEW c \in Caller
               PROVE  /\ verdict'[c] # NoVerdict => execs[c] >= 1
                      /\ pc[c] = "idle" => execs[c] = 0
                      /\ ~everOrphan => /\ execs[c] <= 1
                                        /\ verdict'[c] # NoVerdict \/ execs[c] = 0
    BY <1>2 DEF Counted
  <2> QED
    BY <1>1, <1>18, <1>19 DEF Counted, Busy
<1>12. NoOrphan'
  BY <1>1, <1>2 DEF NoOrphan
<1>13. FirmwareMemoryLive'
  <2> SUFFICES ASSUME NEW i \in Slot, ~HostOwns(i)', i \notin orphan'
               PROVE  \E d \in Caller : Holds(d, i)' /\ verdict'[d] = NoVerdict
    BY DEF FirmwareMemoryLive
  <2>1. i # fwIdx /\ ~HostOwns(i) /\ i \notin orphan
    BY <1>2 DEF HostOwns
  <2>2. PICK d \in Caller : Holds(d, i) /\ verdict[d] = NoVerdict
    BY <1>1, <2>1 DEF FirmwareMemoryLive
  <2> QED
    BY <1>2, <1>19, <2>1, <2>2 DEF Holds
<1>14. Window'
  <2> SUFFICES ASSUME ~skipped PROVE Window'
    BY <1>2 DEF Window
  <2>1. idx \in Slot /\ idx' = idx
    BY <1>1, <1>2 DEF TypeOK
  <2>2. \A i \in Slot : flag[i] \in {0, 1} /\ flag'[i] \in {0, 1}
    BY <1>1 DEF TypeOK
  <2>3. CASE idx = fwIdx
    <3>1. \A i \in Slot : flag'[i] = 0 <=> i # fwIdx
      BY <1>1, <1>2, <2>2, <2>3 DEF Window
    <3> QED
      BY <1>2, <2>1, <2>2, <2>3, <3>1 DEF Window, Between, NextIdx
  <2>4. CASE idx # fwIdx
    <3>1. \A i \in Slot : flag'[i] = 0 <=> Between(i) /\ i # fwIdx
      BY <1>1, <1>2, <2>2, <2>4 DEF Window
    <3> QED
      BY <1>2, <2>1, <2>2, <2>4, <3>1 DEF Window, Between, NextIdx
  <2> QED
    BY <2>3, <2>4
<1>15. Order'
  <2> SUFFICES ASSUME ~skipped, NEW d \in Caller, NEW i \in Slot,
                      pc[d] \in Posted, flag'[i] = 0, addr[i] = mem[d]
               PROVE  /\ verdict'[d] = NoVerdict
                      /\ i = entry[d] \/ Pos(i)' < Pos(entry[d])'
    BY <1>2 DEF Order
  <2>1. /\ i # fwIdx /\ flag[i] = 0 /\ verdict[d] = NoVerdict
        /\ i = entry[d] \/ Pos(i) < Pos(entry[d])
        /\ entry[d] \in Slot
    BY <1>1, <1>2 DEF Order, TypeOK
  <2>2. entry[d] # fwIdx
    <3>1. Pos(fwIdx) = 0 /\ ~(Pos(i) < 0)
      <4>1. i \in Nat /\ fwIdx \in Nat /\ Size \in Nat /\ fwIdx < Size
        BY <1>2
      <4> QED
        BY <4>1 DEF Pos
    <3> QED
      BY <2>1, <3>1
  <2>3. verdict'[d] = NoVerdict
    BY <1>19, <2>1, <2>2 DEF Holds
  <2>4. ASSUME NEW j \in Slot, NEW k \in Slot, j # fwIdx, k # fwIdx, Pos(j) < Pos(k)
        PROVE  Pos(j)' < Pos(k)'
    <3>1. /\ j \in Nat /\ k \in Nat /\ fwIdx \in Nat /\ Size \in Nat
          /\ j < Size /\ k < Size /\ fwIdx < Size
      BY <1>2
    <3>2. (fwIdx' = fwIdx + 1 /\ fwIdx + 1 < Size) \/ (fwIdx' = 0 /\ fwIdx + 1 = Size)
      BY <1>2, <3>1 DEF NextIdx
    <3> QED
      BY <2>4, <3>1, <3>2 DEF Pos
  <2>5. PICK k \in Slot : k = entry[d]
    BY <2>1
  <2>6. i = k \/ Pos(i)' < Pos(k)'
    BY <2>1, <2>2, <2>4, <2>5
  <2>7. Pos(entry[d])' = Pos(k)'
    BY <1>2, <2>5 DEF Pos
  <2> QED
    BY <2>3, <2>5, <2>6, <2>7
<1>16. OwnStatus'
  <2> SUFFICES ASSUME ~skipped, NEW d \in Caller, pc[d] \in Posted,
                      verdict'[d] # NoVerdict
               PROVE  status'[mem[d]] = verdict'[d]
    BY <1>2 DEF OwnStatus
  <2>1. CASE Holds(d, fwIdx)
    BY <1>1, <1>2, <1>3, <1>19, <2>1 DEF Holds, TypeOK
  <2>2. CASE ~Holds(d, fwIdx)
    <3>1. verdict[d] # NoVerdict /\ mem[d] # addr[fwIdx]
      BY <1>1, <1>2, <1>19, <2>2 DEF Order
    <3>2. mem[d] \in Mem
      BY <1>1 DEF HasObject, TypeOK, Posted
    <3> QED
      BY <1>1, <1>3, <1>19, <2>2, <3>1, <3>2 DEF OwnStatus, TypeOK
  <2> QED
    BY <2>1, <2>2
<1> QED
  BY <1>4, <1>5, <1>6, <1>7, <1>8, <1>9, <1>10, <1>11, <1>12, <1>13, <1>14,
     <1>15, <1>16 DEF IInv

\* The empty command ring satisfies the invariant.
LEMMA InitInv == Init => IInv
<1> SUFFICES ASSUME Init PROVE IInv
  OBVIOUS
<1>1. TypeOK
  BY InitType
<1>2. /\ \A i \in Slot : flag[i] = 1
      /\ \A c \in Caller : /\ pc[c] = "idle" /\ pc[c] \notin Posted
                           /\ mem[c] = NoMem
                           /\ execs[c] = 0 /\ verdict[c] = NoVerdict
      /\ idx = fwIdx /\ orphan = {}
  BY DEF Init, Posted
<1>3. ~fwBusy
  BY DEF Init
<1>4. HasObject /\ DistinctObjects /\ PostedAddr /\ Unanswered /\ Distance
      /\ Ready /\ FirmwareMemoryLive /\ NoOrphan
  BY <1>2 DEF HasObject, DistinctObjects, PostedAddr, Unanswered, Distance, Ready,
              FirmwareMemoryLive, NoOrphan, HostOwns
<1>5. Busy /\ Counted
  BY <1>2, <1>3 DEF Busy, Counted, NoVerdict
<1>6. Window /\ Order /\ OwnStatus
  BY <1>2 DEF Window, Order, OwnStatus
<1> QED
  BY <1>1, <1>4, <1>5, <1>6 DEF IInv

\* Every step of fthd_isp_cmd, its ring and the firmware keeps it.
LEMMA StepInv == IInv /\ [Next]_vars => IInv'
<1> SUFFICES ASSUME IInv, [Next]_vars PROVE IInv'
  OBVIOUS
<1>1. TypeOK'
  BY TypeStep DEF IInv
<1>2. CASE FwTake
  BY <1>1, <1>2, FwTakeInv
<1>3. CASE FwAnswer
  BY <1>1, <1>3, FwAnswerInv
<1>4. CASE FwIdle \/ UNCHANGED vars
  <2>1. UNCHANGED <<flag, addr, idx, fwIdx, fwBusy, status, pc, mem, entry, kind,
                    overtaken, execs, verdict, orphan, everOrphan, skipped>>
    BY <1>4 DEF FwIdle, vars, ringVars, fwVars, callVars, histVars
  <2> QED
    BY <1>1, <2>1 DEF IInv, HasObject, DistinctObjects, PostedAddr, Unanswered,
       Distance, Ready, Busy, Counted, NoOrphan, FirmwareMemoryLive, Window,
       Order, OwnStatus, Holds, HostOwns, Between, Pos
<1>5. ASSUME NEW c \in Caller, CmdStart(c) PROVE IInv'
  BY <1>1, <1>5, CmdStartInv
<1>6. ASSUME NEW c \in Caller, SendFails(c) PROVE IInv'
  <2>1. /\ pc[c] \notin Posted /\ Leave(c) /\ idx' = NextIdx(idx) /\ Overtake(c)
        /\ UNCHANGED <<orphan, everOrphan>>
        /\ UNCHANGED <<flag, addr, fwIdx, fwBusy, status>>
    BY <1>6 DEF SendFails, Posted, fwVars
  <2>2. skipped'
    BY <1>6 DEF SendFails
  <2> QED
    BY <1>1, <2>1, <2>2, LeavesInv
<1>7. ASSUME NEW c \in Caller, SendPosts(c) PROVE IInv'
  BY <1>1, <1>7, SendPostsInv
<1>8. ASSUME NEW c \in Caller, RingPowerDown(c) \/ GiveUp(c) PROVE IInv'
  <2>1. /\ Leave(c) /\ Orphan(c) /\ UNCHANGED <<idx, overtaken, skipped>>
        /\ UNCHANGED <<flag, addr, fwIdx, fwBusy, status>>
    BY <1>8 DEF RingPowerDown, GiveUp, ringVars, fwVars
  <2> QED
    BY <1>1, <2>1, LeavesInv
<1>9. ASSUME NEW c \in Caller, Finish(c) PROVE IInv'
  <2>1. /\ Leave(c) /\ UNCHANGED <<idx, overtaken, skipped>>
        /\ UNCHANGED <<flag, addr, fwIdx, fwBusy, status>>
        /\ UNCHANGED <<orphan, everOrphan>> /\ pc[c] = "ready"
    BY <1>9 DEF Finish, ringVars, fwVars
  <2>2. verdict[c] # NoVerdict
    BY <2>1 DEF IInv, Ready
  <2> QED
    BY <1>1, <2>1, <2>2, LeavesInv
<1>10. ASSUME NEW c \in Caller, RingAndWait(c) \/ WaitFails(c) \/ WaitReady(c)
       PROVE  IInv'
  <2>1. /\ pc[c] \in Posted
        /\ UNCHANGED <<flag, addr, idx, fwIdx, fwBusy, status, mem, entry, kind,
                       histVars>>
    BY <1>10 DEF RingAndWait, WaitFails, WaitReady, Posted, ringVars, fwVars
  <2>2. \E p \in Posted : pc' = [pc EXCEPT ![c] = p]
                          /\ (p = "ready" => flag[entry[c]] = 1)
    BY <1>10 DEF RingAndWait, WaitFails, WaitReady, Posted, HostOwns
  <2>3. flag[entry[c]] = 1 => verdict[c] # NoVerdict
    BY <2>1 DEF IInv, Unanswered
  <2> QED
    BY <1>1, <2>1, <2>2, <2>3, MovesOnInv
<1> QED
  BY <1>2, <1>3, <1>4, <1>5, <1>6, <1>7, <1>8, <1>9, <1>10
  DEF Next, Firmware, Call, Send, Ring

\* The inductive invariant of the command ring holds at all times.
THEOREM Invariance == Spec => []IInv
  BY InitInv, StepInv, PTL DEF Spec

\* No command is hidden from the firmware behind a free entry.
THEOREM NoStrandedCommandHolds == Spec => []NoStrandedCommand
<1>1. IInv => NoStrandedCommand
  <2> SUFFICES ASSUME IInv, ~skipped, HostOwns(fwIdx), NEW i \in Slot
               PROVE  HostOwns(i)
    BY DEF NoStrandedCommand
  <2>1. Window /\ fwIdx \in Slot /\ idx \in Slot /\ flag[i] \in {0, 1}
    BY DEF IInv, TypeOK
  <2>2. CASE idx = fwIdx
    BY <2>1, <2>2 DEF Window, HostOwns
  <2>3. CASE idx # fwIdx
    <3>1. Between(fwIdx)
      BY <2>1, <2>3, SlotFacts DEF Between
    <3> QED
      BY <2>1, <2>3, <3>1 DEF Window, HostOwns
  <2> QED
    BY <2>2, <2>3
<1> QED
  BY <1>1, Invariance, PTL

\* An answered caller finds its own answer unless Size sends passed it by.
THEOREM OwnResponseHolds == Spec => []OwnResponse
<1>1. IInv => OwnResponse
  BY DEF IInv, OwnResponse, Distance, HostOwns, ResponseAddr
<1> QED
  BY <1>1, Invariance, PTL

\* The firmware never works on an object that was destroyed in mid-command,
\* except one whose command gave up or was a power-down.
THEOREM FirmwareMemoryLiveHolds == Spec => []FirmwareMemoryLive
<1>1. IInv => FirmwareMemoryLive
  BY DEF IInv
<1> QED
  BY <1>1, Invariance, PTL

\* A successful wait means the command was executed, once.
THEOREM ExecutedOnceHolds == Spec => []ExecutedOnce
<1>1. IInv => ExecutedOnce
  BY DEF IInv, ExecutedOnce, Ready, Counted
<1> QED
  BY <1>1, Invariance, PTL

\* The status a caller reads is the one given to its own command.
THEOREM HonestResultHolds == Spec => []HonestResult
<1>1. IInv => HonestResult
  BY DEF IInv, HonestResult, OwnStatus, Ready, Result, Posted
<1> QED
  BY <1>1, Invariance, PTL
===========================================================================
