---------------------------- MODULE FthdIspCmd ----------------------------
(***************************************************************************)
(* The command path of the FaceTime HD driver: fthd_isp_cmd() and          *)
(* fthd_isp_debug_cmd() (fthd_isp.c) on an outgoing ("H2T") firmware ring  *)
(* (fthd_ringbuf.c), with several callers at once and the firmware as an   *)
(* external consumer.                                                      *)
(*                                                                         *)
(* Each entry of the ring is a 64-byte slot in device memory.  Bit 0 of    *)
(* its ADDRESS_FLAGS word says who owns it: 1 the host (free, or answered),*)
(* 0 the firmware.  A caller allocates a request object in ISP memory,     *)
(* writes the command there, posts the object's offset in the entry at     *)
(* ringbuf.idx, rings the doorbell and waits until the firmware has given  *)
(* the entry back, at most 2 s (20 s on the debug ring).                   *)
(***************************************************************************)
EXTENDS Naturals

CONSTANTS Caller,        \* threads that issue commands
          Size,          \* chan->size, the number of entries of the ring
          Mem,           \* offsets isp_mem_create may hand out
          NoMem,         \* no request object
          DebugChannel   \* the ring is channel_debug, not channel_io

ASSUME SizeAssumption  == Size \in Nat \ {0}
ASSUME MemAssumption   == NoMem \notin Mem
ASSUME DebugAssumption == DebugChannel \in BOOLEAN

VARIABLES
    flag,      \* bit 0 of each entry's ADDRESS_FLAGS
    addr,      \* the rest of it: the offset posted in the entry
    idx,       \* chan->ringbuf.idx
    bell,      \* the ring's bit of ISP_REG_41020
    fwIdx,     \* external: the entry the firmware serves next
    fwBusy,    \* external: it is executing the command of that entry
    status,    \* isp_cmd_hdr.status in each request object
    pc,        \* where each caller is in fthd_isp_cmd()
    mem,       \* its request object
    entry,     \* the entry its command was posted in
    kind,      \* CISP_CMD_POWER_DOWN, or any other command
    \* History, read by the properties only.
    overtaken, \* sends, counted up to Size, since the caller's own
    execs,     \* executions of the caller's command, counted up to 2
    verdict,   \* the status the firmware gave the caller's own entry
    orphan,    \* entries the firmware owns whose object was destroyed
    everOrphan,\* there has been such an entry
    skipped    \* a send has found its entry taken and moved idx past it

ringVars  == <<flag, addr, idx>>
fwVars    == <<fwIdx, fwBusy, status>>
callVars  == <<pc, mem, entry, kind>>
histVars  == <<overtaken, execs, verdict, orphan, everOrphan, skipped>>
vars      == <<flag, addr, idx, bell, fwIdx, fwBusy, status, pc, mem, entry,
               kind, overtaken, execs, verdict, orphan, everOrphan, skipped>>

NoVerdict == 2

Slot   == 0 .. Size - 1
Kind   == IF DebugChannel THEN {"cmd"} ELSE {"cmd", "powerdown"}
\* The positions of a caller: before the call; about to send; about to ring;
\* in fthd_channel_wait_ready; answered; timed out or interrupted.
Place  == {"idle", "send", "bell", "wait", "ready", "giveup"}
Posted == {"bell", "wait", "ready", "giveup"}

TypeOK ==
    /\ flag \in [Slot -> {0, 1}]
    /\ addr \in [Slot -> Mem \cup {NoMem}]
    /\ idx \in Slot
    /\ bell \in BOOLEAN
    /\ fwIdx \in Slot
    /\ fwBusy \in BOOLEAN
    /\ status \in [Mem -> {0, 1}]
    /\ pc \in [Caller -> Place]
    /\ mem \in [Caller -> Mem \cup {NoMem}]
    /\ entry \in [Caller -> Slot]
    /\ kind \in [Caller -> {"cmd", "powerdown"}]
    /\ overtaken \in [Caller -> 0 .. Size]
    /\ execs \in [Caller -> 0 .. 2]
    /\ verdict \in [Caller -> {0, 1, NoVerdict}]
    /\ orphan \in SUBSET Slot
    /\ everOrphan \in BOOLEAN
    /\ skipped \in BOOLEAN

---------------------------------------------------------------------------
(* fthd_channel_ringbuf_init: every entry of an H2T ring starts free.      *)
Init ==
    /\ flag = [i \in Slot |-> 1]
    /\ addr = [i \in Slot |-> NoMem]
    /\ idx = 0
    /\ bell = FALSE
    /\ fwIdx = 0
    /\ fwBusy = FALSE
    /\ status = [m \in Mem |-> 0]
    /\ pc = [c \in Caller |-> "idle"]
    /\ mem = [c \in Caller |-> NoMem]
    /\ entry = [c \in Caller |-> 0]
    /\ kind = [c \in Caller |-> "cmd"]
    /\ overtaken = [c \in Caller |-> 0]
    /\ execs = [c \in Caller |-> 0]
    /\ verdict = [c \in Caller |-> NoVerdict]
    /\ orphan = {}
    /\ everOrphan = FALSE
    /\ skipped = FALSE

\* if (++chan->ringbuf.idx >= chan->size) chan->ringbuf.idx = 0;
NextIdx(i) == IF i + 1 >= Size THEN 0 ELSE i + 1

\* The guard of send and the condition of wait_ready, for an H2T ring.
HostOwns(i) == flag[i] = 1

\* Mutant: the allocator hands out memory that is in use.
CmdStartShared(c) ==
    /\ pc[c] = "idle"
    /\ \E m \in Mem, k \in Kind :
          /\ mem' = [mem EXCEPT ![c] = m]
          /\ kind' = [kind EXCEPT ![c] = k]
          /\ status' = [status EXCEPT ![m] = 0]
    /\ pc' = [pc EXCEPT ![c] = "send"]
    /\ UNCHANGED <<ringVars, bell, fwIdx, fwBusy, entry, histVars>>

(* isp_mem_create and the writes of the header and the request.            *)
(* allocate_resource never hands out a range that is in use.               *)
CmdStart(c) ==
    /\ pc[c] = "idle"
    /\ \E m \in Mem \ {mem[d] : d \in Caller}, k \in Kind :
          /\ mem' = [mem EXCEPT ![c] = m]
          /\ kind' = [kind EXCEPT ![c] = k]
          /\ status' = [status EXCEPT ![m] = 0]
    /\ pc' = [pc EXCEPT ![c] = "send"]
    /\ UNCHANGED <<ringVars, bell, fwIdx, fwBusy, entry, histVars>>

\* isp_mem_destroy(request) and the return: the locals go out of scope.
Leave(c) ==
    /\ pc' = [pc EXCEPT ![c] = "idle"]
    /\ mem' = [mem EXCEPT ![c] = NoMem]
    /\ entry' = [entry EXCEPT ![c] = 0]
    /\ kind' = [kind EXCEPT ![c] = "cmd"]
    /\ execs' = [execs EXCEPT ![c] = 0]
    /\ verdict' = [verdict EXCEPT ![c] = NoVerdict]

\* The entry still holds the command that the caller posted in it.
Holds(c, i) == pc[c] \in Posted /\ entry[c] = i /\ addr[i] = mem[c]

\* Every send that moves idx overtakes the commands already posted.
Overtake(c) ==
    overtaken' = [d \in Caller |->
                    IF d = c \/ pc[d] \notin Posted THEN 0
                    ELSE IF overtaken[d] < Size THEN overtaken[d] + 1
                    ELSE Size]

\* Mutant: idx is moved twice when the command is posted.
PostAt(c, next) ==
    /\ pc[c] = "send"
    /\ HostOwns(idx)
    /\ idx' = next
    /\ Overtake(c)
    /\ flag' = [flag EXCEPT ![idx] = 0]
    /\ addr' = [addr EXCEPT ![idx] = mem[c]]
    /\ entry' = [entry EXCEPT ![c] = idx]
    /\ pc' = [pc EXCEPT ![c] = "bell"]
    /\ UNCHANGED <<bell, fwVars, mem, kind, execs, verdict, orphan, everOrphan,
                   skipped>>
SendPostsTwice(c) == PostAt(c, NextIdx(NextIdx(idx)))

(* fthd_channel_ringbuf_send, one step under chan->lock.  idx moves on     *)
(* before the ownership bit is looked at, so also when it returns -EAGAIN. *)
SendFails(c) ==
    /\ pc[c] = "send"
    /\ ~HostOwns(idx)
    /\ idx' = NextIdx(idx)
    /\ Overtake(c)
    /\ Leave(c)
    /\ skipped' = TRUE
    /\ UNCHANGED <<flag, addr, bell, fwVars, orphan, everOrphan>>

SendPosts(c) ==
    /\ pc[c] = "send"
    /\ HostOwns(idx)
    /\ idx' = NextIdx(idx)
    /\ Overtake(c)
    /\ flag' = [flag EXCEPT ![idx] = 0]
    /\ addr' = [addr EXCEPT ![idx] = mem[c]]
    /\ entry' = [entry EXCEPT ![c] = idx]
    /\ pc' = [pc EXCEPT ![c] = "bell"]
    /\ UNCHANGED <<bell, fwVars, mem, kind, execs, verdict, orphan, everOrphan,
                   skipped>>

Send(c) == SendFails(c) \/ SendPosts(c)

\* Destroying the object of an entry the firmware still owns orphans it.
Orphan(c) ==
    LET lost == {i \in Slot : Holds(c, i) /\ ~HostOwns(i)}
    IN  /\ orphan' = orphan \cup lost
        /\ everOrphan' = (everOrphan \/ lost # {})

\* Mutant: the doorbell is not rung.
WaitWithoutRing(c) ==
    /\ pc[c] = "bell"
    /\ kind[c] # "powerdown"
    /\ pc' = [pc EXCEPT ![c] = "wait"]
    /\ UNCHANGED <<ringVars, bell, fwVars, mem, entry, kind, histVars>>

(* The doorbell, written under io_lock after chan->lock is released.  The  *)
(* power-down command then returns at once, without waiting.               *)
RingPowerDown(c) ==
    /\ pc[c] = "bell"
    /\ kind[c] = "powerdown"
    /\ bell' = TRUE
    /\ Leave(c)
    /\ Orphan(c)
    /\ UNCHANGED <<ringVars, fwVars, overtaken, skipped>>

RingAndWait(c) ==
    /\ pc[c] = "bell"
    /\ kind[c] # "powerdown"
    /\ bell' = TRUE
    /\ pc' = [pc EXCEPT ![c] = "wait"]
    /\ UNCHANGED <<ringVars, fwVars, mem, entry, kind, histVars>>

Ring(c) == RingPowerDown(c) \/ RingAndWait(c)

\* Mutant: the wait does not look at the entry.
WaitReadyBlind(c) ==
    /\ pc[c] = "wait"
    /\ pc' = [pc EXCEPT ![c] = "ready"]
    /\ UNCHANGED <<ringVars, bell, fwVars, mem, entry, kind, histVars>>

\* fthd_channel_wait_ready returns 0: the entry is the host's again.
WaitReady(c) ==
    /\ pc[c] = "wait"
    /\ HostOwns(entry[c])
    /\ pc' = [pc EXCEPT ![c] = "ready"]
    /\ UNCHANGED <<ringVars, bell, fwVars, mem, entry, kind, histVars>>

\* It returns -ETIMEDOUT: the time is over, or a signal came in.
WaitFails(c) ==
    /\ pc[c] = "wait"
    /\ ~HostOwns(entry[c])
    /\ pc' = [pc EXCEPT ![c] = "giveup"]
    /\ UNCHANGED <<ringVars, bell, fwVars, mem, entry, kind, histVars>>

\* "goto out" after a failed wait: the request object is destroyed.
GiveUp(c) ==
    /\ pc[c] = "giveup"
    /\ Leave(c)
    /\ Orphan(c)
    /\ UNCHANGED <<ringVars, bell, fwVars, overtaken, skipped>>

\* The address the response is copied from, read from the entry again.
ResponseAddr(c) == addr[entry[c]]

\* ret = cmd.status ? -EIO : 0; the debug variant ignores the status.
Result(c) == IF status[mem[c]] = 0 \/ DebugChannel THEN "0" ELSE "-EIO"

(* The answered path: the header gives Result(c), the response is copied   *)
(* from ResponseAddr(c), the object is destroyed.                          *)
Finish(c) ==
    /\ pc[c] = "ready"
    /\ Leave(c)
    /\ UNCHANGED <<ringVars, bell, fwVars, overtaken, orphan, everOrphan,
                   skipped>>

---------------------------------------------------------------------------
(* External: the firmware serves the ring in order, one entry at a time,   *)
(* from the doorbell until it meets an entry that it does not own.         *)
FwTake ==
    /\ bell /\ ~fwBusy /\ ~HostOwns(fwIdx)
    /\ fwBusy' = TRUE
    /\ execs' = [c \in Caller |->
                   IF mem[c] = addr[fwIdx] /\ execs[c] < 2
                   THEN execs[c] + 1 ELSE execs[c]]
    /\ UNCHANGED <<ringVars, bell, fwIdx, status, callVars, overtaken, verdict,
                   orphan, everOrphan, skipped>>

FwAnswer ==
    /\ fwBusy
    /\ fwBusy' = FALSE
    /\ \E s \in {0, 1} :
          /\ status' = [status EXCEPT ![addr[fwIdx]] = s]
          /\ verdict' = [c \in Caller |->
                IF Holds(c, fwIdx) THEN s ELSE verdict[c]]
    /\ flag' = [flag EXCEPT ![fwIdx] = 1]
    /\ fwIdx' = NextIdx(fwIdx)
    /\ orphan' = orphan \ {fwIdx}
    /\ UNCHANGED <<addr, idx, bell, callVars, overtaken, execs, everOrphan,
                   skipped>>

FwIdle ==
    /\ bell /\ ~fwBusy /\ HostOwns(fwIdx)
    /\ bell' = FALSE
    /\ UNCHANGED <<ringVars, fwVars, callVars, histVars>>

Call(c) == \/ CmdStart(c) \/ Send(c) \/ Ring(c) \/ WaitReady(c)
           \/ WaitFails(c) \/ GiveUp(c) \/ Finish(c)
Firmware == FwTake \/ FwAnswer \/ FwIdle
Next == Firmware \/ \E c \in Caller : Call(c)

Spec == Init /\ [][Next]_vars

(* A thread inside the driver runs on and a working firmware answers; no   *)
(* thread has to issue a command and no timer has to fire.                 *)
Fairness ==
    /\ WF_vars(Firmware)
    /\ \A c \in Caller : /\ WF_vars(Send(c))
                         /\ WF_vars(Ring(c))
                         /\ WF_vars(WaitReady(c))
                         /\ WF_vars(GiveUp(c))
                         /\ WF_vars(Finish(c))
FairSpec == Spec /\ Fairness

---------------------------------------------------------------------------
\* Entries from fwIdx up to, not including, idx, the wrap included.
Between(i) == IF fwIdx < idx THEN fwIdx <= i /\ i < idx
                             ELSE fwIdx <= i \/ i < idx

(* As long as no send has met a taken entry, the entries the firmware owns *)
(* are exactly those between its position and ringbuf.idx.                 *)
Window ==
    ~skipped => \/ idx # fwIdx /\ \A i \in Slot : flag[i] = 0 <=> Between(i)
                \/ idx = fwIdx /\ \A i, j \in Slot : flag[i] = flag[j]

(* No command is stranded: while the ring has never overflowed, an entry   *)
(* handed to the firmware is never hidden from it behind a free one, which *)
(* is where its in-order scan would stop.  (After an overflow it can be:   *)
(* ringbuf.idx has moved on without posting anything.)                     *)
NoStrandedCommand ==
    ~skipped /\ HostOwns(fwIdx) => \A i \in Slot : HostOwns(i)

(* An answer is not lost: from the moment the firmware has answered a      *)
(* caller until the caller has read the response, the entry stays answered *)
(* and holds the caller's own offset, unless at least Size other sends ran *)
(* in between.  (Then the caller waits for, or reads, another's answer.)   *)
OwnResponse ==
    \A c \in Caller : /\ pc[c] \in Posted
                      /\ verdict[c] # NoVerdict
                      /\ overtaken[c] < Size
                      => HostOwns(entry[c]) /\ ResponseAddr(c) = mem[c]

(* The firmware works on live memory: an entry it owns holds the request   *)
(* object of a caller inside the command, unless that very command gave up *)
(* (timeout, signal) or was a power-down.                                  *)
FirmwareMemoryLive ==
    \A i \in Slot : ~HostOwns(i) /\ i \notin orphan =>
        \E c \in Caller : Holds(c, i) /\ verdict[c] = NoVerdict

(* A call that waited successfully was executed; a command is executed a   *)
(* second time only through an entry orphaned earlier, whose object's      *)
(* memory was handed to the new command.                                   *)
ExecutedOnce ==
    \A c \in Caller : /\ pc[c] = "ready" => execs[c] >= 1
                                          /\ verdict[c] # NoVerdict
                      /\ ~everOrphan => execs[c] <= 1

(* The result of a call is the one the firmware gave to that very command: *)
(* a late answer to a command that was given up, whose object's memory now *)
(* holds this command's header, never shows in it (as long as the ring has *)
(* not overflowed).                                                        *)
HonestResult ==
    \A c \in Caller : pc[c] = "ready" /\ ~skipped =>
        Result(c) = (IF verdict[c] = 0 \/ DebugChannel THEN "0" ELSE "-EIO")

(* With a working firmware no caller depends on the timeout: a posted      *)
(* command leads to the end of the call, unless the ring has overflowed or *)
(* Size other sends have passed the caller by.                             *)
Answered ==
    \A c \in Caller :
        pc[c] \in Posted ~> \/ pc[c] = "idle"
                            \/ skipped
                            \/ overtaken[c] = Size
===========================================================================
