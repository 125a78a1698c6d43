----------------------------- MODULE BrcmIoctl -----------------------------
(***************************************************************************)
(* Firmware commands over the message buffer (fwil.c, msgbuf.c): callers   *)
(* take the proto_block mutex, write the one shared input buffer, put a    *)
(* request in the control ring and wait with a timeout; the interrupt      *)
(* thread stores the answer's fields in shared variables, sets             *)
(* ctl_completed and replaces the response buffer the firmware used.       *)
(* A caller that gives up leaves its request behind, and so does one that  *)
(* could not ring the doorbell because the device has just been put to     *)
(* sleep: the answer arrives later, for whoever is waiting then.           *)
(*                                                                         *)
(* A request, its input and its answer are the request's number.           *)
(***************************************************************************)
EXTENDS Integers, Sequences, FiniteSets

CONSTANTS Callers,       \* threads that issue commands
          None,          \* nobody / nothing
          RingRoom,      \* requests the control ring holds
          MaxResp,       \* BRCMF_MSGBUF_MAX_IOCTLRESPBUF_POST
          NrPktids,      \* size of rx_pktids as far as responses use it
          MaxCmds,       \* bound: requests sent in a behaviour
          MaxTimeouts,   \* bound: waits that time out in a behaviour
          MaxMissed      \* bound: requests not shown, or without a doorbell

VARIABLES
    owner,        \* holder of proto_block
    pc,           \* pc[c]: where caller c is
    mine,         \* mine[c]: the number of c's request
    result,       \* result[c]: the answer c returned with
    reqid,        \* msgbuf->reqid
    ioctbuf,      \* whose input the shared buffer holds
    ring,         \* requests in the control ring
    unseen,       \* how many of them, the last, whose index was not written
    ctl_completed, resp_status, resp_pktid,
    irq,          \* the completion the interrupt thread is handling, its step
    comps,        \* completions in the control-complete ring
    posted,       \* response buffers the firmware holds unused
    cur,          \* msgbuf->cur_ioctlrespbuf
    inuse, last,  \* packet ids allocated, the one allocated last
    content,      \* content[p]: the answer in buffer p
    timeouts,     \* waits that timed out so far
    missed        \* requests not shown, or without a doorbell, so far

callerVars == <<owner, pc, mine, result>>
bufVars == <<posted, cur, inuse, last>>
vars == <<owner, pc, mine, result, reqid, ioctbuf, ring, unseen, ctl_completed, resp_status,
          resp_pktid, irq, comps, posted, cur, inuse, last, content, timeouts, missed>>

PacketIds == 0..(NrPktids - 1)

NoIrq == [step |-> "idle", req |-> 0, pktid |-> 0]

(***************************************************************************)
(* brcmf_msgbuf_rxbuf_ctrl_post: as many new buffers as are missing, while *)
(* there are packet ids.                                                   *)
(***************************************************************************)
Missing(n) == MaxResp - n

\* brcmf_msgbuf_alloc_pktid searches round the array from the entry after
\* the last one it gave out: the order in which it finds the free ones.
Found(p) == (p - last - 1) % NrPktids
Rank(p) == Cardinality({q \in PacketIds \ inuse : Found(q) <= Found(p)})

PostBuffers(n) ==
    LET new == {p \in PacketIds \ inuse : Rank(p) <= Missing(n)}
        order == [i \in 1..Cardinality(new) |-> CHOOSE p \in new : Rank(p) = i]
    IN  /\ inuse' = inuse \cup new
        /\ posted' = posted \o order
        /\ cur' = n + Cardinality(new)
        /\ last' = IF new = {} THEN last ELSE order[Len(order)]

Init ==
    /\ owner = None
    /\ pc = [c \in Callers |-> "idle"]
    /\ mine = [c \in Callers |-> 0]
    /\ result = [c \in Callers |-> None]
    /\ reqid = 0 /\ ioctbuf = 0 /\ ring = <<>> /\ unseen = 0
    /\ ctl_completed = FALSE /\ resp_status = 0 /\ resp_pktid = 0
    /\ irq = NoIrq /\ comps = <<>>
    /\ inuse = 0..(MaxResp - 1) /\ last = MaxResp - 1
    /\ posted = [i \in 1..MaxResp |-> i - 1]
    /\ cur = MaxResp
    /\ content = [p \in PacketIds |-> 0]
    /\ timeouts = 0 /\ missed = 0

(***************************************************************************)
(* The caller: brcmf_fil_* and brcmf_msgbuf_query_dcmd.                    *)
(***************************************************************************)
\* Mutant: the mutex does not keep the next caller out.
FreeAlways == TRUE
Free == owner = None

Lock(c) ==
    /\ pc[c] = "idle" /\ Free /\ reqid < MaxCmds
    /\ owner' = c
    /\ pc' = [pc EXCEPT ![c] = "locked"]
    /\ result' = [result EXCEPT ![c] = None]
    /\ UNCHANGED <<mine, reqid, ioctbuf, ring, unseen, ctl_completed, resp_status, resp_pktid,
                   irq, comps, bufVars, content, timeouts, missed>>

Return(c, answer) ==
    /\ result' = [result EXCEPT ![c] = answer]
    /\ pc' = [pc EXCEPT ![c] = "idle"]
    /\ owner' = IF owner = c THEN None ELSE owner

\* The bus is down (-EIO), or name and data do not fit proto_buf (-EPERM).
Refuse(c) ==
    /\ pc[c] = "locked"
    /\ Return(c, None)
    /\ UNCHANGED <<mine, reqid, ioctbuf, ring, unseen, ctl_completed, resp_status, resp_pktid,
                   irq, comps, bufVars, content, timeouts, missed>>

Clear(c) ==
    /\ pc[c] = "locked"
    /\ ctl_completed' = FALSE
    /\ pc' = [pc EXCEPT ![c] = "send"]
    /\ UNCHANGED <<owner, mine, result, reqid, ioctbuf, ring, unseen, resp_status, resp_pktid,
                   irq, comps, bufVars, content, timeouts, missed>>

\* brcmf_commonring_write_complete: writing the index shows the firmware all
\* requests in the ring.  It fails, and so does the doorbell, once the device
\* has been put to sleep, which the bus check of fwil.c came too early to see.
Submit(wrote, rang) ==
    /\ (wrote /\ rang) \/ missed < MaxMissed
    /\ missed' = IF wrote /\ rang THEN missed ELSE missed + 1
    /\ unseen' = IF wrote THEN 0 ELSE unseen + 1
    /\ ring' = Append(ring, reqid + 1)

\* brcmf_msgbuf_tx_ioctl: a full ring is -ENOMEM; without the doorbell it is
\* -EIO, and the request stays in the ring.
Send(c) ==
    /\ pc[c] = "send"
    /\ \/ /\ Len(ring) < RingRoom
          /\ reqid' = reqid + 1
          /\ ioctbuf' = reqid + 1
          /\ mine' = [mine EXCEPT ![c] = reqid + 1]
          /\ \E wrote, rang \in BOOLEAN :
                /\ Submit(wrote, rang)
                /\ IF rang THEN pc' = [pc EXCEPT ![c] = "wait"] /\ UNCHANGED <<owner, result>>
                   ELSE Return(c, None)
       \/ /\ Len(ring) >= RingRoom
          /\ Return(c, None)
          /\ UNCHANGED <<mine, reqid, ioctbuf, ring, unseen, missed>>
    /\ UNCHANGED <<ctl_completed, resp_status, resp_pktid, irq, comps, bufVars, content, timeouts>>

\* MSGBUF_IOCTL_RESP_TIMEOUT passes; the request stays with the firmware.
Timeout(c) ==
    /\ pc[c] = "wait" /\ ~ctl_completed /\ timeouts < MaxTimeouts
    /\ timeouts' = timeouts + 1
    /\ Return(c, None)
    /\ UNCHANGED <<mine, reqid, ioctbuf, ring, unseen, ctl_completed, resp_status, resp_pktid,
                   irq, comps, bufVars, content, missed>>

\* Woken: the buffer the shared field names is taken out of rx_pktids.
TakeBuffer(c) ==
    /\ pc[c] = "wait" /\ ctl_completed
    /\ IF resp_pktid \in inuse
       THEN /\ inuse' = inuse \ {resp_pktid}
            /\ result' = [result EXCEPT ![c] = [data |-> content[resp_pktid], status |-> 0]]
            /\ pc' = [pc EXCEPT ![c] = "status"]
            /\ UNCHANGED owner
       ELSE /\ Return(c, None)               \* -EBADF
            /\ UNCHANGED inuse
    /\ UNCHANGED <<mine, reqid, ioctbuf, ring, unseen, ctl_completed, resp_status, resp_pktid,
                   irq, comps, posted, cur, last, content, timeouts, missed>>

ReadStatus(c) ==
    /\ pc[c] = "status"
    /\ Return(c, [data |-> result[c].data, status |-> resp_status])
    /\ UNCHANGED <<mine, reqid, ioctbuf, ring, unseen, ctl_completed, resp_status, resp_pktid,
                   irq, comps, bufVars, content, timeouts, missed>>

(***************************************************************************)
(* The firmware serves requests in order; it reads the shared input buffer *)
(* when it gets to the request and answers in a posted buffer.             *)
(***************************************************************************)
Firmware ==
    /\ Len(ring) > unseen /\ posted # <<>>
    /\ ring' = Tail(ring) /\ posted' = Tail(posted)
    /\ content' = [content EXCEPT ![Head(posted)] = ioctbuf]
    /\ comps' = Append(comps, [req |-> Head(ring), pktid |-> Head(posted)])
    /\ UNCHANGED <<callerVars, reqid, ioctbuf, unseen, ctl_completed, resp_status, resp_pktid,
                   irq, cur, inuse, last, timeouts, missed>>

(***************************************************************************)
(* brcmf_msgbuf_process_ioctl_complete.                                    *)
(***************************************************************************)
StoreStatus ==
    /\ irq.step = "idle" /\ comps # <<>>
    /\ resp_status' = Head(comps).req
    /\ irq' = [step |-> "pktid", req |-> Head(comps).req, pktid |-> Head(comps).pktid]
    /\ comps' = Tail(comps)
    /\ UNCHANGED <<callerVars, reqid, ioctbuf, ring, unseen, ctl_completed, resp_pktid, bufVars, content, timeouts, missed>>

StorePktid ==
    /\ irq.step = "pktid"
    /\ resp_pktid' = irq.pktid
    /\ irq' = [irq EXCEPT !.step = "wake"]
    /\ UNCHANGED <<callerVars, reqid, ioctbuf, ring, unseen, ctl_completed, resp_status, comps, bufVars, content, timeouts, missed>>

\* brcmf_msgbuf_ioctl_resp_wake.
Wake ==
    /\ irq.step = "wake"
    /\ ctl_completed' = TRUE
    /\ irq' = [irq EXCEPT !.step = "post"]
    /\ UNCHANGED <<callerVars, reqid, ioctbuf, ring, unseen, resp_status, resp_pktid, comps, bufVars, content, timeouts, missed>>

Used(n) == IF n > 0 THEN n - 1 ELSE 0

\* The used buffer is replaced.
Repost ==
    /\ irq.step = "post"
    /\ PostBuffers(Used(cur))
    /\ irq' = NoIrq
    /\ UNCHANGED <<callerVars, reqid, ioctbuf, ring, unseen, ctl_completed, resp_status, resp_pktid,
                   comps, content, timeouts, missed>>

Caller(c) == Lock(c) \/ Refuse(c) \/ Clear(c) \/ Send(c) \/ Timeout(c) \/ TakeBuffer(c) \/ ReadStatus(c)
Irq == StoreStatus \/ StorePktid \/ Wake \/ Repost
Next == (\E c \in Callers : Caller(c)) \/ Firmware \/ Irq

Spec == Init /\ [][Next]_vars

(***************************************************************************)
(* Properties.                                                             *)
(***************************************************************************)
Held == (IF irq.step = "idle" THEN {} ELSE {irq.pktid}) \cup {comps[i].pktid : i \in DOMAIN comps}
AtFirmware == {posted[i] : i \in DOMAIN posted}

\* Every variable has its type.
TypeOK ==
    /\ owner \in Callers \cup {None}
    /\ pc \in [Callers -> {"idle", "locked", "send", "wait", "status"}]
    /\ mine \in [Callers -> 0..MaxCmds] /\ reqid \in 0..MaxCmds
    /\ ioctbuf \in 0..MaxCmds /\ ctl_completed \in BOOLEAN
    /\ resp_status \in 0..MaxCmds /\ resp_pktid \in PacketIds
    /\ inuse \subseteq PacketIds /\ AtFirmware \subseteq PacketIds
    /\ cur \in 0..MaxResp /\ unseen \in 0..Len(ring)
    /\ timeouts \in 0..MaxTimeouts /\ missed \in 0..MaxMissed

\* No wait has timed out, and no doorbell was missed: no request was left
\* behind, whose answer would be for the next caller.
NoneLeft == timeouts = 0 /\ missed = 0

\* A packet id is posted once and stays allocated while the firmware has its
\* buffer.  With a request left behind that is sure only until the ids have
\* gone round: a late answer wakes a caller that frees the id of the answer before, which may
\* have been given out again (brcmf_msgbuf_get_pktid).
PostedOnce ==
    NoneLeft \/ MaxResp + reqid <= NrPktids =>
        AtFirmware \subseteq inuse /\ Cardinality(AtFirmware) = Len(posted)

\* As long as no request was left behind, a command returns the answer to itself,
\* with the status and the data of the same answer, although everything is
\* passed through variables that all commands share (msgbuf.c).
OwnAnswer ==
    NoneLeft =>
        \A c \in Callers :
            pc[c] = "idle" /\ result[c] # None =>
                result[c].data = mine[c] /\ result[c].status = mine[c]

\* As long as no request was left behind, no two callers are between taking the
\* mutex and returning, and the firmware reads the input of the request it
\* is serving from the shared buffer.
InputIntact ==
    NoneLeft =>
        /\ Cardinality({c \in Callers : pc[c] # "idle"}) <= 1
        /\ ring # <<>> => ioctbuf = Head(ring)

\* cur_ioctlrespbuf counts the buffers the firmware has or has used and not
\* yet been given a replacement for: it never runs away from the truth.
CurCounts ==
    cur = Len(posted) + Len(comps) + (IF irq.step = "idle" THEN 0 ELSE 1)

\* With no request left behind no response buffer is lost: each one allocated is with
\* the firmware, on its way back, or the one the waiting caller will free.
NoLeakWithoutTimeout ==
    NoneLeft =>
        inuse \ (AtFirmware \cup Held) \subseteq
            (IF \E c \in Callers : pc[c] = "wait" /\ ctl_completed THEN {resp_pktid} ELSE {})

\* Commands do not see each other although they share the input buffer, the
\* flag and the answer's variables (brcmf_msgbuf_query_dcmd).
CommandsSeparate == OwnAnswer /\ InputIntact

\* Response buffers are neither lost nor posted twice, and their count is true
\* (brcmf_msgbuf_rxbuf_ioctlresp_post).
BuffersConserved == TypeOK /\ PostedOnce /\ CurCounts /\ NoLeakWithoutTimeout
=============================================================================
