---------------------------- MODULE MCBrcmMsgbuf ----------------------------
(***************************************************************************)
(* Three parts of the message-buffer protocol that share no state, for one *)
(* run of TLC with liveness: a completion ring, the commands, and the flow *)
(* rings with a firmware that is slow to create them, these with failures  *)
(* and a deletion or, calm, with one more packet instead.                  *)
(* The part chosen in the initial state is the one that takes steps, so    *)
(* the states are the sum of the parts' and not their product.  Fairness   *)
(* is asked of the steps of that part only.                                *)
(***************************************************************************)
EXTENDS BrcmCompletionRing

CONSTANTS Callers, None, RingRoom, MaxResp, NrPktids, MaxCmds, MaxTimeouts,
          MaxMissed   \* of BrcmIoctl

CONSTANTS Rings, High, Low, Delay, Trickle, FlowDepth, Eighth, Pktids, MaxPkts, MaxFails,
          MaxDeletes,  \* of BrcmFlowring
          CalmPkts     \* bound: packets of a behaviour in which nothing fails or leaves

\* Packet ids are enough to post every response buffer.
ASSUME IoctlAssumption ==
    /\ None \notin Callers
    /\ {RingRoom, NrPktids, MaxCmds, MaxTimeouts, MaxMissed} \subseteq Nat
    /\ MaxResp \in 1..NrPktids

ASSUME FlowAssumption ==
    /\ Rings \subseteq Nat /\ None \notin Rings
    /\ Low \in Nat /\ High \in Nat /\ 0 < Low /\ Low <= High

VARIABLES
    part,
    status, q, blocked, stopped, works, ctl, unseen, stray, dma, unread, inair, out,
    wasfull, flow_map, txwork, done_map, tx, wk, del, pkts, gone, fails, deletes, late, fault,
    iOwner, iPc, iMine, iResult, iReqid, iIoctbuf, iRing, iUnseen, iCompleted, iStatus,
    iPktid, iIrq, iComps, iPosted, iCur, iInuse, iLast, iContent, iTimeouts, iMissed

I == INSTANCE BrcmIoctl WITH
        owner <- iOwner, pc <- iPc, mine <- iMine, result <- iResult, reqid <- iReqid,
        ioctbuf <- iIoctbuf, ring <- iRing, unseen <- iUnseen, ctl_completed <- iCompleted,
        resp_status <- iStatus, resp_pktid <- iPktid, irq <- iIrq, comps <- iComps,
        posted <- iPosted, cur <- iCur, inuse <- iInuse, last <- iLast,
        content <- iContent, timeouts <- iTimeouts, missed <- iMissed

F == INSTANCE BrcmFlowring WITH Depth <- FlowDepth, SlowFirmware <- TRUE

\* The same with more packets, no failure and no deletion.
Calm == INSTANCE BrcmFlowring WITH Depth <- FlowDepth, SlowFirmware <- TRUE,
            MaxPkts <- CalmPkts, MaxFails <- 0, MaxDeletes <- 0

fVars == <<status, q, blocked, stopped, works, ctl, unseen, stray, dma, unread, inair, out,
           wasfull, flow_map, txwork, done_map, tx, wk, del, pkts, gone, fails, deletes, late, fault>>
iVars == <<iOwner, iPc, iMine, iResult, iReqid, iIoctbuf, iRing, iUnseen, iCompleted, iStatus,
           iPktid, iIrq, iComps, iPosted, iCur, iInuse, iLast, iContent, iTimeouts, iMissed>>
allVars == <<part, vars, iVars, fVars>>

MsgbufInit == part \in {"complete", "ioctl", "flow", "calm"} /\ Init /\ I!Init /\ F!Init

CompleteNext == part = "complete" /\ Next /\ UNCHANGED <<part, iVars, fVars>>
IoctlNext    == part = "ioctl" /\ I!Next /\ UNCHANGED <<part, vars, fVars>>
FlowNext ==
    /\ \/ part = "flow" /\ F!Next
       \/ part = "calm" /\ Calm!Next
    /\ UNCHANGED <<part, vars, iVars>>

Flows == part \in {"flow", "calm"}

\* A threaded interrupt handler that is woken runs, and runs to its end; other
\* threads that have work are scheduled; the firmware reads, transmits and
\* answers.  Nothing is assumed of timeouts, nor of who begins an operation.
MsgbufFairness ==
    /\ WF_vars(part = "complete" /\ Host)
    /\ WF_iVars(/\ part = "ioctl"
                /\ \E c \in Callers : I!Clear(c) \/ I!Send(c) \/ I!TakeBuffer(c) \/ I!ReadStatus(c))
    /\ WF_iVars(part = "ioctl" /\ I!Irq)
    /\ WF_iVars(part = "ioctl" /\ I!Firmware)
    /\ WF_fVars(Flows /\ F!Tx) /\ WF_fVars(Flows /\ F!Worker)
    /\ WF_fVars(\/ part = "flow" /\ F!Creates
                \/ part = "calm" /\ Calm!Creates)
    /\ WF_fVars(part = "flow" /\ (F!DelDrained \/ F!DelGiveUp \/ F!DelSend \/ F!DelRemove))
    /\ WF_fVars(Flows /\ \E r \in Rings : F!FirmwareRead(r))
    /\ WF_fVars(\/ part = "flow" /\ F!Answers
                \/ part = "calm" /\ Calm!Answers
                \/ Flows /\ \E r \in Rings : F!TxStatus(r) \/ F!AfterStatus(r))

MsgbufNext == CompleteNext \/ IoctlNext \/ FlowNext
MsgbufSpec == MsgbufInit /\ [][MsgbufNext]_allVars /\ MsgbufFairness

-----------------------------------------------------------------------------
(***************************************************************************)
(* Until a request is left behind, by a wait that times out or a doorbell  *)
(* that cannot be rung, a command returns its own answer, the firmware     *)
(* reads the input of the request it serves, and the response buffers are  *)
(* conserved and counted (brcmf_msgbuf_query_dcmd,                         *)
(* brcmf_msgbuf_rxbuf_ioctlresp_post).                                     *)
(***************************************************************************)
CommandsSeparate == I!CommandsSeparate /\ I!BuffersConserved

\* Not seen by the firmware until the next request is written: the command a
\* caller waits for, the creation or the deletion of a flow ring.
CommandUnseen(c) == iPc[c] = "wait" /\ iUnseen > 0
RingUnseen(r) == \E kind \in {"create", "delete"} : <<kind, r>> \in unseen

\* Someone waits: a message in the completion ring, a caller with a command, a
\* packet in the queue of a flow ring.
Waits ==
    \/ part = "complete" /\ got # sent
    \/ part = "ioctl" /\ \E c \in Callers : iPc[c] # "idle" /\ ~CommandUnseen(c)
    \/ Flows /\ ~fault /\ \E r \in Rings : q[r] > 0 /\ ~RingUnseen(r)

(***************************************************************************)
(* Nobody waits for ever: the thread handles every completion, a command   *)
(* that has the mutex returns, and every packet leaves its queue although  *)
(* full rings, a high outstanding count and the trickle threshold each put *)
(* the worker off (brcmf_msgbuf_process_rx, brcmf_msgbuf_query_dcmd,       *)
(* brcmf_msgbuf_txflow_worker).  The last needs packet ids for all rings   *)
(* and an answer to the creation of a ring that comes after its first      *)
(* packet was queued: nobody comes back for a packet otherwise.  What is   *)
(* asked for is bounded, so that each wait ends says no more than that     *)
(* they are all over at some time.                                         *)
(***************************************************************************)
NobodyWaits == Waits ~> ~Waits

\* A stopped interface is started again (brcmf_flowring_block).
StopEnds == F!StopEnds
=============================================================================
