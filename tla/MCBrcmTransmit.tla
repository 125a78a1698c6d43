--------------------------- MODULE MCBrcmTransmit ---------------------------
(***************************************************************************)
(* The Wi-Fi driver's data path for one run of TLC: the index arithmetic   *)
(* of a single submission ring, the flow rings' control, in which a ring   *)
(* is a count of messages, firmware signalling, which is what SDIO and USB *)
(* devices have in place of flow rings, and the reordering of what they    *)
(* receive.  They share no state; the part chosen in the initial state is  *)
(* the one that takes steps, so the states are the sum of the parts' and   *)
(* not their product.                                                      *)
(***************************************************************************)
EXTENDS BrcmSubmitRing, FiniteSets

\* Of BrcmFlowring.
CONSTANTS Rings, None, High, Low, Delay, Trickle, FlowDepth, Eighth, Pktids, SlowFirmware,
          MaxPkts, MaxFails, MaxDeletes

\* Of BrcmFws and BrcmReorder.
CONSTANTS Nodes, FwsFifos, FwsSlots, PsqLen, FwsHigh, FwsLow, FreeRun, FwsCredit, Traffic,
          FwsPkts, FwsSteps, RxSlots, RxWindow, RxPackets

ASSUME FlowAssumption ==
    /\ Rings \subseteq Nat /\ IsFiniteSet(Rings) /\ None \notin Rings
    /\ {High, Low, Delay, Eighth, Pktids, MaxPkts, MaxFails, MaxDeletes} \subseteq Nat
    /\ {Trickle, FlowDepth} \subseteq Nat \ {0}

VARIABLES part,
          status, q, blocked, stopped, works, ctl, unseen, stray, dma, unread, inair, out,
          wasfull, flow_map, txwork, done_map, tx, wk, del, pkts, gone, fails, deletes, late, fault,
          fws, worker, firm, budget,
          flow, given, freed, window

F == INSTANCE BrcmFlowring WITH Depth <- FlowDepth
S == INSTANCE BrcmFws WITH Slots <- FwsSlots
R == INSTANCE BrcmReorder

fVars == <<status, q, blocked, stopped, works, ctl, unseen, stray, dma, unread, inair, out,
           wasfull, flow_map, txwork, done_map, tx, wk, del, pkts, gone, fails, deletes, late, fault>>
sVars == <<fws, worker, firm, budget>>
rVars == <<flow, given, freed, window>>

\* One initial state of signalling that takes no steps.
TransmitInit ==
    /\ part \in {"ring", "flow", "signal", "reorder"}
    /\ Init /\ F!Init /\ R!ReorderInit
    /\ IF part = "signal" THEN S!FwsInit
       ELSE fws = None /\ worker = None /\ firm = None /\ budget = None

RingNext    == part = "ring" /\ Next /\ UNCHANGED <<part, fVars, sVars, rVars>>
FlowNext    == part = "flow" /\ F!Next /\ UNCHANGED <<part, vars, sVars, rVars>>
\* Nothing is promised of signalling once the interface has gone.
SignalNext  == part = "signal" /\ ~fws.gone /\ S!FwsNext /\ UNCHANGED <<part, vars, fVars, rVars>>
ReorderNext == part = "reorder" /\ R!ReorderNext /\ UNCHANGED <<part, vars, fVars, sVars>>

TransmitNext == RingNext \/ FlowNext \/ SignalNext \/ ReorderNext
TransmitSpec == TransmitInit /\ [][TransmitNext]_<<part, vars, fVars, sVars, rVars>>

-----------------------------------------------------------------------------
\* Every packet is queued, in a ring, with the firmware or freed (msgbuf.c).
PacketsAccounted == part = "flow" => F!PacketsAccounted

\* A ring is created, used and deleted in order, and the interface is stopped
\* only while a ring is blocked (brcmf_msgbuf_delete_flowring, flowring.c).
RingLife == part = "flow" => F!RingLife /\ F!StoppedHasReason

(***************************************************************************)
(* Signalling keeps every packet, its hanger slot, the counts of packets   *)
(* in transit and the credits, through suppression, roll-back, borrowing   *)
(* and signals in any order (brcmf_fws_txs_process, brcmf_fws_commit_skb,  *)
(* brcmf_fws_return_credits).                                              *)
(***************************************************************************)
FwsKept == part = "signal" => S!PacketsKept /\ S!TransitRight /\ S!CreditsBalance

\* A station gets a fifo's packets in order, a sleeping one is reported to
\* have some, and the worker does not rest while it could send one
\* (brcmf_fws_enq, brcmf_fws_tim_update, brcmf_fws_schedule_deq).
FwsSent == part = "signal" => S!OrderKept /\ S!TimReported /\ S!NoStall

\* Received packets are handed up once and in order (brcmf_fws_rxreorder).
ReorderRight == part = "reorder" => R!ReorderRight

-----------------------------------------------------------------------------
\* To the station in fifo 1, and multicast.
MCTraffic == {<<TRUE, 1>>, <<FALSE, 2>>}
=============================================================================
