----------------------------- MODULE BrcmSdioRx -----------------------------
(***************************************************************************)
(* How the data worker of the SDIO bus reads frames (sdio.c,               *)
(* brcmf_sdio_readframes, brcmf_sdio_rxglom, brcmf_sdio_hdparse).          *)
(*                                                                         *)
(* A frame of known length is read at once, another one header first.  A   *)
(* glom descriptor announces a superframe: the packets of its subframes    *)
(* are allocated and filled in one transfer.  A transfer that fails is     *)
(* terminated; for control frames and events the firmware is asked to send *)
(* it again (NAK), and nothing is read until it says it will.              *)
(*                                                                         *)
(* One step is one turn of the loop of brcmf_sdio_readframes.  Lengths are *)
(* abstract: two frames have the same length or not.  Frames are numbered  *)
(* in the order in which the firmware made them.                           *)
(***************************************************************************)
EXTENDS Integers, Sequences, FiniteSets, SequencesExt

CONSTANTS RxWrap,      \* sequence numbers are counted modulo RxWrap
          RxFrames,    \* how many frames the firmware makes
          RxFaults,    \* how many things go wrong
          RxLeft       \* frames of one call (bus->rxbound)

VARIABLES
    fifo,      \* the firmware's frames, oldest first
    made,      \* how many frames it has made
    fwseq,     \* the sequence number of the frame at the head of fifo
    naked,     \* it was told to send the frame at the head again
    rx,        \* the receive side of struct brcmf_sdio
    call,      \* the running call of brcmf_sdio_readframes
    taken,     \* numbers of the frames given to the stack, in order
    gone,      \* numbers of the frames that were given up
    faults     \* how many things went wrong

rxVars == <<fifo, made, fwseq, naked, rx, call, taken, gone, faults>>

Kinds == {"ctl", "event", "data", "desc", "super"}

\* The numbers a frame carries, and the sequence numbers it uses up.
Carries(f) == IF f.kind = "super" THEN f.subs ELSE IF f.kind = "desc" THEN <<>> ELSE <<f.id>>
Uses(f) == IF f.kind = "super" THEN Len(f.subs) ELSE 1

SdioRxInit ==
    /\ fifo = <<>> /\ made = 0 /\ fwseq = 0 /\ naked = FALSE
    /\ rx = [seq |-> 0, len |-> 0, skip |-> FALSE, pending |-> FALSE, ind |-> FALSE,
             glomd |-> FALSE, badseq |-> FALSE, leak |-> FALSE, lostglom |-> FALSE]
    /\ call = [on |-> FALSE, seq |-> 0, left |-> 0]
    /\ taken = <<>> /\ gone = {} /\ faults = 0

Fault == faults < RxFaults /\ faults' = faults + 1

-----------------------------------------------------------------------------
(* The firmware.                                                           *)

MakeFrame ==
    /\ made < RxFrames
    /\ \E k \in {"event", "data"}, l \in {1, 2} :
         fifo' = Append(fifo, [kind |-> k, len |-> l, id |-> made + 1, subs |-> <<>>])
    /\ made' = made + 1
    /\ rx' = [rx EXCEPT !.ind = TRUE]
    /\ UNCHANGED <<fwseq, naked, call, taken, gone, faults>>

\* Two packets in one superframe, after its descriptor.
MakeGlom ==
    /\ made + 1 < RxFrames
    /\ fifo' = fifo \o << [kind |-> "desc", len |-> 1, id |-> 0, subs |-> <<>>],
                          [kind |-> "super", len |-> 3, id |-> 0, subs |-> <<made + 1, made + 2>>] >>
    /\ made' = made + 2
    /\ rx' = [rx EXCEPT !.ind = TRUE]
    /\ UNCHANGED <<fwseq, naked, call, taken, gone, faults>>

\* An answer to a command passes waiting frames, but not a superframe.
MakeControl ==
    /\ made < RxFrames
    /\ fifo # <<>> => fifo[1].kind # "super"
    /\ fifo' = <<[kind |-> "ctl", len |-> 1, id |-> made + 1, subs |-> <<>>]>> \o fifo
    /\ made' = made + 1
    /\ rx' = [rx EXCEPT !.ind = TRUE]
    /\ UNCHANGED <<fwseq, naked, call, taken, gone, faults>>

\* NAKHANDLED: brcmf_sdio_hostmail accepts frames again and reads them.
NakHandled ==
    /\ naked /\ ~call.on
    /\ naked' = FALSE
    /\ rx' = [rx EXCEPT !.skip = FALSE, !.ind = TRUE]
    /\ UNCHANGED <<fifo, made, fwseq, call, taken, gone, faults>>

-----------------------------------------------------------------------------
(* brcmf_sdio_readframes.                                                  *)

\* The worker has a frame indication and is not waiting for a repetition.
ReadBegin ==
    /\ ~call.on /\ rx.ind /\ ~rx.skip
    /\ rx' = [rx EXCEPT !.pending = TRUE]
    /\ call' = [on |-> TRUE, seq |-> rx.seq, left |-> RxLeft]
    /\ UNCHANGED <<fifo, made, fwseq, naked, taken, gone, faults>>

Looping == call.on /\ ~rx.skip /\ call.left > 0

\* The next turn of the loop; n sequence numbers were used.
Turn(n) == call' = [call EXCEPT !.seq = (@ + n) % RxWrap, !.left = @ - 1]

\* The header's length of the frame after the first: known if it is there.
NextLen == IF Len(fifo) > 1 /\ fifo[2].kind # "ctl" THEN {0, fifo[2].len} ELSE {0}

\* A header with another number than expected is believed.
Parsed(r, seq) == [r EXCEPT !.badseq = @ \/ seq # fwseq]

Pop == /\ fifo' = Tail(fifo)
       /\ fwseq' = (fwseq + Uses(fifo[1])) % RxWrap

\* brcmf_sdio_rxfail without NAK: the frame is flushed and lost.
RxFail ==
    /\ Pop
    /\ gone' = gone \cup ToSet(Carries(fifo[1]))
    /\ UNCHANGED <<naked, taken>>

\* brcmf_sdio_rxfail with NAK: it stays with the firmware and nothing is read.
RxNak ==
    /\ naked' = TRUE
    /\ rx' = [rx EXCEPT !.skip = TRUE, !.len = 0]
    /\ UNCHANGED <<fifo, fwseq, taken, gone>>

\* No frame: the header is all zeros.
ReadNone ==
    /\ Looping /\ ~rx.glomd /\ fifo = <<>>
    /\ rx' = [rx EXCEPT !.pending = FALSE, !.ind = FALSE, !.len = 0, !.seq = call.seq]
    /\ call' = [call EXCEPT !.on = FALSE]
    /\ UNCHANGED <<fifo, made, fwseq, naked, taken, gone, faults>>

HeaderFirst == Looping /\ ~rx.glomd /\ fifo # <<>> /\ rx.len = 0
ReadAhead   == Looping /\ ~rx.glomd /\ fifo # <<>> /\ rx.len # 0

\* What was read is given up, kept as a descriptor, or goes to the stack.
Deliver(r) ==
    /\ Pop
    /\ \E n \in NextLen :
         rx' = [Parsed(r, call.seq) EXCEPT !.len = n, !.glomd = fifo[1].kind = "desc",
                  !.leak = @ \/ fifo[1].kind = "super"]
    /\ taken' = IF fifo[1].kind = "super" THEN taken ELSE taken \o Carries(fifo[1])
    /\ gone' = IF fifo[1].kind = "super" THEN gone \cup ToSet(fifo[1].subs) ELSE gone
    /\ call' = [call EXCEPT !.seq = (fwseq + 1) % RxWrap, !.left = @ - 1]
    /\ UNCHANGED naked

ReadHeaderFirst == HeaderFirst /\ Deliver(rx) /\ UNCHANGED <<made, faults>>

\* The header cannot be read; the body of a control frame cannot; there is no
\* packet for an event, or its body cannot be read.
FailAgain ==
    /\ HeaderFirst /\ Fault /\ fifo[1].kind # "super"
    /\ RxNak /\ Turn(1) /\ UNCHANGED made

\* The header is damaged, a data frame's body is, or the NAK cannot be sent.
FailLost ==
    /\ HeaderFirst /\ Fault
    /\ RxFail /\ rx' = [rx EXCEPT !.len = 0, !.lostglom = @ \/ fifo[1].kind \in {"desc", "super"}]
    /\ Turn(1) /\ UNCHANGED made

\* The frame is the announced one.
ReadAheadWell ==
    /\ ReadAhead /\ fifo[1].kind # "ctl" /\ fifo[1].len = rx.len
    /\ Deliver(rx) /\ UNCHANGED <<made, faults>>

\* It is a control frame, or has another length: try again header first.
ReadAheadWrong ==
    /\ ReadAhead /\ (fifo[1].kind = "ctl" \/ fifo[1].len # rx.len)
    /\ RxNak /\ Turn(1) /\ UNCHANGED <<made, faults>>

\* Whatever it is, it counts as an event until its header is known.
ReadAheadFails ==
    /\ ReadAhead /\ Fault
    /\ RxNak /\ Turn(1) /\ UNCHANGED made

\* brcmf_sdio_rxglom: the superframe is read into the chain of packets.
GlomRead ==
    /\ Looping /\ rx.glomd /\ fifo # <<>> /\ fifo[1].kind = "super"
    /\ Pop
    /\ \E n \in NextLen : rx' = [Parsed(rx, call.seq) EXCEPT !.len = n, !.glomd = FALSE]
    /\ taken' = taken \o fifo[1].subs
    /\ call' = [call EXCEPT !.seq = (@ + Len(fifo[1].subs)) % RxWrap,
                            !.left = IF @ > Len(fifo[1].subs) THEN @ - Len(fifo[1].subs) - 1 ELSE 0]
    /\ UNCHANGED <<made, naked, gone, faults>>

\* No packets for the chain, or a bad descriptor: the superframe stays.
GlomNoChain ==
    /\ Looping /\ rx.glomd /\ Fault
    /\ rx' = [rx EXCEPT !.len = 0, !.glomd = FALSE, !.lostglom = TRUE]
    /\ Turn(0)
    /\ UNCHANGED <<fifo, made, fwseq, naked, taken, gone>>

\* The transfer fails or a header in it is bad: the superframe is given up.
GlomFails ==
    /\ Looping /\ rx.glomd /\ fifo # <<>> /\ Fault
    /\ RxFail
    /\ rx' = [rx EXCEPT !.len = 0, !.glomd = FALSE, !.lostglom = TRUE]
    /\ Turn(0)
    /\ UNCHANGED made

MutReadEnd ==
    /\ call.on /\ (rx.skip \/ call.left = 0)
    /\ rx' = [rx EXCEPT !.seq = call.seq]
    /\ call' = [call EXCEPT !.on = FALSE]
    /\ UNCHANGED <<fifo, made, fwseq, naked, taken, gone, faults>>
\* Back off when a frame is to be sent again.
ReadEnd ==
    /\ call.on /\ (rx.skip \/ call.left = 0)
    /\ rx' = [rx EXCEPT !.seq = IF rx.skip THEN (call.seq - 1) % RxWrap ELSE call.seq]
    /\ call' = [call EXCEPT !.on = FALSE]
    /\ UNCHANGED <<fifo, made, fwseq, naked, taken, gone, faults>>

SdioRxNext ==
    \/ MakeFrame \/ MakeGlom \/ MakeControl \/ NakHandled
    \/ ReadBegin \/ ReadNone \/ ReadHeaderFirst \/ FailAgain \/ FailLost
    \/ ReadAheadWell \/ ReadAheadWrong \/ ReadAheadFails
    \/ GlomRead \/ GlomNoChain \/ GlomFails \/ ReadEnd

SdioRxSpec == SdioRxInit /\ [][SdioRxNext]_rxVars

-----------------------------------------------------------------------------
(* Properties.                                                             *)

Waiting == UNION {ToSet(Carries(fifo[i])) : i \in 1 .. Len(fifo)}

\* Every frame is with the firmware, given to the stack once, or given up
\* (brcmf_sdio_readframes, brcmf_sdio_rxglom, brcmf_sdio_rxfail).
FramesOnce ==
    /\ Len(taken) = Cardinality(ToSet(taken))
    /\ ToSet(taken) \cap (gone \cup Waiting) = {} /\ gone \cap Waiting = {}
    /\ ToSet(taken) \cup gone \cup Waiting = 1 .. made

\* The driver expects the number the firmware uses next, through NAK and
\* repetition, until a superframe is lost (rx_seq, brcmf_sdio_hdparse).
SeqFollows == /\ rx.badseq => rx.lostglom
              /\ rx.leak => rx.lostglom

\* A NAK is followed by a repetition: frames are refused only while the
\* firmware still has to answer, and an indication is left to read what it has.
NakAnswered == /\ rx.skip => naked
               /\ (~call.on /\ fifo # <<>>) => rx.ind
=============================================================================
