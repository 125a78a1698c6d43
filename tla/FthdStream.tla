---------------------------- MODULE FthdStream ----------------------------
(***************************************************************************)
(* The life of a video buffer in the FaceTime HD driver (fthd_v4l2.c):     *)
(* one thread at a time, under vb2_queue_lock, runs the vb2 callbacks      *)
(* (prepare, queue, start_streaming, stop_streaming, cleanup); without     *)
(* that lock, the interrupt work runs fthd_buffer_return_handler.  videobuf2*)
(* and the firmware are external.                                          *)
(*                                                                         *)
(* Each buffer the driver has seen has a context h2t_bufs[s], whose state  *)
(* both threads read and write without a lock.                             *)
(***************************************************************************)
EXTENDS Naturals, FiniteSets

CONSTANTS Buf,       \* vb2 buffers
          NoBuf,     \* ctx->vb == NULL
          NCtx,      \* FTHD_BUFFERS
          MaxFaults  \* bound on the failures injected

ASSUME StreamAssumption ==
    /\ NCtx \in Nat \ {0}
    /\ IsFiniteSet(Buf) /\ NoBuf \notin Buf
    /\ MaxFaults \in Nat

Ctx == 0 .. NCtx - 1

VARIABLES
    vb,        \* external: vb2_buffer.state
    streaming, \* external: vb2_queue.streaming
    started,   \* external: vb2_queue.start_streaming_called
    state,     \* ctx->state
    ctxVb,     \* ctx->vb
    mapped,    \* every ctx->plane[] is set
    pc,        \* the thread that holds vb2_queue_lock
    i,         \* its loop variable
    count,     \* the count of start_streaming
    cur,       \* the ctx fthd_buffer_queue works on
    fwHas,     \* external: copies of each ctx's list the firmware holds
    irqPc,     \* the interrupt work in fthd_buffer_return_handler
    irqCtx,    \* the ctx of the tag it handles
    \* History.
    faults,    \* failures so far
    lost,      \* a send, a start or a stop has failed
    early,     \* a frame came back before start_streaming had marked it
    gap,       \* start_streaming met a ctx it skips below a queued one
    misdone,   \* vb2_buffer_done was called for a buffer not its to finish
    crashed    \* a NULL pointer was followed

vb2Vars == <<vb, streaming, started>>
ctxVars == <<state, ctxVb, mapped>>
thrVars == <<pc, i, count, cur>>
irqVars == <<irqPc, irqCtx>>
histVars == <<faults, lost, early, gap, misdone, crashed>>
vars == <<vb, streaming, started, state, ctxVb, mapped, pc, i, count, cur, fwHas,
          irqPc, irqCtx, faults, lost, early, gap, misdone, crashed>>

ThreadPc == {"idle", "qPost", "qWait", "qFail", "start", "loop", "sPost", "sWait",
             "sFail", "sMark", "stop", "stopWait", "xLoop", "xFree", "cancel"}

TypeOK ==
    /\ vb \in [Buf -> {"dequeued", "queued", "active", "done"}]
    /\ streaming \in BOOLEAN /\ started \in BOOLEAN
    /\ state \in [Ctx -> {"FREE", "ALLOC", "DRV_QUEUED", "HW_QUEUED"}]
    /\ ctxVb \in [Ctx -> Buf \cup {NoBuf}]
    /\ mapped \in [Ctx -> BOOLEAN]
    /\ pc \in ThreadPc
    /\ i \in 0 .. NCtx /\ cur \in Ctx
    /\ count \in 0 .. Cardinality(Buf)
    /\ fwHas \in [Ctx -> Nat]
    /\ irqPc \in {"idle", "check", "free", "done"} /\ irqCtx \in Ctx
    /\ faults \in 0 .. MaxFaults
    /\ {lost, early, gap, misdone, crashed} \subseteq BOOLEAN

Init ==
    /\ vb = [b \in Buf |-> "dequeued"]
    /\ streaming = FALSE /\ started = FALSE
    /\ state = [s \in Ctx |-> "FREE"]
    /\ ctxVb = [s \in Ctx |-> NoBuf]
    /\ mapped = [s \in Ctx |-> FALSE]
    /\ pc = "idle" /\ i = 0 /\ count = 0 /\ cur = 0
    /\ fwHas = [s \in Ctx |-> 0]
    /\ irqPc = "idle" /\ irqCtx = 0
    /\ faults = 0 /\ lost = FALSE /\ early = FALSE /\ gap = FALSE
    /\ misdone = FALSE /\ crashed = FALSE

---------------------------------------------------------------------------
\* The for loops over h2t_bufs take the first match.
First(S) == CHOOSE s \in S : \A t \in S : s <= t
CtxOf(b) == {s \in Ctx : ctxVb[s] = b}
Usable(b) == {s \in Ctx : \/ state[s] = "FREE"
                          \/ state[s] = "ALLOC" /\ ctxVb[s] = b}
InDriver(s) == state[s] \in {"DRV_QUEUED", "HW_QUEUED"}
Active == {b \in Buf : vb[b] = "active"}

\* External: vb2_buffer_done warns about a buffer the driver does not own.
BufferDone(b) ==
    /\ vb' = IF vb[b] = "active" THEN [vb EXCEPT ![b] = "done"] ELSE vb
    /\ misdone' = (misdone \/ vb[b] # "active")

Fault == faults < MaxFaults /\ faults' = faults + 1
SetState(s, x) == state' = [state EXCEPT ![s] = x]

\* The thread goes to p and changes nothing of vb2's or the history's.
Goto(p) == pc' = p

---------------------------------------------------------------------------
(* VIDIOC_QBUF: buf_prepare, then buf_queue if the driver has been started *)
(* or is started by this buffer.                                           *)

\* fthd_buffer_prepare finds no context: -ENOBUFS.
PrepareNoBufs(b) ==
    /\ pc = "idle" /\ vb[b] = "dequeued" /\ Usable(b) = {}
    /\ UNCHANGED vars

\* iommu_allocate_sgtable fails: -ENOMEM, the context stays claimed.
PrepareFails(b) ==
    /\ pc = "idle" /\ vb[b] = "dequeued" /\ Usable(b) # {}
    /\ LET s == First(Usable(b))
       IN  /\ state[s] = "FREE"
           /\ SetState(s, "ALLOC")
           /\ ctxVb' = [ctxVb EXCEPT ![s] = b]
           /\ mapped' = [mapped EXCEPT ![s] = FALSE]
    /\ Fault
    /\ UNCHANGED <<vb2Vars, thrVars, fwHas, irqVars, lost, early, gap, misdone,
                   crashed>>

\* A context claimed by a failed prepare has a NULL plane.
PrepareCrashes(b) ==
    /\ pc = "idle" /\ vb[b] = "dequeued" /\ Usable(b) # {}
    /\ LET s == First(Usable(b)) IN state[s] = "ALLOC" /\ ~mapped[s]
    /\ crashed' = TRUE
    /\ UNCHANGED <<vb2Vars, ctxVars, thrVars, fwHas, irqVars, faults, lost, early,
                   gap, misdone>>

\* fthd_buffer_queue returns without doing anything: no context, or one
\* that is not BUF_ALLOC.
Ignored(b, st, ct) == \/ {s \in Ctx : ct[s] = b} = {}
                      \/ st[First({s \in Ctx : ct[s] = b})] # "ALLOC"

QBuf(b) ==
    /\ pc = "idle" /\ vb[b] = "dequeued" /\ Usable(b) # {}
    /\ LET s  == First(Usable(b))
           st == [state EXCEPT ![s] = "ALLOC"]
           ct == [ctxVb EXCEPT ![s] = b]
           q  == First({t \in Ctx : ct[t] = b})
       IN  /\ state[s] = "FREE" \/ mapped[s]
           /\ ctxVb' = ct
           /\ mapped' = [mapped EXCEPT ![s] = TRUE]
           /\ \/ /\ ~streaming
                 /\ vb' = [vb EXCEPT ![b] = "queued"]
                 /\ state' = st
                 /\ UNCHANGED <<pc, cur>>
              \/ /\ streaming
                 /\ vb' = [vb EXCEPT ![b] = "active"]
                 /\ \/ /\ Ignored(b, st, ct)
                       /\ state' = st
                       /\ pc' = IF started THEN "idle" ELSE "start"
                       /\ UNCHANGED cur
                    \/ /\ ~Ignored(b, st, ct)
                       /\ state' = [st EXCEPT ![q] = "HW_QUEUED"]
                       /\ cur' = q
                       /\ pc' = "qPost"
    /\ UNCHANGED <<streaming, started, i, count, fwHas, irqVars, histVars>>

\* fthd_channel_ringbuf_send in fthd_send_h2t_buffer: posted, or -EAGAIN.
Post(s, posted, failed) ==
    \/ /\ fwHas' = [fwHas EXCEPT ![s] = @ + 1]
       /\ Goto(posted)
       /\ UNCHANGED <<faults, lost>>
    \/ /\ Fault /\ lost' = TRUE
       /\ Goto(failed)
       /\ UNCHANGED fwHas

\* fthd_channel_wait_ready in fthd_send_h2t_buffer.
Wait(accepted, failed) ==
    \/ /\ Goto(accepted)
       /\ UNCHANGED <<faults, lost>>
    \/ /\ Fault /\ lost' = TRUE
       /\ Goto(failed)

AfterQueue == IF started THEN "idle" ELSE "start"

QueuePost ==
    /\ pc = "qPost"
    /\ Post(cur, "qWait", "qFail")
    /\ UNCHANGED <<vb2Vars, ctxVars, i, count, cur, irqVars, early, gap, misdone,
                   crashed>>

QueueWait ==
    /\ pc = "qWait"
    /\ Wait(AfterQueue, "qFail")
    /\ UNCHANGED <<vb2Vars, ctxVars, i, count, cur, fwHas, irqVars, early, gap,
                   misdone, crashed>>

\* The failed send of fthd_buffer_queue: done(ERROR), state = BUF_ALLOC.
QueueFail ==
    /\ pc = "qFail"
    /\ BufferDone(ctxVb[cur])
    /\ SetState(cur, "ALLOC")
    /\ Goto(AfterQueue)
    /\ UNCHANGED <<streaming, started, ctxVb, mapped, i, count, cur, fwHas, irqVars,
                   faults, lost, early, gap, crashed>>

\* VIDIOC_DQBUF of a finished buffer.
DQBuf(b) ==
    /\ pc = "idle" /\ vb[b] = "done"
    /\ vb' = [vb EXCEPT ![b] = "dequeued"]
    /\ UNCHANGED <<streaming, started, ctxVars, thrVars, fwHas, irqVars, histVars>>

---------------------------------------------------------------------------
(* VIDIOC_STREAMON.  With buffers queued, vb2 hands them all to            *)
(* fthd_buffer_queue (streaming is still 0), then calls start_streaming;   *)
(* with none it waits for the first.                                       *)
StreamOn ==
    /\ pc = "idle" /\ ~streaming
    /\ LET Q == {b \in Buf : vb[b] = "queued"}
       IN  \/ /\ Q = {}
              /\ streaming' = TRUE
              /\ UNCHANGED <<vb, state, pc>>
           \/ /\ Q # {}
              /\ vb' = [b \in Buf |-> IF b \in Q THEN "active" ELSE vb[b]]
              /\ state' = [s \in Ctx |->
                    IF /\ ctxVb[s] \in Q /\ state[s] = "ALLOC"
                       /\ s = First(CtxOf(ctxVb[s]))
                    THEN "DRV_QUEUED" ELSE state[s]]
              /\ Goto("start")
              /\ UNCHANGED streaming
    /\ UNCHANGED <<started, ctxVb, mapped, i, count, cur, fwHas, irqVars, histVars>>

\* fthd_start_channel succeeds or fails.  After a failure vb2 takes its
\* buffers back; the contexts keep their states.
StartChannel ==
    /\ pc = "start"
    /\ \/ /\ started' = TRUE
          /\ i' = 0
          /\ count' = Cardinality(Active)
          /\ gap' = (gap \/ \E s, t \in Ctx : /\ s < t
                                              /\ state[s] # "DRV_QUEUED"
                                              /\ state[t] = "DRV_QUEUED")
          /\ Goto("loop")
          /\ UNCHANGED <<vb, faults, lost>>
       \/ /\ Fault /\ lost' = TRUE
          /\ vb' = [b \in Buf |-> IF b \in Active THEN "queued" ELSE vb[b]]
          /\ Goto("idle")
          /\ UNCHANGED <<started, i, count, gap>>
    /\ UNCHANGED <<streaming, ctxVars, cur, fwHas, irqVars, early, misdone, crashed>>

\* for (i = 0; i < FTHD_BUFFERS && count; i++, count--): a skipped context
\* uses up one of count as well.
LoopHead ==
    /\ pc = "loop"
    /\ \/ /\ i < NCtx /\ count > 0
          /\ \/ /\ state[i] # "DRV_QUEUED"
                /\ i' = i + 1 /\ count' = count - 1
                /\ UNCHANGED pc
             \/ /\ state[i] = "DRV_QUEUED"
                /\ Goto("sPost")
                /\ UNCHANGED <<i, count>>
          /\ UNCHANGED streaming
       \/ /\ ~(i < NCtx /\ count > 0)
          /\ streaming' = TRUE
          /\ Goto("idle")
          /\ i' = 0 /\ count' = 0
    /\ UNCHANGED <<vb, started, ctxVars, cur, fwHas, irqVars, histVars>>

StartPost ==
    /\ pc = "sPost"
    /\ Post(i, "sWait", "sFail")
    /\ UNCHANGED <<vb2Vars, ctxVars, i, count, cur, irqVars, early, gap, misdone,
                   crashed>>

StartWait ==
    /\ pc = "sWait"
    /\ Wait("sMark", "sFail")
    /\ UNCHANGED <<vb2Vars, ctxVars, i, count, cur, fwHas, irqVars, early, gap,
                   misdone, crashed>>

\* The failed send: done(ERROR), state = BUF_ALLOC ...
StartFail ==
    /\ pc = "sFail"
    /\ BufferDone(ctxVb[i])
    /\ SetState(i, "ALLOC")
    /\ Goto("sMark")
    /\ UNCHANGED <<streaming, started, ctxVb, mapped, i, count, cur, fwHas, irqVars,
                   faults, lost, early, gap, crashed>>

\* ... and then, failed or not, state = BUF_HW_QUEUED.
StartMark ==
    /\ pc = "sMark"
    /\ SetState(i, "HW_QUEUED")
    /\ i' = i + 1 /\ count' = count - 1
    /\ Goto("loop")
    /\ UNCHANGED <<vb2Vars, ctxVb, mapped, cur, fwHas, irqVars, histVars>>

---------------------------------------------------------------------------
(* VIDIOC_STREAMOFF: stop_streaming if started, then vb2 takes everything  *)
(* back.                                                                   *)
StreamOff ==
    /\ pc = "idle" /\ streaming
    /\ Goto(IF started THEN "stop" ELSE "cancel")
    /\ UNCHANGED <<vb2Vars, ctxVars, i, count, cur, fwHas, irqVars, histVars>>

\* fthd_stop_channel, answered or not.
StopChannel ==
    /\ pc = "stop"
    /\ \/ /\ Goto("stopWait")
          /\ UNCHANGED <<faults, lost>>
       \/ /\ Fault /\ lost' = TRUE
          /\ Goto("xLoop")
    /\ i' = 0
    /\ UNCHANGED <<vb2Vars, ctxVars, count, cur, fwHas, irqVars, early, gap, misdone,
                   crashed>>

\* Mutant: the wait is left out.
StopNoWait ==
    /\ pc = "stopWait"
    /\ Goto("cancel")
    /\ UNCHANGED <<vb2Vars, ctxVars, i, count, cur, fwHas, irqVars, histVars>>

\* vb2_wait_for_all_buffers.
StopWait ==
    /\ pc = "stopWait" /\ Active = {}
    /\ Goto("cancel")
    /\ UNCHANGED <<vb2Vars, ctxVars, i, count, cur, fwHas, irqVars, histVars>>

\* "Firmware doesn't respond": every queued context is finished here.
GiveBack ==
    /\ pc = "xLoop"
    /\ \/ /\ i < NCtx
          /\ \/ /\ InDriver(i)
                /\ BufferDone(ctxVb[i])
                /\ Goto("xFree")
                /\ UNCHANGED i
             \/ /\ ~InDriver(i)
                /\ i' = i + 1
                /\ UNCHANGED <<vb, misdone, pc>>
       \/ /\ i = NCtx
          /\ i' = 0
          /\ Goto("cancel")
          /\ UNCHANGED <<vb, misdone>>
    /\ UNCHANGED <<streaming, started, ctxVars, count, cur, fwHas, irqVars, faults,
                   lost, early, gap, crashed>>

GiveBackFree ==
    /\ pc = "xFree"
    /\ SetState(i, "ALLOC")
    /\ i' = i + 1
    /\ Goto("xLoop")
    /\ UNCHANGED <<vb2Vars, ctxVb, mapped, count, cur, fwHas, irqVars, histVars>>

\* External: __vb2_queue_cancel.
Cancel ==
    /\ pc = "cancel"
    /\ vb' = [b \in Buf |-> "dequeued"]
    /\ streaming' = FALSE /\ started' = FALSE
    /\ Goto("idle")
    /\ UNCHANGED <<ctxVars, i, count, cur, fwHas, irqVars, histVars>>

\* VIDIOC_REQBUFS(0) or the last close: fthd_buffer_cleanup of every buffer,
\* which frees the first context it finds for each.
Cleanup ==
    /\ pc = "idle" /\ ~streaming
    /\ LET gone == {s \in Ctx : /\ ctxVb[s] # NoBuf
                                /\ s = First(CtxOf(ctxVb[s]))
                                /\ state[s] # "FREE"}
       IN  /\ state' = [s \in Ctx |-> IF s \in gone THEN "FREE" ELSE state[s]]
           /\ ctxVb' = [s \in Ctx |-> IF s \in gone THEN NoBuf ELSE ctxVb[s]]
           /\ mapped' = [s \in Ctx |-> mapped[s] /\ s \notin gone]
    /\ vb' = [b \in Buf |-> "dequeued"]
    /\ UNCHANGED <<streaming, started, thrVars, fwHas, irqVars, histVars>>

---------------------------------------------------------------------------
\* External: the firmware has filled a buffer; the interrupt work takes the
\* message from the buf_t2h ring.
FwReturn(s) ==
    /\ irqPc = "idle" /\ fwHas[s] > 0
    /\ fwHas' = [fwHas EXCEPT ![s] = @ - 1]
    /\ irqPc' = "check" /\ irqCtx' = s
    /\ UNCHANGED <<vb2Vars, ctxVars, thrVars, histVars>>

\* fthd_buffer_return_handler: the test of ctx->state,
ReturnCheck ==
    /\ irqPc = "check"
    /\ irqPc' = IF InDriver(irqCtx) THEN "free" ELSE "idle"
    /\ early' = (early \/ state[irqCtx] = "DRV_QUEUED")
    /\ UNCHANGED <<vb2Vars, ctxVars, thrVars, fwHas, irqCtx, faults, lost, gap,
                   misdone, crashed>>

\* Mutant: the call of vb2_buffer_done is missing.
ReturnNoDone ==
    /\ irqPc = "free"
    /\ SetState(irqCtx, "ALLOC")
    /\ irqPc' = "idle"
    /\ UNCHANGED <<vb2Vars, ctxVb, mapped, thrVars, fwHas, irqCtx, histVars>>

\* ... the store of BUF_ALLOC,
ReturnFree ==
    /\ irqPc = "free"
    /\ SetState(irqCtx, "ALLOC")
    /\ irqPc' = "done"
    /\ UNCHANGED <<vb2Vars, ctxVb, mapped, thrVars, fwHas, irqCtx, histVars>>

\* ... and vb2_buffer_done(ctx->vb).
ReturnDone ==
    /\ irqPc = "done"
    /\ irqPc' = "idle"
    /\ \/ /\ ctxVb[irqCtx] # NoBuf
          /\ BufferDone(ctxVb[irqCtx])
          /\ UNCHANGED crashed
       \/ /\ ctxVb[irqCtx] = NoBuf
          /\ crashed' = TRUE
          /\ UNCHANGED <<vb, misdone>>
    /\ UNCHANGED <<streaming, started, ctxVars, thrVars, fwHas, irqCtx, faults, lost,
                   early, gap>>

Thread == \/ QueuePost \/ QueueWait \/ QueueFail
          \/ StartChannel \/ LoopHead \/ StartPost \/ StartWait \/ StartFail
          \/ StartMark \/ StopChannel \/ StopWait \/ GiveBack \/ GiveBackFree
          \/ Cancel
User == \/ StreamOn \/ StreamOff \/ Cleanup
        \/ \E b \in Buf : \/ PrepareNoBufs(b) \/ PrepareFails(b)
                          \/ PrepareCrashes(b) \/ QBuf(b) \/ DQBuf(b)
Irq == ReturnCheck \/ ReturnFree \/ ReturnDone
Fw == \E s \in Ctx : FwReturn(s)

Next == \/ ~crashed /\ (Thread \/ User \/ Irq \/ Fw)
        \/ crashed /\ UNCHANGED vars
Spec == Init /\ [][Next]_vars

(* The driver's threads run on, and the firmware fills every buffer it     *)
(* has, none overtaken for ever: it is enabled to only between two runs of *)
(* the handler, hence strong fairness.  Applications do as they like.      *)
Fairness == /\ WF_vars(~crashed /\ Thread)
            /\ WF_vars(~crashed /\ Irq)
            /\ \A s \in Ctx : SF_vars(~crashed /\ FwReturn(s))
FairSpec == Spec /\ Fairness

---------------------------------------------------------------------------
(* The hardware writes only into buffers the driver owns: while no send,   *)
(* start or stop has failed, a context whose list is with the firmware is  *)
(* mapped, its buffer is neither the application's nor vb2's, and the      *)
(* firmware has the list only once.                                        *)
FrameOwnership ==
    ~lost => \A s \in Ctx : fwHas[s] > 0 => /\ ctxVb[s] \in Active /\ mapped[s]
                                            /\ fwHas[s] = 1

(* vb2_buffer_done is called once for each buffer the driver is given, by  *)
(* whichever of the two threads finishes it; only a failed send, start or  *)
(* stop can make both of them do it.                                       *)
DoneOnce == misdone => lost

(* A buffer has one context, and the context is queued only while vb2 says *)
(* the driver has the buffer, unless something failed or a frame came back *)
(* before start_streaming had stored BUF_HW_QUEUED over its state.         *)
ContextsAgree ==
    ~lost /\ ~early =>
        /\ \A s \in Ctx : InDriver(s) => ctxVb[s] \in Active
        /\ \A s, t \in Ctx : ctxVb[s] = ctxVb[t] => s = t \/ ctxVb[s] = NoBuf

(* No NULL pointer is followed unless something failed before.             *)
CrashNeedsFailure == crashed => faults > 0

(* Whose a buffer is: what the hardware may write to, what the contexts    *)
(* say and what vb2 says agree, and a NULL plane is met only after a       *)
(* failure (fthd_v4l2.c, the callbacks against the return handler).        *)
BuffersOwned ==
    TypeOK /\ FrameOwnership /\ DoneOnce /\ ContextsAgree /\ CrashNeedsFailure

(* Every buffer the driver owns comes back, so stop_streaming's wait ends, *)
(* unless something failed, a frame came back early, or start_streaming    *)
(* met a context that was not queued below one that was and so ran out of  *)
(* "count" before it had sent them all.                                    *)
BufferReturns ==
    \A b \in Buf : vb[b] = "active" ~>
                       (vb[b] # "active" \/ lost \/ early \/ gap \/ crashed)
===========================================================================
