-------------------------- MODULE FthdStreamProofs --------------------------
(***************************************************************************)
(* Proofs about the life of a video buffer, for any number of buffers,     *)
(* contexts and failures.  The inductive invariant StreamInv has a part    *)
(* that always holds (Shape), one that holds while no send, start or stop  *)
(* has failed (Owned), and one that holds while moreover no frame came     *)
(* back before start_streaming had marked it (InOrder).                    *)
(***************************************************************************)
EXTENDS FthdStream, FiniteSetTheorems, WellFoundedInduction, TLAPS

---------------------------------------------------------------------------
\* Where the failures lead, and what the loops hold on to.
Shape ==
    /\ lost => faults > 0
    /\ misdone => lost
    /\ crashed => faults > 0
    /\ pc \in {"qFail", "sFail", "xLoop", "xFree"} => lost
    /\ pc \in {"sPost", "sWait", "sFail", "sMark"} =>
           i < NCtx /\ count > 0 /\ state[i] # "FREE"
    /\ pc = "xFree" => i < NCtx
    /\ \A s \in Ctx : state[s] = "FREE" => ctxVb[s] = NoBuf

\* The list of s is with the firmware or on its way back.
InHand(s) == fwHas[s] > 0 \/ (irqPc # "idle" /\ irqCtx = s)
\* ... or will go there.
Live(s) == InHand(s) \/ state[s] = "DRV_QUEUED" \/ (pc = "qPost" /\ cur = s)

\* What vb2 and the thread agree on.
Vb2Agrees ==
    /\ \A b \in Buf : vb[b] = "queued" => ~streaming /\ pc = "idle"
    /\ pc = "idle" /\ ~(streaming /\ started) => Active = {}
    /\ pc = "cancel" => Active = {}
    /\ pc \in {"qPost", "qWait"} => streaming
    /\ pc \in {"loop", "sPost", "sWait", "sMark"} => started

\* A list is with the firmware once, and a buffer has one live context, which
\* is mapped and whose buffer the driver owns.
LiveOnce ==
    /\ \A s \in Ctx : fwHas[s] <= 1 /\ (irqPc # "idle" /\ irqCtx = s => fwHas[s] = 0)
    /\ \A s \in Ctx : Live(s) => ctxVb[s] \in Active /\ mapped[s]
    /\ \A s, t \in Ctx : Live(s) /\ Live(t) /\ ctxVb[s] = ctxVb[t] => s = t
    /\ pc = "qPost" => ~InHand(cur) /\ state[cur] = "HW_QUEUED"
    /\ irqPc = "done" => state[irqCtx] # "DRV_QUEUED"
    /\ pc = "sPost" => ~InHand(i) /\ state[i] = "DRV_QUEUED"
    /\ \A s \in Ctx : state[s] = "DRV_QUEUED" /\ InHand(s) => pc \in {"sWait", "sMark"} /\ i = s

\* The context start_streaming will take for a queued buffer is mapped; and
\* all are unless a prepare failed.
Mapped ==
    /\ \A s \in Ctx : /\ state[s] = "ALLOC" /\ ctxVb[s] \in Buf /\ vb[ctxVb[s]] = "queued"
                      /\ \A t \in Ctx : ctxVb[t] = ctxVb[s] => s <= t
                      => mapped[s]
    /\ faults = 0 => \A s \in Ctx : state[s] # "FREE" => mapped[s]

Owned == ~lost => Vb2Agrees /\ LiveOnce /\ Mapped

\* Contexts are claimed from the first, one for a buffer, and queued only while
\* the driver has the buffer.
Ordered ==
    /\ \A s \in Ctx : InDriver(s) => ctxVb[s] \in Active
    /\ irqPc = "free" => state[irqCtx] = "HW_QUEUED"
    /\ irqPc = "done" => ~InDriver(irqCtx)
    /\ pc \in {"sWait", "sMark"} => state[i] = "DRV_QUEUED"
    /\ \A s \in Ctx : state[s] # "FREE" => ctxVb[s] # NoBuf
    /\ \A s, t \in Ctx : ctxVb[s] = ctxVb[t] => s = t \/ ctxVb[s] = NoBuf
    /\ \A s, t \in Ctx : s < t /\ state[s] = "FREE" => state[t] = "FREE"

InOrder == ~lost /\ ~early => Ordered

StreamInv == TypeOK /\ Shape /\ Owned /\ InOrder

---------------------------------------------------------------------------
(* The operators of the model.                                             *)

\* The loops over h2t_bufs find the first match, if there is one.
LEMMA FirstFacts ==
    ASSUME NEW S \in SUBSET Ctx, S # {}
    PROVE  First(S) \in S /\ \A t \in S : First(S) <= t
<1> DEFINE R == OpToRel(<, Nat)
<1>1. S \subseteq Nat
  BY StreamAssumption DEF Ctx
<1>2. \A t, s \in Nat : <<t, s>> \in R <=> t < s
  BY DEF OpToRel
<1>3. IsWellFoundedOn(R, Nat)
  BY NatLessThanWellFounded
<1> HIDE DEF R
<1>4. PICK s \in S : \A t \in S : ~(<<t, s>> \in R)
  BY <1>1, <1>3, WFMin
<1>5. ASSUME NEW t \in S PROVE s <= t
  <2>1. ~(<<t, s>> \in R)
    BY <1>4
  <2>2. t \in Nat /\ s \in Nat
    BY <1>1
  <2>3. ~(t < s)
    BY <1>2, <2>1, <2>2
  <2> QED
    BY <2>2, <2>3
<1> QED
  BY <1>5 DEF First

\* There are no more active buffers than buffers.
LEMMA ActiveCount ==
    Cardinality(Buf) \in Nat /\ Cardinality(Active) \in 0 .. Cardinality(Buf)
<1>1. Active \subseteq Buf
  BY DEF Active
<1>2. IsFiniteSet(Active) /\ Cardinality(Active) <= Cardinality(Buf)
  BY <1>1, StreamAssumption, FS_Subset
<1> QED
  BY <1>2, StreamAssumption, FS_CardinalityType


\* fthd_buffer_prepare finds no context.
LEMMA PrepareNoBufsInv ==
    ASSUME StreamInv, NEW b \in Buf, PrepareNoBufs(b)
    PROVE  StreamInv'
<1> USE StreamAssumption
      DEF PrepareNoBufs, vb2Vars, ctxVars, thrVars, irqVars, histVars, vars
<1>1. TypeOK'
  BY ActiveCount DEF StreamInv, TypeOK, Ctx, Shape, ThreadPc
<1>2. Shape'
  BY DEF StreamInv, TypeOK, Ctx, Shape
<1>3. ASSUME ~lost' PROVE Vb2Agrees'
  BY <1>3 DEF StreamInv, TypeOK, Ctx, Shape, Owned, Vb2Agrees, Active
<1>4. ASSUME ~lost' PROVE LiveOnce'
  BY <1>4
    DEF StreamInv, TypeOK, Ctx, Shape, Owned, Vb2Agrees, LiveOnce, Live, InHand, Active
<1>5. ASSUME ~lost' PROVE Mapped'
  BY <1>5
    DEF StreamInv, TypeOK, Ctx, Shape, Owned, Vb2Agrees, LiveOnce, Live, InHand, Mapped,
        Active
<1>6. ASSUME ~lost', ~early' PROVE Ordered'
  BY <1>6
    DEF StreamInv, TypeOK, Ctx, Shape, Owned, Vb2Agrees, LiveOnce, Live, InHand, InOrder,
        Ordered, InDriver, Active
<1> QED
  BY <1>1, <1>2, <1>3, <1>4, <1>5, <1>6 DEF StreamInv, Owned, InOrder

\* ... or no memory.
LEMMA PrepareFailsInv ==
    ASSUME StreamInv, NEW b \in Buf, PrepareFails(b)
    PROVE  StreamInv'
<1> USE StreamAssumption DEF PrepareFails, vb2Vars, thrVars, irqVars, Fault, SetState
<1>0. PICK s \in Ctx :
          /\ s = First(Usable(b))
          /\ state[s] = "FREE" \/ (state[s] = "ALLOC" /\ ctxVb[s] = b)
          /\ \A t \in Ctx : state[t] = "FREE" \/ (state[t] = "ALLOC" /\ ctxVb[t] = b) => s <= t
  <2>1. Usable(b) \in SUBSET Ctx /\ Usable(b) # {}
    BY DEF Usable
  <2>2. First(Usable(b)) \in Usable(b) /\ \A t \in Usable(b) : First(Usable(b)) <= t
    BY <2>1, FirstFacts
  <2> QED
    BY <2>2 DEF Usable
<1>a. /\ state[s] = "FREE" /\ vb[b] = "dequeued" /\ pc = "idle"
      /\ state' = [state EXCEPT ![s] = "ALLOC"] /\ ctxVb' = [ctxVb EXCEPT ![s] = b]
      /\ mapped' = [mapped EXCEPT ![s] = FALSE] /\ faults < MaxFaults /\ faults' = faults + 1
  BY <1>0
<1>b. UNCHANGED <<vb2Vars, thrVars, fwHas, irqVars, lost, early, gap, misdone, crashed>>
  OBVIOUS
<1> HIDE DEF PrepareFails
<1>1. TypeOK'
  BY <1>a, <1>b, ActiveCount, <1>0 DEF StreamInv, TypeOK, Ctx, Shape, ThreadPc
<1>2. Shape'
  BY <1>a, <1>b, <1>0 DEF StreamInv, TypeOK, Ctx, Shape
<1>3. ASSUME ~lost' PROVE Vb2Agrees'
  BY <1>3, <1>a, <1>b, <1>0 DEF StreamInv, TypeOK, Ctx, Shape, Owned, Vb2Agrees, Active
<1>4. ASSUME ~lost' PROVE LiveOnce'
  BY <1>4, <1>a, <1>b, <1>0
    DEF StreamInv, TypeOK, Ctx, Shape, Owned, Vb2Agrees, LiveOnce, Live, InHand, Active
<1>5. ASSUME ~lost' PROVE Mapped'
  BY <1>5, <1>a, <1>b, <1>0
    DEF StreamInv, TypeOK, Ctx, Shape, Owned, Vb2Agrees, LiveOnce, Live, InHand, Mapped,
        Active
<1>6. ASSUME ~lost', ~early' PROVE Ordered'
  <2>1. Ordered
    BY <1>6, <1>b DEF StreamInv, InOrder
  <2>2. \A t \in Ctx : ctxVb[t] # b
    <3>1. SUFFICES ASSUME NEW t \in Ctx, ctxVb[t] = b PROVE FALSE
      OBVIOUS
    <3>2. state[t] = "ALLOC"
      BY <1>a, <2>1, <3>1 DEF StreamInv, TypeOK, Shape, Ordered, InDriver, Active
    <3>3. s < t
      BY <1>0, <1>a, <3>1, <3>2 DEF Ctx
    <3> QED
      BY <1>a, <2>1, <3>2, <3>3 DEF Ordered
  <2>3. \A u, t \in Ctx : u < t /\ state'[u] = "FREE" => state'[t] = "FREE"
    BY <1>0, <1>a, <2>1 DEF StreamInv, TypeOK, Ctx, Ordered
  <2>4. \A u, t \in Ctx : ctxVb'[u] = ctxVb'[t] => u = t \/ ctxVb'[u] = NoBuf
    BY <1>a, <2>1, <2>2 DEF StreamInv, TypeOK, Ordered
  <2>5. irqPc # "idle" => irqCtx # s
    BY <1>6, <1>a, <1>b DEF StreamInv, TypeOK, Shape, Owned, LiveOnce, Live, InHand, Active
  <2> QED
    BY <1>a, <1>b, <2>1, <2>3, <2>4, <2>5
      DEF StreamInv, TypeOK, Shape, Ordered, InDriver, Active
<1> QED
  BY <1>1, <1>2, <1>3, <1>4, <1>5, <1>6 DEF StreamInv, Owned, InOrder

\* ... or a context whose planes are missing.
LEMMA PrepareCrashesInv ==
    ASSUME StreamInv, NEW b \in Buf, PrepareCrashes(b)
    PROVE  StreamInv'
<1> USE StreamAssumption DEF PrepareCrashes, vb2Vars, ctxVars, thrVars, irqVars
<1>0. PICK s \in Ctx :
          /\ s = First(Usable(b))
          /\ state[s] = "FREE" \/ (state[s] = "ALLOC" /\ ctxVb[s] = b)
          /\ \A t \in Ctx : state[t] = "FREE" \/ (state[t] = "ALLOC" /\ ctxVb[t] = b) => s <= t
  <2>1. Usable(b) \in SUBSET Ctx /\ Usable(b) # {}
    BY DEF Usable
  <2>2. First(Usable(b)) \in Usable(b) /\ \A t \in Usable(b) : First(Usable(b)) <= t
    BY <2>1, FirstFacts
  <2> QED
    BY <2>2 DEF Usable
<1>1. TypeOK'
  BY ActiveCount, <1>0 DEF StreamInv, TypeOK, Ctx, Shape, ThreadPc
<1>2. Shape'
  <2>1. state[s] = "ALLOC" /\ ~mapped[s]
    BY <1>0
  <2>2. faults > 0
    BY <2>1 DEF StreamInv, TypeOK, Shape, Owned, Mapped
  <2> QED
    BY <2>2 DEF StreamInv, Shape
<1>3. ASSUME ~lost' PROVE Vb2Agrees'
  BY <1>3, <1>0 DEF StreamInv, TypeOK, Ctx, Shape, Owned, Vb2Agrees, Active
<1>4. ASSUME ~lost' PROVE LiveOnce'
  BY <1>4, <1>0
    DEF StreamInv, TypeOK, Ctx, Shape, Owned, Vb2Agrees, LiveOnce, Live, InHand, Active
<1>5. ASSUME ~lost' PROVE Mapped'
  BY <1>5, <1>0
    DEF StreamInv, TypeOK, Ctx, Shape, Owned, Vb2Agrees, LiveOnce, Live, InHand, Mapped,
        Active
<1>6. ASSUME ~lost', ~early' PROVE Ordered'
  BY <1>6, <1>0
    DEF StreamInv, TypeOK, Ctx, Shape, Owned, Vb2Agrees, LiveOnce, Live, InHand, InOrder,
        Ordered, InDriver, Active
<1> QED
  BY <1>1, <1>2, <1>3, <1>4, <1>5, <1>6 DEF StreamInv, Owned, InOrder

\* VIDIOC_QBUF.
LEMMA QBufInv ==
    ASSUME StreamInv, NEW b \in Buf, QBuf(b)
    PROVE  StreamInv'
<1> USE StreamAssumption DEF QBuf, irqVars, histVars
<1>0. PICK s \in Ctx :
          /\ s = First(Usable(b))
          /\ state[s] = "FREE" \/ (state[s] = "ALLOC" /\ ctxVb[s] = b)
          /\ \A t \in Ctx : state[t] = "FREE" \/ (state[t] = "ALLOC" /\ ctxVb[t] = b) => s <= t
  <2>1. Usable(b) \in SUBSET Ctx /\ Usable(b) # {}
    BY DEF Usable
  <2>2. First(Usable(b)) \in Usable(b) /\ \A t \in Usable(b) : First(Usable(b)) <= t
    BY <2>1, FirstFacts
  <2> QED
    BY <2>2 DEF Usable
<1>a. /\ vb[b] = "dequeued" /\ pc = "idle" /\ ctxVb' = [ctxVb EXCEPT ![s] = b]
      /\ mapped' = [mapped EXCEPT ![s] = TRUE]
      /\ \/ /\ ~streaming /\ vb' = [vb EXCEPT ![b] = "queued"]
            /\ state' = [state EXCEPT ![s] = "ALLOC"] /\ UNCHANGED <<pc, cur>>
         \/ /\ streaming /\ vb' = [vb EXCEPT ![b] = "active"]
            /\ state' = [state EXCEPT ![s] = "ALLOC"]
            /\ pc' = (IF started THEN "idle" ELSE "start") /\ UNCHANGED cur
         \/ /\ streaming /\ vb' = [vb EXCEPT ![b] = "active"]
            /\ state' = [state EXCEPT ![s] = "HW_QUEUED"] /\ pc' = "qPost" /\ cur' = s
  <2> DEFINE ct == [ctxVb EXCEPT ![s] = b]
             st == [state EXCEPT ![s] = "ALLOC"]
             q  == First({t \in Ctx : ct[t] = b})
  <2>1. ct[s] = b /\ st[s] = "ALLOC"
    BY DEF StreamInv, TypeOK
  <2>2. q \in {t \in Ctx : ct[t] = b} /\ \A t \in {u \in Ctx : ct[u] = b} : q <= t
    <3>1. {t \in Ctx : ct[t] = b} \in SUBSET Ctx /\ {t \in Ctx : ct[t] = b} # {}
      BY <2>1
    <3> QED
      BY <3>1, FirstFacts
  <2>3. st[q] = "ALLOC" => q = s
    <3>1. SUFFICES ASSUME st[q] = "ALLOC", q # s PROVE FALSE
      OBVIOUS
    <3>2. q \in Ctx /\ ct[q] = b /\ q <= s
      BY <2>1, <2>2
    <3> HIDE DEF q
    <3>3. ctxVb[q] = b /\ state[q] = "ALLOC"
      BY <3>1, <3>2 DEF StreamInv, TypeOK
    <3>4. s <= q
      BY <1>0, <3>2, <3>3
    <3> QED
      BY <3>1, <3>2, <3>4 DEF Ctx
  <2>4. ~Ignored(b, st, ct) => st[q] = "ALLOC"
    BY DEF Ignored
  <2>5. st[q] = "ALLOC" => [st EXCEPT ![q] = "HW_QUEUED"] = [state EXCEPT ![s] = "HW_QUEUED"]
    BY <2>3 DEF StreamInv, TypeOK
  <2> HIDE DEF q
  <2> QED
    BY <1>0, <2>3, <2>4, <2>5 DEF q
<1>b. UNCHANGED <<streaming, started, i, count, fwHas, irqVars, histVars>>
  OBVIOUS
<1> HIDE DEF QBuf
<1>1. TypeOK'
  BY <1>a, <1>b, ActiveCount, <1>0 DEF StreamInv, TypeOK, Ctx, Shape, ThreadPc
<1>2. Shape'
  BY <1>a, <1>b, <1>0 DEF StreamInv, TypeOK, Ctx, Shape
<1>3. ASSUME ~lost' PROVE Vb2Agrees'
  BY <1>3, <1>a, <1>b, <1>0 DEF StreamInv, TypeOK, Ctx, Shape, Owned, Vb2Agrees, Active
<1>4. ASSUME ~lost' PROVE LiveOnce'
  <2>1. LiveOnce /\ Vb2Agrees
    BY <1>4, <1>b DEF StreamInv, Owned
  <2>2. ~Live(s) /\ \A t \in Ctx : Live(t) => ctxVb[t] # b
    BY <1>0, <1>a, <2>1 DEF StreamInv, TypeOK, Shape, LiveOnce, Active
  <2>3. \A t \in Ctx : t # s => (Live(t)' <=> Live(t)) /\ ctxVb'[t] = ctxVb[t] /\ mapped'[t] = mapped[t]
    BY <1>a, <1>b DEF StreamInv, TypeOK, Live, InHand
  <2>4. \A c \in Buf : c # b => (c \in Active' <=> c \in Active)
    BY <1>a DEF StreamInv, TypeOK, Active
  <2>5. Live(s)' => b \in Active'
    BY <1>a, <1>b, <2>2 DEF StreamInv, TypeOK, Active, Live, InHand
  <2>6. ctxVb'[s] = b /\ mapped'[s]
    BY <1>a DEF StreamInv, TypeOK
  <2>7. \A t \in Ctx : Live(t)' => ctxVb'[t] \in Active' /\ mapped'[t]
    BY <2>1, <2>2, <2>3, <2>4, <2>5, <2>6 DEF LiveOnce, Active
  <2>8. \A t, u \in Ctx : Live(t)' /\ Live(u)' /\ ctxVb'[t] = ctxVb'[u] => t = u
    BY <2>1, <2>2, <2>3, <2>6 DEF LiveOnce
  <2>9. /\ pc' = "qPost" => ~InHand(cur)' /\ state'[cur'] = "HW_QUEUED"
        /\ irqPc' = "done" => state'[irqCtx'] # "DRV_QUEUED"
        /\ \A t \in Ctx : state'[t] = "DRV_QUEUED" /\ InHand(t)' => FALSE
    BY <1>a, <1>b, <2>1, <2>2 DEF StreamInv, TypeOK, LiveOnce, Live, InHand
  <2> QED
    BY <1>a, <1>b, <2>1, <2>7, <2>8, <2>9 DEF LiveOnce
<1>5. ASSUME ~lost' PROVE Mapped'
  <2>1. Mapped /\ Vb2Agrees
    BY <1>5, <1>b DEF StreamInv, Owned
  <2>2. ASSUME NEW t \in Ctx, state'[t] = "ALLOC", ctxVb'[t] \in Buf, vb'[ctxVb'[t]] = "queued",
               \A u \in Ctx : ctxVb'[u] = ctxVb'[t] => t <= u
        PROVE  mapped'[t]
    <3>1. CASE t = s
      BY <1>a, <3>1 DEF StreamInv, TypeOK
    <3>2. CASE t # s /\ ctxVb[t] = b
      <4>1. state[t] = "ALLOC" /\ ctxVb'[t] = b /\ ctxVb'[s] = b
        BY <1>a, <2>2, <3>2 DEF StreamInv, TypeOK
      <4>2. s <= t
        BY <1>0, <3>2, <4>1
      <4>3. t <= s
        BY <2>2, <4>1
      <4> QED
        BY <3>2, <4>2, <4>3 DEF Ctx
    <3>3. CASE t # s /\ ctxVb[t] # b
      <4>1. /\ state[t] = "ALLOC" /\ ctxVb[t] \in Buf /\ vb[ctxVb[t]] = "queued"
            /\ ctxVb'[t] = ctxVb[t] /\ mapped'[t] = mapped[t]
        BY <1>a, <2>2, <3>3 DEF StreamInv, TypeOK
      <4>2. ASSUME NEW u \in Ctx, ctxVb[u] = ctxVb[t] PROVE t <= u
        <5>1. u # s
          BY <1>0, <3>3, <4>1, <4>2, StreamAssumption DEF StreamInv, Shape
        <5> QED
          BY <1>a, <2>2, <4>1, <4>2, <5>1 DEF StreamInv, TypeOK
      <4> QED
        BY <2>1, <4>1, <4>2 DEF Mapped
    <3> QED
      BY <3>1, <3>2, <3>3
  <2>3. faults' = 0 => \A t \in Ctx : state'[t] # "FREE" => mapped'[t]
    BY <1>a, <1>b, <2>1 DEF StreamInv, TypeOK, Mapped
  <2> QED
    BY <2>2, <2>3 DEF Mapped
<1>6. ASSUME ~lost', ~early' PROVE Ordered'
  <2>1. Ordered /\ LiveOnce
    BY <1>6, <1>b DEF StreamInv, InOrder, Owned
  <2>2. \A t \in Ctx : ctxVb[t] = b => t = s
    <3>1. SUFFICES ASSUME NEW t \in Ctx, ctxVb[t] = b, t # s PROVE FALSE
      OBVIOUS
    <3>2. state[t] = "ALLOC"
      BY <1>a, <2>1, <3>1 DEF StreamInv, TypeOK, Shape, Ordered, InDriver, Active
    <3>3. s < t
      BY <1>0, <3>1, <3>2 DEF Ctx
    <3> QED
      BY <1>0, <2>1, <3>1, <3>2, <3>3 DEF Ordered
  <2>3. \A u, t \in Ctx : u < t /\ state'[u] = "FREE" => state'[t] = "FREE"
    <3>1. SUFFICES ASSUME NEW u \in Ctx, NEW t \in Ctx, u < t, state'[u] = "FREE"
                   PROVE  state'[t] = "FREE"
      OBVIOUS
    <3>2. u # s /\ state[u] = "FREE"
      BY <1>a, <3>1 DEF StreamInv, TypeOK
    <3>3. s <= u /\ s # t
      BY <1>0, <3>1, <3>2 DEF Ctx
    <3>4. state[t] = "FREE" /\ state'[t] = state[t]
      BY <1>a, <2>1, <3>1, <3>2, <3>3 DEF StreamInv, TypeOK, Ordered
    <3> QED
      BY <3>4
  <2>4. \A u, t \in Ctx : ctxVb'[u] = ctxVb'[t] => u = t \/ ctxVb'[u] = NoBuf
    BY <1>a, <2>1, <2>2 DEF StreamInv, TypeOK, Ordered
  <2>5. irqPc # "idle" => irqCtx # s
    BY <1>0, <1>a, <2>1 DEF StreamInv, TypeOK, Shape, LiveOnce, Live, InHand, Active
  <2>6. \A t \in Ctx : (state'[t] \in {"DRV_QUEUED", "HW_QUEUED"}) => ctxVb'[t] \in Active'
    BY <1>0, <1>a, <2>1 DEF StreamInv, TypeOK, Shape, Ordered, InDriver, Active
  <2>7. \A t \in Ctx : state'[t] # "FREE" => ctxVb'[t] # NoBuf
    BY <1>a, <2>1 DEF StreamInv, TypeOK, Ordered
  <2> QED
    BY <1>a, <1>b, <2>1, <2>3, <2>4, <2>5, <2>6, <2>7
      DEF StreamInv, TypeOK, Ordered, InDriver
<1> QED
  BY <1>1, <1>2, <1>3, <1>4, <1>5, <1>6 DEF StreamInv, Owned, InOrder

\* fthd_buffer_queue sends the list,
LEMMA QueuePostInv ==
    ASSUME StreamInv, QueuePost
    PROVE  StreamInv'
<1> USE StreamAssumption DEF QueuePost, vb2Vars, ctxVars, irqVars, Post, Fault, Goto
<1>1. TypeOK'
  <2>1. faults' \in 0 .. MaxFaults
    BY DEF StreamInv, TypeOK, Ctx, Shape, ThreadPc
  <2>2. lost' \in BOOLEAN
    BY DEF StreamInv, TypeOK, Ctx, Shape, ThreadPc
  <2>3. fwHas' \in [Ctx -> Nat]
    BY DEF StreamInv, TypeOK, Ctx, Shape, ThreadPc
  <2>4. pc' \in ThreadPc
    BY DEF StreamInv, TypeOK, Ctx, Shape, ThreadPc
  <2> QED
    BY <2>1, <2>2, <2>3, <2>4, ActiveCount DEF StreamInv, TypeOK, Ctx, ThreadPc
<1>2. Shape'
  BY DEF StreamInv, TypeOK, Ctx, Shape
<1>3. ASSUME ~lost' PROVE Vb2Agrees'
  BY <1>3 DEF StreamInv, TypeOK, Ctx, Shape, Owned, Vb2Agrees, Active
<1>4. ASSUME ~lost' PROVE LiveOnce'
  <2>1. LiveOnce /\ lost' = FALSE /\ lost = FALSE
    BY <1>4 DEF StreamInv, TypeOK, Owned
  <2>2. pc' = "qWait" /\ fwHas' = [fwHas EXCEPT ![cur] = @ + 1]
    BY <2>1 DEF StreamInv, TypeOK
  <2>3. UNCHANGED <<vb, state, ctxVb, mapped, i, cur, irqPc, irqCtx>> /\ pc = "qPost"
    OBVIOUS
  <2>4. cur \in Ctx /\ fwHas[cur] = 0 /\ fwHas'[cur] = 1 /\ ~(irqPc # "idle" /\ irqCtx = cur) /\ Live(cur)
    BY <2>1, <2>2, <2>3 DEF StreamInv, TypeOK, Shape, Ctx, LiveOnce, Live, InHand
  <2> HIDE DEF QueuePost
  <2>5. \A s \in Ctx : /\ Live(s)' => Live(s)
                       /\ InHand(s)' => InHand(s) \/ s = cur
                       /\ s # cur => fwHas'[s] = fwHas[s]
    BY <2>2, <2>3, <2>4 DEF StreamInv, TypeOK, Live, InHand
  <2> QED
    BY <2>1, <2>2, <2>3, <2>4, <2>5 DEF LiveOnce, Active
<1>5. ASSUME ~lost' PROVE Mapped'
  BY <1>5
    DEF StreamInv, TypeOK, Ctx, Shape, Owned, Vb2Agrees, LiveOnce, Live, InHand, Mapped,
        Active
<1>6. ASSUME ~lost', ~early' PROVE Ordered'
  BY <1>6
    DEF StreamInv, TypeOK, Ctx, Shape, Owned, Vb2Agrees, LiveOnce, Live, InHand, InOrder,
        Ordered, InDriver, Active
<1> QED
  BY <1>1, <1>2, <1>3, <1>4, <1>5, <1>6 DEF StreamInv, Owned, InOrder

\* ... waits for the answer,
LEMMA QueueWaitInv ==
    ASSUME StreamInv, QueueWait
    PROVE  StreamInv'
<1> USE StreamAssumption
      DEF QueueWait, vb2Vars, ctxVars, irqVars, Wait, AfterQueue, Fault, Goto
<1>1. TypeOK'
  <2>1. faults' \in 0 .. MaxFaults
    BY DEF StreamInv, TypeOK
  <2>2. lost' \in BOOLEAN
    BY DEF StreamInv, TypeOK
  <2> QED
    BY <2>1, <2>2, ActiveCount DEF StreamInv, TypeOK, Ctx, ThreadPc
<1>2. Shape'
  BY DEF StreamInv, TypeOK, Ctx, Shape
<1>3. ASSUME ~lost' PROVE Vb2Agrees'
  BY <1>3 DEF StreamInv, TypeOK, Ctx, Shape, Owned, Vb2Agrees, Active
<1>4. ASSUME ~lost' PROVE LiveOnce'
  BY <1>4
    DEF StreamInv, TypeOK, Ctx, Shape, Owned, Vb2Agrees, LiveOnce, Live, InHand, Active
<1>5. ASSUME ~lost' PROVE Mapped'
  BY <1>5
    DEF StreamInv, TypeOK, Ctx, Shape, Owned, Vb2Agrees, LiveOnce, Live, InHand, Mapped,
        Active
<1>6. ASSUME ~lost', ~early' PROVE Ordered'
  BY <1>6
    DEF StreamInv, TypeOK, Ctx, Shape, Owned, Vb2Agrees, LiveOnce, Live, InHand, InOrder,
        Ordered, InDriver, Active
<1> QED
  BY <1>1, <1>2, <1>3, <1>4, <1>5, <1>6 DEF StreamInv, Owned, InOrder

\* ... and gives the buffer back if there is none.
LEMMA QueueFailInv ==
    ASSUME StreamInv, QueueFail
    PROVE  StreamInv'
<1> USE StreamAssumption DEF QueueFail, irqVars, BufferDone, SetState, Goto, AfterQueue
<1>1. TypeOK'
  BY ActiveCount DEF StreamInv, TypeOK, Ctx, Shape, ThreadPc
<1>2. Shape'
  BY DEF StreamInv, TypeOK, Ctx, Shape
<1>3. ASSUME ~lost' PROVE Vb2Agrees'
  BY <1>3 DEF StreamInv, TypeOK, Ctx, Shape, Owned, Vb2Agrees, Active
<1>4. ASSUME ~lost' PROVE LiveOnce'
  BY <1>4
    DEF StreamInv, TypeOK, Ctx, Shape, Owned, Vb2Agrees, LiveOnce, Live, InHand, Active
<1>5. ASSUME ~lost' PROVE Mapped'
  BY <1>5
    DEF StreamInv, TypeOK, Ctx, Shape, Owned, Vb2Agrees, LiveOnce, Live, InHand, Mapped,
        Active
<1>6. ASSUME ~lost', ~early' PROVE Ordered'
  BY <1>6
    DEF StreamInv, TypeOK, Ctx, Shape, Owned, Vb2Agrees, LiveOnce, Live, InHand, InOrder,
        Ordered, InDriver, Active
<1> QED
  BY <1>1, <1>2, <1>3, <1>4, <1>5, <1>6 DEF StreamInv, Owned, InOrder

\* VIDIOC_DQBUF.
LEMMA DQBufInv ==
    ASSUME StreamInv, NEW b \in Buf, DQBuf(b)
    PROVE  StreamInv'
<1> USE StreamAssumption DEF DQBuf, ctxVars, thrVars, irqVars, histVars
<1>1. TypeOK'
  BY ActiveCount DEF StreamInv, TypeOK, Ctx, Shape, ThreadPc
<1>2. Shape'
  BY DEF StreamInv, TypeOK, Ctx, Shape
<1>3. ASSUME ~lost' PROVE Vb2Agrees'
  BY <1>3 DEF StreamInv, TypeOK, Ctx, Shape, Owned, Vb2Agrees, Active
<1>4. ASSUME ~lost' PROVE LiveOnce'
  BY <1>4
    DEF StreamInv, TypeOK, Ctx, Shape, Owned, Vb2Agrees, LiveOnce, Live, InHand, Active
<1>5. ASSUME ~lost' PROVE Mapped'
  BY <1>5
    DEF StreamInv, TypeOK, Ctx, Shape, Owned, Vb2Agrees, LiveOnce, Live, InHand, Mapped,
        Active
<1>6. ASSUME ~lost', ~early' PROVE Ordered'
  BY <1>6
    DEF StreamInv, TypeOK, Ctx, Shape, Owned, Vb2Agrees, LiveOnce, Live, InHand, InOrder,
        Ordered, InDriver, Active
<1> QED
  BY <1>1, <1>2, <1>3, <1>4, <1>5, <1>6 DEF StreamInv, Owned, InOrder

\* VIDIOC_STREAMON.
LEMMA StreamOnInv ==
    ASSUME StreamInv, StreamOn
    PROVE  StreamInv'
<1> USE StreamAssumption DEF StreamOn, irqVars, histVars, Goto
<1>0. ASSUME NEW s \in Ctx, s = First(CtxOf(ctxVb[s]))
      PROVE  \A t \in Ctx : ctxVb[t] = ctxVb[s] => s <= t
  <2>1. CtxOf(ctxVb[s]) \in SUBSET Ctx /\ CtxOf(ctxVb[s]) # {}
    BY DEF CtxOf
  <2>2. \A t \in CtxOf(ctxVb[s]) : s <= t
    BY <1>0, <2>1, FirstFacts
  <2> QED
    BY <2>2 DEF CtxOf
<1>1. TypeOK'
  <2>1. streaming' \in BOOLEAN
    BY DEF StreamInv, TypeOK, ThreadPc
  <2>2. pc' \in ThreadPc
    BY DEF StreamInv, TypeOK, ThreadPc
  <2>3. vb' \in [Buf -> {"dequeued", "queued", "active", "done"}]
    BY DEF StreamInv, TypeOK, ThreadPc
  <2>4. state' \in [Ctx -> {"FREE", "ALLOC", "DRV_QUEUED", "HW_QUEUED"}]
    BY DEF StreamInv, TypeOK, ThreadPc
  <2> QED
    BY <2>1, <2>2, <2>3, <2>4, ActiveCount DEF StreamInv, TypeOK, Ctx, ThreadPc
<1>2. Shape'
  BY <1>0 DEF StreamInv, TypeOK, Ctx, Shape
<1>3. ASSUME ~lost' PROVE Vb2Agrees'
  BY <1>3, <1>0 DEF StreamInv, TypeOK, Ctx, Shape, Owned, Vb2Agrees, Active
<1>4. ASSUME ~lost' PROVE LiveOnce'
  <2>1. LiveOnce /\ Mapped /\ Active = {}
    BY <1>4 DEF StreamInv, TypeOK, Owned, Vb2Agrees
  <2>2. \A s \in Ctx : ~Live(s)
    BY <2>1 DEF LiveOnce
  <2>3. UNCHANGED <<ctxVb, mapped, fwHas, cur, irqPc, irqCtx>> /\ pc' \in {"idle", "start"}
    OBVIOUS
  <2>4. ASSUME NEW s \in Ctx, Live(s)'
        PROVE  /\ ctxVb[s] \in Active' /\ mapped[s]
               /\ \A t \in Ctx : ctxVb[t] = ctxVb[s] => s <= t
    <3>1. state'[s] = "DRV_QUEUED" /\ state[s] # "DRV_QUEUED"
      BY <2>2, <2>3, <2>4 DEF Live, InHand
    <3>2. ctxVb[s] \in Buf /\ vb[ctxVb[s]] = "queued" /\ state[s] = "ALLOC" /\ s = First(CtxOf(ctxVb[s]))
      BY <3>1 DEF StreamInv, TypeOK
    <3>3. vb'[ctxVb[s]] = "active"
      BY <3>1, <3>2
    <3>4. \A t \in Ctx : ctxVb[t] = ctxVb[s] => s <= t
      BY <1>0, <3>2
    <3> QED
      BY <2>1, <3>2, <3>3, <3>4 DEF Mapped, Active
  <2>5. \A s \in Ctx : ~InHand(s)' /\ fwHas[s] <= 1
    BY <2>1, <2>2, <2>3 DEF Live, InHand, LiveOnce
  <2> HIDE DEF StreamOn
  <2>6. \A s, t \in Ctx : Live(s)' /\ Live(t)' /\ ctxVb[s] = ctxVb[t] => s = t
    BY <2>4 DEF Ctx
  <2>7. irqPc' = "idle"
    BY <2>3, <2>5 DEF StreamInv, TypeOK, InHand
  <2> QED
    BY <2>3, <2>4, <2>5, <2>6, <2>7 DEF LiveOnce, InHand
<1>5. ASSUME ~lost' PROVE Mapped'
  BY <1>5, <1>0
    DEF StreamInv, TypeOK, Ctx, Shape, Owned, Vb2Agrees, LiveOnce, Live, InHand, Mapped,
        Active
<1>6. ASSUME ~lost', ~early' PROVE Ordered'
  <2>1. Ordered /\ LiveOnce /\ Active = {}
    BY <1>6 DEF StreamInv, TypeOK, InOrder, Owned, Vb2Agrees
  <2>2. \A s \in Ctx : ~InDriver(s) /\ ~InHand(s)
    BY <2>1 DEF Ordered, LiveOnce, Live
  <2>3. irqPc = "idle"
    BY <2>2 DEF StreamInv, TypeOK, InHand
  <2>4. UNCHANGED <<ctxVb, irqPc>> /\ pc' \in {"idle", "start"}
    OBVIOUS
  <2>5. \A s \in Ctx : InDriver(s)' => ctxVb[s] \in Active'
    BY <2>2 DEF StreamInv, TypeOK, InDriver, Active
  <2>6. \A s \in Ctx : state'[s] = "FREE" <=> state[s] = "FREE"
    BY DEF StreamInv, TypeOK
  <2> HIDE DEF StreamOn
  <2> QED
    BY <2>1, <2>3, <2>4, <2>5, <2>6 DEF Ordered
<1> QED
  BY <1>1, <1>2, <1>3, <1>4, <1>5, <1>6 DEF StreamInv, Owned, InOrder

\* fthd_start_channel.
LEMMA StartChannelInv ==
    ASSUME StreamInv, StartChannel
    PROVE  StreamInv'
<1> USE StreamAssumption DEF StartChannel, ctxVars, irqVars, Fault, Goto
<1>1. TypeOK'
  <2>1. i' \in 0 .. NCtx
    BY ActiveCount DEF StreamInv, TypeOK, ThreadPc
  <2>2. count' \in 0 .. Cardinality(Buf)
    BY ActiveCount DEF StreamInv, TypeOK, ThreadPc
  <2>3. pc' \in ThreadPc
    BY ActiveCount DEF StreamInv, TypeOK, ThreadPc
  <2>4. started' \in BOOLEAN
    BY ActiveCount DEF StreamInv, TypeOK, ThreadPc
  <2>5. gap' \in BOOLEAN
    BY ActiveCount DEF StreamInv, TypeOK, ThreadPc
  <2>6. faults' \in 0 .. MaxFaults
    BY ActiveCount DEF StreamInv, TypeOK, ThreadPc
  <2>7. lost' \in BOOLEAN
    BY ActiveCount DEF StreamInv, TypeOK, ThreadPc
  <2>8. vb' \in [Buf -> {"dequeued", "queued", "active", "done"}]
    BY ActiveCount DEF StreamInv, TypeOK, ThreadPc
  <2> QED
    BY <2>1, <2>2, <2>3, <2>4, <2>5, <2>6, <2>7, <2>8, ActiveCount
      DEF StreamInv, TypeOK, Ctx, ThreadPc
<1>2. Shape'
  BY DEF StreamInv, TypeOK, Ctx, Shape
<1>3. ASSUME ~lost' PROVE Vb2Agrees'
  BY <1>3 DEF StreamInv, TypeOK, Ctx, Shape, Owned, Vb2Agrees, Active
<1>4. ASSUME ~lost' PROVE LiveOnce'
  BY <1>4
    DEF StreamInv, TypeOK, Ctx, Shape, Owned, Vb2Agrees, LiveOnce, Live, InHand, Active
<1>5. ASSUME ~lost' PROVE Mapped'
  BY <1>5
    DEF StreamInv, TypeOK, Ctx, Shape, Owned, Vb2Agrees, LiveOnce, Live, InHand, Mapped,
        Active
<1>6. ASSUME ~lost', ~early' PROVE Ordered'
  BY <1>6
    DEF StreamInv, TypeOK, Ctx, Shape, Owned, Vb2Agrees, LiveOnce, Live, InHand, InOrder,
        Ordered, InDriver, Active
<1> QED
  BY <1>1, <1>2, <1>3, <1>4, <1>5, <1>6 DEF StreamInv, Owned, InOrder

\* The loop of start_streaming.
LEMMA LoopHeadInv ==
    ASSUME StreamInv, LoopHead
    PROVE  StreamInv'
<1> USE StreamAssumption DEF LoopHead, ctxVars, irqVars, histVars, Goto
<1>1. TypeOK'
  <2>1. i' \in 0 .. NCtx
    BY ActiveCount DEF StreamInv, TypeOK, ThreadPc
  <2>2. count' \in 0 .. Cardinality(Buf)
    BY ActiveCount DEF StreamInv, TypeOK, ThreadPc
  <2>3. pc' \in ThreadPc
    BY ActiveCount DEF StreamInv, TypeOK, ThreadPc
  <2>4. streaming' \in BOOLEAN
    BY ActiveCount DEF StreamInv, TypeOK, ThreadPc
  <2> QED
    BY <2>1, <2>2, <2>3, <2>4, ActiveCount DEF StreamInv, TypeOK, Ctx, ThreadPc
<1>2. Shape'
  BY DEF StreamInv, TypeOK, Ctx, Shape
<1>3. ASSUME ~lost' PROVE Vb2Agrees'
  BY <1>3 DEF StreamInv, TypeOK, Ctx, Shape, Owned, Vb2Agrees, Active
<1>4. ASSUME ~lost' PROVE LiveOnce'
  <2>1. LiveOnce
    BY <1>4 DEF StreamInv, Owned
  <2>2. UNCHANGED <<vb, fwHas, state, ctxVb, mapped, cur, irqPc, irqCtx>>
    OBVIOUS
  <2>3. \A s \in Ctx : (Live(s)' <=> Live(s)) /\ (InHand(s)' <=> InHand(s))
    BY <2>2 DEF Live, InHand
  <2>4. pc' = "sPost" => i' = i /\ i \in Ctx /\ state[i] = "DRV_QUEUED"
    BY DEF StreamInv, TypeOK, Ctx
  <2>5. \A s \in Ctx : state[s] = "DRV_QUEUED" => ~InHand(s)
    BY <2>1 DEF LiveOnce
  <2>6. pc' \in {"loop", "sPost", "idle"}
    OBVIOUS
  <2> HIDE DEF LoopHead
  <2> QED
    BY <2>1, <2>2, <2>3, <2>4, <2>5, <2>6 DEF LiveOnce, Active, InHand
<1>5. ASSUME ~lost' PROVE Mapped'
  BY <1>5
    DEF StreamInv, TypeOK, Ctx, Shape, Owned, Vb2Agrees, LiveOnce, Live, InHand, Mapped,
        Active
<1>6. ASSUME ~lost', ~early' PROVE Ordered'
  BY <1>6
    DEF StreamInv, TypeOK, Ctx, Shape, Owned, Vb2Agrees, LiveOnce, Live, InHand, InOrder,
        Ordered, InDriver, Active
<1> QED
  BY <1>1, <1>2, <1>3, <1>4, <1>5, <1>6 DEF StreamInv, Owned, InOrder

\* It sends a list,
LEMMA StartPostInv ==
    ASSUME StreamInv, StartPost
    PROVE  StreamInv'
<1> USE StreamAssumption DEF StartPost, vb2Vars, ctxVars, irqVars, Post, Fault, Goto
<1>1. TypeOK'
  <2>1. faults' \in 0 .. MaxFaults
    BY DEF StreamInv, TypeOK, Ctx, Shape, ThreadPc
  <2>2. lost' \in BOOLEAN
    BY DEF StreamInv, TypeOK, Ctx, Shape, ThreadPc
  <2>3. fwHas' \in [Ctx -> Nat]
    BY DEF StreamInv, TypeOK, Ctx, Shape, ThreadPc
  <2>4. pc' \in ThreadPc
    BY DEF StreamInv, TypeOK, Ctx, Shape, ThreadPc
  <2> QED
    BY <2>1, <2>2, <2>3, <2>4, ActiveCount DEF StreamInv, TypeOK, Ctx, ThreadPc
<1>2. Shape'
  BY DEF StreamInv, TypeOK, Ctx, Shape
<1>3. ASSUME ~lost' PROVE Vb2Agrees'
  BY <1>3 DEF StreamInv, TypeOK, Ctx, Shape, Owned, Vb2Agrees, Active
<1>4. ASSUME ~lost' PROVE LiveOnce'
  <2>1. LiveOnce /\ lost' = FALSE /\ lost = FALSE
    BY <1>4 DEF StreamInv, TypeOK, Owned
  <2>2. pc' = "sWait" /\ fwHas' = [fwHas EXCEPT ![i] = @ + 1]
    BY <2>1 DEF StreamInv, TypeOK
  <2>3. UNCHANGED <<vb, state, ctxVb, mapped, i, cur, irqPc, irqCtx>> /\ pc = "sPost"
    OBVIOUS
  <2>4. i \in Ctx /\ fwHas[i] = 0 /\ fwHas'[i] = 1 /\ ~(irqPc # "idle" /\ irqCtx = i) /\ Live(i)
    BY <2>1, <2>2, <2>3 DEF StreamInv, TypeOK, Shape, Ctx, LiveOnce, Live, InHand
  <2> HIDE DEF StartPost
  <2>5. \A s \in Ctx : /\ Live(s)' => Live(s)
                       /\ InHand(s)' => InHand(s) \/ s = i
                       /\ s # i => fwHas'[s] = fwHas[s]
    BY <2>2, <2>3, <2>4 DEF StreamInv, TypeOK, Live, InHand
  <2> QED
    BY <2>1, <2>2, <2>3, <2>4, <2>5 DEF LiveOnce, Active
<1>5. ASSUME ~lost' PROVE Mapped'
  BY <1>5
    DEF StreamInv, TypeOK, Ctx, Shape, Owned, Vb2Agrees, LiveOnce, Live, InHand, Mapped,
        Active
<1>6. ASSUME ~lost', ~early' PROVE Ordered'
  BY <1>6
    DEF StreamInv, TypeOK, Ctx, Shape, Owned, Vb2Agrees, LiveOnce, Live, InHand, InOrder,
        Ordered, InDriver, Active
<1> QED
  BY <1>1, <1>2, <1>3, <1>4, <1>5, <1>6 DEF StreamInv, Owned, InOrder

\* ... waits for the answer,
LEMMA StartWaitInv ==
    ASSUME StreamInv, StartWait
    PROVE  StreamInv'
<1> USE StreamAssumption DEF StartWait, vb2Vars, ctxVars, irqVars, Wait, Fault, Goto
<1>1. TypeOK'
  <2>1. faults' \in 0 .. MaxFaults
    BY DEF StreamInv, TypeOK
  <2>2. lost' \in BOOLEAN
    BY DEF StreamInv, TypeOK
  <2> QED
    BY <2>1, <2>2, ActiveCount DEF StreamInv, TypeOK, Ctx, ThreadPc
<1>2. Shape'
  BY DEF StreamInv, TypeOK, Ctx, Shape
<1>3. ASSUME ~lost' PROVE Vb2Agrees'
  BY <1>3 DEF StreamInv, TypeOK, Ctx, Shape, Owned, Vb2Agrees, Active
<1>4. ASSUME ~lost' PROVE LiveOnce'
  BY <1>4
    DEF StreamInv, TypeOK, Ctx, Shape, Owned, Vb2Agrees, LiveOnce, Live, InHand, Active
<1>5. ASSUME ~lost' PROVE Mapped'
  BY <1>5
    DEF StreamInv, TypeOK, Ctx, Shape, Owned, Vb2Agrees, LiveOnce, Live, InHand, Mapped,
        Active
<1>6. ASSUME ~lost', ~early' PROVE Ordered'
  BY <1>6
    DEF StreamInv, TypeOK, Ctx, Shape, Owned, Vb2Agrees, LiveOnce, Live, InHand, InOrder,
        Ordered, InDriver, Active
<1> QED
  BY <1>1, <1>2, <1>3, <1>4, <1>5, <1>6 DEF StreamInv, Owned, InOrder

\* ... and gives the buffer back if there is none.
LEMMA StartFailInv ==
    ASSUME StreamInv, StartFail
    PROVE  StreamInv'
<1> USE StreamAssumption DEF StartFail, irqVars, BufferDone, SetState, Goto
<1>1. TypeOK'
  BY ActiveCount DEF StreamInv, TypeOK, Ctx, Shape, ThreadPc
<1>2. Shape'
  BY DEF StreamInv, TypeOK, Ctx, Shape
<1>3. ASSUME ~lost' PROVE Vb2Agrees'
  BY <1>3 DEF StreamInv, TypeOK, Ctx, Shape, Owned, Vb2Agrees, Active
<1>4. ASSUME ~lost' PROVE LiveOnce'
  BY <1>4
    DEF StreamInv, TypeOK, Ctx, Shape, Owned, Vb2Agrees, LiveOnce, Live, InHand, Active
<1>5. ASSUME ~lost' PROVE Mapped'
  BY <1>5
    DEF StreamInv, TypeOK, Ctx, Shape, Owned, Vb2Agrees, LiveOnce, Live, InHand, Mapped,
        Active
<1>6. ASSUME ~lost', ~early' PROVE Ordered'
  BY <1>6
    DEF StreamInv, TypeOK, Ctx, Shape, Owned, Vb2Agrees, LiveOnce, Live, InHand, InOrder,
        Ordered, InDriver, Active
<1> QED
  BY <1>1, <1>2, <1>3, <1>4, <1>5, <1>6 DEF StreamInv, Owned, InOrder

\* In either case the context is marked.
LEMMA StartMarkInv ==
    ASSUME StreamInv, StartMark
    PROVE  StreamInv'
<1> USE StreamAssumption DEF StartMark, vb2Vars, irqVars, histVars, SetState, Goto
<1>1. TypeOK'
  BY ActiveCount DEF StreamInv, TypeOK, Ctx, Shape, ThreadPc
<1>2. Shape'
  BY DEF StreamInv, TypeOK, Ctx, Shape
<1>3. ASSUME ~lost' PROVE Vb2Agrees'
  BY <1>3 DEF StreamInv, TypeOK, Ctx, Shape, Owned, Vb2Agrees, Active
<1>4. ASSUME ~lost' PROVE LiveOnce'
  BY <1>4
    DEF StreamInv, TypeOK, Ctx, Shape, Owned, Vb2Agrees, LiveOnce, Live, InHand, Active
<1>5. ASSUME ~lost' PROVE Mapped'
  <2>1. Mapped /\ LiveOnce /\ Vb2Agrees
    BY <1>5 DEF StreamInv, Owned
  <2>2. i \in Ctx /\ \A t \in Ctx : state'[t] = IF t = i THEN "HW_QUEUED" ELSE state[t]
    BY DEF StreamInv, TypeOK, Shape, Ctx
  <2>3. UNCHANGED <<vb, ctxVb, mapped, faults>>
    OBVIOUS
  <2>4. state[i] # "FREE"
    BY DEF StreamInv, Shape
  <2> HIDE DEF StartMark
  <2>5. \A t \in Ctx : state'[t] = "ALLOC" => state[t] = "ALLOC"
    BY <2>2
  <2>6. \A t \in Ctx : state'[t] # "FREE" => state[t] # "FREE"
    BY <2>2, <2>4
  <2> QED
    BY <2>1, <2>3, <2>5, <2>6 DEF Mapped
<1>6. ASSUME ~lost', ~early' PROVE Ordered'
  <2>1. Ordered
    BY <1>6 DEF StreamInv, InOrder
  <2>2. i \in Ctx /\ state[i] = "DRV_QUEUED"
    BY <2>1 DEF StreamInv, TypeOK, Shape, Ctx, Ordered
  <2>3. \A t \in Ctx : state'[t] = IF t = i THEN "HW_QUEUED" ELSE state[t]
    BY <2>2 DEF StreamInv, TypeOK
  <2>4. UNCHANGED <<vb, ctxVb, irqPc, irqCtx>> /\ pc' = "loop" /\ irqCtx \in Ctx
    BY DEF StreamInv, TypeOK
  <2> HIDE DEF StartMark
  <2> QED
    BY <2>1, <2>2, <2>3, <2>4 DEF Ordered, InDriver, Active
<1> QED
  BY <1>1, <1>2, <1>3, <1>4, <1>5, <1>6 DEF StreamInv, Owned, InOrder

\* VIDIOC_STREAMOFF.
LEMMA StreamOffInv ==
    ASSUME StreamInv, StreamOff
    PROVE  StreamInv'
<1> USE StreamAssumption DEF StreamOff, vb2Vars, ctxVars, irqVars, histVars, Goto
<1>1. TypeOK'
  BY ActiveCount DEF StreamInv, TypeOK, Ctx, Shape, ThreadPc
<1>2. Shape'
  BY DEF StreamInv, TypeOK, Ctx, Shape
<1>3. ASSUME ~lost' PROVE Vb2Agrees'
  BY <1>3 DEF StreamInv, TypeOK, Ctx, Shape, Owned, Vb2Agrees, Active
<1>4. ASSUME ~lost' PROVE LiveOnce'
  BY <1>4
    DEF StreamInv, TypeOK, Ctx, Shape, Owned, Vb2Agrees, LiveOnce, Live, InHand, Active
<1>5. ASSUME ~lost' PROVE Mapped'
  BY <1>5
    DEF StreamInv, TypeOK, Ctx, Shape, Owned, Vb2Agrees, LiveOnce, Live, InHand, Mapped,
        Active
<1>6. ASSUME ~lost', ~early' PROVE Ordered'
  BY <1>6
    DEF StreamInv, TypeOK, Ctx, Shape, Owned, Vb2Agrees, LiveOnce, Live, InHand, InOrder,
        Ordered, InDriver, Active
<1> QED
  BY <1>1, <1>2, <1>3, <1>4, <1>5, <1>6 DEF StreamInv, Owned, InOrder

\* fthd_stop_channel.
LEMMA StopChannelInv ==
    ASSUME StreamInv, StopChannel
    PROVE  StreamInv'
<1> USE StreamAssumption DEF StopChannel, vb2Vars, ctxVars, irqVars, Fault, Goto
<1>1. TypeOK'
  <2>1. faults' \in 0 .. MaxFaults
    BY DEF StreamInv, TypeOK
  <2>2. lost' \in BOOLEAN
    BY DEF StreamInv, TypeOK
  <2> QED
    BY <2>1, <2>2, ActiveCount DEF StreamInv, TypeOK, Ctx, ThreadPc
<1>2. Shape'
  BY DEF StreamInv, TypeOK, Ctx, Shape
<1>3. ASSUME ~lost' PROVE Vb2Agrees'
  BY <1>3 DEF StreamInv, TypeOK, Ctx, Shape, Owned, Vb2Agrees, Active
<1>4. ASSUME ~lost' PROVE LiveOnce'
  BY <1>4
    DEF StreamInv, TypeOK, Ctx, Shape, Owned, Vb2Agrees, LiveOnce, Live, InHand, Active
<1>5. ASSUME ~lost' PROVE Mapped'
  BY <1>5
    DEF StreamInv, TypeOK, Ctx, Shape, Owned, Vb2Agrees, LiveOnce, Live, InHand, Mapped,
        Active
<1>6. ASSUME ~lost', ~early' PROVE Ordered'
  BY <1>6
    DEF StreamInv, TypeOK, Ctx, Shape, Owned, Vb2Agrees, LiveOnce, Live, InHand, InOrder,
        Ordered, InDriver, Active
<1> QED
  BY <1>1, <1>2, <1>3, <1>4, <1>5, <1>6 DEF StreamInv, Owned, InOrder

\* vb2_wait_for_all_buffers.
LEMMA StopWaitInv ==
    ASSUME StreamInv, StopWait
    PROVE  StreamInv'
<1> USE StreamAssumption DEF StopWait, vb2Vars, ctxVars, irqVars, histVars, Goto
<1>1. TypeOK'
  BY ActiveCount DEF StreamInv, TypeOK, Ctx, Shape, ThreadPc
<1>2. Shape'
  BY DEF StreamInv, TypeOK, Ctx, Shape
<1>3. ASSUME ~lost' PROVE Vb2Agrees'
  BY <1>3 DEF StreamInv, TypeOK, Ctx, Shape, Owned, Vb2Agrees, Active
<1>4. ASSUME ~lost' PROVE LiveOnce'
  BY <1>4
    DEF StreamInv, TypeOK, Ctx, Shape, Owned, Vb2Agrees, LiveOnce, Live, InHand, Active
<1>5. ASSUME ~lost' PROVE Mapped'
  BY <1>5
    DEF StreamInv, TypeOK, Ctx, Shape, Owned, Vb2Agrees, LiveOnce, Live, InHand, Mapped,
        Active
<1>6. ASSUME ~lost', ~early' PROVE Ordered'
  BY <1>6
    DEF StreamInv, TypeOK, Ctx, Shape, Owned, Vb2Agrees, LiveOnce, Live, InHand, InOrder,
        Ordered, InDriver, Active
<1> QED
  BY <1>1, <1>2, <1>3, <1>4, <1>5, <1>6 DEF StreamInv, Owned, InOrder

\* The buffers are taken from a firmware that does not answer.
LEMMA GiveBackInv ==
    ASSUME StreamInv, GiveBack
    PROVE  StreamInv'
<1> USE StreamAssumption DEF GiveBack, ctxVars, irqVars, BufferDone, Goto
<1>1. TypeOK'
  <2>1. i' \in 0 .. NCtx
    BY DEF StreamInv, TypeOK, ThreadPc
  <2>2. pc' \in ThreadPc
    BY DEF StreamInv, TypeOK, ThreadPc
  <2>3. misdone' \in BOOLEAN
    BY DEF StreamInv, TypeOK, ThreadPc
  <2>4. vb' \in [Buf -> {"dequeued", "queued", "active", "done"}]
    BY DEF StreamInv, TypeOK, ThreadPc
  <2> QED
    BY <2>1, <2>2, <2>3, <2>4, ActiveCount DEF StreamInv, TypeOK, Ctx, ThreadPc
<1>2. Shape'
  BY DEF StreamInv, TypeOK, Ctx, Shape
<1>3. ASSUME ~lost' PROVE Vb2Agrees'
  BY <1>3 DEF StreamInv, TypeOK, Ctx, Shape, Owned, Vb2Agrees, Active
<1>4. ASSUME ~lost' PROVE LiveOnce'
  BY <1>4
    DEF StreamInv, TypeOK, Ctx, Shape, Owned, Vb2Agrees, LiveOnce, Live, InHand, Active
<1>5. ASSUME ~lost' PROVE Mapped'
  BY <1>5
    DEF StreamInv, TypeOK, Ctx, Shape, Owned, Vb2Agrees, LiveOnce, Live, InHand, Mapped,
        Active
<1>6. ASSUME ~lost', ~early' PROVE Ordered'
  BY <1>6
    DEF StreamInv, TypeOK, Ctx, Shape, Owned, Vb2Agrees, LiveOnce, Live, InHand, InOrder,
        Ordered, InDriver, Active
<1> QED
  BY <1>1, <1>2, <1>3, <1>4, <1>5, <1>6 DEF StreamInv, Owned, InOrder

\* ... and their contexts.
LEMMA GiveBackFreeInv ==
    ASSUME StreamInv, GiveBackFree
    PROVE  StreamInv'
<1> USE StreamAssumption DEF GiveBackFree, vb2Vars, irqVars, histVars, SetState, Goto
<1>1. TypeOK'
  BY ActiveCount DEF StreamInv, TypeOK, Ctx, Shape, ThreadPc
<1>2. Shape'
  BY DEF StreamInv, TypeOK, Ctx, Shape
<1>3. ASSUME ~lost' PROVE Vb2Agrees'
  BY <1>3 DEF StreamInv, TypeOK, Ctx, Shape, Owned, Vb2Agrees, Active
<1>4. ASSUME ~lost' PROVE LiveOnce'
  BY <1>4
    DEF StreamInv, TypeOK, Ctx, Shape, Owned, Vb2Agrees, LiveOnce, Live, InHand, Active
<1>5. ASSUME ~lost' PROVE Mapped'
  BY <1>5
    DEF StreamInv, TypeOK, Ctx, Shape, Owned, Vb2Agrees, LiveOnce, Live, InHand, Mapped,
        Active
<1>6. ASSUME ~lost', ~early' PROVE Ordered'
  BY <1>6
    DEF StreamInv, TypeOK, Ctx, Shape, Owned, Vb2Agrees, LiveOnce, Live, InHand, InOrder,
        Ordered, InDriver, Active
<1> QED
  BY <1>1, <1>2, <1>3, <1>4, <1>5, <1>6 DEF StreamInv, Owned, InOrder

\* __vb2_queue_cancel.
LEMMA CancelInv ==
    ASSUME StreamInv, Cancel
    PROVE  StreamInv'
<1> USE StreamAssumption DEF Cancel, ctxVars, irqVars, histVars, Goto
<1>1. TypeOK'
  BY ActiveCount DEF StreamInv, TypeOK, Ctx, Shape, ThreadPc
<1>2. Shape'
  BY DEF StreamInv, TypeOK, Ctx, Shape
<1>3. ASSUME ~lost' PROVE Vb2Agrees'
  BY <1>3 DEF StreamInv, TypeOK, Ctx, Shape, Owned, Vb2Agrees, Active
<1>4. ASSUME ~lost' PROVE LiveOnce'
  BY <1>4
    DEF StreamInv, TypeOK, Ctx, Shape, Owned, Vb2Agrees, LiveOnce, Live, InHand, Active
<1>5. ASSUME ~lost' PROVE Mapped'
  BY <1>5
    DEF StreamInv, TypeOK, Ctx, Shape, Owned, Vb2Agrees, LiveOnce, Live, InHand, Mapped,
        Active
<1>6. ASSUME ~lost', ~early' PROVE Ordered'
  BY <1>6
    DEF StreamInv, TypeOK, Ctx, Shape, Owned, Vb2Agrees, LiveOnce, Live, InHand, InOrder,
        Ordered, InDriver, Active
<1> QED
  BY <1>1, <1>2, <1>3, <1>4, <1>5, <1>6 DEF StreamInv, Owned, InOrder

\* fthd_buffer_cleanup.
LEMMA CleanupInv ==
    ASSUME StreamInv, Cleanup
    PROVE  StreamInv'
<1> USE StreamAssumption DEF Cleanup, thrVars, irqVars, histVars
<1>1. TypeOK'
  BY ActiveCount DEF StreamInv, TypeOK, Ctx, Shape, ThreadPc
<1>2. Shape'
  BY DEF StreamInv, TypeOK, Ctx, Shape
<1>3. ASSUME ~lost' PROVE Vb2Agrees'
  BY <1>3 DEF StreamInv, TypeOK, Ctx, Shape, Owned, Vb2Agrees, Active
<1>4. ASSUME ~lost' PROVE LiveOnce'
  BY <1>4
    DEF StreamInv, TypeOK, Ctx, Shape, Owned, Vb2Agrees, LiveOnce, Live, InHand, Active
<1>5. ASSUME ~lost' PROVE Mapped'
  BY <1>5
    DEF StreamInv, TypeOK, Ctx, Shape, Owned, Vb2Agrees, LiveOnce, Live, InHand, Mapped,
        Active
<1>6. ASSUME ~lost', ~early' PROVE Ordered'
  <2>1. Ordered /\ LiveOnce /\ Active = {}
    BY <1>6 DEF StreamInv, TypeOK, InOrder, Owned, Vb2Agrees
  <2>2. ASSUME NEW s \in Ctx, ctxVb[s] # NoBuf
        PROVE  s = First(CtxOf(ctxVb[s]))
    <3>1. CtxOf(ctxVb[s]) \in SUBSET Ctx /\ CtxOf(ctxVb[s]) # {}
      BY DEF CtxOf
    <3>2. First(CtxOf(ctxVb[s])) \in CtxOf(ctxVb[s])
      BY <3>1, FirstFacts
    <3> QED
      BY <2>1, <2>2, <3>2 DEF CtxOf, Ordered
  <2>3. \A s \in Ctx : state'[s] = "FREE" /\ ctxVb'[s] = NoBuf
    BY <2>1, <2>2 DEF StreamInv, TypeOK, Shape, Ordered
  <2>4. irqPc' = "idle"
    BY <2>1 DEF StreamInv, TypeOK, LiveOnce, Live, InHand
  <2>5. pc' = "idle"
    OBVIOUS
  <2> HIDE DEF Cleanup
  <2> QED
    BY <2>3, <2>4, <2>5 DEF Ordered, InDriver
<1> QED
  BY <1>1, <1>2, <1>3, <1>4, <1>5, <1>6 DEF StreamInv, Owned, InOrder

\* The firmware returns a list.
LEMMA FwReturnInv ==
    ASSUME StreamInv, NEW s \in Ctx, FwReturn(s)
    PROVE  StreamInv'
<1> USE StreamAssumption DEF FwReturn, vb2Vars, ctxVars, thrVars, histVars
<1>1. TypeOK'
  BY ActiveCount DEF StreamInv, TypeOK, Ctx, Shape, ThreadPc
<1>2. Shape'
  BY DEF StreamInv, TypeOK, Ctx, Shape
<1>3. ASSUME ~lost' PROVE Vb2Agrees'
  BY <1>3 DEF StreamInv, TypeOK, Ctx, Shape, Owned, Vb2Agrees, Active
<1>4. ASSUME ~lost' PROVE LiveOnce'
  BY <1>4
    DEF StreamInv, TypeOK, Ctx, Shape, Owned, Vb2Agrees, LiveOnce, Live, InHand, Active
<1>5. ASSUME ~lost' PROVE Mapped'
  BY <1>5
    DEF StreamInv, TypeOK, Ctx, Shape, Owned, Vb2Agrees, LiveOnce, Live, InHand, Mapped,
        Active
<1>6. ASSUME ~lost', ~early' PROVE Ordered'
  BY <1>6
    DEF StreamInv, TypeOK, Ctx, Shape, Owned, Vb2Agrees, LiveOnce, Live, InHand, InOrder,
        Ordered, InDriver, Active
<1> QED
  BY <1>1, <1>2, <1>3, <1>4, <1>5, <1>6 DEF StreamInv, Owned, InOrder

\* fthd_buffer_return_handler tests the context,
LEMMA ReturnCheckInv ==
    ASSUME StreamInv, ReturnCheck
    PROVE  StreamInv'
<1> USE StreamAssumption DEF ReturnCheck, vb2Vars, ctxVars, thrVars
<1>1. TypeOK'
  BY ActiveCount DEF StreamInv, TypeOK, Ctx, Shape, ThreadPc
<1>2. Shape'
  BY DEF StreamInv, TypeOK, Ctx, Shape
<1>3. ASSUME ~lost' PROVE Vb2Agrees'
  BY <1>3 DEF StreamInv, TypeOK, Ctx, Shape, Owned, Vb2Agrees, Active
<1>4. ASSUME ~lost' PROVE LiveOnce'
  BY <1>4
    DEF StreamInv, TypeOK, Ctx, Shape, Owned, Vb2Agrees, LiveOnce, Live, InHand, Active
<1>5. ASSUME ~lost' PROVE Mapped'
  BY <1>5
    DEF StreamInv, TypeOK, Ctx, Shape, Owned, Vb2Agrees, LiveOnce, Live, InHand, Mapped,
        Active
<1>6. ASSUME ~lost', ~early' PROVE Ordered'
  BY <1>6
    DEF StreamInv, TypeOK, Ctx, Shape, Owned, Vb2Agrees, LiveOnce, Live, InHand, InOrder,
        Ordered, InDriver, Active
<1> QED
  BY <1>1, <1>2, <1>3, <1>4, <1>5, <1>6 DEF StreamInv, Owned, InOrder

\* ... frees it,
LEMMA ReturnFreeInv ==
    ASSUME StreamInv, ReturnFree
    PROVE  StreamInv'
<1> USE StreamAssumption DEF ReturnFree, vb2Vars, thrVars, histVars, SetState
<1>1. TypeOK'
  BY ActiveCount DEF StreamInv, TypeOK, Ctx, Shape, ThreadPc
<1>2. Shape'
  BY DEF StreamInv, TypeOK, Ctx, Shape
<1>3. ASSUME ~lost' PROVE Vb2Agrees'
  BY <1>3 DEF StreamInv, TypeOK, Ctx, Shape, Owned, Vb2Agrees, Active
<1>4. ASSUME ~lost' PROVE LiveOnce'
  <2>1. LiveOnce
    BY <1>4 DEF StreamInv, Owned
  <2>2. irqCtx \in Ctx /\ \A t \in Ctx : state'[t] = IF t = irqCtx THEN "ALLOC" ELSE state[t]
    BY DEF StreamInv, TypeOK
  <2>3. UNCHANGED <<vb, ctxVb, mapped, pc, i, cur, fwHas, irqCtx>> /\ irqPc = "free" /\ irqPc' = "done"
    OBVIOUS
  <2> HIDE DEF ReturnFree
  <2>4. \A t \in Ctx : (InHand(t)' <=> InHand(t)) /\ (Live(t)' => Live(t))
    BY <2>2, <2>3 DEF Live, InHand
  <2>5. pc = "sPost" => irqCtx # i
    BY <2>1, <2>3 DEF LiveOnce, InHand
  <2>6. pc = "sPost" => i \in Ctx
    BY DEF StreamInv, TypeOK, Shape, Ctx
  <2>7. pc = "qPost" => cur \in Ctx
    BY DEF StreamInv, TypeOK
  <2>8. pc = "qPost" => irqCtx # cur
    BY <2>1, <2>3 DEF LiveOnce, InHand
  <2> QED
    BY <2>1, <2>2, <2>3, <2>4, <2>5, <2>6, <2>7, <2>8 DEF LiveOnce, Active
<1>5. ASSUME ~lost' PROVE Mapped'
  BY <1>5
    DEF StreamInv, TypeOK, Ctx, Shape, Owned, Vb2Agrees, LiveOnce, Live, InHand, Mapped,
        Active
<1>6. ASSUME ~lost', ~early' PROVE Ordered'
  <2>1. Ordered
    BY <1>6 DEF StreamInv, InOrder
  <2>2. irqCtx \in Ctx /\ \A t \in Ctx : state'[t] = IF t = irqCtx THEN "ALLOC" ELSE state[t]
    BY DEF StreamInv, TypeOK
  <2>3. UNCHANGED <<vb, ctxVb, pc, i, irqCtx>> /\ irqPc = "free" /\ irqPc' = "done"
    OBVIOUS
  <2>4. pc \in {"sWait", "sMark"} => i \in Ctx
    BY DEF StreamInv, TypeOK, Shape, Ctx
  <2> HIDE DEF ReturnFree
  <2> QED
    BY <2>1, <2>2, <2>3, <2>4 DEF Ordered, InDriver, Active
<1> QED
  BY <1>1, <1>2, <1>3, <1>4, <1>5, <1>6 DEF StreamInv, Owned, InOrder

\* ... and finishes the buffer.
LEMMA ReturnDoneInv ==
    ASSUME StreamInv, ReturnDone
    PROVE  StreamInv'
<1> USE StreamAssumption DEF ReturnDone, ctxVars, thrVars, BufferDone
<1>0. ~lost => /\ LiveOnce /\ ctxVb[irqCtx] \in Buf /\ vb[ctxVb[irqCtx]] = "active"
               /\ ctxVb[irqCtx] # NoBuf /\ irqCtx \in Ctx
  BY DEF StreamInv, TypeOK, Owned, LiveOnce, Live, InHand, Active
<1>1. TypeOK'
  BY ActiveCount, <1>0 DEF StreamInv, TypeOK, Ctx, Shape, ThreadPc
<1>2. Shape'
  BY <1>0 DEF StreamInv, TypeOK, Ctx, Shape
<1>3. ASSUME ~lost' PROVE Vb2Agrees'
  BY <1>3, <1>0 DEF StreamInv, TypeOK, Ctx, Shape, Owned, Vb2Agrees, Active
<1>4. ASSUME ~lost' PROVE LiveOnce'
  <2>1. LiveOnce /\ ctxVb[irqCtx] \in Buf /\ vb[ctxVb[irqCtx]] = "active" /\ irqCtx \in Ctx
    BY <1>0, <1>4
  <2>2. /\ vb' = [vb EXCEPT ![ctxVb[irqCtx]] = "done"]
        /\ UNCHANGED <<state, ctxVb, mapped, pc, i, cur, fwHas, irqCtx>>
        /\ irqPc = "done" /\ irqPc' = "idle"
    BY <1>0, <1>4
  <2>3. fwHas[irqCtx] = 0 /\ (pc = "qPost" => cur # irqCtx) /\ Live(irqCtx)
    BY <2>1, <2>2 DEF LiveOnce, Live, InHand
  <2>4. state[irqCtx] = "DRV_QUEUED" => pc \in {"sWait", "sMark"} /\ i = irqCtx
    BY <2>1, <2>2 DEF LiveOnce, InHand
  <2>5. state[irqCtx] # "DRV_QUEUED"
    BY <2>1, <2>2 DEF LiveOnce
  <2> HIDE DEF ReturnDone
  <2>6. \A t \in Ctx : /\ InHand(t)' => InHand(t) /\ t # irqCtx
                       /\ Live(t)' => Live(t) /\ t # irqCtx
    BY <2>2, <2>3, <2>5 DEF Live, InHand
  <2>7. \A t \in Ctx : Live(t)' => ctxVb[t] \in Active' /\ mapped[t]
    BY <2>1, <2>2, <2>3, <2>6 DEF StreamInv, TypeOK, LiveOnce, Active
  <2> QED
    BY <2>1, <2>2, <2>6, <2>7 DEF StreamInv, TypeOK, Shape, LiveOnce, Ctx
<1>5. ASSUME ~lost' PROVE Mapped'
  BY <1>5, <1>0
    DEF StreamInv, TypeOK, Ctx, Shape, Owned, Vb2Agrees, LiveOnce, Live, InHand, Mapped,
        Active
<1>6. ASSUME ~lost', ~early' PROVE Ordered'
  BY <1>6, <1>0
    DEF StreamInv, TypeOK, Ctx, Shape, Owned, Vb2Agrees, LiveOnce, Live, InHand, InOrder,
        Ordered, InDriver, Active
<1> QED
  BY <1>1, <1>2, <1>3, <1>4, <1>5, <1>6 DEF StreamInv, Owned, InOrder

---------------------------------------------------------------------------
(* The invariant, and what follows from it.                                *)

LEMMA InitInv ==
    ASSUME Init PROVE StreamInv
<1> USE StreamAssumption DEF Init
<1>1. Cardinality(Buf) \in Nat
  BY ActiveCount
<1>2. TypeOK
  <2>1. 0 \in Ctx /\ i \in 0 .. NCtx /\ count \in 0 .. Cardinality(Buf)
    BY <1>1 DEF Ctx
  <2>2. faults \in 0 .. MaxFaults
    OBVIOUS
  <2>3. {lost, early, gap, misdone, crashed} \subseteq BOOLEAN
    OBVIOUS
  <2> QED
    BY <2>1, <2>2, <2>3 DEF TypeOK, ThreadPc
<1>3. Shape
  BY DEF Shape
<1>4. Owned
  BY DEF Owned, Vb2Agrees, LiveOnce, Mapped, Live, InHand, Active
<1>5. InOrder
  BY DEF InOrder, Ordered, InDriver
<1> QED
  BY <1>2, <1>3, <1>4, <1>5 DEF StreamInv

\* A stuttering step changes nothing.
LEMMA StutterInv ==
    ASSUME StreamInv, UNCHANGED vars
    PROVE  StreamInv'
BY DEF vars, StreamInv, TypeOK, Shape, Owned, InOrder, Vb2Agrees, LiveOnce, Mapped,
       Ordered, Live, InHand, InDriver, Active

\* Every step keeps the invariant.
LEMMA StepInv ==
    ASSUME StreamInv, [Next]_vars
    PROVE  StreamInv'
<1>1. CASE Thread
  BY <1>1, QueuePostInv, QueueWaitInv, QueueFailInv, StartChannelInv, LoopHeadInv,
     StartPostInv, StartWaitInv, StartFailInv, StartMarkInv, StopChannelInv,
     StopWaitInv, GiveBackInv, GiveBackFreeInv, CancelInv DEF Thread
<1>2. CASE User
  BY <1>2, StreamOnInv, StreamOffInv, CleanupInv, PrepareNoBufsInv, PrepareFailsInv,
     PrepareCrashesInv, QBufInv, DQBufInv DEF User
<1>3. CASE Irq
  BY <1>3, ReturnCheckInv, ReturnFreeInv, ReturnDoneInv DEF Irq
<1>4. CASE Fw
  BY <1>4, FwReturnInv DEF Fw
<1>5. CASE UNCHANGED vars
  BY <1>5, StutterInv
<1> QED
  BY <1>1, <1>2, <1>3, <1>4, <1>5 DEF Next

\* StreamInv holds in every reachable state, whatever the number of buffers,
\* contexts and failures (fthd_v4l2.c).
THEOREM StreamInvariant == Spec => []StreamInv
<1>1. Init => StreamInv
  BY InitInv
<1>2. StreamInv /\ [Next]_vars => StreamInv'
  BY StepInv
<1> QED
  BY <1>1, <1>2, PTL DEF Spec

\* The variables keep their types: no index leaves h2t_bufs and count does not
\* go below zero (the loop of fthd_start_streaming).
THEOREM TypeCorrect == Spec => []TypeOK
<1>1. StreamInv => TypeOK
  BY DEF StreamInv
<1> QED
  BY <1>1, StreamInvariant, PTL

\* The vb2 callbacks and fthd_buffer_return_handler, without a common lock,
\* keep to the buffers that are theirs: BuffersOwned.
THEOREM BuffersOwnedHolds == Spec => []BuffersOwned
<1>1. ASSUME StreamInv PROVE BuffersOwned
  <2>1. FrameOwnership
    BY <1>1 DEF StreamInv, TypeOK, Owned, LiveOnce, Live, InHand, FrameOwnership
  <2>2. DoneOnce /\ CrashNeedsFailure
    BY <1>1 DEF StreamInv, Shape, DoneOnce, CrashNeedsFailure
  <2>3. ContextsAgree
    BY <1>1 DEF StreamInv, InOrder, Ordered, ContextsAgree
  <2> QED
    BY <1>1, <2>1, <2>2, <2>3 DEF StreamInv, BuffersOwned
<1> QED
  BY <1>1, StreamInvariant, PTL

\* While no send, start or stop fails, a DMA list is with the firmware or on its
\* way back for one context of a buffer at a time: the firmware never gets the
\* same buffer twice (fthd_buffer_queue against fthd_start_streaming).
ListOnce ==
    ~lost => /\ \A s \in Ctx : fwHas[s] <= 1
             /\ \A s, t \in Ctx :
                    fwHas[s] > 0 /\ fwHas[t] > 0 /\ ctxVb[s] = ctxVb[t] => s = t

\* The firmware has the list of a buffer at most once (fthd_buffer_queue, fthd_start_streaming).
THEOREM ListOnceHolds == Spec => []ListOnce
<1>1. StreamInv => ListOnce
  BY DEF StreamInv, Owned, LiveOnce, Live, InHand, ListOnce
<1> QED
  BY <1>1, StreamInvariant, PTL

\* Without a failure, what the application dequeues was finished by the driver:
\* a buffer whose list is with the firmware is never "done", "queued" or
\* "dequeued", and no thread follows a NULL pointer.
THEOREM NoFailureNoHarm ==
    Spec => [](faults = 0 => /\ ~crashed /\ ~misdone
                             /\ \A s \in Ctx : fwHas[s] > 0 => vb[ctxVb[s]] = "active")
<1>1. StreamInv => (faults = 0 =>
                        /\ ~crashed /\ ~misdone
                        /\ \A s \in Ctx : fwHas[s] > 0 => vb[ctxVb[s]] = "active")
  BY DEF StreamInv, TypeOK, Shape, Owned, LiveOnce, Live, InHand, Active
<1> QED
  BY <1>1, StreamInvariant, PTL
============================================================================
