-------------------------- MODULE BrcmMsgbufProofs --------------------------
(***************************************************************************)
(* Proofs about two parts of the message-buffer protocol.                  *)
(*                                                                         *)
(* The commands of BrcmIoctl, for any callers, any number of packet ids    *)
(* and response buffers: CommandsSeparate, by the inductive invariant      *)
(* IoctlInv.                                                               *)
(*                                                                         *)
(* The completion ring of BrcmCompletionRing, for every depth, every       *)
(* hand-back threshold and any number of messages, by the inductive        *)
(* invariant CompletionInv.                                                *)
(***************************************************************************)
EXTENDS MCBrcmMsgbuf, FiniteSetTheorems, SequenceTheorems, TLAPS

\* No request was left behind.
USE DEF I!NoneLeft

\* The instance's Cardinality is Cardinality.
LEMMA SameCardinality == \A S : I!Cardinality(S) = Cardinality(S)
BY Zenon DEF Cardinality, I!Cardinality

---------------------------------------------------------------------------
(* The order in which packet ids are given out (brcmf_msgbuf_alloc_pktid). *)

Free == I!PacketIds \ iInuse

\* The search round the array meets every id once.
LEMMA FoundOnce ==
    ASSUME iLast \in I!PacketIds, NEW p \in I!PacketIds, NEW r \in I!PacketIds
    PROVE  /\ I!Found(p) \in I!PacketIds
           /\ I!Found(p) = I!Found(r) => p = r
BY IoctlAssumption DEF I!PacketIds, I!Found

\* The free ids have the ranks from one to their number.
LEMMA RankFacts ==
    ASSUME iLast \in I!PacketIds
    PROVE  /\ IsFiniteSet(Free) /\ Cardinality(Free) \in Nat
           /\ \A p \in Free : I!Rank(p) \in 1 .. Cardinality(Free)
           /\ \A p, r \in Free : I!Rank(p) = I!Rank(r) => p = r
           /\ \A k \in 1 .. Cardinality(Free) : \E p \in Free : I!Rank(p) = k
<1> DEFINE Before(p) == {r \in Free : I!Found(r) <= I!Found(p)}
           rank == [p \in Free |-> I!Rank(p)]
           N == Cardinality(Free)
<1>1. IsFiniteSet(I!PacketIds)
  BY IoctlAssumption, FS_Interval DEF I!PacketIds
<1>2. IsFiniteSet(Free) /\ N \in Nat
  BY <1>1, FS_Subset, FS_CardinalityType DEF Free
<1>3. ASSUME NEW p \in Free
      PROVE  /\ IsFiniteSet(Before(p)) /\ I!Rank(p) = Cardinality(Before(p))
             /\ I!Rank(p) \in 1 .. N
  <2>1. IsFiniteSet(Before(p)) /\ Cardinality(Before(p)) <= N /\ Cardinality(Before(p)) \in Nat
    BY <1>2, FS_Subset, FS_CardinalityType
  <2>2. p \in Before(p)
    BY FoundOnce, IoctlAssumption DEF Free, I!PacketIds
  <2>3. Cardinality(Before(p)) # 0
    BY <2>1, <2>2, FS_EmptySet
  <2>4. I!Rank(p) = Cardinality(Before(p))
    BY SameCardinality DEF I!Rank, Free
  <2> QED
    BY <2>1, <2>3, <2>4, <1>2
<1>4. ASSUME NEW p \in Free, NEW r \in Free, I!Found(p) < I!Found(r)
      PROVE  I!Rank(p) < I!Rank(r)
  <2>1. I!Found(p) \in Int /\ I!Found(r) \in Int /\ \A b \in Free : I!Found(b) \in Int
    BY FoundOnce, IoctlAssumption DEF Free, I!PacketIds
  <2>2. Before(p) \subseteq Before(r) /\ r \in Before(r) /\ r \notin Before(p)
    BY <2>1, <1>4
  <2>3. /\ Cardinality(Before(p)) <= Cardinality(Before(r))
        /\ Cardinality(Before(p)) # Cardinality(Before(r))
    BY <2>2, <1>3, FS_Subset
  <2> QED
    BY <2>3, <1>3, <1>2
<1>5. ASSUME NEW p \in Free, NEW r \in Free, I!Rank(p) = I!Rank(r)
      PROVE  p = r
  <2>1. I!Found(p) \in Int /\ I!Found(r) \in Int
    BY FoundOnce, IoctlAssumption DEF Free, I!PacketIds
  <2>2. I!Rank(p) \in Int /\ I!Rank(r) \in Int
    <3>1. I!Rank(p) \in 1 .. N /\ I!Rank(r) \in 1 .. N
      BY <1>3
    <3> QED
      BY <3>1, <1>2
  <2>3. ~(I!Found(p) < I!Found(r)) /\ ~(I!Found(r) < I!Found(p))
    BY <2>2, <1>4, <1>5
  <2>4. I!Found(p) = I!Found(r)
    BY <2>1, <2>3
  <2> QED
    BY <2>4, FoundOnce DEF Free
<1>6. rank \in Injection(Free, 1 .. N)
  BY <1>3, <1>5 DEF Injection, IsInjective
<1>7. IsFiniteSet(1 .. N) /\ Cardinality(1 .. N) = N
  BY <1>2, FS_Interval
<1>8. rank \in Surjection(Free, 1 .. N)
  BY <1>6, <1>7, FS_Injection
<1>9. ASSUME NEW k \in 1 .. N PROVE \E p \in Free : I!Rank(p) = k
  BY <1>8 DEF Surjection
<1> HIDE DEF rank, N
<1> QED
  BY <1>2, <1>3, <1>5, <1>9 DEF N

\* What brcmf_msgbuf_rxbuf_ctrl_post adds: free ids, each once, and no more than
\* are missing.
LEMMA PostFacts ==
    ASSUME iLast \in I!PacketIds, iInuse \subseteq I!PacketIds, NEW n \in 0 .. MaxResp,
           I!PostBuffers(n), iPosted \in Seq(I!PacketIds)
    PROVE  \E new \in SUBSET Free : \E order \in Seq(I!PacketIds) :
             /\ new = {p \in Free : I!Rank(p) <= MaxResp - n}
             /\ IsFiniteSet(new) /\ Cardinality(new) = Len(order) /\ Len(order) <= MaxResp - n
             /\ \A i \in 1 .. Len(order) : order[i] \in new
             /\ \A p \in new : \E i \in 1 .. Len(order) : order[i] = p
             /\ \A i, j \in 1 .. Len(order) : order[i] = order[j] => i = j
             /\ iInuse' = iInuse \cup new
             /\ iPosted' = iPosted \o order
             /\ iCur' = n + Len(order)
             /\ iLast' = IF new = {} THEN iLast ELSE order[Len(order)]
<1> DEFINE new == {p \in I!PacketIds \ iInuse : I!Rank(p) <= I!Missing(n)}
           k == I!Cardinality(new)
           order == [i \in 1 .. k |-> CHOOSE p \in new : I!Rank(p) = i]
<1>0. n \in Nat /\ MaxResp \in Nat /\ n <= MaxResp
  BY IoctlAssumption
<1>2. /\ iInuse' = iInuse \cup new /\ iPosted' = iPosted \o order
      /\ iCur' = n + k /\ iLast' = IF new = {} THEN iLast ELSE order[Len(order)]
  BY Zenon DEF I!PostBuffers
<1>a. k = Cardinality(new) /\ new = {p \in Free : I!Rank(p) <= MaxResp - n}
  BY SameCardinality DEF I!Missing, Free
<1>1. new \in SUBSET Free /\ IsFiniteSet(new) /\ k \in Nat
  BY <1>a, RankFacts, FS_Subset, FS_CardinalityType
<1> DEFINE top == IF Cardinality(Free) <= MaxResp - n THEN Cardinality(Free) ELSE MaxResp - n
           rank == [p \in new |-> I!Rank(p)]
<1>3. top \in Nat /\ top <= MaxResp - n
  BY <1>0, RankFacts
<1>4. \A p \in new : I!Rank(p) \in 1 .. top
  BY <1>a, <1>0, RankFacts
<1>5. \A i \in 1 .. top : \E p \in new : I!Rank(p) = i
  BY <1>a, <1>0, RankFacts
<1> HIDE DEF top
<1>6. rank \in Bijection(new, 1 .. top)
  <2>1. rank \in Injection(new, 1 .. top)
    BY <1>a, <1>4, RankFacts DEF Injection, IsInjective
  <2>2. rank \in Surjection(new, 1 .. top)
    BY <1>4, <1>5 DEF Surjection
  <2> QED
    BY <2>1, <2>2 DEF Bijection
<1>7. k = top
  <2>1. ExistsBijection(new, 1 .. top)
    BY <1>6 DEF ExistsBijection
  <2>2. Cardinality(1 .. top) = k
    BY <2>1, <1>a, <1>1, FS_Bijection
  <2> QED
    BY <2>2, <1>3, FS_Interval
<1>8. \A i \in 1 .. k : order[i] \in new /\ I!Rank(order[i]) = i
  BY <1>5, <1>7
<1>9. order \in Seq(I!PacketIds) /\ Len(order) = k
  <2>1. order \in [1 .. k -> I!PacketIds]
    BY <1>a, <1>8 DEF Free
  <2> HIDE DEF order, k
  <2> QED
    BY <2>1, <1>1
<1>10. \A p \in new : \E i \in 1 .. k : order[i] = p
  <2> SUFFICES ASSUME NEW p \in new PROVE \E i \in 1 .. k : order[i] = p
    OBVIOUS
  <2>1. I!Rank(p) \in 1 .. k /\ p \in Free
    BY <1>a, <1>4, <1>7
  <2>2. order[I!Rank(p)] \in Free /\ I!Rank(order[I!Rank(p)]) = I!Rank(p)
    BY <1>a, <2>1, <1>8
  <2>3. order[I!Rank(p)] = p
    BY <2>1, <2>2, RankFacts
  <2> QED
    BY <2>1, <2>3
<1>11. \A i, j \in 1 .. k : order[i] = order[j] => i = j
  BY <1>8
<1> HIDE DEF new, k, order
<1>13. /\ k = Len(order) /\ k <= MaxResp - n /\ Cardinality(new) = Len(order)
       /\ iCur' = n + Len(order)
  BY <1>a, <1>2, <1>3, <1>7, <1>9
<1>14. /\ \A i \in 1 .. Len(order) : order[i] \in new
       /\ \A p \in new : \E i \in 1 .. Len(order) : order[i] = p
       /\ \A i, j \in 1 .. Len(order) : order[i] = order[j] => i = j
  BY <1>8, <1>9, <1>10, <1>11, <1>13
<1> QED
  BY <1>1, <1>2, <1>9, <1>a, <1>13, <1>14

---------------------------------------------------------------------------
(***************************************************************************)
(* Commands.  The inductive invariant IoctlInv has three parts: what always *)
(* holds (types, the mutex, the count of response buffers); while no       *)
(* request was left behind, the one request that is under way and where it is         *)
(* (Separate); and while the packet ids have not gone round, the order in   *)
(* which they are given out (Fresh).                                        *)
(***************************************************************************)
Answer == [req : 0 .. MaxCmds, pktid : I!PacketIds]

IoctlType ==
    /\ iOwner \in Callers \cup {None}
    /\ iPc \in [Callers -> {"idle", "locked", "send", "wait", "status"}]
    /\ iMine \in [Callers -> 0 .. MaxCmds] /\ iReqid \in 0 .. MaxCmds
    /\ iResult \in [Callers -> {None} \cup [data : 0 .. MaxCmds, status : 0 .. MaxCmds]]
    /\ iIoctbuf \in 0 .. MaxCmds /\ iRing \in Seq(0 .. MaxCmds) /\ iCompleted \in BOOLEAN
    /\ iStatus \in 0 .. MaxCmds /\ iPktid \in I!PacketIds
    /\ iIrq \in [step : {"idle", "pktid", "wake", "post"}, req : 0 .. MaxCmds,
                 pktid : I!PacketIds]
    /\ iComps \in Seq(Answer) /\ iPosted \in Seq(I!PacketIds)
    /\ iCur \in 0 .. MaxResp /\ iInuse \subseteq I!PacketIds /\ iLast \in I!PacketIds
    /\ iContent \in [I!PacketIds -> 0 .. MaxCmds] /\ iTimeouts \in 0 .. MaxTimeouts
    /\ iUnseen \in 0 .. Len(iRing) /\ iMissed \in 0 .. MaxMissed

\* One caller at a time is between taking the mutex and returning, and only one
\* that has an answer reads the status.
Mutex ==
    \A c \in Callers :
        /\ iPc[c] # "idle" <=> iOwner = c
        /\ iPc[c] \in {"locked", "send"} => iReqid < MaxCmds
        /\ iPc[c] = "status" => iResult[c] \in [data : 0 .. MaxCmds, status : 0 .. MaxCmds]

\* The interrupt thread has stored no answer that it has not announced.
AtRest == iIrq.step \in {"idle", "post"}

\* Buffer p has the answer to the last request and is the caller's to free.
Answered(p) == iContent[p] = iReqid /\ p \in iInuse /\ p \notin I!AtFirmware

\* The last request is in the ring, answered, or being reported.
Asked == iRing = <<iReqid>> /\ iIoctbuf = iReqid /\ iComps = <<>> /\ AtRest
Returned ==
    /\ iRing = <<>> /\ Len(iComps) = 1 /\ AtRest
    /\ iComps[1].req = iReqid /\ Answered(iComps[1].pktid)
Storing ==
    /\ iRing = <<>> /\ iComps = <<>> /\ ~AtRest
    /\ iStatus = iReqid /\ Answered(iIrq.pktid)
    /\ iIrq.step = "wake" => iPktid = iIrq.pktid

Waiting == ~iCompleted /\ \E c \in Callers : iPc[c] = "wait"
Woken == iCompleted /\ \E c \in Callers : iPc[c] = "wait"

\* There is a request under way when and only when somebody waits for it.
UnderWay ==
    /\ Waiting => Asked \/ Returned \/ Storing
    /\ ~Waiting => iRing = <<>> /\ iComps = <<>> /\ AtRest

\* What a caller relies on at each step.
Relied ==
    \A c \in Callers :
        /\ iPc[c] = "send" => ~iCompleted
        /\ iPc[c] = "wait" => /\ iMine[c] = iReqid
                              /\ iCompleted => iStatus = iReqid /\ Answered(iPktid)
        /\ iPc[c] = "status" => /\ iMine[c] = iReqid /\ iStatus = iReqid
                                /\ iResult[c].data = iReqid
        /\ iPc[c] = "idle" /\ iResult[c] # None =>
               iResult[c].data = iMine[c] /\ iResult[c].status = iMine[c]

OnceEach == \A j, k \in 1 .. Len(iPosted) : iPosted[j] = iPosted[k] => j = k
Returning == {iComps[k].pktid : k \in 1 .. Len(iComps)}

\* Every allocated buffer is with the firmware, on its way back, or about to be freed.
Known ==
    /\ I!AtFirmware \subseteq iInuse /\ OnceEach
    /\ \A p \in iInuse : \/ p \in I!AtFirmware \cup Returning
                         \/ ~AtRest /\ p = iIrq.pktid
                         \/ Woken /\ p = iPktid

Separate == I!NoneLeft => UnderWay /\ Relied /\ Known

Busy == IF iIrq.step = "idle" THEN 0 ELSE 1

\* Ids are given out in order: those up to the last one have been used, one for
\* each answer that was handled; and none that came back is posted.
InOrder ==
    /\ iLast = MaxResp - 1 + iReqid - Len(iRing) - Len(iComps) - Busy
    /\ iCur = MaxResp
    /\ I!AtFirmware \subseteq iInuse /\ OnceEach
    /\ \A p \in iInuse \cup Returning : p <= iLast
    /\ \A p \in Returning : p \notin I!AtFirmware
    /\ iIrq.step # "idle" => iIrq.pktid <= iLast /\ iIrq.pktid \notin I!AtFirmware
    /\ iIrq.step \in {"wake", "post"} => iPktid = iIrq.pktid
    /\ iCompleted => iPktid <= iLast /\ iPktid \notin I!AtFirmware

Fresh == MaxResp + iReqid <= NrPktids => InOrder

IoctlInv == IoctlType /\ Mutex /\ I!CurCounts /\ Separate /\ Fresh

---------------------------------------------------------------------------
\* The buffers with the firmware are the ones posted.
LEMMA FirmwareHas ==
    ASSUME iPosted \in Seq(I!PacketIds)
    PROVE  I!AtFirmware = {iPosted[k] : k \in 1 .. Len(iPosted)}
BY DEF I!AtFirmware

\* The firmware takes the buffer posted first.
LEMMA TakesFirst ==
    ASSUME iPosted \in Seq(I!PacketIds), iPosted # <<>>, iPosted' = Tail(iPosted)
    PROVE  /\ Head(iPosted) \in I!PacketIds /\ Head(iPosted) \in I!AtFirmware
           /\ iPosted' \in Seq(I!PacketIds) /\ Len(iPosted') = Len(iPosted) - 1
           /\ I!AtFirmware' \subseteq I!AtFirmware
           /\ I!AtFirmware \subseteq I!AtFirmware' \cup {Head(iPosted)}
           /\ OnceEach => OnceEach' /\ Head(iPosted) \notin I!AtFirmware'
<1>1. /\ Len(iPosted) \in Nat /\ Len(iPosted) >= 1 /\ Head(iPosted) = iPosted[1]
      /\ iPosted' \in Seq(I!PacketIds) /\ Len(iPosted') = Len(iPosted) - 1
      /\ \A k \in 1 .. Len(iPosted') : iPosted'[k] = iPosted[k + 1]
  BY HeadTailProperties, EmptySeq
<1>2. /\ I!AtFirmware = {iPosted[k] : k \in 1 .. Len(iPosted)}
      /\ I!AtFirmware' = {iPosted'[k] : k \in 1 .. Len(iPosted')}
  <2>1. DOMAIN iPosted = 1 .. Len(iPosted) /\ DOMAIN iPosted' = 1 .. Len(iPosted')
    BY <1>1, LenProperties
  <2> QED
    BY <2>1 DEF I!AtFirmware
<1>3. Head(iPosted) \in I!PacketIds /\ Head(iPosted) \in I!AtFirmware
  BY <1>1, <1>2
<1>4. I!AtFirmware' \subseteq I!AtFirmware
  BY <1>1, <1>2
<1>5. I!AtFirmware \subseteq I!AtFirmware' \cup {Head(iPosted)}
  <2> SUFFICES ASSUME NEW k \in 1 .. Len(iPosted), k # 1
               PROVE  iPosted[k] \in I!AtFirmware'
    BY <1>1, <1>2
  <2>1. k - 1 \in 1 .. Len(iPosted') /\ iPosted'[k - 1] = iPosted[k]
    BY <1>1
  <2> QED
    BY <2>1, <1>2
<1>6. ASSUME OnceEach PROVE OnceEach' /\ Head(iPosted) \notin I!AtFirmware'
  BY <1>1, <1>2, <1>6 DEF OnceEach
<1> QED
  BY <1>1, <1>3, <1>4, <1>5, <1>6

\* Free ids, each once, are added to the buffers the firmware has.
LEMMA AddsNew ==
    ASSUME iPosted \in Seq(I!PacketIds), NEW order \in Seq(I!PacketIds),
           iPosted' = iPosted \o order,
           NEW new, \A k \in 1 .. Len(order) : order[k] \in new,
           \A p \in new : \E k \in 1 .. Len(order) : order[k] = p,
           \A j, k \in 1 .. Len(order) : order[j] = order[k] => j = k
    PROVE  /\ iPosted' \in Seq(I!PacketIds) /\ Len(iPosted') = Len(iPosted) + Len(order)
           /\ I!AtFirmware' = I!AtFirmware \cup new
           /\ OnceEach /\ new \cap I!AtFirmware = {} => OnceEach'
<1>1. /\ Len(iPosted) \in Nat /\ Len(order) \in Nat
      /\ iPosted' \in Seq(I!PacketIds) /\ Len(iPosted') = Len(iPosted) + Len(order)
      /\ \A k \in 1 .. Len(iPosted) + Len(order) :
             iPosted'[k] = IF k <= Len(iPosted) THEN iPosted[k] ELSE order[k - Len(iPosted)]
  BY ConcatProperties, LenProperties
<1>2. /\ I!AtFirmware = {iPosted[k] : k \in 1 .. Len(iPosted)}
      /\ I!AtFirmware' = {iPosted'[k] : k \in 1 .. Len(iPosted')}
  <2>1. DOMAIN iPosted = 1 .. Len(iPosted) /\ DOMAIN iPosted' = 1 .. Len(iPosted')
    BY <1>1, LenProperties
  <2> QED
    BY <2>1 DEF I!AtFirmware
<1>3. I!AtFirmware' \subseteq I!AtFirmware \cup new
  BY <1>1, <1>2
<1>4. I!AtFirmware \subseteq I!AtFirmware'
  BY <1>1, <1>2
<1>5. new \subseteq I!AtFirmware'
  <2> SUFFICES ASSUME NEW p \in new PROVE p \in I!AtFirmware'
    OBVIOUS
  <2>1. PICK k \in 1 .. Len(order) : order[k] = p
    OBVIOUS
  <2>2. k + Len(iPosted) \in 1 .. Len(iPosted') /\ iPosted'[k + Len(iPosted)] = p
    BY <1>1, <2>1
  <2> QED
    BY <1>2, <2>2
<1>6. ASSUME OnceEach, new \cap I!AtFirmware = {} PROVE OnceEach'
  <2> SUFFICES ASSUME NEW j \in 1 .. Len(iPosted'), NEW k \in 1 .. Len(iPosted'),
                      iPosted'[j] = iPosted'[k]
               PROVE  j = k
    BY DEF OnceEach
  <2>1. CASE j <= Len(iPosted) /\ k <= Len(iPosted)
    BY <1>1, <1>6, <2>1 DEF OnceEach
  <2>2. CASE j > Len(iPosted) /\ k > Len(iPosted)
    <3>1. j - Len(iPosted) \in 1 .. Len(order) /\ k - Len(iPosted) \in 1 .. Len(order)
      BY <1>1, <2>2
    <3>2. order[j - Len(iPosted)] = order[k - Len(iPosted)]
      BY <1>1, <2>2
    <3>3. j - Len(iPosted) = k - Len(iPosted)
      BY <3>1, <3>2
    <3> QED
      BY <3>3, <1>1
  <2>3. ASSUME NEW l \in 1 .. Len(iPosted'), NEW m \in 1 .. Len(iPosted'),
               l <= Len(iPosted), m > Len(iPosted)
        PROVE  iPosted'[l] # iPosted'[m]
    <3>1. m - Len(iPosted) \in 1 .. Len(order) /\ iPosted'[m] = order[m - Len(iPosted)]
      BY <1>1, <2>3
    <3>2. l \in 1 .. Len(iPosted) /\ iPosted'[l] = iPosted[l]
      BY <1>1, <2>3
    <3>3. iPosted'[m] \in new /\ iPosted'[l] \in I!AtFirmware
      BY <1>2, <3>1, <3>2
    <3> QED
      BY <3>3, <1>6
  <2> QED
    BY <1>1, <2>1, <2>2, <2>3
<1> QED
  BY <1>1, <1>3, <1>4, <1>5, <1>6

\* Nothing is posted: the firmware has the buffers it had.
LEMMA SameBuffers ==
    ASSUME UNCHANGED iPosted
    PROVE  I!AtFirmware' = I!AtFirmware /\ (OnceEach' <=> OnceEach)
BY DEF I!AtFirmware, OnceEach

\* While a caller has the mutex the others are idle.
LEMMA NobodyElse ==
    ASSUME Mutex, NEW c \in Callers, iPc[c] # "idle"
    PROVE  \A d \in Callers : d # c => iPc[d] = "idle"
BY DEF Mutex

\* A caller takes the mutex.
LEMMA LockInv ==
    ASSUME IoctlInv, NEW c \in Callers, I!Lock(c)
    PROVE  IoctlInv'
<1> USE IoctlAssumption DEF I!Lock, I!callerVars, I!bufVars
<1>1. IoctlType'
  BY DEF IoctlInv, IoctlType
<1>2. Mutex'
  BY DEF IoctlInv, IoctlType, Mutex, I!Free
<1>3. I!CurCounts'
  BY DEF IoctlInv, IoctlType, I!CurCounts
<1>4. ASSUME I!NoneLeft' PROVE UnderWay' /\ Relied' /\ Known'
  <2>1. I!NoneLeft /\ UnderWay /\ Relied /\ Known
    BY <1>4 DEF IoctlInv, Separate
  <2>2. UnderWay'
    BY <2>1
      DEF IoctlInv, IoctlType, Mutex, UnderWay, Waiting, Asked, Returned, Storing,
          Answered, AtRest, I!AtFirmware
  <2>3. Relied'
    BY <2>1 DEF IoctlInv, IoctlType, Mutex, Relied, Answered, I!AtFirmware
  <2>4. Known'
    <3>1. Woken => Woken'
      BY <2>1 DEF IoctlInv, IoctlType, Mutex, Woken
    <3>2. UNCHANGED <<iPosted, iInuse, iComps, iIrq, iPktid>>
      OBVIOUS
    <3> QED
      BY <2>1, <3>1, <3>2, SameBuffers DEF Known, Returning, AtRest
  <2> QED
    BY <2>2, <2>3, <2>4
<1>5. ASSUME MaxResp + iReqid' <= NrPktids PROVE InOrder'
  BY <1>5 DEF IoctlInv, IoctlType, Fresh, InOrder, Busy, OnceEach, Returning, I!AtFirmware
<1> QED
  BY <1>1, <1>2, <1>3, <1>4, <1>5 DEF IoctlInv, Separate, Fresh

\* A command is refused before it is sent.
LEMMA RefuseInv ==
    ASSUME IoctlInv, NEW c \in Callers, I!Refuse(c)
    PROVE  IoctlInv'
<1> USE IoctlAssumption DEF I!Refuse, I!Return, I!callerVars, I!bufVars
<1>1. IoctlType'
  BY DEF IoctlInv, IoctlType, Mutex, Answer
<1>2. Mutex'
  BY DEF IoctlInv, IoctlType, Mutex
<1>3. I!CurCounts'
  BY DEF IoctlInv, IoctlType, I!CurCounts
<1>4. ASSUME I!NoneLeft' PROVE UnderWay' /\ Relied' /\ Known'
  <2>1. I!NoneLeft /\ UnderWay /\ Relied /\ Known
    BY <1>4 DEF IoctlInv, Separate
  <2>2. UnderWay'
    BY <2>1
      DEF IoctlInv, IoctlType, Mutex, UnderWay, Waiting, Asked, Returned, Storing,
          Answered, AtRest, I!AtFirmware
  <2>3. Relied'
    BY <2>1 DEF IoctlInv, IoctlType, Mutex, Relied, Answered, I!AtFirmware
  <2>4. Known'
    <3>1. Woken => Woken'
      BY <2>1 DEF IoctlInv, IoctlType, Mutex, Woken
    <3>2. UNCHANGED <<iPosted, iInuse, iComps, iIrq, iPktid>>
      OBVIOUS
    <3> QED
      BY <2>1, <3>1, <3>2, SameBuffers DEF Known, Returning, AtRest
  <2> QED
    BY <2>2, <2>3, <2>4
<1>5. ASSUME MaxResp + iReqid' <= NrPktids PROVE InOrder'
  BY <1>5 DEF IoctlInv, IoctlType, Fresh, InOrder, Busy, OnceEach, Returning, I!AtFirmware
<1> QED
  BY <1>1, <1>2, <1>3, <1>4, <1>5 DEF IoctlInv, Separate, Fresh

\* The flag of the last answer is cleared.
LEMMA ClearInv ==
    ASSUME IoctlInv, NEW c \in Callers, I!Clear(c)
    PROVE  IoctlInv'
<1> USE IoctlAssumption DEF I!Clear, I!callerVars, I!bufVars
<1>1. IoctlType'
  BY DEF IoctlInv, IoctlType, Mutex, Answer
<1>2. Mutex'
  BY DEF IoctlInv, IoctlType, Mutex
<1>3. I!CurCounts'
  BY DEF IoctlInv, IoctlType, I!CurCounts
<1>4. ASSUME I!NoneLeft' PROVE UnderWay' /\ Relied' /\ Known'
  <2>1. I!NoneLeft /\ UnderWay /\ Relied /\ Known
    BY <1>4 DEF IoctlInv, Separate
  <2>2. UnderWay'
    BY <2>1
      DEF IoctlInv, IoctlType, Mutex, UnderWay, Waiting, Asked, Returned, Storing,
          Answered, AtRest, I!AtFirmware
  <2>3. Relied'
    BY <2>1 DEF IoctlInv, IoctlType, Mutex, Relied, Answered, I!AtFirmware
  <2>4. Known'
    <3>1. ~Woken
      BY <2>1 DEF IoctlInv, IoctlType, Mutex, Woken
    <3>2. UNCHANGED <<iPosted, iInuse, iComps, iIrq, iPktid>>
      OBVIOUS
    <3> QED
      BY <2>1, <3>1, <3>2, SameBuffers DEF Known, Returning, AtRest
  <2> QED
    BY <2>2, <2>3, <2>4
<1>5. ASSUME MaxResp + iReqid' <= NrPktids PROVE InOrder'
  BY <1>5 DEF IoctlInv, IoctlType, Fresh, InOrder, Busy, OnceEach, Returning, I!AtFirmware
<1> QED
  BY <1>1, <1>2, <1>3, <1>4, <1>5 DEF IoctlInv, Separate, Fresh

\* The request is put in the ring, with its doorbell or without, or there is no
\* room.
LEMMA SendInv ==
    ASSUME IoctlInv, NEW c \in Callers, I!Send(c)
    PROVE  IoctlInv'
<1> USE IoctlAssumption DEF I!Send, I!Return, I!callerVars, I!bufVars
<1>0. /\ \A d \in Callers : d # c => iPc[d] = "idle"
      /\ iReqid \in Nat /\ iReqid < MaxCmds /\ iReqid + 1 \in 0 .. MaxCmds
      /\ iRing \in Seq(0 .. MaxCmds) /\ Len(iRing) \in Nat
      /\ iUnseen \in 0 .. Len(iRing) /\ iMissed \in 0 .. MaxMissed
  <2>1. iReqid \in Nat /\ iReqid < MaxCmds /\ MaxCmds \in Nat /\ iRing \in Seq(0 .. MaxCmds)
        /\ iUnseen \in 0 .. Len(iRing) /\ iMissed \in 0 .. MaxMissed
    BY DEF IoctlInv, IoctlType, Mutex
  <2>2. \A d \in Callers : d # c => iPc[d] = "idle"
    BY NobodyElse DEF IoctlInv
  <2> HIDE DEF I!Send
  <2> QED
    BY <2>1, <2>2, LenProperties
<1>s. ASSUME NEW wrote \in BOOLEAN, NEW rang \in BOOLEAN, I!Submit(wrote, rang)
      PROVE  /\ iRing' = Append(iRing, iReqid + 1) /\ iRing' \in Seq(0 .. MaxCmds)
             /\ Len(iRing') = Len(iRing) + 1
             /\ iUnseen' \in 0 .. Len(iRing') /\ iMissed' \in 0 .. MaxMissed
             /\ iMissed' = 0 => iMissed = 0 /\ rang
  <2>1. iRing' = Append(iRing, iReqid + 1) /\ iRing' \in Seq(0 .. MaxCmds)
        /\ Len(iRing') = Len(iRing) + 1
    BY <1>0, <1>s DEF I!Submit
  <2>2. iUnseen' \in 0 .. Len(iRing')
    BY <1>0, <1>s, <2>1 DEF I!Submit
  <2>3. iMissed' \in 0 .. MaxMissed /\ (iMissed' = 0 => iMissed = 0 /\ rang)
    BY <1>0, <1>s DEF I!Submit
  <2> QED
    BY <2>1, <2>2, <2>3
<1>a. ASSUME Len(iRing) < RingRoom, NEW wrote \in BOOLEAN, I!Submit(wrote, TRUE),
             iReqid' = iReqid + 1, iIoctbuf' = iReqid + 1,
             iMine' = [iMine EXCEPT ![c] = iReqid + 1], iPc' = [iPc EXCEPT ![c] = "wait"],
             UNCHANGED <<iOwner, iResult, iCompleted, iStatus, iPktid, iIrq, iComps, iPosted,
                         iCur, iInuse, iLast, iContent, iTimeouts>>,
             iPc[c] = "send"
      PROVE  IoctlInv'
  <2>0. /\ iRing' = Append(iRing, iReqid + 1) /\ iRing' \in Seq(0 .. MaxCmds)
        /\ Len(iRing') = Len(iRing) + 1
        /\ iUnseen' \in 0 .. Len(iRing') /\ iMissed' \in 0 .. MaxMissed
        /\ I!NoneLeft' => I!NoneLeft
    BY <1>a, <1>s
  <2> HIDE DEF I!Send
  <2>1. IoctlType'
    BY <1>0, <1>a, <2>0 DEF IoctlInv, IoctlType
  <2>2. Mutex'
    BY <1>0, <1>a DEF IoctlInv, IoctlType, Mutex
  <2>3. I!CurCounts'
    BY <1>a DEF IoctlInv, I!CurCounts
  <2>4. ASSUME I!NoneLeft' PROVE UnderWay' /\ Relied' /\ Known'
    <3>1. UnderWay /\ Relied /\ Known /\ ~iCompleted
      BY <1>a, <2>0, <2>4 DEF IoctlInv, Separate, Relied
    <3>2. ~Waiting /\ ~Woken
      BY <1>0, <1>a DEF Waiting, Woken
    <3>3. iRing = <<>> /\ iComps = <<>> /\ AtRest
      BY <3>1, <3>2 DEF UnderWay
    <3>4. iRing' = <<iReqid'>> /\ iIoctbuf' = iReqid' /\ iComps' = <<>> /\ AtRest'
      BY <1>a, <2>0, <3>3 DEF AtRest
    <3>5. Waiting'
      BY <1>a, <3>1 DEF Waiting, IoctlInv, IoctlType
    <3>6. UnderWay'
      BY <3>4, <3>5 DEF UnderWay, Asked
    <3>7. Relied'
      BY <1>0, <1>a, <3>1 DEF Relied, IoctlInv, IoctlType
    <3>8. Known'
      BY <1>a, <3>1, <3>2, SameBuffers DEF Known, Returning, AtRest
    <3> QED
      BY <3>6, <3>7, <3>8
  <2>5. ASSUME MaxResp + iReqid' <= NrPktids PROVE InOrder'
    <3>1. InOrder
      BY <1>0, <1>a, <2>5 DEF IoctlInv, Fresh
    <3>2. Len(iComps) \in Nat /\ Busy \in Nat /\ MaxResp \in Nat /\ Len(iRing') \in Nat
      <4>1. Len(iComps) \in Nat
        BY LenProperties DEF IoctlInv, IoctlType
      <4> QED
        BY <1>0, <2>0, <4>1 DEF Busy
    <3> QED
      BY <1>0, <1>a, <2>0, <3>1, <3>2, SameBuffers DEF InOrder, Busy, Returning
  <2> QED
    BY <2>1, <2>2, <2>3, <2>4, <2>5 DEF IoctlInv, Separate, Fresh
<1>n. ASSUME Len(iRing) < RingRoom, NEW wrote \in BOOLEAN, I!Submit(wrote, FALSE),
             iReqid' = iReqid + 1, iIoctbuf' = iReqid + 1,
             iMine' = [iMine EXCEPT ![c] = iReqid + 1],
             iResult' = [iResult EXCEPT ![c] = None], iPc' = [iPc EXCEPT ![c] = "idle"],
             iOwner' = (IF iOwner = c THEN None ELSE iOwner),
             UNCHANGED <<iCompleted, iStatus, iPktid, iIrq, iComps, iPosted,
                         iCur, iInuse, iLast, iContent, iTimeouts>>,
             iPc[c] = "send"
      PROVE  IoctlInv'
  <2>0. /\ iRing' \in Seq(0 .. MaxCmds) /\ Len(iRing') = Len(iRing) + 1
        /\ iUnseen' \in 0 .. Len(iRing') /\ iMissed' \in 0 .. MaxMissed /\ ~I!NoneLeft'
    BY <1>n, <1>s
  <2> HIDE DEF I!Send
  <2>1. IoctlType'
    BY <1>0, <1>n, <2>0 DEF IoctlInv, IoctlType
  <2>2. Mutex'
    BY <1>0, <1>n DEF IoctlInv, IoctlType, Mutex
  <2>3. I!CurCounts'
    BY <1>n DEF IoctlInv, I!CurCounts
  <2>5. ASSUME MaxResp + iReqid' <= NrPktids PROVE InOrder'
    <3>1. InOrder
      BY <1>0, <1>n, <2>5 DEF IoctlInv, Fresh
    <3>2. Len(iComps) \in Nat /\ Busy \in Nat /\ MaxResp \in Nat /\ Len(iRing') \in Nat
      <4>1. Len(iComps) \in Nat
        BY LenProperties DEF IoctlInv, IoctlType
      <4> QED
        BY <1>0, <2>0, <4>1 DEF Busy
    <3> QED
      BY <1>0, <1>n, <2>0, <3>1, <3>2, SameBuffers DEF InOrder, Busy, Returning
  <2> QED
    BY <2>0, <2>1, <2>2, <2>3, <2>5 DEF IoctlInv, Separate, Fresh
<1>b. ASSUME iResult' = [iResult EXCEPT ![c] = None], iPc' = [iPc EXCEPT ![c] = "idle"],
             iOwner' = (IF iOwner = c THEN None ELSE iOwner),
             UNCHANGED <<iMine, iReqid, iIoctbuf, iRing, iUnseen, iCompleted, iStatus, iPktid,
                         iIrq, iComps, iPosted, iCur, iInuse, iLast, iContent, iTimeouts,
                         iMissed>>,
             iPc[c] = "send"
      PROVE  IoctlInv'
  <2> HIDE DEF I!Send
  <2>1. IoctlType'
    BY <1>b DEF IoctlInv, IoctlType
  <2>2. Mutex'
    BY <1>0, <1>b DEF IoctlInv, IoctlType, Mutex
  <2>3. I!CurCounts'
    BY <1>b DEF IoctlInv, I!CurCounts
  <2>4. ASSUME I!NoneLeft' PROVE UnderWay' /\ Relied' /\ Known'
    <3>1. UnderWay /\ Relied /\ Known
      BY <1>b, <2>4 DEF IoctlInv, Separate
    <3>2. ~Waiting /\ ~Woken /\ ~Waiting' /\ ~Woken'
      BY <1>0, <1>b DEF Waiting, Woken, IoctlInv, IoctlType
    <3>3. UnderWay'
      BY <1>b, <3>1, <3>2 DEF UnderWay, AtRest
    <3>4. Relied'
      BY <1>0, <1>b, <3>1 DEF Relied, IoctlInv, IoctlType
    <3>5. Known'
      BY <1>b, <3>1, <3>2, SameBuffers DEF Known, Returning, AtRest
    <3> QED
      BY <3>3, <3>4, <3>5
  <2>5. ASSUME MaxResp + iReqid' <= NrPktids PROVE InOrder'
    BY <1>b, <2>5, SameBuffers DEF IoctlInv, Fresh, InOrder, Busy, Returning
  <2> QED
    BY <2>1, <2>2, <2>3, <2>4, <2>5 DEF IoctlInv, Separate, Fresh
<1>1. CASE Len(iRing) < RingRoom
  <2>1. PICK wrote \in BOOLEAN, rang \in BOOLEAN :
           /\ I!Submit(wrote, rang)
           /\ IF rang THEN iPc' = [iPc EXCEPT ![c] = "wait"] /\ UNCHANGED <<iOwner, iResult>>
              ELSE I!Return(c, None)
    BY <1>0, <1>1
  <2>2. CASE rang
    <3>1. I!Submit(wrote, TRUE)
      BY <2>1, <2>2 DEF I!Submit
    <3>2. /\ iReqid' = iReqid + 1 /\ iIoctbuf' = iReqid + 1
          /\ iMine' = [iMine EXCEPT ![c] = iReqid + 1] /\ iPc' = [iPc EXCEPT ![c] = "wait"]
          /\ UNCHANGED <<iOwner, iResult, iCompleted, iStatus, iPktid, iIrq, iComps, iPosted,
                         iCur, iInuse, iLast, iContent, iTimeouts>>
          /\ iPc[c] = "send"
      BY <1>0, <1>1, <2>1, <2>2
    <3> HIDE DEF I!Send
    <3> QED
      BY <1>1, <1>a, <3>1, <3>2, Zenon
  <2>3. CASE ~rang
    <3>1. I!Submit(wrote, FALSE)
      BY <2>1, <2>3 DEF I!Submit
    <3>2. /\ iReqid' = iReqid + 1 /\ iIoctbuf' = iReqid + 1
          /\ iMine' = [iMine EXCEPT ![c] = iReqid + 1]
          /\ iResult' = [iResult EXCEPT ![c] = None] /\ iPc' = [iPc EXCEPT ![c] = "idle"]
          /\ iOwner' = (IF iOwner = c THEN None ELSE iOwner)
          /\ UNCHANGED <<iCompleted, iStatus, iPktid, iIrq, iComps, iPosted,
                         iCur, iInuse, iLast, iContent, iTimeouts>>
          /\ iPc[c] = "send"
      BY <1>0, <1>1, <2>1, <2>3
    <3> HIDE DEF I!Send
    <3> QED
      BY <1>1, <1>n, <3>1, <3>2, Zenon
  <2> QED
    BY <2>1, <2>2, <2>3
<1>2. CASE ~(Len(iRing) < RingRoom)
  BY <1>0, <1>2, <1>b
<1> QED
  BY <1>1, <1>2

\* A wait that times out ends the second part of the invariant.
LEMMA TimeoutInv ==
    ASSUME IoctlInv, NEW c \in Callers, I!Timeout(c)
    PROVE  IoctlInv'
<1> USE IoctlAssumption DEF I!Timeout, I!Return, I!callerVars, I!bufVars
<1>1. IoctlType'
  <2>1. iTimeouts' \in 0 .. MaxTimeouts
    BY DEF IoctlInv, IoctlType
  <2>2. /\ iResult' = [iResult EXCEPT ![c] = None] /\ iPc' = [iPc EXCEPT ![c] = "idle"]
        /\ iOwner' = (IF iOwner = c THEN None ELSE iOwner)
        /\ UNCHANGED <<iMine, iReqid, iIoctbuf, iRing, iCompleted, iStatus, iPktid, iIrq, iComps,
                       iPosted, iCur, iInuse, iLast, iContent, iUnseen, iMissed>>
    OBVIOUS
  <2> HIDE DEF I!Timeout
  <2> QED
    BY <2>1, <2>2 DEF IoctlInv, IoctlType
<1>2. Mutex'
  BY DEF IoctlInv, IoctlType, Mutex
<1>3. I!CurCounts'
  BY DEF IoctlInv, IoctlType, I!CurCounts
<1>4. ASSUME I!NoneLeft' PROVE UnderWay' /\ Relied' /\ Known'
  BY <1>4 DEF IoctlInv, IoctlType
<1>5. ASSUME MaxResp + iReqid' <= NrPktids PROVE InOrder'
  BY <1>5 DEF IoctlInv, IoctlType, Fresh, InOrder, Busy, OnceEach, Returning, I!AtFirmware
<1> QED
  BY <1>1, <1>2, <1>3, <1>4, <1>5 DEF IoctlInv, Separate, Fresh

\* The woken caller takes its buffer.
LEMMA TakeBufferInv ==
    ASSUME IoctlInv, NEW c \in Callers, I!TakeBuffer(c)
    PROVE  IoctlInv'
<1> USE IoctlAssumption DEF I!TakeBuffer, I!Return, I!callerVars, I!bufVars
<1>0. \A d \in Callers : d # c => iPc[d] = "idle"
  BY NobodyElse DEF IoctlInv
<1>a. CASE iPktid \in iInuse
  <2>0. /\ iPc[c] = "wait" /\ iCompleted /\ iInuse' = iInuse \ {iPktid}
        /\ iResult' = [iResult EXCEPT ![c] = [data |-> iContent[iPktid], status |-> 0]]
        /\ iPc' = [iPc EXCEPT ![c] = "status"]
        /\ UNCHANGED <<iOwner, iMine, iReqid, iIoctbuf, iRing, iCompleted, iStatus, iPktid, iIrq,
                       iComps, iPosted, iCur, iLast, iContent, iUnseen, iTimeouts, iMissed>>
    BY <1>a
  <2> HIDE DEF I!TakeBuffer
  <2>1. IoctlType'
    <3>1. [data |-> iContent[iPktid], status |-> 0] \in [data : 0 .. MaxCmds, status : 0 .. MaxCmds]
      BY DEF IoctlInv, IoctlType
    <3> QED
      BY <2>0, <3>1 DEF IoctlInv, IoctlType
  <2>2. Mutex'
    <3>1. iResult'[c] \in [data : 0 .. MaxCmds, status : 0 .. MaxCmds]
      BY <2>0 DEF IoctlInv, IoctlType
    <3> QED
      BY <1>0, <2>0, <3>1 DEF IoctlInv, IoctlType, Mutex
  <2>3. I!CurCounts'
    BY <2>0 DEF IoctlInv, I!CurCounts
  <2>4. ASSUME I!NoneLeft' PROVE UnderWay' /\ Relied' /\ Known'
    <3>1. UnderWay /\ Relied /\ Known
      BY <2>0, <2>4 DEF IoctlInv, Separate
    <3>2. ~Waiting /\ ~Waiting' /\ ~Woken'
      BY <1>0, <2>0 DEF Waiting, Woken, IoctlInv, IoctlType
    <3>3. iRing = <<>> /\ iComps = <<>> /\ AtRest /\ AtRest'
      BY <2>0, <3>1, <3>2 DEF UnderWay, AtRest
    <3>4. UnderWay'
      BY <2>0, <3>2, <3>3 DEF UnderWay
    <3>5. iMine[c] = iReqid /\ iStatus = iReqid /\ Answered(iPktid)
      BY <2>0, <3>1 DEF Relied
    <3>6. iResult'[c].data = iReqid
      BY <2>0, <3>5 DEF Answered, IoctlInv, IoctlType
    <3>7. Relied'
      BY <1>0, <2>0, <3>1, <3>5, <3>6 DEF Relied, IoctlInv, IoctlType
    <3>8. I!AtFirmware' = I!AtFirmware /\ OnceEach'
      BY <2>0, <3>1, SameBuffers DEF Known
    <3>9. Known'
      BY <2>0, <3>1, <3>3, <3>5, <3>8 DEF Known, Returning, AtRest, Answered, Woken
    <3> QED
      BY <3>4, <3>7, <3>9
  <2>5. ASSUME MaxResp + iReqid' <= NrPktids PROVE InOrder'
    <3>1. InOrder
      BY <2>0, <2>5 DEF IoctlInv, Fresh
    <3> QED
      BY <2>0, <3>1, SameBuffers DEF InOrder, Busy, Returning
  <2> QED
    BY <2>1, <2>2, <2>3, <2>4, <2>5 DEF IoctlInv, Separate, Fresh
<1>b. CASE iPktid \notin iInuse
  <2>0. /\ iResult' = [iResult EXCEPT ![c] = None] /\ iPc' = [iPc EXCEPT ![c] = "idle"]
        /\ iOwner' = (IF iOwner = c THEN None ELSE iOwner) /\ iPc[c] = "wait" /\ iCompleted
        /\ UNCHANGED <<iMine, iReqid, iIoctbuf, iRing, iCompleted, iStatus, iPktid, iIrq, iComps,
                       iPosted, iCur, iInuse, iLast, iContent, iUnseen, iTimeouts, iMissed>>
    BY <1>b
  <2> HIDE DEF I!TakeBuffer
  <2>1. IoctlType'
    BY <2>0 DEF IoctlInv, IoctlType
  <2>2. Mutex'
    BY <1>0, <2>0 DEF IoctlInv, IoctlType, Mutex
  <2>3. I!CurCounts'
    BY <2>0 DEF IoctlInv, I!CurCounts
  <2>4. ~I!NoneLeft
    BY <2>0, <1>b DEF IoctlInv, Separate, Relied, Answered
  <2>5. ASSUME MaxResp + iReqid' <= NrPktids PROVE InOrder'
    BY <2>0, <2>5, SameBuffers DEF IoctlInv, Fresh, InOrder, Busy, Returning
  <2> QED
    BY <2>0, <2>1, <2>2, <2>3, <2>4, <2>5 DEF IoctlInv, Separate, Fresh
<1> QED
  BY <1>a, <1>b

\* The caller reads the status and returns.
LEMMA ReadStatusInv ==
    ASSUME IoctlInv, NEW c \in Callers, I!ReadStatus(c)
    PROVE  IoctlInv'
<1> USE IoctlAssumption DEF I!ReadStatus, I!Return, I!callerVars, I!bufVars
<1>1. IoctlType'
  BY DEF IoctlInv, IoctlType, Mutex, Answer
<1>2. Mutex'
  BY DEF IoctlInv, IoctlType, Mutex
<1>3. I!CurCounts'
  BY DEF IoctlInv, IoctlType, I!CurCounts
<1>4. ASSUME I!NoneLeft' PROVE UnderWay' /\ Relied' /\ Known'
  <2>1. I!NoneLeft /\ UnderWay /\ Relied /\ Known
    BY <1>4 DEF IoctlInv, Separate
  <2>2. UnderWay'
    BY <2>1
      DEF IoctlInv, IoctlType, Mutex, UnderWay, Waiting, Asked, Returned, Storing,
          Answered, AtRest, I!AtFirmware
  <2>3. Relied'
    BY <2>1 DEF IoctlInv, IoctlType, Mutex, Relied, Answered, I!AtFirmware
  <2>4. Known'
    <3>1. Woken => Woken'
      BY <2>1 DEF IoctlInv, IoctlType, Mutex, Woken
    <3>2. UNCHANGED <<iPosted, iInuse, iComps, iIrq, iPktid>>
      OBVIOUS
    <3> QED
      BY <2>1, <3>1, <3>2, SameBuffers DEF Known, Returning, AtRest
  <2> QED
    BY <2>2, <2>3, <2>4
<1>5. ASSUME MaxResp + iReqid' <= NrPktids PROVE InOrder'
  BY <1>5 DEF IoctlInv, IoctlType, Fresh, InOrder, Busy, OnceEach, Returning, I!AtFirmware
<1> QED
  BY <1>1, <1>2, <1>3, <1>4, <1>5 DEF IoctlInv, Separate, Fresh

\* The firmware answers the request at the head of the ring.
LEMMA FirmwareInv ==
    ASSUME IoctlInv, I!Firmware
    PROVE  IoctlInv'
<1> USE IoctlAssumption
<1>0. /\ Len(iRing) > iUnseen /\ iPosted # <<>> /\ iRing' = Tail(iRing) /\ iPosted' = Tail(iPosted)
      /\ iContent' = [iContent EXCEPT ![Head(iPosted)] = iIoctbuf]
      /\ iComps' = Append(iComps, [req |-> Head(iRing), pktid |-> Head(iPosted)])
      /\ UNCHANGED <<iOwner, iPc, iMine, iResult, iReqid, iIoctbuf, iCompleted, iStatus, iPktid,
                     iIrq, iCur, iInuse, iLast, iUnseen, iTimeouts, iMissed>>
  BY DEF I!Firmware, I!callerVars
<1>r. iRing # <<>> /\ iUnseen \in 0 .. Len(iRing)
  BY <1>0, EmptySeq DEF IoctlInv, IoctlType
<1>h. PICK h : h = Head(iPosted)
  OBVIOUS
<1>a. /\ h \in I!PacketIds /\ h \in I!AtFirmware
      /\ iPosted' \in Seq(I!PacketIds) /\ Len(iPosted') = Len(iPosted) - 1
      /\ I!AtFirmware' \subseteq I!AtFirmware /\ I!AtFirmware \subseteq I!AtFirmware' \cup {h}
      /\ OnceEach => OnceEach' /\ h \notin I!AtFirmware'
  BY <1>0, <1>h, TakesFirst DEF IoctlInv, IoctlType
<1>b. /\ Head(iRing) \in 0 .. MaxCmds /\ iRing' \in Seq(0 .. MaxCmds)
      /\ Len(iRing) \in Nat /\ Len(iRing') = Len(iRing) - 1
  BY <1>0, <1>r, HeadTailProperties, LenProperties DEF IoctlInv, IoctlType
<1>c. [req |-> Head(iRing), pktid |-> h] \in Answer
  BY <1>a, <1>b DEF Answer
<1>d. /\ iComps' \in Seq(Answer) /\ Len(iComps) \in Nat /\ Len(iComps') = Len(iComps) + 1
      /\ \A k \in 1 .. Len(iComps) : iComps'[k] = iComps[k]
      /\ iComps'[Len(iComps) + 1] = [req |-> Head(iRing), pktid |-> h]
  <2>1. iComps \in Seq(Answer)
    BY DEF IoctlInv, IoctlType
  <2>2. PICK r \in Answer : r = [req |-> Head(iRing), pktid |-> h]
    BY <1>c
  <2>3. iComps' = Append(iComps, r)
    BY <1>0, <1>h, <2>2
  <2> QED
    BY <2>1, <2>2, <2>3
<1>e. Returning' = Returning \cup {h}
  <2>1. Returning \subseteq Returning'
    BY <1>d DEF Returning
  <2>2. h \in Returning'
    BY <1>d DEF Returning
  <2>3. \A k \in 1 .. Len(iComps') : iComps'[k].pktid \in Returning \cup {h}
    BY <1>d DEF Returning
  <2> QED
    BY <2>1, <2>2, <2>3 DEF Returning
<1>1. IoctlType'
  <2>1. iUnseen' \in 0 .. Len(iRing')
    BY <1>0, <1>b, <1>r
  <2>2. iContent' \in [I!PacketIds -> 0 .. MaxCmds]
    BY <1>0, <1>a, <1>h DEF IoctlInv, IoctlType
  <2>3. iRing' \in Seq(0 .. MaxCmds) /\ iComps' \in Seq(Answer) /\ iPosted' \in Seq(I!PacketIds)
    BY <1>a, <1>b, <1>d
  <2> QED
    BY <1>0, <2>1, <2>2, <2>3 DEF IoctlInv, IoctlType
<1>2. Mutex'
  BY <1>0 DEF IoctlInv, IoctlType, Mutex
<1>3. I!CurCounts'
  <2>1. Len(iPosted) \in Nat
    BY LenProperties DEF IoctlInv, IoctlType
  <2> QED
    BY <1>0, <1>a, <1>d, <2>1 DEF IoctlInv, I!CurCounts
<1>4. ASSUME I!NoneLeft' PROVE UnderWay' /\ Relied' /\ Known'
  <2>0. UnderWay /\ Relied /\ Known
    BY <1>0, <1>4 DEF IoctlInv, Separate
  <2>1. Waiting /\ Asked
    BY <2>0, <1>0, <1>r DEF UnderWay, Returned, Storing
  <2>2. Waiting' /\ ~iCompleted /\ AtRest'
    BY <2>1, <1>0 DEF Waiting, Asked, AtRest
  <2>3. iRing' = <<>> /\ Len(iComps) = 0 /\ Head(iRing) = iReqid /\ iIoctbuf = iReqid
    BY <2>1, <1>0 DEF Asked
  <2>4. Answered(h)'
    BY <2>0, <2>3, <1>0, <1>a, <1>h DEF Answered, Known, IoctlInv, IoctlType
  <2>5. Len(iComps') = 1 /\ iComps'[1].req = iReqid' /\ iComps'[1].pktid = h
    BY <2>3, <1>0, <1>d
  <2>6. UnderWay'
    BY <2>2, <2>3, <2>4, <2>5 DEF UnderWay, Returned, Answered
  <2>7. Relied'
    BY <2>0, <2>2, <1>0 DEF Relied
  <2>8. ~Woken /\ AtRest /\ Returning = {}
    BY <2>1, <2>2 DEF Woken, Asked, Returning
  <2>9. Known'
    BY <2>0, <2>8, <1>0, <1>a, <1>e DEF Known
  <2> QED
    BY <2>6, <2>7, <2>9
<1>5. ASSUME MaxResp + iReqid' <= NrPktids PROVE InOrder'
  <2>0. InOrder
    BY <1>0, <1>5 DEF IoctlInv, Fresh
  <2>1. /\ iLast' = MaxResp - 1 + iReqid' - Len(iRing') - Len(iComps') - Busy'
        /\ iCur' = MaxResp
    BY <2>0, <1>0, <1>b, <1>d DEF InOrder, Busy, IoctlInv, IoctlType
  <2>2. h \in iInuse /\ h <= iLast /\ OnceEach' /\ h \notin I!AtFirmware'
    BY <2>0, <1>a DEF InOrder
  <2>3. /\ I!AtFirmware' \subseteq iInuse'
        /\ \A p \in iInuse' \cup Returning' : p <= iLast'
        /\ \A p \in Returning' : p \notin I!AtFirmware'
    BY <2>0, <2>2, <1>0, <1>a, <1>e DEF InOrder
  <2>4. /\ iIrq'.step # "idle" => iIrq'.pktid <= iLast' /\ iIrq'.pktid \notin I!AtFirmware'
        /\ iIrq'.step \in {"wake", "post"} => iPktid' = iIrq'.pktid
        /\ iCompleted' => iPktid' <= iLast' /\ iPktid' \notin I!AtFirmware'
    BY <2>0, <1>0, <1>a DEF InOrder
  <2> QED
    BY <2>1, <2>2, <2>3, <2>4 DEF InOrder
<1> QED
  BY <1>1, <1>2, <1>3, <1>4, <1>5 DEF IoctlInv, Separate, Fresh

\* The interrupt thread stores the answer's status.
LEMMA StoreStatusInv ==
    ASSUME IoctlInv, I!StoreStatus
    PROVE  IoctlInv'
<1> USE IoctlAssumption
<1>0. /\ iIrq.step = "idle" /\ iComps # <<>> /\ iStatus' = Head(iComps).req
      /\ iIrq' = [step |-> "pktid", req |-> Head(iComps).req, pktid |-> Head(iComps).pktid]
      /\ iComps' = Tail(iComps)
      /\ UNCHANGED <<iOwner, iPc, iMine, iResult, iReqid, iIoctbuf, iRing, iCompleted, iPktid,
                     iPosted, iCur, iInuse, iLast, iContent, iUnseen, iTimeouts, iMissed>>
  BY DEF I!StoreStatus, I!callerVars, I!bufVars
<1>p. PICK p : p = Head(iComps).pktid
  OBVIOUS
<1>a. /\ iComps \in Seq(Answer) /\ Head(iComps) \in Answer /\ Head(iComps) = iComps[1]
      /\ iComps' \in Seq(Answer) /\ Len(iComps) \in Nat /\ Len(iComps) >= 1
      /\ Len(iComps') = Len(iComps) - 1
      /\ \A k \in 1 .. Len(iComps') : iComps'[k] = iComps[k + 1]
  <2>1. iComps \in Seq(Answer)
    BY DEF IoctlInv, IoctlType
  <2> QED
    BY <2>1, <1>0, HeadTailProperties, EmptySeq
<1>b. Head(iComps).req \in 0 .. MaxCmds /\ p \in I!PacketIds /\ p \in Returning
  BY <1>a, <1>p DEF Answer, Returning
<1>c. Returning' \subseteq Returning
  <2> SUFFICES ASSUME NEW k \in 1 .. Len(iComps') PROVE iComps'[k].pktid \in Returning
    BY DEF Returning
  <2>1. k + 1 \in 1 .. Len(iComps) /\ iComps'[k] = iComps[k + 1]
    BY <1>a
  <2> QED
    BY <2>1 DEF Returning
<1>d. iIrq'.step = "pktid" /\ iIrq'.req = Head(iComps).req /\ iIrq'.pktid = p
  BY <1>0, <1>p
<1>e. I!AtFirmware' = I!AtFirmware /\ (OnceEach' <=> OnceEach)
  BY <1>0, SameBuffers
<1>1. IoctlType'
  BY <1>0, <1>a, <1>b, <1>p DEF IoctlInv, IoctlType
<1>2. Mutex'
  BY <1>0 DEF IoctlInv, IoctlType, Mutex
<1>3. I!CurCounts'
  BY <1>0, <1>a, <1>d DEF IoctlInv, I!CurCounts
<1>4. ASSUME I!NoneLeft' PROVE UnderWay' /\ Relied' /\ Known'
  <2>0. UnderWay /\ Relied /\ Known
    BY <1>0, <1>4 DEF IoctlInv, Separate
  <2>1. Waiting /\ Returned
    BY <2>0, <1>0, <1>a DEF UnderWay, Asked, Storing
  <2>2. Waiting' /\ ~iCompleted /\ ~AtRest'
    BY <2>1, <1>0, <1>d DEF Waiting, AtRest
  <2>3. \A d \in Callers : iPc[d] \in {"idle", "wait"}
    BY <2>1, NobodyElse DEF Waiting, IoctlInv
  <2>4. /\ iRing' = <<>> /\ iComps' = <<>> /\ iStatus' = iReqid' /\ Answered(p)'
        /\ p = iComps[1].pktid /\ Len(iComps) = 1
    <3>1. Len(iComps) = 1 /\ p = iComps[1].pktid /\ iStatus' = iComps[1].req
      BY <2>1, <1>0, <1>a, <1>p DEF Returned
    <3>2. iComps' = <<>>
      BY <3>1, <1>a, EmptySeq
    <3> QED
      BY <2>1, <3>1, <3>2, <1>0, <1>e DEF Returned, Answered
  <2>5. UnderWay'
    BY <2>2, <2>4, <1>d DEF UnderWay, Storing, Answered
  <2>6. Relied'
    BY <2>0, <2>2, <2>3, <1>0 DEF Relied
  <2>7. ~Woken /\ AtRest /\ Returning = {p}
    BY <2>1, <2>2, <2>4 DEF Woken, Returned, Returning
  <2>8. Known'
    BY <2>0, <2>2, <2>7, <1>0, <1>d, <1>e DEF Known
  <2> QED
    BY <2>5, <2>6, <2>8
<1>5. ASSUME MaxResp + iReqid' <= NrPktids PROVE InOrder'
  <2>0. InOrder
    BY <1>0, <1>5 DEF IoctlInv, Fresh
  <2>1. /\ iLast' = MaxResp - 1 + iReqid' - Len(iRing') - Len(iComps') - Busy'
        /\ iCur' = MaxResp
    <3>1. Len(iRing) \in Nat /\ iReqid \in Nat /\ iLast \in Int
      BY LenProperties DEF IoctlInv, IoctlType, I!PacketIds
    <3>2. Busy = 0 /\ Busy' = 1
      BY <1>0, <1>d DEF Busy
    <3> QED
      BY <2>0, <3>1, <3>2, <1>0, <1>a DEF InOrder
  <2>2. p <= iLast /\ p \notin I!AtFirmware
    BY <2>0, <1>b DEF InOrder
  <2> QED
    BY <2>0, <2>1, <2>2, <1>0, <1>c, <1>d, <1>e DEF InOrder
<1> QED
  BY <1>1, <1>2, <1>3, <1>4, <1>5 DEF IoctlInv, Separate, Fresh

\* It stores the buffer's id.
LEMMA StorePktidInv ==
    ASSUME IoctlInv, I!StorePktid
    PROVE  IoctlInv'
<1> USE IoctlAssumption
<1>0. /\ iIrq.step = "pktid" /\ iPktid' = iIrq.pktid /\ iIrq' = [iIrq EXCEPT !.step = "wake"]
      /\ UNCHANGED <<iOwner, iPc, iMine, iResult, iReqid, iIoctbuf, iRing, iCompleted, iStatus,
                     iComps, iPosted, iCur, iInuse, iLast, iContent, iUnseen, iTimeouts, iMissed>>
  BY DEF I!StorePktid, I!callerVars, I!bufVars
<1>a. /\ iIrq \in [step : {"idle", "pktid", "wake", "post"}, req : 0 .. MaxCmds,
                   pktid : I!PacketIds]
      /\ iIrq' \in [step : {"idle", "pktid", "wake", "post"}, req : 0 .. MaxCmds,
                    pktid : I!PacketIds]
      /\ iIrq'.step = "wake" /\ iIrq'.pktid = iIrq.pktid
  BY <1>0 DEF IoctlInv, IoctlType
<1>b. I!AtFirmware' = I!AtFirmware /\ (OnceEach' <=> OnceEach) /\ Returning' = Returning
  BY <1>0, SameBuffers DEF Returning
<1>1. IoctlType'
  BY <1>0, <1>a DEF IoctlInv, IoctlType
<1>2. Mutex'
  BY <1>0 DEF IoctlInv, IoctlType, Mutex
<1>3. I!CurCounts'
  BY <1>0, <1>a DEF IoctlInv, I!CurCounts
<1>4. ASSUME I!NoneLeft' PROVE UnderWay' /\ Relied' /\ Known'
  <2>0. UnderWay /\ Relied /\ Known
    BY <1>0, <1>4 DEF IoctlInv, Separate
  <2>1. Waiting /\ Storing /\ ~AtRest /\ ~AtRest'
    BY <2>0, <1>0, <1>a DEF UnderWay, Asked, Returned, AtRest
  <2>2. UnderWay'
    BY <2>1, <1>0, <1>a, <1>b DEF UnderWay, Storing, Answered, Waiting
  <2>3. Relied'
    BY <2>0, <2>1, <1>0 DEF Relied, Waiting
  <2>4. Known'
    BY <2>0, <2>1, <1>0, <1>a, <1>b DEF Known, Waiting, Woken
  <2> QED
    BY <2>2, <2>3, <2>4
<1>5. ASSUME MaxResp + iReqid' <= NrPktids PROVE InOrder'
  <2>0. InOrder
    BY <1>0, <1>5 DEF IoctlInv, Fresh
  <2> QED
    BY <2>0, <1>0, <1>a, <1>b DEF InOrder, Busy
<1> QED
  BY <1>1, <1>2, <1>3, <1>4, <1>5 DEF IoctlInv, Separate, Fresh

\* It wakes the caller.
LEMMA WakeInv ==
    ASSUME IoctlInv, I!Wake
    PROVE  IoctlInv'
<1> USE IoctlAssumption
<1>0. /\ iIrq.step = "wake" /\ iCompleted' = TRUE /\ iIrq' = [iIrq EXCEPT !.step = "post"]
      /\ UNCHANGED <<iOwner, iPc, iMine, iResult, iReqid, iIoctbuf, iRing, iStatus, iPktid,
                     iComps, iPosted, iCur, iInuse, iLast, iContent, iUnseen, iTimeouts, iMissed>>
  BY DEF I!Wake, I!callerVars, I!bufVars
<1>a. /\ iIrq \in [step : {"idle", "pktid", "wake", "post"}, req : 0 .. MaxCmds,
                   pktid : I!PacketIds]
      /\ iIrq' \in [step : {"idle", "pktid", "wake", "post"}, req : 0 .. MaxCmds,
                    pktid : I!PacketIds]
      /\ iIrq'.step = "post" /\ iIrq'.pktid = iIrq.pktid
  BY <1>0 DEF IoctlInv, IoctlType
<1>b. I!AtFirmware' = I!AtFirmware /\ (OnceEach' <=> OnceEach) /\ Returning' = Returning
  BY <1>0, SameBuffers DEF Returning
<1>1. IoctlType'
  BY <1>0, <1>a DEF IoctlInv, IoctlType
<1>2. Mutex'
  BY <1>0 DEF IoctlInv, IoctlType, Mutex
<1>3. I!CurCounts'
  BY <1>0, <1>a DEF IoctlInv, I!CurCounts
<1>4. ASSUME I!NoneLeft' PROVE UnderWay' /\ Relied' /\ Known'
  <2>0. UnderWay /\ Relied /\ Known
    BY <1>0, <1>4 DEF IoctlInv, Separate
  <2>1. Waiting /\ Storing /\ ~AtRest /\ AtRest'
    BY <2>0, <1>0, <1>a DEF UnderWay, Asked, Returned, AtRest
  <2>2. \A d \in Callers : iPc[d] \in {"idle", "wait"}
    BY <2>1, NobodyElse DEF Waiting, IoctlInv
  <2>3. ~Waiting' /\ Woken' /\ iPktid = iIrq.pktid
    BY <2>1, <1>0 DEF Waiting, Woken, Storing
  <2>4. UnderWay'
    BY <2>1, <2>3, <1>0 DEF UnderWay, Storing
  <2>5. iStatus' = iReqid' /\ Answered(iPktid)'
    BY <2>1, <2>3, <1>0, <1>b DEF Storing, Answered
  <2>6. Relied'
    BY <2>0, <2>2, <2>5, <1>0 DEF Relied
  <2>7. Known'
    BY <2>0, <2>1, <2>3, <1>0, <1>b DEF Known, Waiting, Woken
  <2> QED
    BY <2>4, <2>6, <2>7
<1>5. ASSUME MaxResp + iReqid' <= NrPktids PROVE InOrder'
  <2>0. InOrder
    BY <1>0, <1>5 DEF IoctlInv, Fresh
  <2> QED
    BY <2>0, <1>0, <1>a, <1>b DEF InOrder, Busy
<1> QED
  BY <1>1, <1>2, <1>3, <1>4, <1>5 DEF IoctlInv, Separate, Fresh

\* It replaces the buffer that was used.
LEMMA RepostInv ==
    ASSUME IoctlInv, I!Repost
    PROVE  IoctlInv'
<1> USE IoctlAssumption
<1>0. /\ iIrq.step = "post" /\ I!PostBuffers(I!Used(iCur)) /\ iIrq' = I!NoIrq
      /\ UNCHANGED <<iOwner, iPc, iMine, iResult, iReqid, iIoctbuf, iRing, iCompleted, iStatus,
                     iPktid, iComps, iContent, iUnseen, iTimeouts, iMissed>>
  BY DEF I!Repost, I!callerVars
<1> DEFINE n == iCur - 1
<1>a. /\ iCur \in 0 .. MaxResp /\ Len(iPosted) \in Nat /\ Len(iComps) \in Nat
      /\ iCur = Len(iPosted) + Len(iComps) + 1
  <2>1. Len(iPosted) \in Nat /\ Len(iComps) \in Nat
    BY LenProperties DEF IoctlInv, IoctlType
  <2> QED
    BY <1>0, <2>1 DEF IoctlInv, IoctlType, I!CurCounts
<1>b. n \in 0 .. MaxResp /\ I!Used(iCur) = n /\ MaxResp \in Nat
  BY <1>a DEF I!Used
<1> HIDE DEF n
<1>c. PICK new \in SUBSET Free, order \in Seq(I!PacketIds) :
             /\ new = {p \in Free : I!Rank(p) <= MaxResp - n}
             /\ IsFiniteSet(new) /\ Cardinality(new) = Len(order) /\ Len(order) <= MaxResp - n
             /\ \A i \in 1 .. Len(order) : order[i] \in new
             /\ \A p \in new : \E i \in 1 .. Len(order) : order[i] = p
             /\ \A i, j \in 1 .. Len(order) : order[i] = order[j] => i = j
             /\ iInuse' = iInuse \cup new
             /\ iPosted' = iPosted \o order
             /\ iCur' = n + Len(order)
             /\ iLast' = IF new = {} THEN iLast ELSE order[Len(order)]
  <2>1. iLast \in I!PacketIds /\ iInuse \subseteq I!PacketIds /\ iPosted \in Seq(I!PacketIds)
    BY DEF IoctlInv, IoctlType
  <2>2. I!PostBuffers(n)
    BY <1>0, <1>b
  <2> QED
    BY <1>b, <2>1, <2>2, PostFacts
<1>d. /\ iPosted' \in Seq(I!PacketIds) /\ Len(iPosted') = Len(iPosted) + Len(order)
      /\ I!AtFirmware' = I!AtFirmware \cup new
      /\ OnceEach /\ new \cap I!AtFirmware = {} => OnceEach'
  <2>1. iPosted \in Seq(I!PacketIds)
    BY DEF IoctlInv, IoctlType
  <2> QED
    BY <1>c, <2>1, AddsNew
<1>e. new \cap iInuse = {} /\ new \subseteq I!PacketIds /\ Len(order) \in Nat
  BY <1>c, LenProperties DEF Free
<1>f. iIrq'.step = "idle" /\ AtRest /\ AtRest' /\ Returning' = Returning
  BY <1>0 DEF I!NoIrq, AtRest, Returning
<1>1. IoctlType'
  <2>1. iIrq' \in [step : {"idle", "pktid", "wake", "post"}, req : 0 .. MaxCmds,
                   pktid : I!PacketIds]
    BY <1>0 DEF I!NoIrq, I!PacketIds
  <2>2. iLast' \in I!PacketIds
    <3>1. CASE new = {}
      BY <3>1, <1>c DEF IoctlInv, IoctlType
    <3>2. CASE new # {}
      <4>1. Len(order) \in 1 .. Len(order)
        BY <3>2, <1>c, <1>e
      <4> QED
        BY <3>2, <4>1, <1>c, <1>e
    <3> QED
      BY <3>1, <3>2
  <2>3. iCur' \in 0 .. MaxResp /\ iInuse' \subseteq I!PacketIds
    <3>1. iCur' \in 0 .. MaxResp
      BY <1>b, <1>c, <1>e
    <3>2. iInuse \subseteq I!PacketIds
      BY DEF IoctlInv, IoctlType
    <3> QED
      BY <3>1, <3>2, <1>c, <1>e
  <2> QED
    BY <2>1, <2>2, <2>3, <1>0, <1>d DEF IoctlInv, IoctlType
<1>2. Mutex'
  BY <1>0 DEF IoctlInv, IoctlType, Mutex
<1>3. I!CurCounts'
  BY <1>0, <1>a, <1>c, <1>d, <1>e, <1>f DEF I!CurCounts, n
<1>4. ASSUME I!NoneLeft' PROVE UnderWay' /\ Relied' /\ Known'
  <2>0. UnderWay /\ Relied /\ Known
    BY <1>0, <1>4 DEF IoctlInv, Separate
  <2>1. ~Waiting => iRing = <<>> /\ iComps = <<>>
    BY <2>0 DEF UnderWay
  <2>2. \A p \in I!PacketIds : Answered(p) => Answered(p)'
    BY <1>0, <1>c, <1>d, <1>e DEF Answered
  <2>3. Waiting' <=> Waiting
    BY <1>0 DEF Waiting
  <2>4. Waiting => Asked' \/ Returned'
    <3>1. CASE Asked
      BY <3>1, <1>0, <1>f DEF Asked
    <3>2. CASE Returned
      <4>1. iComps[1].pktid \in I!PacketIds
        <5>1. iComps \in Seq(Answer) /\ 1 \in 1 .. Len(iComps)
          BY <3>2 DEF Returned, IoctlInv, IoctlType
        <5>2. iComps[1] \in Answer
          BY <5>1, ElementOfSeq
        <5> QED
          BY <5>2 DEF Answer
      <4> QED
        BY <3>2, <4>1, <2>2, <1>0, <1>f DEF Returned
    <3> QED
      BY <2>0, <3>1, <3>2, <1>f DEF UnderWay, Storing
  <2>5. UnderWay'
    BY <2>1, <2>3, <2>4, <1>0, <1>f DEF UnderWay
  <2>6. Relied'
    <3>1. iPktid \in I!PacketIds
      BY DEF IoctlInv, IoctlType
    <3> QED
      BY <2>0, <2>2, <3>1, <1>0 DEF Relied
  <2>7. OnceEach' /\ I!AtFirmware' \subseteq iInuse'
    BY <2>0, <1>c, <1>d, <1>e DEF Known
  <2>8. Woken => Woken'
    BY <1>0 DEF Woken
  <2>9. Known'
    BY <2>0, <2>7, <2>8, <1>0, <1>c, <1>d, <1>f DEF Known
  <2> QED
    BY <2>5, <2>6, <2>9
<1>5. ASSUME MaxResp + iReqid' <= NrPktids PROVE InOrder'
  <2>0. InOrder
    BY <1>0, <1>5 DEF IoctlInv, Fresh
  <2>1. /\ iLast = MaxResp - 2 + iReqid - Len(iRing) - Len(iComps) /\ iCur = MaxResp
        /\ Len(iRing) \in Nat /\ iReqid \in Nat /\ iReqid' = iReqid
    <3>1. Len(iRing) \in Nat /\ iReqid \in Nat /\ iReqid' = iReqid
      BY <1>0, LenProperties DEF IoctlInv, IoctlType
    <3>2. Busy = 1
      BY <1>0 DEF Busy
    <3> QED
      BY <3>1, <3>2, <2>0, <1>a, <1>b DEF InOrder
  <2> DEFINE l == iLast + 1
  <2>2. /\ l \in I!PacketIds /\ iLast \in I!PacketIds /\ l \in Free
        /\ \A p \in iInuse \cup Returning : p < l /\ p \in Int
    <3>1. iLast \in 0 .. NrPktids - 1 /\ l \in 0 .. NrPktids - 1
      <4>1. iLast \in 0 .. NrPktids - 1
        BY DEF IoctlInv, IoctlType, I!PacketIds
      <4> QED
        BY <4>1, <2>1, <1>a, <1>5
    <3>2. \A p \in iInuse \cup Returning : p \in Int
      <4>1. iComps \in Seq(Answer) /\ iInuse \subseteq I!PacketIds
        BY DEF IoctlInv, IoctlType
      <4>2. \A k \in 1 .. Len(iComps) : iComps[k] \in Answer
        BY <4>1, ElementOfSeq
      <4>3. \A k \in 1 .. Len(iComps) : iComps[k].pktid \in I!PacketIds
        BY <4>2 DEF Answer
      <4> QED
        BY <4>1, <4>3 DEF Returning, I!PacketIds
    <3>3. \A p \in iInuse \cup Returning : p < l
      BY <2>0, <3>1, <3>2 DEF InOrder
    <3> QED
      BY <3>1, <3>2, <3>3 DEF I!PacketIds, Free
  <2> HIDE DEF l
  <2>3. new = {l}
    <3>1. \A p \in Free : I!Found(p) <= I!Found(l) => p = l
      <4>1. I!Found(l) = 0
        BY <2>2 DEF I!Found, l, I!PacketIds
      <4>2. \A p \in Free : I!Found(p) \in Nat
        BY <2>2, FoundOnce DEF Free, I!PacketIds
      <4> QED
        BY <2>2, <4>1, <4>2, FoundOnce DEF Free
    <3>2. I!Rank(l) = 1
      <4>1. {p \in I!PacketIds \ iInuse : I!Found(p) <= I!Found(l)} = {l}
        <5>1. I!Found(l) <= I!Found(l)
          BY <2>2, FoundOnce DEF I!PacketIds
        <5> QED
          BY <3>1, <5>1, <2>2 DEF Free
      <4> QED
        BY <4>1, SameCardinality, FS_Singleton DEF I!Rank
    <3>3. MaxResp - n = 1
      BY <2>1, <1>b DEF n
    <3>4. \A p \in Free : I!Rank(p) <= 1 => I!Rank(p) = 1
      BY <2>2, RankFacts
    <3>5. l \in new
      BY <3>2, <3>3, <2>2, <1>c
    <3>6. \A p \in new : p = l
      BY <3>2, <3>3, <3>4, <2>2, <1>c, RankFacts
    <3> QED
      BY <3>5, <3>6
  <2>4. Len(order) = 1 /\ iLast' = l
    <3>1. Len(order) = 1
      BY <2>3, <1>c, FS_Singleton
    <3> QED
      BY <3>1, <2>3, <1>c
  <2>5. /\ iLast' = MaxResp - 1 + iReqid' - Len(iRing') - Len(iComps') - Busy'
        /\ iCur' = MaxResp
    BY <2>1, <2>4, <1>0, <1>a, <1>b, <1>c, <1>f DEF Busy, n, l
  <2>6. OnceEach' /\ I!AtFirmware' \subseteq iInuse'
    BY <2>0, <1>c, <1>d, <1>e DEF InOrder
  <2>7. \A p \in iInuse' \cup Returning' : p <= iLast'
    BY <2>2, <2>3, <2>4, <1>c, <1>f DEF l, I!PacketIds
  <2>8. \A p \in Returning' : p \notin I!AtFirmware'
    BY <2>0, <2>2, <2>3, <1>d, <1>f DEF InOrder
  <2>9. iCompleted' => iPktid' <= iLast' /\ iPktid' \notin I!AtFirmware'
    <3>1. iPktid \in Int /\ iLast \in Int
      BY <2>2 DEF IoctlInv, IoctlType, I!PacketIds
    <3> QED
      BY <2>0, <2>3, <2>4, <3>1, <1>0, <1>d DEF InOrder, l
  <2> QED
    BY <2>5, <2>6, <2>7, <2>8, <2>9, <1>f DEF InOrder
<1> QED
  BY <1>1, <1>2, <1>3, <1>4, <1>5 DEF IoctlInv, Separate, Fresh

\* At first no command is under way and the firmware has every response buffer.
LEMMA IoctlInitInv == I!Init => IoctlInv
<1> SUFFICES ASSUME I!Init PROVE IoctlInv
  OBVIOUS
<1> USE IoctlAssumption
<1>1. /\ MaxResp \in Nat /\ MaxResp >= 1 /\ MaxResp <= NrPktids /\ NrPktids \in Nat /\ MaxCmds \in Nat
      /\ MaxTimeouts \in Nat /\ MaxMissed \in Nat /\ None \notin Callers
  OBVIOUS
<1>2. /\ iPosted = [i \in 1 .. MaxResp |-> i - 1] /\ iRing = <<>> /\ iComps = <<>>
      /\ iInuse = 0 .. MaxResp - 1 /\ iLast = MaxResp - 1 /\ iCur = MaxResp
      /\ iPc = [c \in Callers |-> "idle"] /\ iMine = [c \in Callers |-> 0]
      /\ iResult = [c \in Callers |-> None] /\ iOwner = None
      /\ iReqid = 0 /\ iIoctbuf = 0 /\ iCompleted = FALSE /\ iStatus = 0 /\ iPktid = 0
      /\ iIrq = I!NoIrq /\ iContent = [p \in I!PacketIds |-> 0] /\ iTimeouts = 0
      /\ iUnseen = 0 /\ iMissed = 0
  BY DEF I!Init
<1>3. iPosted \in Seq(I!PacketIds) /\ Len(iPosted) = MaxResp
  <2>1. \A i \in 1 .. MaxResp : i - 1 \in 0 .. NrPktids - 1
    BY <1>1
  <2> QED
    BY <1>1, <1>2, <2>1 DEF I!PacketIds
<1>4. iIrq.step = "idle" /\ iIrq.req = 0 /\ iIrq.pktid = 0
  BY <1>2 DEF I!NoIrq
<1>5. /\ I!AtFirmware = {iPosted[k] : k \in 1 .. MaxResp}
      /\ \A k \in 1 .. MaxResp : iPosted[k] = k - 1
  BY <1>2, <1>3, FirmwareHas
<1>6. I!AtFirmware = iInuse
  <2>1. I!AtFirmware \subseteq iInuse
    BY <1>1, <1>2, <1>5
  <2>2. ASSUME NEW p \in iInuse PROVE p \in I!AtFirmware
    <3>1. p + 1 \in 1 .. MaxResp /\ p = (p + 1) - 1
      BY <1>1, <1>2, <2>2
    <3> QED
      BY <3>1, <1>5
  <2> QED
    BY <2>1, <2>2
<1>7. OnceEach
  BY <1>1, <1>3, <1>5 DEF OnceEach
<1>8. IoctlType
  <2>1. 0 \in I!PacketIds /\ iLast \in I!PacketIds /\ iInuse \subseteq I!PacketIds
    BY <1>1, <1>2 DEF I!PacketIds
  <2>2. iIrq \in [step : {"idle", "pktid", "wake", "post"}, req : 0 .. MaxCmds,
                 pktid : I!PacketIds]
    BY <1>1, <1>2, <2>1 DEF I!NoIrq
  <2>3. iOwner \in Callers \cup {None} /\ iPc \in [Callers -> {"idle", "locked", "send", "wait", "status"}]
    BY <1>2
  <2>4. iMine \in [Callers -> 0 .. MaxCmds]
    BY <1>1, <1>2
  <2>5. iResult \in [Callers -> {None} \cup [data : 0 .. MaxCmds, status : 0 .. MaxCmds]]
    BY <1>2
  <2>6. iContent \in [I!PacketIds -> 0 .. MaxCmds]
    BY <1>1, <1>2
  <2>7. iRing \in Seq(0 .. MaxCmds) /\ iComps \in Seq(Answer)
    BY <1>2, EmptySeq
  <2>8. /\ iReqid \in 0 .. MaxCmds /\ iIoctbuf \in 0 .. MaxCmds /\ iCompleted \in BOOLEAN
        /\ iStatus \in 0 .. MaxCmds /\ iPktid \in I!PacketIds /\ iCur \in 0 .. MaxResp
        /\ iTimeouts \in 0 .. MaxTimeouts /\ iMissed \in 0 .. MaxMissed
    <3>1. 0 \in 0 .. MaxCmds /\ 0 \in 0 .. MaxTimeouts /\ 0 \in 0 .. MaxMissed /\ MaxResp \in 0 .. MaxResp
      BY <1>1
    <3>2. /\ iReqid = 0 /\ iIoctbuf = 0 /\ iCompleted = FALSE /\ iStatus = 0 /\ iPktid = 0
          /\ iCur = MaxResp /\ iTimeouts = 0 /\ iMissed = 0
      BY <1>2
    <3>3. FALSE \in BOOLEAN
      OBVIOUS
    <3> QED
      BY <2>1, <3>1, <3>2, <3>3, Zenon
  <2>9. iUnseen \in 0 .. Len(iRing)
    BY <1>2, EmptySeq
  <2> QED
    BY <1>3, <2>1, <2>2, <2>3, <2>4, <2>5, <2>6, <2>7, <2>8, <2>9 DEF IoctlType
<1>9. Mutex
  BY <1>1, <1>2 DEF Mutex
<1>10. I!CurCounts
  BY <1>1, <1>2, <1>3, <1>4, EmptySeq DEF I!CurCounts
<1>11. Returning = {} /\ AtRest /\ ~Waiting /\ ~Woken
  BY <1>2, <1>4 DEF Returning, AtRest, Waiting, Woken
<1>12. Separate
  BY <1>2, <1>6, <1>7, <1>11 DEF Separate, UnderWay, Relied, Known
<1>13. Fresh
  BY <1>1, <1>2, <1>4, <1>6, <1>7, <1>11, EmptySeq DEF Fresh, InOrder, Busy
<1> QED
  BY <1>8, <1>9, <1>10, <1>12, <1>13 DEF IoctlInv

\* The other parts leave the commands alone.
LEMMA IoctlKept == ASSUME IoctlInv, UNCHANGED iVars PROVE IoctlInv'
<1>1. /\ iOwner' = iOwner /\ iPc' = iPc /\ iMine' = iMine /\ iResult' = iResult /\ iReqid' = iReqid
      /\ iIoctbuf' = iIoctbuf /\ iRing' = iRing /\ iCompleted' = iCompleted
      /\ iStatus' = iStatus /\ iPktid' = iPktid /\ iIrq' = iIrq /\ iComps' = iComps
      /\ iPosted' = iPosted /\ iCur' = iCur /\ iInuse' = iInuse /\ iLast' = iLast
      /\ iContent' = iContent /\ iTimeouts' = iTimeouts
      /\ iUnseen' = iUnseen /\ iMissed' = iMissed
  BY DEF iVars
<1>2. I!AtFirmware' = I!AtFirmware /\ Returning' = Returning /\ OnceEach' = OnceEach
  BY <1>1 DEF I!AtFirmware, Returning, OnceEach
<1>3. IoctlType'
  BY <1>1 DEF IoctlInv, IoctlType
<1>4. Mutex'
  BY <1>1 DEF IoctlInv, Mutex
<1>5. I!CurCounts'
  BY <1>1 DEF IoctlInv, I!CurCounts
<1>6. AtRest' = AtRest /\ Waiting' = Waiting /\ Woken' = Woken /\ Busy' = Busy
  BY <1>1 DEF AtRest, Waiting, Woken, Busy
<1>8. Asked' = Asked
  BY <1>1, <1>6 DEF Asked
<1>9. Returned' = Returned
  <2>1. Answered(iComps[1].pktid)' = Answered(iComps[1].pktid)
    BY <1>1, <1>2 DEF Answered
  <2> QED
    BY <1>1, <1>6, <2>1 DEF Returned
<1>10. Storing' = Storing
  <2>1. Answered(iIrq.pktid)' = Answered(iIrq.pktid)
    BY <1>1, <1>2 DEF Answered
  <2> QED
    BY <1>1, <1>6, <2>1 DEF Storing
<1>11. UnderWay' = UnderWay
  BY <1>1, <1>6, <1>8, <1>9, <1>10 DEF UnderWay
<1>12. Relied' = Relied
  <2>1. Answered(iPktid)' = Answered(iPktid)
    BY <1>1, <1>2 DEF Answered
  <2> QED
    BY <1>1, <2>1 DEF Relied
<1>13. Known' = Known
  BY <1>1, <1>2, <1>6 DEF Known
<1>14. Separate'
  BY <1>1, <1>11, <1>12, <1>13 DEF IoctlInv, Separate
<1>15. InOrder' = InOrder
  BY <1>1, <1>2, <1>6 DEF InOrder
<1>16. Fresh'
  BY <1>1, <1>15 DEF IoctlInv, Fresh
<1> QED
  BY <1>3, <1>4, <1>5, <1>14, <1>16 DEF IoctlInv

\* Every step keeps the invariant of the commands.
LEMMA IoctlStepInv == IoctlInv /\ [MsgbufNext]_allVars => IoctlInv'
<1> SUFFICES ASSUME IoctlInv, [MsgbufNext]_allVars PROVE IoctlInv'
  OBVIOUS
<1>1. CASE UNCHANGED iVars
  BY <1>1, IoctlKept
<1>2. CASE I!Next
  BY <1>2, LockInv, RefuseInv, ClearInv, SendInv, TimeoutInv, TakeBufferInv, ReadStatusInv,
     FirmwareInv, StoreStatusInv, StorePktidInv, WakeInv, RepostInv
    DEF I!Next, I!Caller, I!Irq
<1> QED
  BY <1>1, <1>2 DEF MsgbufNext, CompleteNext, IoctlNext, FlowNext, allVars

\* The inductive invariant of the commands holds in every reachable state.
THEOREM IoctlInvariant == MsgbufSpec => []IoctlInv
<1>1. MsgbufInit => IoctlInv
  BY IoctlInitInv DEF MsgbufInit
<1> QED
  BY <1>1, IoctlStepInv, PTL DEF MsgbufSpec

\* With no request left behind, a command returns with the status and the data of
\* its own answer, and the firmware reads its own input.
LEMMA SeparateFacts == IoctlInv => I!CommandsSeparate
<1> SUFFICES ASSUME IoctlInv, I!NoneLeft PROVE I!OwnAnswer /\ I!InputIntact
  BY DEF I!CommandsSeparate, I!OwnAnswer, I!InputIntact
<1>1. UnderWay /\ Relied
  BY DEF IoctlInv, Separate
<1>2. I!OwnAnswer
  BY <1>1 DEF Relied, I!OwnAnswer
<1>3. I!Cardinality({c \in Callers : iPc[c] # "idle"}) <= 1
  <2> DEFINE S == {c \in Callers : iPc[c] # "idle"}
  <2>1. S \subseteq {iOwner}
    BY DEF IoctlInv, Mutex
  <2>2. Cardinality(S) <= Cardinality({iOwner}) /\ Cardinality({iOwner}) = 1
        /\ IsFiniteSet(S)
    BY <2>1, FS_Singleton, FS_Subset
  <2>3. Cardinality(S) \in Nat
    BY <2>2, FS_CardinalityType
  <2>4. I!Cardinality(S) = Cardinality(S)
    BY SameCardinality
  <2> HIDE DEF S
  <2>5. I!Cardinality(S) <= 1
    BY <2>2, <2>3, <2>4
  <2> QED
    BY <2>5 DEF S
<1>4. iRing # <<>> => iIoctbuf = Head(iRing)
  BY <1>1 DEF UnderWay, Asked, Returned, Storing
<1> QED
  BY <1>2, <1>3, <1>4 DEF I!InputIntact

\* Different buffers are as many as the places they are posted in.
LEMMA CountPosted ==
    ASSUME iPosted \in Seq(I!PacketIds), OnceEach
    PROVE  I!Cardinality(I!AtFirmware) = Len(iPosted)
<1> DEFINE f == [k \in 1 .. Len(iPosted) |-> iPosted[k]]
<1>1. Len(iPosted) \in Nat /\ I!AtFirmware = {iPosted[k] : k \in 1 .. Len(iPosted)}
  BY FirmwareHas, LenProperties
<1>2. f \in Bijection(1 .. Len(iPosted), I!AtFirmware)
  <2>1. f \in Injection(1 .. Len(iPosted), I!AtFirmware)
    BY <1>1 DEF Injection, IsInjective, OnceEach
  <2>2. f \in Surjection(1 .. Len(iPosted), I!AtFirmware)
    BY <1>1 DEF Surjection
  <2> QED
    BY <2>1, <2>2 DEF Bijection
<1>3. Cardinality(I!AtFirmware) = Len(iPosted)
  BY <1>1, <1>2, FS_CountingElements DEF ExistsBijection
<1> QED
  BY <1>3, SameCardinality

\* No response buffer is lost or posted twice.
LEMMA ConservedFacts == IoctlInv => I!BuffersConserved
<1> SUFFICES ASSUME IoctlInv PROVE I!BuffersConserved
  OBVIOUS
<1>1. IoctlType /\ I!CurCounts /\ iPosted \in Seq(I!PacketIds) /\ iComps \in Seq(Answer)
  BY DEF IoctlInv, IoctlType
<1>2. I!TypeOK
  <2>1. I!AtFirmware \subseteq I!PacketIds
    BY <1>1, FirmwareHas, ElementOfSeq
  <2> QED
    BY <1>1, <2>1 DEF IoctlType, I!TypeOK
<1>3. I!PostedOnce
  <2> SUFFICES ASSUME I!NoneLeft \/ MaxResp + iReqid <= NrPktids
               PROVE  I!AtFirmware \subseteq iInuse /\ OnceEach
    BY <1>1, CountPosted DEF I!PostedOnce
  <2> QED
    BY DEF IoctlInv, Separate, Known, Fresh, InOrder
<1>4. ASSUME I!NoneLeft, NEW p \in iInuse, p \notin I!AtFirmware, p \notin I!Held
      PROVE  Woken /\ p = iPktid
  <2>1. Returning \subseteq I!Held
    <3>1. DOMAIN iComps = 1 .. Len(iComps)
      BY <1>1, LenProperties
    <3> QED
      BY <3>1 DEF Returning, I!Held
  <2>2. ~AtRest => iIrq.pktid \in I!Held
    BY DEF AtRest, I!Held
  <2> QED
    BY <1>4, <2>1, <2>2 DEF IoctlInv, Separate, Known
<1>5. I!NoLeakWithoutTimeout
  BY <1>4 DEF I!NoLeakWithoutTimeout, Woken
<1> QED
  BY <1>1, <1>2, <1>3, <1>5 DEF I!BuffersConserved

\* Commands do not see each other although they share the input buffer, the flag
\* and the answer's variables, and the response buffers are conserved and counted
\* (brcmf_msgbuf_query_dcmd, brcmf_msgbuf_rxbuf_ioctlresp_post).
THEOREM CommandsSeparateHolds == MsgbufSpec => []CommandsSeparate
<1>1. IoctlInv => CommandsSeparate
  BY SeparateFacts, ConservedFacts DEF CommandsSeparate
<1> QED
  BY <1>1, IoctlInvariant, PTL

---------------------------------------------------------------------------
(***************************************************************************)
(* The completion ring.                                                    *)
(***************************************************************************)
USE DepthAssumption, ThrsAssumption, MaxMsgsAssumption

\* The configured, empty ring satisfies the invariant.
LEMMA InitInv == Init => CompletionInv
<1> SUFFICES ASSUME Init PROVE CompletionInv
  OBVIOUS
<1>1. 0 \in Slots
  BY DEF Slots
<1>2. TypeOK
  <2>1. bell \in BOOLEAN /\ pc \in {"idle", "look", "work"}
    BY Zenon DEF Init
  <2>2. slot \in [Slots -> Nat]
    BY DEF Init
  <2>3. buf \in 0..Depth /\ count \in Nat /\ buf + count <= Depth /\ processed \in Nat /\ sent \in Nat /\ got \in Nat
    BY DEF Init
  <2> QED
    BY <1>1, <2>1, <2>2, <2>3 DEF Init, TypeOK
<1>3. Position
  BY DEF Init, Position, Ahead
<1>4. ASSUME NEW i \in Slots PROVE ~(Ahead(devR, i) < Ahead(devR, devW))
  BY DEF Init, Ahead, Slots
<1> QED
  BY <1>2, <1>3, <1>4 DEF CompletionInv, NothingLost

\* A post by the device, into the slot its own check found free.
LEMMA PostInv ==
    ASSUME CompletionInv, DevicePost
    PROVE  CompletionInv'
<1>0. /\ r_ptr \in Slots /\ w_ptr \in Slots /\ devR \in Slots /\ devW \in Slots
      /\ devR = r_ptr
      /\ buf \in 0..Depth /\ count \in Nat /\ buf + count <= Depth
      /\ processed \in Nat /\ sent \in Nat /\ got \in Nat
      /\ slot \in [Slots -> Nat]
  BY DEF CompletionInv, TypeOK, Position
<1>1. /\ Wrapped(devW + 1) # devR /\ slot' = [slot EXCEPT ![devW] = sent]
      /\ devW' = Wrapped(devW + 1) /\ sent' = sent + 1 /\ bell' = TRUE
      /\ UNCHANGED <<r_ptr, w_ptr, pc, buf, count, processed, devR, got>>
  BY DEF DevicePost
<1>2. devW' \in Slots /\ Ahead(devR, devW') = Ahead(devR, devW) + 1
  BY <1>1, <1>0 DEF Ahead, Slots, Wrapped
<1>3. TypeOK'
  <2>1. slot' \in [Slots -> Nat]
    BY <1>1, <1>0
  <2>2. bell' \in BOOLEAN
    BY <1>1
  <2> QED
    BY <1>1, <1>2, <2>1, <2>2, <1>0 DEF CompletionInv, TypeOK
<1>4. Position'
  <2>1. Ahead(devR', devW') = Ahead(devR, devW) + 1
    BY <1>1, <1>2
  <2>2. Ahead(devR, devW) \in Int
    BY <1>0 DEF Ahead, Slots
  <2> QED
    BY <1>1, <2>1, <2>2, <1>0 DEF CompletionInv, Position
<1>5. ASSUME NEW i \in Slots, Ahead(devR, i) < Ahead(devR, devW'), Ahead(devR, i) >= processed
      PROVE  slot'[i] = got - processed + Ahead(devR, i)
  <2>1. Ahead(devR, i) \in Int /\ Ahead(devR, devW) \in Int
    BY <1>0 DEF Ahead, Slots
  <2>2. CASE i = devW
    BY <1>1, <2>1, <2>2, <1>0 DEF CompletionInv, Position
  <2>3. CASE i # devW
    <3>1. Ahead(devR, i) # Ahead(devR, devW)
      BY <2>3, <1>0 DEF Ahead, Slots
    <3>2. Ahead(devR, i) < Ahead(devR, devW)
      BY <1>2, <1>5, <2>1, <3>1
    <3>3. slot'[i] = slot[i]
      BY <1>1, <2>3, <1>0
    <3> QED
      BY <1>5, <3>2, <3>3 DEF CompletionInv, NothingLost
  <2> QED
    BY <2>2, <2>3
<1>6. NothingLost'
  <2>1. devR' = devR /\ got' = got /\ processed' = processed
    BY <1>1
  <2> QED
    BY <1>5, <2>1 DEF NothingLost, Ahead
<1> QED
  BY <1>3, <1>4, <1>6 DEF CompletionInv

\* Handing n handled slots back keeps every unhandled message in place.
LEMMA HandBack ==
    ASSUME CompletionInv, NEW n \in Nat, n <= Ahead(devR, devW), r_ptr + n <= Depth
    PROVE  /\ Wrapped(r_ptr + n) \in Slots
           /\ Ahead(Wrapped(r_ptr + n), devW) = Ahead(devR, devW) - n
           /\ \A i \in Slots :
                Ahead(Wrapped(r_ptr + n), i) < Ahead(Wrapped(r_ptr + n), devW)
                => /\ Ahead(devR, i) = Ahead(Wrapped(r_ptr + n), i) + n
                   /\ Ahead(devR, i) < Ahead(devR, devW)
<1>0. /\ r_ptr \in Slots /\ w_ptr \in Slots /\ devR \in Slots /\ devW \in Slots
      /\ devR = r_ptr
      /\ buf \in 0..Depth /\ count \in Nat /\ buf + count <= Depth
      /\ processed \in Nat /\ sent \in Nat /\ got \in Nat
      /\ slot \in [Slots -> Nat]
  BY DEF CompletionInv, TypeOK, Position
<1>1. Wrapped(r_ptr + n) \in Slots
  BY <1>0 DEF Slots, Wrapped
<1>2. Ahead(Wrapped(r_ptr + n), devW) = Ahead(devR, devW) - n
  BY <1>0 DEF Slots, Wrapped, Ahead
<1>3. ASSUME NEW i \in Slots, Ahead(Wrapped(r_ptr + n), i) < Ahead(Wrapped(r_ptr + n), devW)
      PROVE  /\ Ahead(devR, i) = Ahead(Wrapped(r_ptr + n), i) + n
             /\ Ahead(devR, i) < Ahead(devR, devW)
  BY <1>2, <1>3, <1>0 DEF Slots, Wrapped, Ahead
<1> QED
  BY <1>1, <1>2, <1>3

\* Handling one message, with or without handing the slots back.
LEMMA ProcessInv ==
    ASSUME CompletionInv, Process
    PROVE  CompletionInv'
<1>0. /\ r_ptr \in Slots /\ w_ptr \in Slots /\ devR \in Slots /\ devW \in Slots
      /\ devR = r_ptr
      /\ buf \in 0..Depth /\ count \in Nat /\ buf + count <= Depth
      /\ processed \in Nat /\ sent \in Nat /\ got \in Nat
      /\ slot \in [Slots -> Nat]
  BY DEF CompletionInv, TypeOK, Position
<1>1. /\ pc = "work" /\ count > 0 /\ got' = got + 1 /\ buf' = buf + 1 /\ count' = count - 1
      /\ UNCHANGED <<w_ptr, pc, slot, devW, sent, bell>>
  BY DEF Process, device
<1>2. r_ptr + processed = buf /\ processed + count <= Ahead(devR, devW)
  BY <1>1 DEF CompletionInv, Position
<1>3. Ahead(devR, devW) \in Int /\ sent = got - processed + Ahead(devR, devW)
  BY <1>0 DEF CompletionInv, Position, Ahead, Slots
<1>4. CASE processed + 1 # Thrs
  <2>1. processed' = processed + 1 /\ r_ptr' = r_ptr /\ devR' = devR
    BY <1>4 DEF Process
  <2>2. TypeOK'
    BY <1>1, <1>2, <2>1, <1>0 DEF CompletionInv, TypeOK
  <2>3. Ahead(devR', devW') = Ahead(devR, devW)
    BY <1>1, <2>1
  <2>4. Position'
    BY <1>1, <1>2, <1>3, <2>1, <2>3, <1>0 DEF CompletionInv, Position, Slots
  <2>5. ASSUME NEW i \in Slots, Ahead(devR, i) < Ahead(devR, devW), Ahead(devR, i) >= processed'
        PROVE  slot[i] = got' - processed' + Ahead(devR, i)
    <3>1. Ahead(devR, i) \in Int
      BY <1>0 DEF Ahead, Slots
    <3>2. slot[i] = got - processed + Ahead(devR, i)
      BY <2>1, <2>5, <3>1, <1>0 DEF CompletionInv, NothingLost
    <3> QED
      BY <1>1, <2>1, <3>1, <3>2, <1>0
  <2>6. NothingLost'
    BY <1>1, <2>1, <2>5 DEF NothingLost, Ahead
  <2> QED
    BY <2>2, <2>4, <2>6 DEF CompletionInv
<1>5. CASE processed + 1 = Thrs
  <2> DEFINE n == processed + 1
             back == Wrapped(r_ptr + n)
  <2>1. processed' = 0 /\ r_ptr' = back /\ devR' = back
    BY <1>5 DEF Process, ReadComplete
  <2>2. n \in Nat /\ n <= Ahead(devR, devW) /\ r_ptr + n <= Depth
    BY <1>1, <1>2, <1>3, <1>0 DEF Slots
  <2>3. /\ back \in Slots
        /\ Ahead(back, devW) = Ahead(devR, devW) - n
        /\ \A i \in Slots : Ahead(back, i) < Ahead(back, devW) =>
             Ahead(devR, i) = Ahead(back, i) + n /\ Ahead(devR, i) < Ahead(devR, devW)
    BY <2>2, HandBack
  <2>4. back = IF buf + 1 = Depth THEN 0 ELSE buf + 1
    BY <1>2, <1>0 DEF Wrapped, Slots
  <2>5. n = processed + 1
    OBVIOUS
  <2> HIDE DEF n, back
  <2>6. TypeOK'
    BY <1>1, <1>2, <2>1, <2>3, <1>0 DEF CompletionInv, TypeOK
  <2>7. Ahead(devR', devW') = Ahead(devR, devW) - n
    BY <1>1, <2>1, <2>3
  <2>8. Position'
    BY <1>1, <1>2, <1>3, <2>1, <2>2, <2>4, <2>5, <2>7, <1>0 DEF CompletionInv, Position
  <2>9. ASSUME NEW i \in Slots, Ahead(back, i) < Ahead(back, devW), Ahead(back, i) >= 0
        PROVE  slot[i] = got + 1 + Ahead(back, i)
    <3>1. Ahead(back, i) \in Int
      BY <2>3 DEF Ahead, Slots
    <3>2. Ahead(devR, i) = Ahead(back, i) + n /\ Ahead(devR, i) < Ahead(devR, devW)
      BY <2>3, <2>9
    <3>3. Ahead(devR, i) >= processed
      BY <2>2, <2>5, <2>9, <3>1, <3>2, <1>0
    <3>4. slot[i] = got - processed + Ahead(devR, i)
      BY <3>2, <3>3 DEF CompletionInv, NothingLost
    <3> QED
      BY <2>5, <3>1, <3>2, <3>4, <1>0
  <2>10. NothingLost'
    BY <1>1, <2>1, <2>9, <1>0 DEF NothingLost, Ahead
  <2> QED
    BY <2>6, <2>8, <2>10 DEF CompletionInv
<1> QED
  BY <1>4, <1>5

\* The end of a run.
LEMMA FinishInv ==
    ASSUME CompletionInv, Finish
    PROVE  CompletionInv'
<1>0. /\ r_ptr \in Slots /\ w_ptr \in Slots /\ devR \in Slots /\ devW \in Slots
      /\ devR = r_ptr
      /\ buf \in 0..Depth /\ count \in Nat /\ buf + count <= Depth
      /\ processed \in Nat /\ sent \in Nat /\ got \in Nat
      /\ slot \in [Slots -> Nat]
  BY DEF CompletionInv, TypeOK, Position
<1>1. /\ pc = "work" /\ count = 0 /\ processed' = 0 /\ pc' \in {"look", "idle"}
      /\ UNCHANGED <<w_ptr, buf, count, slot, devW, sent, bell, got>>
  BY DEF Finish, device
<1>2. r_ptr + processed = buf \/ processed = 0
  BY <1>1 DEF CompletionInv, Position
<1>3. processed <= Ahead(devR, devW) /\ Ahead(devR, devW) \in Int /\ sent = got - processed + Ahead(devR, devW)
  BY <1>1, <1>0 DEF CompletionInv, Position, Ahead, Slots
<1>4. r_ptr + processed <= Depth
  BY <1>2, <1>0 DEF Slots
<1> DEFINE back == Wrapped(r_ptr + processed)
<1>5. r_ptr' = back /\ devR' = back
  <2>1. CASE processed > 0
    BY <2>1 DEF Finish, ReadComplete
  <2>2. CASE processed = 0
    BY <2>2, <1>0 DEF Finish, Wrapped, Slots
  <2> QED
    BY <2>1, <2>2, <1>0
<1>6. /\ back \in Slots
      /\ Ahead(back, devW) = Ahead(devR, devW) - processed
      /\ \A i \in Slots : Ahead(back, i) < Ahead(back, devW) =>
           Ahead(devR, i) = Ahead(back, i) + processed /\ Ahead(devR, i) < Ahead(devR, devW)
  BY <1>3, <1>4, HandBack, <1>0
<1> HIDE DEF back
<1>7. TypeOK'
  BY <1>1, <1>5, <1>6, <1>0 DEF CompletionInv, TypeOK
<1>8. Ahead(devR', devW') = Ahead(devR, devW) - processed
  BY <1>1, <1>5, <1>6
<1>9. Position'
  BY <1>1, <1>3, <1>5, <1>8, <1>0 DEF CompletionInv, Position
<1>10. ASSUME NEW i \in Slots, Ahead(back, i) < Ahead(back, devW)
       PROVE  slot[i] = got + Ahead(back, i)
  <2>1. Ahead(back, i) \in Int /\ Ahead(back, i) >= 0
    BY <1>6 DEF Ahead, Slots
  <2>2. Ahead(devR, i) = Ahead(back, i) + processed /\ Ahead(devR, i) < Ahead(devR, devW)
    BY <1>6, <1>10
  <2>3. slot[i] = got - processed + Ahead(devR, i)
    BY <2>1, <2>2, <1>0 DEF CompletionInv, NothingLost
  <2> QED
    BY <2>1, <2>2, <2>3, <1>0
<1>11. NothingLost'
  BY <1>1, <1>5, <1>10, <1>0 DEF NothingLost, Ahead
<1> QED
  BY <1>7, <1>9, <1>11 DEF CompletionInv

\* Every step of the device and of the interrupt thread keeps the invariant.
LEMMA NextInv == CompletionInv /\ [Next]_vars => CompletionInv'
<1> SUFFICES ASSUME CompletionInv, [Next]_vars PROVE CompletionInv'
  OBVIOUS
<1>0. /\ r_ptr \in Slots /\ w_ptr \in Slots /\ devR \in Slots /\ devW \in Slots
      /\ devR = r_ptr
      /\ buf \in 0..Depth /\ count \in Nat /\ buf + count <= Depth
      /\ processed \in Nat /\ sent \in Nat /\ got \in Nat
      /\ slot \in [Slots -> Nat]
  BY DEF CompletionInv, TypeOK, Position
<1>1. CASE DevicePost
  BY <1>1, PostInv
<1>2. CASE Trigger
  <2>1. bell' \in BOOLEAN /\ pc = "idle" /\ pc' = "look"
    BY <1>2 DEF Trigger
  <2>2. UNCHANGED <<r_ptr, w_ptr, buf, count, processed, slot, devW, sent, devR, got>>
    BY <1>2 DEF Trigger, device
  <2> QED
    BY <2>1, <2>2 DEF CompletionInv, TypeOK, Position, NothingLost, Ahead
<1>3. CASE Look
  <2>1. /\ pc = "look" /\ w_ptr' = devW /\ count' = Run(r_ptr, devW) /\ buf' = r_ptr /\ processed' = 0
        /\ pc' \in {"idle", "work"}
        /\ UNCHANGED <<r_ptr, slot, devW, sent, devR, bell, got>>
    BY <1>3 DEF Look, device
  <2>2. processed = 0
    BY <2>1 DEF CompletionInv, Position
  <2>3. /\ count' \in Nat /\ r_ptr + count' <= Depth /\ count' <= Ahead(devR, devW)
    BY <2>1, <1>0 DEF Run, Ahead, Slots
  <2>4. TypeOK'
    BY <2>1, <2>3, <1>0 DEF CompletionInv, TypeOK, Slots
  <2>5. Position'
    BY <2>1, <2>2, <2>3, <1>0 DEF CompletionInv, Position, Ahead, Slots
  <2>6. NothingLost'
    BY <2>1, <2>2 DEF CompletionInv, NothingLost, Ahead
  <2> QED
    BY <2>4, <2>5, <2>6 DEF CompletionInv
<1>4. CASE Process
  BY <1>4, ProcessInv
<1>5. CASE Finish
  BY <1>5, FinishInv
<1>6. CASE Done \/ UNCHANGED vars
  BY <1>6 DEF Done, vars, CompletionInv, TypeOK, Position, NothingLost, Ahead
<1> QED
  BY <1>1, <1>2, <1>3, <1>4, <1>5, <1>6 DEF Next

\* The inductive invariant holds of every behaviour of the ring.
THEOREM Invariance == Spec => []CompletionInv
<1>1. Init => CompletionInv
  BY InitInv
<1>2. CompletionInv /\ [Next]_vars => CompletionInv'
  BY NextInv
<1> QED
  BY <1>1, <1>2, PTL DEF Spec

\* The read index and the run stay inside the ring (process_rx).
THEOREM TypeCorrect == Spec => []TypeOK
<1>1. CompletionInv => TypeOK
  BY DEF CompletionInv
<1> QED
  BY <1>1, Invariance, PTL

\* A completion is never overwritten before it is handled.
THEOREM NeverLoses == Spec => []NothingLost
<1>1. CompletionInv => NothingLost
  BY DEF CompletionInv
<1> QED
  BY <1>1, Invariance, PTL

\* Completions are handled once each and in the order they were posted,
\* for every depth and every hand-back threshold.
THEOREM HandlesInOrder == Spec => []HandledInOrder
<1>1. CompletionInv => HandledInOrder
  <2> SUFFICES ASSUME CompletionInv, pc = "work", count > 0 PROVE slot[buf] = got
    BY DEF HandledInOrder
  <2>0. /\ r_ptr \in Slots /\ w_ptr \in Slots /\ devR \in Slots /\ devW \in Slots
        /\ devR = r_ptr
        /\ buf \in 0..Depth /\ count \in Nat /\ buf + count <= Depth
        /\ processed \in Nat /\ sent \in Nat /\ got \in Nat
        /\ slot \in [Slots -> Nat]
    BY DEF CompletionInv, TypeOK, Position
  <2>1. r_ptr + processed = buf /\ processed + count <= Ahead(devR, devW)
    BY DEF CompletionInv, Position
  <2>2. buf \in Slots
    BY <2>0 DEF Slots
  <2>3. Ahead(devR, buf) = processed /\ processed < Ahead(devR, devW)
    BY <2>1, <2>0 DEF Ahead, Slots
  <2>4. slot[buf] = got - processed + Ahead(devR, buf)
    BY <2>2, <2>3, <2>0 DEF CompletionInv, NothingLost
  <2> QED
    BY <2>3, <2>4, <2>0
<1> QED
  BY <1>1, Invariance, PTL

=============================================================================
