------------------------ MODULE BrcmTransmitProofs --------------------------
(***************************************************************************)
(* Proofs about the transmit path over PCIe, for any number of rings and   *)
(* packets: the flow rings, as part of the data path that MCBrcmTransmit   *)
(* puts together, and then a single submission ring.                       *)
(***************************************************************************)
EXTENDS MCBrcmTransmit, FiniteSetTheorems, WellFoundedInduction, TLAPS

-----------------------------------------------------------------------------
(***************************************************************************)
(* Sums over a finite set: what Total, a fold over the rings, adds up to.  *)
(***************************************************************************)
\* The element the fold takes next, and what one step of it adds.
Pick(s) == CHOOSE x \in s : TRUE
Step(f, it, s) == IF s = {} THEN 0 ELSE f[Pick(s)] + it[s \ {Pick(s)}]

\* A set of natural numbers has a least element.
LEMMA Least ==
    ASSUME NEW N \in SUBSET Nat, N # {}
    PROVE  \E n \in N : \A m \in N : n <= m
<1> DEFINE Less == OpToRel(<, Nat)
<1>1. \A m, n \in Nat : <<m, n>> \in Less <=> m < n
  BY DEF OpToRel
<1>2. IsWellFoundedOn(Less, Nat)
  BY NatLessThanWellFounded
<1> HIDE DEF Less
<1>3. PICK n \in N : \A m \in N : ~(<<m, n>> \in Less)
  BY <1>2, WFMin
<1>4. ASSUME NEW m \in N PROVE n <= m
  <2>1. m \in Nat /\ n \in Nat /\ ~(m < n)
    BY <1>1, <1>3
  <2> QED
    BY <2>1
<1> QED
  BY <1>4

\* What is left of a finite set without the element picked is smaller.
LEMMA PickFacts ==
    ASSUME NEW D, IsFiniteSet(D), D # {}
    PROVE  /\ Pick(D) \in D
           /\ IsFiniteSet(D \ {Pick(D)})
           /\ Cardinality(D) \in Nat /\ Cardinality(D \ {Pick(D)}) = Cardinality(D) - 1
           /\ Cardinality(D \ {Pick(D)}) \in Nat
<1>1. Pick(D) \in D
  BY DEF Pick
<1> QED
  BY <1>1, FS_RemoveElement, FS_CardinalityType, FS_Difference

\* The recursive definition of a sum has a solution.
LEMMA SumExists ==
    ASSUME NEW D, IsFiniteSet(D), NEW f
    PROVE  \E it : it = [s \in SUBSET D |-> Step(f, it, s)]
<1> DEFINE Up(it, n) == \A s \in SUBSET D : Cardinality(s) <= n => it[s] = Step(f, it, s)
           Good(n) == \E it : it = [s \in SUBSET D |-> it[s]] /\ Up(it, n)
           Bad == {n \in Nat : ~Good(n)}
<1>1. \A s \in SUBSET D : IsFiniteSet(s) /\ Cardinality(s) \in Nat
      /\ Cardinality(s) <= Cardinality(D)
  BY FS_Subset, FS_CardinalityType
<1>2. Good(0)
  <2> DEFINE it == [s \in SUBSET D |-> 0]
  <2>1. \A s \in SUBSET D : Cardinality(s) <= 0 => s = {}
    BY <1>1, FS_EmptySet
  <2>2. Up(it, 0)
    BY <2>1 DEF Step
  <2>3. it = [s \in SUBSET D |-> it[s]]
    OBVIOUS
  <2> QED
    BY <2>2, <2>3
<1>3. ASSUME NEW n \in Nat, Good(n) PROVE Good(n + 1)
  <2>1. PICK it : it = [s \in SUBSET D |-> it[s]] /\ Up(it, n)
    BY <1>3
  <2> DEFINE more == [s \in SUBSET D |-> IF Cardinality(s) <= n THEN it[s] ELSE Step(f, it, s)]
  <2>2. ASSUME NEW s \in SUBSET D, Cardinality(s) <= n + 1 PROVE more[s] = Step(f, more, s)
    <3>0. more[s] = Step(f, it, s)
      BY <2>1
    <3>1. CASE s = {}
      BY <3>0, <3>1 DEF Step
    <3>2. CASE s # {}
      <4>1. IsFiniteSet(s)
        BY <1>1
      <4>2. s \ {Pick(s)} \in SUBSET D /\ Cardinality(s \ {Pick(s)}) <= n
        BY <2>2, <3>2, <4>1, PickFacts
      <4>3. more[s \ {Pick(s)}] = it[s \ {Pick(s)}]
        BY <4>2
      <4> QED
        BY <3>0, <3>2, <4>3 DEF Step
    <3> QED
      BY <3>1, <3>2
  <2>3. more = [s \in SUBSET D |-> more[s]]
    OBVIOUS
  <2> HIDE DEF more
  <2> QED
    BY <2>2, <2>3
<1>4. Good(Cardinality(D))
  <2> SUFFICES ASSUME Bad # {} PROVE FALSE
    BY <1>1
  <2> HIDE DEF Good
  <2>1. PICK n \in Bad : \A m \in Bad : n <= m
    BY Least
  <2>2. n # 0 /\ n \in Nat
    BY <1>2
  <2>3. n - 1 \in Nat /\ n - 1 \notin Bad
    BY <2>1, <2>2
  <2>4. Good(n - 1)
    BY <2>3
  <2>5. Good((n - 1) + 1)
    BY <1>3, <2>3, <2>4
  <2> QED
    BY <2>1, <2>2, <2>5
<1>5. PICK it : it = [s \in SUBSET D |-> it[s]] /\ Up(it, Cardinality(D))
  BY <1>4
<1>6. \A s \in SUBSET D : it[s] = Step(f, it, s)
  BY <1>1, <1>5
<1>7. it = [s \in SUBSET D |-> Step(f, it, s)]
  BY <1>5, <1>6
<1> QED
  BY <1>7

\* Total adds more what the function has at each element.
LEMMA TotalIs ==
    ASSUME NEW D, IsFiniteSet(D), NEW f, DOMAIN f = D
    PROVE  \E it : /\ it = [s \in SUBSET D |-> Step(f, it, s)]
                   /\ F!Total(f) = it[D]
<1> DEFINE it == CHOOSE it : it = [s \in SUBSET D |-> Step(f, it, s)]
<1>1. it = [s \in SUBSET D |-> Step(f, it, s)]
  BY SumExists
<1>2. F!Total(f) = it[D]
  BY DEF F!Total, F!FoldFunction, F!FoldFunctionOnSet, F!MapThenFoldSet, Step, Pick
<1> QED
  BY <1>1, <1>2

\* The sum changes as the value at one place does.
LEMMA TotalChange ==
    ASSUME NEW D, IsFiniteSet(D), NEW f \in [D -> Int], NEW r \in D, NEW v \in Int
    PROVE  F!Total([f EXCEPT ![r] = v]) = F!Total(f) + (v - f[r]) /\ F!Total(f) \in Int
<1> DEFINE h == [f EXCEPT ![r] = v]
<1>1. PICK a : a = [s \in SUBSET D |-> Step(f, a, s)] /\ F!Total(f) = a[D]
  BY TotalIs
<1>2. PICK b : b = [s \in SUBSET D |-> Step(h, b, s)] /\ F!Total(h) = b[D]
  <2>1. DOMAIN h = D
    OBVIOUS
  <2> QED
    BY <2>1, TotalIs
<1> DEFINE Fine(s) == a[s] \in Int /\ b[s] = a[s] + (IF r \in s THEN v - f[r] ELSE 0)
           Bad == {n \in Nat : \E s \in SUBSET D : Cardinality(s) = n /\ ~Fine(s)}
<1>3. \A s \in SUBSET D : IsFiniteSet(s) /\ Cardinality(s) \in Nat
  BY FS_Subset, FS_CardinalityType
<1>4. ASSUME NEW s \in SUBSET D, s # {}, Fine(s \ {Pick(s)}) PROVE Fine(s)
  <2> DEFINE x == Pick(s)
             t == s \ {x}
  <2>1. x \in s /\ x \in D /\ t \in SUBSET D
    BY <1>3, <1>4, PickFacts
  <2>2. a[s] = f[x] + a[t] /\ b[s] = h[x] + b[t]
    BY <1>1, <1>2, <1>4 DEF Step
  <2>3. h[x] = IF x = r THEN v ELSE f[x]
    BY <2>1
  <2>4. f[x] \in Int /\ f[r] \in Int
    BY <2>1
  <2>5. (r \in s <=> x = r \/ r \in t) /\ (x = r => r \notin t)
    BY <2>1
  <2>6. a[t] \in Int /\ b[t] = a[t] + (IF r \in t THEN v - f[r] ELSE 0)
    BY <1>4
  <2> HIDE DEF x, t, h
  <2> QED
    BY <2>2, <2>3, <2>4, <2>5, <2>6
<1>5. Fine({})
  BY <1>1, <1>2 DEF Step
<1>6. Fine(D)
  <2> SUFFICES ASSUME Bad # {} PROVE FALSE
    BY <1>3
  <2> HIDE DEF Fine
  <2>1. PICK n \in Bad : \A m \in Bad : n <= m
    BY Least
  <2>2. PICK s \in SUBSET D : Cardinality(s) = n /\ ~Fine(s)
    BY <2>1
  <2>3. s # {}
    BY <1>5, <2>2
  <2>4. s \ {Pick(s)} \in SUBSET D /\ Cardinality(s \ {Pick(s)}) = n - 1 /\ n - 1 \in Nat
    BY <1>3, <2>2, <2>3, PickFacts
  <2>5. ~Fine(s \ {Pick(s)})
    BY <1>4, <2>2, <2>3
  <2> QED
    BY <2>1, <2>4, <2>5
<1> QED
  BY <1>1, <1>2, <1>6

\* A sum of nothing is nothing, and a sum of naturals no less than each of them.
LEMMA TotalNat ==
    ASSUME NEW D, IsFiniteSet(D), NEW f \in [D -> Nat]
    PROVE  /\ F!Total(f) \in Nat
           /\ (\A r \in D : f[r] = 0) => F!Total(f) = 0
<1>1. PICK a : a = [s \in SUBSET D |-> Step(f, a, s)] /\ F!Total(f) = a[D]
  BY TotalIs
<1> DEFINE Fine(s) == a[s] \in Nat /\ ((\A r \in D : f[r] = 0) => a[s] = 0)
           Bad == {n \in Nat : \E s \in SUBSET D : Cardinality(s) = n /\ ~Fine(s)}
<1>3. \A s \in SUBSET D : IsFiniteSet(s) /\ Cardinality(s) \in Nat
  BY FS_Subset, FS_CardinalityType
<1>4. ASSUME NEW s \in SUBSET D, s # {}, Fine(s \ {Pick(s)}) PROVE Fine(s)
  <2>1. Pick(s) \in D
    BY <1>3, <1>4, PickFacts
  <2>2. a[s] = f[Pick(s)] + a[s \ {Pick(s)}]
    BY <1>1, <1>4 DEF Step
  <2> QED
    BY <1>4, <2>1, <2>2
<1>5. Fine({})
  BY <1>1 DEF Step
<1>6. Fine(D)
  <2> SUFFICES ASSUME Bad # {} PROVE FALSE
    BY <1>3
  <2> HIDE DEF Fine
  <2>1. PICK n \in Bad : \A m \in Bad : n <= m
    BY Least
  <2>2. PICK s \in SUBSET D : Cardinality(s) = n /\ ~Fine(s)
    BY <2>1
  <2>3. s # {}
    BY <1>5, <2>2
  <2>4. s \ {Pick(s)} \in SUBSET D /\ Cardinality(s \ {Pick(s)}) = n - 1 /\ n - 1 \in Nat
    BY <1>3, <2>2, <2>3, PickFacts
  <2>5. ~Fine(s \ {Pick(s)})
    BY <1>4, <2>2, <2>3
  <2> QED
    BY <2>1, <2>4, <2>5
<1> QED
  BY <1>1, <1>6

\* No element exceeds the sum of naturals.
LEMMA TotalBounds ==
    ASSUME NEW D, IsFiniteSet(D), NEW f \in [D -> Nat], NEW r \in D
    PROVE  f[r] <= F!Total(f)
<1>1. [f EXCEPT ![r] = 0] \in [D -> Nat] /\ f \in [D -> Int] /\ f[r] \in Nat
  OBVIOUS
<1>2. F!Total([f EXCEPT ![r] = 0]) \in Nat
  BY <1>1, TotalNat
<1>3. F!Total([f EXCEPT ![r] = 0]) = F!Total(f) + (0 - f[r]) /\ F!Total(f) \in Int
  <2>1. 0 \in Int
    OBVIOUS
  <2> QED
    BY <1>1, <2>1, TotalChange, Zenon
<1> QED
  BY <1>1, <1>2, <1>3

-----------------------------------------------------------------------------
(***************************************************************************)
(* Flow rings.  The inductive invariant FlowInv says in which phase of its *)
(* life each ring is (Phases), that a ring nobody has asked for is empty   *)
(* (Drained), and how many packets there are (Counted); the first two not  *)
(* of the rings that were removed with a request left in the control ring. *)
(***************************************************************************)
FlowTypes ==
    /\ status \in [Rings -> {"none", "closed", "open", "closing"}]
    /\ q \in [Rings -> Nat] /\ blocked \in [Rings -> BOOLEAN] /\ stopped \in BOOLEAN
    /\ works \subseteq Rings /\ dma \subseteq Rings /\ stray \subseteq Rings
    /\ ctl \subseteq {"create", "delete"} \X Rings
    /\ unseen \subseteq {"create", "delete"} \X Rings
    /\ unread \in [Rings -> 0 .. FlowDepth - 1] /\ inair \in [Rings -> Nat]
    /\ out \in [Rings -> Int] /\ wasfull \in [Rings -> BOOLEAN]
    /\ flow_map \subseteq Rings /\ txwork \in BOOLEAN /\ done_map \subseteq Rings
    /\ pkts \in 0 .. MaxPkts /\ gone \in Nat
    /\ fails \in Nat /\ deletes \in Nat /\ late \in Nat /\ fault \in BOOLEAN

\* Where the three threads are.
Threads ==
    /\ tx \in [at : {"idle", "first", "enqueue", "block", "recheck", "kick"},
               r : Rings \cup {None}]
    /\ wk \in [at : {"idle", "scan", "loop", "unblock", "post"}, r : Rings \cup {None}]
    /\ del \in [at : {"idle", "wait", "send"}, r : Rings \cup {None}]
    /\ tx.at # "idle" => tx.r \in Rings
    /\ wk.at \in {"loop", "unblock", "post"} => wk.r \in Rings
    /\ del.at # "idle" => del.r \in Rings

FlowType == FlowTypes /\ Threads

\* What is in the control ring, seen by the firmware or not.
Asked(kind, r) == <<kind, r>> \in ctl \cup unseen
Once(kind, r) == ~(<<kind, r>> \in ctl /\ <<kind, r>> \in unseen)

\* The deleter, or its request, is about to have the ring removed.
Leaving(r) == (del.at = "send" /\ del.r = r) \/ Asked("delete", r)

\* One thread, or one request to the firmware, moves a ring to its next phase.
Phase(r) ==
    /\ r \in works => status[r] = "closed" /\ ~Asked("create", r)
    /\ Asked("create", r) => status[r] = "closed" /\ r \in dma /\ Once("create", r)
    /\ Asked("delete", r) => status[r] = "closing" /\ deletes > 0 /\ Once("delete", r)
    /\ del.at # "idle" /\ del.r = r =>
           status[r] = "closing" /\ deletes > 0 /\ ~Asked("delete", r)
    /\ status[r] \in {"open", "closing"} => r \in dma
    /\ wk.at \in {"unblock", "post"} /\ wk.r = r => status[r] = "open"
Phases == \A r \in Rings \ stray : Phase(r)

\* A ring that the firmware does not serve, or is about to give up, is empty.
Empty(r) ==
    /\ out[r] = unread[r] + inair[r]
    /\ status[r] \in {"none", "closed"} \/ Leaving(r) => out[r] = 0
Drained == late = 0 => \A r \in Rings \ stray : Empty(r)

InTx == IF tx.at \in {"first", "enqueue"} THEN 1 ELSE 0
InWk == IF wk.at \in {"unblock", "post"} THEN 1 ELSE 0

\* Every packet is somewhere.
Counted ==
    /\ F!Total(q) + InTx + InWk <= pkts
    /\ late = 0 /\ stray = {} =>
           pkts = gone + F!Total(q) + F!Total(unread) + F!Total(inair) + InTx + InWk

\* A ring that is looked up and gone was deleted meanwhile, and the request of
\* a stray ring failed.
Between == tx.at \in {"first", "enqueue", "block", "recheck"}
GoneByDeletion ==
    /\ Between /\ status[tx.r] = "none" => deletes + fails > 0
    /\ fault => stray # {} \/ (Between /\ deletes + fails > 0)
    /\ stray # {} => fails > 0

FlowInv ==
    FlowType /\ Phases /\ Drained /\ Counted /\ GoneByDeletion /\ F!StoppedHasReason

\* The sums over the rings.
LEMMA Sums ==
    ASSUME FlowType
    PROVE  /\ F!Total(q) \in Nat /\ F!Total(unread) \in Nat /\ F!Total(inair) \in Nat
           /\ \A r \in Rings, v \in Int :
                 /\ F!Total([q EXCEPT ![r] = v]) = F!Total(q) + (v - q[r])
                 /\ F!Total([unread EXCEPT ![r] = v]) = F!Total(unread) + (v - unread[r])
                 /\ F!Total([inair EXCEPT ![r] = v]) = F!Total(inair) + (v - inair[r])
<1>1. /\ q \in [Rings -> Nat] /\ unread \in [Rings -> Nat] /\ inair \in [Rings -> Nat]
      /\ q \in [Rings -> Int] /\ unread \in [Rings -> Int] /\ inair \in [Rings -> Int]
  BY FlowAssumption DEF FlowType, FlowTypes
<1>2. IsFiniteSet(Rings)
  BY FlowAssumption
<1>3. F!Total(q) \in Nat /\ F!Total(unread) \in Nat /\ F!Total(inair) \in Nat
  BY <1>1, <1>2, TotalNat
<1>4. ASSUME NEW r \in Rings, NEW v \in Int
      PROVE  /\ F!Total([q EXCEPT ![r] = v]) = F!Total(q) + (v - q[r])
             /\ F!Total([unread EXCEPT ![r] = v]) = F!Total(unread) + (v - unread[r])
             /\ F!Total([inair EXCEPT ![r] = v]) = F!Total(inair) + (v - inair[r])
  BY <1>1, <1>2, TotalChange, Zenon
<1> QED
  BY <1>3, <1>4

\* Blocking and unblocking keep a reason for a stopped interface.
LEMMA BlockFacts ==
    ASSUME FlowInv, NEW r \in Rings, NEW b \in BOOLEAN, F!Block(r, b)
    PROVE  blocked' \in [Rings -> BOOLEAN] /\ stopped' \in BOOLEAN /\ F!StoppedHasReason'
<1>1. blocked \in [Rings -> BOOLEAN] /\ stopped \in BOOLEAN /\ (stopped => \E s \in Rings : blocked[s])
  BY DEF FlowInv, FlowType, FlowTypes, F!StoppedHasReason
<1>2. CASE blocked[r] = b
  BY <1>1, <1>2 DEF F!Block, F!StoppedHasReason
<1>3. CASE blocked[r] # b
  <2>1. /\ blocked' = [blocked EXCEPT ![r] = b]
        /\ stopped' = IF F!OthersBlock(r) THEN stopped ELSE b
    BY <1>3 DEF F!Block
  <2>2. blocked' \in [Rings -> BOOLEAN] /\ stopped' \in BOOLEAN
    BY <1>1, <2>1
  <2>3. CASE F!OthersBlock(r)
    BY <1>1, <2>1, <2>2, <2>3 DEF F!OthersBlock, F!StoppedHasReason
  <2>4. CASE ~F!OthersBlock(r)
    BY <1>1, <2>1, <2>2, <2>4 DEF F!StoppedHasReason
  <2> QED
    BY <2>2, <2>3, <2>4
<1> QED
  BY <1>2, <1>3

\* A sum of what has not changed has not changed.
LEMMA SumsSame ==
    /\ q' = q => F!Total(q)' = F!Total(q)
    /\ unread' = unread => F!Total(unread)' = F!Total(unread)
    /\ inair' = inair => F!Total(inair)' = F!Total(inair)
<1>1. q' = q => F!Total(q)' = F!Total(q)
  BY DEF F!Total, F!FoldFunction, F!FoldFunctionOnSet, F!MapThenFoldSet
<1>2. unread' = unread => F!Total(unread)' = F!Total(unread)
  BY DEF F!Total, F!FoldFunction, F!FoldFunctionOnSet, F!MapThenFoldSet
<1>3. inair' = inair => F!Total(inair)' = F!Total(inair)
  BY DEF F!Total, F!FoldFunction, F!FoldFunctionOnSet, F!MapThenFoldSet
<1> QED
  BY <1>1, <1>2, <1>3

\* One more or fewer in a queue, in a ring, in the firmware's hands.
LEMMA QueueSum ==
    ASSUME FlowType, NEW r \in Rings, NEW v \in Int, q' = [q EXCEPT ![r] = v]
    PROVE  F!Total(q)' = F!Total(q) + (v - q[r])
<1>1. F!Total(q)' = F!Total([q EXCEPT ![r] = v])
  BY DEF F!Total, F!FoldFunction, F!FoldFunctionOnSet, F!MapThenFoldSet
<1> QED
  BY <1>1, Sums

\* The same of the rings.
LEMMA UnreadSum ==
    ASSUME FlowType, NEW r \in Rings, NEW v \in Int, unread' = [unread EXCEPT ![r] = v]
    PROVE  F!Total(unread)' = F!Total(unread) + (v - unread[r])
<1>1. F!Total(unread)' = F!Total([unread EXCEPT ![r] = v])
  BY DEF F!Total, F!FoldFunction, F!FoldFunctionOnSet, F!MapThenFoldSet
<1> QED
  BY <1>1, Sums

\* The same of what the firmware works on.
LEMMA InairSum ==
    ASSUME FlowType, NEW r \in Rings, NEW v \in Int, inair' = [inair EXCEPT ![r] = v]
    PROVE  F!Total(inair)' = F!Total(inair) + (v - inair[r])
<1>1. F!Total(inair)' = F!Total([inair EXCEPT ![r] = v])
  BY DEF F!Total, F!FoldFunction, F!FoldFunctionOnSet, F!MapThenFoldSet
<1> QED
  BY <1>1, Sums

\* A thread holds one packet or none.
LEMMA InFacts == InTx \in {0, 1} /\ InWk \in {0, 1}
BY DEF InTx, InWk

\* What there is to count, in numbers.
LEMMA CountFacts ==
    ASSUME FlowInv
    PROVE  /\ F!Total(q) \in Nat /\ F!Total(unread) \in Nat /\ F!Total(inair) \in Nat
           /\ pkts \in Nat /\ gone \in Nat /\ late \in Nat
           /\ InTx \in {0, 1} /\ InWk \in {0, 1} /\ Counted
BY Sums, InFacts, FlowAssumption DEF FlowInv, FlowType, FlowTypes

\* A ring that is deleted is forgotten, and what was queued is freed.
LEMMA DeleteFacts ==
    ASSUME FlowInv, NEW r \in Rings, F!DeleteRing(r)
    PROVE  /\ status' = [status EXCEPT ![r] = "none"] /\ q' \in [Rings -> Nat]
           /\ gone' \in Nat /\ F!Total(q)' \in Nat /\ F!Total(q)' <= F!Total(q)
           /\ gone' + F!Total(q)' = gone + F!Total(q)
           /\ blocked' \in [Rings -> BOOLEAN] /\ stopped' \in BOOLEAN /\ F!StoppedHasReason'
<1>1. /\ q \in [Rings -> Nat] /\ q[r] \in Nat /\ gone \in Nat /\ FlowType
      /\ status \in [Rings -> {"none", "closed", "open", "closing"}]
      /\ blocked \in [Rings -> BOOLEAN] /\ stopped \in BOOLEAN /\ F!StoppedHasReason
      /\ F!Total(q) \in Nat /\ q[r] <= F!Total(q)
  <2>1. /\ q \in [Rings -> Nat] /\ gone \in Nat /\ FlowType /\ IsFiniteSet(Rings)
        /\ status \in [Rings -> {"none", "closed", "open", "closing"}]
        /\ blocked \in [Rings -> BOOLEAN] /\ stopped \in BOOLEAN /\ F!StoppedHasReason
    BY FlowAssumption DEF FlowInv, FlowType, FlowTypes
  <2>2. q[r] <= F!Total(q) /\ F!Total(q) \in Nat
    BY <2>1, TotalBounds, TotalNat
  <2> QED
    BY <2>1, <2>2
<1>2. CASE status[r] = "none"
  <2>1. UNCHANGED <<q, blocked, stopped, status, gone>>
    BY <1>2 DEF F!DeleteRing, F!queueVars
  <2>2. F!Total(q)' = F!Total(q) /\ status = [status EXCEPT ![r] = "none"]
    BY <1>1, <1>2, <2>1, SumsSame
  <2> QED
    BY <1>1, <2>1, <2>2 DEF F!StoppedHasReason
<1>3. CASE status[r] # "none"
  <2>1. /\ status' = [status EXCEPT ![r] = "none"] /\ q' = [q EXCEPT ![r] = 0]
        /\ gone' = gone + q[r] /\ F!Block(r, FALSE)
    BY <1>3 DEF F!DeleteRing, F!Unblock
  <2>2. F!Total(q)' = F!Total(q) + (0 - q[r])
    <3>1. 0 \in Int
      OBVIOUS
    <3> QED
      BY <1>1, <2>1, <3>1, QueueSum, Zenon
  <2>3. blocked' \in [Rings -> BOOLEAN] /\ stopped' \in BOOLEAN /\ F!StoppedHasReason'
    BY <2>1, BlockFacts
  <2>4. q' \in [Rings -> Nat]
    BY <1>1, <2>1
  <2>5. /\ gone' \in Nat /\ F!Total(q)' \in Nat /\ F!Total(q)' <= F!Total(q)
        /\ gone' + F!Total(q)' = gone + F!Total(q)
    BY <1>1, <2>1, <2>2
  <2> QED
    BY <2>1, <2>3, <2>4, <2>5
<1> QED
  BY <1>2, <1>3

\* A request in the control ring: it is there once, if it was not before.
LEMMA SentFacts ==
    ASSUME FlowInv, NEW kind \in {"create", "delete"}, NEW r \in Rings, F!Sent(<<kind, r>>)
    PROVE  /\ ctl' \subseteq {"create", "delete"} \X Rings
           /\ unseen' \subseteq {"create", "delete"} \X Rings
           /\ stray' = stray /\ fails' \in {fails, fails + 1}
           /\ ctl' \cup unseen' = ctl \cup unseen \cup {<<kind, r>>}
           /\ ctl' \cap unseen' \subseteq (ctl \cap unseen) \cup (ctl \cap {<<kind, r>>})
<1>1. /\ ctl \subseteq {"create", "delete"} \X Rings /\ fails \in Nat
      /\ unseen \subseteq {"create", "delete"} \X Rings
      /\ <<kind, r>> \in {"create", "delete"} \X Rings
  BY DEF FlowInv, FlowType, FlowTypes
<1>2. PICK wrote \in BOOLEAN :
         F!Submit(<<kind, r>>, wrote) /\ fails' = IF wrote THEN fails ELSE fails + 1
  BY DEF F!Sent
<1>3. stray' = stray /\ fails' \in {fails, fails + 1}
  BY <1>1, <1>2 DEF F!Sent
<1>4. CASE wrote
  BY <1>1, <1>2, <1>3, <1>4 DEF F!Submit
<1>5. CASE ~wrote
  BY <1>1, <1>2, <1>3, <1>5 DEF F!Submit
<1> QED
  BY <1>4, <1>5

\* A request that failed makes its ring a stray one, or is not there.
LEMMA NotSentFacts ==
    ASSUME FlowInv, NEW kind \in {"create", "delete"}, NEW r \in Rings, F!NotSent(kind, r)
    PROVE  /\ ctl' \subseteq {"create", "delete"} \X Rings
           /\ unseen' \subseteq {"create", "delete"} \X Rings
           /\ stray \subseteq stray' /\ stray' \subseteq Rings
           /\ fails \in Nat /\ fails' = fails + 1
           /\ \A k \in {"create", "delete"}, s \in Rings \ stray' :
                 /\ <<k, s>> \in ctl' \cup unseen' => <<k, s>> \in ctl \cup unseen
                 /\ <<k, s>> \in ctl' /\ <<k, s>> \in unseen' =>
                        <<k, s>> \in ctl /\ <<k, s>> \in unseen
<1>1. /\ ctl \subseteq {"create", "delete"} \X Rings /\ fails \in Nat
      /\ unseen \subseteq {"create", "delete"} \X Rings /\ stray \subseteq Rings
      /\ <<kind, r>> \in {"create", "delete"} \X Rings
  BY DEF FlowInv, FlowType, FlowTypes
<1>2. fails' = fails + 1
  BY DEF F!NotSent
<1>3. CASE UNCHANGED <<ctl, unseen, stray>>
  BY <1>1, <1>2, <1>3
<1>4. CASE stray' = stray \cup {r} /\ \E wrote \in BOOLEAN : F!Submit(<<kind, r>>, wrote)
  <2>1. PICK wrote \in BOOLEAN : F!Submit(<<kind, r>>, wrote)
    BY <1>4
  <2>2. ctl' \cup unseen' = ctl \cup unseen \cup {<<kind, r>>}
        /\ ctl' \cap unseen' \subseteq (ctl \cap unseen) \cup {<<kind, r>>}
    <3>1. CASE wrote
      BY <2>1, <3>1 DEF F!Submit
    <3>2. CASE ~wrote
      BY <2>1, <3>2 DEF F!Submit
    <3> QED
      BY <3>1, <3>2
  <2>3. ASSUME NEW k, NEW s \in Rings \ stray' PROVE <<k, s>> # <<kind, r>>
    BY <1>4
  <2> QED
    BY <1>1, <1>2, <1>4, <2>2, <2>3
<1> QED
  BY <1>3, <1>4 DEF F!NotSent, F!reqVars

\* As long as nothing was queued, placed, answered or freed the count stays.
LEMMA CountKept ==
    ASSUME Counted, UNCHANGED <<q, unread, inair, pkts, gone, late, stray>>,
           InTx' = InTx, InWk' = InWk
    PROVE  Counted'
BY SumsSame DEF Counted

-----------------------------------------------------------------------------
\* The groups of variables that a step leaves alone.
USE DEF F!queueVars, F!hwVars, F!schedVars, F!reqVars, F!lifeVars, F!boundVars, F!Idle

\* A packet for a known destination.
LEMMA TxLookupInv == ASSUME FlowInv, NEW r \in Rings, F!TxLookup(r) PROVE FlowInv'
<1>1. FlowType'
  <2>1. FlowTypes'
    BY FlowAssumption DEF FlowInv, FlowType, FlowTypes, Threads, F!TxLookup
  <2>2. Threads'
    BY DEF FlowInv, FlowType, Threads, F!TxLookup
  <2> QED
    BY <2>1, <2>2 DEF FlowType
<1>2. Phases'
  <2> SUFFICES ASSUME NEW s \in Rings \ stray' PROVE Phase(s)'
    BY DEF Phases
  <2>1. Phase(s)
    BY DEF FlowInv, Phases, F!TxLookup
  <2> QED
    BY <2>1 DEF FlowInv, FlowType, FlowTypes, Threads, Phase, Asked, Once, F!TxLookup
<1>3. Drained'
  <2> SUFFICES ASSUME late' = 0, NEW s \in Rings \ stray' PROVE Empty(s)'
    BY DEF Drained
  <2>1. Phase(s) /\ (late = 0 => Empty(s))
    BY DEF FlowInv, Phases, Drained, F!TxLookup
  <2> QED
    BY <2>1, FlowAssumption
      DEF FlowInv, FlowType, FlowTypes, Threads, Phase, Empty, Leaving, Asked, Once, F!TxLookup
<1>4. Counted'
  <2>1. F!Total(q)' = F!Total(q)
    BY SumsSame DEF F!TxLookup
  <2>2. F!Total(unread)' = F!Total(unread)
    BY SumsSame DEF F!TxLookup
  <2>3. F!Total(inair)' = F!Total(inair)
    BY SumsSame DEF F!TxLookup
  <2>4. InTx = 0 /\ InTx' = 1 /\ InWk' = InWk /\ pkts' = pkts + 1 /\ gone' = gone
        /\ late' = late /\ stray' = stray
    BY DEF FlowInv, FlowType, FlowTypes, Threads, InTx, InWk, F!TxLookup
  <2> QED
    BY <2>1, <2>2, <2>3, <2>4, CountFacts DEF Counted
<1>5. GoneByDeletion'
  BY DEF FlowInv, FlowType, FlowTypes, Threads, Phases, Phase, Asked, Once, GoneByDeletion,
       Between,
       F!TxLookup
<1>6. F!StoppedHasReason'
  BY DEF FlowInv, F!StoppedHasReason, F!TxLookup
<1> QED
  BY <1>1, <1>2, <1>3, <1>4, <1>5, <1>6 DEF FlowInv

\* A packet for a new destination.
LEMMA TxCreateInv == ASSUME FlowInv, NEW r \in Rings, F!TxCreate(r) PROVE FlowInv'
<1>1. FlowType'
  <2>1. FlowTypes'
    BY FlowAssumption DEF FlowInv, FlowType, FlowTypes, Threads, F!TxCreate
  <2>2. Threads'
    BY DEF FlowInv, FlowType, Threads, F!TxCreate
  <2> QED
    BY <2>1, <2>2 DEF FlowType
<1>2. Phases'
  <2> SUFFICES ASSUME NEW s \in Rings \ stray' PROVE Phase(s)'
    BY DEF Phases
  <2>1. Phase(s)
    BY DEF FlowInv, Phases, F!TxCreate
  <2> QED
    BY <2>1 DEF FlowInv, FlowType, FlowTypes, Threads, Phase, Asked, Once, F!TxCreate
<1>3. Drained'
  <2> SUFFICES ASSUME late' = 0, NEW s \in Rings \ stray' PROVE Empty(s)'
    BY DEF Drained
  <2>1. Phase(s) /\ (late = 0 => Empty(s))
    BY DEF FlowInv, Phases, Drained, F!TxCreate
  <2> QED
    BY <2>1, FlowAssumption
      DEF FlowInv, FlowType, FlowTypes, Threads, Phase, Empty, Leaving, Asked, Once, F!TxCreate
<1>4. Counted'
  <2>1. F!Total(q)' = F!Total(q)
    BY SumsSame DEF F!TxCreate
  <2>2. F!Total(unread)' = F!Total(unread)
    BY SumsSame DEF F!TxCreate
  <2>3. F!Total(inair)' = F!Total(inair)
    BY SumsSame DEF F!TxCreate
  <2>4. InTx = 0 /\ InTx' = 1 /\ InWk' = InWk /\ pkts' = pkts + 1 /\ gone' = gone
        /\ late' = late /\ stray' = stray
    BY DEF FlowInv, FlowType, FlowTypes, Threads, InTx, InWk, F!TxCreate
  <2> QED
    BY <2>1, <2>2, <2>3, <2>4, CountFacts DEF Counted
<1>5. GoneByDeletion'
  BY DEF FlowInv, FlowType, FlowTypes, Threads, Phases, Phase, Asked, Once, GoneByDeletion,
       Between,
       F!TxCreate
<1>6. F!StoppedHasReason'
  BY DEF FlowInv, F!StoppedHasReason, F!TxCreate
<1> QED
  BY <1>1, <1>2, <1>3, <1>4, <1>5, <1>6 DEF FlowInv

\* The first packet of a new ring is queued.
LEMMA TxFirstInv == ASSUME FlowInv, F!TxFirst PROVE FlowInv'
<1>1. FlowType'
  <2>1. q \in [Rings -> Nat] /\ tx.r \in Rings
    BY DEF FlowInv, FlowType, FlowTypes, Threads, F!TxFirst
  <2>2. FlowTypes'
    <3>1. CASE status[tx.r] = "none"
      BY <3>1 DEF FlowInv, FlowType, FlowTypes, F!TxFirst
    <3>2. CASE status[tx.r] # "none"
      <4>1. q' \in [Rings -> Nat] /\ fault' = fault
        BY <2>1, <3>2 DEF F!TxFirst
      <4> QED
        BY <4>1, <3>2 DEF FlowInv, FlowType, FlowTypes, F!TxFirst
    <3> QED
      BY <3>1, <3>2
  <2>3. Threads'
    BY DEF FlowInv, FlowType, Threads, F!TxFirst
  <2> QED
    BY <2>2, <2>3 DEF FlowType
<1>2. Phases'
  <2> SUFFICES ASSUME NEW s \in Rings \ stray' PROVE Phase(s)'
    BY DEF Phases
  <2>1. Phase(s)
    BY DEF FlowInv, Phases, F!TxFirst
  <2> QED
    BY <2>1 DEF FlowInv, FlowType, FlowTypes, Threads, Phase, Asked, Once, F!TxFirst
<1>3. Drained'
  <2> SUFFICES ASSUME late' = 0, NEW s \in Rings \ stray' PROVE Empty(s)'
    BY DEF Drained
  <2>1. Phase(s) /\ (late = 0 => Empty(s))
    BY DEF FlowInv, Phases, Drained, F!TxFirst
  <2> QED
    BY <2>1, FlowAssumption
      DEF FlowInv, FlowType, FlowTypes, Threads, Phase, Empty, Leaving, Asked, Once, F!TxFirst
<1>4. Counted'
  <2>1. CASE status[tx.r] = "none"
    <3>1. InTx' = InTx /\ InWk' = InWk /\ UNCHANGED <<q, unread, inair, pkts, gone, late, stray>>
      BY <2>1 DEF InTx, InWk, F!TxFirst
    <3> QED
      BY <3>1, CountKept DEF FlowInv
  <2>2. CASE status[tx.r] # "none"
    <3>1. q' = [q EXCEPT ![tx.r] = q[tx.r] + 1] /\ tx.r \in Rings /\ q[tx.r] + 1 \in Int
      BY <2>2 DEF FlowInv, FlowType, FlowTypes, Threads, F!TxFirst
    <3>2. F!Total(q)' = F!Total(q) + 1
      <4>1. F!Total(q)' = F!Total(q) + ((q[tx.r] + 1) - q[tx.r])
        BY <3>1, QueueSum DEF FlowInv
      <4> QED
        BY <4>1, <3>1, Sums DEF FlowInv, FlowType, FlowTypes
    <3>3. F!Total(unread)' = F!Total(unread) /\ F!Total(inair)' = F!Total(inair)
      BY SumsSame DEF F!TxFirst
    <3>4. InTx = 1 /\ InTx' = 0 /\ InWk' = InWk /\ UNCHANGED <<pkts, gone, late, stray>>
      BY <2>2 DEF InTx, InWk, F!TxFirst
    <3> QED
      BY <3>2, <3>3, <3>4, CountFacts DEF Counted
  <2> QED
    BY <2>1, <2>2
<1>5. GoneByDeletion'
  <2>1. tx.r \in Rings /\ tx.at \in {"idle", "first", "enqueue", "block", "recheck", "kick"}
        /\ status' = status /\ deletes' = deletes /\ fails' = fails /\ fails \in Nat
        /\ deletes \in Nat /\ ~fault /\ stray' = stray /\ (stray # {} => fails > 0)
    BY DEF FlowInv, FlowType, FlowTypes, Threads, GoneByDeletion, F!Running, F!TxFirst
  <2>2. CASE status[tx.r] = "none"
    <3>1. tx' = tx /\ Between
      BY <2>2 DEF Between, F!TxFirst
    <3>2. deletes + fails > 0
      BY <2>2, <3>1 DEF FlowInv, GoneByDeletion
    <3> QED
      BY <2>1, <3>1, <3>2 DEF GoneByDeletion, Between
  <2>3. CASE status[tx.r] # "none"
    <3>1. fault' = FALSE /\ (Between' => tx'.r = tx.r)
      BY <2>1, <2>3 DEF FlowInv, FlowType, Threads, Between, F!TxFirst
    <3> QED
      BY <2>1, <2>3, <3>1 DEF GoneByDeletion
  <2> QED
    BY <2>2, <2>3
<1>6. F!StoppedHasReason'
  BY DEF FlowInv, F!StoppedHasReason, F!TxFirst
<1> QED
  BY <1>1, <1>2, <1>3, <1>4, <1>5, <1>6 DEF FlowInv

\* A packet is queued, if its ring is still there.
LEMMA TxEnqueueInv == ASSUME FlowInv, F!TxEnqueue PROVE FlowInv'
<1>1. FlowType'
  <2>1. q \in [Rings -> Nat] /\ tx.r \in Rings
    BY DEF FlowInv, FlowType, FlowTypes, Threads, F!TxEnqueue
  <2>2. FlowTypes'
    <3>1. CASE status[tx.r] = "none"
      BY <3>1 DEF FlowInv, FlowType, FlowTypes, F!TxEnqueue
    <3>2. CASE status[tx.r] # "none"
      <4>1. q' \in [Rings -> Nat] /\ fault' = fault
        BY <2>1, <3>2 DEF F!TxEnqueue
      <4> QED
        BY <4>1, <3>2 DEF FlowInv, FlowType, FlowTypes, F!TxEnqueue
    <3> QED
      BY <3>1, <3>2
  <2>3. Threads'
    BY DEF FlowInv, FlowType, Threads, F!TxEnqueue
  <2> QED
    BY <2>2, <2>3 DEF FlowType
<1>2. Phases'
  <2> SUFFICES ASSUME NEW s \in Rings \ stray' PROVE Phase(s)'
    BY DEF Phases
  <2>1. Phase(s)
    BY DEF FlowInv, Phases, F!TxEnqueue
  <2> QED
    BY <2>1 DEF FlowInv, FlowType, FlowTypes, Threads, Phase, Asked, Once, F!TxEnqueue
<1>3. Drained'
  <2> SUFFICES ASSUME late' = 0, NEW s \in Rings \ stray' PROVE Empty(s)'
    BY DEF Drained
  <2>1. Phase(s) /\ (late = 0 => Empty(s))
    BY DEF FlowInv, Phases, Drained, F!TxEnqueue
  <2> QED
    BY <2>1, FlowAssumption
      DEF FlowInv, FlowType, FlowTypes, Threads, Phase, Empty, Leaving, Asked, Once,
          F!TxEnqueue
<1>4. Counted'
  <2>1. CASE status[tx.r] = "none"
    <3>1. InTx' = InTx /\ InWk' = InWk /\ UNCHANGED <<q, unread, inair, pkts, gone, late, stray>>
      BY <2>1 DEF InTx, InWk, F!TxEnqueue
    <3> QED
      BY <3>1, CountKept DEF FlowInv
  <2>2. CASE status[tx.r] # "none"
    <3>1. q' = [q EXCEPT ![tx.r] = q[tx.r] + 1] /\ tx.r \in Rings /\ q[tx.r] + 1 \in Int
      BY <2>2 DEF FlowInv, FlowType, FlowTypes, Threads, F!TxEnqueue
    <3>2. F!Total(q)' = F!Total(q) + 1
      <4>1. F!Total(q)' = F!Total(q) + ((q[tx.r] + 1) - q[tx.r])
        BY <3>1, QueueSum DEF FlowInv
      <4> QED
        BY <4>1, <3>1, Sums DEF FlowInv, FlowType, FlowTypes
    <3>3. F!Total(unread)' = F!Total(unread) /\ F!Total(inair)' = F!Total(inair)
      BY SumsSame DEF F!TxEnqueue
    <3>4. InTx = 1 /\ InTx' = 0 /\ InWk' = InWk /\ UNCHANGED <<pkts, gone, late, stray>>
      BY <2>2 DEF InTx, InWk, F!TxEnqueue
    <3> QED
      BY <3>2, <3>3, <3>4, CountFacts DEF Counted
  <2> QED
    BY <2>1, <2>2
<1>5. GoneByDeletion'
  <2>1. tx.r \in Rings /\ tx.at \in {"idle", "first", "enqueue", "block", "recheck", "kick"}
        /\ status' = status /\ deletes' = deletes /\ fails' = fails /\ fails \in Nat
        /\ deletes \in Nat /\ ~fault /\ stray' = stray /\ (stray # {} => fails > 0)
    BY DEF FlowInv, FlowType, FlowTypes, Threads, GoneByDeletion, F!Running, F!TxEnqueue
  <2>2. CASE status[tx.r] = "none"
    <3>1. tx' = tx /\ Between
      BY <2>2 DEF Between, F!TxEnqueue
    <3>2. deletes + fails > 0
      BY <2>2, <3>1 DEF FlowInv, GoneByDeletion
    <3> QED
      BY <2>1, <3>1, <3>2 DEF GoneByDeletion, Between
  <2>3. CASE status[tx.r] # "none"
    <3>1. fault' = FALSE /\ (Between' => tx'.r = tx.r)
      BY <2>1, <2>3 DEF FlowInv, FlowType, Threads, Between, F!TxEnqueue
    <3> QED
      BY <2>1, <2>3, <3>1 DEF GoneByDeletion
  <2> QED
    BY <2>2, <2>3
<1>6. F!StoppedHasReason'
  BY DEF FlowInv, F!StoppedHasReason, F!TxEnqueue
<1> QED
  BY <1>1, <1>2, <1>3, <1>4, <1>5, <1>6 DEF FlowInv

\* The transmit path blocks the ring.
LEMMA TxBlockInv == ASSUME FlowInv, F!TxBlock PROVE FlowInv'
<1>a. tx.r \in Rings
  BY DEF FlowInv, FlowType, Threads, F!TxBlock
<1>b. blocked' \in [Rings -> BOOLEAN] /\ stopped' \in BOOLEAN /\ F!StoppedHasReason'
  BY <1>a, BlockFacts DEF FlowInv, FlowType, FlowTypes, F!StoppedHasReason, F!TxBlock
<1>1. FlowType'
  <2>1. FlowTypes'
    BY <1>a, <1>b, FlowAssumption DEF FlowInv, FlowType, FlowTypes, Threads, F!TxBlock
  <2>2. Threads'
    BY <1>a, <1>b DEF FlowInv, FlowType, Threads, F!TxBlock
  <2> QED
    BY <2>1, <2>2 DEF FlowType
<1>2. Phases'
  <2> SUFFICES ASSUME NEW s \in Rings \ stray' PROVE Phase(s)'
    BY DEF Phases
  <2>1. Phase(s)
    BY DEF FlowInv, Phases, F!TxBlock
  <2> QED
    BY <1>a, <1>b, <2>1
      DEF FlowInv, FlowType, FlowTypes, Threads, Phase, Asked, Once, F!TxBlock
<1>3. Drained'
  <2> SUFFICES ASSUME late' = 0, NEW s \in Rings \ stray' PROVE Empty(s)'
    BY DEF Drained
  <2>1. Phase(s) /\ (late = 0 => Empty(s))
    BY DEF FlowInv, Phases, Drained, F!TxBlock
  <2> QED
    BY <1>a, <1>b, <2>1, FlowAssumption
      DEF FlowInv, FlowType, FlowTypes, Threads, Phase, Empty, Leaving, Asked, Once, F!TxBlock
<1>4. Counted'
  <2>1. InTx' = InTx /\ InWk' = InWk /\ UNCHANGED <<q, unread, inair, pkts, gone, late, stray>>
    BY <1>a, <1>b DEF FlowInv, FlowType, Threads, InTx, InWk, F!TxBlock
  <2> QED
    BY <2>1, CountKept DEF FlowInv
<1>5. GoneByDeletion'
  <2>1. tx.r \in Rings /\ tx.at \in {"idle", "first", "enqueue", "block", "recheck", "kick"}
        /\ status' = status /\ deletes' = deletes /\ fails' = fails /\ fails \in Nat
        /\ deletes \in Nat /\ ~fault /\ stray' = stray /\ (stray # {} => fails > 0)
    BY DEF FlowInv, FlowType, FlowTypes, Threads, GoneByDeletion, F!Running, F!TxBlock
  <2>2. CASE status[tx.r] = "none"
    <3>1. tx' = tx /\ Between
      BY <2>2 DEF Between, F!TxBlock
    <3>2. deletes + fails > 0
      BY <2>2, <3>1 DEF FlowInv, GoneByDeletion
    <3> QED
      BY <2>1, <3>1, <3>2 DEF GoneByDeletion, Between
  <2>3. CASE status[tx.r] # "none"
    <3>1. fault' = FALSE /\ (Between' => tx'.r = tx.r)
      BY <2>1, <2>3 DEF FlowInv, FlowType, Threads, Between, F!TxBlock
    <3> QED
      BY <2>1, <2>3, <3>1 DEF GoneByDeletion
  <2> QED
    BY <2>2, <2>3
<1>6. F!StoppedHasReason'
  BY <1>b
<1> QED
  BY <1>1, <1>2, <1>3, <1>4, <1>5, <1>6 DEF FlowInv

\* It looks at the queue again.
LEMMA TxRecheckInv == ASSUME FlowInv, F!TxRecheck PROVE FlowInv'
<1>a. tx.r \in Rings
  BY DEF FlowInv, FlowType, Threads, F!TxRecheck
<1>b. blocked' \in [Rings -> BOOLEAN] /\ stopped' \in BOOLEAN /\ F!StoppedHasReason'
  BY <1>a, BlockFacts DEF FlowInv, FlowType, FlowTypes, F!StoppedHasReason, F!TxRecheck
<1>1. FlowType'
  <2>1. FlowTypes'
    BY <1>a, <1>b, FlowAssumption DEF FlowInv, FlowType, FlowTypes, Threads, F!TxRecheck
  <2>2. Threads'
    BY <1>a, <1>b DEF FlowInv, FlowType, Threads, F!TxRecheck
  <2> QED
    BY <2>1, <2>2 DEF FlowType
<1>2. Phases'
  <2> SUFFICES ASSUME NEW s \in Rings \ stray' PROVE Phase(s)'
    BY DEF Phases
  <2>1. Phase(s)
    BY DEF FlowInv, Phases, F!TxRecheck
  <2> QED
    BY <1>a, <1>b, <2>1
      DEF FlowInv, FlowType, FlowTypes, Threads, Phase, Asked, Once, F!TxRecheck
<1>3. Drained'
  <2> SUFFICES ASSUME late' = 0, NEW s \in Rings \ stray' PROVE Empty(s)'
    BY DEF Drained
  <2>1. Phase(s) /\ (late = 0 => Empty(s))
    BY DEF FlowInv, Phases, Drained, F!TxRecheck
  <2> QED
    BY <1>a, <1>b, <2>1, FlowAssumption
      DEF FlowInv, FlowType, FlowTypes, Threads, Phase, Empty, Leaving, Asked, Once,
          F!TxRecheck
<1>4. Counted'
  <2>1. InTx' = InTx /\ InWk' = InWk /\ UNCHANGED <<q, unread, inair, pkts, gone, late, stray>>
    BY <1>a, <1>b DEF FlowInv, FlowType, Threads, InTx, InWk, F!TxRecheck
  <2> QED
    BY <2>1, CountKept DEF FlowInv
<1>5. GoneByDeletion'
  <2>1. tx.r \in Rings /\ tx.at \in {"idle", "first", "enqueue", "block", "recheck", "kick"}
        /\ status' = status /\ deletes' = deletes /\ fails' = fails /\ fails \in Nat
        /\ deletes \in Nat /\ ~fault /\ stray' = stray /\ (stray # {} => fails > 0)
    BY DEF FlowInv, FlowType, FlowTypes, Threads, GoneByDeletion, F!Running, F!TxRecheck
  <2>2. CASE status[tx.r] = "none"
    <3>1. tx' = tx /\ Between
      BY <2>2 DEF Between, F!TxRecheck
    <3>2. deletes + fails > 0
      BY <2>2, <3>1 DEF FlowInv, GoneByDeletion
    <3> QED
      BY <2>1, <3>1, <3>2 DEF GoneByDeletion, Between
  <2>3. CASE status[tx.r] # "none"
    <3>1. fault' = FALSE /\ (Between' => tx'.r = tx.r)
      BY <2>1, <2>3 DEF FlowInv, FlowType, Threads, Between, F!TxRecheck
    <3> QED
      BY <2>1, <2>3, <3>1 DEF GoneByDeletion
  <2> QED
    BY <2>2, <2>3
<1>6. F!StoppedHasReason'
  BY <1>b
<1> QED
  BY <1>1, <1>2, <1>3, <1>4, <1>5, <1>6 DEF FlowInv

\* It schedules the worker.
LEMMA TxKickInv == ASSUME FlowInv, F!TxKick PROVE FlowInv'
<1>1. FlowType'
  <2>1. FlowTypes'
    BY FlowAssumption DEF FlowInv, FlowType, FlowTypes, Threads, F!TxKick, F!Kick
  <2>2. Threads'
    BY DEF FlowInv, FlowType, Threads, F!TxKick, F!Kick
  <2> QED
    BY <2>1, <2>2 DEF FlowType
<1>2. Phases'
  <2> SUFFICES ASSUME NEW s \in Rings \ stray' PROVE Phase(s)'
    BY DEF Phases
  <2>1. Phase(s)
    BY DEF FlowInv, Phases, F!TxKick
  <2> QED
    BY <2>1 DEF FlowInv, FlowType, FlowTypes, Threads, Phase, Asked, Once, F!TxKick, F!Kick
<1>3. Drained'
  <2> SUFFICES ASSUME late' = 0, NEW s \in Rings \ stray' PROVE Empty(s)'
    BY DEF Drained
  <2>1. Phase(s) /\ (late = 0 => Empty(s))
    BY DEF FlowInv, Phases, Drained, F!TxKick
  <2> QED
    BY <2>1, FlowAssumption
      DEF FlowInv, FlowType, FlowTypes, Threads, Phase, Empty, Leaving, Asked, Once,
          F!TxKick, F!Kick
<1>4. Counted'
  <2>1. InTx' = InTx /\ InWk' = InWk /\ UNCHANGED <<q, unread, inair, pkts, gone, late, stray>>
    BY DEF FlowInv, FlowType, Threads, InTx, InWk, F!TxKick, F!Kick
  <2> QED
    BY <2>1, CountKept DEF FlowInv
<1>5. GoneByDeletion'
  BY DEF FlowInv, FlowType, FlowTypes, Threads, Phases, Phase, Asked, Once, GoneByDeletion,
       Between,
       F!TxKick, F!Kick
<1>6. F!StoppedHasReason'
  BY DEF FlowInv, F!StoppedHasReason, F!TxKick, F!Kick
<1> QED
  BY <1>1, <1>2, <1>3, <1>4, <1>5, <1>6 DEF FlowInv

\* The worker asks the firmware for a ring.
LEMMA CreateRequestInv == ASSUME FlowInv, NEW r \in Rings, F!CreateRequest(r) PROVE FlowInv'
<1>c. /\ ctl' \subseteq {"create", "delete"} \X Rings
      /\ unseen' \subseteq {"create", "delete"} \X Rings
      /\ stray' = stray /\ fails' \in {fails, fails + 1} /\ fails \in Nat
      /\ ctl' \cup unseen' = ctl \cup unseen \cup {<<"create", r>>}
      /\ ctl' \cap unseen' \subseteq (ctl \cap unseen) \cup (ctl \cap {<<"create", r>>})
      /\ r \in Rings
  BY SentFacts DEF FlowInv, FlowType, FlowTypes, Threads, F!CreateRequest
<1>1. FlowType'
  <2>1. FlowTypes'
    BY <1>c, FlowAssumption DEF FlowInv, FlowType, FlowTypes, Threads, F!CreateRequest
  <2>2. Threads'
    BY DEF FlowInv, FlowType, Threads, F!CreateRequest
  <2> QED
    BY <2>1, <2>2 DEF FlowType
<1>2. Phases'
  <2> SUFFICES ASSUME NEW s \in Rings \ stray' PROVE Phase(s)'
    BY DEF Phases
  <2>1. Phase(s)
    BY <1>c DEF FlowInv, Phases, F!CreateRequest
  <2> QED
    BY <1>c, <2>1
      DEF FlowInv, FlowType, FlowTypes, Threads, Phase, Asked, Once, F!CreateRequest
<1>3. Drained'
  <2> SUFFICES ASSUME late' = 0, NEW s \in Rings \ stray' PROVE Empty(s)'
    BY DEF Drained
  <2>1. Phase(s) /\ (late = 0 => Empty(s))
    BY <1>c DEF FlowInv, Phases, Drained, F!CreateRequest
  <2> QED
    BY <1>c, <2>1, FlowAssumption
      DEF FlowInv, FlowType, FlowTypes, Threads, Phase, Empty, Leaving, Asked, Once,
          F!CreateRequest
<1>4. Counted'
  <2>1. F!Total(q)' = F!Total(q)
    BY SumsSame DEF F!CreateRequest
  <2>2. F!Total(unread)' = F!Total(unread) + ((0) - unread[r]) /\ r \in Rings
    <3>1. unread' = [unread EXCEPT ![r] = 0] /\ r \in Rings /\ 0 \in Int
      BY DEF FlowInv, FlowType, FlowTypes, Threads, F!CreateRequest
    <3>2. FlowType
      BY DEF FlowInv
    <3> QED
      BY <3>1, <3>2, UnreadSum, Zenon
  <2>3. F!Total(inair)' = F!Total(inair)
    BY SumsSame DEF F!CreateRequest
  <2>a. late = 0 /\ stray = {} => unread[r] = 0
    <3>1. r \in works
      BY DEF F!CreateRequest
    <3>2. stray = {} => status[r] = "closed"
      BY <3>1 DEF FlowInv, Phases, Phase
    <3>3. late = 0 /\ stray = {} => out[r] = unread[r] + inair[r] /\ out[r] = 0
      BY <3>2 DEF FlowInv, Drained, Empty
    <3>4. unread[r] \in Nat /\ inair[r] \in Nat
      BY <1>c, FlowAssumption DEF FlowInv, FlowType, FlowTypes
    <3> QED
      BY <3>3, <3>4
  <2>4. InTx' = InTx /\ InWk' = InWk /\ gone' = gone /\ pkts' = pkts
        /\ late' = late /\ stray' = stray /\ (late = 0 /\ stray = {} => unread[r] = 0)
    BY <1>c, <2>a DEF FlowInv, FlowType, FlowTypes, Threads, InTx, InWk, F!CreateRequest
  <2>5. unread[r] \in Nat
    BY DEF FlowInv, FlowType, FlowTypes, Threads, F!CreateRequest
  <2> QED
    BY <1>c, <2>1, <2>2, <2>3, <2>5, <2>4, CountFacts DEF Counted
<1>5. GoneByDeletion'
  <2>1. /\ ~fault /\ tx' = tx /\ status' = status /\ deletes' = deletes
        /\ fails \in Nat /\ deletes \in Nat /\ GoneByDeletion
    BY DEF FlowInv, FlowType, FlowTypes, F!Running, F!CreateRequest
  <2>2. fault' => stray # {}
    <3>1. CASE r \in stray
      BY <3>1
    <3>2. CASE r \notin stray
      <4>1. status[r] # "none"
        BY <1>c, <3>2 DEF FlowInv, Phases, Phase, F!CreateRequest
      <4> QED
        BY <4>1 DEF F!CreateRequest
    <3> QED
      BY <3>1, <3>2
  <2>3. stray' = stray /\ fails' \in {fails, fails + 1}
    BY <1>c
  <2>4. CASE fails' = fails
    BY <2>1, <2>2, <2>3, <2>4 DEF GoneByDeletion, Between
  <2>5. CASE fails' = fails + 1
    BY <2>1, <2>2, <2>3, <2>5 DEF GoneByDeletion, Between
  <2> QED
    BY <2>3, <2>4, <2>5
<1>6. F!StoppedHasReason'
  BY DEF FlowInv, F!StoppedHasReason, F!CreateRequest
<1> QED
  BY <1>1, <1>2, <1>3, <1>4, <1>5, <1>6 DEF FlowInv

\* There is no memory for the ring.
LEMMA CreateNoMemoryInv == ASSUME FlowInv, NEW r \in Rings, F!CreateNoMemory(r) PROVE FlowInv'
<1>a. F!DeleteRing(r) /\ r \in Rings
  BY DEF FlowInv, FlowType, Threads, F!CreateNoMemory, F!Forget
<1>b. /\ status' = [status EXCEPT ![r] = "none"] /\ q' \in [Rings -> Nat]
      /\ gone' \in Nat /\ F!Total(q)' \in Nat /\ F!Total(q)' <= F!Total(q)
      /\ gone' + F!Total(q)' = gone + F!Total(q)
      /\ blocked' \in [Rings -> BOOLEAN] /\ stopped' \in BOOLEAN /\ F!StoppedHasReason'
  BY <1>a, DeleteFacts
<1>1. FlowType'
  <2>1. /\ status' \in [Rings -> {"none", "closed", "open", "closing"}]
        /\ dma' \subseteq Rings /\ works' \subseteq Rings /\ fault' \in BOOLEAN
        /\ fails' \in Nat
    BY <1>a, <1>b DEF FlowInv, FlowType, FlowTypes, F!CreateNoMemory, F!Forget
  <2>2. unread' \in [Rings -> 0 .. FlowDepth - 1]
    BY FlowAssumption DEF FlowInv, FlowType, FlowTypes, F!CreateNoMemory, F!Forget
  <2>3. FlowTypes'
    BY <1>a, <1>b, <2>1, <2>2 DEF FlowInv, FlowType, FlowTypes, F!CreateNoMemory, F!Forget
  <2>4. Threads'
    BY DEF FlowInv, FlowType, Threads, F!CreateNoMemory, F!Forget
  <2> QED
    BY <2>3, <2>4 DEF FlowType
<1>2. Phases'
  <2> SUFFICES ASSUME NEW s \in Rings \ stray' PROVE Phase(s)'
    BY DEF Phases
  <2>1. Phase(s) /\ s \notin stray
    BY DEF FlowInv, Phases, F!CreateNoMemory, F!Forget
  <2> QED
    BY <1>a, <1>b, <2>1
      DEF FlowInv, FlowType, FlowTypes, Threads, Phase, Asked, Once, F!CreateNoMemory, F!Forget
<1>3. Drained'
  <2> SUFFICES ASSUME late' = 0, NEW s \in Rings \ stray' PROVE Empty(s)'
    BY DEF Drained
  <2>1. Phase(s) /\ (late = 0 => Empty(s))
    BY DEF FlowInv, Phases, Drained, F!CreateNoMemory, F!Forget
  <2> QED
    BY <1>a, <1>b, <2>1, FlowAssumption
      DEF FlowInv, FlowType, FlowTypes, Threads, Phase, Asked, Once, Empty, Leaving,
          F!CreateNoMemory, F!Forget
<1>4. Counted'
  <2>1. F!Total(inair)' = F!Total(inair) /\ InTx' = InTx /\ InWk' = InWk /\ pkts' = pkts
        /\ late' = late /\ stray' = stray
    BY SumsSame DEF InTx, InWk, F!CreateNoMemory, F!Forget
  <2>2. F!Total(unread)' = F!Total(unread)
    BY SumsSame DEF F!CreateNoMemory, F!Forget
  <2> QED
    BY <1>b, <2>1, <2>2, CountFacts DEF Counted
<1>5. GoneByDeletion'
  <2>1. /\ ~fault /\ tx' = tx /\ deletes' = deletes /\ fails \in Nat /\ deletes \in Nat
        /\ fails' \in Nat /\ fails' >= fails /\ (stray # {} => stray' # {})
        /\ (stray # {} => fails > 0)
    BY DEF FlowInv, FlowType, FlowTypes, GoneByDeletion, F!Running, F!CreateNoMemory,
         F!Forget
  <2>2. fails' > 0
    BY DEF FlowInv, FlowType, FlowTypes, F!CreateNoMemory, F!Forget
  <2>3. fault' = fault
    BY DEF F!CreateNoMemory, F!Forget
  <2> QED
    BY <2>1, <2>2, <2>3 DEF GoneByDeletion, Between
<1>6. F!StoppedHasReason'
  BY <1>b
<1> QED
  BY <1>1, <1>2, <1>3, <1>4, <1>5, <1>6 DEF FlowInv

\* There is no room for the request.
LEMMA CreateNoRoomInv == ASSUME FlowInv, NEW r \in Rings, F!CreateNoRoom(r) PROVE FlowInv'
<1>a. F!DeleteRing(r) /\ r \in Rings
  BY DEF FlowInv, FlowType, Threads, F!CreateNoRoom
<1>b. /\ status' = [status EXCEPT ![r] = "none"] /\ q' \in [Rings -> Nat]
      /\ gone' \in Nat /\ F!Total(q)' \in Nat /\ F!Total(q)' <= F!Total(q)
      /\ gone' + F!Total(q)' = gone + F!Total(q)
      /\ blocked' \in [Rings -> BOOLEAN] /\ stopped' \in BOOLEAN /\ F!StoppedHasReason'
  BY <1>a, DeleteFacts
<1>c. /\ ctl' \subseteq {"create", "delete"} \X Rings
      /\ unseen' \subseteq {"create", "delete"} \X Rings
      /\ stray \subseteq stray' /\ stray' \subseteq Rings
      /\ fails \in Nat /\ fails' = fails + 1
      /\ \A k \in {"create", "delete"}, s \in Rings \ stray' :
            /\ <<k, s>> \in ctl' \cup unseen' => <<k, s>> \in ctl \cup unseen
            /\ <<k, s>> \in ctl' /\ <<k, s>> \in unseen' =>
                   <<k, s>> \in ctl /\ <<k, s>> \in unseen
  BY <1>a, NotSentFacts DEF F!CreateNoRoom
<1>1. FlowType'
  <2>1. /\ status' \in [Rings -> {"none", "closed", "open", "closing"}]
        /\ dma' \subseteq Rings /\ works' \subseteq Rings /\ fault' \in BOOLEAN
        /\ fails' \in Nat
    BY <1>a, <1>b, <1>c DEF FlowInv, FlowType, FlowTypes, F!CreateNoRoom
  <2>2. unread' \in [Rings -> 0 .. FlowDepth - 1]
    BY FlowAssumption DEF FlowInv, FlowType, FlowTypes, F!CreateNoRoom
  <2>3. FlowTypes'
    BY <1>a, <1>b, <1>c, <2>1, <2>2 DEF FlowInv, FlowType, FlowTypes, F!CreateNoRoom
  <2>4. Threads'
    BY DEF FlowInv, FlowType, Threads, F!CreateNoRoom
  <2> QED
    BY <2>3, <2>4 DEF FlowType
<1>2. Phases'
  <2> SUFFICES ASSUME NEW s \in Rings \ stray' PROVE Phase(s)'
    BY DEF Phases
  <2>1. Phase(s) /\ s \notin stray
    BY <1>c DEF FlowInv, Phases, F!CreateNoRoom
  <2> QED
    BY <1>a, <1>b, <1>c, <2>1
      DEF FlowInv, FlowType, FlowTypes, Threads, Phase, Asked, Once, F!CreateNoRoom
<1>3. Drained'
  <2> SUFFICES ASSUME late' = 0, NEW s \in Rings \ stray' PROVE Empty(s)'
    BY DEF Drained
  <2>1. Phase(s) /\ (late = 0 => Empty(s))
    BY <1>c DEF FlowInv, Phases, Drained, F!CreateNoRoom
  <2> QED
    BY <1>a, <1>b, <1>c, <2>1, FlowAssumption
      DEF FlowInv, FlowType, FlowTypes, Threads, Phase, Asked, Once, Empty, Leaving,
          F!CreateNoRoom
<1>4. Counted'
  <2>1. F!Total(inair)' = F!Total(inair) /\ InTx' = InTx /\ InWk' = InWk /\ pkts' = pkts
        /\ late' = late /\ (stray' = {} => stray = {})
    BY <1>c, SumsSame DEF InTx, InWk, F!CreateNoRoom
  <2>2. F!Total(unread)' = F!Total(unread) - unread[r] /\ unread[r] \in Nat
    <3>1. unread' = [unread EXCEPT ![r] = 0] /\ 0 \in Int /\ FlowType
          /\ unread \in [Rings -> 0 .. FlowDepth - 1]
      BY DEF FlowInv, FlowType, FlowTypes, F!CreateNoRoom
    <3>2. F!Total(unread)' = F!Total(unread) + (0 - unread[r])
      BY <3>1, UnreadSum, Zenon
    <3>3. unread[r] \in Nat
      BY <3>1, FlowAssumption
    <3> QED
      BY <3>2, <3>3, Sums, CountFacts
  <2>3. late = 0 /\ stray = {} => unread[r] = 0
    <3>1. r \in works
      BY DEF F!CreateNoRoom
    <3>2. stray = {} => status[r] = "closed"
      BY <3>1 DEF FlowInv, Phases, Phase
    <3>3. late = 0 /\ stray = {} => out[r] = unread[r] + inair[r] /\ out[r] = 0
      BY <3>2 DEF FlowInv, Drained, Empty
    <3>4. unread[r] \in Nat /\ inair[r] \in Nat
      BY FlowAssumption DEF FlowInv, FlowType, FlowTypes
    <3> QED
      BY <3>3, <3>4
  <2> QED
    BY <1>b, <2>1, <2>2, <2>3, CountFacts DEF Counted
<1>5. GoneByDeletion'
  <2>1. /\ ~fault /\ tx' = tx /\ deletes' = deletes /\ fails \in Nat /\ deletes \in Nat
        /\ fails' \in Nat /\ fails' >= fails /\ (stray # {} => stray' # {})
        /\ (stray # {} => fails > 0)
    BY <1>c DEF FlowInv, FlowType, FlowTypes, GoneByDeletion, F!Running, F!CreateNoRoom
  <2>2. fails' > 0
    BY <1>c DEF FlowInv, FlowType, FlowTypes, F!CreateNoRoom
  <2>3. fault' = fault
    BY DEF F!CreateNoRoom
  <2> QED
    BY <2>1, <2>2, <2>3, <1>c DEF GoneByDeletion, Between
<1>6. F!StoppedHasReason'
  BY <1>b
<1> QED
  BY <1>1, <1>2, <1>3, <1>4, <1>5, <1>6 DEF FlowInv

\* The firmware has made the ring.
LEMMA CreatedInv == ASSUME FlowInv, NEW r \in Rings, F!Created(r) PROVE FlowInv'
<1>1. FlowType'
  <2>1. FlowTypes'
    BY FlowAssumption DEF FlowInv, FlowType, FlowTypes, Threads, F!Created, F!Kick
  <2>2. Threads'
    BY DEF FlowInv, FlowType, Threads, F!Created, F!Kick
  <2> QED
    BY <2>1, <2>2 DEF FlowType
<1>2. Phases'
  <2> SUFFICES ASSUME NEW s \in Rings \ stray' PROVE Phase(s)'
    BY DEF Phases
  <2>1. Phase(s)
    BY DEF FlowInv, Phases, F!Created
  <2> QED
    BY <2>1 DEF FlowInv, FlowType, FlowTypes, Threads, Phase, Asked, Once, F!Created, F!Kick
<1>3. Drained'
  <2> SUFFICES ASSUME late' = 0, NEW s \in Rings \ stray' PROVE Empty(s)'
    BY DEF Drained
  <2>1. Phase(s) /\ (late = 0 => Empty(s))
    BY DEF FlowInv, Phases, Drained, F!Created
  <2> QED
    BY <2>1, FlowAssumption
      DEF FlowInv, FlowType, FlowTypes, Threads, Phase, Empty, Leaving, Asked, Once,
          F!Created, F!Kick
<1>4. Counted'
  <2>1. InTx' = InTx /\ InWk' = InWk /\ UNCHANGED <<q, unread, inair, pkts, gone, late, stray>>
    BY DEF FlowInv, FlowType, Threads, InTx, InWk, F!Created, F!Kick
  <2> QED
    BY <2>1, CountKept DEF FlowInv
<1>5. GoneByDeletion'
  BY DEF FlowInv, FlowType, FlowTypes, Threads, Phases, Phase, Asked, Once, GoneByDeletion,
       Between,
       F!Created, F!Kick
<1>6. F!StoppedHasReason'
  BY DEF FlowInv, F!StoppedHasReason, F!Created, F!Kick
<1> QED
  BY <1>1, <1>2, <1>3, <1>4, <1>5, <1>6 DEF FlowInv

\* The firmware has not made it.
LEMMA CreateFailedInv == ASSUME FlowInv, NEW r \in Rings, F!CreateFailed(r) PROVE FlowInv'
<1>a. F!DeleteRing(r) /\ r \in Rings
  BY DEF FlowInv, FlowType, Threads, F!CreateFailed, F!RemoveRing
<1>b. /\ status' = [status EXCEPT ![r] = "none"] /\ q' \in [Rings -> Nat]
      /\ gone' \in Nat /\ F!Total(q)' \in Nat /\ F!Total(q)' <= F!Total(q)
      /\ gone' + F!Total(q)' = gone + F!Total(q)
      /\ blocked' \in [Rings -> BOOLEAN] /\ stopped' \in BOOLEAN /\ F!StoppedHasReason'
  BY <1>a, DeleteFacts
<1>1. FlowType'
  <2>1. /\ status' \in [Rings -> {"none", "closed", "open", "closing"}]
        /\ dma' \subseteq Rings /\ works' \subseteq Rings /\ fault' \in BOOLEAN
        /\ fails' \in Nat
    BY <1>a, <1>b DEF FlowInv, FlowType, FlowTypes, F!CreateFailed, F!RemoveRing
  <2>2. unread' \in [Rings -> 0 .. FlowDepth - 1]
    BY FlowAssumption DEF FlowInv, FlowType, FlowTypes, F!CreateFailed, F!RemoveRing
  <2>3. FlowTypes'
    BY <1>a, <1>b, <2>1, <2>2 DEF FlowInv, FlowType, FlowTypes, F!CreateFailed, F!RemoveRing
  <2>4. Threads'
    BY DEF FlowInv, FlowType, Threads, F!CreateFailed, F!RemoveRing
  <2> QED
    BY <2>3, <2>4 DEF FlowType
<1>2. Phases'
  <2> SUFFICES ASSUME NEW s \in Rings \ stray' PROVE Phase(s)'
    BY DEF Phases
  <2>1. Phase(s) /\ s \notin stray
    BY DEF FlowInv, Phases, F!CreateFailed, F!RemoveRing
  <2> QED
    BY <1>a, <1>b, <2>1
      DEF FlowInv, FlowType, FlowTypes, Threads, Phase, Asked, Once, F!CreateFailed,
          F!RemoveRing
<1>3. Drained'
  <2> SUFFICES ASSUME late' = 0, NEW s \in Rings \ stray' PROVE Empty(s)'
    BY DEF Drained
  <2>1. Phase(s) /\ (late = 0 => Empty(s))
    BY DEF FlowInv, Phases, Drained, F!CreateFailed, F!RemoveRing
  <2> QED
    BY <1>a, <1>b, <2>1, FlowAssumption
      DEF FlowInv, FlowType, FlowTypes, Threads, Phase, Asked, Once, Empty, Leaving,
          F!CreateFailed, F!RemoveRing
<1>4. Counted'
  <2>1. F!Total(inair)' = F!Total(inair) /\ InTx' = InTx /\ InWk' = InWk /\ pkts' = pkts
        /\ late' = late /\ stray' = stray
    BY SumsSame DEF InTx, InWk, F!CreateFailed, F!RemoveRing
  <2>2. F!Total(unread)' = F!Total(unread)
    BY SumsSame DEF F!CreateFailed, F!RemoveRing
  <2> QED
    BY <1>b, <2>1, <2>2, CountFacts DEF Counted
<1>5. GoneByDeletion'
  <2>1. /\ ~fault /\ tx' = tx /\ deletes' = deletes /\ fails \in Nat /\ deletes \in Nat
        /\ fails' \in Nat /\ fails' >= fails /\ (stray # {} => stray' # {})
        /\ (stray # {} => fails > 0)
    BY DEF FlowInv, FlowType, FlowTypes, GoneByDeletion, F!Running, F!CreateFailed,
         F!RemoveRing
  <2>2. fails' > 0
    BY DEF FlowInv, FlowType, FlowTypes, F!CreateFailed, F!RemoveRing
  <2>3. fault' => stray' # {}
    <3>1. CASE r \in stray
      BY <2>1, <3>1
    <3>2. CASE r \notin stray
      <4>1. Asked("create", r) /\ Phase(r)
        BY <1>a, <3>2 DEF FlowInv, Phases, Asked, F!CreateFailed, F!RemoveRing
      <4>2. r \in dma
        BY <4>1 DEF Phase
      <4> QED
        BY <4>2 DEF F!CreateFailed, F!RemoveRing
    <3> QED
      BY <3>1, <3>2
  <2> QED
    BY <2>1, <2>2, <2>3 DEF GoneByDeletion, Between
<1>6. F!StoppedHasReason'
  BY <1>b
<1> QED
  BY <1>1, <1>2, <1>3, <1>4, <1>5, <1>6 DEF FlowInv

\* The worker begins.
LEMMA WkStartInv == ASSUME FlowInv, F!WkStart PROVE FlowInv'
<1>1. FlowType'
  <2>1. FlowTypes'
    BY FlowAssumption DEF FlowInv, FlowType, FlowTypes, Threads, F!WkStart
  <2>2. Threads'
    BY DEF FlowInv, FlowType, Threads, F!WkStart
  <2> QED
    BY <2>1, <2>2 DEF FlowType
<1>2. Phases'
  <2> SUFFICES ASSUME NEW s \in Rings \ stray' PROVE Phase(s)'
    BY DEF Phases
  <2>1. Phase(s)
    BY DEF FlowInv, Phases, F!WkStart
  <2> QED
    BY <2>1 DEF FlowInv, FlowType, FlowTypes, Threads, Phase, Asked, Once, F!WkStart
<1>3. Drained'
  <2> SUFFICES ASSUME late' = 0, NEW s \in Rings \ stray' PROVE Empty(s)'
    BY DEF Drained
  <2>1. Phase(s) /\ (late = 0 => Empty(s))
    BY DEF FlowInv, Phases, Drained, F!WkStart
  <2> QED
    BY <2>1, FlowAssumption
      DEF FlowInv, FlowType, FlowTypes, Threads, Phase, Empty, Leaving, Asked, Once, F!WkStart
<1>4. Counted'
  <2>1. InTx' = InTx /\ InWk' = InWk /\ UNCHANGED <<q, unread, inair, pkts, gone, late, stray>>
    BY DEF FlowInv, FlowType, Threads, InTx, InWk, F!WkStart
  <2> QED
    BY <2>1, CountKept DEF FlowInv
<1>5. GoneByDeletion'
  BY DEF FlowInv, FlowType, FlowTypes, Threads, Phases, Phase, Asked, Once, GoneByDeletion,
       Between,
       F!WkStart
<1>6. F!StoppedHasReason'
  BY DEF FlowInv, F!StoppedHasReason, F!WkStart
<1> QED
  BY <1>1, <1>2, <1>3, <1>4, <1>5, <1>6 DEF FlowInv

\* The worker takes the next ring.
LEMMA WkRingInv == ASSUME FlowInv, NEW r \in Rings, F!WkRing(r) PROVE FlowInv'
<1>1. FlowType'
  <2>1. FlowTypes'
    BY FlowAssumption DEF FlowInv, FlowType, FlowTypes, Threads, F!WkRing, F!Ahead
  <2>2. Threads'
    BY DEF FlowInv, FlowType, Threads, F!WkRing, F!Ahead
  <2> QED
    BY <2>1, <2>2 DEF FlowType
<1>2. Phases'
  <2> SUFFICES ASSUME NEW s \in Rings \ stray' PROVE Phase(s)'
    BY DEF Phases
  <2>1. Phase(s)
    BY DEF FlowInv, Phases, F!WkRing
  <2> QED
    BY <2>1 DEF FlowInv, FlowType, FlowTypes, Threads, Phase, Asked, Once, F!WkRing, F!Ahead
<1>3. Drained'
  <2> SUFFICES ASSUME late' = 0, NEW s \in Rings \ stray' PROVE Empty(s)'
    BY DEF Drained
  <2>1. Phase(s) /\ (late = 0 => Empty(s))
    BY DEF FlowInv, Phases, Drained, F!WkRing
  <2> QED
    BY <2>1, FlowAssumption
      DEF FlowInv, FlowType, FlowTypes, Threads, Phase, Empty, Leaving, Asked, Once,
          F!WkRing, F!Ahead
<1>4. Counted'
  <2>1. InTx' = InTx /\ InWk' = InWk /\ UNCHANGED <<q, unread, inair, pkts, gone, late, stray>>
    BY DEF FlowInv, FlowType, Threads, InTx, InWk, F!WkRing, F!Ahead
  <2> QED
    BY <2>1, CountKept DEF FlowInv
<1>5. GoneByDeletion'
  BY DEF FlowInv, FlowType, FlowTypes, Threads, Phases, Phase, Asked, Once, GoneByDeletion,
       Between,
       F!WkRing, F!Ahead
<1>6. F!StoppedHasReason'
  BY DEF FlowInv, F!StoppedHasReason, F!WkRing, F!Ahead
<1> QED
  BY <1>1, <1>2, <1>3, <1>4, <1>5, <1>6 DEF FlowInv

\* The worker has been through the rings.
LEMMA WkEndInv == ASSUME FlowInv, F!WkEnd PROVE FlowInv'
<1>1. FlowType'
  <2>1. FlowTypes'
    BY FlowAssumption DEF FlowInv, FlowType, FlowTypes, Threads, F!WkEnd
  <2>2. Threads'
    BY DEF FlowInv, FlowType, Threads, F!WkEnd
  <2> QED
    BY <2>1, <2>2 DEF FlowType
<1>2. Phases'
  <2> SUFFICES ASSUME NEW s \in Rings \ stray' PROVE Phase(s)'
    BY DEF Phases
  <2>1. Phase(s)
    BY DEF FlowInv, Phases, F!WkEnd
  <2> QED
    BY <2>1 DEF FlowInv, FlowType, FlowTypes, Threads, Phase, Asked, Once, F!WkEnd
<1>3. Drained'
  <2> SUFFICES ASSUME late' = 0, NEW s \in Rings \ stray' PROVE Empty(s)'
    BY DEF Drained
  <2>1. Phase(s) /\ (late = 0 => Empty(s))
    BY DEF FlowInv, Phases, Drained, F!WkEnd
  <2> QED
    BY <2>1, FlowAssumption
      DEF FlowInv, FlowType, FlowTypes, Threads, Phase, Empty, Leaving, Asked, Once, F!WkEnd
<1>4. Counted'
  <2>1. InTx' = InTx /\ InWk' = InWk /\ UNCHANGED <<q, unread, inair, pkts, gone, late, stray>>
    BY DEF FlowInv, FlowType, Threads, InTx, InWk, F!WkEnd
  <2> QED
    BY <2>1, CountKept DEF FlowInv
<1>5. GoneByDeletion'
  BY DEF FlowInv, FlowType, FlowTypes, Threads, Phases, Phase, Asked, Once, GoneByDeletion,
       Between,
       F!WkEnd
<1>6. F!StoppedHasReason'
  BY DEF FlowInv, F!StoppedHasReason, F!WkEnd
<1> QED
  BY <1>1, <1>2, <1>3, <1>4, <1>5, <1>6 DEF FlowInv

\* It takes a packet from the queue.
LEMMA WkDequeueInv == ASSUME FlowInv, F!WkDequeue PROVE FlowInv'
<1>1. FlowType'
  <2>1. FlowTypes'
    BY FlowAssumption DEF FlowInv, FlowType, FlowTypes, Threads, F!WkDequeue, F!Qlen
  <2>2. Threads'
    BY DEF FlowInv, FlowType, Threads, F!WkDequeue, F!Qlen
  <2> QED
    BY <2>1, <2>2 DEF FlowType
<1>2. Phases'
  <2> SUFFICES ASSUME NEW s \in Rings \ stray' PROVE Phase(s)'
    BY DEF Phases
  <2>1. Phase(s)
    BY DEF FlowInv, Phases, F!WkDequeue
  <2> QED
    BY <2>1
      DEF FlowInv, FlowType, FlowTypes, Threads, Phase, Asked, Once, F!WkDequeue, F!Qlen
<1>3. Drained'
  <2> SUFFICES ASSUME late' = 0, NEW s \in Rings \ stray' PROVE Empty(s)'
    BY DEF Drained
  <2>1. Phase(s) /\ (late = 0 => Empty(s))
    BY DEF FlowInv, Phases, Drained, F!WkDequeue
  <2> QED
    BY <2>1, FlowAssumption
      DEF FlowInv, FlowType, FlowTypes, Threads, Phase, Empty, Leaving, Asked, Once,
          F!WkDequeue, F!Qlen
<1>4. Counted'
  <2>1. F!Total(q)' = F!Total(q) + ((q[wk.r] - 1) - q[wk.r]) /\ wk.r \in Rings
    <3>1. q' = [q EXCEPT ![wk.r] = q[wk.r] - 1] /\ wk.r \in Rings /\ q[wk.r] - 1 \in Int
      BY DEF FlowInv, FlowType, FlowTypes, Threads, F!WkDequeue, F!Qlen
    <3>2. FlowType
      BY DEF FlowInv
    <3> QED
      BY <3>1, <3>2, QueueSum, Zenon
  <2>2. F!Total(unread)' = F!Total(unread)
    BY SumsSame DEF F!WkDequeue, F!Qlen
  <2>3. F!Total(inair)' = F!Total(inair)
    BY SumsSame DEF F!WkDequeue, F!Qlen
  <2>4. InTx' = InTx /\ InWk = 0 /\ InWk' = 1 /\ gone' = gone /\ pkts' = pkts
        /\ late' = late /\ stray' = stray
    BY DEF FlowInv, FlowType, FlowTypes, Threads, InTx, InWk, F!WkDequeue, F!Qlen
  <2>5. q[wk.r] \in Nat
    BY DEF FlowInv, FlowType, FlowTypes, Threads, F!WkDequeue, F!Qlen
  <2> QED
    BY <2>1, <2>2, <2>3, <2>5, <2>4, CountFacts DEF Counted
<1>5. GoneByDeletion'
  BY DEF FlowInv, FlowType, FlowTypes, Threads, Phases, Phase, Asked, Once, GoneByDeletion,
       Between,
       F!WkDequeue, F!Qlen
<1>6. F!StoppedHasReason'
  BY DEF FlowInv, F!StoppedHasReason, F!WkDequeue, F!Qlen
<1> QED
  BY <1>1, <1>2, <1>3, <1>4, <1>5, <1>6 DEF FlowInv

\* It lets the interface go on.
LEMMA WkUnblockInv == ASSUME FlowInv, F!WkUnblock PROVE FlowInv'
<1>a. wk.r \in Rings
  BY DEF FlowInv, FlowType, Threads, F!WkUnblock
<1>b. blocked' \in [Rings -> BOOLEAN] /\ stopped' \in BOOLEAN /\ F!StoppedHasReason'
  BY <1>a, BlockFacts DEF FlowInv, FlowType, FlowTypes, F!StoppedHasReason, F!WkUnblock
<1>1. FlowType'
  <2>1. FlowTypes'
    BY <1>a, <1>b, FlowAssumption DEF FlowInv, FlowType, FlowTypes, Threads, F!WkUnblock
  <2>2. Threads'
    BY <1>a, <1>b DEF FlowInv, FlowType, Threads, F!WkUnblock
  <2> QED
    BY <2>1, <2>2 DEF FlowType
<1>2. Phases'
  <2> SUFFICES ASSUME NEW s \in Rings \ stray' PROVE Phase(s)'
    BY DEF Phases
  <2>1. Phase(s)
    BY DEF FlowInv, Phases, F!WkUnblock
  <2> QED
    BY <1>a, <1>b, <2>1
      DEF FlowInv, FlowType, FlowTypes, Threads, Phase, Asked, Once, F!WkUnblock
<1>3. Drained'
  <2> SUFFICES ASSUME late' = 0, NEW s \in Rings \ stray' PROVE Empty(s)'
    BY DEF Drained
  <2>1. Phase(s) /\ (late = 0 => Empty(s))
    BY DEF FlowInv, Phases, Drained, F!WkUnblock
  <2> QED
    BY <1>a, <1>b, <2>1, FlowAssumption
      DEF FlowInv, FlowType, FlowTypes, Threads, Phase, Empty, Leaving, Asked, Once,
          F!WkUnblock
<1>4. Counted'
  <2>1. InTx' = InTx /\ InWk' = InWk /\ UNCHANGED <<q, unread, inair, pkts, gone, late, stray>>
    BY <1>a, <1>b DEF FlowInv, FlowType, Threads, InTx, InWk, F!WkUnblock
  <2> QED
    BY <2>1, CountKept DEF FlowInv
<1>5. GoneByDeletion'
  <2>1. /\ ~fault /\ tx' = tx /\ status' = status /\ deletes' = deletes /\ fails' = fails
        /\ stray' = stray /\ GoneByDeletion
    BY DEF FlowInv, F!Running, F!WkUnblock
  <2>2. fault' => stray # {}
    <3>1. CASE wk.r \in stray
      BY <3>1
    <3>2. CASE wk.r \notin stray
      <4>1. status[wk.r] # "none"
        BY <1>a, <3>2 DEF FlowInv, Phases, Phase, F!WkUnblock
      <4> QED
        BY <4>1 DEF F!WkUnblock
    <3> QED
      BY <3>1, <3>2
  <2> QED
    BY <2>1, <2>2 DEF GoneByDeletion, Between
<1>6. F!StoppedHasReason'
  BY <1>b
<1> QED
  BY <1>1, <1>2, <1>3, <1>4, <1>5, <1>6 DEF FlowInv

\* It places the packet, or puts it back.
LEMMA WkPostInv == ASSUME FlowInv, F!WkPost PROVE FlowInv'
<1>a. /\ wk.r \in Rings /\ q \in [Rings -> Nat] /\ unread \in [Rings -> 0 .. FlowDepth - 1]
      /\ out \in [Rings -> Int] /\ wasfull \in [Rings -> BOOLEAN] /\ FlowDepth \in Nat
      /\ wk.at = "post" /\ ~fault /\ stray' = stray /\ FlowType
  BY FlowAssumption DEF FlowInv, FlowType, FlowTypes, Threads, F!Running, F!WkPost
<1>b. UNCHANGED <<blocked, stopped, inair, flow_map, txwork, done_map, status, works, ctl, unseen,
                  stray, dma, fails, deletes, late, tx, del, pkts, gone>>
  BY DEF F!WkPost
\* What the ring or its memory being gone leads to.
<1>1. CASE /\ status[wk.r] = "none" \/ (F!Fits(wk.r) /\ wk.r \notin dma)
           /\ fault' = TRUE /\ UNCHANGED <<q, unread, out, wasfull, wk>>
  <2>1. FlowType' /\ Phases' /\ Drained'
    BY <1>1, <1>b DEF FlowInv, FlowType, FlowTypes, Threads, Phases, Phase, Asked, Once,
                      Drained, Empty, Leaving
  <2>2. Counted'
    <3>1. InTx' = InTx /\ InWk' = InWk /\ UNCHANGED <<q, unread, inair, pkts, gone, late, stray>>
      BY <1>1, <1>b DEF InTx, InWk
    <3> QED
      BY <3>1, CountKept DEF FlowInv
  <2>3. stray # {}
    <3>1. CASE wk.r \in stray
      BY <3>1
    <3>2. CASE wk.r \notin stray
      BY <1>1, <1>a, <3>2 DEF FlowInv, Phases, Phase
    <3> QED
      BY <3>1, <3>2
  <2>4. GoneByDeletion' /\ F!StoppedHasReason'
    BY <1>b, <2>3 DEF FlowInv, GoneByDeletion, Between, F!StoppedHasReason
  <2> QED
    BY <2>1, <2>2, <2>4 DEF FlowInv
\* The packet is placed, or put back.
<1>2. CASE /\ status[wk.r] # "none" /\ F!Fits(wk.r) /\ wk.r \in dma
           /\ unread' = [unread EXCEPT ![wk.r] = @ + 1]
           /\ out' = [out EXCEPT ![wk.r] = @ + 1]
           /\ wk' = [wk EXCEPT !.at = "loop"]
           /\ UNCHANGED <<q, wasfull, fault>>
  <2>1. unread[wk.r] \in Nat /\ unread[wk.r] + 1 \in 0 .. FlowDepth - 1
        /\ unread' = [unread EXCEPT ![wk.r] = unread[wk.r] + 1]
    BY <1>2, <1>a DEF F!Fits, F!Room
  <2>2. unread' \in [Rings -> 0 .. FlowDepth - 1] /\ out' \in [Rings -> Int]
    <3>1. out[wk.r] + 1 \in Int
      BY <1>a
    <3> QED
      BY <1>2, <1>a, <2>1, <3>1, Zenon
  <2>3. FlowTypes'
    BY <1>2, <1>b, <2>2 DEF FlowInv, FlowType, FlowTypes
  <2>4. Threads'
    BY <1>2, <1>a, <1>b DEF FlowInv, FlowType, Threads
  <2>5. Phases'
    BY <1>2, <1>b, <1>a DEF FlowInv, FlowType, Threads, Phases, Phase, Asked, Once
  <2>6. Drained'
    <3> SUFFICES ASSUME late' = 0, NEW s \in Rings \ stray' PROVE Empty(s)'
      BY DEF Drained
    <3>1. Phase(s) /\ (late = 0 => Empty(s))
      BY <1>b DEF FlowInv, Phases, Drained
    <3> QED
      BY <1>2, <1>a, <1>b, <3>1
        DEF FlowInv, FlowType, FlowTypes, Threads, Phase, Asked, Once, Empty, Leaving
  <2>7. Counted'
    <3>1. F!Total(unread)' = F!Total(unread) + 1
      <4>1. unread[wk.r] + 1 \in Int
        BY <2>1
      <4>2. F!Total(unread)' = F!Total(unread) + ((unread[wk.r] + 1) - unread[wk.r])
        BY <1>a, <2>1, <4>1, UnreadSum, Zenon
      <4> QED
        BY <4>2, <2>1, CountFacts
    <3>2. F!Total(q)' = F!Total(q) /\ F!Total(inair)' = F!Total(inair)
      BY <1>2, <1>b, SumsSame
    <3>3. InTx' = InTx /\ InWk = 1 /\ InWk' = 0 /\ UNCHANGED <<pkts, gone, late, stray>>
      BY <1>2, <1>a, <1>b DEF FlowType, Threads, InTx, InWk
    <3> QED
      BY <3>1, <3>2, <3>3, CountFacts DEF Counted
  <2>8. GoneByDeletion' /\ F!StoppedHasReason'
    BY <1>2, <1>b DEF FlowInv, GoneByDeletion, Between, F!StoppedHasReason
  <2> QED
    BY <2>3, <2>4, <2>5, <2>6, <2>7, <2>8 DEF FlowInv, FlowType
<1>3. CASE /\ status[wk.r] # "none" /\ ~F!Fits(wk.r)
           /\ q' = [q EXCEPT ![wk.r] = @ + 1]
           /\ wasfull' = [wasfull EXCEPT ![wk.r] = @ \/ F!Held < Pktids]
           /\ wk' = [wk EXCEPT !.at = "scan"]
           /\ UNCHANGED <<unread, out, fault>>
  <2>1. q[wk.r] \in Nat /\ q' = [q EXCEPT ![wk.r] = q[wk.r] + 1] /\ q' \in [Rings -> Nat]
    BY <1>3, <1>a
  <2>2. wasfull' \in [Rings -> BOOLEAN]
    <3>1. (wasfull[wk.r] \/ F!Held < Pktids) \in BOOLEAN
      OBVIOUS
    <3>2. wasfull' = [wasfull EXCEPT ![wk.r] = wasfull[wk.r] \/ F!Held < Pktids]
      BY <1>3
    <3> QED
      BY <1>a, <3>1, <3>2, Zenon
  <2>3. FlowTypes'
    BY <1>3, <1>b, <2>1, <2>2 DEF FlowInv, FlowType, FlowTypes
  <2>4. Threads'
    BY <1>3, <1>b DEF FlowInv, FlowType, Threads
  <2>5. Phases'
    BY <1>3, <1>b, <1>a DEF FlowInv, FlowType, Threads, Phases, Phase, Asked, Once
  <2>6. Drained'
    BY <1>3, <1>b DEF FlowInv, Drained, Empty, Leaving, Asked
  <2>7. Counted'
    <3>1. F!Total(q)' = F!Total(q) + 1
      <4>1. q[wk.r] + 1 \in Int
        BY <2>1
      <4>2. F!Total(q)' = F!Total(q) + ((q[wk.r] + 1) - q[wk.r])
        BY <1>a, <2>1, <4>1, QueueSum, Zenon
      <4> QED
        BY <4>2, <2>1, CountFacts
    <3>2. F!Total(unread)' = F!Total(unread) /\ F!Total(inair)' = F!Total(inair)
      BY <1>3, <1>b, SumsSame
    <3>3. InTx' = InTx /\ InWk = 1 /\ InWk' = 0 /\ UNCHANGED <<pkts, gone, late, stray>>
      BY <1>3, <1>a, <1>b DEF FlowType, Threads, InTx, InWk
    <3> QED
      BY <3>1, <3>2, <3>3, CountFacts DEF Counted
  <2>8. GoneByDeletion' /\ F!StoppedHasReason'
    BY <1>3, <1>b DEF FlowInv, GoneByDeletion, Between, F!StoppedHasReason
  <2> QED
    BY <2>3, <2>4, <2>5, <2>6, <2>7, <2>8 DEF FlowInv, FlowType
<1> QED
  BY <1>1, <1>2, <1>3 DEF F!WkPost, F!PutBack

\* It leaves the ring.
LEMMA WkLeaveInv == ASSUME FlowInv, F!WkLeave PROVE FlowInv'
<1>1. FlowType'
  <2>1. FlowTypes'
    BY FlowAssumption DEF FlowInv, FlowType, FlowTypes, Threads, F!WkLeave
  <2>2. Threads'
    BY DEF FlowInv, FlowType, Threads, F!WkLeave
  <2> QED
    BY <2>1, <2>2 DEF FlowType
<1>2. Phases'
  <2> SUFFICES ASSUME NEW s \in Rings \ stray' PROVE Phase(s)'
    BY DEF Phases
  <2>1. Phase(s)
    BY DEF FlowInv, Phases, F!WkLeave
  <2> QED
    BY <2>1 DEF FlowInv, FlowType, FlowTypes, Threads, Phase, Asked, Once, F!WkLeave
<1>3. Drained'
  <2> SUFFICES ASSUME late' = 0, NEW s \in Rings \ stray' PROVE Empty(s)'
    BY DEF Drained
  <2>1. Phase(s) /\ (late = 0 => Empty(s))
    BY DEF FlowInv, Phases, Drained, F!WkLeave
  <2> QED
    BY <2>1, FlowAssumption
      DEF FlowInv, FlowType, FlowTypes, Threads, Phase, Empty, Leaving, Asked, Once, F!WkLeave
<1>4. Counted'
  <2>1. InTx' = InTx /\ InWk' = InWk /\ UNCHANGED <<q, unread, inair, pkts, gone, late, stray>>
    BY DEF FlowInv, FlowType, Threads, InTx, InWk, F!WkLeave
  <2> QED
    BY <2>1, CountKept DEF FlowInv
<1>5. GoneByDeletion'
  BY DEF FlowInv, FlowType, FlowTypes, Threads, Phases, Phase, Asked, Once, GoneByDeletion,
       Between,
       F!WkLeave
<1>6. F!StoppedHasReason'
  BY DEF FlowInv, F!StoppedHasReason, F!WkLeave
<1> QED
  BY <1>1, <1>2, <1>3, <1>4, <1>5, <1>6 DEF FlowInv

\* The firmware reads a message.
LEMMA FirmwareReadInv == ASSUME FlowInv, NEW r \in Rings, F!FirmwareRead(r) PROVE FlowInv'
<1>1. FlowType'
  <2>1. FlowTypes'
    BY FlowAssumption DEF FlowInv, FlowType, FlowTypes, Threads, F!FirmwareRead
  <2>2. Threads'
    BY DEF FlowInv, FlowType, Threads, F!FirmwareRead
  <2> QED
    BY <2>1, <2>2 DEF FlowType
<1>2. Phases'
  <2> SUFFICES ASSUME NEW s \in Rings \ stray' PROVE Phase(s)'
    BY DEF Phases
  <2>1. Phase(s)
    BY DEF FlowInv, Phases, F!FirmwareRead
  <2> QED
    BY <2>1 DEF FlowInv, FlowType, FlowTypes, Threads, Phase, Asked, Once, F!FirmwareRead
<1>3. Drained'
  <2> SUFFICES ASSUME late' = 0, NEW s \in Rings \ stray' PROVE Empty(s)'
    BY DEF Drained
  <2>1. Phase(s) /\ (late = 0 => Empty(s))
    BY DEF FlowInv, Phases, Drained, F!FirmwareRead
  <2> QED
    BY <2>1, FlowAssumption
      DEF FlowInv, FlowType, FlowTypes, Threads, Phase, Empty, Leaving, Asked, Once,
          F!FirmwareRead
<1>4. Counted'
  <2>1. F!Total(q)' = F!Total(q)
    BY SumsSame DEF F!FirmwareRead
  <2>2. F!Total(unread)' = F!Total(unread) + ((unread[r] - 1) - unread[r]) /\ r \in Rings
    <3>1. unread' = [unread EXCEPT ![r] = unread[r] - 1] /\ r \in Rings /\ unread[r] - 1 \in Int
      BY DEF FlowInv, FlowType, FlowTypes, Threads, F!FirmwareRead
    <3>2. FlowType
      BY DEF FlowInv
    <3> QED
      BY <3>1, <3>2, UnreadSum, Zenon
  <2>3. F!Total(inair)' = F!Total(inair) + ((inair[r] + 1) - inair[r]) /\ r \in Rings
    <3>1. inair' = [inair EXCEPT ![r] = inair[r] + 1] /\ r \in Rings /\ inair[r] + 1 \in Int
      BY DEF FlowInv, FlowType, FlowTypes, Threads, F!FirmwareRead
    <3>2. FlowType
      BY DEF FlowInv
    <3> QED
      BY <3>1, <3>2, InairSum, Zenon
  <2>4. InTx' = InTx /\ InWk' = InWk /\ gone' = gone /\ pkts' = pkts
        /\ late' = late /\ stray' = stray
    BY DEF FlowInv, FlowType, FlowTypes, Threads, InTx, InWk, F!FirmwareRead
  <2>5. unread[r] \in Nat /\ inair[r] \in Nat
    BY DEF FlowInv, FlowType, FlowTypes, Threads, F!FirmwareRead
  <2> QED
    BY <2>1, <2>2, <2>3, <2>5, <2>4, CountFacts DEF Counted
<1>5. GoneByDeletion'
  BY DEF FlowInv, FlowType, FlowTypes, Threads, Phases, Phase, Asked, Once, GoneByDeletion,
       Between,
       F!FirmwareRead
<1>6. F!StoppedHasReason'
  BY DEF FlowInv, F!StoppedHasReason, F!FirmwareRead
<1> QED
  BY <1>1, <1>2, <1>3, <1>4, <1>5, <1>6 DEF FlowInv

\* A packet's status comes in.
LEMMA TxStatusInv == ASSUME FlowInv, NEW r \in Rings, F!TxStatus(r) PROVE FlowInv'
<1>1. FlowType'
  <2>1. FlowTypes'
    BY FlowAssumption DEF FlowInv, FlowType, FlowTypes, Threads, F!TxStatus
  <2>2. Threads'
    BY DEF FlowInv, FlowType, Threads, F!TxStatus
  <2> QED
    BY <2>1, <2>2 DEF FlowType
<1>2. Phases'
  <2> SUFFICES ASSUME NEW s \in Rings \ stray' PROVE Phase(s)'
    BY DEF Phases
  <2>1. Phase(s)
    BY DEF FlowInv, Phases, F!TxStatus
  <2> QED
    BY <2>1 DEF FlowInv, FlowType, FlowTypes, Threads, Phase, Asked, Once, F!TxStatus
<1>3. Drained'
  <2> SUFFICES ASSUME late' = 0, NEW s \in Rings \ stray' PROVE Empty(s)'
    BY DEF Drained
  <2>1. Phase(s) /\ (late = 0 => Empty(s))
    BY DEF FlowInv, Phases, Drained, F!TxStatus
  <2> QED
    BY <2>1, FlowAssumption
      DEF FlowInv, FlowType, FlowTypes, Threads, Phase, Empty, Leaving, Asked, Once, F!TxStatus
<1>4. Counted'
  <2>1. F!Total(q)' = F!Total(q)
    BY SumsSame DEF F!TxStatus
  <2>2. F!Total(unread)' = F!Total(unread)
    BY SumsSame DEF F!TxStatus
  <2>3. F!Total(inair)' = F!Total(inair) + ((inair[r] - 1) - inair[r]) /\ r \in Rings
    <3>1. inair' = [inair EXCEPT ![r] = inair[r] - 1] /\ r \in Rings /\ inair[r] - 1 \in Int
      BY DEF FlowInv, FlowType, FlowTypes, Threads, F!TxStatus
    <3>2. FlowType
      BY DEF FlowInv
    <3> QED
      BY <3>1, <3>2, InairSum, Zenon
  <2>4. InTx' = InTx /\ InWk' = InWk /\ gone' = gone + 1 /\ pkts' = pkts
        /\ late' = late /\ stray' = stray
    BY DEF FlowInv, FlowType, FlowTypes, Threads, InTx, InWk, F!TxStatus
  <2>5. inair[r] \in Nat
    BY DEF FlowInv, FlowType, FlowTypes, Threads, F!TxStatus
  <2> QED
    BY <2>1, <2>2, <2>3, <2>5, <2>4, CountFacts DEF Counted
<1>5. GoneByDeletion'
  BY DEF FlowInv, FlowType, FlowTypes, Threads, Phases, Phase, Asked, Once, GoneByDeletion,
       Between,
       F!TxStatus
<1>6. F!StoppedHasReason'
  BY DEF FlowInv, F!StoppedHasReason, F!TxStatus
<1> QED
  BY <1>1, <1>2, <1>3, <1>4, <1>5, <1>6 DEF FlowInv

\* After the statuses the ring is scheduled again.
LEMMA AfterStatusInv == ASSUME FlowInv, NEW r \in Rings, F!AfterStatus(r) PROVE FlowInv'
<1>1. FlowType'
  <2>1. FlowTypes'
    BY FlowAssumption DEF FlowInv, FlowType, FlowTypes, Threads, F!AfterStatus, F!Kick
  <2>2. Threads'
    BY DEF FlowInv, FlowType, Threads, F!AfterStatus, F!Kick
  <2> QED
    BY <2>1, <2>2 DEF FlowType
<1>2. Phases'
  <2> SUFFICES ASSUME NEW s \in Rings \ stray' PROVE Phase(s)'
    BY DEF Phases
  <2>1. Phase(s)
    BY DEF FlowInv, Phases, F!AfterStatus
  <2> QED
    BY <2>1
      DEF FlowInv, FlowType, FlowTypes, Threads, Phase, Asked, Once, F!AfterStatus, F!Kick
<1>3. Drained'
  <2> SUFFICES ASSUME late' = 0, NEW s \in Rings \ stray' PROVE Empty(s)'
    BY DEF Drained
  <2>1. Phase(s) /\ (late = 0 => Empty(s))
    BY DEF FlowInv, Phases, Drained, F!AfterStatus
  <2> QED
    BY <2>1, FlowAssumption
      DEF FlowInv, FlowType, FlowTypes, Threads, Phase, Empty, Leaving, Asked, Once,
          F!AfterStatus,
          F!Kick
<1>4. Counted'
  <2>1. InTx' = InTx /\ InWk' = InWk /\ UNCHANGED <<q, unread, inair, pkts, gone, late, stray>>
    BY DEF FlowInv, FlowType, Threads, InTx, InWk, F!AfterStatus, F!Kick
  <2> QED
    BY <2>1, CountKept DEF FlowInv
<1>5. GoneByDeletion'
  BY DEF FlowInv, FlowType, FlowTypes, Threads, Phases, Phase, Asked, Once, GoneByDeletion,
       Between,
       F!AfterStatus, F!Kick
<1>6. F!StoppedHasReason'
  BY DEF FlowInv, F!StoppedHasReason, F!AfterStatus, F!Kick
<1> QED
  BY <1>1, <1>2, <1>3, <1>4, <1>5, <1>6 DEF FlowInv

\* A peer leaves.
LEMMA DelCloseInv == ASSUME FlowInv, NEW r \in Rings, F!DelClose(r) PROVE FlowInv'
<1>1. FlowType'
  <2>1. FlowTypes'
    BY FlowAssumption DEF FlowInv, FlowType, FlowTypes, Threads, F!DelClose, F!NotInTxflow
  <2>2. Threads'
    BY DEF FlowInv, FlowType, Threads, F!DelClose, F!NotInTxflow
  <2> QED
    BY <2>1, <2>2 DEF FlowType
<1>2. Phases'
  <2> SUFFICES ASSUME NEW s \in Rings \ stray' PROVE Phase(s)'
    BY DEF Phases
  <2>1. Phase(s)
    BY DEF FlowInv, Phases, F!DelClose
  <2> QED
    BY <2>1
      DEF FlowInv, FlowType, FlowTypes, Threads, Phase, Asked, Once, F!DelClose,
          F!NotInTxflow
<1>3. Drained'
  <2> SUFFICES ASSUME late' = 0, NEW s \in Rings \ stray' PROVE Empty(s)'
    BY DEF Drained
  <2>1. Phase(s) /\ (late = 0 => Empty(s))
    BY DEF FlowInv, Phases, Drained, F!DelClose
  <2> QED
    BY <2>1, FlowAssumption
      DEF FlowInv, FlowType, FlowTypes, Threads, Phase, Empty, Leaving, Asked, Once,
          F!DelClose,
          F!NotInTxflow
<1>4. Counted'
  <2>1. InTx' = InTx /\ InWk' = InWk /\ UNCHANGED <<q, unread, inair, pkts, gone, late, stray>>
    BY DEF FlowInv, FlowType, Threads, InTx, InWk, F!DelClose, F!NotInTxflow
  <2> QED
    BY <2>1, CountKept DEF FlowInv
<1>5. GoneByDeletion'
  BY DEF FlowInv, FlowType, FlowTypes, Threads, Phases, Phase, Asked, Once, GoneByDeletion,
       Between,
       F!DelClose, F!NotInTxflow
<1>6. F!StoppedHasReason'
  BY DEF FlowInv, F!StoppedHasReason, F!DelClose, F!NotInTxflow
<1> QED
  BY <1>1, <1>2, <1>3, <1>4, <1>5, <1>6 DEF FlowInv

\* Its ring is empty.
LEMMA DelDrainedInv == ASSUME FlowInv, F!DelDrained PROVE FlowInv'
<1>1. FlowType'
  <2>1. FlowTypes'
    BY FlowAssumption DEF FlowInv, FlowType, FlowTypes, Threads, F!DelDrained
  <2>2. Threads'
    BY DEF FlowInv, FlowType, Threads, F!DelDrained
  <2> QED
    BY <2>1, <2>2 DEF FlowType
<1>2. Phases'
  <2> SUFFICES ASSUME NEW s \in Rings \ stray' PROVE Phase(s)'
    BY DEF Phases
  <2>1. Phase(s)
    BY DEF FlowInv, Phases, F!DelDrained
  <2> QED
    BY <2>1 DEF FlowInv, FlowType, FlowTypes, Threads, Phase, Asked, Once, F!DelDrained
<1>3. Drained'
  <2> SUFFICES ASSUME late' = 0, NEW s \in Rings \ stray' PROVE Empty(s)'
    BY DEF Drained
  <2>1. Phase(s) /\ (late = 0 => Empty(s))
    BY DEF FlowInv, Phases, Drained, F!DelDrained
  <2> QED
    BY <2>1, FlowAssumption
      DEF FlowInv, FlowType, FlowTypes, Threads, Phase, Empty, Leaving, Asked, Once,
          F!DelDrained
<1>4. Counted'
  <2>1. InTx' = InTx /\ InWk' = InWk /\ UNCHANGED <<q, unread, inair, pkts, gone, late, stray>>
    BY DEF FlowInv, FlowType, Threads, InTx, InWk, F!DelDrained
  <2> QED
    BY <2>1, CountKept DEF FlowInv
<1>5. GoneByDeletion'
  BY DEF FlowInv, FlowType, FlowTypes, Threads, Phases, Phase, Asked, Once, GoneByDeletion,
       Between,
       F!DelDrained
<1>6. F!StoppedHasReason'
  BY DEF FlowInv, F!StoppedHasReason, F!DelDrained
<1> QED
  BY <1>1, <1>2, <1>3, <1>4, <1>5, <1>6 DEF FlowInv

\* The deleter does not wait any longer.
LEMMA DelGiveUpInv == ASSUME FlowInv, F!DelGiveUp PROVE FlowInv'
<1>1. FlowType'
  <2>1. FlowTypes'
    BY FlowAssumption DEF FlowInv, FlowType, FlowTypes, Threads, F!DelGiveUp
  <2>2. Threads'
    BY DEF FlowInv, FlowType, Threads, F!DelGiveUp
  <2> QED
    BY <2>1, <2>2 DEF FlowType
<1>2. Phases'
  <2> SUFFICES ASSUME NEW s \in Rings \ stray' PROVE Phase(s)'
    BY DEF Phases
  <2>1. Phase(s)
    BY DEF FlowInv, Phases, F!DelGiveUp
  <2> QED
    BY <2>1 DEF FlowInv, FlowType, FlowTypes, Threads, Phase, Asked, Once, F!DelGiveUp
<1>3. Drained'
  <2> SUFFICES ASSUME late' = 0, NEW s \in Rings \ stray' PROVE Empty(s)'
    BY DEF Drained
  <2>1. Phase(s) /\ (late = 0 => Empty(s))
    BY DEF FlowInv, Phases, Drained, F!DelGiveUp
  <2> QED
    BY <2>1, FlowAssumption
      DEF FlowInv, FlowType, FlowTypes, Threads, Phase, Empty, Leaving, Asked, Once,
          F!DelGiveUp
<1>4. Counted'
  <2>1. F!Total(q)' = F!Total(q)
    BY SumsSame DEF F!DelGiveUp
  <2>2. F!Total(unread)' = F!Total(unread)
    BY SumsSame DEF F!DelGiveUp
  <2>3. F!Total(inair)' = F!Total(inair)
    BY SumsSame DEF F!DelGiveUp
  <2>4. InTx' = InTx /\ InWk' = InWk /\ gone' = gone /\ pkts' = pkts /\ late' # 0
    BY DEF FlowInv, FlowType, FlowTypes, Threads, InTx, InWk, F!DelGiveUp
  <2> QED
    BY <2>1, <2>2, <2>3, <2>4, CountFacts DEF Counted
<1>5. GoneByDeletion'
  BY DEF FlowInv, FlowType, FlowTypes, Threads, Phases, Phase, Asked, Once, GoneByDeletion,
       Between,
       F!DelGiveUp
<1>6. F!StoppedHasReason'
  BY DEF FlowInv, F!StoppedHasReason, F!DelGiveUp
<1> QED
  BY <1>1, <1>2, <1>3, <1>4, <1>5, <1>6 DEF FlowInv

\* It asks the firmware to give the ring up.
LEMMA DelSendInv == ASSUME FlowInv, F!DelSend PROVE FlowInv'
<1>c. /\ ctl' \subseteq {"create", "delete"} \X Rings
      /\ unseen' \subseteq {"create", "delete"} \X Rings
      /\ stray' = stray /\ fails' \in {fails, fails + 1} /\ fails \in Nat
      /\ ctl' \cup unseen' = ctl \cup unseen \cup {<<"delete", del.r>>}
      /\ ctl' \cap unseen' \subseteq (ctl \cap unseen) \cup (ctl \cap {<<"delete", del.r>>})
      /\ del.r \in Rings
  BY SentFacts DEF FlowInv, FlowType, FlowTypes, Threads, F!DelSend
<1>1. FlowType'
  <2>1. FlowTypes'
    BY <1>c, FlowAssumption DEF FlowInv, FlowType, FlowTypes, Threads, F!DelSend
  <2>2. Threads'
    BY DEF FlowInv, FlowType, Threads, F!DelSend
  <2> QED
    BY <2>1, <2>2 DEF FlowType
<1>2. Phases'
  <2> SUFFICES ASSUME NEW s \in Rings \ stray' PROVE Phase(s)'
    BY DEF Phases
  <2>1. Phase(s)
    BY <1>c DEF FlowInv, Phases, F!DelSend
  <2> QED
    BY <1>c, <2>1 DEF FlowInv, FlowType, FlowTypes, Threads, Phase, Asked, Once, F!DelSend
<1>3. Drained'
  <2> SUFFICES ASSUME late' = 0, NEW s \in Rings \ stray' PROVE Empty(s)'
    BY DEF Drained
  <2>1. Phase(s) /\ (late = 0 => Empty(s))
    BY <1>c DEF FlowInv, Phases, Drained, F!DelSend
  <2> QED
    BY <1>c, <2>1, FlowAssumption
      DEF FlowInv, FlowType, FlowTypes, Threads, Phase, Empty, Leaving, Asked, Once, F!DelSend
<1>4. Counted'
  <2>1. InTx' = InTx /\ InWk' = InWk /\ UNCHANGED <<q, unread, inair, pkts, gone, late, stray>>
    BY <1>c DEF FlowInv, FlowType, Threads, InTx, InWk, F!DelSend
  <2> QED
    BY <1>c, <2>1, CountKept DEF FlowInv
<1>5. GoneByDeletion'
  <2>1. /\ ~fault /\ tx' = tx /\ status' = status /\ deletes' = deletes
        /\ fails \in Nat /\ deletes \in Nat /\ GoneByDeletion
    BY DEF FlowInv, FlowType, FlowTypes, F!Running, F!DelSend
  <2>2. fault' => stray # {}
    <3>1. CASE del.r \in stray
      BY <3>1
    <3>2. CASE del.r \notin stray
      <4>1. status[del.r] # "none"
        BY <1>c, <3>2 DEF FlowInv, Phases, Phase, F!DelSend
      <4> QED
        BY <4>1 DEF F!DelSend
    <3> QED
      BY <3>1, <3>2
  <2>3. stray' = stray /\ fails' \in {fails, fails + 1}
    BY <1>c
  <2>4. CASE fails' = fails
    BY <2>1, <2>2, <2>3, <2>4 DEF GoneByDeletion, Between
  <2>5. CASE fails' = fails + 1
    BY <2>1, <2>2, <2>3, <2>5 DEF GoneByDeletion, Between
  <2> QED
    BY <2>3, <2>4, <2>5
<1>6. F!StoppedHasReason'
  BY DEF FlowInv, F!StoppedHasReason, F!DelSend
<1> QED
  BY <1>1, <1>2, <1>3, <1>4, <1>5, <1>6 DEF FlowInv

\* It cannot ask, and removes the ring.
LEMMA DelRemoveInv == ASSUME FlowInv, F!DelRemove PROVE FlowInv'
<1>a. F!DeleteRing(del.r) /\ del.r \in Rings
  BY DEF FlowInv, FlowType, Threads, F!DelRemove, F!RemoveRing
<1>b. /\ status' = [status EXCEPT ![del.r] = "none"] /\ q' \in [Rings -> Nat]
      /\ gone' \in Nat /\ F!Total(q)' \in Nat /\ F!Total(q)' <= F!Total(q)
      /\ gone' + F!Total(q)' = gone + F!Total(q)
      /\ blocked' \in [Rings -> BOOLEAN] /\ stopped' \in BOOLEAN /\ F!StoppedHasReason'
  BY <1>a, DeleteFacts
<1>c. /\ ctl' \subseteq {"create", "delete"} \X Rings
      /\ unseen' \subseteq {"create", "delete"} \X Rings
      /\ stray \subseteq stray' /\ stray' \subseteq Rings
      /\ fails \in Nat /\ fails' = fails + 1
      /\ \A k \in {"create", "delete"}, s \in Rings \ stray' :
            /\ <<k, s>> \in ctl' \cup unseen' => <<k, s>> \in ctl \cup unseen
            /\ <<k, s>> \in ctl' /\ <<k, s>> \in unseen' =>
                   <<k, s>> \in ctl /\ <<k, s>> \in unseen
  BY <1>a, NotSentFacts DEF F!DelRemove, F!RemoveRing
<1>1. FlowType'
  <2>1. /\ status' \in [Rings -> {"none", "closed", "open", "closing"}]
        /\ dma' \subseteq Rings /\ works' \subseteq Rings /\ fault' \in BOOLEAN
        /\ fails' \in Nat
    BY <1>a, <1>b, <1>c DEF FlowInv, FlowType, FlowTypes, F!DelRemove, F!RemoveRing
  <2>2. unread' \in [Rings -> 0 .. FlowDepth - 1]
    BY FlowAssumption DEF FlowInv, FlowType, FlowTypes, F!DelRemove, F!RemoveRing
  <2>3. FlowTypes'
    BY <1>a, <1>b, <1>c, <2>1, <2>2
      DEF FlowInv, FlowType, FlowTypes, F!DelRemove, F!RemoveRing
  <2>4. Threads'
    BY DEF FlowInv, FlowType, Threads, F!DelRemove, F!RemoveRing
  <2> QED
    BY <2>3, <2>4 DEF FlowType
<1>2. Phases'
  <2> SUFFICES ASSUME NEW s \in Rings \ stray' PROVE Phase(s)'
    BY DEF Phases
  <2>1. Phase(s) /\ s \notin stray
    BY <1>c DEF FlowInv, Phases, F!DelRemove, F!RemoveRing
  <2> QED
    BY <1>a, <1>b, <1>c, <2>1
      DEF FlowInv, FlowType, FlowTypes, Threads, Phase, Asked, Once, F!DelRemove, F!RemoveRing
<1>3. Drained'
  <2> SUFFICES ASSUME late' = 0, NEW s \in Rings \ stray' PROVE Empty(s)'
    BY DEF Drained
  <2>1. Phase(s) /\ (late = 0 => Empty(s))
    BY <1>c DEF FlowInv, Phases, Drained, F!DelRemove, F!RemoveRing
  <2> QED
    BY <1>a, <1>b, <1>c, <2>1, FlowAssumption
      DEF FlowInv, FlowType, FlowTypes, Threads, Phase, Asked, Once, Empty, Leaving,
          F!DelRemove, F!RemoveRing
<1>4. Counted'
  <2>1. F!Total(inair)' = F!Total(inair) /\ InTx' = InTx /\ InWk' = InWk /\ pkts' = pkts
        /\ late' = late /\ (stray' = {} => stray = {})
    BY <1>c, SumsSame DEF InTx, InWk, F!DelRemove, F!RemoveRing
  <2>2. F!Total(unread)' = F!Total(unread)
    BY SumsSame DEF F!DelRemove, F!RemoveRing
  <2> QED
    BY <1>b, <2>1, <2>2, CountFacts DEF Counted
<1>5. GoneByDeletion'
  <2>1. /\ ~fault /\ tx' = tx /\ deletes' = deletes /\ fails \in Nat /\ deletes \in Nat
        /\ fails' \in Nat /\ fails' >= fails /\ (stray # {} => stray' # {})
        /\ (stray # {} => fails > 0)
    BY <1>c
      DEF FlowInv, FlowType, FlowTypes, GoneByDeletion, F!Running, F!DelRemove,
          F!RemoveRing
  <2>2. fails' > 0
    BY <1>c DEF FlowInv, FlowType, FlowTypes, F!DelRemove, F!RemoveRing
  <2>3. fault' => stray' # {}
    <3>1. CASE del.r \in stray
      BY <2>1, <3>1
    <3>2. CASE del.r \notin stray
      <4>1. del.at # "idle" /\ del.r = del.r /\ Phase(del.r)
        BY <1>a, <3>2 DEF FlowInv, Phases, Asked, F!DelRemove, F!RemoveRing
      <4>2. del.r \in dma
        BY <4>1 DEF Phase
      <4> QED
        BY <4>2 DEF F!DelRemove, F!RemoveRing
    <3> QED
      BY <3>1, <3>2
  <2> QED
    BY <2>1, <2>2, <2>3, <1>c DEF GoneByDeletion, Between
<1>6. F!StoppedHasReason'
  BY <1>b
<1> QED
  BY <1>1, <1>2, <1>3, <1>4, <1>5, <1>6 DEF FlowInv

\* The firmware has given the ring up.
LEMMA DeletedInv == ASSUME FlowInv, NEW r \in Rings, F!Deleted(r) PROVE FlowInv'
<1>a. F!DeleteRing(r) /\ r \in Rings
  BY DEF FlowInv, FlowType, Threads, F!Deleted, F!RemoveRing
<1>b. /\ status' = [status EXCEPT ![r] = "none"] /\ q' \in [Rings -> Nat]
      /\ gone' \in Nat /\ F!Total(q)' \in Nat /\ F!Total(q)' <= F!Total(q)
      /\ gone' + F!Total(q)' = gone + F!Total(q)
      /\ blocked' \in [Rings -> BOOLEAN] /\ stopped' \in BOOLEAN /\ F!StoppedHasReason'
  BY <1>a, DeleteFacts
<1>1. FlowType'
  <2>1. /\ status' \in [Rings -> {"none", "closed", "open", "closing"}]
        /\ dma' \subseteq Rings /\ works' \subseteq Rings /\ fault' \in BOOLEAN
        /\ fails' \in Nat
    BY <1>a, <1>b DEF FlowInv, FlowType, FlowTypes, F!Deleted, F!RemoveRing
  <2>2. unread' \in [Rings -> 0 .. FlowDepth - 1]
    BY FlowAssumption DEF FlowInv, FlowType, FlowTypes, F!Deleted, F!RemoveRing
  <2>3. FlowTypes'
    BY <1>a, <1>b, <2>1, <2>2 DEF FlowInv, FlowType, FlowTypes, F!Deleted, F!RemoveRing
  <2>4. Threads'
    BY DEF FlowInv, FlowType, Threads, F!Deleted, F!RemoveRing
  <2> QED
    BY <2>3, <2>4 DEF FlowType
<1>2. Phases'
  <2> SUFFICES ASSUME NEW s \in Rings \ stray' PROVE Phase(s)'
    BY DEF Phases
  <2>1. Phase(s) /\ s \notin stray
    BY DEF FlowInv, Phases, F!Deleted, F!RemoveRing
  <2> QED
    BY <1>a, <1>b, <2>1
      DEF FlowInv, FlowType, FlowTypes, Threads, Phase, Asked, Once, F!Deleted, F!RemoveRing
<1>3. Drained'
  <2> SUFFICES ASSUME late' = 0, NEW s \in Rings \ stray' PROVE Empty(s)'
    BY DEF Drained
  <2>1. Phase(s) /\ (late = 0 => Empty(s))
    BY DEF FlowInv, Phases, Drained, F!Deleted, F!RemoveRing
  <2> QED
    BY <1>a, <1>b, <2>1, FlowAssumption
      DEF FlowInv, FlowType, FlowTypes, Threads, Phase, Asked, Once, Empty, Leaving,
          F!Deleted, F!RemoveRing
<1>4. Counted'
  <2>1. F!Total(inair)' = F!Total(inair) /\ InTx' = InTx /\ InWk' = InWk /\ pkts' = pkts
        /\ late' = late /\ stray' = stray
    BY SumsSame DEF InTx, InWk, F!Deleted, F!RemoveRing
  <2>2. F!Total(unread)' = F!Total(unread)
    BY SumsSame DEF F!Deleted, F!RemoveRing
  <2> QED
    BY <1>b, <2>1, <2>2, CountFacts DEF Counted
<1>5. GoneByDeletion'
  <2>1. /\ ~fault /\ tx' = tx /\ deletes' = deletes /\ fails \in Nat /\ deletes \in Nat
        /\ fails' = fails /\ stray' = stray
        /\ (stray # {} => fails > 0)
    BY DEF FlowInv, FlowType, FlowTypes, GoneByDeletion, F!Running, F!Deleted, F!RemoveRing
  <2>2. deletes' + fails' > 0
    <3>1. CASE r \in stray
      <4>1. fails > 0
        BY <2>1, <3>1
      <4> QED
        BY <2>1, <4>1
    <3>2. CASE r \notin stray
      <4>1. Asked("delete", r) /\ Phase(r)
        BY <1>a, <3>2 DEF FlowInv, Phases, Asked, F!Deleted, F!RemoveRing
      <4>2. deletes > 0
        BY <4>1 DEF Phase
      <4> QED
        BY <2>1, <4>2
    <3> QED
      BY <3>1, <3>2
  <2>3. fault' => stray' # {}
    <3>1. CASE r \in stray
      BY <2>1, <3>1
    <3>2. CASE r \notin stray
      <4>1. Asked("delete", r) /\ Phase(r)
        BY <1>a, <3>2 DEF FlowInv, Phases, Asked, F!Deleted, F!RemoveRing
      <4>2. r \in dma
        BY <4>1 DEF Phase
      <4> QED
        BY <4>2 DEF F!Deleted, F!RemoveRing
    <3> QED
      BY <3>1, <3>2
  <2> QED
    BY <2>1, <2>2, <2>3 DEF GoneByDeletion, Between
<1>6. F!StoppedHasReason'
  BY <1>b
<1> QED
  BY <1>1, <1>2, <1>3, <1>4, <1>5, <1>6 DEF FlowInv

\* The firmware has not given it up.
LEMMA DeleteFailedInv == ASSUME FlowInv, NEW r \in Rings, F!DeleteFailed(r) PROVE FlowInv'
<1>a. F!DeleteRing(r) /\ r \in Rings
  BY DEF FlowInv, FlowType, Threads, F!DeleteFailed
<1>b. /\ status' = [status EXCEPT ![r] = "none"] /\ q' \in [Rings -> Nat]
      /\ gone' \in Nat /\ F!Total(q)' \in Nat /\ F!Total(q)' <= F!Total(q)
      /\ gone' + F!Total(q)' = gone + F!Total(q)
      /\ blocked' \in [Rings -> BOOLEAN] /\ stopped' \in BOOLEAN /\ F!StoppedHasReason'
  BY <1>a, DeleteFacts
<1>1. FlowType'
  <2>1. /\ status' \in [Rings -> {"none", "closed", "open", "closing"}]
        /\ dma' \subseteq Rings /\ works' \subseteq Rings /\ fault' \in BOOLEAN
        /\ fails' \in Nat
    BY <1>a, <1>b DEF FlowInv, FlowType, FlowTypes, F!DeleteFailed
  <2>2. unread' \in [Rings -> 0 .. FlowDepth - 1]
    BY FlowAssumption DEF FlowInv, FlowType, FlowTypes, F!DeleteFailed
  <2>3. FlowTypes'
    BY <1>a, <1>b, <2>1, <2>2 DEF FlowInv, FlowType, FlowTypes, F!DeleteFailed
  <2>4. Threads'
    BY DEF FlowInv, FlowType, Threads, F!DeleteFailed
  <2> QED
    BY <2>3, <2>4 DEF FlowType
<1>2. Phases'
  <2> SUFFICES ASSUME NEW s \in Rings \ stray' PROVE Phase(s)'
    BY DEF Phases
  <2>1. Phase(s) /\ s \notin stray
    BY DEF FlowInv, Phases, F!DeleteFailed
  <2> QED
    BY <1>a, <1>b, <2>1
      DEF FlowInv, FlowType, FlowTypes, Threads, Phase, Asked, Once, F!DeleteFailed
<1>3. Drained'
  <2> SUFFICES ASSUME late' = 0, NEW s \in Rings \ stray' PROVE Empty(s)'
    BY DEF Drained
  <2>1. Phase(s) /\ (late = 0 => Empty(s))
    BY DEF FlowInv, Phases, Drained, F!DeleteFailed
  <2> QED
    BY <1>a, <1>b, <2>1, FlowAssumption
      DEF FlowInv, FlowType, FlowTypes, Threads, Phase, Asked, Once, Empty, Leaving,
          F!DeleteFailed
<1>4. Counted'
  <2>1. F!Total(inair)' = F!Total(inair) /\ InTx' = InTx /\ InWk' = InWk /\ pkts' = pkts
        /\ late' = late /\ stray' = stray
    BY SumsSame DEF InTx, InWk, F!DeleteFailed
  <2>2. F!Total(unread)' = F!Total(unread)
    BY SumsSame DEF F!DeleteFailed
  <2> QED
    BY <1>b, <2>1, <2>2, CountFacts DEF Counted
<1>5. GoneByDeletion'
  <2>1. /\ ~fault /\ tx' = tx /\ deletes' = deletes /\ fails \in Nat /\ deletes \in Nat
        /\ fails' \in Nat /\ fails' >= fails /\ (stray # {} => stray' # {})
        /\ (stray # {} => fails > 0)
    BY DEF FlowInv, FlowType, FlowTypes, GoneByDeletion, F!Running, F!DeleteFailed
  <2>2. fails' > 0
    BY DEF FlowInv, FlowType, FlowTypes, F!DeleteFailed
  <2>3. fault' = fault
    BY DEF F!DeleteFailed
  <2> QED
    BY <2>1, <2>2, <2>3 DEF GoneByDeletion, Between
<1>6. F!StoppedHasReason'
  BY <1>b
<1> QED
  BY <1>1, <1>2, <1>3, <1>4, <1>5, <1>6 DEF FlowInv

-----------------------------------------------------------------------------
\* At the beginning there is neither a ring nor a packet.
LEMMA FlowInit == ASSUME F!Init PROVE FlowInv
<1>1. FlowType
  <2>1. FlowTypes
    <3>1. 0 \in 0 .. FlowDepth - 1 /\ 0 \in 0 .. MaxPkts
      BY FlowAssumption
    <3>2. /\ unread \in [Rings -> 0 .. FlowDepth - 1] /\ inair \in [Rings -> Nat]
          /\ out \in [Rings -> Int]
          /\ q \in [Rings -> Nat] /\ status \in [Rings -> {"none", "closed", "open", "closing"}]
      BY <3>1 DEF F!Init
    <3>3. blocked \in [Rings -> BOOLEAN] /\ wasfull \in [Rings -> BOOLEAN]
      BY DEF F!Init
    <3> QED
      BY <3>1, <3>2, <3>3 DEF FlowTypes, F!Init
  <2>2. Threads
    BY DEF Threads, F!Init, F!Idle
  <2> QED
    BY <2>1, <2>2 DEF FlowType
<1>2. Phases /\ Drained
  BY DEF Phases, Phase, Asked, Once, Drained, Empty, Leaving, F!Init, F!Idle
<1>3. Counted
  <2>1. F!Total(q) = 0 /\ F!Total(unread) = 0 /\ F!Total(inair) = 0
    <3>1. /\ q \in [Rings -> Nat] /\ \A r \in Rings : q[r] = 0
          /\ unread \in [Rings -> Nat] /\ \A r \in Rings : unread[r] = 0
          /\ inair \in [Rings -> Nat] /\ \A r \in Rings : inair[r] = 0
      BY DEF F!Init
    <3>2. IsFiniteSet(Rings)
      BY FlowAssumption
    <3> QED
      BY <3>1, <3>2, TotalNat
  <2>2. InTx = 0 /\ InWk = 0 /\ pkts = 0 /\ gone = 0
    BY DEF InTx, InWk, F!Init, F!Idle
  <2> QED
    BY <2>1, <2>2 DEF Counted
<1>4. GoneByDeletion /\ F!StoppedHasReason
  BY DEF GoneByDeletion, Between, F!StoppedHasReason, F!Init, F!Idle
<1> QED
  BY <1>1, <1>2, <1>3, <1>4 DEF FlowInv

\* Nothing else touches the flow rings.
LEMMA FlowSame == ASSUME FlowInv, UNCHANGED fVars PROVE FlowInv'
<1>1. /\ FlowType' /\ Phases' /\ Drained' /\ GoneByDeletion' /\ F!StoppedHasReason'
  BY DEF FlowInv, FlowType, FlowTypes, Threads, Phases, Phase, Asked, Once, Drained, Empty,
         Leaving, GoneByDeletion, Between, F!StoppedHasReason, fVars
<1>2. Counted'
  <2>1. InTx' = InTx /\ InWk' = InWk /\ UNCHANGED <<q, unread, inair, pkts, gone, late, stray>>
    BY DEF InTx, InWk, fVars
  <2> QED
    BY <2>1, CountKept DEF FlowInv
<1> QED
  BY <1>1, <1>2 DEF FlowInv

\* Every step of the flow rings keeps the invariant.
LEMMA FlowStep == ASSUME FlowInv, F!Next PROVE FlowInv'
<1>1. ASSUME NEW r \in Rings, F!TxLookup(r) \/ F!TxCreate(r) PROVE FlowInv'
  BY <1>1, TxLookupInv, TxCreateInv
<1>2. CASE F!Tx
  BY <1>2, TxFirstInv, TxEnqueueInv, TxBlockInv, TxRecheckInv, TxKickInv DEF F!Tx
<1>3. CASE F!Creates
  BY <1>3, CreateRequestInv, CreateNoMemoryInv, CreateNoRoomInv DEF F!Creates
<1>4. CASE F!Answers
  BY <1>4, CreatedInv, CreateFailedInv, DeletedInv, DeleteFailedInv DEF F!Answers
<1>5. CASE F!Worker
  BY <1>5, WkStartInv, WkRingInv, WkEndInv, WkDequeueInv, WkUnblockInv, WkPostInv,
     WkLeaveInv
     DEF F!Worker
<1>6. CASE F!Deleter
  BY <1>6, DelCloseInv, DelDrainedInv, DelGiveUpInv, DelSendInv, DelRemoveInv DEF F!Deleter
<1>7. ASSUME NEW r \in Rings, F!FirmwareRead(r) \/ F!TxStatus(r) \/ F!AfterStatus(r) PROVE FlowInv'
  BY <1>7, FirmwareReadInv, TxStatusInv, AfterStatusInv
<1> QED
  BY <1>1, <1>2, <1>3, <1>4, <1>5, <1>6, <1>7 DEF F!Next

\* FlowInv is an invariant of the data path.
LEMMA FlowInvariant == TransmitSpec => []FlowInv
<1>1. TransmitInit => FlowInv
  BY FlowInit DEF TransmitInit
<1>2. FlowInv /\ [TransmitNext]_<<part, vars, fVars, sVars, rVars>> => FlowInv'
  <2> SUFFICES ASSUME FlowInv, [TransmitNext]_<<part, vars, fVars, sVars, rVars>> PROVE FlowInv'
    OBVIOUS
  <2>1. CASE FlowNext
    BY <2>1, FlowStep DEF FlowNext
  <2>2. CASE RingNext \/ SignalNext \/ ReorderNext \/ UNCHANGED <<part, vars, fVars, sVars, rVars>>
    <3>1. UNCHANGED fVars
      BY <2>2 DEF RingNext, SignalNext, ReorderNext
    <3> QED
      BY <3>1, FlowSame
  <2> QED
    BY <2>1, <2>2 DEF TransmitNext
<1> QED
  BY <1>1, <1>2, PTL DEF TransmitSpec

\* No packet is lost or sent twice: at any number of rings and of packets,
\* each one is queued, in a thread's hands, in a ring, with the firmware or
\* freed (brcmf_msgbuf_txflow, brcmf_flowring_delete), while no ring is removed
\* with its request in the control ring and every deletion waits for statuses.
THEOREM PacketsAccountedHolds == TransmitSpec => []PacketsAccounted
<1>1. FlowInv => PacketsAccounted
  <2> SUFFICES ASSUME FlowInv, ~fault, ~(late > 0), stray = {}
      PROVE pkts = gone + F!Total(q) + F!Total(unread) + F!Total(inair)
                   + (IF tx.at \in {"first", "enqueue"} THEN 1 ELSE 0)
                   + (IF wk.at \in {"unblock", "post"} THEN 1 ELSE 0)
    BY DEF PacketsAccounted, F!PacketsAccounted
  <2>1. late = 0
    BY CountFacts
  <2> QED
    BY <2>1 DEF FlowInv, Counted, InTx, InWk
<1> QED
  BY <1>1, FlowInvariant, PTL

\* A ring has its memory from creation to deletion, its outstanding count is
\* what the firmware has, nothing is posted in a ring that is being closed,
\* and the interface is stopped only while a ring is blocked
\* (brcmf_msgbuf_delete_flowring, brcmf_flowring_block).  Rings that were
\* removed with a request left in the control ring lose this, no other does.
THEOREM RingLifeHolds == TransmitSpec => []RingLife
<1>1. FlowInv => RingLife
  <2> SUFFICES ASSUME FlowInv PROVE F!RingLife /\ F!StoppedHasReason
    BY DEF RingLife
  <2>1. F!TypeOK
    <3>1. ASSUME NEW r \in Rings PROVE q[r] \in 0 .. MaxPkts
      <4>1. q \in [Rings -> Nat] /\ IsFiniteSet(Rings) /\ pkts <= MaxPkts
        BY FlowAssumption DEF FlowInv, FlowType, FlowTypes
      <4>2. q[r] <= F!Total(q)
        BY <4>1, TotalBounds
      <4>3. F!Total(q) <= pkts
        BY CountFacts DEF Counted
      <4> QED
        BY <4>1, <4>2, <4>3, CountFacts, FlowAssumption
    <3> QED
      BY <3>1 DEF FlowInv, FlowType, FlowTypes, F!TypeOK
  <2>2. F!RingHasMemory /\ F!NotInTxflowWhenClosing
    BY DEF FlowInv, Phases, Phase, F!RingHasMemory, F!NotInTxflowWhenClosing
  <2>3. F!OutstandingTrue
    BY CountFacts DEF FlowInv, Drained, Empty, F!OutstandingTrue
  <2>4. F!FaultNeedsDeletion
    BY DEF FlowInv, GoneByDeletion, Between, F!FaultNeedsDeletion
  <2> QED
    BY <2>1, <2>2, <2>3, <2>4 DEF FlowInv, F!RingLife
<1> QED
  BY <1>1, FlowInvariant, PTL

-----------------------------------------------------------------------------
(***************************************************************************)
(* A submission ring, for every depth and any number of messages.  The     *)
(* inductive invariant is RingInv: the indices keep their order around the *)
(* ring and the messages between them are in their slots.                  *)
(***************************************************************************)
USE DepthAssumption, MaxMsgsAssumption

\* A reservation gives out at least one slot, keeps one free and stays
\* before the end of the ring (reserve_for_write_multiple).
LEMMA GrantedBounds ==
    ASSUME NEW n \in 1..Depth, NEW r \in Slots, NEW w \in Slots, Available(r, w) > 1
    PROVE  /\ Granted(n, r, w) \in 1..Depth
           /\ Granted(n, r, w) < Available(r, w)
           /\ w + Granted(n, r, w) <= Depth
  BY DEF Granted, Available, Lesser, Slots

\* What is available and what is in use add up to the ring.
LEMMA AvailableIsRest ==
    ASSUME NEW r \in Slots, NEW w \in Slots
    PROVE  Available(r, w) = Depth - Ahead(r, w)
  BY DEF Available, Ahead, Slots

\* The empty ring that brcmf_commonring_config leaves satisfies the invariant.
LEMMA InitInv == Init => RingInv
<1> SUFFICES ASSUME Init PROVE RingInv
  OBVIOUS
<1>1. 0 \in Slots
  BY DEF Slots
<1>2. TypeOK
  <2>1. was_full \in BOOLEAN /\ up \in BOOLEAN
    BY Zenon DEF Init
  <2>2. slot \in [Slots -> Nat]
    BY DEF Init
  <2>3. fill \in 0..Depth /\ todo \in Nat /\ fill + todo <= Depth /\ sent \in Nat /\ got \in Nat
    BY DEF Init
  <2> QED
    BY <1>1, <2>1, <2>2, <2>3 DEF Init, TypeOK
<1>3. Order /\ sent - got = Ahead(devR, Front)
  BY DEF Init, Order, Front, Ahead
<1>4. ASSUME NEW i \in Slots PROVE ~(Ahead(devR, i) < sent - got)
  BY DEF Init, Ahead, Slots
<1> QED
  BY <1>2, <1>3, <1>4 DEF RingInv, NothingOverwritten

\* Refreshing the copy of the read index keeps the order.
LEMMA LookedOrder ==
    ASSUME RingInv, NEW e \in BOOLEAN
    PROVE  /\ Looked(e) \in Slots
           /\ Ahead(Looked(e), w_ptr) = Ahead(Looked(e), devR) + Ahead(devR, w_ptr)
  BY DEF RingInv, TypeOK, Order, Looked, Refreshed, Ahead, Slots

\* A reservation, granted or refused, keeps the invariant (reserve_for_write).
LEMMA ReserveInv ==
    ASSUME RingInv, NEW n \in 1..Depth, Reserve(n)
    PROVE  RingInv'
<1> DEFINE r == Looked(Roomy(r_ptr))
           a == Granted(n, r, w_ptr)
<1>0. Roomy(r_ptr) \in BOOLEAN
  BY DEF Roomy
<1>1. /\ r \in Slots
      /\ Ahead(r, w_ptr) = Ahead(r, devR) + Ahead(devR, w_ptr)
  BY <1>0, LookedOrder
<1>2. r_ptr' = r
  BY DEF Reserve
<1>3. UNCHANGED <<f_ptr, slot, devR, devW, up, sent, got>> /\ todo = 0
  BY DEF Reserve
<1>4. CASE ~Roomy(r)
  <2>1. was_full' = TRUE /\ UNCHANGED <<fill, todo, w_ptr>>
    BY <1>4 DEF Reserve
  <2> QED
    BY <1>1, <1>2, <1>3, <2>1
      DEF RingInv, TypeOK, Order, NothingOverwritten, Front, Ahead, Slots, Wrapped
<1>5. CASE Roomy(r)
  <2>1. fill' = w_ptr /\ todo' = a /\ w_ptr' = Wrapped(w_ptr + a) /\ was_full' = was_full
    BY <1>5 DEF Reserve
  <2>2. w_ptr \in Slots /\ devR \in Slots /\ devW \in Slots
    BY DEF RingInv, TypeOK
  <2>3. /\ a \in 1..Depth
        /\ a < Depth - Ahead(r, w_ptr)
        /\ w_ptr + a <= Depth
    BY <1>1, <1>5, <2>2, GrantedBounds, AvailableIsRest DEF Roomy
  <2> HIDE DEF a, r
  <2>4. TypeOK'
    BY <1>1, <1>2, <1>3, <2>1, <2>2, <2>3 DEF RingInv, TypeOK, Slots, Wrapped
  <2>5. Order'
    BY <1>1, <1>2, <1>3, <2>1, <2>2, <2>3
      DEF RingInv, TypeOK, Order, Front, Ahead, Slots, Wrapped
  <2>6. Front' = Front
    BY <1>3, <2>1, <2>3 DEF Front
  <2>7. NothingOverwritten'
    BY <1>3, <2>6 DEF RingInv, NothingOverwritten, Ahead
  <2> QED
    BY <2>4, <2>5, <2>7 DEF RingInv
<1> QED
  BY <1>4, <1>5

\* Filling the next reserved slot keeps the invariant.
LEMMA FillInv ==
    ASSUME RingInv, Fill
    PROVE  RingInv'
<1>1. /\ todo > 0 /\ slot' = [slot EXCEPT ![fill] = sent]
      /\ fill' = fill + 1 /\ todo' = todo - 1 /\ sent' = sent + 1
      /\ UNCHANGED <<r_ptr, w_ptr, f_ptr, was_full, devR, devW, up, got>>
  BY DEF Fill
<1>2. /\ fill \in Slots /\ todo \in Nat /\ fill + todo <= Depth
      /\ r_ptr \in Slots /\ w_ptr \in Slots /\ f_ptr \in Slots /\ devR \in Slots /\ devW \in Slots
      /\ slot \in [Slots -> Nat] /\ sent \in Nat /\ got \in Nat
  BY <1>1 DEF RingInv, TypeOK, Slots
<1>3. TypeOK'
  BY <1>1, <1>2 DEF RingInv, TypeOK, Slots
<1>4. /\ w_ptr = Wrapped(fill + todo) /\ Front = fill
      /\ Ahead(devR, w_ptr) = Ahead(devR, fill) + todo
      /\ Ahead(devR, devW) <= Ahead(devR, fill)
      /\ sent - got = Ahead(devR, fill)
  BY <1>1 DEF RingInv, Order, Front, NothingOverwritten
<1>5. Ahead(devR, Front') = Ahead(devR, fill) + 1
  BY <1>1, <1>2, <1>4 DEF Front, Ahead, Slots, Wrapped
<1>6. Order'
  BY <1>1, <1>2, <1>4, <1>5 DEF RingInv, Order, Front, Ahead, Slots, Wrapped
<1>7. ASSUME NEW i \in Slots, Ahead(devR, i) < sent' - got'
      PROVE  slot'[i] = got' + Ahead(devR, i)
  <2>1. CASE i = fill
    BY <1>1, <1>2, <1>4, <2>1
  <2>2. CASE i # fill
    <3>1. Ahead(devR, i) # Ahead(devR, fill)
      BY <1>2, <2>2 DEF Ahead, Slots
    <3>2. Ahead(devR, i) \in Int /\ Ahead(devR, fill) \in Int
      BY <1>2 DEF Ahead, Slots
    <3>3. Ahead(devR, i) < sent - got
      BY <1>1, <1>2, <1>4, <1>7, <3>1, <3>2
    <3> QED
      BY <1>1, <1>2, <2>2, <3>3 DEF RingInv, NothingOverwritten
  <2> QED
    BY <2>1, <2>2
<1>8. NothingOverwritten'
  <2>1. sent' - got' = Ahead(devR', Front')
    <3>1. sent' - got' = Ahead(devR, fill) + 1
      BY <1>1, <1>2, <1>4 DEF Ahead, Slots
    <3>2. Ahead(devR', Front') = Ahead(devR, Front')
      BY <1>1
    <3> QED
      BY <1>5, <3>1, <3>2
  <2>2. \A i \in Slots : Ahead(devR, i) < sent' - got' => slot'[i] = got' + Ahead(devR, i)
    BY <1>7
  <2>3. devR' = devR
    BY <1>1
  <2> QED
    BY <2>1, <2>2, <2>3 DEF NothingOverwritten, Ahead
<1> QED
  BY <1>3, <1>6, <1>8 DEF RingInv

\* brcmf_commonring_write_cancel gives back exactly the unfilled slots.
LEMMA CancelInv ==
    ASSUME RingInv, WriteCancel
    PROVE  RingInv'
<1>1. /\ todo > 0 /\ w_ptr' = Cancelled(w_ptr, todo) /\ todo' = 0
      /\ UNCHANGED <<r_ptr, f_ptr, was_full, fill, slot, devR, devW, up, sent, got>>
  BY DEF WriteCancel
<1>2. w_ptr' = fill /\ fill \in Slots
  BY <1>1 DEF RingInv, TypeOK, Order, Wrapped, Cancelled, Slots
<1>3. Front' = Front
  BY <1>1, <1>2 DEF Front
<1>4. TypeOK'
  BY <1>1, <1>2 DEF RingInv, TypeOK, Slots
<1>5. Order'
  BY <1>1, <1>2 DEF RingInv, TypeOK, Order, Front, Ahead, Slots, Wrapped
<1>6. NothingOverwritten'
  BY <1>1, <1>3 DEF RingInv, NothingOverwritten, Ahead
<1> QED
  BY <1>4, <1>5, <1>6 DEF RingInv

\* A read by the device keeps the invariant.
LEMMA ReadInv ==
    ASSUME RingInv, DeviceRead
    PROVE  RingInv'
<1>1. /\ devR # devW /\ devR' = Wrapped(devR + 1) /\ got' = got + 1
      /\ UNCHANGED <<r_ptr, w_ptr, f_ptr, was_full, fill, todo, slot, devW, up, sent>>
  BY DEF DeviceRead, ring
<1>2. /\ r_ptr \in Slots /\ w_ptr \in Slots /\ f_ptr \in Slots /\ devR \in Slots
      /\ devW \in Slots /\ devR' \in Slots
      /\ sent \in Nat /\ got \in Nat /\ todo \in Nat /\ fill \in 0..Depth
  BY <1>1 DEF RingInv, TypeOK, Slots, Wrapped
<1>3. TypeOK'
  BY <1>1, <1>2 DEF RingInv, TypeOK
<1>4. Front' = Front /\ Front \in Slots
  BY <1>1, <1>2 DEF Front, RingInv, TypeOK, Slots
<1>6. Ahead(devR, Front) >= 1 /\ Front # devR
  BY <1>1, <1>2, <1>4 DEF RingInv, Order, Ahead, Slots
<1>7. Order'
  BY <1>1, <1>2, <1>4, <1>6 DEF RingInv, Order, Front, Ahead, Slots, Wrapped
<1>8. NothingOverwritten'
  <2>1. sent' - got' = Ahead(devR', Front')
    BY <1>1, <1>2, <1>4, <1>6 DEF RingInv, NothingOverwritten, Ahead, Slots, Wrapped
  <2>2. ASSUME NEW i \in Slots, Ahead(devR', i) < sent' - got'
        PROVE  slot'[i] = got' + Ahead(devR', i)
    <3>1. sent - got <= Depth - 1 /\ sent - got = Ahead(devR, Front)
      BY <1>2, <1>4 DEF RingInv, NothingOverwritten, Ahead, Slots
    <3>2. i # devR
      BY <1>1, <1>2, <2>2, <3>1 DEF Ahead, Slots, Wrapped
    <3>3. Ahead(devR', i) = Ahead(devR, i) - 1 /\ Ahead(devR, i) \in Int
      BY <1>1, <1>2, <3>2 DEF Ahead, Slots, Wrapped
    <3>4. slot[i] = got + Ahead(devR, i)
      BY <1>1, <1>2, <2>2, <3>3 DEF RingInv, NothingOverwritten
    <3> QED
      BY <1>1, <1>2, <3>3, <3>4
  <2> QED
    BY <2>1, <2>2 DEF NothingOverwritten, Ahead
<1> QED
  BY <1>3, <1>7, <1>8 DEF RingInv

\* Every step of the host and of the device keeps the invariant.
LEMMA NextInv == RingInv /\ [Next]_vars => RingInv'
<1> SUFFICES ASSUME RingInv, [Next]_vars PROVE RingInv'
  OBVIOUS
<1>1. CASE WriteAvailable
  <2> DEFINE r == Looked(Relaxed(r_ptr))
  <2>1. Relaxed(r_ptr) \in BOOLEAN
    BY DEF Relaxed, Roomy
  <2>2. r \in Slots /\ Ahead(r, w_ptr) = Ahead(r, devR) + Ahead(devR, w_ptr)
    BY <2>1, LookedOrder
  <2>3. r_ptr' = r /\ UNCHANGED <<w_ptr, f_ptr, fill, todo, slot, devR, devW, up, sent, got>>
    BY <1>1 DEF WriteAvailable
  <2>4. was_full' \in BOOLEAN
    BY <1>1, Zenon DEF WriteAvailable, RingInv, TypeOK, Relaxed, Roomy
  <2> HIDE DEF r
  <2> QED
    BY <2>2, <2>3, <2>4 DEF RingInv, TypeOK, Order, NothingOverwritten, Front, Ahead
<1>2. CASE \E n \in 1..Depth : Reserve(n)
  BY <1>2, ReserveInv
<1>3. CASE Fill
  BY <1>3, FillInv
<1>4. CASE WriteCancel
  BY <1>4, CancelInv
<1>5. CASE WriteComplete
  <2>1. /\ devW' = IF up THEN w_ptr ELSE devW
        /\ f_ptr' = w_ptr /\ todo = 0
        /\ UNCHANGED <<r_ptr, w_ptr, was_full, fill, todo, slot, devR, up, sent, got>>
    BY <1>5 DEF WriteComplete
  <2>2. devW' \in {w_ptr, devW}
    BY <2>1
  <2> QED
    BY <2>1, <2>2 DEF RingInv, TypeOK, Order, NothingOverwritten, Front, Ahead, Slots
<1>6. CASE DeviceRead
  BY <1>6, ReadInv
<1>7. CASE EnterD3 \/ LeaveD3 \/ UNCHANGED vars
  BY <1>7
    DEF EnterD3, LeaveD3, vars, ring, RingInv, TypeOK, Order, NothingOverwritten, Front,
        Ahead
<1> QED
  BY <1>1, <1>2, <1>3, <1>4, <1>5, <1>6, <1>7 DEF Next

\* The inductive invariant holds of every behaviour of the ring.
THEOREM Invariance == Spec => []RingInv
<1>1. Init => RingInv
  BY InitInv
<1>2. RingInv /\ [Next]_vars => RingInv'
  BY NextInv
<1> QED
  BY <1>1, <1>2, PTL DEF Spec

\* No index leaves the ring, at any depth (commonring.c).
THEOREM TypeCorrect == Spec => []TypeOK
<1>1. RingInv => TypeOK
  BY DEF RingInv
<1> QED
  BY <1>1, Invariance, PTL

\* A reservation never reaches an unread message, although it is decided
\* with an old copy of the device's read index.
THEOREM NeverOverwrites == Spec => []NothingOverwritten
<1>1. RingInv => NothingOverwritten
  BY DEF RingInv
<1> QED
  BY <1>1, Invariance, PTL

\* The device is told only of slots that hold a message.
THEOREM ShowsOnlyFilled == Spec => []OnlyFilledShown
<1>1. RingInv => OnlyFilledShown
  BY DEF RingInv, Order, NothingOverwritten, OnlyFilledShown
<1> QED
  BY <1>1, Invariance, PTL

\* The device reads the host's messages once each and in order.
THEOREM ReadsInOrder == Spec => []DeviceReadsInOrder
<1>1. RingInv => DeviceReadsInOrder
  <2> SUFFICES ASSUME RingInv, devR # devW PROVE slot[devR] = got
    BY DEF DeviceReadsInOrder
  <2>1. devR \in Slots /\ devW \in Slots /\ got \in Nat /\ sent \in Nat
    BY DEF RingInv, TypeOK
  <2>2. Ahead(devR, devR) = 0 /\ Ahead(devR, devW) >= 1
    BY <2>1 DEF Ahead, Slots
  <2>3. Ahead(devR, Front) >= 1 /\ sent - got = Ahead(devR, Front)
    BY <2>1, <2>2 DEF RingInv, Order, NothingOverwritten, Ahead, Slots, TypeOK, Front
  <2> QED
    BY <2>1, <2>2, <2>3 DEF RingInv, NothingOverwritten
<1> QED
  BY <1>1, Invariance, PTL
=============================================================================
