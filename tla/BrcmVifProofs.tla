--------------------------- MODULE BrcmVifProofs ---------------------------
(***************************************************************************)
(* HostFollows of BrcmVif is an invariant, for any numbers of slots and    *)
(* interfaces, users' operations, failures and timeouts.  The property     *)
(* speaks of the states in which everybody rests; the inductive invariant  *)
(* VifInv has to say for all others what is under way.                     *)
(*                                                                         *)
(* Until a fault, VifCore: what the user's operation holds (UserShape);    *)
(* that list, interfaces and vifs point at each other (Listing, Pairing);  *)
(* what the queue says of the firmware (News, Told); what one timeout can  *)
(* leave behind (Belatedly, OneLate); that each slot has the firmware's    *)
(* interface, or news of it is queued, or its interface is being removed   *)
(* (Follows); and, without any accident, that vif and interface have the   *)
(* same number and the worker removes nothing (Clean).                     *)
(*                                                                         *)
(* First come the parts of VifInv, then lemmas on the queue, then one      *)
(* lemma for each action, and last the theorems.                           *)
(***************************************************************************)
EXTENDS BrcmVif, TLAPS

-----------------------------------------------------------------------------
(* The parts of the invariant: the driver's objects, the user's operation  *)
(* in progress, the queue of the firmware's events, and the firmware's     *)
(* interfaces (cfg80211.c, p2p.c, fweh.c, core.c).  An accident is a       *)
(* timeout or a removal nobody asked for.                                  *)

Events == [act : {"add", "del", "change"}, slot : Slots, id : Ids]

Vifs == [live : BOOLEAN, kind : Kinds \cup {"net"}, ifp : Ids \cup {NoId}]
Ifps == [live : BOOLEAN, slot : Slots \cup {NoId}, vif : Ids \cup {NoId}, reg : BOOLEAN]

VifTypes ==
    /\ vif \in [Ids -> Vifs] /\ ifp \in [Ids -> Ifps]
    /\ iflist \in [Slots -> Ids \cup {NoId}] /\ fwif \in [Slots -> Ids \cup {NoId}]
    /\ armed \in Ids \cup {NoId} /\ action \in {"none", "add", "del", "change"}
    /\ conn \in Ids \cup {NoId} /\ p2pdev \in Ids \cup {NoId} /\ setup \in BOOLEAN
    /\ queue \in Seq(Events)
    /\ old \in BOOLEAN
    /\ user \in [at : {"idle", "add", "addwait", "adddone", "attach", "del", "delwait", "remove",
                       "delend", "change", "chwait"},
                 v : Ids \cup {NoId}, i : Ids \cup {NoId}, ok : BOOLEAN]
    /\ wk \in [at : {"idle", "check", "remove"}, i : Ids \cup {NoId}]
    /\ n \in Nat /\ timeouts \in Nat /\ fails \in Nat /\ unasked \in Nat
    /\ stray \in BOOLEAN /\ late \in BOOLEAN /\ fault \in BOOLEAN

Adding == user.at \in {"add", "addwait", "adddone"}
Deleting == user.at \in {"del", "delwait", "remove"}
Accidents == timeouts + unasked

\* What the queue holds for each slot: interfaces to add and to remove; the
\* one to add if that is the last the queue says of the slot.
Queued(a, s, x) ==
    \E j \in DOMAIN queue : queue[j].act = a /\ queue[j].slot = s /\ queue[j].id = x
Last(s, x) ==
    \E j \in DOMAIN queue :
        /\ queue[j].act = "add" /\ queue[j].slot = s /\ queue[j].id = x
        /\ \A k \in DOMAIN queue : k > j /\ queue[k].slot = s => queue[k].act = "change"
Final(s) ==
    \A j, k \in DOMAIN queue :
        queue[k].act = "del" /\ queue[k].slot = s /\ j > k => queue[j].act # "add"
Comes  == [s \in Slots |-> {x \in Ids : Queued("add", s, x)}]
Leaves == [s \in Slots |-> {x \in Ids : Queued("del", s, x)}]
Latest == [s \in Slots |-> {x \in Ids : Last(s, x)}]
\* The slots that the queue has news of.
Asked == {s \in Slots : \E x \in Ids : x \in Comes[s] \cup Leaves[s]}
\* The slots from which nothing is removed before an addition.
Finals == {s \in Slots : Final(s)}
Changing == \E j \in DOMAIN queue : queue[j].act = "change"
\* An interface is announced once.
Once ==
    \A j, k \in DOMAIN queue :
        queue[j].act = "add" /\ queue[k].act = "add" /\ j # k => queue[j].id # queue[k].id
Single == \A j, k \in DOMAIN queue : queue[j].act = "change" /\ queue[k].act = "change" => j = k

\* What the user's operation holds.
UserShape ==
    /\ armed = IF user.at \in {"idle", "attach"} THEN NoId ELSE user.v
    /\ user.at # "idle" => user.v \in Ids /\ user.v <= n
    /\ user.ok => user.at \in {"adddone", "attach", "delend"}
    /\ setup = (Adding /\ vif[user.v].kind = "dev")
    /\ Deleting /\ vif[user.v].kind = "net" =>
           user.i \in Ids /\ ifp[user.i].live /\ ifp[user.i].reg /\ ifp[user.i].vif = user.v
    /\ user.at = "delend" /\ user.ok =>
           /\ user.i \in Ids /\ vif[user.i].kind # "dev"
           /\ ifp[user.i].live => ~ifp[user.i].reg /\ iflist[ifp[user.i].slot] # user.i
    /\ wk.at # "idle" =>
           /\ wk.i \in Ids
           /\ ifp[wk.i].live => iflist[ifp[wk.i].slot] \in {wk.i, NoId}

\* The user is about to free an interface that is off the list.
Leaving(i) == user.at = "delend" /\ user.ok /\ user.i = i

\* Interfaces and the list.
Listing ==
    /\ \A s \in Slots : iflist[s] # NoId => ifp[iflist[s]].live /\ ifp[iflist[s]].slot = s
    /\ \A i \in Ids : ifp[i].live =>
           ifp[i].slot \in Slots /\ (iflist[ifp[i].slot] = i \/ Leaving(i))
    /\ \A i \in Ids : ifp[i].reg => ifp[i].live /\ vif[i].kind # "dev"
    /\ \A i \in Ids : ~ifp[i].live => ifp[i].vif = NoId

\* Vifs and interfaces.
Pairing ==
    \A v \in Ids :
        IF ~vif[v].live THEN vif[v].ifp = NoId
        ELSE IF vif[v].ifp = NoId THEN (Adding \/ user.at = "attach") /\ user.v = v
        ELSE ifp[vif[v].ifp].live /\ ifp[vif[v].ifp].vif = v

\* An interface that is still to be announced is new.
Fresh(i) == ~ifp[i].live /\ (wk.at # "idle" => wk.i # i) /\ ~Leaving(i)
News ==
    /\ \A i \in Ids : i > n => Fresh(i) /\ ~vif[i].live
    /\ \A s \in Slots, x \in Ids : x \in Comes[s] =>
           x <= n /\ Fresh(x) /\ (user.at = "add" => x # user.v)
    /\ Once
    /\ user.at = "add" => Fresh(user.v)
    /\ \A i \in Ids : ifp[i].vif # NoId => ifp[i].vif <= n
    /\ \A s \in Slots : fwif[s] # NoId => fwif[s] <= n

\* An interface on the list whose removal, or replacement, is still to be handled.
Pending(x, steps) ==
    /\ ifp[x].live /\ iflist[ifp[x].slot] = x
    /\ (wk.at \in steps /\ wk.i = x) \/ ifp[x].slot \in Asked
\* What the events in the queue lead to: the firmware's interfaces.
Told ==
    /\ \A s \in Slots, x \in Ids : x \in Comes[s] => (x \in Latest[s] <=> fwif[s] = x)
    /\ \A s \in Slots : s \in Asked /\ fwif[s] # NoId => fwif[s] \in Comes[s]
    /\ \A s \in Slots : wk.at # "idle" /\ iflist[s] = wk.i => fwif[s] # wk.i

\* Two interfaces were bound to one vif; that of the second is or will be
\* freed, and the removal of the first will meet it.
Meets(x) == user.at \in {"delwait", "remove"} /\ Target = x
Freeing(v) == user.at = "delend" /\ user.ok /\ ifp[user.i].vif = v
Doomed ==
    \E x \in Ids :
        /\ ifp[x].vif # NoId
        /\ \/ ~vif[ifp[x].vif].live /\ (Pending(x, {"check", "remove"}) \/ Meets(x) \/ Leaving(x))
           \/ ~Leaving(x) /\ Freeing(ifp[x].vif) /\ Pending(x, {"check"})
Sound == Accidents <= 1 /\ ~stray /\ ~Doomed

\* An interface is or will be announced while its user does not wait for that,
\* or was woken up by another announcement.
Belated ==
    \/ \E s \in Slots, x \in Ids :
           x \in Comes[s] /\ ~(user.at = "addwait" /\ x = user.v /\ action # "add")
    \/ user.at = "add" /\ action = "add"
\* The user is deleting the interface in slot s.
Deletes(s) == user.at \in {"delwait", "remove"} /\ iflist[s] = Target
\* That takes a timeout, and nothing asked since then was handled before.
Belatedly ==
    Belated =>
        /\ timeouts >= 1
        /\ Sound =>
            /\ \A s \in Slots, x \in Ids :
                 /\ x \in Leaves[s] => iflist[s] = NoId \/ (Deletes(s) /\ s \in Finals)
                 /\ x \in Comes[s] => iflist[s] = NoId /\ fwif[s] = x
            /\ \A s \in Slots :
                 /\ s \in Asked \/ iflist[s] = fwif[s]
                 /\ wk.at # "idle" => iflist[s] # wk.i

\* One timeout leaves one announcement too many: the one that nobody waits
\* for, or that which the next user waits for after he was woken up by it.
Late(x) == ~(user.at = "addwait" /\ x = user.v /\ action # "add")
OneLate ==
    timeouts <= 1 =>
        /\ \A s, t \in Slots, x, y \in Ids :
             x \in Comes[s] /\ Late(x) /\ y \in Comes[t] /\ Late(y) => x = y
        /\ user.at = "add" /\ action = "add" => \A s \in Slots, x \in Ids : x \notin Comes[s]

\* The interface is on its way out.
Removing(s) ==
    /\ iflist[s] # NoId /\ fwif[s] = NoId
    /\ \/ wk.at # "idle" /\ wk.i = iflist[s]
       \/ /\ Deletes(s)
          /\ user.at = "remove" \/ vif[user.v].kind # "net" \/ action = "del" \/ Accidents >= 1
          /\ wk.at = "remove" => ifp[wk.i].vif # user.v

Crossed ==
    \E x \in Ids : x # Target /\ ifp[x].vif = user.v /\ Pending(x, {"check"})
Follows ==
    Sound =>
        /\ \A s \in Slots : s \in Asked \/ iflist[s] = fwif[s] \/ Removing(s)
        /\ \A s \in Slots : Deletes(s) /\ iflist[s] # NoId /\ fwif[s] = iflist[s] =>
               vif[user.v].kind # "net" /\ Crossed

\* Without accidents a vif and its interface have the same number, they are
\* there as long as the user needs them, and the worker removes nothing.
Own(v) == vif[v].live /\ vif[v].ifp = v /\ ifp[v].live
CleanUser ==
    /\ Changing => user.at = "chwait" /\ action # "change"
    /\ action = "change" => user.at = "chwait"
    /\ Adding => vif[user.v].live
    /\ user.at = "addwait" /\ action = "add" => Own(user.v)
    /\ user.at = "adddone" /\ user.ok => Own(user.v)
    /\ user.at = "attach" => Own(user.v)
    /\ Deleting => Own(user.v) /\ Target = user.v
    /\ user.at \in {"change", "chwait"} => Own(user.v)
    /\ user.at = "delend" => user.i = user.v /\ (user.ok => Own(user.v))
    /\ conn # NoId =>
           Own(conn) /\ vif[conn].kind = "p2p" /\ (Adding \/ user.at = "attach" => conn # user.v)
CleanWorker ==
    /\ wk.at # "remove"
    /\ wk.at = "check" /\ ifp[wk.i].live =>
           \/ user.at = "remove" /\ user.v = wk.i
           \/ user.at = "delwait" /\ user.v = wk.i /\ action = "del"
           \/ Leaving(wk.i)
CleanEvents ==
    \A s \in Slots, x \in Ids :
        /\ x \in Comes[s] => iflist[s] = NoId /\ fwif[s] = x
        /\ x \in Leaves[s] => iflist[s] = NoId \/ (Deletes(s) /\ iflist[s] = x)
CleanList ==
    \A s \in Slots : iflist[s] # NoId =>
        fwif[s] = iflist[s] \/ Deletes(s)
Clean ==
    Accidents = 0 =>
        /\ \A i \in Ids : ifp[i].live => ifp[i].vif = i
        /\ \A v \in Ids : vif[v].live => vif[v].ifp \in {v, NoId}
        /\ CleanUser /\ CleanWorker /\ Single /\ CleanEvents /\ CleanList

VifCore == UserShape /\ Listing /\ Pairing /\ News /\ Told /\ Belatedly /\ OneLate /\ Follows /\ Clean
VifInv == VifTypes /\ (~fault => VifCore) /\ NoFault

Acts == {"add", "del", "change"}

\* An event comes in.
LEMMA Grows ==
    ASSUME queue \in Seq(Events), NEW e \in Events, queue' = Append(queue, e)
    PROVE  /\ queue' \in Seq(Events)
           /\ \A a \in Acts, s \in Slots, x \in Ids :
                Queued(a, s, x)' <=> Queued(a, s, x) \/ (e.act = a /\ e.slot = s /\ e.id = x)
           /\ \A s \in Slots, x \in Ids :
                Last(s, x)' <=> IF e.slot = s /\ e.act # "change"
                                THEN e.act = "add" /\ e.id = x ELSE Last(s, x)
           /\ Once /\ (e.act = "add" => \A s \in Slots : ~Queued("add", s, e.id)) => Once'
           /\ Single /\ (e.act = "change" => \A s \in Slots, x \in Ids : ~Queued("change", s, x))
                => Single'
           /\ \A s \in Slots :
                e.act # "add" /\ (Final(s) \/ \A x \in Ids : ~Queued("del", s, x)) => Final(s)'
<1>1. /\ queue' \in Seq(Events) /\ Len(queue') = Len(queue) + 1
      /\ Len(queue) \in Nat /\ queue'[Len(queue) + 1] = e
      /\ \A j \in 1 .. Len(queue) : queue'[j] = queue[j]
      /\ DOMAIN queue = 1 .. Len(queue) /\ DOMAIN queue' = 1 .. Len(queue) + 1
  OBVIOUS
<1>2. \A j \in DOMAIN queue : queue[j] \in Events
  OBVIOUS
<1> DEFINE l == Len(queue)
           new == queue'
<1>3. \A j \in DOMAIN queue' : \/ j \in DOMAIN queue /\ queue'[j] = queue[j]
                               \/ j = l + 1 /\ queue'[j] = e
  <2> SUFFICES ASSUME NEW j \in DOMAIN queue' PROVE \/ j \in DOMAIN queue /\ queue'[j] = queue[j]
                                                    \/ j = l + 1 /\ queue'[j] = e
    OBVIOUS
  <2>1. j \in 1 .. l + 1 /\ l \in Nat
    BY <1>1
  <2>2. CASE j = l + 1
    BY <2>2, <1>1
  <2>3. CASE j # l + 1
    <3>1. j \in 1 .. l
      BY <2>1, <2>3
    <3> QED
      BY <3>1, <1>1
  <2> QED
    BY <2>2, <2>3
<1>4. \A j \in DOMAIN queue : j \in DOMAIN queue' /\ queue'[j] = queue[j] /\ j < l + 1 /\ j \in Nat
  BY <1>1
<1>5. l + 1 \in DOMAIN queue' /\ queue'[l + 1] = e /\ l \in Nat
  BY <1>1
<1>6. \A j \in DOMAIN queue' : j \in Nat /\ j <= l + 1
  BY <1>1
<1> HIDE DEF l
<1>a. \A a \in Acts, s \in Slots, x \in Ids :
          Queued(a, s, x)' <=> Queued(a, s, x) \/ (e.act = a /\ e.slot = s /\ e.id = x)
  BY <1>3, <1>4, <1>5 DEF Queued
<1>b. \A s \in Slots, x \in Ids :
          Last(s, x)' <=> IF e.slot = s /\ e.act # "change"
                          THEN e.act = "add" /\ e.id = x ELSE Last(s, x)
  <2> SUFFICES ASSUME NEW s \in Slots, NEW x \in Ids
               PROVE  Last(s, x)' <=> IF e.slot = s /\ e.act # "change"
                                      THEN e.act = "add" /\ e.id = x ELSE Last(s, x)
    OBVIOUS
  <2>1. CASE e.slot = s /\ e.act # "change"
    <3>1. Last(s, x)' => e.act = "add" /\ e.id = x
      BY <2>1, <1>3, <1>4, <1>5 DEF Last
    <3>2. e.act = "add" /\ e.id = x => Last(s, x)'
      BY <2>1, <1>5, <1>6 DEF Last
    <3> QED
      BY <2>1, <3>1, <3>2
  <2>2. CASE ~(e.slot = s /\ e.act # "change")
    <3>1. ASSUME Last(s, x)' PROVE Last(s, x)
      <4>1. PICK j \in DOMAIN queue' :
                /\ queue'[j].act = "add" /\ queue'[j].slot = s /\ queue'[j].id = x
                /\ \A k \in DOMAIN queue' :
                     k > j /\ queue'[k].slot = s => queue'[k].act = "change"
        BY <3>1 DEF Last
      <4>2. j \in DOMAIN queue /\ queue'[j] = queue[j]
        BY <4>1, <2>2, <1>3
      <4>3. \A k \in DOMAIN queue : k > j /\ queue[k].slot = s => queue[k].act = "change"
        BY <4>1, <1>4
      <4> QED
        BY <4>1, <4>2, <4>3 DEF Last
    <3>2. ASSUME Last(s, x) PROVE Last(s, x)'
      <4>1. PICK j \in DOMAIN queue :
                /\ queue[j].act = "add" /\ queue[j].slot = s /\ queue[j].id = x
                /\ \A k \in DOMAIN queue :
                     k > j /\ queue[k].slot = s => queue[k].act = "change"
        BY <3>2 DEF Last
      <4>2. j \in DOMAIN queue' /\ queue'[j] = queue[j]
        BY <1>4
      <4>3. \A k \in DOMAIN queue' : k > j /\ queue'[k].slot = s => queue'[k].act = "change"
        BY <4>1, <1>3, <2>2
      <4> QED
        BY <4>1, <4>2, <4>3 DEF Last
    <3> QED
      BY <2>2, <3>1, <3>2
  <2> QED
    BY <2>1, <2>2
<1>c. Once /\ (e.act = "add" => \A s \in Slots : ~Queued("add", s, e.id)) => Once'
  <2> SUFFICES ASSUME Once, e.act = "add" => \A s \in Slots : ~Queued("add", s, e.id),
                      NEW j \in DOMAIN queue', NEW k \in DOMAIN queue',
                      queue'[j].act = "add", queue'[k].act = "add", j # k
               PROVE  queue'[j].id # queue'[k].id
    BY DEF Once
  <2>1. ASSUME e.act = "add", NEW i \in DOMAIN queue, queue[i].act = "add"
        PROVE  queue[i].id # e.id
    <3>1. queue[i].slot \in Slots
      BY <1>2 DEF Events
    <3> QED
      BY <2>1, <3>1 DEF Queued
  <2> QED
    BY <2>1, <1>3 DEF Once
<1>d. Single /\ (e.act = "change" => \A s \in Slots, x \in Ids : ~Queued("change", s, x)) => Single'
  <2> SUFFICES ASSUME Single, e.act = "change" => \A s \in Slots, x \in Ids : ~Queued("change", s, x),
                      NEW j \in DOMAIN queue', NEW k \in DOMAIN queue',
                      queue'[j].act = "change", queue'[k].act = "change"
               PROVE  j = k
    BY DEF Single
  <2>1. ASSUME e.act = "change", NEW i \in DOMAIN queue PROVE queue[i].act # "change"
    <3>1. queue[i].slot \in Slots /\ queue[i].id \in Ids
      BY <1>2 DEF Events
    <3> QED
      BY <2>1, <3>1 DEF Queued
  <2> QED
    BY <2>1, <1>3 DEF Single
<1>e. \A s \in Slots :
          e.act # "add" /\ (Final(s) \/ \A x \in Ids : ~Queued("del", s, x)) => Final(s)'
  <2> SUFFICES ASSUME NEW s \in Slots, e.act # "add",
                      Final(s) \/ \A x \in Ids : ~Queued("del", s, x),
                      NEW j \in DOMAIN queue', NEW k \in DOMAIN queue',
                      queue'[k].act = "del", queue'[k].slot = s, j > k, queue'[j].act = "add"
               PROVE  FALSE
    BY DEF Final
  <2>1. j \in DOMAIN queue /\ queue'[j] = queue[j]
    BY <1>3
  <2>2. k \in DOMAIN queue /\ queue'[k] = queue[k]
    BY <2>1, <1>3, <1>4
  <2>3. queue[k].id \in Ids
    BY <2>2, <1>2 DEF Events
  <2> QED
    BY <2>1, <2>2, <2>3 DEF Final, Queued
<1> QED
  BY <1>1, <1>a, <1>b, <1>c, <1>d, <1>e

\* An event is handled.
LEMMA Served ==
    ASSUME queue \in Seq(Events), queue # <<>>, queue' = Tail(queue), Once,
           NEW e, e = Head(queue)
    PROVE  /\ e \in Events /\ queue' \in Seq(Events) /\ Queued(e.act, e.slot, e.id)
           /\ \A a \in Acts, s \in Slots, x \in Ids :
                /\ Queued(a, s, x)' => Queued(a, s, x)
                /\ Queued(a, s, x) => Queued(a, s, x)' \/ (e.act = a /\ e.slot = s /\ e.id = x)
           /\ \A s \in Slots, x \in Ids : Queued("add", s, x)' =>
                (Last(s, x)' <=> Last(s, x)) /\ ~(e.act = "add" /\ e.id = x)
           /\ e.act = "add" /\ Last(e.slot, e.id) => (\A x \in Ids : ~Queued("add", e.slot, x)' /\ ~Queued("del", e.slot, x)')
           /\ e.act = "change" /\ Single => \A s \in Slots, x \in Ids : ~Queued("change", s, x)'
           /\ Once' /\ (Single => Single')
           /\ \A s \in Slots : Final(s) => Final(s)'
           /\ \A s \in Slots, x \in Ids : e.act = "del" /\ Final(e.slot) => ~Queued("add", s, x)'
<1>1. /\ e \in Events /\ e = queue[1] /\ 1 \in DOMAIN queue /\ queue' \in Seq(Events)
      /\ Len(queue) \in Nat /\ Len(queue') = Len(queue) - 1
      /\ \A j \in 1 .. Len(queue) - 1 : queue'[j] = queue[j + 1]
      /\ DOMAIN queue = 1 .. Len(queue) /\ DOMAIN queue' = 1 .. Len(queue) - 1
  OBVIOUS
<1>2. \A j \in DOMAIN queue : queue[j] \in Events
  OBVIOUS
<1>3. \A j \in DOMAIN queue' : j \in Nat /\ j >= 1 /\ j + 1 \in DOMAIN queue /\ queue'[j] = queue[j + 1]
  BY <1>1
<1>4. \A j \in DOMAIN queue :
          j \in Nat /\ j >= 1 /\ (j # 1 => j - 1 \in DOMAIN queue' /\ queue'[j - 1] = queue[j])
  <2> SUFFICES ASSUME NEW j \in DOMAIN queue
               PROVE  j \in Nat /\ j >= 1
                      /\ (j # 1 => j - 1 \in DOMAIN queue' /\ queue'[j - 1] = queue[j])
    OBVIOUS
  <2>1. j \in 1 .. Len(queue)
    BY <1>1
  <2>2. ASSUME j # 1 PROVE j - 1 \in 1 .. Len(queue) - 1 /\ (j - 1) + 1 = j
    BY <2>1, <2>2, <1>1
  <2> QED
    BY <2>1, <2>2, <1>1
<1>5. e.act \in Acts /\ e.slot \in Slots /\ e.id \in Ids
  BY <1>1 DEF Events, Acts
<1>a. Queued(e.act, e.slot, e.id)
  BY <1>1 DEF Queued
<1>b. \A a \in Acts, s \in Slots, x \in Ids :
          /\ Queued(a, s, x)' => Queued(a, s, x)
          /\ Queued(a, s, x) => Queued(a, s, x)' \/ (e.act = a /\ e.slot = s /\ e.id = x)
  <2> SUFFICES ASSUME NEW a \in Acts, NEW s \in Slots, NEW x \in Ids
               PROVE  /\ Queued(a, s, x)' => Queued(a, s, x)
                      /\ Queued(a, s, x) => \/ Queued(a, s, x)'
                                            \/ e.act = a /\ e.slot = s /\ e.id = x
    OBVIOUS
  <2>1. Queued(a, s, x)' => Queued(a, s, x)
    BY <1>3 DEF Queued
  <2>2. Queued(a, s, x) => Queued(a, s, x)' \/ (e.act = a /\ e.slot = s /\ e.id = x)
    BY <1>1, <1>4 DEF Queued
  <2> QED
    BY <2>1, <2>2
<1>c. ASSUME NEW s \in Slots, NEW x \in Ids, Queued("add", s, x)'
      PROVE  (Last(s, x)' <=> Last(s, x)) /\ ~(e.act = "add" /\ e.id = x)
  <2>1. PICK i \in DOMAIN queue' : queue'[i].act = "add" /\ queue'[i].slot = s /\ queue'[i].id = x
    BY <1>c DEF Queued
  <2>2. i + 1 \in DOMAIN queue /\ queue[i + 1].act = "add" /\ queue[i + 1].slot = s
        /\ queue[i + 1].id = x /\ i >= 1 /\ i \in Nat
    BY <2>1, <1>3
  <2>3. ~(e.act = "add" /\ e.id = x)
    BY <2>2, <1>1 DEF Once
  <2>4. ASSUME Last(s, x)' PROVE Last(s, x)
    <3>1. PICK j \in DOMAIN queue' :
              /\ queue'[j].act = "add" /\ queue'[j].slot = s /\ queue'[j].id = x
              /\ \A k \in DOMAIN queue' :
                   k > j /\ queue'[k].slot = s => queue'[k].act = "change"
      BY <2>4 DEF Last
    <3>2. j + 1 \in DOMAIN queue /\ queue[j + 1] = queue'[j] /\ j \in Nat /\ j >= 1
      BY <1>3
    <3>3. ASSUME NEW k \in DOMAIN queue, k > j + 1, queue[k].slot = s PROVE queue[k].act = "change"
      <4>1. k - 1 \in DOMAIN queue' /\ queue'[k - 1] = queue[k] /\ k - 1 > j
        BY <3>2, <3>3, <1>4
      <4> QED
        BY <4>1, <3>1, <3>3
    <3> QED
      BY <3>1, <3>2, <3>3 DEF Last
  <2>5. ASSUME Last(s, x) PROVE Last(s, x)'
    <3>1. PICK j \in DOMAIN queue :
              /\ queue[j].act = "add" /\ queue[j].slot = s /\ queue[j].id = x
              /\ \A k \in DOMAIN queue :
                   k > j /\ queue[k].slot = s => queue[k].act = "change"
      BY <2>5 DEF Last
    <3>2. j - 1 \in DOMAIN queue' /\ queue'[j - 1] = queue[j] /\ j \in Nat
      BY <3>1, <2>3, <1>1, <1>4
    <3>3. ASSUME NEW k \in DOMAIN queue', k > j - 1, queue'[k].slot = s
          PROVE  queue'[k].act = "change"
      <4>1. k + 1 \in DOMAIN queue /\ queue'[k] = queue[k + 1] /\ k + 1 > j
        BY <3>2, <3>3, <1>3
      <4> QED
        BY <4>1, <3>1, <3>3
    <3> QED
      BY <3>1, <3>2, <3>3 DEF Last
  <2> QED
    BY <2>3, <2>4, <2>5
<1>d. ASSUME e.act = "add", Last(e.slot, e.id)
      PROVE  (\A x \in Ids : ~Queued("add", e.slot, x)' /\ ~Queued("del", e.slot, x)')
  <2>1. PICK j \in DOMAIN queue :
            /\ queue[j].act = "add" /\ queue[j].slot = e.slot /\ queue[j].id = e.id
            /\ \A k \in DOMAIN queue :
                 k > j /\ queue[k].slot = e.slot => queue[k].act = "change"
    BY <1>d DEF Last
  <2>2. j = 1
    BY <2>1, <1>1, <1>d DEF Once
  <2>3. ASSUME NEW k \in DOMAIN queue', queue'[k].slot = e.slot PROVE queue'[k].act = "change"
    BY <2>1, <2>2, <2>3, <1>3
  <2>4. ASSUME NEW x \in Ids PROVE ~Queued("add", e.slot, x)' /\ ~Queued("del", e.slot, x)'
    <3>1. ~Queued("add", e.slot, x)'
      BY <2>3 DEF Queued
    <3>2. ~Queued("del", e.slot, x)'
      BY <2>3 DEF Queued
    <3> QED
      BY <3>1, <3>2
  <2> QED
    BY <2>4
<1>e. ASSUME e.act = "change", Single, NEW s \in Slots, NEW x \in Ids PROVE ~Queued("change", s, x)'
  <2> SUFFICES ASSUME NEW k \in DOMAIN queue', queue'[k].act = "change" PROVE FALSE
    BY DEF Queued
  <2>1. k + 1 \in DOMAIN queue /\ queue[k + 1].act = "change" /\ k + 1 # 1
    BY <1>3
  <2> QED
    BY <2>1, <1>1, <1>e DEF Single
<1>f. Once'
  <2> SUFFICES ASSUME NEW j \in DOMAIN queue', NEW k \in DOMAIN queue',
                      queue'[j].act = "add", queue'[k].act = "add", j # k
               PROVE  queue'[j].id # queue'[k].id
    BY DEF Once
  <2> QED
    BY <1>3 DEF Once
<1>g. Single => Single'
  <2> SUFFICES ASSUME Single, NEW j \in DOMAIN queue', NEW k \in DOMAIN queue',
                      queue'[j].act = "change", queue'[k].act = "change"
               PROVE  j = k
    BY DEF Single
  <2>1. j + 1 = k + 1
    BY <1>3 DEF Single
  <2> QED
    BY <2>1, <1>3
<1>h. ASSUME NEW s \in Slots, Final(s) PROVE Final(s)'
  <2> SUFFICES ASSUME NEW j \in DOMAIN queue', NEW k \in DOMAIN queue',
                      queue'[k].act = "del", queue'[k].slot = s, j > k
               PROVE  queue'[j].act # "add"
    BY DEF Final
  <2>1. j + 1 \in DOMAIN queue /\ k + 1 \in DOMAIN queue /\ j + 1 > k + 1
        /\ queue'[j] = queue[j + 1] /\ queue'[k] = queue[k + 1]
    BY <1>3
  <2> QED
    BY <2>1, <1>h DEF Final
<1>i. ASSUME NEW s \in Slots, NEW x \in Ids, e.act = "del", Final(e.slot)
      PROVE  ~Queued("add", s, x)'
  <2> SUFFICES ASSUME NEW k \in DOMAIN queue', queue'[k].act = "add" PROVE FALSE
    BY DEF Queued
  <2>1. k + 1 \in DOMAIN queue /\ queue[k + 1].act = "add" /\ k + 1 > 1
    BY <1>3
  <2> QED
    BY <2>1, <1>1, <1>i DEF Final
<1> QED
  BY <1>1, <1>a, <1>b, <1>c, <1>d, <1>e, <1>f, <1>g, <1>h, <1>i

\* A step that leaves the queue alone.
LEMMA QueueKept ==
    ASSUME queue' = queue
    PROVE  /\ Comes' = Comes /\ Leaves' = Leaves /\ Latest' = Latest
           /\ Asked' = Asked /\ Finals' = Finals /\ Changing' = Changing
           /\ Once' = Once /\ Single' = Single
  BY DEF Queued, Last, Final, Comes, Leaves, Latest, Asked, Finals, Changing, Once, Single

\* An event comes in.
LEMMA QueueGrows ==
    ASSUME queue \in Seq(Events), NEW e \in Events, queue' = Append(queue, e)
    PROVE  /\ queue' \in Seq(Events)
           /\ \A s \in Slots, x \in Ids :
                /\ x \in Comes'[s] <=> x \in Comes[s] \/ (e.act = "add" /\ e.slot = s /\ e.id = x)
                /\ x \in Leaves'[s] <=> x \in Leaves[s] \/ (e.act = "del" /\ e.slot = s /\ e.id = x)
                /\ x \in Latest'[s] <=> IF e.slot = s /\ e.act # "change"
                                        THEN e.act = "add" /\ e.id = x ELSE x \in Latest[s]
           /\ \A s \in Slots : s \in Asked' <=> s \in Asked \/ (e.slot = s /\ e.act # "change")
           /\ \A s \in Slots :
                e.act # "add" /\ (s \in Finals \/ Leaves[s] = {}) => s \in Finals'
           /\ Changing' <=> Changing \/ e.act = "change"
           /\ Once /\ (e.act = "add" => \A s \in Slots : e.id \notin Comes[s]) => Once'
           /\ Single /\ (e.act = "change" => ~Changing) => Single'
<1>1. e.act \in Acts /\ e.slot \in Slots /\ e.id \in Ids
  BY DEF Events, Acts
<1>2. queue' \in Seq(Events)
  BY Grows
<1>3. \A s \in Slots, x \in Ids :
          /\ x \in Comes'[s] <=> x \in Comes[s] \/ (e.act = "add" /\ e.slot = s /\ e.id = x)
          /\ x \in Leaves'[s] <=> x \in Leaves[s] \/ (e.act = "del" /\ e.slot = s /\ e.id = x)
  <2>1. \A a \in Acts, s \in Slots, x \in Ids :
            Queued(a, s, x)' <=> Queued(a, s, x) \/ (e.act = a /\ e.slot = s /\ e.id = x)
    BY Grows
  <2> QED
    BY <2>1 DEF Comes, Leaves, Acts
<1>4. \A s \in Slots, x \in Ids :
          x \in Latest'[s] <=> IF e.slot = s /\ e.act # "change"
                               THEN e.act = "add" /\ e.id = x ELSE x \in Latest[s]
  <2>1. \A s \in Slots, x \in Ids :
            Last(s, x)' <=> IF e.slot = s /\ e.act # "change"
                            THEN e.act = "add" /\ e.id = x ELSE Last(s, x)
    BY Grows
  <2> QED
    BY <2>1 DEF Latest
<1>5. \A s \in Slots : s \in Asked' <=> s \in Asked \/ (e.slot = s /\ e.act # "change")
  BY <1>1, <1>3 DEF Asked, Acts
<1>6. \A s \in Slots : e.act # "add" /\ (s \in Finals \/ Leaves[s] = {}) => s \in Finals'
  <2>1. \A s \in Slots :
            e.act # "add" /\ (Final(s) \/ \A x \in Ids : ~Queued("del", s, x)) => Final(s)'
    BY Grows
  <2> QED
    BY <2>1 DEF Finals, Leaves
<1>7. Changing' <=> Changing \/ e.act = "change"
  BY DEF Changing
<1>8. Once /\ (e.act = "add" => \A s \in Slots : e.id \notin Comes[s]) => Once'
  BY <1>1, Grows DEF Comes
<1>9. Single /\ (e.act = "change" => ~Changing) => Single'
  BY <1>1, Grows DEF Changing, Queued
<1> QED
  BY <1>2, <1>3, <1>4, <1>5, <1>6, <1>7, <1>8, <1>9

\* An event is handled.
LEMMA QueueServed ==
    ASSUME queue \in Seq(Events), queue # <<>>, queue' = Tail(queue), Once,
           NEW e, e = Head(queue)
    PROVE  /\ e.act \in Acts /\ e.slot \in Slots /\ e.id \in Ids /\ queue' \in Seq(Events)
           /\ e.act = "add" => e.id \in Comes[e.slot]
           /\ e.act = "del" => e.id \in Leaves[e.slot]
           /\ e.act = "change" => Changing
           /\ \A s \in Slots, x \in Ids :
                /\ x \in Comes'[s] => x \in Comes[s] /\ ~(e.act = "add" /\ e.id = x)
                                      /\ (x \in Latest'[s] <=> x \in Latest[s])
                /\ x \in Leaves'[s] => x \in Leaves[s]
                /\ x \in Comes[s] => x \in Comes'[s] \/ (e.act = "add" /\ e.slot = s /\ e.id = x)
                /\ x \in Leaves[s] => x \in Leaves'[s] \/ (e.act = "del" /\ e.slot = s /\ e.id = x)
                /\ e.act = "del" /\ e.slot \in Finals => x \notin Comes'[s]
           /\ \A s \in Slots :
                /\ s \in Asked' => s \in Asked
                /\ s \in Asked => s \in Asked' \/ (e.slot = s /\ e.act # "change")
                /\ s \in Finals => s \in Finals'
           /\ e.act # "change" => e.slot \in Asked
           /\ e.act = "add" /\ e.id \in Latest[e.slot] => e.slot \notin Asked'
           /\ Changing' => Changing
           /\ e.act = "change" /\ Single => ~Changing'
           /\ Once' /\ (Single => Single')
<1>1. e.act \in Acts /\ e.slot \in Slots /\ e.id \in Ids /\ queue' \in Seq(Events)
  BY Served DEF Events, Acts
<1>2. Queued(e.act, e.slot, e.id)
  BY Served
<1>3. \A a \in Acts, s \in Slots, x \in Ids :
          /\ Queued(a, s, x)' => Queued(a, s, x)
          /\ Queued(a, s, x) => Queued(a, s, x)' \/ (e.act = a /\ e.slot = s /\ e.id = x)
  BY Served
<1>4. \A s \in Slots, x \in Ids :
          /\ x \in Comes'[s] => x \in Comes[s]
          /\ x \in Leaves'[s] => x \in Leaves[s]
          /\ x \in Comes[s] => x \in Comes'[s] \/ (e.act = "add" /\ e.slot = s /\ e.id = x)
          /\ x \in Leaves[s] => x \in Leaves'[s] \/ (e.act = "del" /\ e.slot = s /\ e.id = x)
  BY <1>3 DEF Comes, Leaves, Acts
<1>5. /\ e.act = "add" => e.id \in Comes[e.slot]
      /\ e.act = "del" => e.id \in Leaves[e.slot]
      /\ e.act = "change" => Changing
  BY <1>1, <1>2 DEF Comes, Leaves, Changing, Queued
<1>6. \A s \in Slots, x \in Ids :
          x \in Comes'[s] => (x \in Latest'[s] <=> x \in Latest[s]) /\ ~(e.act = "add" /\ e.id = x)
  <2>1. \A s \in Slots, x \in Ids : Queued("add", s, x)' =>
            (Last(s, x)' <=> Last(s, x)) /\ ~(e.act = "add" /\ e.id = x)
    BY Served
  <2> QED
    BY <2>1 DEF Comes, Latest
<1>7. \A s \in Slots, x \in Ids : e.act = "del" /\ e.slot \in Finals => x \notin Comes'[s]
  <2>1. \A s \in Slots, x \in Ids : e.act = "del" /\ Final(e.slot) => ~Queued("add", s, x)'
    BY Served
  <2> QED
    BY <2>1, <1>1 DEF Comes, Finals
<1>8. \A s \in Slots : s \in Finals => s \in Finals'
  <2>1. \A s \in Slots : Final(s) => Final(s)'
    BY Served
  <2> QED
    BY <2>1 DEF Finals
<1>9. \A s \in Slots : /\ s \in Asked' => s \in Asked
                       /\ s \in Asked => s \in Asked' \/ (e.slot = s /\ e.act # "change")
  BY <1>4, <1>1 DEF Asked
<1>10. e.act # "change" => e.slot \in Asked
  BY <1>1, <1>5 DEF Asked, Acts
<1>11. e.act = "add" /\ e.id \in Latest[e.slot] => e.slot \notin Asked'
  <2>1. e.act = "add" /\ Last(e.slot, e.id) =>
            \A x \in Ids : ~Queued("add", e.slot, x)' /\ ~Queued("del", e.slot, x)'
    BY Served
  <2> QED
    BY <2>1, <1>1 DEF Latest, Asked, Comes, Leaves
<1>12. /\ Changing' => Changing
       /\ e.act = "change" /\ Single => ~Changing'
  <2>1. ASSUME Changing' PROVE \E s \in Slots, x \in Ids : Queued("change", s, x)'
    <3>1. \A j \in DOMAIN queue' : queue'[j] \in Events
      BY <1>1
    <3> QED
      BY <2>1, <3>1 DEF Changing, Queued, Events
  <2>2. e.act = "change" /\ Single => \A s \in Slots, x \in Ids : ~Queued("change", s, x)'
    BY Served
  <2>3. \A s \in Slots, x \in Ids : Queued("change", s, x)' => Queued("change", s, x)
    BY <1>3 DEF Acts
  <2>4. \A s \in Slots, x \in Ids : Queued("change", s, x) => Changing
    BY DEF Queued, Changing
  <2> QED
    BY <2>1, <2>2, <2>3, <2>4
<1>13. Once' /\ (Single => Single')
  BY Served
<1> QED
  BY <1>1, <1>4, <1>5, <1>6, <1>7, <1>8, <1>9, <1>10, <1>11, <1>12, <1>13

\* An addition that is not the last word on its slot leaves more to handle.
LEMMA QueueLast ==
    ASSUME queue \in Seq(Events), queue # <<>>, queue' = Tail(queue),
           NEW e, e = Head(queue), e.act = "add", e.id \notin Latest[e.slot]
    PROVE  e.slot \in Asked'
<1>1. /\ e \in Events /\ e = queue[1] /\ 1 \in DOMAIN queue /\ queue' \in Seq(Events)
      /\ Len(queue) \in Nat
      /\ \A j \in 1 .. Len(queue) - 1 : queue'[j] = queue[j + 1]
      /\ DOMAIN queue = 1 .. Len(queue) /\ DOMAIN queue' = 1 .. Len(queue) - 1
  OBVIOUS
<1>2. e.act \in Acts /\ e.slot \in Slots /\ e.id \in Ids
  BY <1>1 DEF Events, Acts
<1>3. ~Last(e.slot, e.id)
  BY <1>2 DEF Latest
<1>4. PICK k \in DOMAIN queue : k > 1 /\ queue[k].slot = e.slot /\ queue[k].act # "change"
  BY <1>1, <1>3 DEF Last
<1>5. k - 1 \in DOMAIN queue' /\ queue'[k - 1] = queue[k]
  BY <1>1, <1>4
<1>6. queue'[k - 1] \in Events
  BY <1>1, <1>5
<1>7. PICK x \in Ids : x = queue'[k - 1].id
  BY <1>6 DEF Events
<1>8. queue'[k - 1].act \in {"add", "del"} /\ queue'[k - 1].slot = e.slot
  BY <1>4, <1>5, <1>6 DEF Events
<1>9. Queued("add", e.slot, x)' \/ Queued("del", e.slot, x)'
  <2>1. \E j \in DOMAIN queue' :
            queue'[j].act \in {"add", "del"} /\ queue'[j].slot = e.slot /\ queue'[j].id = x
    BY <1>5, <1>7, <1>8
  <2> QED
    BY <2>1 DEF Queued
<1> QED
  BY <1>2, <1>7, <1>9 DEF Asked, Comes, Leaves

\* Without accidents no two interfaces are bound to one vif.
LEMMA CleanSound == ASSUME VifTypes, VifCore, Accidents = 0 PROVE ~Doomed
<1> SUFFICES ASSUME NEW x \in Ids, ifp[x].vif # NoId,
                    \/ ~vif[ifp[x].vif].live /\ (Pending(x, {"check", "remove"}) \/ Meets(x) \/ Leaving(x))
                    \/ ~Leaving(x) /\ Freeing(ifp[x].vif) /\ Pending(x, {"check"})
             PROVE  FALSE
  BY DEF Doomed
<1>1. /\ UserShape /\ Listing /\ Pairing /\ News /\ Told
      /\ \A i \in Ids : ifp[i].live => ifp[i].vif = i
      /\ \A v \in Ids : vif[v].live => vif[v].ifp \in {v, NoId}
      /\ CleanUser /\ CleanWorker /\ Single /\ CleanEvents /\ CleanList
  BY DEF VifCore, Clean
<1>2. ifp[x].live /\ ifp[x].vif = x /\ ifp[x].slot \in Slots
  BY <1>1 DEF Listing
<1>3. ASSUME Leaving(x) PROVE vif[x].live
  BY <1>3, <1>1, <1>2 DEF Leaving, CleanUser, Own
<1>4. ASSUME Meets(x) PROVE vif[x].live
  BY <1>4, <1>1, <1>2 DEF Meets, CleanUser, Own, Deleting
<1>5. ASSUME Pending(x, {"check", "remove"}), ~Leaving(x), ~Meets(x) PROVE FALSE
  <2>1. ASSUME wk.at \in {"check", "remove"}, wk.i = x PROVE FALSE
    BY <2>1, <1>5, <1>1, <1>2 DEF CleanWorker, Meets, CleanUser, Deleting
  <2>2. ifp[x].slot \in Asked /\ iflist[ifp[x].slot] = x
    BY <2>1, <1>5 DEF Pending
  <2>3. PICK y \in Ids : y \in Leaves[ifp[x].slot] \cup Comes[ifp[x].slot]
    BY <2>2 DEF Asked
  <2> QED
    BY <2>2, <2>3, <1>1, <1>2, <1>5, VifAssumption DEF CleanEvents, Deletes, Meets
<1>6. ASSUME ~Leaving(x), Freeing(ifp[x].vif) PROVE FALSE
  BY <1>6, <1>1, <1>2 DEF Freeing, Leaving, CleanUser, Own, UserShape
<1>7. Pending(x, {"check"}) => Pending(x, {"check", "remove"})
  BY DEF Pending
<1> QED
  BY <1>2, <1>3, <1>4, <1>5, <1>6, <1>7

\* The interfaces with one registered, or no longer.
WithReg(i, b) == [ifp EXCEPT ![i].reg = b]

\* A vif is freed (brcmf_free_vif).
LEMMA FreedFacts ==
    ASSUME VifTypes, NEW v \in Ids
    PROVE  /\ Freed(v) \in [Ids -> Vifs]
           /\ ~Freed(v)[v].live /\ Freed(v)[v].kind = vif[v].kind /\ Freed(v)[v].ifp = NoId
           /\ \A u \in Ids : u # v => Freed(v)[u] = vif[u]
           /\ \A u \in Ids : Freed(v)[u].kind = vif[u].kind
<1> DEFINE r == [live |-> FALSE, kind |-> vif[v].kind, ifp |-> NoId]
           W == Freed(v)
<1>0. vif \in [Ids -> Vifs]
  BY DEF VifTypes
<1>1. vif[v] \in Vifs /\ vif[v].kind \in Kinds \cup {"net"}
  BY <1>0 DEF Vifs
<1>2. r \in Vifs
  BY <1>1 DEF Vifs
<1>3. W[v] = r
  <2>1. W[v] = [vif[v] EXCEPT !.live = FALSE, !.ifp = NoId]
    BY <1>0 DEF Freed
  <2> QED
    BY <2>1, <1>1 DEF Vifs
<1>4. \A u \in Ids : u # v => W[u] = vif[u]
  BY <1>0 DEF Freed
<1>5. W = [u \in Ids |-> IF u = v THEN W[v] ELSE vif[u]]
  BY <1>0 DEF Freed
<1> HIDE DEF W
<1>6. W \in [Ids -> Vifs]
  BY <1>0, <1>2, <1>3, <1>5
<1>7. W[v].live = FALSE /\ W[v].kind = vif[v].kind /\ W[v].ifp = NoId
  BY <1>3
<1>8. \A u \in Ids : W[u].kind = vif[u].kind
  BY <1>4, <1>7
<1> QED
  BY <1>4, <1>6, <1>7, <1>8 DEF W

\* An interface is freed.
LEMMA NoIfFacts ==
    ASSUME NEW I \in [Ids -> Ifps], NEW W, NEW i \in Ids, W = [I EXCEPT ![i] = NoIf]
    PROVE  /\ W \in [Ids -> Ifps] /\ ~W[i].live /\ W[i].slot = NoId /\ W[i].vif = NoId /\ ~W[i].reg
           /\ \A u \in Ids : u # i => W[u] = I[u]
  BY DEF Ifps, NoIf

\* An interface is registered, or no longer.
LEMMA RegFacts ==
    ASSUME VifTypes, NEW i \in Ids, NEW b \in BOOLEAN
    PROVE  /\ WithReg(i, b) \in [Ids -> Ifps] /\ WithReg(i, b)[i].reg = b
           /\ \A u \in Ids : u # i => WithReg(i, b)[u] = ifp[u]
           /\ \A u \in Ids : /\ WithReg(i, b)[u].live = ifp[u].live /\ WithReg(i, b)[u].slot = ifp[u].slot
                            /\ WithReg(i, b)[u].vif = ifp[u].vif
<1> DEFINE r == [live |-> ifp[i].live, slot |-> ifp[i].slot, vif |-> ifp[i].vif, reg |-> b]
           W == WithReg(i, b)
<1>0. ifp \in [Ids -> Ifps]
  BY DEF VifTypes
<1>1. ifp[i] \in Ifps /\ ifp[i].live \in BOOLEAN /\ ifp[i].slot \in Slots \cup {NoId} /\ ifp[i].vif \in Ids \cup {NoId}
  BY <1>0 DEF Ifps
<1>2. r \in Ifps
  BY <1>1 DEF Ifps
<1>3. W[i] = r
  <2>1. W[i] = [ifp[i] EXCEPT !.reg = b]
    BY <1>0 DEF WithReg
  <2> QED
    BY <2>1, <1>1 DEF Ifps
<1>4. \A u \in Ids : u # i => W[u] = ifp[u]
  BY <1>0 DEF WithReg
<1>5. W = [u \in Ids |-> IF u = i THEN W[i] ELSE ifp[u]]
  BY <1>0 DEF WithReg
<1> HIDE DEF W
<1>6. W \in [Ids -> Ifps]
  BY <1>0, <1>2, <1>3, <1>5
<1>7. W[i].live = ifp[i].live /\ W[i].slot = ifp[i].slot /\ W[i].vif = ifp[i].vif /\ W[i].reg = b
  BY <1>3
<1>8. \A u \in Ids : W[u].live = ifp[u].live /\ W[u].slot = ifp[u].slot /\ W[u].vif = ifp[u].vif
  BY <1>4, <1>7
<1> QED
  BY <1>4, <1>6, <1>7, <1>8 DEF W

\* An interface is bound to the vif of whoever waits (brcmf_notify_vif_event).
LEMMA BoundFacts ==
    ASSUME NEW F \in [Ids -> Vifs], NEW i \in Ids, armed \in Ids
    PROVE  /\ Bind(F, i) \in [Ids -> Vifs]
           /\ Bind(F, i)[armed].live = F[armed].live /\ Bind(F, i)[armed].kind = F[armed].kind
           /\ Bind(F, i)[armed].ifp = i
           /\ \A u \in Ids : u # armed => Bind(F, i)[u] = F[u]
           /\ \A u \in Ids : Bind(F, i)[u].kind = F[u].kind
<1> DEFINE r == [live |-> F[armed].live, kind |-> F[armed].kind, ifp |-> i]
           W == Bind(F, i)
<1>0. W = [F EXCEPT ![armed].ifp = i]
  BY VifAssumption DEF Bind
<1>1. F[armed] \in Vifs /\ F[armed].kind \in Kinds \cup {"net"} /\ F[armed].live \in BOOLEAN
  BY DEF Vifs
<1>2. r \in Vifs
  BY <1>1 DEF Vifs
<1>3. W[armed] = r
  <2>1. W[armed] = [F[armed] EXCEPT !.ifp = i]
    BY <1>0
  <2> QED
    BY <2>1, <1>1 DEF Vifs
<1>4. \A u \in Ids : u # armed => W[u] = F[u]
  BY <1>0
<1>5. W = [u \in Ids |-> IF u = armed THEN W[armed] ELSE F[u]]
  BY <1>0
<1> HIDE DEF W
<1>6. W \in [Ids -> Vifs]
  BY <1>2, <1>3, <1>5
<1>7. W[armed].live = F[armed].live /\ W[armed].kind = F[armed].kind /\ W[armed].ifp = i
  BY <1>3
<1>8. \A u \in Ids : W[u].kind = F[u].kind
  BY <1>4, <1>7
<1> QED
  BY <1>4, <1>6, <1>7, <1>8 DEF W

\* Without accidents and a removal under way the list follows the firmware.
LEMMA CleanCalm ==
    ASSUME VifTypes, VifCore, Accidents = 0, ~stray, user.at \notin {"delwait", "remove"}
    PROVE  /\ \A s \in Slots, x \in Ids :
                /\ x \in Leaves[s] => iflist[s] = NoId
                /\ x \in Comes[s] => iflist[s] = NoId /\ fwif[s] = x
           /\ \A s \in Slots :
                /\ s \in Asked \/ iflist[s] = fwif[s]
                /\ wk.at # "idle" => iflist[s] # wk.i
<1>1. /\ UserShape /\ Listing /\ Follows /\ CleanWorker /\ CleanEvents
  BY DEF VifCore, Clean
<1>2. \A s \in Slots : ~Deletes(s)
  BY DEF Deletes
<1>3. ASSUME NEW s \in Slots, wk.at # "idle" PROVE iflist[s] # wk.i
  BY <1>3, <1>1, VifAssumption DEF CleanWorker, Listing, UserShape, Leaving, VifTypes
<1>4. Sound
  BY CleanSound DEF Sound
<1>5. ASSUME NEW s \in Slots PROVE s \in Asked \/ iflist[s] = fwif[s]
  BY <1>1, <1>2, <1>3, <1>4 DEF Follows, Removing
<1> QED
  BY <1>1, <1>2, <1>3, <1>5 DEF CleanEvents

-----------------------------------------------------------------------------
-----------------------------------------------------------------------------
(* Every step keeps the invariant.                                         *)

\* A vif is allocated and waited for (brcmf_alloc_vif, brcmf_cfg80211_arm_vif_event).
LEMMA AddStartKeeps == ASSUME VifInv, NEW kind \in Kinds, AddStart(kind) PROVE VifInv'
<1>1. VifTypes /\ ~fault /\ VifCore /\ NoFault
  BY DEF At, AddStart, VifInv
<1>2. /\ UserShape /\ Listing /\ Pairing /\ News /\ Told
      /\ Belatedly /\ OneLate /\ Follows /\ Clean
  BY <1>1 DEF VifCore
<1>q. /\ Comes' = Comes /\ Leaves' = Leaves /\ Latest' = Latest
      /\ Asked' = Asked /\ Finals' = Finals /\ Changing' = Changing
      /\ Once' = Once /\ Single' = Single /\ queue' = queue
  <2>1. queue' = queue
    BY DEF AddStart
  <2> QED
    BY <2>1, QueueKept
<1>0. /\ user.at = "idle" /\ armed = NoId /\ n' = n + 1 /\ n' \in Ids
      /\ vif' = [vif EXCEPT ![n'] = [live |-> TRUE, kind |-> kind, ifp |-> NoId]]
      /\ armed' = n' /\ action' = "none" /\ setup' = (kind = "dev")
      /\ user' = [at |-> "add", v |-> n', i |-> NoId, ok |-> FALSE]
      /\ ifp' = ifp /\ iflist' = iflist /\ conn' = conn /\ p2pdev' = p2pdev
      /\ fwif' = fwif /\ old' = old /\ wk' = wk /\ timeouts' = timeouts
      /\ fails' = fails /\ unasked' = unasked /\ stray' = stray /\ late' = late
      /\ fault' = fault
  BY <1>1 DEF counts, p2p, event, objects, Idle, Arm, At, AddStart, VifTypes
<1>x. /\ n' = n + 1 /\ n' \in Ids /\ \A v \in Ids : v # n + 1 => vif'[v] = vif[v]
      /\ UNCHANGED <<ifp, iflist, wk, stray, timeouts, unasked>> /\ user.at = "idle" /\ user'.at = "add"
      /\ \A x \in Ids : ifp[x].vif # NoId => ifp[x].vif \in Ids /\ ifp[x].vif # n + 1
  BY <1>2, <1>1 DEF At, AddStart, News, Ifps, VifTypes
<1>3. VifTypes'
  <2>1. /\ ifp' \in [Ids -> Ifps]
        /\ iflist' \in [Slots -> Ids \cup {NoId}]
        /\ conn' \in Ids \cup {NoId}
        /\ p2pdev' \in Ids \cup {NoId}
        /\ fwif' \in [Slots -> Ids \cup {NoId}]
        /\ old' \in BOOLEAN
        /\ wk' \in [at : {"idle", "check", "remove"}, i : Ids \cup {NoId}]
        /\ timeouts' \in Nat
        /\ fails' \in Nat
        /\ unasked' \in Nat
        /\ stray' \in BOOLEAN
        /\ late' \in BOOLEAN
        /\ fault' \in BOOLEAN
    BY <1>1, <1>0 DEF VifTypes
  <2>2. vif' \in [Ids -> Vifs]
    BY <1>0, <1>1 DEF Vifs, VifTypes
  <2>3. armed' \in Ids \cup {NoId}
    BY <1>0
  <2>4. action' \in {"none", "add", "del", "change"}
    BY <1>0
  <2>5. setup' \in BOOLEAN
    BY <1>0
  <2>6. queue' \in Seq(Events)
    BY <1>1, <1>q DEF VifTypes
  <2>7. user' \in [at : {"idle", "add", "addwait", "adddone", "attach", "del", "delwait", "remove",
                         "delend", "change", "chwait"},
                   v : Ids \cup {NoId}, i : Ids \cup {NoId}, ok : BOOLEAN]
    BY <1>0
  <2>8. n' \in Nat
    BY <1>0, VifAssumption
  <2> QED
    BY <2>8, <2>7, <2>6, <2>5, <2>4, <2>3, <2>2, <2>1 DEF VifTypes
<1>4. NoFault'
  BY <1>1, <1>0 DEF VifTypes, NoFault
<1>5. ASSUME ~fault' PROVE VifCore'
  <2>d. Sound' => Sound
    <3> SUFFICES ASSUME Sound', NEW x \in Ids, ifp[x].vif # NoId,
                        \/ ~vif[ifp[x].vif].live /\ (Pending(x, {"check", "remove"}) \/ Meets(x) \/ Leaving(x))
                        \/ ~Leaving(x) /\ Freeing(ifp[x].vif) /\ Pending(x, {"check"})
                 PROVE  Doomed'
      BY <1>x DEF Accidents, Doomed, Sound
    <3> QED
      BY <1>x, <1>q DEF Mine, Target, Leaving, Freeing, Meets, Pending, Doomed
  <2>1. UserShape'
    BY <1>0, <1>2, <1>1 DEF Deleting, Adding, UserShape, VifTypes
  <2>2. Listing'
    BY <1>0, <1>2, <1>1 DEF Fresh, News, Leaving, Listing, VifTypes
  <2>3. Pairing'
    BY <1>0, <1>2 DEF Adding, Pairing
  <2>4. News'
    BY <1>q, <1>2, <1>1, VifAssumption DEF Ifps, AddStart, Leaving, Fresh, News, VifTypes
  <2>5. Told'
    BY VifAssumption, <1>1, <1>2, <1>q, <1>0 DEF VifTypes, Told
  <2>6. Belatedly'
    BY <2>d, <1>0, <1>q, <1>2 DEF Deletes, Belated, Belatedly
  <2>7. OneLate'
    BY <1>0, <1>q, <1>2 DEF Late, OneLate
  <2>8. Follows'
    <3>1. ASSUME Sound', NEW s \in Slots, s \notin Asked', iflist'[s] # fwif'[s] PROVE Removing(s)'
      BY <2>d, <1>0, <1>q, <1>2, <3>1 DEF Deletes, Removing, Follows
    <3>2. ASSUME Sound', NEW s \in Slots, Deletes(s)', iflist'[s] # NoId, fwif'[s] = iflist'[s]
          PROVE  (vif[user.v].kind # "net")' /\ Crossed'
      BY <1>0, <3>2 DEF Deletes
    <3> QED
      BY <3>1, <3>2 DEF Follows
  <2>9. Clean'
    <3> SUFFICES ASSUME Accidents' = 0 PROVE
            /\ (\A i \in Ids : ifp[i].live => ifp[i].vif = i)'
            /\ (\A v \in Ids : vif[v].live => vif[v].ifp \in {v, NoId})'
            /\ CleanUser' /\ CleanWorker' /\ Single' /\ CleanEvents' /\ CleanList'
      BY DEF Clean
    <3>a. Accidents = 0
      BY DEF AddStart, Accidents
    <3>b. /\ \A i \in Ids : ifp[i].live => ifp[i].vif = i
          /\ \A v \in Ids : vif[v].live => vif[v].ifp \in {v, NoId}
          /\ CleanUser /\ CleanWorker /\ Single /\ CleanEvents /\ CleanList
      BY <3>a, <1>2 DEF Clean
    <3>1. (\A i \in Ids : ifp[i].live => ifp[i].vif = i)'
      BY VifAssumption, <1>1, <1>2, <1>q, <1>0, <3>b DEF VifTypes
    <3>2. (\A v \in Ids : vif[v].live => vif[v].ifp \in {v, NoId})'
      BY VifAssumption, <1>1, <1>2, <1>q, <1>0, <3>b DEF VifTypes
    <3>3. CleanUser'
      BY <3>b, <1>0, <1>q, <1>2, <1>1 DEF News, Deleting, Own, CleanUser, VifTypes
    <3>4. CleanWorker'
      BY <3>b, <1>0 DEF Leaving, CleanWorker
    <3>5. Single'
      BY VifAssumption, <1>1, <1>2, <1>q, <1>0, <3>b
    <3>6. CleanEvents'
      BY <3>b, <1>0, <1>q DEF Deletes, CleanEvents
    <3>7. CleanList'
      BY <3>b, <1>0 DEF Deletes, CleanList
    <3> QED
      BY <3>1, <3>2, <3>3, <3>4, <3>5, <3>6, <3>7
  <2> QED
    BY <2>9, <2>8, <2>7, <2>6, <2>5, <2>4, <2>3, <2>2, <2>1 DEF VifCore
<1> QED
  BY <1>3, <1>4, <1>5 DEF VifInv

\* The firmware makes the interface and announces it (brcmf_p2p_request_p2p_if, brcmf_cfg80211_request_ap_if).
LEMMA AddRequestKeeps == ASSUME VifInv, NEW t \in Slots, AddRequest(t) PROVE VifInv'
<1>1. VifTypes /\ ~fault /\ VifCore /\ NoFault
  BY DEF At, AddRequest, VifInv
<1>2. /\ UserShape /\ Listing /\ Pairing /\ News /\ Told
      /\ Belatedly /\ OneLate /\ Follows /\ Clean
  BY <1>1 DEF VifCore
<1>e. PICK e \in Events : e = [act |-> "add", slot |-> t, id |-> user.v] /\ queue' = Append(queue, e)
  BY <1>2 DEF At, AddRequest, UserShape, Events
<1>f. /\ queue' \in Seq(Events)
      /\ \A s \in Slots, x \in Ids :
           /\ x \in Comes'[s] <=> x \in Comes[s] \/ (e.act = "add" /\ e.slot = s /\ e.id = x)
           /\ x \in Leaves'[s] <=> x \in Leaves[s] \/ (e.act = "del" /\ e.slot = s /\ e.id = x)
           /\ x \in Latest'[s] <=> IF e.slot = s /\ e.act # "change"
                                   THEN e.act = "add" /\ e.id = x ELSE x \in Latest[s]
      /\ \A s \in Slots : s \in Asked' <=> s \in Asked \/ (e.slot = s /\ e.act # "change")
      /\ \A s \in Slots :
           e.act # "add" /\ (s \in Finals \/ Leaves[s] = {}) => s \in Finals'
      /\ Changing' <=> Changing \/ e.act = "change"
      /\ Once /\ (e.act = "add" => \A s \in Slots : e.id \notin Comes[s]) => Once'
      /\ Single /\ (e.act = "change" => ~Changing) => Single'
  <2>1. queue \in Seq(Events)
    BY <1>1 DEF VifTypes
  <2> QED
    BY <2>1, <1>e, QueueGrows
<1>q. e.act = "add" /\ e.slot = t /\ e.id = user.v /\ e.slot \in Slots /\ e.id \in Ids
  BY <1>e DEF Events
<1>0. /\ user.at = "add" /\ fwif[t] = NoId /\ ~(vif[user.v].kind = "p2p" /\ conn # NoId)
      /\ fwif' = [fwif EXCEPT ![t] = user.v] /\ user' = [user EXCEPT !.at = "addwait"]
      /\ vif' = vif /\ ifp' = ifp /\ iflist' = iflist /\ armed' = armed
      /\ action' = action /\ conn' = conn /\ p2pdev' = p2pdev /\ setup' = setup
      /\ old' = old /\ wk' = wk /\ n' = n /\ timeouts' = timeouts /\ fails' = fails
      /\ unasked' = unasked /\ stray' = stray /\ late' = late /\ fault' = fault
  BY DEF counts, p2p, event, objects, Mine, NoConnection, At, AddRequest
<1>x. /\ user.at = "add" /\ user.v \in Ids /\ fwif[t] = NoId /\ user' = [user EXCEPT !.at = "addwait"]
      /\ fwif' = [fwif EXCEPT ![t] = user.v] /\ UNCHANGED <<vif, ifp, iflist, action, wk, timeouts, unasked, stray>>
      /\ user'.at = "addwait" /\ user'.v = user.v
  BY <1>2 DEF counts, event, objects, At, AddRequest, UserShape
<1>3. VifTypes'
  <2>1. /\ vif' \in [Ids -> Vifs]
        /\ ifp' \in [Ids -> Ifps]
        /\ iflist' \in [Slots -> Ids \cup {NoId}]
        /\ armed' \in Ids \cup {NoId}
        /\ action' \in {"none", "add", "del", "change"}
        /\ conn' \in Ids \cup {NoId}
        /\ p2pdev' \in Ids \cup {NoId}
        /\ setup' \in BOOLEAN
        /\ old' \in BOOLEAN
        /\ wk' \in [at : {"idle", "check", "remove"}, i : Ids \cup {NoId}]
        /\ n' \in Nat
        /\ timeouts' \in Nat
        /\ fails' \in Nat
        /\ unasked' \in Nat
        /\ stray' \in BOOLEAN
        /\ late' \in BOOLEAN
        /\ fault' \in BOOLEAN
    BY <1>1, <1>0 DEF VifTypes
  <2>2. fwif' \in [Slots -> Ids \cup {NoId}]
    BY <1>0, <1>1 DEF VifTypes
  <2>3. queue' \in Seq(Events)
    BY <1>f
  <2>4. user' \in [at : {"idle", "add", "addwait", "adddone", "attach", "del", "delwait", "remove",
                         "delend", "change", "chwait"},
                   v : Ids \cup {NoId}, i : Ids \cup {NoId}, ok : BOOLEAN]
    BY <1>0, <1>f, <1>2, <1>1, VifAssumption DEF Ifps, Vifs, UserShape, VifTypes
  <2> QED
    BY <2>1, <2>2, <2>3, <2>4 DEF VifTypes
<1>4. NoFault'
  BY <1>1, <1>f, <1>0 DEF VifTypes, NoFault
<1>5. ASSUME ~fault' PROVE VifCore'
  <2>d. Sound' => Sound
    BY <1>0, <1>f, <1>2
      DEF Listing, Leaving, Freeing, Meets, Pending, Accidents, Doomed, Sound
  <2>1. UserShape'
    BY <1>0, <1>2 DEF Deleting, Adding, UserShape
  <2>2. Listing'
    BY <1>0, <1>2 DEF Leaving, Listing
  <2>3. Pairing'
    BY <1>0, <1>2 DEF Adding, Pairing
  <2>4. News'
    BY <1>0, <1>f, <1>q, <1>2 DEF UserShape, Leaving, Fresh, News
  <2>5. Told'
    <3>1. (\A s \in Slots, x \in Ids : x \in Comes[s] => (x \in Latest[s] <=> fwif[s] = x))'
      BY <1>0, <1>f, <1>q, <1>2, <1>1 DEF Told, VifTypes
    <3>2. (\A s \in Slots : s \in Asked /\ fwif[s] # NoId => fwif[s] \in Comes[s])'
      BY <1>0, <1>f, <1>q, <1>2, <1>1 DEF Told, VifTypes
    <3>3. (\A s \in Slots : wk.at # "idle" /\ iflist[s] = wk.i => fwif[s] # wk.i)'
      BY <1>0, <1>2 DEF Fresh, News, Told
    <3> QED
      BY <3>1, <3>2, <3>3 DEF Told
  <2>6. Belatedly'
    <3> SUFFICES ASSUME Belated' PROVE
            /\ timeouts' >= 1
            /\ Sound' =>
                 /\ (\A s \in Slots, x \in Ids :
                      /\ x \in Leaves[s] => iflist[s] = NoId \/ (Deletes(s) /\ s \in Finals)
                      /\ x \in Comes[s] => iflist[s] = NoId /\ fwif[s] = x)'
                 /\ (\A s \in Slots :
                      /\ s \in Asked \/ iflist[s] = fwif[s]
                      /\ wk.at # "idle" => iflist[s] # wk.i)'
      BY DEF Belatedly
    <3>p. Belated /\ (Sound' =>
              /\ \A s \in Slots, x \in Ids :
                   /\ x \in Leaves[s] => iflist[s] = NoId
                   /\ x \in Comes[s] => iflist[s] = NoId /\ fwif[s] = x
              /\ \A s \in Slots :
                   /\ s \in Asked \/ iflist[s] = fwif[s]
                   /\ wk.at # "idle" => iflist[s] # wk.i)
      <4>1. Belated
        BY <1>x, <1>q, <1>f DEF Belated
      <4>2. \A s \in Slots : ~Deletes(s)
        BY <1>x DEF Deletes
      <4> QED
        BY <4>1, <4>2, <2>d, <1>2 DEF Belatedly
    <3>n. Sound' => iflist[t] = NoId
      BY <3>p, <1>x, VifAssumption DEF Asked
    <3>1. timeouts' >= 1
      BY <3>p, <1>2, <1>x DEF Belatedly
    <3>2. ASSUME Sound', NEW s \in Slots, NEW x \in Ids, x \in Leaves'[s]
          PROVE  iflist'[s] = NoId \/ (Deletes(s)' /\ s \in Finals')
      BY <1>x, <1>f, <1>q, <3>2, <3>p
    <3>3. ASSUME Sound', NEW s \in Slots, NEW x \in Ids, x \in Comes'[s]
          PROVE  iflist'[s] = NoId /\ fwif'[s] = x
      BY VifAssumption, <3>n, <1>x, <1>1, <1>f, <1>q, <3>3, <3>p DEF VifTypes
    <3>4. ASSUME Sound', NEW s \in Slots, s \notin Asked' PROVE iflist'[s] = fwif'[s]
      BY <1>x, <1>f, <1>q, <3>4, <3>p
    <3>5. ASSUME Sound', NEW s \in Slots, wk'.at # "idle" PROVE iflist'[s] # wk'.i
      BY <1>x, <3>5, <3>p
    <3> QED
      BY <3>1, <3>2, <3>3, <3>4, <3>5
  <2>7. OneLate'
    <3>1. ASSUME timeouts' <= 1, NEW s1 \in Slots, NEW s2 \in Slots, NEW x \in Ids, NEW y \in Ids,
                 x \in Comes'[s1], Late(x)', y \in Comes'[s2], Late(y)'
          PROVE  x = y
      <4>1. timeouts <= 1 /\ Late(x) /\ Late(y)
        BY <3>1, <1>x DEF Late
      <4>2. /\ x \in Comes[s1] \/ x = user.v
            /\ y \in Comes[s2] \/ y = user.v
        BY <3>1, <1>f, <1>q
      <4>3. CASE action = "add"
        BY <4>1, <4>2, <4>3, <1>2, <1>x DEF OneLate
      <4>4. CASE action # "add"
        <5>1. x # user.v /\ y # user.v
          BY <3>1, <4>4, <1>x DEF Late
        <5> QED
          BY <5>1, <4>1, <4>2, <1>2 DEF OneLate
      <4> QED
        BY <4>3, <4>4
    <3>2. user'.at # "add"
      BY <1>x
    <3> QED
      BY <3>1, <3>2 DEF OneLate
  <2>8. Follows'
    <3>1. ASSUME Sound', NEW s \in Slots, s \notin Asked', iflist'[s] # fwif'[s] PROVE Removing(s)'
      BY <2>d, <1>0, <1>f, <1>q, <1>2, <3>1 DEF Deletes, Removing, Follows
    <3>2. ASSUME Sound', NEW s \in Slots, Deletes(s)', iflist'[s] # NoId, fwif'[s] = iflist'[s]
          PROVE  (vif[user.v].kind # "net")' /\ Crossed'
      BY <1>0, <3>2 DEF Deletes
    <3> QED
      BY <3>1, <3>2 DEF Follows
  <2>9. Clean'
    <3> SUFFICES ASSUME Accidents' = 0 PROVE
            /\ (\A i \in Ids : ifp[i].live => ifp[i].vif = i)'
            /\ (\A v \in Ids : vif[v].live => vif[v].ifp \in {v, NoId})'
            /\ CleanUser' /\ CleanWorker' /\ Single' /\ CleanEvents' /\ CleanList'
      BY DEF Clean
    <3>a. Accidents = 0
      BY DEF counts, AddRequest, Accidents
    <3>b. /\ \A i \in Ids : ifp[i].live => ifp[i].vif = i
          /\ \A v \in Ids : vif[v].live => vif[v].ifp \in {v, NoId}
          /\ CleanUser /\ CleanWorker /\ Single /\ CleanEvents /\ CleanList
      BY <3>a, <1>2 DEF Clean
    <3>1. (\A i \in Ids : ifp[i].live => ifp[i].vif = i)'
      BY <3>b, <1>0
    <3>2. (\A v \in Ids : vif[v].live => vif[v].ifp \in {v, NoId})'
      BY <3>b, <1>0
    <3>3. CleanUser'
      <4>1. (Changing => user.at = "chwait" /\ action # "change")'
        BY <3>b, <1>0, <1>f, <1>q DEF CleanUser
      <4>2. (action = "change" => user.at = "chwait")'
        BY <3>b, <1>0 DEF CleanUser
      <4>3. (Adding => vif[user.v].live)'
        BY <3>b, <1>0 DEF Adding, CleanUser
      <4>4. (user.at = "addwait" /\ action = "add" => Own(user.v))'
        <5>1. timeouts = 0 /\ unasked = 0
          BY <3>a, <1>1 DEF Accidents, VifTypes
        <5>2. ~Belated
          BY <5>1, <1>2 DEF Belatedly
        <5> QED
          BY <5>2, <1>x DEF Belated
      <4>5. (user.at = "adddone" /\ user.ok => Own(user.v))'
        BY <1>0
      <4>6. (user.at = "attach" => Own(user.v))'
        BY <1>0
      <4>7. (Deleting => Own(user.v) /\ Target = user.v)'
        BY <1>0 DEF Deleting
      <4>8. (user.at \in {"change", "chwait"} => Own(user.v))'
        BY <1>0
      <4>9. (user.at = "delend" => user.i = user.v /\ (user.ok => Own(user.v)))'
        BY <1>0
      <4>10. (conn # NoId =>
                  Own(conn) /\ vif[conn].kind = "p2p" /\ (Adding \/ user.at = "attach" => conn # user.v))'
        BY <3>b, <1>0 DEF Own, CleanUser
      <4> QED
        BY <4>10, <4>9, <4>8, <4>7, <4>6, <4>5, <4>4, <4>3, <4>2, <4>1 DEF CleanUser
    <3>4. CleanWorker'
      BY <3>b, <1>0 DEF Leaving, CleanWorker
    <3>5. Single'
      BY VifAssumption, <1>1, <1>2, <1>q, <1>f, <1>0, <3>b
    <3>6. CleanEvents'
      BY <3>b, <1>0, <1>f, <1>q, <1>1, VifAssumption
        DEF CleanList, Deletes, CleanEvents, VifTypes
    <3>7. CleanList'
      BY <3>b, <1>0 DEF Deletes, CleanList
    <3> QED
      BY <3>1, <3>2, <3>3, <3>4, <3>5, <3>6, <3>7
  <2> QED
    BY <2>9, <2>8, <2>7, <2>6, <2>5, <2>4, <2>3, <2>2, <2>1 DEF VifCore
<1> QED
  BY <1>3, <1>4, <1>5 DEF VifInv

\* The command for it fails.
LEMMA AddRefusedKeeps == ASSUME VifInv, AddRefused PROVE VifInv'
<1>1. VifTypes /\ ~fault /\ VifCore /\ NoFault
  BY DEF At, AddRefused, VifInv
<1>2. /\ UserShape /\ Listing /\ Pairing /\ News /\ Told
      /\ Belatedly /\ OneLate /\ Follows /\ Clean
  BY <1>1 DEF VifCore
<1>q. /\ Comes' = Comes /\ Leaves' = Leaves /\ Latest' = Latest
      /\ Asked' = Asked /\ Finals' = Finals /\ Changing' = Changing
      /\ Once' = Once /\ Single' = Single /\ queue' = queue
  <2>1. queue' = queue
    BY DEF AddRefused
  <2> QED
    BY <2>1, QueueKept
<1>0. /\ user.at = "add" /\ armed' = NoId /\ action' = "none" /\ setup' = FALSE
      /\ vif' = [vif EXCEPT ![user.v].live = FALSE, ![user.v].ifp = NoId]
      /\ user' = [at |-> "idle", v |-> NoId, i |-> NoId, ok |-> FALSE]
      /\ fault' = ~vif[user.v].live /\ fails' \in {fails, fails + 1}
      /\ ifp' = ifp /\ iflist' = iflist /\ conn' = conn /\ p2pdev' = p2pdev
      /\ fwif' = fwif /\ old' = old /\ wk' = wk /\ n' = n /\ timeouts' = timeouts
      /\ unasked' = unasked /\ stray' = stray /\ late' = late
  BY DEF Idle, Freed, Mine, Fails, Arm, At, AddRefused
<1>x. user.v \in Ids /\ (Accidents = 0 => vif[user.v].live) /\ user.at = "add"
  BY <1>2 DEF At, AddRefused, Adding, CleanUser, Clean, UserShape
<1>3. VifTypes'
  <2>1. /\ ifp' \in [Ids -> Ifps]
        /\ iflist' \in [Slots -> Ids \cup {NoId}]
        /\ conn' \in Ids \cup {NoId}
        /\ p2pdev' \in Ids \cup {NoId}
        /\ fwif' \in [Slots -> Ids \cup {NoId}]
        /\ old' \in BOOLEAN
        /\ wk' \in [at : {"idle", "check", "remove"}, i : Ids \cup {NoId}]
        /\ n' \in Nat
        /\ timeouts' \in Nat
        /\ unasked' \in Nat
        /\ stray' \in BOOLEAN
        /\ late' \in BOOLEAN
    BY <1>1, <1>0 DEF VifTypes
  <2>2. vif' \in [Ids -> Vifs]
    <3> QED
      BY <1>1, <1>x, FreedFacts DEF AddRefused
  <2>3. armed' \in Ids \cup {NoId}
    BY <1>0
  <2>4. action' \in {"none", "add", "del", "change"}
    BY <1>0
  <2>5. setup' \in BOOLEAN
    BY <1>0, <1>2, <1>1, VifAssumption DEF Ifps, Vifs, UserShape, VifTypes
  <2>6. queue' \in Seq(Events)
    BY <1>1, <1>q DEF VifTypes
  <2>7. user' \in [at : {"idle", "add", "addwait", "adddone", "attach", "del", "delwait", "remove",
                         "delend", "change", "chwait"},
                   v : Ids \cup {NoId}, i : Ids \cup {NoId}, ok : BOOLEAN]
    BY <1>0
  <2>8. fails' \in Nat
    BY <1>0, <1>1 DEF VifTypes
  <2>9. fault' \in BOOLEAN
    BY <1>0
  <2> QED
    BY <2>9, <2>8, <2>7, <2>6, <2>5, <2>4, <2>3, <2>2, <2>1 DEF VifTypes
<1>4. NoFault'
  BY <1>x, <1>1 DEF AddRefused, Mine, NoFault, Accidents, VifTypes
<1>5. ASSUME ~fault' PROVE VifCore'
  <2>d. Sound' => Sound
    BY <1>0, <1>q, <1>1
      DEF Ifps, VifTypes, Leaving, Freeing, Meets, Pending, Accidents, Doomed, Sound
  <2>1. UserShape'
    BY <1>0, <1>q, <1>2, <1>1, VifAssumption
      DEF Leaving, Listing, Deleting, Adding, UserShape, VifTypes
  <2>2. Listing'
    BY <1>0, <1>2, <1>1 DEF Leaving, Listing, VifTypes
  <2>3. Pairing'
    BY <1>0, <1>2, <1>1 DEF Pairing, VifTypes
  <2>4. News'
    BY <1>0, <1>q, <1>2, <1>1 DEF Leaving, Fresh, News, VifTypes
  <2>5. Told'
    BY VifAssumption, <1>1, <1>2, <1>q, <1>0 DEF VifTypes, Told
  <2>6. Belatedly'
    BY <2>d, <1>0, <1>q, <1>2 DEF Deletes, Belated, Belatedly
  <2>7. OneLate'
    BY <1>0, <1>q, <1>2 DEF Late, OneLate
  <2>8. Follows'
    <3>1. ASSUME Sound', NEW s \in Slots, s \notin Asked', iflist'[s] # fwif'[s] PROVE Removing(s)'
      BY <2>d, <1>0, <1>q, <1>2, <3>1 DEF Deletes, Removing, Follows
    <3>2. ASSUME Sound', NEW s \in Slots, Deletes(s)', iflist'[s] # NoId, fwif'[s] = iflist'[s]
          PROVE  (vif[user.v].kind # "net")' /\ Crossed'
      BY <1>0, <3>2 DEF Deletes
    <3> QED
      BY <3>1, <3>2 DEF Follows
  <2>9. Clean'
    <3> SUFFICES ASSUME Accidents' = 0 PROVE
            /\ (\A i \in Ids : ifp[i].live => ifp[i].vif = i)'
            /\ (\A v \in Ids : vif[v].live => vif[v].ifp \in {v, NoId})'
            /\ CleanUser' /\ CleanWorker' /\ Single' /\ CleanEvents' /\ CleanList'
      BY DEF Clean
    <3>a. Accidents = 0
      BY DEF AddRefused, Accidents
    <3>b. /\ \A i \in Ids : ifp[i].live => ifp[i].vif = i
          /\ \A v \in Ids : vif[v].live => vif[v].ifp \in {v, NoId}
          /\ CleanUser /\ CleanWorker /\ Single /\ CleanEvents /\ CleanList
      BY <3>a, <1>2 DEF Clean
    <3>1. (\A i \in Ids : ifp[i].live => ifp[i].vif = i)'
      BY VifAssumption, <1>1, <1>2, <1>q, <1>0, <3>b DEF VifTypes
    <3>2. (\A v \in Ids : vif[v].live => vif[v].ifp \in {v, NoId})'
      BY VifAssumption, <1>1, <1>2, <1>q, <1>0, <3>b DEF VifTypes
    <3>3. CleanUser'
      BY <3>b, <1>0, <1>q, <1>1 DEF Deleting, Adding, Own, CleanUser, VifTypes
    <3>4. CleanWorker'
      BY <3>b, <1>0 DEF Leaving, CleanWorker
    <3>5. Single'
      BY VifAssumption, <1>1, <1>2, <1>q, <1>0, <3>b
    <3>6. CleanEvents'
      BY <3>b, <1>0, <1>q DEF Deletes, CleanEvents
    <3>7. CleanList'
      BY <3>b, <1>0 DEF Deletes, CleanList
    <3> QED
      BY <3>1, <3>2, <3>3, <3>4, <3>5, <3>6, <3>7
  <2> QED
    BY <2>9, <2>8, <2>7, <2>6, <2>5, <2>4, <2>3, <2>2, <2>1 DEF VifCore
<1> QED
  BY <1>3, <1>4, <1>5 DEF VifInv

\* The announcement is met, or times out (brcmf_cfg80211_wait_vif_event).
LEMMA AddWaitsKeeps == ASSUME VifInv, NEW ok \in BOOLEAN, AddWaits(ok) PROVE VifInv'
<1>1. VifTypes /\ ~fault /\ VifCore /\ NoFault
  BY DEF At, AddWaits, VifInv
<1>2. /\ UserShape /\ Listing /\ Pairing /\ News /\ Told
      /\ Belatedly /\ OneLate /\ Follows /\ Clean
  BY <1>1 DEF VifCore
<1>q. /\ Comes' = Comes /\ Leaves' = Leaves /\ Latest' = Latest
      /\ Asked' = Asked /\ Finals' = Finals /\ Changing' = Changing
      /\ Once' = Once /\ Single' = Single /\ queue' = queue
  <2>1. queue' = queue
    BY DEF AddWaits
  <2> QED
    BY <2>1, QueueKept
<1>0. /\ user.at = "addwait" /\ user' = [user EXCEPT !.at = "adddone", !.ok = ok]
      /\ ok => action = "add" /\ timeouts' = timeouts
      /\ ~ok => action # "add" /\ timeouts' = timeouts + 1
      /\ vif' = vif /\ ifp' = ifp /\ iflist' = iflist /\ armed' = armed
      /\ action' = action /\ conn' = conn /\ p2pdev' = p2pdev /\ setup' = setup
      /\ fwif' = fwif /\ old' = old /\ wk' = wk /\ n' = n /\ fails' = fails
      /\ unasked' = unasked /\ stray' = stray /\ late' = late /\ fault' = fault
  BY DEF p2p, event, objects, Wait, At, AddWaits
<1>3. VifTypes'
  <2>1. /\ vif' \in [Ids -> Vifs]
        /\ ifp' \in [Ids -> Ifps]
        /\ iflist' \in [Slots -> Ids \cup {NoId}]
        /\ armed' \in Ids \cup {NoId}
        /\ action' \in {"none", "add", "del", "change"}
        /\ conn' \in Ids \cup {NoId}
        /\ p2pdev' \in Ids \cup {NoId}
        /\ setup' \in BOOLEAN
        /\ fwif' \in [Slots -> Ids \cup {NoId}]
        /\ old' \in BOOLEAN
        /\ wk' \in [at : {"idle", "check", "remove"}, i : Ids \cup {NoId}]
        /\ n' \in Nat
        /\ fails' \in Nat
        /\ unasked' \in Nat
        /\ stray' \in BOOLEAN
        /\ late' \in BOOLEAN
        /\ fault' \in BOOLEAN
    BY <1>1, <1>0 DEF VifTypes
  <2>2. queue' \in Seq(Events)
    BY <1>1, <1>q DEF VifTypes
  <2>3. user' \in [at : {"idle", "add", "addwait", "adddone", "attach", "del", "delwait", "remove",
                         "delend", "change", "chwait"},
                   v : Ids \cup {NoId}, i : Ids \cup {NoId}, ok : BOOLEAN]
    BY <1>1 DEF VifTypes, AddWaits
  <2>4. timeouts' \in Nat
    BY <1>0, <1>1 DEF VifTypes
  <2> QED
    BY <2>1, <2>2, <2>3, <2>4 DEF VifTypes
<1>4. NoFault'
  BY <1>1, <1>0 DEF VifTypes, NoFault
<1>5. ASSUME ~fault' PROVE VifCore'
  <2>d. Sound' => Sound
    BY <1>0, <1>q, <1>1
      DEF VifTypes, Leaving, Freeing, Meets, Pending, Accidents, Doomed, Sound
  <2>1. UserShape'
    BY <1>0, <1>2 DEF Deleting, Adding, UserShape
  <2>2. Listing'
    BY <1>0, <1>2 DEF Leaving, Listing
  <2>3. Pairing'
    BY <1>0, <1>2 DEF Adding, Pairing
  <2>4. News'
    BY <1>0, <1>q, <1>2 DEF Leaving, Fresh, News
  <2>5. Told'
    BY VifAssumption, <1>1, <1>2, <1>q, <1>0 DEF VifTypes, Told
  <2>6. Belatedly'
    <3> SUFFICES ASSUME Belated' PROVE
            /\ timeouts' >= 1
            /\ Sound' =>
                 /\ (\A s \in Slots, x \in Ids :
                      /\ x \in Leaves[s] => iflist[s] = NoId \/ (Deletes(s) /\ s \in Finals)
                      /\ x \in Comes[s] => iflist[s] = NoId /\ fwif[s] = x)'
                 /\ (\A s \in Slots :
                      /\ s \in Asked \/ iflist[s] = fwif[s]
                      /\ wk.at # "idle" => iflist[s] # wk.i)'
      BY DEF Belatedly
    <3>p. ASSUME Sound' PROVE
            /\ \A s \in Slots, x \in Ids :
                 /\ x \in Leaves[s] => iflist[s] = NoId
                 /\ x \in Comes[s] => iflist[s] = NoId /\ fwif[s] = x
            /\ \A s \in Slots :
                 /\ s \in Asked \/ iflist[s] = fwif[s]
                 /\ wk.at # "idle" => iflist[s] # wk.i
      <4>0. user.at = "addwait" /\ user.v \in Ids /\ UNCHANGED <<action, stray>>
        BY <1>2 DEF UserShape, AddWaits, At, event
      <4>1. CASE ok
        <5>1. Belated
          BY <4>0, <4>1, <1>q, <1>1 DEF Belated, AddWaits, Wait
        <5> QED
          BY <5>1, <4>0, <2>d, <3>p, <1>2 DEF Belatedly, Deletes
      <4>2. CASE ~ok
        <5>1. Accidents = 0 /\ ~stray
          BY <1>1, <3>p, <4>2 DEF Wait, AddWaits, VifTypes, Accidents, Sound
        <5> QED
          BY <5>1, <4>0, <1>1, CleanCalm
      <4> QED
        BY <4>1, <4>2
    <3>1. timeouts' >= 1
      BY <1>0, <1>q, <1>2, <1>1 DEF Belated, Belatedly, VifTypes
    <3>2. ASSUME Sound', NEW s \in Slots, NEW x \in Ids, x \in Leaves'[s]
          PROVE  iflist'[s] = NoId \/ (Deletes(s)' /\ s \in Finals')
      BY <1>q, <3>2, <3>p DEF objects, AddWaits
    <3>3. ASSUME Sound', NEW s \in Slots, NEW x \in Ids, x \in Comes'[s]
          PROVE  iflist'[s] = NoId /\ fwif'[s] = x
      BY <1>q, <3>3, <3>p DEF objects, AddWaits
    <3>4. ASSUME Sound', NEW s \in Slots, s \notin Asked' PROVE iflist'[s] = fwif'[s]
      BY <1>q, <3>4, <3>p DEF objects, AddWaits
    <3>5. ASSUME Sound', NEW s \in Slots, wk'.at # "idle" PROVE iflist'[s] # wk'.i
      BY <3>5, <3>p DEF objects, AddWaits
    <3> QED
      BY <3>1, <3>2, <3>3, <3>4, <3>5
  <2>7. OneLate'
    <3>1. user.at = "addwait" /\ user'.at = "adddone" /\ UNCHANGED action
      BY <1>1 DEF VifTypes, AddWaits, At, event
    <3>2. CASE ok
      <4>1. action = "add" /\ timeouts' = timeouts
        BY <3>2 DEF AddWaits, Wait
      <4> QED
        BY <3>1, <4>1, <1>2, <1>q DEF OneLate, Late
    <3>3. CASE ~ok
      <4>1. timeouts' = timeouts + 1
        BY <3>3 DEF AddWaits, Wait
      <4>2. timeouts' <= 1 => ~Belated
        BY <4>1, <1>1, <1>2 DEF VifTypes, Belatedly
      <4>3. timeouts' <= 1 => \A s \in Slots, x \in Ids : x \in Comes[s] => x = user.v
        BY <4>2 DEF Belated
      <4> QED
        BY <3>1, <4>3, <1>q DEF OneLate
    <3> QED
      BY <3>2, <3>3
  <2>8. Follows'
    <3>1. ASSUME Sound', NEW s \in Slots, s \notin Asked', iflist'[s] # fwif'[s] PROVE Removing(s)'
      BY <2>d, <1>0, <1>q, <1>2, <3>1 DEF Deletes, Removing, Follows
    <3>2. ASSUME Sound', NEW s \in Slots, Deletes(s)', iflist'[s] # NoId, fwif'[s] = iflist'[s]
          PROVE  (vif[user.v].kind # "net")' /\ Crossed'
      BY <1>0, <3>2 DEF Deletes
    <3> QED
      BY <3>1, <3>2 DEF Follows
  <2>9. Clean'
    <3> SUFFICES ASSUME Accidents' = 0 PROVE
            /\ (\A i \in Ids : ifp[i].live => ifp[i].vif = i)'
            /\ (\A v \in Ids : vif[v].live => vif[v].ifp \in {v, NoId})'
            /\ CleanUser' /\ CleanWorker' /\ Single' /\ CleanEvents' /\ CleanList'
      BY DEF Clean
    <3>a. Accidents = 0
      BY <1>1 DEF Wait, AddWaits, Accidents, VifTypes
    <3>b. /\ \A i \in Ids : ifp[i].live => ifp[i].vif = i
          /\ \A v \in Ids : vif[v].live => vif[v].ifp \in {v, NoId}
          /\ CleanUser /\ CleanWorker /\ Single /\ CleanEvents /\ CleanList
      BY <3>a, <1>2 DEF Clean
    <3>1. (\A i \in Ids : ifp[i].live => ifp[i].vif = i)'
      BY VifAssumption, <1>1, <1>2, <1>q, <1>0, <3>b DEF VifTypes
    <3>2. (\A v \in Ids : vif[v].live => vif[v].ifp \in {v, NoId})'
      BY VifAssumption, <1>1, <1>2, <1>q, <1>0, <3>b DEF VifTypes
    <3>3. CleanUser'
      BY <3>b, <1>0, <1>q DEF Deleting, Adding, Own, CleanUser
    <3>4. CleanWorker'
      BY <3>b, <1>0 DEF Leaving, CleanWorker
    <3>5. Single'
      BY VifAssumption, <1>1, <1>2, <1>q, <1>0, <3>b
    <3>6. CleanEvents'
      BY <3>b, <1>0, <1>q DEF Deletes, CleanEvents
    <3>7. CleanList'
      BY <3>b, <1>0 DEF Deletes, CleanList
    <3> QED
      BY <3>1, <3>2, <3>3, <3>4, <3>5, <3>6, <3>7
  <2> QED
    BY <2>9, <2>8, <2>7, <2>6, <2>5, <2>4, <2>3, <2>2, <2>1 DEF VifCore
<1> QED
  BY <1>3, <1>4, <1>5 DEF VifInv

\* The wait is disarmed; after a timeout the vif is freed.
LEMMA AddDoneKeeps == ASSUME VifInv, AddDone PROVE VifInv'
<1>1. VifTypes /\ ~fault /\ VifCore /\ NoFault
  BY DEF At, AddDone, VifInv
<1>2. /\ UserShape /\ Listing /\ Pairing /\ News /\ Told
      /\ Belatedly /\ OneLate /\ Follows /\ Clean
  BY <1>1 DEF VifCore
<1>q. /\ Comes' = Comes /\ Leaves' = Leaves /\ Latest' = Latest
      /\ Asked' = Asked /\ Finals' = Finals /\ Changing' = Changing
      /\ Once' = Once /\ Single' = Single /\ queue' = queue
  <2>1. queue' = queue
    BY DEF AddDone
  <2> QED
    BY <2>1, QueueKept
<1>0. /\ user.at = "adddone" /\ armed' = NoId /\ action' = "none" /\ setup' = FALSE
      /\ user.ok => vif' = vif /\ user' = [user EXCEPT !.at = "attach"]
      /\ ~user.ok => /\ vif' = [vif EXCEPT ![user.v].live = FALSE, ![user.v].ifp = NoId]
                  /\ user' = [at |-> "idle", v |-> NoId, i |-> NoId, ok |-> FALSE]
      /\ fault' = (~user.ok /\ ~vif[user.v].live)
      /\ ifp' = ifp /\ iflist' = iflist /\ conn' = conn /\ p2pdev' = p2pdev
      /\ fwif' = fwif /\ old' = old /\ wk' = wk /\ n' = n /\ timeouts' = timeouts
      /\ fails' = fails /\ unasked' = unasked /\ stray' = stray /\ late' = late
  BY DEF AddDone, At, Arm, Freed, Mine, Idle, counts
<1>x. user.at = "adddone" /\ user.v \in Ids /\ vif \in [Ids -> Vifs]
  BY <1>1, <1>2 DEF VifTypes, UserShape, AddDone, At
<1>y. \/ user.ok /\ vif' = vif /\ user'.at = "attach" /\ user'.v = user.v /\ user'.i = user.i /\ user'.ok
      \/ /\ ~user.ok /\ user'.at = "idle" /\ user'.v = NoId /\ user'.i = NoId /\ ~user'.ok
         /\ vif' \in [Ids -> Vifs] /\ ~vif'[user.v].live /\ vif'[user.v].kind = vif[user.v].kind
         /\ vif'[user.v].ifp = NoId /\ \A u \in Ids : u # user.v => vif'[u] = vif[u]
         /\ \A u \in Ids : vif'[u].kind = vif[u].kind
  <2>1. CASE user.ok
    BY <2>1, <1>1, <1>x DEF VifTypes, AddDone
  <2>2. CASE ~user.ok
    <3>1. vif' = Freed(user.v) /\ user' = Idle
      BY <2>2 DEF AddDone
    <3> QED
      BY <2>2, <3>1, <1>1, <1>x, FreedFacts DEF Idle
  <2> QED
    BY <2>1, <2>2
<1>3. VifTypes'
  <2>1. /\ ifp' \in [Ids -> Ifps]
        /\ iflist' \in [Slots -> Ids \cup {NoId}]
        /\ conn' \in Ids \cup {NoId}
        /\ p2pdev' \in Ids \cup {NoId}
        /\ fwif' \in [Slots -> Ids \cup {NoId}]
        /\ old' \in BOOLEAN
        /\ wk' \in [at : {"idle", "check", "remove"}, i : Ids \cup {NoId}]
        /\ n' \in Nat
        /\ timeouts' \in Nat
        /\ fails' \in Nat
        /\ unasked' \in Nat
        /\ stray' \in BOOLEAN
        /\ late' \in BOOLEAN
    BY <1>1, <1>0, <1>x, <1>y DEF VifTypes
  <2>2. vif' \in [Ids -> Vifs]
    BY <1>x, <1>y DEF VifTypes
  <2>3. armed' \in Ids \cup {NoId}
    BY <1>0
  <2>4. action' \in {"none", "add", "del", "change"}
    BY <1>0
  <2>5. setup' \in BOOLEAN
    BY <1>y, <1>x, <1>0, <1>2, <1>1, VifAssumption DEF Ifps, Vifs, UserShape, VifTypes
  <2>6. queue' \in Seq(Events)
    BY <1>1, <1>q DEF VifTypes
  <2>7. user' \in [at : {"idle", "add", "addwait", "adddone", "attach", "del", "delwait", "remove",
                         "delend", "change", "chwait"},
                   v : Ids \cup {NoId}, i : Ids \cup {NoId}, ok : BOOLEAN]
    <3>1. user' = [user EXCEPT !.at = "attach"] \/ user' = [at |-> "idle", v |-> NoId, i |-> NoId, ok |-> FALSE]
      BY DEF AddDone, Idle
    <3>2. CASE user' = [user EXCEPT !.at = "attach"]
      BY <3>2, <1>1 DEF VifTypes
    <3>3. CASE user' = [at |-> "idle", v |-> NoId, i |-> NoId, ok |-> FALSE]
      BY <3>3
    <3> QED
      BY <3>1, <3>2, <3>3
  <2>8. fault' \in BOOLEAN
    BY <1>0
  <2> QED
    BY <2>8, <2>7, <2>6, <2>5, <2>4, <2>3, <2>2, <2>1 DEF VifTypes
<1>4. NoFault'
  <2>1. Accidents = 0 => vif[user.v].live
    BY <1>2, <1>x DEF Clean, CleanUser, Adding
  <2>2. timeouts' = timeouts /\ unasked' = unasked /\ (fault' => ~vif[user.v].live)
    BY DEF AddDone, counts, Mine
  <2> QED
    BY <1>1, <2>1, <2>2 DEF VifTypes, Accidents, NoFault
<1>5. ASSUME ~fault' PROVE VifCore'
  <2>d. Sound' => Sound
    BY <1>1, <1>q, <1>0
      DEF Sound, Doomed, Accidents, Pending, Meets, Freeing, Leaving, VifTypes, Vifs, Ifps
  <2>1. UserShape'
    <3>1. (armed = IF user.at \in {"idle", "attach"} THEN NoId ELSE user.v)'
      BY <1>y, <1>0
    <3>2. (user.at # "idle" => user.v \in Ids /\ user.v <= n)'
      BY <1>y, <1>2 DEF counts, AddDone, UserShape, VifTypes
    <3>3. (user.ok => user.at \in {"adddone", "attach", "delend"})'
      BY <1>y
    <3>4. (setup = (Adding /\ vif[user.v].kind = "dev"))'
      BY VifAssumption, <1>1, <1>2, <1>q, <1>0, <1>x, <1>y
        DEF VifTypes, UserShape, Adding, Deleting, Listing, Leaving
    <3>5. (Deleting /\ vif[user.v].kind = "net" =>
               user.i \in Ids /\ ifp[user.i].live /\ ifp[user.i].reg /\ ifp[user.i].vif = user.v)'
      BY <1>y DEF Deleting
    <3>6. (user.at = "delend" /\ user.ok =>
               /\ user.i \in Ids /\ vif[user.i].kind # "dev"
               /\ ifp[user.i].live => ~ifp[user.i].reg /\ iflist[ifp[user.i].slot] # user.i)'
      BY <1>y
    <3>7. (wk.at # "idle" =>
               /\ wk.i \in Ids
               /\ ifp[wk.i].live => iflist[ifp[wk.i].slot] \in {wk.i, NoId})'
      BY <1>0, <1>2 DEF UserShape
    <3> QED
      BY <3>7, <3>6, <3>5, <3>4, <3>3, <3>2, <3>1 DEF UserShape
  <2>2. Listing'
    <3>1. (\A s \in Slots : iflist[s] # NoId => ifp[iflist[s]].live /\ ifp[iflist[s]].slot = s)'
      BY <1>0, <1>2 DEF Listing
    <3>2. (\A i \in Ids : ifp[i].live =>
               ifp[i].slot \in Slots /\ (iflist[ifp[i].slot] = i \/ Leaving(i)))'
      BY <1>0, <1>2 DEF Leaving, Listing
    <3>3. (\A i \in Ids : ifp[i].reg => ifp[i].live /\ vif[i].kind # "dev")'
      BY <1>y, <1>2 DEF AddDone, Listing
    <3>4. (\A i \in Ids : ~ifp[i].live => ifp[i].vif = NoId)'
      BY <1>0, <1>2 DEF Listing
    <3> QED
      BY <3>1, <3>2, <3>3, <3>4 DEF Listing
  <2>3. Pairing'
    <3> SUFFICES ASSUME NEW v \in Ids PROVE (IF ~vif[v].live THEN vif[v].ifp = NoId
        ELSE IF vif[v].ifp = NoId THEN (Adding \/ user.at = "attach") /\ user.v = v
        ELSE ifp[vif[v].ifp].live /\ ifp[vif[v].ifp].vif = v)'
      BY DEF Pairing
    <3> QED
      BY <1>y, <1>0, <1>2 DEF Listing, Adding, Pairing, UserShape
  <2>4. News'
    <3>1. (\A i \in Ids : i > n => Fresh(i) /\ ~vif[i].live)'
      BY <1>2, <1>y DEF Leaving, News, Fresh, AddDone, counts
    <3>2. (\A s \in Slots, x \in Ids : x \in Comes[s] =>
               x <= n /\ Fresh(x) /\ (user.at = "add" => x # user.v))'
      BY <1>y, <1>0, <1>q, <1>2 DEF Leaving, Fresh, News
    <3>3. (Once)'
      BY <1>q, <1>2 DEF News
    <3>4. (user.at = "add" => Fresh(user.v))'
      BY <1>y
    <3>5. (\A i \in Ids : ifp[i].vif # NoId => ifp[i].vif <= n)'
      BY <1>0, <1>2 DEF News
    <3>6. (\A s \in Slots : fwif[s] # NoId => fwif[s] <= n)'
      BY <1>0, <1>2 DEF News
    <3> QED
      BY <3>1, <3>2, <3>3, <3>4, <3>5, <3>6 DEF News
  <2>5. Told'
    BY <1>0, <1>q, <1>2 DEF Told
  <2>6. Belatedly'
    BY <1>2, <1>q, <1>0, <2>d DEF Belatedly, Belated, Deletes
  <2>7. OneLate'
    BY <1>0, <1>q, <1>2 DEF Late, OneLate
  <2>8. Follows'
    <3>1. ASSUME Sound', NEW s \in Slots, s \notin Asked', iflist'[s] # fwif'[s] PROVE Removing(s)'
      BY <3>1, <1>2, <1>q, <1>0, <2>d DEF Follows, Removing, Deletes
    <3>2. ASSUME Sound', NEW s \in Slots, Deletes(s)', iflist'[s] # NoId, fwif'[s] = iflist'[s]
          PROVE  (vif[user.v].kind # "net")' /\ Crossed'
      BY <1>y, <3>2 DEF Deletes
    <3> QED
      BY <3>1, <3>2 DEF Follows
  <2>9. Clean'
    <3> SUFFICES ASSUME Accidents' = 0 PROVE
            /\ (\A i \in Ids : ifp[i].live => ifp[i].vif = i)'
            /\ (\A v \in Ids : vif[v].live => vif[v].ifp \in {v, NoId})'
            /\ CleanUser' /\ CleanWorker' /\ Single' /\ CleanEvents' /\ CleanList'
      BY DEF Clean
    <3>a. Accidents = 0
      BY DEF counts, AddDone, Accidents
    <3>b. /\ \A i \in Ids : ifp[i].live => ifp[i].vif = i
          /\ \A v \in Ids : vif[v].live => vif[v].ifp \in {v, NoId}
          /\ CleanUser /\ CleanWorker /\ Single /\ CleanEvents /\ CleanList
      BY <3>a, <1>2 DEF Clean
    <3>1. (\A i \in Ids : ifp[i].live => ifp[i].vif = i)'
      BY <3>b, <1>0
    <3>2. (\A v \in Ids : vif[v].live => vif[v].ifp \in {v, NoId})'
      BY <3>b, <1>1, <1>x, <1>y DEF VifTypes
    <3>3. CleanUser'
      <4>1. (Changing => user.at = "chwait" /\ action # "change")'
        BY <3>b, <1>0, <1>q DEF CleanUser
      <4>2. (action = "change" => user.at = "chwait")'
        BY <1>0
      <4>3. (Adding => vif[user.v].live)'
        BY <1>y DEF Adding
      <4>4. (user.at = "addwait" /\ action = "add" => Own(user.v))'
        BY <1>0
      <4>5. (user.at = "adddone" /\ user.ok => Own(user.v))'
        BY <1>y
      <4>6. (user.at = "attach" => Own(user.v))'
        BY <3>b, <1>y, <1>0 DEF Own, CleanUser
      <4>7. (Deleting => Own(user.v) /\ Target = user.v)'
        BY <1>y DEF Deleting
      <4>8. (user.at \in {"change", "chwait"} => Own(user.v))'
        BY <1>y
      <4>9. (user.at = "delend" => user.i = user.v /\ (user.ok => Own(user.v)))'
        BY <1>y
      <4>10. (conn # NoId =>
                  Own(conn) /\ vif[conn].kind = "p2p" /\ (Adding \/ user.at = "attach" => conn # user.v))'
        BY <1>1, <1>0, <3>b DEF VifTypes, CleanUser, Own, Adding
      <4> QED
        BY <4>10, <4>9, <4>8, <4>7, <4>6, <4>5, <4>4, <4>3, <4>2, <4>1 DEF CleanUser
    <3>4. CleanWorker'
      BY <3>b, <1>0 DEF Leaving, CleanWorker
    <3>5. Single'
      BY <3>b, <1>q
    <3>6. CleanEvents'
      BY <3>b, <1>0, <1>q DEF Deletes, CleanEvents
    <3>7. CleanList'
      BY <3>b, <1>0 DEF Deletes, CleanList
    <3> QED
      BY <3>1, <3>2, <3>3, <3>4, <3>5, <3>6, <3>7
  <2> QED
    BY <2>9, <2>8, <2>7, <2>6, <2>5, <2>4, <2>3, <2>2, <2>1 DEF VifCore
<1> QED
  BY <1>3, <1>4, <1>5 DEF VifInv

\* The interface is registered, or a P2P device noted.
LEMMA AddAttachKeeps == ASSUME VifInv, AddAttach PROVE VifInv'
<1>1. VifTypes /\ ~fault /\ VifCore /\ NoFault
  BY DEF At, AddAttach, VifInv
<1>2. /\ UserShape /\ Listing /\ Pairing /\ News /\ Told
      /\ Belatedly /\ OneLate /\ Follows /\ Clean
  BY <1>1 DEF VifCore
<1>q. /\ Comes' = Comes /\ Leaves' = Leaves /\ Latest' = Latest
      /\ Asked' = Asked /\ Finals' = Finals /\ Changing' = Changing
      /\ Once' = Once /\ Single' = Single /\ queue' = queue
  <2>1. queue' = queue
    BY DEF AddAttach
  <2> QED
    BY <2>1, QueueKept
<1>0. /\ user.at = "attach" /\ vif[user.v].live /\ vif[user.v].ifp # NoId /\ ifp[vif[user.v].ifp].live
      /\ vif[vif[user.v].ifp].kind = "dev" => vif[user.v].kind = "dev"
      /\ ifp' = IF vif[user.v].kind = "dev" THEN ifp ELSE [ifp EXCEPT ![vif[user.v].ifp].reg = TRUE]
      /\ conn' = IF vif[user.v].kind = "p2p" THEN user.v ELSE conn
      /\ p2pdev' = IF vif[user.v].kind = "dev" THEN user.v ELSE p2pdev
      /\ user' = [at |-> "idle", v |-> NoId, i |-> NoId, ok |-> FALSE]
      /\ vif' = vif /\ iflist' = iflist /\ armed' = armed /\ action' = action
      /\ setup' = setup /\ fwif' = fwif /\ old' = old /\ wk' = wk /\ n' = n
      /\ timeouts' = timeouts /\ fails' = fails /\ unasked' = unasked
      /\ stray' = stray /\ late' = late /\ fault' = fault
  BY DEF AddAttach, At, Usable, NoNdev, Mine, Idle, event, counts
<1>x. /\ \A i \in Ids : ifp'[i].live = ifp[i].live /\ ifp'[i].slot = ifp[i].slot /\ ifp'[i].vif = ifp[i].vif
      /\ UNCHANGED <<vif, iflist, wk, stray, timeouts, unasked>> /\ user.at = "attach" /\ user'.at = "idle"
  BY DEF Idle, counts, At, AddAttach
<1>3. VifTypes'
  <2>1. /\ vif' \in [Ids -> Vifs]
        /\ iflist' \in [Slots -> Ids \cup {NoId}]
        /\ armed' \in Ids \cup {NoId}
        /\ action' \in {"none", "add", "del", "change"}
        /\ setup' \in BOOLEAN
        /\ fwif' \in [Slots -> Ids \cup {NoId}]
        /\ old' \in BOOLEAN
        /\ wk' \in [at : {"idle", "check", "remove"}, i : Ids \cup {NoId}]
        /\ n' \in Nat
        /\ timeouts' \in Nat
        /\ fails' \in Nat
        /\ unasked' \in Nat
        /\ stray' \in BOOLEAN
        /\ late' \in BOOLEAN
        /\ fault' \in BOOLEAN
    BY <1>1, <1>0 DEF VifTypes
  <2>2. ifp' \in [Ids -> Ifps]
    <3>1. user.v \in Ids
      BY <1>1, <1>2 DEF UserShape, AddAttach, At
    <3>2. vif[user.v].ifp \in Ids
      BY <1>1, <3>1 DEF Mine, Usable, AddAttach, Vifs, VifTypes
    <3>3. ifp' = ifp \/ ifp' = WithReg(vif[user.v].ifp, TRUE)
      BY DEF AddAttach, Mine, WithReg
    <3>4. WithReg(vif[user.v].ifp, TRUE) \in [Ids -> Ifps]
      BY <3>2, <1>1, RegFacts
    <3> QED
      BY <3>3, <3>4, <1>1 DEF VifTypes
  <2>3. conn' \in Ids \cup {NoId}
    BY <1>0, <1>1 DEF VifTypes
  <2>4. p2pdev' \in Ids \cup {NoId}
    BY <1>0, <1>1 DEF VifTypes
  <2>5. queue' \in Seq(Events)
    BY <1>1, <1>q DEF VifTypes
  <2>6. user' \in [at : {"idle", "add", "addwait", "adddone", "attach", "del", "delwait", "remove",
                         "delend", "change", "chwait"},
                   v : Ids \cup {NoId}, i : Ids \cup {NoId}, ok : BOOLEAN]
    BY <1>0
  <2> QED
    BY <2>1, <2>2, <2>3, <2>4, <2>5, <2>6 DEF VifTypes
<1>4. NoFault'
  BY <1>1, <1>0 DEF VifTypes, NoFault
<1>5. ASSUME ~fault' PROVE VifCore'
  <2>d. Sound' => Sound
    <3> SUFFICES ASSUME Sound', NEW x \in Ids, ifp[x].vif # NoId,
                        \/ ~vif[ifp[x].vif].live /\ (Pending(x, {"check", "remove"}) \/ Meets(x) \/ Leaving(x))
                        \/ ~Leaving(x) /\ Freeing(ifp[x].vif) /\ Pending(x, {"check"})
                 PROVE  Doomed'
      BY <1>x DEF Accidents, Doomed, Sound
    <3> QED
      BY <1>x, <1>q DEF Leaving, Freeing, Meets, Pending, Doomed
  <2>1. UserShape'
    BY <1>0, <1>2 DEF Deleting, Adding, UserShape
  <2>2. Listing'
    <3>1. (\A s \in Slots : iflist[s] # NoId => ifp[iflist[s]].live /\ ifp[iflist[s]].slot = s)'
      BY <1>0, <1>2 DEF Listing
    <3>2. (\A i \in Ids : ifp[i].live =>
               ifp[i].slot \in Slots /\ (iflist[ifp[i].slot] = i \/ Leaving(i)))'
      BY <1>0, <1>2 DEF Leaving, Listing
    <3>3. (\A i \in Ids : ifp[i].reg => ifp[i].live /\ vif[i].kind # "dev")'
      BY <1>0, <1>2 DEF Listing
    <3>4. (\A i \in Ids : ~ifp[i].live => ifp[i].vif = NoId)'
      BY <1>0, <1>2 DEF Listing
    <3> QED
      BY <3>1, <3>2, <3>3, <3>4 DEF Listing
  <2>3. Pairing'
    BY <1>0, <1>2 DEF Pairing
  <2>4. News'
    BY <1>0, <1>q, <1>2 DEF Leaving, Fresh, News
  <2>5. Told'
    BY VifAssumption, <1>1, <1>2, <1>q, <1>0 DEF VifTypes, Told
  <2>6. Belatedly'
    BY <2>d, <1>0, <1>q, <1>2 DEF Deletes, Belated, Belatedly
  <2>7. OneLate'
    BY <1>0, <1>q, <1>2 DEF Late, OneLate
  <2>8. Follows'
    <3>1. ASSUME Sound', NEW s \in Slots, s \notin Asked', iflist'[s] # fwif'[s] PROVE Removing(s)'
      BY <3>1, <1>2, <1>q, <1>0, <2>d DEF Follows, Removing, Deletes
    <3>2. ASSUME Sound', NEW s \in Slots, Deletes(s)', iflist'[s] # NoId, fwif'[s] = iflist'[s]
          PROVE  (vif[user.v].kind # "net")' /\ Crossed'
      BY <1>0, <3>2 DEF Deletes
    <3> QED
      BY <3>1, <3>2 DEF Follows
  <2>9. Clean'
    <3> SUFFICES ASSUME Accidents' = 0 PROVE
            /\ (\A i \in Ids : ifp[i].live => ifp[i].vif = i)'
            /\ (\A v \in Ids : vif[v].live => vif[v].ifp \in {v, NoId})'
            /\ CleanUser' /\ CleanWorker' /\ Single' /\ CleanEvents' /\ CleanList'
      BY DEF Clean
    <3>a. Accidents = 0
      BY DEF counts, AddAttach, Accidents
    <3>b. /\ \A i \in Ids : ifp[i].live => ifp[i].vif = i
          /\ \A v \in Ids : vif[v].live => vif[v].ifp \in {v, NoId}
          /\ CleanUser /\ CleanWorker /\ Single /\ CleanEvents /\ CleanList
      BY <3>a, <1>2 DEF Clean
    <3>1. (\A i \in Ids : ifp[i].live => ifp[i].vif = i)'
      BY VifAssumption, <1>1, <1>2, <1>q, <1>0, <3>b DEF VifTypes
    <3>2. (\A v \in Ids : vif[v].live => vif[v].ifp \in {v, NoId})'
      BY VifAssumption, <1>1, <1>2, <1>q, <1>0, <3>b DEF VifTypes
    <3>3. CleanUser'
      BY <3>b, <1>0, <1>q DEF Deleting, Adding, Own, CleanUser
    <3>4. CleanWorker'
      BY <3>b, <1>0 DEF Leaving, CleanWorker
    <3>5. Single'
      BY VifAssumption, <1>1, <1>2, <1>q, <1>0, <3>b
    <3>6. CleanEvents'
      BY <3>b, <1>0, <1>q DEF Deletes, CleanEvents
    <3>7. CleanList'
      BY <3>b, <1>0 DEF Deletes, CleanList
    <3> QED
      BY <3>1, <3>2, <3>3, <3>4, <3>5, <3>6, <3>7
  <2> QED
    BY <2>9, <2>8, <2>7, <2>6, <2>5, <2>4, <2>3, <2>2, <2>1 DEF VifCore
<1> QED
  BY <1>3, <1>4, <1>5 DEF VifInv

\* Registering fails: interface and vif are freed (brcmf_net_attach).
LEMMA AttachFailsKeeps == ASSUME VifInv, AttachFails PROVE VifInv'
<1>1. VifTypes /\ ~fault /\ VifCore /\ NoFault
  BY DEF At, AttachFails, VifInv
<1>2. /\ UserShape /\ Listing /\ Pairing /\ News /\ Told
      /\ Belatedly /\ OneLate /\ Follows /\ Clean
  BY <1>1 DEF VifCore
<1>q. /\ Comes' = Comes /\ Leaves' = Leaves /\ Latest' = Latest
      /\ Asked' = Asked /\ Finals' = Finals /\ Changing' = Changing
      /\ Once' = Once /\ Single' = Single /\ queue' = queue
  <2>1. queue' = queue
    BY DEF AttachFails
  <2> QED
    BY <2>1, QueueKept
<1>0. /\ user.at = "attach" /\ vif[user.v].live /\ vif[user.v].ifp # NoId /\ ifp[vif[user.v].ifp].live /\ fails' = fails + 1
      /\ vif[user.v].kind = "dev" => p2pdev' = user.v /\ ifp' = ifp /\ iflist' = iflist
      /\ vif[user.v].kind # "dev" =>
           /\ iflist' = [iflist EXCEPT ![ifp[vif[user.v].ifp].slot] = NoId]
           /\ ifp' = [ifp EXCEPT ![vif[user.v].ifp] = NoIf] /\ p2pdev' = p2pdev /\ stray'
      /\ vif' = [vif EXCEPT ![user.v].live = FALSE, ![user.v].ifp = NoId]
      /\ user' = [at |-> "idle", v |-> NoId, i |-> NoId, ok |-> FALSE]
      /\ stray' = (stray \/ vif[user.v].kind # "dev")
      /\ armed' = armed /\ action' = action /\ conn' = conn /\ setup' = setup
      /\ fwif' = fwif /\ old' = old /\ wk' = wk /\ n' = n /\ timeouts' = timeouts
      /\ unasked' = unasked /\ late' = late /\ fault' = fault
  BY <1>1
    DEF counts, p2p, event, objects, Freed, Fails, Idle, Mine, NoNdev, Usable, At,
        AttachFails, VifTypes
<1>a. PICK k \in Ids : k = vif[user.v].ifp
  BY <1>0, <1>1, <1>2 DEF VifTypes, Vifs, UserShape
<1>v. /\ user.v \in Ids /\ vif' \in [Ids -> Vifs] /\ ~vif'[user.v].live /\ vif'[user.v].ifp = NoId
      /\ \A u \in Ids : u # user.v => vif'[u] = vif[u]
      /\ \A u \in Ids : vif'[u].kind = vif[u].kind
  <2>1. user.v \in Ids
    BY <1>0, <1>2 DEF UserShape
  <2>2. vif' = Freed(user.v)
    BY <1>0 DEF Freed
  <2> QED
    BY <2>1, <2>2, <1>1, FreedFacts
<1>i. vif[user.v].kind # "dev" =>
        /\ ifp' \in [Ids -> Ifps] /\ ~ifp'[k].live /\ ifp'[k].vif = NoId /\ ~ifp'[k].reg
        /\ \A u \in Ids : u # k => ifp'[u] = ifp[u]
  BY <1>0, <1>a, <1>1, NoIfFacts DEF VifTypes
<1>b. ifp[k].live /\ ifp[k].vif = user.v /\ ifp[k].slot \in Slots /\ iflist[ifp[k].slot] = k
  BY <1>0, <1>a, <1>v, <1>2 DEF Pairing, Listing, Leaving
<1>l. /\ vif[user.v].kind = "dev" => iflist' = iflist /\ ifp' = ifp
      /\ vif[user.v].kind # "dev" =>
           \A s \in Slots : iflist'[s] = IF s = ifp[k].slot THEN NoId ELSE iflist[s]
  BY <1>0, <1>a, <1>b, <1>1 DEF VifTypes
<1>n. \A i \in Ids : /\ ~ifp[i].live => ~ifp'[i].live
                     /\ ifp'[i].vif \in {ifp[i].vif, NoId}
                     /\ ~vif[i].live => ~vif'[i].live
  BY <1>i, <1>l, <1>v
<1>3. VifTypes'
  <2>1. /\ armed' \in Ids \cup {NoId}
        /\ action' \in {"none", "add", "del", "change"}
        /\ conn' \in Ids \cup {NoId}
        /\ setup' \in BOOLEAN
        /\ fwif' \in [Slots -> Ids \cup {NoId}]
        /\ old' \in BOOLEAN
        /\ wk' \in [at : {"idle", "check", "remove"}, i : Ids \cup {NoId}]
        /\ n' \in Nat
        /\ timeouts' \in Nat
        /\ unasked' \in Nat
        /\ late' \in BOOLEAN
        /\ fault' \in BOOLEAN
    BY <1>1, <1>0, <1>a, <1>v, <1>i, <1>l DEF VifTypes
  <2>2. vif' \in [Ids -> Vifs]
    BY <1>v
  <2>3. ifp' \in [Ids -> Ifps]
    BY <1>0, <1>i, <1>1 DEF VifTypes
  <2>4. iflist' \in [Slots -> Ids \cup {NoId}]
    BY <1>l, <1>0, <1>1 DEF VifTypes
  <2>5. p2pdev' \in Ids \cup {NoId}
    BY <1>0, <1>1 DEF VifTypes
  <2>6. queue' \in Seq(Events)
    BY <1>1, <1>q DEF VifTypes
  <2>7. user' \in [at : {"idle", "add", "addwait", "adddone", "attach", "del", "delwait", "remove",
                         "delend", "change", "chwait"},
                   v : Ids \cup {NoId}, i : Ids \cup {NoId}, ok : BOOLEAN]
    BY <1>0
  <2>8. fails' \in Nat
    BY <1>0, <1>1 DEF VifTypes
  <2>9. stray' \in BOOLEAN
    BY <1>0
  <2> QED
    BY <2>9, <2>8, <2>7, <2>6, <2>5, <2>4, <2>3, <2>2, <2>1 DEF VifTypes
<1>4. NoFault'
  BY <1>0, <1>1 DEF NoFault
<1>5. ASSUME ~fault' PROVE VifCore'
  <2>d. Sound' => Sound
    <3> SUFFICES ASSUME Sound', NEW y \in Ids, ifp[y].vif # NoId, ~vif[ifp[y].vif].live,
                        Pending(y, {"check", "remove"})
                 PROVE  Doomed'
      BY <1>1, <1>0 DEF VifTypes, Freeing, Leaving, Meets, Accidents, Doomed, Sound
    <3>1. ifp' = ifp /\ iflist' = iflist
      BY <1>0, <1>l DEF Sound
    <3>2. ~vif'[ifp[y].vif].live
      BY <1>1, <1>n DEF VifTypes, Ifps
    <3>3. Pending(y, {"check", "remove"})'
      BY <3>1, <1>0, <1>q DEF Pending
    <3> QED
      BY <3>1, <3>2, <3>3 DEF Doomed
  <2>1. UserShape'
    BY <1>3, <1>5, <1>l, <1>i, <1>0, <1>2
      DEF Pairing, Fresh, News, NoIf, Freed, Mine, Target, Ifps, Vifs, Leaving, Listing,
          Deleting, Adding, UserShape, VifTypes
  <2>2. Listing'
    <3>1. CASE vif[user.v].kind = "dev"
      BY <3>1, <1>0, <1>l, <1>v, <1>2 DEF Listing, Leaving
    <3>2. CASE vif[user.v].kind # "dev"
      <4>1. ASSUME NEW s \in Slots, iflist'[s] # NoId
            PROVE  ifp'[iflist'[s]].live /\ ifp'[iflist'[s]].slot = s
        <5>1. s # ifp[k].slot /\ iflist'[s] = iflist[s]
          BY <3>2, <4>1, <1>l
        <5>2. iflist[s] \in Ids /\ ifp[iflist[s]].live /\ ifp[iflist[s]].slot = s
          BY <4>1, <5>1, <1>1, <1>2 DEF VifTypes, Listing
        <5> QED
          BY <3>2, <5>1, <5>2, <1>i
      <4>2. ASSUME NEW i \in Ids, ifp'[i].live
            PROVE  ifp'[i].slot \in Slots /\ iflist'[ifp'[i].slot] = i
        <5>1. i # k /\ ifp'[i] = ifp[i]
          BY <3>2, <4>2, <1>i
        <5>2. ifp[i].slot \in Slots /\ iflist[ifp[i].slot] = i
          BY <4>2, <5>1, <1>0, <1>2 DEF Listing, Leaving
        <5> QED
          BY <3>2, <5>1, <5>2, <1>b, <1>l
      <4>3. ASSUME NEW i \in Ids, ifp'[i].reg PROVE ifp'[i].live /\ vif'[i].kind # "dev"
        <5>1. i # k /\ ifp'[i] = ifp[i]
          BY <3>2, <4>3, <1>i
        <5> QED
          BY <4>3, <5>1, <1>v, <1>2 DEF Listing
      <4>4. ASSUME NEW i \in Ids, ~ifp'[i].live PROVE ifp'[i].vif = NoId
        BY <3>2, <4>4, <1>i, <1>2 DEF Listing
      <4> QED
        BY <4>1, <4>2, <4>3, <4>4 DEF Listing
    <3> QED
      BY <3>1, <3>2
  <2>3. Pairing'
    <3> SUFFICES ASSUME NEW v \in Ids PROVE (IF ~vif[v].live THEN vif[v].ifp = NoId
        ELSE IF vif[v].ifp = NoId THEN (Adding \/ user.at = "attach") /\ user.v = v
        ELSE ifp[vif[v].ifp].live /\ ifp[vif[v].ifp].vif = v)'
      BY DEF Pairing
    <3>1. CASE v = user.v
      BY <3>1, <1>v
    <3>2. CASE v # user.v
      <4>1. vif'[v] = vif[v] /\ vif[v].ifp \in Ids \cup {NoId}
        BY <3>2, <1>v, <1>1 DEF VifTypes, Vifs
      <4>2. CASE ~vif[v].live
        BY <4>1, <4>2, <1>2 DEF Pairing
      <4>3. CASE vif[v].live
        <5>1. vif[v].ifp \in Ids /\ ifp[vif[v].ifp].live /\ ifp[vif[v].ifp].vif = v
          BY <3>2, <4>1, <4>3, <1>2 DEF Pairing
        <5>2. vif[v].ifp # k
          BY <3>2, <5>1, <1>b
        <5>3. ifp'[vif[v].ifp] = ifp[vif[v].ifp]
          BY <5>1, <5>2, <1>i, <1>l
        <5> QED
          BY <4>1, <4>3, <5>1, <5>3, VifAssumption
      <4> QED
        BY <4>2, <4>3
    <3> QED
      BY <3>1, <3>2
  <2>4. News'
    BY <1>n, <1>0, <1>2, <1>q DEF News, Fresh, Leaving
  <2>5. Told'
    BY <1>l, <1>0, <1>q, <1>2, VifAssumption DEF UserShape, Told
  <2>6. Belatedly'
    <3>1. user.at = "attach" /\ user'.at = "idle" /\ UNCHANGED <<fwif, wk, timeouts>>
      BY DEF AttachFails, At, Idle, objects, event, p2p, counts
    <3>2. Belated' => Belated
      BY <3>1, <1>q DEF Belated
    <3>3. Sound' => iflist' = iflist
      BY <1>1 DEF VifTypes, Sound, AttachFails
    <3> QED
      BY <1>q, <1>2, <2>d, <3>3, <3>2, <3>1 DEF Deletes, Belatedly
  <2>7. OneLate'
    BY <1>0, <1>q, <1>2 DEF Late, OneLate
  <2>8. Follows'
    <3>1. ASSUME Sound', NEW s \in Slots, s \notin Asked', iflist'[s] # fwif'[s] PROVE Removing(s)'
      <4>1. iflist' = iflist /\ fwif' = fwif /\ Sound
        BY <3>1, <2>d, <1>0, <1>l DEF Sound
      <4>2. Removing(s)
        BY <3>1, <4>1, <1>2, <1>q DEF Follows
      <4> QED
        BY <4>1, <4>2, <1>0 DEF Removing, Deletes
    <3>2. ASSUME Sound', NEW s \in Slots, Deletes(s)', iflist'[s] # NoId, fwif'[s] = iflist'[s]
          PROVE  (vif[user.v].kind # "net")' /\ Crossed'
      BY <1>0, <3>2 DEF Deletes
    <3> QED
      BY <3>1, <3>2 DEF Follows
  <2>9. Clean'
    <3> SUFFICES ASSUME Accidents' = 0 PROVE
            /\ (\A i \in Ids : ifp[i].live => ifp[i].vif = i)'
            /\ (\A v \in Ids : vif[v].live => vif[v].ifp \in {v, NoId})'
            /\ CleanUser' /\ CleanWorker' /\ Single' /\ CleanEvents' /\ CleanList'
      BY DEF Clean
    <3>a. Accidents = 0
      BY DEF AttachFails, Accidents
    <3>b. /\ \A i \in Ids : ifp[i].live => ifp[i].vif = i
          /\ \A v \in Ids : vif[v].live => vif[v].ifp \in {v, NoId}
          /\ CleanUser /\ CleanWorker /\ Single /\ CleanEvents /\ CleanList
      BY <3>a, <1>2 DEF Clean
    <3>1. (\A i \in Ids : ifp[i].live => ifp[i].vif = i)'
      BY <3>b, <1>l, <1>b, <1>i, <1>v, <1>a, <1>q DEF VifTypes
    <3>2. (\A v \in Ids : vif[v].live => vif[v].ifp \in {v, NoId})'
      BY <3>b, <1>0, <1>1 DEF VifTypes
    <3>3. CleanUser'
      BY <3>b, <1>0, <1>q, <1>1 DEF Deleting, Adding, Own, CleanUser, VifTypes
    <3>4. CleanWorker'
      BY <1>2, <1>l, <1>i, <1>0, <3>b DEF UserShape, Leaving, CleanWorker
    <3>5. Single'
      BY <3>b, <1>q
    <3>6. CleanEvents'
      BY <3>b, <1>a, <1>0, <1>q, <1>2, <1>1 DEF Deletes, CleanEvents, VifTypes
    <3>7. CleanList'
      BY <3>b, <1>0, <1>1 DEF Deletes, CleanList, VifTypes
    <3> QED
      BY <3>1, <3>2, <3>3, <3>4, <3>5, <3>6, <3>7
  <2> QED
    BY <2>9, <2>8, <2>7, <2>6, <2>5, <2>4, <2>3, <2>2, <2>1 DEF VifCore
<1> QED
  BY <1>3, <1>4, <1>5 DEF VifInv

\* A removal begins.
LEMMA DelStartKeeps == ASSUME VifInv, NEW t \in Ids, DelStart(t) PROVE VifInv'
<1>1. VifTypes /\ ~fault /\ VifCore /\ NoFault
  BY DEF At, DelStart, VifInv
<1>2. /\ UserShape /\ Listing /\ Pairing /\ News /\ Told
      /\ Belatedly /\ OneLate /\ Follows /\ Clean
  BY <1>1 DEF VifCore
<1>q. /\ Comes' = Comes /\ Leaves' = Leaves /\ Latest' = Latest
      /\ Asked' = Asked /\ Finals' = Finals /\ Changing' = Changing
      /\ Once' = Once /\ Single' = Single /\ queue' = queue
  <2>1. queue' = queue
    BY DEF DelStart
  <2> QED
    BY <2>1, QueueKept
<1>0. /\ user.at = "idle" /\ armed = NoId /\ armed' = t /\ action' = "none"
      /\ user' = [at |-> "del", v |-> t, i |-> vif[t].ifp, ok |-> FALSE]
      /\ vif[t].live /\ vif[t].ifp # NoId
      /\ vif[t].kind # "dev" => ifp[vif[t].ifp].reg
      /\ vif' = vif /\ ifp' = ifp /\ iflist' = iflist /\ conn' = conn
      /\ p2pdev' = p2pdev /\ setup' = setup /\ fwif' = fwif /\ old' = old /\ wk' = wk
      /\ n' = n /\ timeouts' = timeouts /\ fails' = fails /\ unasked' = unasked
      /\ stray' = stray /\ late' = late /\ fault' = fault
  BY <1>1 DEF counts, p2p, event, objects, Idle, Arm, Deletable, At, DelStart, VifTypes
<1>3. VifTypes'
  <2>1. /\ vif' \in [Ids -> Vifs]
        /\ ifp' \in [Ids -> Ifps]
        /\ iflist' \in [Slots -> Ids \cup {NoId}]
        /\ conn' \in Ids \cup {NoId}
        /\ p2pdev' \in Ids \cup {NoId}
        /\ setup' \in BOOLEAN
        /\ fwif' \in [Slots -> Ids \cup {NoId}]
        /\ old' \in BOOLEAN
        /\ wk' \in [at : {"idle", "check", "remove"}, i : Ids \cup {NoId}]
        /\ n' \in Nat
        /\ timeouts' \in Nat
        /\ fails' \in Nat
        /\ unasked' \in Nat
        /\ stray' \in BOOLEAN
        /\ late' \in BOOLEAN
        /\ fault' \in BOOLEAN
    BY <1>1, <1>0 DEF VifTypes
  <2>2. armed' \in Ids \cup {NoId}
    BY <1>0
  <2>3. action' \in {"none", "add", "del", "change"}
    BY <1>0
  <2>4. queue' \in Seq(Events)
    BY <1>1, <1>q DEF VifTypes
  <2>5. user' \in [at : {"idle", "add", "addwait", "adddone", "attach", "del", "delwait", "remove",
                         "delend", "change", "chwait"},
                   v : Ids \cup {NoId}, i : Ids \cup {NoId}, ok : BOOLEAN]
    BY <1>0, <1>1 DEF Vifs, VifTypes
  <2> QED
    BY <2>1, <2>2, <2>3, <2>4, <2>5 DEF VifTypes
<1>4. NoFault'
  BY <1>1, <1>0 DEF VifTypes, NoFault
<1>5. ASSUME ~fault' PROVE VifCore'
  <2>d. Sound' => Sound
    BY <1>0, <1>q DEF Leaving, Freeing, Meets, Pending, Accidents, Doomed, Sound
  <2>1. UserShape'
    BY <1>0, <1>2, <1>1, VifAssumption DEF Pairing, News, Vifs, Adding, UserShape, VifTypes
  <2>2. Listing'
    BY <1>0, <1>2 DEF Leaving, Listing
  <2>3. Pairing'
    BY <1>0, <1>2 DEF Adding, Pairing
  <2>4. News'
    BY <1>0, <1>q, <1>2 DEF Leaving, Fresh, News
  <2>5. Told'
    BY VifAssumption, <1>1, <1>2, <1>q, <1>0 DEF VifTypes, Told
  <2>6. Belatedly'
    BY <2>d, <1>0, <1>q, <1>2 DEF Deletes, Belated, Belatedly
  <2>7. OneLate'
    BY <1>0, <1>q, <1>2 DEF Late, OneLate
  <2>8. Follows'
    <3>1. ASSUME Sound', NEW s \in Slots, s \notin Asked', iflist'[s] # fwif'[s] PROVE Removing(s)'
      BY <2>d, <1>0, <1>q, <1>2, <3>1 DEF Deletes, Removing, Follows
    <3>2. ASSUME Sound', NEW s \in Slots, Deletes(s)', iflist'[s] # NoId, fwif'[s] = iflist'[s]
          PROVE  (vif[user.v].kind # "net")' /\ Crossed'
      BY <1>0, <3>2 DEF Deletes
    <3> QED
      BY <3>1, <3>2 DEF Follows
  <2>9. Clean'
    <3> SUFFICES ASSUME Accidents' = 0 PROVE
            /\ (\A i \in Ids : ifp[i].live => ifp[i].vif = i)'
            /\ (\A v \in Ids : vif[v].live => vif[v].ifp \in {v, NoId})'
            /\ CleanUser' /\ CleanWorker' /\ Single' /\ CleanEvents' /\ CleanList'
      BY DEF Clean
    <3>a. Accidents = 0
      BY DEF counts, DelStart, Accidents
    <3>b. /\ \A i \in Ids : ifp[i].live => ifp[i].vif = i
          /\ \A v \in Ids : vif[v].live => vif[v].ifp \in {v, NoId}
          /\ CleanUser /\ CleanWorker /\ Single /\ CleanEvents /\ CleanList
      BY <3>a, <1>2 DEF Clean
    <3>1. (\A i \in Ids : ifp[i].live => ifp[i].vif = i)'
      BY VifAssumption, <1>1, <1>2, <1>q, <1>0, <3>b DEF VifTypes
    <3>2. (\A v \in Ids : vif[v].live => vif[v].ifp \in {v, NoId})'
      BY VifAssumption, <1>1, <1>2, <1>q, <1>0, <3>b DEF VifTypes
    <3>3. CleanUser'
      BY <3>b, <1>0, <1>q, <1>2 DEF Mine, Target, Pairing, Adding, Own, CleanUser
    <3>4. CleanWorker'
      BY <3>b, <1>0 DEF Leaving, CleanWorker
    <3>5. Single'
      BY VifAssumption, <1>1, <1>2, <1>q, <1>0, <3>b
    <3>6. CleanEvents'
      BY <3>b, <1>0, <1>q DEF Deletes, CleanEvents
    <3>7. CleanList'
      BY <3>b, <1>0 DEF Deletes, CleanList
    <3> QED
      BY <3>1, <3>2, <3>3, <3>4, <3>5, <3>6, <3>7
  <2> QED
    BY <2>9, <2>8, <2>7, <2>6, <2>5, <2>4, <2>3, <2>2, <2>1 DEF VifCore
<1> QED
  BY <1>3, <1>4, <1>5 DEF VifInv

\* The firmware removes the interface and says so.
LEMMA DelRequestKeeps == ASSUME VifInv, DelRequest PROVE VifInv'
<1>1. VifTypes /\ ~fault /\ VifCore /\ NoFault
  BY DEF At, DelRequest, VifInv
<1>2. /\ UserShape /\ Listing /\ Pairing /\ News /\ Told
      /\ Belatedly /\ OneLate /\ Follows /\ Clean
  BY <1>1 DEF VifCore
<1>a. user.at = "del" /\ user.v \in Ids
  BY <1>2 DEF UserShape, DelRequest, At
<1>b. Target \in Ids /\ ifp[Target].live
  BY <1>a, <1>2, <1>1
    DEF Mine, Target, Usable, DelRequest, Deleting, UserShape, Vifs, VifTypes
<1>c. ifp[Target].slot \in Slots /\ iflist[ifp[Target].slot] = Target
  BY <1>2, <1>a, <1>b DEF Listing, Leaving
<1>d. PICK z \in Ids, t \in Slots : z = Target /\ t = ifp[Target].slot
  BY <1>b, <1>c
<1>g. PICK y \in Ids : y = fwif[t] /\ (vif[user.v].kind # "net" => y = z)
  BY <1>1, <1>d DEF VifTypes, DelRequest, InFirmware, Mine
<1>h. queue \in Seq(Events) /\ queue' = Append(queue, [act |-> "del", slot |-> t, id |-> y])
  BY <1>1, <1>d, <1>g DEF VifTypes, DelRequest
<1>e. PICK e \in Events : e = [act |-> "del", slot |-> t, id |-> y] /\ queue' = Append(queue, e)
  BY <1>h DEF Events
<1>f. /\ queue' \in Seq(Events)
      /\ \A s \in Slots, x \in Ids :
           /\ x \in Comes'[s] <=> x \in Comes[s] \/ (e.act = "add" /\ e.slot = s /\ e.id = x)
           /\ x \in Leaves'[s] <=> x \in Leaves[s] \/ (e.act = "del" /\ e.slot = s /\ e.id = x)
           /\ x \in Latest'[s] <=> IF e.slot = s /\ e.act # "change"
                                   THEN e.act = "add" /\ e.id = x ELSE x \in Latest[s]
      /\ \A s \in Slots : s \in Asked' <=> s \in Asked \/ (e.slot = s /\ e.act # "change")
      /\ \A s \in Slots :
           e.act # "add" /\ (s \in Finals \/ Leaves[s] = {}) => s \in Finals'
      /\ Changing' <=> Changing \/ e.act = "change"
      /\ Once /\ (e.act = "add" => \A s \in Slots : e.id \notin Comes[s]) => Once'
      /\ Single /\ (e.act = "change" => ~Changing) => Single'
  <2>1. queue \in Seq(Events)
    BY <1>1 DEF VifTypes
  <2> QED
    BY <2>1, <1>e, QueueGrows
<1>q. e.act = "del" /\ e.slot = t /\ e.id = y /\ e.slot \in Slots /\ e.id \in Ids
  BY <1>e DEF Events
<1>x. /\ user.at = "del" /\ user'.at = "delwait" /\ user'.v = user.v /\ user'.i = user.i /\ user'.ok = user.ok
      /\ Target' = Target /\ Target = z /\ iflist[t] = z /\ ifp[z].slot = t /\ fwif[t] = y
      /\ fwif' = [fwif EXCEPT ![t] = NoId]
      /\ UNCHANGED <<vif, ifp, iflist, armed, action, conn, p2pdev, setup, old, wk, n, timeouts, unasked, stray, late, fault>>
  BY <1>g, <1>d, <1>c, <1>a, <1>1
    DEF counts, p2p, event, objects, Mine, Target, DelRequest, VifTypes
<1>3. VifTypes'
  <2>1. /\ vif' \in [Ids -> Vifs]
        /\ ifp' \in [Ids -> Ifps]
        /\ iflist' \in [Slots -> Ids \cup {NoId}]
        /\ armed' \in Ids \cup {NoId}
        /\ action' \in {"none", "add", "del", "change"}
        /\ conn' \in Ids \cup {NoId}
        /\ p2pdev' \in Ids \cup {NoId}
        /\ setup' \in BOOLEAN
        /\ old' \in BOOLEAN
        /\ wk' \in [at : {"idle", "check", "remove"}, i : Ids \cup {NoId}]
        /\ n' \in Nat
        /\ timeouts' \in Nat
        /\ fails' \in Nat
        /\ unasked' \in Nat
        /\ stray' \in BOOLEAN
        /\ late' \in BOOLEAN
        /\ fault' \in BOOLEAN
    BY <1>x, <1>1 DEF counts, DelRequest, VifTypes
  <2>2. fwif' \in [Slots -> Ids \cup {NoId}]
    BY <1>x, <1>1 DEF VifTypes
  <2>3. queue' \in Seq(Events)
    BY <1>f
  <2>4. user' \in [at : {"idle", "add", "addwait", "adddone", "attach", "del", "delwait", "remove",
                         "delend", "change", "chwait"},
                   v : Ids \cup {NoId}, i : Ids \cup {NoId}, ok : BOOLEAN]
    BY <1>x, <1>f, <1>2, <1>1, VifAssumption
      DEF counts, p2p, event, objects, InFirmware, Target, Mine, NoNdev, Usable, At,
          DelRequest, Ifps, Vifs, UserShape, VifTypes
  <2> QED
    BY <2>1, <2>2, <2>3, <2>4 DEF VifTypes
<1>4. NoFault'
  BY <1>1, <1>f, <1>x DEF VifTypes, NoFault
<1>5. ASSUME ~fault' PROVE VifCore'
  <2>d. Sound' => Sound
    <3> SUFFICES ASSUME Sound', NEW x \in Ids, ifp[x].vif # NoId,
                        \/ ~vif[ifp[x].vif].live /\ (Pending(x, {"check", "remove"}) \/ Meets(x) \/ Leaving(x))
                        \/ ~Leaving(x) /\ Freeing(ifp[x].vif) /\ Pending(x, {"check"})
                 PROVE  Doomed'
      BY <1>1, <1>x DEF Sound, Doomed, Accidents, VifTypes
    <3>1. ifp[x].live /\ iflist[ifp[x].slot] = x => ifp[x].slot \in Slots
      BY <1>2 DEF Listing
    <3> QED
      BY <1>x, <1>f, <3>1 DEF Leaving, Freeing, Meets, Pending, Doomed
  <2>1. UserShape'
    BY <1>x, <1>2 DEF Deleting, Adding, UserShape
  <2>2. Listing'
    <3>1. (\A s \in Slots : iflist[s] # NoId => ifp[iflist[s]].live /\ ifp[iflist[s]].slot = s)'
      BY <1>x, <1>2 DEF Listing
    <3>2. (\A i \in Ids : ifp[i].live =>
               ifp[i].slot \in Slots /\ (iflist[ifp[i].slot] = i \/ Leaving(i)))'
      BY <1>x, <1>2 DEF Leaving, Listing
    <3>3. (\A i \in Ids : ifp[i].reg => ifp[i].live /\ vif[i].kind # "dev")'
      BY <1>x, <1>2 DEF Listing
    <3>4. (\A i \in Ids : ~ifp[i].live => ifp[i].vif = NoId)'
      BY <1>x, <1>2 DEF Listing
    <3> QED
      BY <3>1, <3>2, <3>3, <3>4 DEF Listing
  <2>3. Pairing'
    <3> SUFFICES ASSUME NEW v \in Ids PROVE (IF ~vif[v].live THEN vif[v].ifp = NoId
        ELSE IF vif[v].ifp = NoId THEN (Adding \/ user.at = "attach") /\ user.v = v
        ELSE ifp[vif[v].ifp].live /\ ifp[vif[v].ifp].vif = v)'
      BY DEF Pairing
    <3> QED
      BY <1>x, <1>2 DEF Adding, Pairing
  <2>4. News'
    <3>1. (\A i \in Ids : i > n => Fresh(i) /\ ~vif[i].live)'
      BY <1>x, <1>2 DEF Leaving, Fresh, News
    <3>2. (\A s \in Slots, x \in Ids : x \in Comes[s] =>
               x <= n /\ Fresh(x) /\ (user.at = "add" => x # user.v))'
      BY <1>x, <1>f, <1>q, <1>2 DEF Leaving, Fresh, News
    <3>3. (Once)'
      BY <1>f, <1>q, <1>2 DEF News
    <3>4. (user.at = "add" => Fresh(user.v))'
      BY <1>x
    <3>5. (\A i \in Ids : ifp[i].vif # NoId => ifp[i].vif <= n)'
      BY <1>x, <1>2 DEF News
    <3>6. (\A s \in Slots : fwif[s] # NoId => fwif[s] <= n)'
      BY <1>x, <1>2 DEF News
    <3> QED
      BY <3>1, <3>2, <3>3, <3>4, <3>5, <3>6 DEF News
  <2>5. Told'
    <3>1. (\A s \in Slots, x \in Ids : x \in Comes[s] => (x \in Latest[s] <=> fwif[s] = x))'
      BY <1>x, <1>f, <1>q, <1>2, <1>1, VifAssumption DEF Told, VifTypes
    <3>2. (\A s \in Slots : s \in Asked /\ fwif[s] # NoId => fwif[s] \in Comes[s])'
      <4> SUFFICES ASSUME NEW s \in Slots, s \in Asked', fwif'[s] # NoId
                   PROVE  fwif'[s] \in Comes'[s]
        OBVIOUS
      <4>1. s # t /\ s \in Asked /\ fwif'[s] = fwif[s] /\ fwif[s] \in Ids
        BY <1>1, <1>q, <1>f, <1>x DEF VifTypes
      <4> QED
        BY <4>1, <1>2, <1>q, <1>f DEF Told
    <3>3. (\A s \in Slots : wk.at # "idle" /\ iflist[s] = wk.i => fwif[s] # wk.i)'
      BY <1>x, <1>2, VifAssumption DEF Told
    <3> QED
      BY <3>1, <3>2, <3>3 DEF Told
  <2>6. Belatedly'
    <3>1. Belated' => Belated
      BY <1>q, <1>f, <1>x DEF Belated
    <3>2. \A s \in Slots : ~Deletes(s)
      BY <1>x DEF Deletes
    <3>3. ASSUME Belated, Sound PROVE Leaves[t] = {}
      BY <3>2, <3>3, <1>2, <1>x, VifAssumption DEF Belatedly, Leaves
    <3>4. Deletes(t)'
      BY <1>x DEF Deletes
    <3> QED
      BY VifAssumption, <1>x, <1>f, <1>q, <1>2, <2>d, <3>4, <3>3, <3>2, <3>1 DEF Belatedly
  <2>7. OneLate'
    BY <1>2, <1>q, <1>f, <1>x DEF VifTypes, OneLate, Late
  <2>8. Follows'
    <3>1. ASSUME Sound', NEW s \in Slots, s \notin Asked', iflist'[s] # fwif'[s] PROVE Removing(s)'
      BY <2>d, <1>x, <1>f, <1>q, <1>2, <3>1 DEF Deletes, Removing, Follows
    <3>2. ASSUME Sound', NEW s \in Slots, Deletes(s)', iflist'[s] # NoId, fwif'[s] = iflist'[s]
          PROVE  (vif[user.v].kind # "net")' /\ Crossed'
      <4>1. iflist[s] = z
        BY <3>2, <1>x DEF Deletes
      <4>2. s = t
        BY <4>1, <1>2, <1>x, VifAssumption DEF Listing
      <4> QED
        BY <4>2, <3>2, <1>x, <1>1 DEF VifTypes
    <3> QED
      BY <3>1, <3>2 DEF Follows
  <2>9. Clean'
    <3> SUFFICES ASSUME Accidents' = 0 PROVE
            /\ (\A i \in Ids : ifp[i].live => ifp[i].vif = i)'
            /\ (\A v \in Ids : vif[v].live => vif[v].ifp \in {v, NoId})'
            /\ CleanUser' /\ CleanWorker' /\ Single' /\ CleanEvents' /\ CleanList'
      BY DEF Clean
    <3>a. Accidents = 0
      BY DEF counts, DelRequest, Accidents
    <3>b. /\ \A i \in Ids : ifp[i].live => ifp[i].vif = i
          /\ \A v \in Ids : vif[v].live => vif[v].ifp \in {v, NoId}
          /\ CleanUser /\ CleanWorker /\ Single /\ CleanEvents /\ CleanList
      BY <3>a, <1>2 DEF Clean
    <3>1. (\A i \in Ids : ifp[i].live => ifp[i].vif = i)'
      BY <3>b, <1>x
    <3>2. (\A v \in Ids : vif[v].live => vif[v].ifp \in {v, NoId})'
      BY <3>b, <1>x
    <3>3. CleanUser'
      <4>1. (Changing => user.at = "chwait" /\ action # "change")'
        BY <3>b, <1>x, <1>f, <1>q DEF CleanUser
      <4>2. (action = "change" => user.at = "chwait")'
        BY <3>b, <1>x DEF CleanUser
      <4>3. (Adding => vif[user.v].live)'
        BY <1>x DEF Adding
      <4>4. (user.at = "addwait" /\ action = "add" => Own(user.v))'
        BY <1>x
      <4>5. (user.at = "adddone" /\ user.ok => Own(user.v))'
        BY <1>x
      <4>6. (user.at = "attach" => Own(user.v))'
        BY <1>x
      <4>7. (Deleting => Own(user.v) /\ Target = user.v)'
        BY <3>b, <1>x DEF Deleting, Own, CleanUser
      <4>8. (user.at \in {"change", "chwait"} => Own(user.v))'
        BY <1>x
      <4>9. (user.at = "delend" => user.i = user.v /\ (user.ok => Own(user.v)))'
        BY <1>x
      <4>10. (conn # NoId =>
                  Own(conn) /\ vif[conn].kind = "p2p" /\ (Adding \/ user.at = "attach" => conn # user.v))'
        BY <3>b, <1>x DEF Adding, Own, CleanUser
      <4> QED
        BY <4>10, <4>9, <4>8, <4>7, <4>6, <4>5, <4>4, <4>3, <4>2, <4>1 DEF CleanUser
    <3>4. CleanWorker'
      BY <3>b, <1>x DEF Leaving, CleanWorker
    <3>5. Single'
      BY VifAssumption, <1>1, <1>2, <1>q, <1>f, <1>x, <3>b
    <3>6. CleanEvents'
      <4>1. fwif[t] = z
        BY <3>b, <1>x, <1>d, VifAssumption DEF CleanList, Deletes
      <4>2. \A s \in Slots : ~Deletes(s) /\ (Deletes(s)' <=> iflist[s] = z)
        BY <1>x DEF Deletes
      <4> QED
        BY <1>x, <1>f, <1>q, <3>b, <4>2, <4>1 DEF CleanEvents
    <3>7. CleanList'
      BY <3>b, <1>x DEF Deletes, CleanList
    <3> QED
      BY <3>1, <3>2, <3>3, <3>4, <3>5, <3>6, <3>7
  <2> QED
    BY <2>9, <2>8, <2>7, <2>6, <2>5, <2>4, <2>3, <2>2, <2>1 DEF VifCore
<1> QED
  BY <1>3, <1>4, <1>5 DEF VifInv

\* The command for that fails, or is not sent.
LEMMA DelRefusedKeeps == ASSUME VifInv, DelRefused PROVE VifInv'
<1>1. VifTypes /\ ~fault /\ VifCore /\ NoFault
  BY DEF At, DelRefused, VifInv
<1>2. /\ UserShape /\ Listing /\ Pairing /\ News /\ Told
      /\ Belatedly /\ OneLate /\ Follows /\ Clean
  BY <1>1 DEF VifCore
<1>q. /\ Comes' = Comes /\ Leaves' = Leaves /\ Latest' = Latest
      /\ Asked' = Asked /\ Finals' = Finals /\ Changing' = Changing
      /\ Once' = Once /\ Single' = Single /\ queue' = queue
  <2>1. queue' = queue
    BY DEF DelRefused
  <2> QED
    BY <2>1, QueueKept
<1>x. /\ user.at = "del" /\ Target' = Target /\ user'.v = user.v /\ user'.i = user.i /\ user'.ok = user.ok
      /\ user'.at = IF vif[user.v].kind = "dev" THEN "delwait" ELSE IF vif[user.v].kind = "net" THEN "delend" ELSE "remove"
      /\ stray' = (stray \/ (vif[user.v].kind # "net" /\ fwif[ifp[Target].slot] = Target))
      /\ UNCHANGED <<vif, ifp, iflist, fwif, n, wk, timeouts, unasked, armed, action, conn, p2pdev, setup, late, fault>>
  BY <1>1
    DEF Mine, Target, p2p, event, counts, objects, InFirmware, Otherwise, At, DelRefused,
        VifTypes
<1>y. ~user.ok /\ ~user'.ok
  BY <1>2, <1>x DEF UserShape
<1>3. VifTypes'
  <2>1. /\ vif' \in [Ids -> Vifs]
        /\ ifp' \in [Ids -> Ifps]
        /\ iflist' \in [Slots -> Ids \cup {NoId}]
        /\ armed' \in Ids \cup {NoId}
        /\ action' \in {"none", "add", "del", "change"}
        /\ conn' \in Ids \cup {NoId}
        /\ p2pdev' \in Ids \cup {NoId}
        /\ setup' \in BOOLEAN
        /\ fwif' \in [Slots -> Ids \cup {NoId}]
        /\ old' \in BOOLEAN
        /\ wk' \in [at : {"idle", "check", "remove"}, i : Ids \cup {NoId}]
        /\ n' \in Nat
        /\ timeouts' \in Nat
        /\ unasked' \in Nat
        /\ late' \in BOOLEAN
        /\ fault' \in BOOLEAN
    BY <1>x, <1>1 DEF DelRefused, VifTypes
  <2>2. queue' \in Seq(Events)
    BY <1>1, <1>q DEF VifTypes
  <2>3. user' \in [at : {"idle", "add", "addwait", "adddone", "attach", "del", "delwait", "remove",
                         "delend", "change", "chwait"},
                   v : Ids \cup {NoId}, i : Ids \cup {NoId}, ok : BOOLEAN]
    BY <1>y, <1>x, <1>2, <1>1, VifAssumption
      DEF counts, p2p, event, objects, Otherwise, Spare, Fails, InFirmware, Target, Mine,
          NoNdev, Usable, At, DelRefused, Ifps, Vifs, UserShape, VifTypes
  <2>4. fails' \in Nat
    BY <1>1 DEF VifTypes, DelRefused, Fails
  <2>5. stray' \in BOOLEAN
    BY <1>x
  <2> QED
    BY <2>1, <2>2, <2>3, <2>4, <2>5 DEF VifTypes
<1>4. NoFault'
  BY <1>1, <1>x, <1>y DEF VifTypes, NoFault
<1>5. ASSUME ~fault' PROVE VifCore'
  <2>d. Sound' => Sound
    BY <1>x, <1>q, <1>1
      DEF VifTypes, Leaving, Freeing, Meets, Pending, Accidents, Doomed, Sound
  <2>1. UserShape'
    BY <1>x, <1>2 DEF Deleting, Adding, UserShape
  <2>2. Listing'
    BY <1>x, <1>2 DEF Leaving, Listing
  <2>3. Pairing'
    BY <1>2, <1>x DEF Pairing, Adding
  <2>4. News'
    <3>1. (\A i \in Ids : i > n => Fresh(i) /\ ~vif[i].live)'
      BY <1>y, <1>x, <1>2 DEF Leaving, Fresh, News
    <3>2. (\A s \in Slots, x \in Ids : x \in Comes[s] =>
               x <= n /\ Fresh(x) /\ (user.at = "add" => x # user.v))'
      BY <1>2, <1>q, <1>x, <1>y DEF News, Fresh, Leaving
    <3>3. (Once)'
      BY <1>q, <1>2 DEF News
    <3>4. (user.at = "add" => Fresh(user.v))'
      BY <1>x
    <3>5. (\A i \in Ids : ifp[i].vif # NoId => ifp[i].vif <= n)'
      BY <1>x, <1>2 DEF News
    <3>6. (\A s \in Slots : fwif[s] # NoId => fwif[s] <= n)'
      BY <1>x, <1>2 DEF News
    <3> QED
      BY <3>1, <3>2, <3>3, <3>4, <3>5, <3>6 DEF News
  <2>5. Told'
    <3>1. (\A s \in Slots, x \in Ids : x \in Comes[s] => (x \in Latest[s] <=> fwif[s] = x))'
      BY <1>2, <1>q, <1>x DEF Told
    <3>2. (\A s \in Slots : s \in Asked /\ fwif[s] # NoId => fwif[s] \in Comes[s])'
      BY <1>x, <1>q, <1>2 DEF Told
    <3>3. (\A s \in Slots : wk.at # "idle" /\ iflist[s] = wk.i => fwif[s] # wk.i)'
      BY <1>x, <1>2 DEF Told
    <3> QED
      BY <3>1, <3>2, <3>3 DEF Told
  <2>6. Belatedly'
    <3>1. Belated' => Belated
      BY <1>q, <1>x DEF Belated
    <3>2. \A s \in Slots : ~Deletes(s)
      BY <1>x DEF Deletes
    <3> QED
      BY <3>1, <3>2, <2>d, <1>2, <1>q, <1>x DEF Belatedly
  <2>7. OneLate'
    BY <1>2, <1>q, <1>x DEF VifTypes, OneLate, Late
  <2>8. Follows'
    <3>1. ASSUME Sound', NEW s \in Slots, s \notin Asked', iflist'[s] # fwif'[s] PROVE Removing(s)'
      BY <2>d, <1>x, <1>q, <1>2, <3>1 DEF Deletes, Removing, Follows
    <3>2. ASSUME Sound', NEW s \in Slots, Deletes(s)', iflist'[s] # NoId, fwif'[s] = iflist'[s]
          PROVE  (vif[user.v].kind # "net")' /\ Crossed'
      <4>1. ifp[Target].slot = s
        BY <3>2, <1>2, <1>x DEF Deletes, Listing
      <4> QED
        BY <4>1, <3>2, <1>1, <1>x DEF Deletes, VifTypes, Sound
    <3> QED
      BY <3>1, <3>2 DEF Follows
  <2>9. Clean'
    <3> SUFFICES ASSUME Accidents' = 0 PROVE
            /\ (\A i \in Ids : ifp[i].live => ifp[i].vif = i)'
            /\ (\A v \in Ids : vif[v].live => vif[v].ifp \in {v, NoId})'
            /\ CleanUser' /\ CleanWorker' /\ Single' /\ CleanEvents' /\ CleanList'
      BY DEF Clean
    <3>a. Accidents = 0
      BY DEF DelRefused, Accidents
    <3>b. /\ \A i \in Ids : ifp[i].live => ifp[i].vif = i
          /\ \A v \in Ids : vif[v].live => vif[v].ifp \in {v, NoId}
          /\ CleanUser /\ CleanWorker /\ Single /\ CleanEvents /\ CleanList
      BY <3>a, <1>2 DEF Clean
    <3>1. (\A i \in Ids : ifp[i].live => ifp[i].vif = i)'
      BY <3>b, <1>x
    <3>2. (\A v \in Ids : vif[v].live => vif[v].ifp \in {v, NoId})'
      BY <3>b, <1>x
    <3>3. CleanUser'
      <4>1. (Changing => user.at = "chwait" /\ action # "change")'
        BY <3>b, <1>x, <1>q DEF CleanUser
      <4>2. (action = "change" => user.at = "chwait")'
        BY <3>b, <1>x DEF CleanUser
      <4>3. (Adding => vif[user.v].live)'
        BY <1>x DEF Adding
      <4>4. (user.at = "addwait" /\ action = "add" => Own(user.v))'
        BY <1>x
      <4>5. (user.at = "adddone" /\ user.ok => Own(user.v))'
        BY <1>x
      <4>6. (user.at = "attach" => Own(user.v))'
        BY <1>x
      <4>7. (Deleting => Own(user.v) /\ Target = user.v)'
        BY <3>b, <1>x DEF Deleting, Own, CleanUser
      <4>8. (user.at \in {"change", "chwait"} => Own(user.v))'
        BY <1>x
      <4>9. (user.at = "delend" => user.i = user.v /\ (user.ok => Own(user.v)))'
        BY <3>b, <1>x, <1>2 DEF Deleting, UserShape
      <4>10. (conn # NoId =>
                  Own(conn) /\ vif[conn].kind = "p2p" /\ (Adding \/ user.at = "attach" => conn # user.v))'
        BY <3>b, <1>x DEF Adding, Own, CleanUser
      <4> QED
        BY <4>10, <4>9, <4>8, <4>7, <4>6, <4>5, <4>4, <4>3, <4>2, <4>1 DEF CleanUser
    <3>4. CleanWorker'
      BY <3>b, <1>x DEF Leaving, CleanWorker
    <3>5. Single'
      BY VifAssumption, <1>1, <1>2, <1>q, <1>x, <1>y, <3>b
    <3>6. CleanEvents'
      BY <3>b, <1>q, <1>x DEF CleanEvents, Deletes
    <3>7. CleanList'
      BY <3>b, <1>x DEF Deletes, CleanList
    <3> QED
      BY <3>1, <3>2, <3>3, <3>4, <3>5, <3>6, <3>7
  <2> QED
    BY <2>9, <2>8, <2>7, <2>6, <2>5, <2>4, <2>3, <2>2, <2>1 DEF VifCore
<1> QED
  BY <1>3, <1>4, <1>5 DEF VifInv

\* The removal is met, or times out.
LEMMA DelWaitsKeeps == ASSUME VifInv, NEW ok \in BOOLEAN, DelWaits(ok) PROVE VifInv'
<1>1. VifTypes /\ ~fault /\ VifCore /\ NoFault
  BY DEF NoNdev, At, DelWaits, VifInv
<1>2. /\ UserShape /\ Listing /\ Pairing /\ News /\ Told
      /\ Belatedly /\ OneLate /\ Follows /\ Clean
  BY <1>1 DEF VifCore
<1>q. /\ Comes' = Comes /\ Leaves' = Leaves /\ Latest' = Latest
      /\ Asked' = Asked /\ Finals' = Finals /\ Changing' = Changing
      /\ Once' = Once /\ Single' = Single /\ queue' = queue
  <2>1. queue' = queue
    BY DEF DelWaits
  <2> QED
    BY <2>1, QueueKept
<1>0. /\ user.at = "delwait" /\ timeouts' \in {timeouts, timeouts + 1}
      /\ user' = [user EXCEPT !.at = IF ok THEN "remove" ELSE IF vif[user.v].kind = "net" THEN "delend" ELSE "remove"]
      /\ ok => action = "del" /\ timeouts' = timeouts
      /\ ~ok => action # "del"
      /\ ~ok /\ vif[user.v].kind # "dev" => timeouts' = timeouts + 1
      /\ vif' = vif /\ ifp' = ifp /\ iflist' = iflist /\ armed' = armed
      /\ action' = action /\ conn' = conn /\ p2pdev' = p2pdev /\ setup' = setup
      /\ fwif' = fwif /\ old' = old /\ wk' = wk /\ n' = n /\ fails' = fails
      /\ unasked' = unasked /\ stray' = stray /\ late' = late /\ fault' = fault
  BY DEF DelWaits, At, NoNdev, Mine, Wait, Otherwise, objects, event, p2p
<1>x. /\ user.at = "delwait" /\ UNCHANGED <<vif, ifp, iflist, fwif, action, wk, unasked, stray>>
      /\ user'.v = user.v /\ user'.i = user.i /\ user'.ok = user.ok /\ Target' = Target
  BY DEF DelWaits, At, objects, event, Target, Mine
<1>y. \/ timeouts' = timeouts /\ user'.at = "remove"
      \/ /\ timeouts' = timeouts + 1 /\ action # "del"
         /\ user'.at = IF vif[user.v].kind = "net" THEN "delend" ELSE "remove"
  BY <1>1 DEF VifTypes, DelWaits, Wait, NoNdev, Otherwise, Mine
<1>3. VifTypes'
  <2>1. /\ vif' \in [Ids -> Vifs]
        /\ ifp' \in [Ids -> Ifps]
        /\ iflist' \in [Slots -> Ids \cup {NoId}]
        /\ armed' \in Ids \cup {NoId}
        /\ action' \in {"none", "add", "del", "change"}
        /\ conn' \in Ids \cup {NoId}
        /\ p2pdev' \in Ids \cup {NoId}
        /\ setup' \in BOOLEAN
        /\ fwif' \in [Slots -> Ids \cup {NoId}]
        /\ old' \in BOOLEAN
        /\ wk' \in [at : {"idle", "check", "remove"}, i : Ids \cup {NoId}]
        /\ n' \in Nat
        /\ fails' \in Nat
        /\ unasked' \in Nat
        /\ stray' \in BOOLEAN
        /\ late' \in BOOLEAN
        /\ fault' \in BOOLEAN
    BY <1>1, <1>0 DEF VifTypes
  <2>2. queue' \in Seq(Events)
    BY <1>1, <1>q DEF VifTypes
  <2>3. user' \in [at : {"idle", "add", "addwait", "adddone", "attach", "del", "delwait", "remove",
                         "delend", "change", "chwait"},
                   v : Ids \cup {NoId}, i : Ids \cup {NoId}, ok : BOOLEAN]
    BY <1>1, <1>0 DEF VifTypes, UserShape, Vifs, Ifps
  <2>4. timeouts' \in Nat
    BY <1>0, <1>2, <1>1, VifAssumption DEF VifTypes
  <2> QED
    BY <2>1, <2>2, <2>3, <2>4 DEF VifTypes
<1>4. NoFault'
  BY <1>1, <1>0 DEF VifTypes, NoFault
<1>5. ASSUME ~fault' PROVE VifCore'
  <2>d. Sound' => Sound
    <3>1. CASE timeouts' = timeouts + 1
      <4>1. Sound' => Accidents = 0 /\ ~stray
        BY <3>1, <1>x, <1>1 DEF Sound, Accidents, VifTypes
      <4> QED
        BY <4>1, <1>1, CleanSound DEF Sound
    <3>2. CASE timeouts' = timeouts /\ user'.at = "remove"
      BY <3>2, <1>x, <1>q DEF Sound, Doomed, Accidents, Pending, Meets, Freeing, Leaving
    <3> QED
      BY <3>1, <3>2, <1>y
  <2>1. UserShape'
    BY <1>0, <1>q, <1>2 DEF Deleting, Adding, UserShape, VifTypes
  <2>2. Listing'
    BY <1>0, <1>q, <1>2, <1>1, VifAssumption DEF Leaving, Listing
  <2>3. Pairing'
    BY <1>2, <1>0 DEF Pairing, Adding
  <2>4. News'
    BY <1>2, <1>q, <1>0 DEF News, Fresh, Leaving, UserShape
  <2>5. Told'
    BY VifAssumption, <1>1, <1>2, <1>q, <1>0 DEF VifTypes, Told
  <2>6. Belatedly'
    <3> SUFFICES ASSUME Belated' PROVE
            /\ timeouts' >= 1
            /\ Sound' =>
                 /\ (\A s \in Slots, x \in Ids :
                      /\ x \in Leaves[s] => iflist[s] = NoId \/ (Deletes(s) /\ s \in Finals)
                      /\ x \in Comes[s] => iflist[s] = NoId /\ fwif[s] = x)'
                 /\ (\A s \in Slots :
                      /\ s \in Asked \/ iflist[s] = fwif[s]
                      /\ wk.at # "idle" => iflist[s] # wk.i)'
      BY DEF Belatedly
    <3>p. Belated /\ (Sound' => timeouts' = timeouts /\ user'.at = "remove" /\ Sound)
      <4>1. Belated
        BY <1>x, <1>y, <1>q DEF Belated
      <4> QED
        BY <4>1, <1>x, <1>y, <1>1, <1>2, <2>d DEF Belatedly, Sound, Accidents, VifTypes
    <3>1. timeouts' >= 1
      BY <1>1, <1>2, <1>q, <1>0 DEF VifTypes, Belatedly, Belated
    <3>2. ASSUME Sound', NEW s \in Slots, NEW x \in Ids, x \in Leaves'[s]
          PROVE  iflist'[s] = NoId \/ (Deletes(s)' /\ s \in Finals')
      BY <3>p, <3>2, <1>q, <1>x, <1>2 DEF Belatedly, Deletes
    <3>3. ASSUME Sound', NEW s \in Slots, NEW x \in Ids, x \in Comes'[s]
          PROVE  iflist'[s] = NoId /\ fwif'[s] = x
      BY <3>3, <1>2, <1>q, <1>0, <2>d DEF Belatedly, Belated
    <3>4. ASSUME Sound', NEW s \in Slots, s \notin Asked' PROVE iflist'[s] = fwif'[s]
      BY <3>4, <1>2, <1>q, <1>0, <2>d DEF Belatedly, Belated
    <3>5. ASSUME Sound', NEW s \in Slots, wk'.at # "idle" PROVE iflist'[s] # wk'.i
      BY <3>5, <1>2, <1>q, <1>0, <2>d DEF Belatedly, Belated
    <3> QED
      BY <3>1, <3>2, <3>3, <3>4, <3>5
  <2>7. OneLate'
    BY <1>1, <1>2, <1>q, <1>x, <1>y DEF VifTypes, OneLate, Late
  <2>8. Follows'
    <3>1. ASSUME Sound', NEW s \in Slots, s \notin Asked', iflist'[s] # fwif'[s] PROVE Removing(s)'
      <4>1. Removing(s)
        BY <3>1, <1>q, <1>x, <1>2, <2>d DEF Follows
      <4>2. CASE timeouts' = timeouts /\ user'.at = "remove"
        BY <4>1, <4>2, <1>x DEF Removing, Deletes
      <4>3. CASE timeouts' = timeouts + 1 /\ action # "del"
        <5>1. Accidents = 0
          BY <4>3, <3>1, <1>x, <1>1 DEF Sound, Accidents, VifTypes
        <5> QED
          BY <5>1, <4>1, <4>3, <1>x, <1>y DEF Removing, Deletes
      <4> QED
        BY <4>2, <4>3, <1>y
    <3>2. ASSUME Sound', NEW s \in Slots, Deletes(s)', iflist'[s] # NoId, fwif'[s] = iflist'[s]
          PROVE  (vif[user.v].kind # "net")' /\ Crossed'
      BY <3>2, <1>2, <1>q, <1>0, <2>d DEF Follows, Deletes, Crossed, Pending, Target, Mine
    <3> QED
      BY <3>1, <3>2 DEF Follows
  <2>9. Clean'
    <3> SUFFICES ASSUME Accidents' = 0 PROVE
            /\ (\A i \in Ids : ifp[i].live => ifp[i].vif = i)'
            /\ (\A v \in Ids : vif[v].live => vif[v].ifp \in {v, NoId})'
            /\ CleanUser' /\ CleanWorker' /\ Single' /\ CleanEvents' /\ CleanList'
      BY DEF Clean
    <3>a. Accidents = 0
      BY <1>1 DEF Wait, Mine, DelWaits, Accidents, VifTypes
    <3>b. /\ \A i \in Ids : ifp[i].live => ifp[i].vif = i
          /\ \A v \in Ids : vif[v].live => vif[v].ifp \in {v, NoId}
          /\ CleanUser /\ CleanWorker /\ Single /\ CleanEvents /\ CleanList
      BY <3>a, <1>2 DEF Clean
    <3>1. (\A i \in Ids : ifp[i].live => ifp[i].vif = i)'
      BY VifAssumption, <1>1, <1>2, <1>q, <1>0, <3>b DEF VifTypes
    <3>2. (\A v \in Ids : vif[v].live => vif[v].ifp \in {v, NoId})'
      BY VifAssumption, <1>1, <1>2, <1>q, <1>0, <3>b DEF VifTypes
    <3>3. CleanUser'
      BY <1>q, <1>0, <3>b DEF CleanUser, Own, Adding, Deleting, Target, Mine
    <3>4. CleanWorker'
      BY <3>b, <1>0, <1>q DEF Leaving, CleanWorker
    <3>5. Single'
      BY VifAssumption, <1>1, <1>2, <1>q, <1>0, <3>b
    <3>6. CleanEvents'
      BY <1>1, <1>q, <1>0, <3>b DEF VifTypes, CleanEvents, Deletes, Accidents, Target, Mine
    <3>7. CleanList'
      BY <1>1, <1>0, <3>b DEF VifTypes, CleanList, Deletes, Accidents, Target, Mine
    <3> QED
      BY <3>1, <3>2, <3>3, <3>4, <3>5, <3>6, <3>7
  <2> QED
    BY <2>1, <2>2, <2>3, <2>4, <2>5, <2>6, <2>7, <2>8, <2>9 DEF VifCore
<1> QED
  BY <1>3, <1>4, <1>5 DEF VifInv

\* The user takes the interface off the list (brcmf_remove_interface).
LEMMA RemoveKeeps == ASSUME VifInv, Remove PROVE VifInv'
<1>1. VifTypes /\ ~fault /\ VifCore /\ NoFault
  BY DEF At, Remove, VifInv
<1>2. /\ UserShape /\ Listing /\ Pairing /\ News /\ Told
      /\ Belatedly /\ OneLate /\ Follows /\ Clean
  BY <1>1 DEF VifCore
<1>q. /\ Comes' = Comes /\ Leaves' = Leaves /\ Latest' = Latest
      /\ Asked' = Asked /\ Finals' = Finals /\ Changing' = Changing
      /\ Once' = Once /\ Single' = Single /\ queue' = queue
  <2>1. queue' = queue
    BY DEF Remove
  <2> QED
    BY <2>1, QueueKept
<1>x. /\ user.at = "remove" /\ user.v \in Ids /\ user.i \in Ids \cup {NoId}
      /\ user'.at = "delend" /\ user'.v = user.v /\ user'.i = Target
      /\ UNCHANGED <<armed, action, conn, setup, fwif, old, wk, n, timeouts, unasked, stray, late, fault>> /\ fails' = fails
  BY <1>2, <1>1 DEF counts, event, At, Remove, UserShape, VifTypes
<1>i. PICK z \in Ids \cup {NoId} : z = Target
  BY <1>1, <1>x DEF VifTypes, Vifs, Target, Mine
<1>u. /\ z # NoId => ifp[z].live /\ ifp[z].vif = user.v
      /\ vif[user.v].kind = "net" => z = user.i /\ z \in Ids /\ vif[z].kind # "dev"
      /\ vif[user.v].kind # "net" => vif[user.v].live /\ z = vif[user.v].ifp
  BY <1>x, <1>i, <1>2, <1>1
    DEF Mine, Target, Held, Remove, Pairing, Listing, Deleting, UserShape
<1>b. z # NoId => /\ z \in Ids /\ ifp[z].slot \in Slots /\ z \in Listed
                  /\ \A s \in Slots : iflist[s] = z <=> s = ifp[z].slot
  <2>1. z # NoId => z \in Ids /\ ifp[z].slot \in Slots /\ iflist[ifp[z].slot] = z
    BY <1>2, <1>u, <1>x DEF Listing, Leaving
  <2> QED
    BY <2>1, <1>2 DEF Listing, Listed
<1>c. z = NoId => z \notin Listed
  BY DEF Listed
<1>z. \/ z = NoId /\ vif' = vif /\ ifp' = ifp /\ iflist' = iflist /\ p2pdev' = p2pdev /\ ~user'.ok
      \/ /\ z # NoId /\ vif[z].kind = "dev" /\ vif[user.v].kind # "net" /\ p2pdev' = NoId /\ ~user'.ok
         /\ iflist' = [iflist EXCEPT ![ifp[z].slot] = NoId]
         /\ vif' \in [Ids -> Vifs] /\ ~vif'[user.v].live /\ vif'[user.v].ifp = NoId
         /\ \A u \in Ids : u # user.v => vif'[u] = vif[u]
         /\ \A u \in Ids : vif'[u].kind = vif[u].kind
         /\ ifp' \in [Ids -> Ifps] /\ ~ifp'[z].live /\ ifp'[z].vif = NoId /\ ~ifp'[z].reg
         /\ \A u \in Ids : u # z => ifp'[u] = ifp[u]
      \/ /\ z # NoId /\ vif[z].kind # "dev" /\ vif' = vif /\ p2pdev' = p2pdev /\ user'.ok
         /\ iflist' = [iflist EXCEPT ![ifp[z].slot] = NoId]
         /\ ifp' \in [Ids -> Ifps] /\ ~ifp'[z].reg
         /\ \A u \in Ids : u # z => ifp'[u] = ifp[u]
         /\ \A u \in Ids : ifp'[u].live = ifp[u].live /\ ifp'[u].slot = ifp[u].slot /\ ifp'[u].vif = ifp[u].vif
  <2>1. CASE z = NoId
    BY <2>1, <1>1, <1>c, <1>i DEF VifTypes, Remove
  <2>2. CASE z # NoId /\ vif[z].kind = "dev"
    <3>1. /\ iflist' = [iflist EXCEPT ![ifp[z].slot] = NoId] /\ p2pdev' = NoId /\ ~user'.ok
          /\ vif' = Detached(z, vif) /\ ifp' = [ifp EXCEPT ![z] = NoIf]
      BY <2>2, <1>1, <1>b, <1>i DEF VifTypes, Remove, NoNdev
    <3>2. vif' = Freed(user.v)
      BY <2>2, <3>1, <1>u, <1>x, VifAssumption DEF Detached, Freed
    <3>3. /\ vif' \in [Ids -> Vifs] /\ ~vif'[user.v].live /\ vif'[user.v].ifp = NoId
          /\ \A u \in Ids : u # user.v => vif'[u] = vif[u]
          /\ \A u \in Ids : vif'[u].kind = vif[u].kind
      BY <3>2, <1>1, <1>x, FreedFacts
    <3>4. ifp \in [Ids -> Ifps] /\ z \in Ids
      BY <2>2, <1>1 DEF VifTypes
    <3>5. /\ ifp' \in [Ids -> Ifps] /\ ~ifp'[z].live /\ ifp'[z].vif = NoId /\ ~ifp'[z].reg
          /\ \A u \in Ids : u # z => ifp'[u] = ifp[u]
      BY <3>1, <3>4, NoIfFacts
    <3> QED
      BY <2>2, <3>1, <3>3, <3>5, <1>u
  <2>3. CASE z # NoId /\ vif[z].kind # "dev"
    <3>1. /\ iflist' = [iflist EXCEPT ![ifp[z].slot] = NoId] /\ vif' = vif /\ p2pdev' = p2pdev /\ user'.ok
          /\ ifp' = [ifp EXCEPT ![z].reg = FALSE]
      BY <2>3, <1>1, <1>b, <1>i DEF VifTypes, Remove, NoNdev
    <3>4. ifp \in [Ids -> Ifps] /\ z \in Ids
      BY <2>3, <1>1 DEF VifTypes
    <3>5. /\ ifp' \in [Ids -> Ifps] /\ ~ifp'[z].reg
          /\ \A u \in Ids : u # z => ifp'[u] = ifp[u]
          /\ \A u \in Ids : ifp'[u].live = ifp[u].live /\ ifp'[u].slot = ifp[u].slot /\ ifp'[u].vif = ifp[u].vif
      <4>1. ifp' = WithReg(z, FALSE)
        BY <3>1 DEF WithReg
      <4> QED
        BY <3>4, <4>1, <1>1, RegFacts
    <3> QED
      BY <2>3, <3>1, <3>5
  <2> QED
    BY <2>1, <2>2, <2>3
<1>w. \A s \in Slots : /\ Deletes(s) <=> iflist[s] = z
                       /\ ~Deletes(s)'
                       /\ iflist'[s] = IF iflist[s] = z THEN NoId ELSE iflist[s]
  BY <1>1, <1>b, <1>i, <1>x, <1>z DEF VifTypes, Deletes
<1>3. VifTypes'
  <2>1. /\ armed' \in Ids \cup {NoId}
        /\ action' \in {"none", "add", "del", "change"}
        /\ conn' \in Ids \cup {NoId}
        /\ setup' \in BOOLEAN
        /\ fwif' \in [Slots -> Ids \cup {NoId}]
        /\ old' \in BOOLEAN
        /\ wk' \in [at : {"idle", "check", "remove"}, i : Ids \cup {NoId}]
        /\ n' \in Nat
        /\ timeouts' \in Nat
        /\ fails' \in Nat
        /\ unasked' \in Nat
        /\ stray' \in BOOLEAN
        /\ late' \in BOOLEAN
        /\ fault' \in BOOLEAN
    BY <1>x, <1>1 DEF VifTypes
  <2>2. vif' \in [Ids -> Vifs]
    BY <1>1, <1>z DEF VifTypes
  <2>3. ifp' \in [Ids -> Ifps]
    BY <1>1, <1>z DEF VifTypes
  <2>4. iflist' \in [Slots -> Ids \cup {NoId}]
    BY <1>z, <1>1 DEF VifTypes
  <2>5. p2pdev' \in Ids \cup {NoId}
    BY <1>z, <1>1 DEF VifTypes
  <2>6. queue' \in Seq(Events)
    BY <1>1, <1>q DEF VifTypes
  <2>7. user' \in [at : {"idle", "add", "addwait", "adddone", "attach", "del", "delwait", "remove",
                         "delend", "change", "chwait"},
                   v : Ids \cup {NoId}, i : Ids \cup {NoId}, ok : BOOLEAN]
    BY <1>w, <1>z, <1>b, <1>u, <1>i, <1>x, <1>2, <1>1, VifAssumption
      DEF counts, p2p, event, objects, NoIf, Detached, NoNdev, Listed, Target, Mine, Held,
          At, Remove, Ifps, Vifs, UserShape, VifTypes
  <2> QED
    BY <2>7, <2>6, <2>5, <2>4, <2>3, <2>2, <2>1 DEF VifTypes
<1>4. NoFault'
  BY <1>x, <1>1 DEF NoFault
<1>5. ASSUME ~fault' PROVE VifCore'
  <2>d. Sound' => Sound
    <3> SUFFICES ASSUME Sound', NEW x \in Ids, ifp[x].vif # NoId,
                        \/ ~vif[ifp[x].vif].live /\ (Pending(x, {"check", "remove"}) \/ Meets(x) \/ Leaving(x))
                        \/ ~Leaving(x) /\ Freeing(ifp[x].vif) /\ Pending(x, {"check"})
                 PROVE  Doomed'
      BY <1>1, <1>x DEF Sound, Doomed, Accidents, VifTypes
    <3>1. ifp[x].live /\ iflist[ifp[x].slot] = x => ifp[x].slot \in Slots
      BY <1>2 DEF Listing
    <3>2. /\ x = z => vif[user.v].kind = "net"
          /\ ~vif[ifp[x].vif].live /\ (x = z \/ Pending(x, {"check", "remove"}))
      BY <1>i, <1>u, <1>x, VifAssumption DEF Meets, Freeing, Leaving
    <3>3. ifp[x].vif \in Ids /\ ifp'[x].vif = ifp[x].vif /\ ~vif'[ifp[x].vif].live
      BY <3>2, <1>1, <1>x, <1>z DEF VifTypes, Ifps
    <3>4. CASE x = z
      BY VifAssumption, <1>z, <1>i, <1>x, <3>4, <3>3 DEF Leaving, Doomed
    <3>5. CASE x # z
      BY <1>w, <1>z, <1>q, <1>x, <3>5, <3>3, <3>2, <3>1 DEF Pending, Doomed
    <3> QED
      BY <3>4, <3>5
  <2>c. ASSUME Sound', NEW s \in Slots, iflist[s] = z, z # NoId PROVE fwif[s] # z
    <3> SUFFICES ASSUME fwif[s] = z PROVE FALSE
      OBVIOUS
    <3>1. vif[user.v].kind # "net" /\ Crossed
      BY <2>c, <2>d, <1>2, <1>w DEF Follows, Sound
    <3>2. PICK x \in Ids : x # z /\ ifp[x].vif = user.v /\ Pending(x, {"check"})
      BY <3>1, <1>i DEF Crossed
    <3>3. ifp[x].slot \in Slots /\ ifp'[x] = ifp[x] /\ iflist'[ifp[x].slot] = x
      BY <2>c, <3>2, <1>2, <1>z, <1>w DEF Listing, Pending
    <3>4. Pending(x, {"check"})' /\ Pending(x, {"check", "remove"})'
      BY <3>2, <3>3, <1>q, <1>x DEF Pending
    <3>5. CASE user'.ok
      <4>1. ifp'[z].vif = user.v /\ user'.i = z /\ ~Leaving(x)'
        BY <1>z, <1>x, <1>u, <1>i, <3>5, <3>2 DEF Leaving
      <4> QED
        BY VifAssumption, <1>x, <4>1, <3>5, <3>4, <3>3, <3>2, <2>c
          DEF Freeing, Doomed, Sound
    <3>6. CASE ~user'.ok
      <4>1. ~vif'[user.v].live
        BY <2>c, <3>6, <1>z
      <4> QED
        BY VifAssumption, <1>x, <4>1, <3>4, <3>3, <3>2, <2>c DEF Doomed, Sound
    <3> QED
      BY <3>5, <3>6
  <2>1. UserShape'
    <3>1. (armed = IF user.at \in {"idle", "attach"} THEN NoId ELSE user.v)'
      BY <1>x, <1>2 DEF UserShape
    <3>2. (user.at # "idle" => user.v \in Ids /\ user.v <= n)'
      BY <1>x, <1>2 DEF UserShape
    <3>3. (user.ok => user.at \in {"adddone", "attach", "delend"})'
      BY <1>x
    <3>4. (setup = (Adding /\ vif[user.v].kind = "dev"))'
      BY <1>x, <1>2 DEF Adding, UserShape
    <3>5. (Deleting /\ vif[user.v].kind = "net" =>
               user.i \in Ids /\ ifp[user.i].live /\ ifp[user.i].reg /\ ifp[user.i].vif = user.v)'
      BY <1>x DEF Deleting
    <3>6. (user.at = "delend" /\ user.ok =>
               /\ user.i \in Ids /\ vif[user.i].kind # "dev"
               /\ ifp[user.i].live => ~ifp[user.i].reg /\ iflist[ifp[user.i].slot] # user.i)'
      BY <1>w, <1>z, <1>b, <1>i, <1>x
    <3>7. (wk.at # "idle" =>
               /\ wk.i \in Ids
               /\ ifp[wk.i].live => iflist[ifp[wk.i].slot] \in {wk.i, NoId})'
      <4>1. ASSUME wk.at # "idle", ifp'[wk.i].live PROVE iflist'[ifp'[wk.i].slot] \in {wk.i, NoId}
        <5>1. wk.i \in Ids /\ ifp[wk.i].live /\ ifp'[wk.i].slot = ifp[wk.i].slot
          BY <4>1, <1>2, <1>z DEF UserShape
        <5>2. ifp[wk.i].slot \in Slots
          BY <5>1, <1>2 DEF Listing
        <5> QED
          BY <4>1, <5>1, <5>2, <1>2, <1>w DEF UserShape
      <4> QED
        BY <4>1, <1>2, <1>x DEF UserShape
    <3> QED
      BY <3>7, <3>6, <3>5, <3>4, <3>3, <3>2, <3>1 DEF UserShape
  <2>2. Listing'
    <3>1. (\A s \in Slots : iflist[s] # NoId => ifp[iflist[s]].live /\ ifp[iflist[s]].slot = s)'
      <4>1. ASSUME NEW s \in Slots, iflist'[s] # NoId
            PROVE  ifp'[iflist'[s]].live /\ ifp'[iflist'[s]].slot = s
        <5>1. iflist'[s] = iflist[s] /\ iflist[s] # z /\ iflist[s] \in Ids
          BY <4>1, <1>1, <1>w DEF VifTypes
        <5> QED
          BY <4>1, <5>1, <1>2, <1>z DEF Listing
      <4> QED
        BY <4>1
    <3>2. (\A i \in Ids : ifp[i].live =>
               ifp[i].slot \in Slots /\ (iflist[ifp[i].slot] = i \/ Leaving(i)))'
      BY <1>w, <1>z, <1>i, <1>x, <1>2 DEF Leaving, Listing
    <3>3. (\A i \in Ids : ifp[i].reg => ifp[i].live /\ vif[i].kind # "dev")'
      BY <1>z, <1>2 DEF Listing
    <3>4. (\A i \in Ids : ~ifp[i].live => ifp[i].vif = NoId)'
      BY <1>z, <1>2 DEF Listing
    <3> QED
      BY <3>1, <3>2, <3>3, <3>4 DEF Listing
  <2>3. Pairing'
    <3> SUFFICES ASSUME NEW v \in Ids PROVE (IF ~vif[v].live THEN vif[v].ifp = NoId
        ELSE IF vif[v].ifp = NoId THEN (Adding \/ user.at = "attach") /\ user.v = v
        ELSE ifp[vif[v].ifp].live /\ ifp[vif[v].ifp].vif = v)'
      BY DEF Pairing
    <3>1. /\ ~vif[v].live => vif[v].ifp = NoId
          /\ vif[v].live => vif[v].ifp \in Ids /\ ifp[vif[v].ifp].live /\ ifp[vif[v].ifp].vif = v
      BY <1>1, <1>2, <1>x DEF VifTypes, Vifs, Pairing, Adding
    <3>2. CASE vif'[v] = vif[v]
      <4>1. vif[v].live /\ vif[v].ifp = z => v = user.v
        BY <3>1, <1>u, VifAssumption
      <4>2. CASE vif[v].live /\ v # user.v
        <5>1. vif[v].ifp \in Ids /\ vif[v].ifp # z
          BY <3>1, <4>1, <4>2
        <5>2. ifp'[vif[v].ifp] = ifp[vif[v].ifp]
          BY <5>1, <1>z
        <5> QED
          BY <3>1, <3>2, <4>2, <5>1, <5>2, VifAssumption
      <4>3. CASE v = user.v
        BY <3>1, <3>2, <4>3, <1>z, VifAssumption
      <4>4. CASE ~vif[v].live
        BY <3>1, <3>2, <4>4
      <4> QED
        BY <4>2, <4>3, <4>4
    <3>3. CASE vif'[v] # vif[v]
      BY <3>3, <1>z
    <3> QED
      BY <3>2, <3>3
  <2>4. News'
    <3>1. (\A i \in Ids : i > n => Fresh(i) /\ ~vif[i].live)'
      BY <1>z, <1>u, <1>i, <1>x, <1>2 DEF Leaving, Fresh, News
    <3>2. (\A s \in Slots, x \in Ids : x \in Comes[s] =>
               x <= n /\ Fresh(x) /\ (user.at = "add" => x # user.v))'
      BY <1>z, <1>u, <1>i, <1>x, <1>q, <1>2 DEF Leaving, Fresh, News
    <3>3. (Once)'
      BY <1>q, <1>2 DEF News
    <3>4. (user.at = "add" => Fresh(user.v))'
      BY <1>x
    <3>5. (\A i \in Ids : ifp[i].vif # NoId => ifp[i].vif <= n)'
      BY <1>z, <1>x, <1>2 DEF Leaving, News
    <3>6. (\A s \in Slots : fwif[s] # NoId => fwif[s] <= n)'
      BY <1>x, <1>2 DEF News
    <3> QED
      BY <3>1, <3>2, <3>3, <3>4, <3>5, <3>6 DEF News
  <2>5. Told'
    <3>1. (\A s \in Slots, x \in Ids : x \in Comes[s] => (x \in Latest[s] <=> fwif[s] = x))'
      BY <1>2, <1>q, <1>x DEF Told
    <3>2. (\A s \in Slots : s \in Asked /\ fwif[s] # NoId => fwif[s] \in Comes[s])'
      BY <1>x, <1>q, <1>2 DEF Told
    <3>3. (\A s \in Slots : wk.at # "idle" /\ iflist[s] = wk.i => fwif[s] # wk.i)'
      <4>1. wk.at # "idle" => wk.i \in Ids
        BY <1>2 DEF UserShape
      <4> QED
        BY <4>1, <1>2, <1>x, <1>w, VifAssumption DEF Told
    <3> QED
      BY <3>1, <3>2, <3>3 DEF Told
  <2>6. Belatedly'
    <3>1. Belated' => Belated
      BY <1>q, <1>x DEF Belated
    <3>2. ASSUME Belated', Sound' PROVE
                 /\ (\A s \in Slots, x \in Ids :
                      /\ x \in Leaves[s] => iflist[s] = NoId \/ (Deletes(s) /\ s \in Finals)
                      /\ x \in Comes[s] => iflist[s] = NoId /\ fwif[s] = x)'
                 /\ (\A s \in Slots :
                      /\ s \in Asked \/ iflist[s] = fwif[s]
                      /\ wk.at # "idle" => iflist[s] # wk.i)'
      <4>1. wk.at # "idle" => wk.i \in Ids
        BY <1>2 DEF UserShape
      <4> QED
        BY VifAssumption, <1>w, <1>x, <1>q, <1>2, <2>d, <2>c, <3>2, <3>1, <4>1 DEF Belatedly
    <3> QED
      BY <3>1, <3>2, <1>2, <1>x DEF Belatedly
  <2>7. OneLate'
    BY <1>2, <1>q, <1>x DEF VifTypes, OneLate, Late
  <2>8. Follows'
    <3>1. ASSUME Sound', NEW s \in Slots, s \notin Asked', iflist'[s] # fwif'[s] PROVE Removing(s)'
      <4>1. CASE iflist[s] # z \/ z = NoId
        <5>1. Removing(s)
          BY <2>d, <1>x, <1>w, <1>q, <1>2, <4>1, <3>1 DEF Follows
        <5> QED
          BY <5>1, <4>1, <1>x, <1>w DEF Removing
      <4>2. CASE iflist[s] = z /\ z # NoId
        BY <2>d, <2>c, <1>x, <1>w, <1>q, <1>2, <3>1 DEF Removing, Follows
      <4> QED
        BY <4>1, <4>2
    <3>2. ASSUME Sound', NEW s \in Slots, Deletes(s)', iflist'[s] # NoId, fwif'[s] = iflist'[s]
          PROVE  (vif[user.v].kind # "net")' /\ Crossed'
      BY <3>2, <1>w
    <3> QED
      BY <3>1, <3>2 DEF Follows
  <2>9. Clean'
    <3> SUFFICES ASSUME Accidents' = 0 PROVE
            /\ (\A i \in Ids : ifp[i].live => ifp[i].vif = i)'
            /\ (\A v \in Ids : vif[v].live => vif[v].ifp \in {v, NoId})'
            /\ CleanUser' /\ CleanWorker' /\ Single' /\ CleanEvents' /\ CleanList'
      BY DEF Clean
    <3>a. Accidents = 0
      BY DEF counts, Remove, Accidents
    <3>b. /\ \A i \in Ids : ifp[i].live => ifp[i].vif = i
          /\ \A v \in Ids : vif[v].live => vif[v].ifp \in {v, NoId}
          /\ CleanUser /\ CleanWorker /\ Single /\ CleanEvents /\ CleanList
      BY <3>a, <1>2 DEF Clean
    <3>1. (\A i \in Ids : ifp[i].live => ifp[i].vif = i)'
      BY <3>b, <1>z
    <3>2. (\A v \in Ids : vif[v].live => vif[v].ifp \in {v, NoId})'
      BY <3>b, <1>z
    <3>3. CleanUser'
      <4>1. (Changing => user.at = "chwait" /\ action # "change")'
        BY <3>b, <1>x, <1>q DEF CleanUser
      <4>2. (action = "change" => user.at = "chwait")'
        BY <3>b, <1>x DEF CleanUser
      <4>3. (Adding => vif[user.v].live)'
        BY <1>x DEF Adding
      <4>4. (user.at = "addwait" /\ action = "add" => Own(user.v))'
        BY <1>x
      <4>5. (user.at = "adddone" /\ user.ok => Own(user.v))'
        BY <1>x
      <4>6. (user.at = "attach" => Own(user.v))'
        BY <1>x
      <4>7. (Deleting => Own(user.v) /\ Target = user.v)'
        BY <1>x DEF Deleting
      <4>8. (user.at \in {"change", "chwait"} => Own(user.v))'
        BY <1>x
      <4>9. (user.at = "delend" => user.i = user.v /\ (user.ok => Own(user.v)))'
        BY <3>b, <1>z, <1>x DEF Deleting, Own, CleanUser
      <4>10. (conn # NoId =>
                  Own(conn) /\ vif[conn].kind = "p2p" /\ (Adding \/ user.at = "attach" => conn # user.v))'
        BY <3>b, <1>z, <1>u, <1>x, <1>1 DEF Adding, Own, CleanUser, VifTypes
      <4> QED
        BY <4>10, <4>9, <4>8, <4>7, <4>6, <4>5, <4>4, <4>3, <4>2, <4>1 DEF CleanUser
    <3>4. CleanWorker'
      <4>1. user.v = z /\ z # NoId
        BY <3>b, <1>i, <1>x, VifAssumption DEF CleanUser, Deleting
      <4>2. wk.at # "idle" => wk.i \in Ids
        BY <1>2 DEF UserShape
      <4> QED
        BY <1>z, <1>i, <1>x, <3>b, <4>2, <4>1 DEF Leaving, CleanWorker
    <3>5. Single'
      BY <3>b, <1>q
    <3>6. CleanEvents'
      BY <3>b, <1>q, <1>x, <1>w DEF CleanEvents
    <3>7. CleanList'
      BY <3>b, <1>q, <1>x, <1>w DEF CleanList
    <3> QED
      BY <3>1, <3>2, <3>3, <3>4, <3>5, <3>6, <3>7
  <2> QED
    BY <2>9, <2>8, <2>7, <2>6, <2>5, <2>4, <2>3, <2>2, <2>1 DEF VifCore
<1> QED
  BY <1>3, <1>4, <1>5 DEF VifInv

\* The user gives the rtnl lock back, which frees interface and vif.
LEMMA DelEndKeeps == ASSUME VifInv, DelEnd PROVE VifInv'
<1>1. VifTypes /\ ~fault /\ VifCore /\ NoFault
  BY DEF At, DelEnd, VifInv
<1>2. /\ UserShape /\ Listing /\ Pairing /\ News /\ Told
      /\ Belatedly /\ OneLate /\ Follows /\ Clean
  BY <1>1 DEF VifCore
<1>q. /\ Comes' = Comes /\ Leaves' = Leaves /\ Latest' = Latest
      /\ Asked' = Asked /\ Finals' = Finals /\ Changing' = Changing
      /\ Once' = Once /\ Single' = Single /\ queue' = queue
  <2>1. queue' = queue
    BY DEF DelEnd
  <2> QED
    BY <2>1, QueueKept
<1>x. /\ user.at = "delend" /\ user.v \in Ids
      /\ armed' = NoId /\ action' = "none" /\ conn' = IF conn = user.v THEN NoId ELSE conn
      /\ user' = [at |-> "idle", v |-> NoId, i |-> NoId, ok |-> FALSE]
      /\ user'.at = "idle" /\ user'.v = NoId /\ user'.i = NoId /\ ~user'.ok
      /\ UNCHANGED <<iflist, p2pdev, setup, fwif, old, wk, n, timeouts, unasked, stray, late>> /\ fails' = fails
  BY <1>2 DEF counts, Idle, Arm, At, DelEnd, UserShape
<1>i. user.ok => user.i \in Ids /\ (ifp[user.i].vif # NoId => ifp[user.i].vif \in Ids)
  BY <1>1, <1>2, <1>x DEF VifTypes, Ifps, UserShape
<1>y. /\ ifp' \in [Ids -> Ifps]
      /\ \A x \in Ids : ~(user.ok /\ x = user.i) => ifp'[x] = ifp[x]
      /\ user.ok => ~ifp'[user.i].live /\ ifp'[user.i].vif = NoId /\ ~ifp'[user.i].reg
  <2>1. CASE user.ok
    <3>1. ifp' = [ifp EXCEPT ![user.i] = NoIf]
      BY <2>1 DEF DelEnd
    <3>2. user.i \in Ids /\ ifp \in [Ids -> Ifps]
      BY <2>1, <1>i, <1>1 DEF VifTypes
    <3> QED
      BY <2>1, <3>1, <3>2, NoIfFacts
  <2>2. CASE ~user.ok
    BY <2>2, <1>1 DEF VifTypes, DelEnd
  <2> QED
    BY <2>1, <2>2
<1>z. /\ vif' \in [Ids -> Vifs]
      /\ \A u \in Ids : vif'[u].kind = vif[u].kind
      /\ \A u \in Ids : ~(user.ok /\ u = ifp[user.i].vif) => vif'[u] = vif[u]
      /\ \A u \in Ids : user.ok /\ u = ifp[user.i].vif => ~vif'[u].live /\ vif'[u].ifp = NoId
  <2>1. CASE user.ok /\ ifp[user.i].vif # NoId
    <3>1. PICK w \in Ids : w = ifp[user.i].vif
      BY <2>1, <1>i
    <3>2. vif' = Freed(w)
      BY <2>1, <3>1 DEF DelEnd, Detached, Freed
    <3>3. /\ vif' \in [Ids -> Vifs] /\ ~vif'[w].live /\ vif'[w].ifp = NoId
          /\ \A u \in Ids : u # w => vif'[u] = vif[u]
          /\ \A u \in Ids : vif'[u].kind = vif[u].kind
      BY <3>2, <1>1, FreedFacts
    <3> QED
      BY <2>1, <3>1, <3>3
  <2>2. CASE ~(user.ok /\ ifp[user.i].vif # NoId)
    <3>1. vif' = vif
      BY <2>2 DEF DelEnd, Detached
    <3> QED
      BY <2>2, <3>1, <1>1, VifAssumption DEF VifTypes
  <2> QED
    BY <2>1, <2>2
<1>w. fault' = (user.ok /\ ifp[user.i].vif # NoId /\ ~vif[ifp[user.i].vif].live)
  BY DEF DelEnd, Dangling
<1>3. VifTypes'
  <2>1. /\ iflist' \in [Slots -> Ids \cup {NoId}]
        /\ p2pdev' \in Ids \cup {NoId}
        /\ setup' \in BOOLEAN
        /\ fwif' \in [Slots -> Ids \cup {NoId}]
        /\ old' \in BOOLEAN
        /\ wk' \in [at : {"idle", "check", "remove"}, i : Ids \cup {NoId}]
        /\ n' \in Nat
        /\ timeouts' \in Nat
        /\ fails' \in Nat
        /\ unasked' \in Nat
        /\ stray' \in BOOLEAN
        /\ late' \in BOOLEAN
    BY <1>1, <1>x, <1>i, <1>y, <1>z DEF VifTypes
  <2>2. vif' \in [Ids -> Vifs]
    BY <1>z
  <2>3. ifp' \in [Ids -> Ifps]
    BY <1>y
  <2>4. armed' \in Ids \cup {NoId}
    BY <1>x
  <2>5. action' \in {"none", "add", "del", "change"}
    BY <1>x
  <2>6. conn' \in Ids \cup {NoId}
    BY <1>x, <1>1 DEF VifTypes
  <2>7. queue' \in Seq(Events)
    BY <1>1, <1>q DEF VifTypes
  <2>8. user' \in [at : {"idle", "add", "addwait", "adddone", "attach", "del", "delwait", "remove",
                         "delend", "change", "chwait"},
                   v : Ids \cup {NoId}, i : Ids \cup {NoId}, ok : BOOLEAN]
    BY <1>x
  <2>9. fault' \in BOOLEAN
    BY <1>w
  <2> QED
    BY <2>9, <2>8, <2>7, <2>6, <2>5, <2>4, <2>3, <2>2, <2>1 DEF VifTypes
<1>4. NoFault'
  <2>1. ASSUME Accidents = 0, user.ok
        PROVE  Own(user.v) /\ user.i = user.v /\ ifp[user.v].vif = user.v
    BY <2>1, <1>2, <1>x DEF Clean, CleanUser, Own
  <2>2. Accidents = 0 => ~fault'
    BY <2>1, <1>w DEF Own
  <2> QED
    BY <1>1, <1>x, <2>2 DEF VifTypes, Accidents, NoFault
<1>5. ASSUME ~fault' PROVE VifCore'
  <2>d. Sound' => Sound
    <3> SUFFICES ASSUME Sound', NEW x \in Ids, ifp[x].vif # NoId,
                        \/ ~vif[ifp[x].vif].live /\ (Pending(x, {"check", "remove"}) \/ Meets(x) \/ Leaving(x))
                        \/ ~Leaving(x) /\ Freeing(ifp[x].vif) /\ Pending(x, {"check"})
                 PROVE  Doomed'
      BY <1>1, <1>x DEF Sound, Doomed, Accidents, VifTypes
    <3>1. ifp[x].live /\ iflist[ifp[x].slot] = x => ifp[x].slot \in Slots
      BY <1>2 DEF Listing
    <3>2. ~(user.ok /\ x = user.i)
      BY <1>5, <1>x, <1>w DEF Leaving
    <3>3. ifp'[x] = ifp[x] /\ ifp[x].vif \in Ids
      BY <3>2, <1>y, <1>1 DEF VifTypes, Ifps
    <3>4. ~vif'[ifp[x].vif].live
      BY <3>2, <3>3, <1>x, <1>z DEF Meets, Freeing, Leaving
    <3> QED
      BY <1>q, <1>x, <3>4, <3>3, <3>2 DEF Leaving, Meets, Pending, Doomed
  <2>1. UserShape'
    <3>1. (armed = IF user.at \in {"idle", "attach"} THEN NoId ELSE user.v)'
      BY <1>x
    <3>2. (user.at # "idle" => user.v \in Ids /\ user.v <= n)'
      BY <1>x
    <3>3. (user.ok => user.at \in {"adddone", "attach", "delend"})'
      BY <1>x
    <3>4. (setup = (Adding /\ vif[user.v].kind = "dev"))'
      BY <1>x, <1>2 DEF Adding, UserShape
    <3>5. (Deleting /\ vif[user.v].kind = "net" =>
               user.i \in Ids /\ ifp[user.i].live /\ ifp[user.i].reg /\ ifp[user.i].vif = user.v)'
      BY <1>x DEF Deleting
    <3>6. (user.at = "delend" /\ user.ok =>
               /\ user.i \in Ids /\ vif[user.i].kind # "dev"
               /\ ifp[user.i].live => ~ifp[user.i].reg /\ iflist[ifp[user.i].slot] # user.i)'
      BY <1>x
    <3>7. (wk.at # "idle" =>
               /\ wk.i \in Ids
               /\ ifp[wk.i].live => iflist[ifp[wk.i].slot] \in {wk.i, NoId})'
      BY <1>y, <1>x, <1>2 DEF UserShape
    <3> QED
      BY <3>7, <3>6, <3>5, <3>4, <3>3, <3>2, <3>1 DEF UserShape
  <2>2. Listing'
    <3>1. (\A s \in Slots : iflist[s] # NoId => ifp[iflist[s]].live /\ ifp[iflist[s]].slot = s)'
      <4>1. ASSUME NEW s \in Slots, iflist[s] # NoId
            PROVE  iflist[s] \in Ids /\ ~(user.ok /\ iflist[s] = user.i)
        BY <4>1, <1>1, <1>2, <1>x DEF VifTypes, Listing, UserShape
      <4> QED
        BY <4>1, <1>2, <1>x, <1>y DEF Listing
    <3>2. (\A i \in Ids : ifp[i].live =>
               ifp[i].slot \in Slots /\ (iflist[ifp[i].slot] = i \/ Leaving(i)))'
      BY <1>y, <1>x, <1>2, <1>1 DEF Leaving, Listing
    <3>3. (\A i \in Ids : ifp[i].reg => ifp[i].live /\ vif[i].kind # "dev")'
      BY <1>z, <1>y, <1>2 DEF Listing, VifTypes
    <3>4. (\A i \in Ids : ~ifp[i].live => ifp[i].vif = NoId)'
      BY <1>y, <1>2, <1>1 DEF Listing
    <3> QED
      BY <3>1, <3>2, <3>3, <3>4 DEF Listing
  <2>3. Pairing'
    <3> SUFFICES ASSUME NEW v \in Ids PROVE (IF ~vif[v].live THEN vif[v].ifp = NoId
        ELSE IF vif[v].ifp = NoId THEN (Adding \/ user.at = "attach") /\ user.v = v
        ELSE ifp[vif[v].ifp].live /\ ifp[vif[v].ifp].vif = v)'
      BY DEF Pairing
    <3>1. CASE user.ok /\ v = ifp[user.i].vif
      BY <3>1, <1>z
    <3>2. CASE ~(user.ok /\ v = ifp[user.i].vif)
      <4>1. vif'[v] = vif[v]
        BY <3>2, <1>z
      <4>2. vif[v].ifp \in Ids \cup {NoId}
        BY <1>1 DEF VifTypes, Vifs
      <4>3. vif[v].live => vif[v].ifp # NoId /\ ifp[vif[v].ifp].live /\ ifp[vif[v].ifp].vif = v
        BY <1>2, <1>x DEF Pairing, Adding
      <4> QED
        BY <3>2, <4>1, <4>2, <4>3, <1>2, <1>y DEF Pairing
    <3> QED
      BY <3>1, <3>2
  <2>4. News'
    <3>1. (\A i \in Ids : i > n => Fresh(i) /\ ~vif[i].live)'
      BY <1>z, <1>y, <1>x, <1>2 DEF Leaving, Fresh, News
    <3>2. (\A s \in Slots, x \in Ids : x \in Comes[s] =>
               x <= n /\ Fresh(x) /\ (user.at = "add" => x # user.v))'
      BY <1>y, <1>x, <1>q, <1>2 DEF Leaving, Fresh, News
    <3>3. (Once)'
      BY <1>q, <1>2 DEF News
    <3>4. (user.at = "add" => Fresh(user.v))'
      BY <1>x
    <3>5. (\A i \in Ids : ifp[i].vif # NoId => ifp[i].vif <= n)'
      BY <1>y, <1>x, <1>2 DEF News
    <3>6. (\A s \in Slots : fwif[s] # NoId => fwif[s] <= n)'
      BY <1>x, <1>2 DEF News
    <3> QED
      BY <3>1, <3>2, <3>3, <3>4, <3>5, <3>6 DEF News
  <2>5. Told'
    BY <1>x, <1>q, <1>2 DEF Told
  <2>6. Belatedly'
    <3>1. Belated' => Belated
      BY <1>q, <1>x DEF Belated
    <3>2. \A s \in Slots : ~Deletes(s) /\ ~Deletes(s)'
      BY <1>x DEF Deletes
    <3> QED
      BY <3>1, <3>2, <2>d, <1>2, <1>q, <1>x DEF Belatedly
  <2>7. OneLate'
    BY <1>2, <1>q, <1>x DEF VifTypes, OneLate, Late
  <2>8. Follows'
    <3>1. ASSUME Sound', NEW s \in Slots, s \notin Asked', iflist'[s] # fwif'[s] PROVE Removing(s)'
      BY <2>d, <1>x, <1>q, <1>2, <3>1 DEF Deletes, Removing, Follows
    <3>2. ASSUME Sound', NEW s \in Slots, Deletes(s)', iflist'[s] # NoId, fwif'[s] = iflist'[s]
          PROVE  (vif[user.v].kind # "net")' /\ Crossed'
      BY <1>x, <3>2 DEF Deletes
    <3> QED
      BY <3>1, <3>2 DEF Follows
  <2>9. Clean'
    <3> SUFFICES ASSUME Accidents' = 0 PROVE
            /\ (\A i \in Ids : ifp[i].live => ifp[i].vif = i)'
            /\ (\A v \in Ids : vif[v].live => vif[v].ifp \in {v, NoId})'
            /\ CleanUser' /\ CleanWorker' /\ Single' /\ CleanEvents' /\ CleanList'
      BY DEF Clean
    <3>a. Accidents = 0
      BY DEF counts, DelEnd, Accidents
    <3>b. /\ \A i \in Ids : ifp[i].live => ifp[i].vif = i
          /\ \A v \in Ids : vif[v].live => vif[v].ifp \in {v, NoId}
          /\ CleanUser /\ CleanWorker /\ Single /\ CleanEvents /\ CleanList
      BY <3>a, <1>2 DEF Clean
    <3>1. (\A i \in Ids : ifp[i].live => ifp[i].vif = i)'
      BY <3>b, <1>y
    <3>2. (\A v \in Ids : vif[v].live => vif[v].ifp \in {v, NoId})'
      BY <3>b, <1>z
    <3>3. CleanUser'
      <4>1. (Changing => user.at = "chwait" /\ action # "change")'
        BY <3>b, <1>x, <1>q DEF CleanUser
      <4>2. (action = "change" => user.at = "chwait")'
        BY <1>x
      <4>3. (Adding => vif[user.v].live)'
        BY <1>x DEF Adding
      <4>4. (user.at = "addwait" /\ action = "add" => Own(user.v))'
        BY <1>x
      <4>5. (user.at = "adddone" /\ user.ok => Own(user.v))'
        BY <1>x
      <4>6. (user.at = "attach" => Own(user.v))'
        BY <1>x
      <4>7. (Deleting => Own(user.v) /\ Target = user.v)'
        BY <1>x DEF Deleting
      <4>8. (user.at \in {"change", "chwait"} => Own(user.v))'
        BY <1>x
      <4>9. (user.at = "delend" => user.i = user.v /\ (user.ok => Own(user.v)))'
        BY <1>x
      <4>10. (conn # NoId =>
                  Own(conn) /\ vif[conn].kind = "p2p" /\ (Adding \/ user.at = "attach" => conn # user.v))'
        BY <3>b, <1>z, <1>y, <1>x, <1>1 DEF Own, CleanUser, VifTypes
      <4> QED
        BY <4>10, <4>9, <4>8, <4>7, <4>6, <4>5, <4>4, <4>3, <4>2, <4>1 DEF CleanUser
    <3>4. CleanWorker'
      <4>1. wk.at # "idle" => wk.i \in Ids
        BY <1>2 DEF UserShape
      <4> QED
        BY <4>1, <3>b, <1>x, <1>y DEF CleanWorker, Leaving
    <3>5. Single'
      BY <3>b, <1>q
    <3>6. CleanEvents'
      BY <3>b, <1>x, <1>q DEF Deletes, CleanEvents
    <3>7. CleanList'
      BY <3>b, <1>x DEF Deletes, CleanList
    <3> QED
      BY <3>1, <3>2, <3>3, <3>4, <3>5, <3>6, <3>7
  <2> QED
    BY <2>9, <2>8, <2>7, <2>6, <2>5, <2>4, <2>3, <2>2, <2>1 DEF VifCore
<1> QED
  BY <1>3, <1>4, <1>5 DEF VifInv

\* A change of role begins on the P2P connection (brcmf_p2p_ifchange).
LEMMA ChangeStartKeeps == ASSUME VifInv, ChangeStart PROVE VifInv'
<1>1. VifTypes /\ ~fault /\ VifCore /\ NoFault
  BY DEF At, ChangeStart, VifInv
<1>2. /\ UserShape /\ Listing /\ Pairing /\ News /\ Told
      /\ Belatedly /\ OneLate /\ Follows /\ Clean
  BY <1>1 DEF VifCore
<1>q. /\ Comes' = Comes /\ Leaves' = Leaves /\ Latest' = Latest
      /\ Asked' = Asked /\ Finals' = Finals /\ Changing' = Changing
      /\ Once' = Once /\ Single' = Single /\ queue' = queue
  <2>1. queue' = queue
    BY DEF ChangeStart
  <2> QED
    BY <2>1, QueueKept
<1>0. /\ user.at = "idle" /\ conn # NoId
      /\ \/ /\ vif[conn].live /\ armed' = conn /\ action' = "none" /\ fault' = fault
            /\ user' = [at |-> "change", v |-> conn, i |-> NoId, ok |-> FALSE]
         \/ fault' = TRUE /\ armed' = armed /\ action' = action /\ user' = user /\ ~vif[conn].live
      /\ vif' = vif /\ ifp' = ifp /\ iflist' = iflist /\ conn' = conn
      /\ p2pdev' = p2pdev /\ setup' = setup /\ fwif' = fwif /\ old' = old /\ wk' = wk
      /\ n' = n /\ timeouts' = timeouts /\ fails' = fails /\ unasked' = unasked
      /\ stray' = stray /\ late' = late
  BY <1>1 DEF counts, p2p, event, objects, Idle, Arm, At, ChangeStart, VifTypes
<1>x. \/ /\ vif[conn].live /\ conn \in Ids /\ armed' = conn /\ action' = "none" /\ fault' = fault
         /\ user' = [at |-> "change", v |-> conn, i |-> NoId, ok |-> FALSE]
      \/ fault' = TRUE /\ ~vif[conn].live /\ armed' = armed /\ action' = action /\ user' = user
  BY <1>1 DEF event, Idle, Arm, ChangeStart, Ifps, Vifs, VifTypes
<1>y. user.at = "idle" /\ conn \in Ids
  BY <1>1 DEF VifTypes, Vifs, Ifps, ChangeStart, At
<1>3. VifTypes'
  <2>1. /\ vif' \in [Ids -> Vifs]
        /\ ifp' \in [Ids -> Ifps]
        /\ iflist' \in [Slots -> Ids \cup {NoId}]
        /\ conn' \in Ids \cup {NoId}
        /\ p2pdev' \in Ids \cup {NoId}
        /\ setup' \in BOOLEAN
        /\ fwif' \in [Slots -> Ids \cup {NoId}]
        /\ old' \in BOOLEAN
        /\ wk' \in [at : {"idle", "check", "remove"}, i : Ids \cup {NoId}]
        /\ n' \in Nat
        /\ timeouts' \in Nat
        /\ fails' \in Nat
        /\ unasked' \in Nat
        /\ stray' \in BOOLEAN
        /\ late' \in BOOLEAN
    BY <1>1, <1>0, <1>x, <1>y DEF VifTypes
  <2>2. armed' \in Ids \cup {NoId}
    BY <1>0, <1>1 DEF VifTypes
  <2>3. action' \in {"none", "add", "del", "change"}
    BY <1>0, <1>1 DEF VifTypes
  <2>4. queue' \in Seq(Events)
    BY <1>1, <1>q DEF VifTypes
  <2>5. user' \in [at : {"idle", "add", "addwait", "adddone", "attach", "del", "delwait", "remove",
                         "delend", "change", "chwait"},
                   v : Ids \cup {NoId}, i : Ids \cup {NoId}, ok : BOOLEAN]
    <3>1. user' = user \/ user' = [at |-> "change", v |-> conn, i |-> NoId, ok |-> FALSE]
      BY <1>x
    <3>2. CASE user' = [at |-> "change", v |-> conn, i |-> NoId, ok |-> FALSE]
      BY <3>2, <1>y
    <3> QED
      BY <3>1, <3>2, <1>1 DEF VifTypes
  <2>6. fault' \in BOOLEAN
    BY <1>y, <1>x, <1>0, <1>2, <1>1, VifAssumption DEF Ifps, Vifs, UserShape, VifTypes
  <2> QED
    BY <2>1, <2>2, <2>3, <2>4, <2>5, <2>6 DEF VifTypes
<1>4. NoFault'
  <2>1. Accidents = 0 => vif[conn].live
    BY <1>2, <1>y, VifAssumption DEF Clean, CleanUser, Own
  <2>2. timeouts' = timeouts /\ unasked' = unasked
    BY DEF ChangeStart, counts
  <2>4. late' = late
    BY DEF ChangeStart
  <2>3. fault' => fault \/ ~vif[conn].live
    BY <1>x
  <2> QED
    BY <2>3, <2>2, <2>1, <1>1 DEF NoFault, Accidents, VifTypes
<1>5. ASSUME ~fault' PROVE VifCore'
  <2>d. Sound' => Sound
    BY <1>0, <1>q DEF Leaving, Freeing, Meets, Pending, Accidents, Doomed, Sound
  <2>1. UserShape'
    <3>1. (armed = IF user.at \in {"idle", "attach"} THEN NoId ELSE user.v)'
      BY <1>0, <1>2 DEF UserShape
    <3>2. (user.at # "idle" => user.v \in Ids /\ user.v <= n)'
      BY <1>0, <1>2, <1>1, VifAssumption DEF News, Ifps, VifTypes
    <3>3. (user.ok => user.at \in {"adddone", "attach", "delend"})'
      BY <1>0, <1>2 DEF UserShape
    <3>4. (setup = (Adding /\ vif[user.v].kind = "dev"))'
      BY <1>0, <1>2 DEF Adding, UserShape
    <3>5. (Deleting /\ vif[user.v].kind = "net" =>
               user.i \in Ids /\ ifp[user.i].live /\ ifp[user.i].reg /\ ifp[user.i].vif = user.v)'
      BY <1>0 DEF Deleting
    <3>6. (user.at = "delend" /\ user.ok =>
               /\ user.i \in Ids /\ vif[user.i].kind # "dev"
               /\ ifp[user.i].live => ~ifp[user.i].reg /\ iflist[ifp[user.i].slot] # user.i)'
      BY <1>0
    <3>7. (wk.at # "idle" =>
               /\ wk.i \in Ids
               /\ ifp[wk.i].live => iflist[ifp[wk.i].slot] \in {wk.i, NoId})'
      BY <1>0, <1>2 DEF UserShape
    <3> QED
      BY <3>7, <3>6, <3>5, <3>4, <3>3, <3>2, <3>1 DEF UserShape
  <2>2. Listing'
    BY <1>0, <1>2 DEF Leaving, Listing
  <2>3. Pairing'
    BY <1>x, <1>0, <1>2, <1>1 DEF Listing, Adding, Pairing
  <2>4. News'
    <3>1. (\A i \in Ids : i > n => Fresh(i) /\ ~vif[i].live)'
      BY <1>x, <1>0, <1>2 DEF Leaving, Fresh, News
    <3>2. (\A s \in Slots, x \in Ids : x \in Comes[s] =>
               x <= n /\ Fresh(x) /\ (user.at = "add" => x # user.v))'
      BY <1>0, <1>q, <1>2 DEF Leaving, Fresh, News
    <3>3. (Once)'
      BY <1>q, <1>2 DEF News
    <3>4. (user.at = "add" => Fresh(user.v))'
      BY <1>0
    <3>5. (\A i \in Ids : ifp[i].vif # NoId => ifp[i].vif <= n)'
      BY <1>0, <1>2, <1>1 DEF News, VifTypes
    <3>6. (\A s \in Slots : fwif[s] # NoId => fwif[s] <= n)'
      BY <1>0, <1>2 DEF News
    <3> QED
      BY <3>1, <3>2, <3>3, <3>4, <3>5, <3>6 DEF News
  <2>5. Told'
    BY <1>0, <1>q, <1>2 DEF Told
  <2>6. Belatedly'
    BY <2>d, <1>0, <1>q, <1>2 DEF Deletes, Belated, Belatedly
  <2>7. OneLate'
    BY <1>0, <1>q, <1>2 DEF Late, OneLate
  <2>8. Follows'
    <3>1. ASSUME Sound', NEW s \in Slots, s \notin Asked', iflist'[s] # fwif'[s] PROVE Removing(s)'
      BY <2>d, <1>0, <1>q, <1>2, <3>1 DEF Deletes, Removing, Follows
    <3>2. ASSUME Sound', NEW s \in Slots, Deletes(s)', iflist'[s] # NoId, fwif'[s] = iflist'[s]
          PROVE  (vif[user.v].kind # "net")' /\ Crossed'
      BY <1>0, <3>2 DEF Deletes
    <3> QED
      BY <3>1, <3>2 DEF Follows
  <2>9. Clean'
    <3> SUFFICES ASSUME Accidents' = 0 PROVE
            /\ (\A i \in Ids : ifp[i].live => ifp[i].vif = i)'
            /\ (\A v \in Ids : vif[v].live => vif[v].ifp \in {v, NoId})'
            /\ CleanUser' /\ CleanWorker' /\ Single' /\ CleanEvents' /\ CleanList'
      BY DEF Clean
    <3>a. Accidents = 0
      BY DEF counts, ChangeStart, Accidents
    <3>b. /\ \A i \in Ids : ifp[i].live => ifp[i].vif = i
          /\ \A v \in Ids : vif[v].live => vif[v].ifp \in {v, NoId}
          /\ CleanUser /\ CleanWorker /\ Single /\ CleanEvents /\ CleanList
      BY <3>a, <1>2 DEF Clean
    <3>1. (\A i \in Ids : ifp[i].live => ifp[i].vif = i)'
      BY <3>b, <1>0
    <3>2. (\A v \in Ids : vif[v].live => vif[v].ifp \in {v, NoId})'
      BY <3>b, <1>0
    <3>3. CleanUser'
      <4>1. (Changing => user.at = "chwait" /\ action # "change")'
        BY <3>b, <1>y, <1>q DEF CleanUser
      <4>2. (action = "change" => user.at = "chwait")'
        BY <3>b, <1>0 DEF CleanUser
      <4>3. (Adding => vif[user.v].live)'
        BY <1>0 DEF Adding
      <4>4. (user.at = "addwait" /\ action = "add" => Own(user.v))'
        BY <1>0
      <4>5. (user.at = "adddone" /\ user.ok => Own(user.v))'
        BY <1>0
      <4>6. (user.at = "attach" => Own(user.v))'
        BY <1>0
      <4>7. (Deleting => Own(user.v) /\ Target = user.v)'
        BY <1>0 DEF Deleting
      <4>8. (user.at \in {"change", "chwait"} => Own(user.v))'
        BY <3>b, <1>0 DEF Own, CleanUser
      <4>9. (user.at = "delend" => user.i = user.v /\ (user.ok => Own(user.v)))'
        BY <1>0
      <4>10. (conn # NoId =>
                  Own(conn) /\ vif[conn].kind = "p2p" /\ (Adding \/ user.at = "attach" => conn # user.v))'
        BY <3>b, <1>0 DEF Adding, Own, CleanUser
      <4> QED
        BY <4>10, <4>9, <4>8, <4>7, <4>6, <4>5, <4>4, <4>3, <4>2, <4>1 DEF CleanUser
    <3>4. CleanWorker'
      BY <3>b, <1>0 DEF Leaving, CleanWorker
    <3>5. Single'
      BY <3>b, <1>q
    <3>6. CleanEvents'
      BY <3>b, <1>0, <1>q DEF Deletes, CleanEvents
    <3>7. CleanList'
      BY <3>b, <1>0 DEF Deletes, CleanList
    <3> QED
      BY <3>1, <3>2, <3>3, <3>4, <3>5, <3>6, <3>7
  <2> QED
    BY <2>9, <2>8, <2>7, <2>6, <2>5, <2>4, <2>3, <2>2, <2>1 DEF VifCore
<1> QED
  BY <1>3, <1>4, <1>5 DEF VifInv

\* The firmware changes the role and says so.
LEMMA ChangeRequestKeeps == ASSUME VifInv, ChangeRequest PROVE VifInv'
<1>1. VifTypes /\ ~fault /\ VifCore /\ NoFault
  BY DEF At, ChangeRequest, VifInv
<1>2. /\ UserShape /\ Listing /\ Pairing /\ News /\ Told
      /\ Belatedly /\ OneLate /\ Follows /\ Clean
  BY <1>1 DEF VifCore
<1>e. PICK e \in Events : e = [act |-> "change", slot |-> ifp[Mine.ifp].slot, id |-> Mine.ifp] /\ queue' = Append(queue, e)
  BY <1>2, <1>1
    DEF Vifs, Mine, Usable, At, ChangeRequest, Listing, UserShape, Events, VifTypes
<1>f. /\ queue' \in Seq(Events)
      /\ \A s \in Slots, x \in Ids :
           /\ x \in Comes'[s] <=> x \in Comes[s] \/ (e.act = "add" /\ e.slot = s /\ e.id = x)
           /\ x \in Leaves'[s] <=> x \in Leaves[s] \/ (e.act = "del" /\ e.slot = s /\ e.id = x)
           /\ x \in Latest'[s] <=> IF e.slot = s /\ e.act # "change"
                                   THEN e.act = "add" /\ e.id = x ELSE x \in Latest[s]
      /\ \A s \in Slots : s \in Asked' <=> s \in Asked \/ (e.slot = s /\ e.act # "change")
      /\ \A s \in Slots :
           e.act # "add" /\ (s \in Finals \/ Leaves[s] = {}) => s \in Finals'
      /\ Changing' <=> Changing \/ e.act = "change"
      /\ Once /\ (e.act = "add" => \A s \in Slots : e.id \notin Comes[s]) => Once'
      /\ Single /\ (e.act = "change" => ~Changing) => Single'
  <2>1. queue \in Seq(Events)
    BY <1>1 DEF VifTypes
  <2> QED
    BY <2>1, <1>e, QueueGrows
<1>q. e.act = "change" /\ e.slot = ifp[Mine.ifp].slot /\ e.id = Mine.ifp /\ e.slot \in Slots /\ e.id \in Ids
  BY <1>e DEF Events
<1>0. /\ user.at = "change" /\ vif[user.v].live /\ vif[user.v].ifp # NoId /\ ifp[vif[user.v].ifp].live
      /\ user' = [user EXCEPT !.at = "chwait"]
      /\ vif' = vif /\ ifp' = ifp /\ iflist' = iflist /\ armed' = armed
      /\ action' = action /\ conn' = conn /\ p2pdev' = p2pdev /\ setup' = setup
      /\ fwif' = fwif /\ old' = old /\ wk' = wk /\ n' = n /\ timeouts' = timeouts
      /\ fails' = fails /\ unasked' = unasked /\ stray' = stray /\ late' = late
      /\ fault' = fault
  BY DEF counts, p2p, event, objects, Mine, Usable, At, ChangeRequest
<1>x. /\ user.at = "change" /\ UNCHANGED <<vif, ifp, iflist, fwif, action, wk, timeouts, unasked, stray>>
      /\ user'.at = "chwait" /\ user'.v = user.v
  BY DEF counts, event, objects, At, ChangeRequest
<1>3. VifTypes'
  <2>1. /\ vif' \in [Ids -> Vifs]
        /\ ifp' \in [Ids -> Ifps]
        /\ iflist' \in [Slots -> Ids \cup {NoId}]
        /\ armed' \in Ids \cup {NoId}
        /\ action' \in {"none", "add", "del", "change"}
        /\ conn' \in Ids \cup {NoId}
        /\ p2pdev' \in Ids \cup {NoId}
        /\ setup' \in BOOLEAN
        /\ fwif' \in [Slots -> Ids \cup {NoId}]
        /\ old' \in BOOLEAN
        /\ wk' \in [at : {"idle", "check", "remove"}, i : Ids \cup {NoId}]
        /\ n' \in Nat
        /\ timeouts' \in Nat
        /\ fails' \in Nat
        /\ unasked' \in Nat
        /\ stray' \in BOOLEAN
        /\ late' \in BOOLEAN
        /\ fault' \in BOOLEAN
    BY <1>1, <1>0 DEF VifTypes
  <2>2. queue' \in Seq(Events)
    BY <1>f
  <2>3. user' \in [at : {"idle", "add", "addwait", "adddone", "attach", "del", "delwait", "remove",
                         "delend", "change", "chwait"},
                   v : Ids \cup {NoId}, i : Ids \cup {NoId}, ok : BOOLEAN]
    BY <1>0, <1>f, <1>2, <1>1, VifAssumption DEF Ifps, Vifs, UserShape, VifTypes
  <2> QED
    BY <2>1, <2>2, <2>3 DEF VifTypes
<1>4. NoFault'
  BY <1>1, <1>f, <1>0 DEF VifTypes, NoFault
<1>5. ASSUME ~fault' PROVE VifCore'
  <2>d. Sound' => Sound
    BY <1>0, <1>f, <1>2
      DEF Listing, Leaving, Freeing, Meets, Pending, Accidents, Doomed, Sound
  <2>1. UserShape'
    BY <1>0, <1>2 DEF Deleting, Adding, UserShape
  <2>2. Listing'
    BY <1>0, <1>2 DEF Leaving, Listing
  <2>3. Pairing'
    BY <1>0, <1>2 DEF Pairing
  <2>4. News'
    BY <1>0, <1>f, <1>q, <1>2 DEF Leaving, Fresh, News
  <2>5. Told'
    <3>1. (\A s \in Slots, x \in Ids : x \in Comes[s] => (x \in Latest[s] <=> fwif[s] = x))'
      BY <1>0, <1>f, <1>q, <1>2 DEF Told
    <3>2. (\A s \in Slots : s \in Asked /\ fwif[s] # NoId => fwif[s] \in Comes[s])'
      BY <1>1, <1>2, <1>q, <1>f, <1>x DEF VifTypes, Told
    <3>3. (\A s \in Slots : wk.at # "idle" /\ iflist[s] = wk.i => fwif[s] # wk.i)'
      BY <1>0, <1>2 DEF Told
    <3> QED
      BY <3>1, <3>2, <3>3 DEF Told
  <2>6. Belatedly'
    <3> SUFFICES ASSUME Belated' PROVE
            /\ timeouts' >= 1
            /\ Sound' =>
                 /\ (\A s \in Slots, x \in Ids :
                      /\ x \in Leaves[s] => iflist[s] = NoId \/ (Deletes(s) /\ s \in Finals)
                      /\ x \in Comes[s] => iflist[s] = NoId /\ fwif[s] = x)'
                 /\ (\A s \in Slots :
                      /\ s \in Asked \/ iflist[s] = fwif[s]
                      /\ wk.at # "idle" => iflist[s] # wk.i)'
      BY DEF Belatedly
    <3>p. Belated /\ (Sound' =>
              /\ \A s \in Slots, x \in Ids :
                   /\ x \in Leaves[s] => iflist[s] = NoId
                   /\ x \in Comes[s] => iflist[s] = NoId /\ fwif[s] = x
              /\ \A s \in Slots :
                   /\ s \in Asked \/ iflist[s] = fwif[s]
                   /\ wk.at # "idle" => iflist[s] # wk.i)
      <4>1. Belated
        BY <1>x, <1>q, <1>f DEF Belated
      <4>2. \A s \in Slots : ~Deletes(s)
        BY <1>x DEF Deletes
      <4> QED
        BY <4>1, <4>2, <2>d, <1>2 DEF Belatedly
    <3>1. timeouts' >= 1
      BY <3>p, <1>2, <1>x DEF Belatedly
    <3>2. ASSUME Sound', NEW s \in Slots, NEW x \in Ids, x \in Leaves'[s]
          PROVE  iflist'[s] = NoId \/ (Deletes(s)' /\ s \in Finals')
      BY <3>p, <3>2, <1>q, <1>f, <1>1, <1>x DEF VifTypes
    <3>3. ASSUME Sound', NEW s \in Slots, NEW x \in Ids, x \in Comes'[s]
          PROVE  iflist'[s] = NoId /\ fwif'[s] = x
      BY <3>p, <3>3, <1>q, <1>f, <1>1, <1>x DEF VifTypes
    <3>4. ASSUME Sound', NEW s \in Slots, s \notin Asked' PROVE iflist'[s] = fwif'[s]
      BY <3>p, <3>4, <1>q, <1>f, <1>1, <1>x DEF VifTypes
    <3>5. ASSUME Sound', NEW s \in Slots, wk'.at # "idle" PROVE iflist'[s] # wk'.i
      BY <3>p, <3>5, <1>q, <1>f, <1>1, <1>x DEF VifTypes
    <3> QED
      BY <3>1, <3>2, <3>3, <3>4, <3>5
  <2>7. OneLate'
    BY <1>x, <1>f, <1>q, <1>2 DEF Late, OneLate
  <2>8. Follows'
    <3>1. ASSUME Sound', NEW s \in Slots, s \notin Asked', iflist'[s] # fwif'[s] PROVE Removing(s)'
      BY <2>d, <1>0, <1>f, <1>2, <3>1 DEF Deletes, Removing, Follows
    <3>2. ASSUME Sound', NEW s \in Slots, Deletes(s)', iflist'[s] # NoId, fwif'[s] = iflist'[s]
          PROVE  (vif[user.v].kind # "net")' /\ Crossed'
      BY <1>0, <3>2 DEF Deletes
    <3> QED
      BY <3>1, <3>2 DEF Follows
  <2>9. Clean'
    <3> SUFFICES ASSUME Accidents' = 0 PROVE
            /\ (\A i \in Ids : ifp[i].live => ifp[i].vif = i)'
            /\ (\A v \in Ids : vif[v].live => vif[v].ifp \in {v, NoId})'
            /\ CleanUser' /\ CleanWorker' /\ Single' /\ CleanEvents' /\ CleanList'
      BY DEF Clean
    <3>a. Accidents = 0
      BY DEF counts, ChangeRequest, Accidents
    <3>b. /\ \A i \in Ids : ifp[i].live => ifp[i].vif = i
          /\ \A v \in Ids : vif[v].live => vif[v].ifp \in {v, NoId}
          /\ CleanUser /\ CleanWorker /\ Single /\ CleanEvents /\ CleanList
      BY <3>a, <1>2 DEF Clean
    <3>1. (\A i \in Ids : ifp[i].live => ifp[i].vif = i)'
      BY <3>b, <1>0
    <3>2. (\A v \in Ids : vif[v].live => vif[v].ifp \in {v, NoId})'
      BY <3>b, <1>0
    <3>3. CleanUser'
      <4>1. (Changing => user.at = "chwait" /\ action # "change")'
        BY <3>b, <1>0 DEF CleanUser
      <4>2. (action = "change" => user.at = "chwait")'
        BY <1>0
      <4>3. (Adding => vif[user.v].live)'
        BY <1>0
      <4>4. (user.at = "addwait" /\ action = "add" => Own(user.v))'
        BY <1>0
      <4>5. (user.at = "adddone" /\ user.ok => Own(user.v))'
        BY <1>0
      <4>6. (user.at = "attach" => Own(user.v))'
        BY <1>0
      <4>7. (Deleting => Own(user.v) /\ Target = user.v)'
        BY <1>0 DEF Deleting
      <4>8. (user.at \in {"change", "chwait"} => Own(user.v))'
        BY <3>b, <1>0 DEF Own, CleanUser
      <4>9. (user.at = "delend" => user.i = user.v /\ (user.ok => Own(user.v)))'
        BY <1>0
      <4>10. (conn # NoId =>
                  Own(conn) /\ vif[conn].kind = "p2p" /\ (Adding \/ user.at = "attach" => conn # user.v))'
        BY <3>b, <1>0 DEF Adding, Own, CleanUser
      <4> QED
        BY <4>10, <4>9, <4>8, <4>7, <4>6, <4>5, <4>4, <4>3, <4>2, <4>1 DEF CleanUser
    <3>4. CleanWorker'
      BY <3>b, <1>0 DEF Leaving, CleanWorker
    <3>5. Single'
      BY <3>b, <1>0, <1>f DEF CleanUser
    <3>6. CleanEvents'
      BY <3>b, <1>0, <1>f, <1>q DEF Deletes, CleanEvents
    <3>7. CleanList'
      BY <3>b, <1>0 DEF Deletes, CleanList
    <3> QED
      BY <3>1, <3>2, <3>3, <3>4, <3>5, <3>6, <3>7
  <2> QED
    BY <2>9, <2>8, <2>7, <2>6, <2>5, <2>4, <2>3, <2>2, <2>1 DEF VifCore
<1> QED
  BY <1>3, <1>4, <1>5 DEF VifInv

\* The command for that fails.
LEMMA ChangeRefusedKeeps == ASSUME VifInv, ChangeRefused PROVE VifInv'
<1>1. VifTypes /\ ~fault /\ VifCore /\ NoFault
  BY DEF At, ChangeRefused, VifInv
<1>2. /\ UserShape /\ Listing /\ Pairing /\ News /\ Told
      /\ Belatedly /\ OneLate /\ Follows /\ Clean
  BY <1>1 DEF VifCore
<1>q. /\ Comes' = Comes /\ Leaves' = Leaves /\ Latest' = Latest
      /\ Asked' = Asked /\ Finals' = Finals /\ Changing' = Changing
      /\ Once' = Once /\ Single' = Single /\ queue' = queue
  <2>1. queue' = queue
    BY DEF ChangeRefused
  <2> QED
    BY <2>1, QueueKept
<1>0. /\ user.at = "change" /\ armed' = NoId /\ action' = "none"
      /\ user' = [at |-> "idle", v |-> NoId, i |-> NoId, ok |-> FALSE] /\ fails' \in {fails, fails + 1}
      /\ vif' = vif /\ ifp' = ifp /\ iflist' = iflist /\ conn' = conn
      /\ p2pdev' = p2pdev /\ setup' = setup /\ fwif' = fwif /\ old' = old /\ wk' = wk
      /\ n' = n /\ timeouts' = timeouts /\ unasked' = unasked /\ stray' = stray
      /\ late' = late /\ fault' = fault
  BY DEF p2p, objects, Idle, Arm, Fails, At, ChangeRefused
<1>3. VifTypes'
  <2>1. /\ vif' \in [Ids -> Vifs]
        /\ ifp' \in [Ids -> Ifps]
        /\ iflist' \in [Slots -> Ids \cup {NoId}]
        /\ conn' \in Ids \cup {NoId}
        /\ p2pdev' \in Ids \cup {NoId}
        /\ setup' \in BOOLEAN
        /\ fwif' \in [Slots -> Ids \cup {NoId}]
        /\ old' \in BOOLEAN
        /\ wk' \in [at : {"idle", "check", "remove"}, i : Ids \cup {NoId}]
        /\ n' \in Nat
        /\ timeouts' \in Nat
        /\ unasked' \in Nat
        /\ stray' \in BOOLEAN
        /\ late' \in BOOLEAN
        /\ fault' \in BOOLEAN
    BY <1>1, <1>0 DEF VifTypes
  <2>2. armed' \in Ids \cup {NoId}
    BY <1>0
  <2>3. action' \in {"none", "add", "del", "change"}
    BY <1>0
  <2>4. queue' \in Seq(Events)
    BY <1>1, <1>q DEF VifTypes
  <2>5. user' \in [at : {"idle", "add", "addwait", "adddone", "attach", "del", "delwait", "remove",
                         "delend", "change", "chwait"},
                   v : Ids \cup {NoId}, i : Ids \cup {NoId}, ok : BOOLEAN]
    BY <1>0
  <2>6. fails' \in Nat
    BY <1>0, <1>1 DEF VifTypes
  <2> QED
    BY <2>1, <2>2, <2>3, <2>4, <2>5, <2>6 DEF VifTypes
<1>4. NoFault'
  BY <1>1, <1>0 DEF VifTypes, NoFault
<1>5. ASSUME ~fault' PROVE VifCore'
  <2>d. Sound' => Sound
    BY <1>0, <1>q DEF Leaving, Freeing, Meets, Pending, Accidents, Doomed, Sound
  <2>1. UserShape'
    BY <1>0, <1>2 DEF Deleting, Adding, UserShape
  <2>2. Listing'
    BY <1>0, <1>2, <1>1 DEF Leaving, Listing
  <2>3. Pairing'
    BY <1>0, <1>2 DEF Adding, Pairing
  <2>4. News'
    BY <1>0, <1>q, <1>2 DEF Leaving, Fresh, News
  <2>5. Told'
    BY VifAssumption, <1>1, <1>2, <1>q, <1>0 DEF VifTypes, Told
  <2>6. Belatedly'
    BY <2>d, <1>0, <1>q, <1>2 DEF Deletes, Belated, Belatedly
  <2>7. OneLate'
    BY <1>0, <1>q, <1>2 DEF Late, OneLate
  <2>8. Follows'
    <3>1. ASSUME Sound', NEW s \in Slots, s \notin Asked', iflist'[s] # fwif'[s] PROVE Removing(s)'
      BY <2>d, <1>0, <1>q, <1>2, <3>1 DEF Deletes, Removing, Follows
    <3>2. ASSUME Sound', NEW s \in Slots, Deletes(s)', iflist'[s] # NoId, fwif'[s] = iflist'[s]
          PROVE  (vif[user.v].kind # "net")' /\ Crossed'
      BY <1>0, <3>2 DEF Deletes
    <3> QED
      BY <3>1, <3>2 DEF Follows
  <2>9. Clean'
    <3> SUFFICES ASSUME Accidents' = 0 PROVE
            /\ (\A i \in Ids : ifp[i].live => ifp[i].vif = i)'
            /\ (\A v \in Ids : vif[v].live => vif[v].ifp \in {v, NoId})'
            /\ CleanUser' /\ CleanWorker' /\ Single' /\ CleanEvents' /\ CleanList'
      BY DEF Clean
    <3>a. Accidents = 0
      BY DEF ChangeRefused, Accidents
    <3>b. /\ \A i \in Ids : ifp[i].live => ifp[i].vif = i
          /\ \A v \in Ids : vif[v].live => vif[v].ifp \in {v, NoId}
          /\ CleanUser /\ CleanWorker /\ Single /\ CleanEvents /\ CleanList
      BY <3>a, <1>2 DEF Clean
    <3>1. (\A i \in Ids : ifp[i].live => ifp[i].vif = i)'
      BY VifAssumption, <1>1, <1>2, <1>q, <1>0, <3>b DEF VifTypes
    <3>2. (\A v \in Ids : vif[v].live => vif[v].ifp \in {v, NoId})'
      BY VifAssumption, <1>1, <1>2, <1>q, <1>0, <3>b DEF VifTypes
    <3>3. CleanUser'
      BY <3>b, <1>0, <1>q DEF Deleting, Adding, Own, CleanUser
    <3>4. CleanWorker'
      BY <3>b, <1>0 DEF Leaving, CleanWorker
    <3>5. Single'
      BY VifAssumption, <1>1, <1>2, <1>q, <1>0, <3>b
    <3>6. CleanEvents'
      BY <3>b, <1>0, <1>q DEF Deletes, CleanEvents
    <3>7. CleanList'
      BY <3>b, <1>0 DEF Deletes, CleanList
    <3> QED
      BY <3>1, <3>2, <3>3, <3>4, <3>5, <3>6, <3>7
  <2> QED
    BY <2>9, <2>8, <2>7, <2>6, <2>5, <2>4, <2>3, <2>2, <2>1 DEF VifCore
<1> QED
  BY <1>3, <1>4, <1>5 DEF VifInv

\* The change is met, or times out.
LEMMA ChangeWaitsKeeps == ASSUME VifInv, NEW ok \in BOOLEAN, ChangeWaits(ok) PROVE VifInv'
<1>1. VifTypes /\ ~fault /\ VifCore /\ NoFault
  BY DEF At, ChangeWaits, VifInv
<1>2. /\ UserShape /\ Listing /\ Pairing /\ News /\ Told
      /\ Belatedly /\ OneLate /\ Follows /\ Clean
  BY <1>1 DEF VifCore
<1>q. /\ Comes' = Comes /\ Leaves' = Leaves /\ Latest' = Latest
      /\ Asked' = Asked /\ Finals' = Finals /\ Changing' = Changing
      /\ Once' = Once /\ Single' = Single /\ queue' = queue
  <2>1. queue' = queue
    BY DEF ChangeWaits
  <2> QED
    BY <2>1, QueueKept
<1>0. /\ user.at = "chwait" /\ armed' = NoId /\ action' = "none"
      /\ user' = [at |-> "idle", v |-> NoId, i |-> NoId, ok |-> FALSE]
      /\ ok => action = "change" /\ timeouts' = timeouts
      /\ ~ok => action # "change" /\ timeouts' = timeouts + 1
      /\ vif' = vif /\ ifp' = ifp /\ iflist' = iflist /\ conn' = conn
      /\ p2pdev' = p2pdev /\ setup' = setup /\ fwif' = fwif /\ old' = old /\ wk' = wk
      /\ n' = n /\ fails' = fails /\ unasked' = unasked /\ stray' = stray
      /\ late' = late /\ fault' = fault
  BY DEF p2p, objects, Idle, Arm, Wait, At, ChangeWaits
<1>x. timeouts' + unasked' = 0 => ok
  BY <1>1 DEF VifTypes, ChangeWaits, Wait, Spare, counts
<1>3. VifTypes'
  <2>1. /\ vif' \in [Ids -> Vifs]
        /\ ifp' \in [Ids -> Ifps]
        /\ iflist' \in [Slots -> Ids \cup {NoId}]
        /\ conn' \in Ids \cup {NoId}
        /\ p2pdev' \in Ids \cup {NoId}
        /\ setup' \in BOOLEAN
        /\ fwif' \in [Slots -> Ids \cup {NoId}]
        /\ old' \in BOOLEAN
        /\ wk' \in [at : {"idle", "check", "remove"}, i : Ids \cup {NoId}]
        /\ n' \in Nat
        /\ fails' \in Nat
        /\ unasked' \in Nat
        /\ stray' \in BOOLEAN
        /\ late' \in BOOLEAN
        /\ fault' \in BOOLEAN
    BY <1>1, <1>0, <1>x DEF VifTypes
  <2>2. armed' \in Ids \cup {NoId}
    BY <1>0
  <2>3. action' \in {"none", "add", "del", "change"}
    BY <1>0
  <2>4. queue' \in Seq(Events)
    BY <1>1, <1>q DEF VifTypes
  <2>5. user' \in [at : {"idle", "add", "addwait", "adddone", "attach", "del", "delwait", "remove",
                         "delend", "change", "chwait"},
                   v : Ids \cup {NoId}, i : Ids \cup {NoId}, ok : BOOLEAN]
    BY <1>0
  <2>6. timeouts' \in Nat
    BY <1>0, <1>1 DEF VifTypes
  <2> QED
    BY <2>1, <2>2, <2>3, <2>4, <2>5, <2>6 DEF VifTypes
<1>4. NoFault'
  BY <1>1, <1>0, <1>x DEF VifTypes, NoFault
<1>5. ASSUME ~fault' PROVE VifCore'
  <2>d. Sound' => Sound
    <3>1. Sound' => Accidents <= 1 /\ ~stray /\ (Accidents = 0 \/ Doomed = Doomed')
      BY <1>q, <1>1
        DEF At, objects, Wait, ChangeWaits, Leaving, Freeing, Meets, Pending, Accidents,
            Doomed, VifTypes, Sound
    <3> QED
      BY <3>1, <1>1, CleanSound DEF Sound
  <2>1. UserShape'
    BY <1>0, <1>2 DEF Deleting, Adding, UserShape
  <2>2. Listing'
    BY <1>0, <1>2 DEF Leaving, Listing
  <2>3. Pairing'
    BY <1>0, <1>2 DEF Adding, Pairing
  <2>4. News'
    BY <1>0, <1>q, <1>2 DEF Leaving, Fresh, News
  <2>5. Told'
    BY <1>0, <1>q, <1>2 DEF Told
  <2>6. Belatedly'
    BY <2>d, <1>0, <1>q, <1>2, <1>1 DEF Deletes, Belated, Belatedly, VifTypes
  <2>7. OneLate'
    BY <1>0, <1>q, <1>2, <1>1 DEF Late, OneLate, VifTypes
  <2>8. Follows'
    <3>1. ASSUME Sound', NEW s \in Slots, s \notin Asked', iflist'[s] # fwif'[s] PROVE Removing(s)'
      BY <2>d, <1>0, <1>q, <1>2, <3>1 DEF Deletes, Removing, Follows
    <3>2. ASSUME Sound', NEW s \in Slots, Deletes(s)', iflist'[s] # NoId, fwif'[s] = iflist'[s]
          PROVE  (vif[user.v].kind # "net")' /\ Crossed'
      BY <1>0, <3>2 DEF Deletes
    <3> QED
      BY <3>1, <3>2 DEF Follows
  <2>9. Clean'
    <3> SUFFICES ASSUME Accidents' = 0 PROVE
            /\ (\A i \in Ids : ifp[i].live => ifp[i].vif = i)'
            /\ (\A v \in Ids : vif[v].live => vif[v].ifp \in {v, NoId})'
            /\ CleanUser' /\ CleanWorker' /\ Single' /\ CleanEvents' /\ CleanList'
      BY DEF Clean
    <3>a. Accidents = 0
      BY <1>1 DEF Wait, ChangeWaits, Accidents, VifTypes
    <3>b. /\ \A i \in Ids : ifp[i].live => ifp[i].vif = i
          /\ \A v \in Ids : vif[v].live => vif[v].ifp \in {v, NoId}
          /\ CleanUser /\ CleanWorker /\ Single /\ CleanEvents /\ CleanList
      BY <3>a, <1>2 DEF Clean
    <3>1. (\A i \in Ids : ifp[i].live => ifp[i].vif = i)'
      BY <3>b, <1>0
    <3>2. (\A v \in Ids : vif[v].live => vif[v].ifp \in {v, NoId})'
      BY <3>b, <1>0
    <3>3. CleanUser'
      <4>1. (Changing => user.at = "chwait" /\ action # "change")'
        BY <3>b, <1>q, <1>1 DEF Wait, ChangeWaits, Accidents, VifTypes, CleanUser
      <4>2. (action = "change" => user.at = "chwait")'
        BY <1>0
      <4>3. (Adding => vif[user.v].live)'
        BY <1>0 DEF Adding
      <4>4. (user.at = "addwait" /\ action = "add" => Own(user.v))'
        BY <1>0
      <4>5. (user.at = "adddone" /\ user.ok => Own(user.v))'
        BY <1>0
      <4>6. (user.at = "attach" => Own(user.v))'
        BY <1>0
      <4>7. (Deleting => Own(user.v) /\ Target = user.v)'
        BY <1>0 DEF Deleting
      <4>8. (user.at \in {"change", "chwait"} => Own(user.v))'
        BY <1>0
      <4>9. (user.at = "delend" => user.i = user.v /\ (user.ok => Own(user.v)))'
        BY <1>0
      <4>10. (conn # NoId =>
                  Own(conn) /\ vif[conn].kind = "p2p" /\ (Adding \/ user.at = "attach" => conn # user.v))'
        BY <3>b, <1>0 DEF Own, CleanUser
      <4> QED
        BY <4>10, <4>9, <4>8, <4>7, <4>6, <4>5, <4>4, <4>3, <4>2, <4>1 DEF CleanUser
    <3>4. CleanWorker'
      BY <3>b, <1>0 DEF Leaving, CleanWorker
    <3>5. Single'
      BY VifAssumption, <1>1, <1>2, <1>q, <1>0, <1>x, <3>b
    <3>6. CleanEvents'
      BY <3>b, <1>0, <1>q DEF Deletes, CleanEvents
    <3>7. CleanList'
      BY <3>b, <1>0 DEF Deletes, CleanList
    <3> QED
      BY <3>1, <3>2, <3>3, <3>4, <3>5, <3>6, <3>7
  <2> QED
    BY <2>9, <2>8, <2>7, <2>6, <2>5, <2>4, <2>3, <2>2, <2>1 DEF VifCore
<1> QED
  BY <1>3, <1>4, <1>5 DEF VifInv

\* A fault ends all that is promised; without an accident there is none.
LEMMA UserFaultKeeps == ASSUME VifInv, UserFault PROVE VifInv'
<1>1. VifTypes /\ ~fault /\ VifCore /\ NoFault
  BY DEF UserFault, VifInv
<1>2. /\ UserShape /\ Listing /\ Pairing /\ News /\ Told
      /\ Belatedly /\ OneLate /\ Follows /\ Clean
  BY <1>1 DEF VifCore
<1>q. /\ Comes' = Comes /\ Leaves' = Leaves /\ Latest' = Latest
      /\ Asked' = Asked /\ Finals' = Finals /\ Changing' = Changing
      /\ Once' = Once /\ Single' = Single /\ queue' = queue
  <2>1. queue' = queue
    BY DEF UserFault
  <2> QED
    BY <2>1, QueueKept
<1>0. /\ fault'
      /\ vif' = vif /\ ifp' = ifp /\ iflist' = iflist /\ armed' = armed
      /\ action' = action /\ conn' = conn /\ p2pdev' = p2pdev /\ setup' = setup
      /\ fwif' = fwif /\ old' = old /\ user' = user /\ wk' = wk /\ n' = n
      /\ timeouts' = timeouts /\ fails' = fails /\ unasked' = unasked
      /\ stray' = stray /\ late' = late
  BY DEF counts, p2p, event, objects, UserFault
<1>3. VifTypes'
  <2>1. /\ vif' \in [Ids -> Vifs]
        /\ ifp' \in [Ids -> Ifps]
        /\ iflist' \in [Slots -> Ids \cup {NoId}]
        /\ armed' \in Ids \cup {NoId}
        /\ action' \in {"none", "add", "del", "change"}
        /\ conn' \in Ids \cup {NoId}
        /\ p2pdev' \in Ids \cup {NoId}
        /\ setup' \in BOOLEAN
        /\ fwif' \in [Slots -> Ids \cup {NoId}]
        /\ old' \in BOOLEAN
        /\ user' \in [at : {"idle", "add", "addwait", "adddone", "attach", "del", "delwait", "remove",
                            "delend", "change", "chwait"},
                      v : Ids \cup {NoId}, i : Ids \cup {NoId}, ok : BOOLEAN]
        /\ wk' \in [at : {"idle", "check", "remove"}, i : Ids \cup {NoId}]
        /\ n' \in Nat
        /\ timeouts' \in Nat
        /\ fails' \in Nat
        /\ unasked' \in Nat
        /\ stray' \in BOOLEAN
        /\ late' \in BOOLEAN
    BY <1>1, <1>0 DEF VifTypes
  <2>2. queue' \in Seq(Events)
    BY <1>1, <1>q DEF VifTypes
  <2>3. fault' \in BOOLEAN
    BY <1>0
  <2> QED
    BY <2>1, <2>2, <2>3 DEF VifTypes
<1>4. NoFault'
  <2>1. ASSUME Accidents = 0 PROVE FALSE
    <3>1. CleanUser
      BY <2>1, <1>2 DEF Clean
    <3>2. user.at \in {"attach", "del", "change", "remove"} /\ user.v \in Ids /\ Own(user.v)
      BY <3>1, <1>2 DEF CleanUser, UserShape, Deleting, UserFault
    <3> QED
      BY VifAssumption, <3>2 DEF Mine, Held, Usable, UserFault, Own
  <2> QED
    BY <2>1, <1>1 DEF VifTypes, Accidents, NoFault, UserFault, counts
<1>5. ASSUME ~fault' PROVE VifCore'
  <2>d. Sound' => Sound
    BY <1>q, <1>0
      DEF Sound, Doomed, Accidents, Pending, Meets, Freeing, Leaving, Target, Mine
  <2>1. UserShape'
    BY <1>0, <1>2 DEF Deleting, Adding, UserShape
  <2>2. Listing'
    BY <1>0, <1>2 DEF Leaving, Listing, VifTypes
  <2>3. Pairing'
    BY <1>0, <1>2 DEF Adding, Pairing
  <2>4. News'
    BY <1>0, <1>q, <1>2 DEF Leaving, Fresh, News
  <2>5. Told'
    BY VifAssumption, <1>1, <1>2, <1>q, <1>0 DEF VifTypes, Told
  <2>6. Belatedly'
    BY <1>2, <1>q, <1>0, <2>d DEF Belatedly, Belated, Deletes, Target, Mine
  <2>7. OneLate'
    BY <1>0, <1>q, <1>2 DEF Late, OneLate
  <2>8. Follows'
    <3>1. ASSUME Sound', NEW s \in Slots, s \notin Asked', iflist'[s] # fwif'[s] PROVE Removing(s)'
      BY <3>1, <1>2, <1>q, <1>0, <2>d
        DEF Follows, Removing, Deletes, Accidents, Target, Mine
    <3>2. ASSUME Sound', NEW s \in Slots, Deletes(s)', iflist'[s] # NoId, fwif'[s] = iflist'[s]
          PROVE  (vif[user.v].kind # "net")' /\ Crossed'
      BY <3>2, <1>2, <1>q, <1>0, <2>d DEF Follows, Deletes, Crossed, Pending, Target, Mine
    <3> QED
      BY <3>1, <3>2 DEF Follows
  <2>9. Clean'
    <3> SUFFICES ASSUME Accidents' = 0 PROVE
            /\ (\A i \in Ids : ifp[i].live => ifp[i].vif = i)'
            /\ (\A v \in Ids : vif[v].live => vif[v].ifp \in {v, NoId})'
            /\ CleanUser' /\ CleanWorker' /\ Single' /\ CleanEvents' /\ CleanList'
      BY DEF Clean
    <3>a. Accidents = 0
      BY DEF counts, UserFault, Accidents
    <3>b. /\ \A i \in Ids : ifp[i].live => ifp[i].vif = i
          /\ \A v \in Ids : vif[v].live => vif[v].ifp \in {v, NoId}
          /\ CleanUser /\ CleanWorker /\ Single /\ CleanEvents /\ CleanList
      BY <3>a, <1>2 DEF Clean
    <3>1. (\A i \in Ids : ifp[i].live => ifp[i].vif = i)'
      BY VifAssumption, <1>1, <1>2, <1>q, <1>0, <3>b DEF VifTypes
    <3>2. (\A v \in Ids : vif[v].live => vif[v].ifp \in {v, NoId})'
      BY VifAssumption, <1>1, <1>2, <1>q, <1>0, <3>b DEF VifTypes
    <3>3. CleanUser'
      BY <1>q, <1>0, <3>b DEF CleanUser, Own, Adding, Deleting, Target, Mine
    <3>4. CleanWorker'
      BY <3>b, <1>0 DEF Leaving, CleanWorker
    <3>5. Single'
      BY VifAssumption, <1>1, <1>2, <1>q, <1>0, <3>b
    <3>6. CleanEvents'
      BY <3>b, <1>0, <1>q DEF Mine, Target, Deletes, CleanEvents
    <3>7. CleanList'
      BY <3>b, <1>0 DEF Mine, Target, Deletes, CleanList
    <3> QED
      BY <3>1, <3>2, <3>3, <3>4, <3>5, <3>6, <3>7
  <2> QED
    BY <2>1, <2>2, <2>3, <2>4, <2>5, <2>6, <2>7, <2>8, <2>9 DEF VifCore
<1> QED
  BY <1>3, <1>4, <1>5 DEF VifInv

\* An event that is ignored: of a P2P device, or of no interface.
LEMMA EventIgnoredKeeps == ASSUME VifInv, EventIgnored PROVE VifInv'
<1>1. VifTypes /\ ~fault /\ VifCore /\ NoFault
  BY DEF Event, EventIgnored, VifInv
<1>2. /\ UserShape /\ Listing /\ Pairing /\ News /\ Told
      /\ Belatedly /\ OneLate /\ Follows /\ Clean
  BY <1>1 DEF VifCore
<1>e. PICK e : e = Head(queue) /\ queue # <<>> /\ queue' = Tail(queue) /\ queue \in Seq(Events) /\ Once
  BY <1>1, <1>2 DEF VifTypes, News, EventIgnored, Event
<1>q. /\ e = Head(queue)
      /\ e.act \in Acts /\ e.slot \in Slots /\ e.id \in Ids /\ queue' \in Seq(Events)
      /\ e.act = "add" => e.id \in Comes[e.slot]
      /\ e.act = "del" => e.id \in Leaves[e.slot]
      /\ e.act = "change" => Changing
      /\ \A s \in Slots, x \in Ids :
           /\ x \in Comes'[s] => x \in Comes[s] /\ ~(e.act = "add" /\ e.id = x)
                                 /\ (x \in Latest'[s] <=> x \in Latest[s])
           /\ x \in Leaves'[s] => x \in Leaves[s]
           /\ x \in Comes[s] => x \in Comes'[s] \/ (e.act = "add" /\ e.slot = s /\ e.id = x)
           /\ x \in Leaves[s] => x \in Leaves'[s] \/ (e.act = "del" /\ e.slot = s /\ e.id = x)
           /\ e.act = "del" /\ e.slot \in Finals => x \notin Comes'[s]
      /\ \A s \in Slots :
           /\ s \in Asked' => s \in Asked
           /\ s \in Asked => s \in Asked' \/ (e.slot = s /\ e.act # "change")
           /\ s \in Finals => s \in Finals'
      /\ e.act # "change" => e.slot \in Asked
      /\ e.act = "add" /\ e.id \in Latest[e.slot] => e.slot \notin Asked'
      /\ Changing' => Changing
      /\ e.act = "change" /\ Single => ~Changing'
      /\ Once' /\ (Single => Single')
  BY <1>e, QueueServed
<1>x. /\ wk.at = "idle" /\ e.act \in {"add", "del", "change"} /\ Target' = Target
      /\ UNCHANGED <<vif, ifp, iflist, armed, action, conn, p2pdev, setup, fwif, old, user, wk, n, timeouts, unasked, late, fault>> /\ fails' = fails
      /\ \/ e.act = "add" /\ stray'
         \/ e.act # "add" /\ iflist[e.slot] = NoId /\ stray' = stray
         \/ /\ e.act = "del" /\ iflist[e.slot] # NoId /\ vif[e.id].kind = "dev"
            /\ stray' = (stray \/ ~Answers(iflist[e.slot]))
  BY <1>q
    DEF EventIgnored, Event, Here, Noif, NoNdev, Target, Mine, objects, event, p2p, counts
<1>y. ASSUME e.act # "add", e.slot \in Asked, e.slot \notin Asked' PROVE fwif[e.slot] = NoId
  <2>1. fwif[e.slot] # NoId => fwif[e.slot] \in Ids /\ fwif[e.slot] \in Comes[e.slot]
    BY <1>y, <1>1, <1>2, <1>q DEF VifTypes, Told
  <2>2. fwif[e.slot] # NoId => fwif[e.slot] \in Comes'[e.slot]
    BY <1>y, <2>1, <1>q
  <2> QED
    BY <1>y, <2>1, <2>2, <1>q DEF Asked
<1>3. VifTypes'
  <2>1. /\ vif' \in [Ids -> Vifs]
        /\ ifp' \in [Ids -> Ifps]
        /\ iflist' \in [Slots -> Ids \cup {NoId}]
        /\ armed' \in Ids \cup {NoId}
        /\ action' \in {"none", "add", "del", "change"}
        /\ conn' \in Ids \cup {NoId}
        /\ p2pdev' \in Ids \cup {NoId}
        /\ setup' \in BOOLEAN
        /\ fwif' \in [Slots -> Ids \cup {NoId}]
        /\ old' \in BOOLEAN
        /\ user' \in [at : {"idle", "add", "addwait", "adddone", "attach", "del", "delwait", "remove",
                            "delend", "change", "chwait"},
                      v : Ids \cup {NoId}, i : Ids \cup {NoId}, ok : BOOLEAN]
        /\ wk' \in [at : {"idle", "check", "remove"}, i : Ids \cup {NoId}]
        /\ n' \in Nat
        /\ timeouts' \in Nat
        /\ fails' \in Nat
        /\ unasked' \in Nat
        /\ late' \in BOOLEAN
        /\ fault' \in BOOLEAN
    BY <1>1, <1>x DEF VifTypes
  <2>2. queue' \in Seq(Events)
    BY <1>1, <1>q
  <2>3. stray' \in BOOLEAN
    BY <1>1, <1>x DEF VifTypes
  <2> QED
    BY <2>1, <2>2, <2>3 DEF VifTypes
<1>4. NoFault'
  BY <1>1, <1>x DEF VifTypes, NoFault
<1>5. ASSUME ~fault' PROVE VifCore'
  <2>d. Sound' => Sound
    <3> SUFFICES ASSUME Sound', NEW x \in Ids, ifp[x].vif # NoId,
                        \/ ~vif[ifp[x].vif].live /\ (Pending(x, {"check", "remove"}) \/ Meets(x) \/ Leaving(x))
                        \/ ~Leaving(x) /\ Freeing(ifp[x].vif) /\ Pending(x, {"check"})
                 PROVE  Doomed'
      BY <1>1, <1>x DEF Sound, Doomed, Accidents, VifTypes
    <3>1. ifp[x].live /\ iflist[ifp[x].slot] = x => ifp[x].slot \in Slots
      BY <1>2 DEF Listing
    <3>2. ASSUME ifp[x].live, iflist[ifp[x].slot] = x, ifp[x].slot \in Asked
          PROVE  ifp[x].slot \in Asked' \/ (user.at \in {"delwait", "remove"} /\ Target = x)
      <4>1. ~stray' /\ e.act # "add"
        BY <1>x DEF Sound
      <4>2. CASE e.slot = ifp[x].slot /\ e.act = "del"
        <5>1. Answers(iflist[e.slot])
          BY <4>1, <4>2, <3>2, <1>x, VifAssumption
        <5> QED
          BY <4>2, <5>1, <3>2 DEF Answers
      <4> QED
        BY <4>1, <4>2, <3>1, <3>2, <1>q DEF Acts
    <3> QED
      BY <3>2, <1>x DEF Doomed, Pending, Meets, Freeing, Leaving
  <2>1. UserShape'
    BY <1>2, <1>x DEF UserShape, Adding, Deleting
  <2>2. Listing'
    BY <1>2, <1>x DEF Listing, Leaving
  <2>3. Pairing'
    BY <1>2, <1>x DEF Pairing, Adding
  <2>4. News'
    BY <1>2, <1>q, <1>x DEF News, Fresh, Leaving
  <2>5. Told'
    <3>1. (\A s \in Slots, x \in Ids : x \in Comes[s] => (x \in Latest[s] <=> fwif[s] = x))'
      BY <1>1, <1>2, <1>q, <1>x DEF VifTypes, Told
    <3>2. (\A s \in Slots : s \in Asked /\ fwif[s] # NoId => fwif[s] \in Comes[s])'
      BY <1>1, <1>2, <1>q, <1>x DEF VifTypes, Told
    <3>3. (\A s \in Slots : wk.at # "idle" /\ iflist[s] = wk.i => fwif[s] # wk.i)'
      BY VifAssumption, <1>1, <1>2, <1>q, <1>x DEF VifTypes, Told
    <3> QED
      BY <3>1, <3>2, <3>3 DEF Told
  <2>6. Belatedly'
    <3> SUFFICES ASSUME Belated' PROVE
            /\ timeouts' >= 1
            /\ Sound' =>
                 /\ (\A s \in Slots, x \in Ids :
                      /\ x \in Leaves[s] => iflist[s] = NoId \/ (Deletes(s) /\ s \in Finals)
                      /\ x \in Comes[s] => iflist[s] = NoId /\ fwif[s] = x)'
                 /\ (\A s \in Slots :
                      /\ s \in Asked \/ iflist[s] = fwif[s]
                      /\ wk.at # "idle" => iflist[s] # wk.i)'
      BY DEF Belatedly
    <3>1. Belated
      BY <1>q, <1>x DEF Belated
    <3>2. \A s \in Slots : Deletes(s)' <=> Deletes(s)
      BY <1>x DEF Deletes
    <3>3. ASSUME Sound' PROVE e.act # "add" /\ iflist[e.slot] = NoId
      <4>1. CASE e.act = "del" /\ iflist[e.slot] # NoId
        <5>1. Deletes(e.slot) /\ e.slot \in Finals
          BY <3>1, <3>3, <4>1, <2>d, <1>2, <1>q DEF Belatedly
        <5> QED
          BY <4>1, <5>1, <1>q, <1>x DEF Belated, Deletes
      <4> QED
        BY <3>3, <4>1, <1>q, <1>x DEF Sound
    <3> QED
      BY <3>1, <3>2, <3>3, <2>d, <1>2, <1>q, <1>x, <1>y DEF Belatedly
  <2>7. OneLate'
    BY <1>2, <1>q, <1>x DEF VifTypes, OneLate, Late
  <2>8. Follows'
    <3>1. ASSUME Sound', NEW s \in Slots, s \notin Asked', iflist'[s] # fwif'[s] PROVE Removing(s)'
      <4>1. e.act # "add" /\ Accidents' = Accidents
        BY <3>1, <1>x DEF Sound, Accidents
      <4>2. CASE s \notin Asked
        <5>1. Removing(s)
          BY <3>1, <4>2, <1>2, <1>x, <2>d DEF Follows
        <5> QED
          BY <5>1, <4>1, <1>x DEF Removing, Deletes
      <4>3. CASE s \in Asked
        <5>1. s = e.slot /\ fwif[s] = NoId /\ iflist[s] # NoId /\ e.act = "del"
          BY <3>1, <4>1, <4>3, <1>q, <1>x, <1>y
        <5>2. Answers(iflist[s]) /\ vif[e.id].kind = "dev"
          BY <3>1, <5>1, <1>x DEF Sound
        <5>3. CASE vif[user.v].kind # "net"
          BY <5>1, <5>2, <5>3, <1>x DEF Answers, Removing, Deletes
        <5>4. CASE vif[user.v].kind = "net"
          <6>1. Target = user.i /\ vif[user.i].kind # "dev"
            BY <5>2, <5>4, <1>2 DEF Target, Mine, Answers, UserShape, Deleting, Listing
          <6>2. Accidents = 0 => iflist[s] = e.id
            BY <5>1, <1>2, <1>q DEF Clean, CleanEvents
          <6>3. Accidents \in Nat /\ Accidents # 0
            BY <6>1, <6>2, <5>2, <1>1 DEF Answers, VifTypes, Accidents
          <6> QED
            BY <6>3, <5>1, <5>2, <4>1, <1>x DEF Answers, Removing, Deletes
        <5> QED
          BY <5>3, <5>4
      <4> QED
        BY <4>2, <4>3
    <3>2. ASSUME Sound', NEW s \in Slots, Deletes(s)', iflist'[s] # NoId, fwif'[s] = iflist'[s]
          PROVE  (vif[user.v].kind # "net")' /\ Crossed'
      <4>0. ~stray' /\ e.act # "add"
        BY <3>2, <1>x DEF Sound
      <4>1. Deletes(s) /\ fwif[s] = iflist[s] /\ iflist[s] # NoId
        BY <3>2, <1>x DEF Deletes
      <4>2. vif[user.v].kind # "net" /\ Crossed
        BY <4>1, <3>2, <2>d, <1>2 DEF Follows
      <4>3. PICK x \in Ids : x # Target /\ ifp[x].vif = user.v /\ Pending(x, {"check"})
        BY <4>2 DEF Crossed
      <4>4. ifp[x].live /\ iflist[ifp[x].slot] = x /\ ifp[x].slot \in Slots
        BY <4>3, <1>2 DEF Pending, Listing
      <4>5. ifp[x].slot \in Asked => ifp[x].slot \in Asked'
        BY <4>0, <4>1, <4>3, <4>4, <1>q, <1>x, VifAssumption DEF Answers
      <4>6. Pending(x, {"check"})'
        BY <4>3, <4>4, <4>5, <1>x DEF Pending
      <4> QED
        BY <4>2, <4>3, <4>6, <1>x DEF Crossed
    <3> QED
      BY <3>1, <3>2 DEF Follows
  <2>9. Clean'
    <3> SUFFICES ASSUME Accidents' = 0 PROVE
            /\ (\A i \in Ids : ifp[i].live => ifp[i].vif = i)'
            /\ (\A v \in Ids : vif[v].live => vif[v].ifp \in {v, NoId})'
            /\ CleanUser' /\ CleanWorker' /\ Single' /\ CleanEvents' /\ CleanList'
      BY DEF Clean
    <3>a. Accidents = 0
      BY DEF Accidents, EventIgnored, counts
    <3>b. /\ \A i \in Ids : ifp[i].live => ifp[i].vif = i
          /\ \A v \in Ids : vif[v].live => vif[v].ifp \in {v, NoId}
          /\ CleanUser /\ CleanWorker /\ Single /\ CleanEvents /\ CleanList
      BY <3>a, <1>2 DEF Clean
    <3>1. (\A i \in Ids : ifp[i].live => ifp[i].vif = i)'
      BY VifAssumption, <1>1, <1>2, <1>q, <1>x, <3>b DEF VifTypes
    <3>2. (\A v \in Ids : vif[v].live => vif[v].ifp \in {v, NoId})'
      BY VifAssumption, <1>1, <1>2, <1>q, <1>x, <3>b DEF VifTypes
    <3>3. CleanUser'
      <4>1. (Changing => user.at = "chwait" /\ action # "change")'
        BY <3>b, <1>x, <1>q DEF CleanUser, UserShape, VifTypes
      <4>2. (action = "change" => user.at = "chwait")'
        BY <3>b, <1>x, <1>q DEF CleanUser, UserShape, VifTypes
      <4>3. (Adding => vif[user.v].live)'
        BY <1>x, <3>b DEF CleanUser, Adding
      <4>4. (user.at = "addwait" /\ action = "add" => Own(user.v))'
        BY <1>x, <3>b DEF CleanUser, Own
      <4>5. (user.at = "adddone" /\ user.ok => Own(user.v))'
        BY <1>x, <3>b DEF CleanUser, Own
      <4>6. (user.at = "attach" => Own(user.v))'
        BY <1>x, <3>b DEF CleanUser, Own
      <4>7. (Deleting => Own(user.v) /\ Target = user.v)'
        BY <1>x, <3>b DEF CleanUser, Own, Deleting
      <4>8. (user.at \in {"change", "chwait"} => Own(user.v))'
        BY <1>x, <3>b DEF CleanUser, Own
      <4>9. (user.at = "delend" => user.i = user.v /\ (user.ok => Own(user.v)))'
        BY <1>x, <3>b DEF CleanUser, Own
      <4>10. (conn # NoId =>
                  Own(conn) /\ vif[conn].kind = "p2p" /\ (Adding \/ user.at = "attach" => conn # user.v))'
        BY <1>x, <3>b DEF CleanUser, Own, Adding
      <4> QED
        BY <4>1, <4>2, <4>3, <4>4, <4>5, <4>6, <4>7, <4>8, <4>9, <4>10 DEF CleanUser
    <3>4. CleanWorker'
      BY <3>b, <1>x, <1>q DEF CleanWorker, VifTypes
    <3>5. Single'
      BY VifAssumption, <1>1, <1>2, <1>q, <1>x, <3>b
    <3>6. CleanEvents'
      BY <3>b, <1>q, <1>x DEF CleanEvents, Deletes
    <3>7. CleanList'
      BY <3>b, <1>x, <1>q DEF Deletes, CleanList, VifTypes
    <3> QED
      BY <3>1, <3>2, <3>3, <3>4, <3>5, <3>6, <3>7
  <2> QED
    BY <2>1, <2>2, <2>3, <2>4, <2>5, <2>6, <2>7, <2>8, <2>9 DEF VifCore
<1> QED
  BY <1>3, <1>4, <1>5 DEF VifInv

\* The worker makes the interface, binds it to the vif of whoever waits, and
\* replaces one that was in the slot (brcmf_fweh_handle_if_event, brcmf_add_if).
LEMMA AddEventKeeps == ASSUME VifInv, AddEvent PROVE VifInv'
<1>1. VifTypes /\ ~fault /\ VifCore /\ NoFault
  BY DEF VifInv, AddEvent, Event
<1>2. /\ UserShape /\ Listing /\ Pairing /\ News /\ Told
      /\ Belatedly /\ OneLate /\ Follows /\ Clean
  BY <1>1 DEF VifCore
<1>e. PICK e : e = Head(queue) /\ queue # <<>> /\ queue' = Tail(queue) /\ queue \in Seq(Events) /\ Once
  BY <1>1, <1>2 DEF VifTypes, News, AddEvent, Event
<1>q. /\ e = Head(queue)
      /\ e.act \in Acts /\ e.slot \in Slots /\ e.id \in Ids /\ queue' \in Seq(Events)
      /\ e.act = "add" => e.id \in Comes[e.slot]
      /\ e.act = "del" => e.id \in Leaves[e.slot]
      /\ e.act = "change" => Changing
      /\ \A s \in Slots, x \in Ids :
           /\ x \in Comes'[s] => x \in Comes[s] /\ ~(e.act = "add" /\ e.id = x)
                                 /\ (x \in Latest'[s] <=> x \in Latest[s])
           /\ x \in Leaves'[s] => x \in Leaves[s]
           /\ x \in Comes[s] => x \in Comes'[s] \/ (e.act = "add" /\ e.slot = s /\ e.id = x)
           /\ x \in Leaves[s] => x \in Leaves'[s] \/ (e.act = "del" /\ e.slot = s /\ e.id = x)
           /\ e.act = "del" /\ e.slot \in Finals => x \notin Comes'[s]
      /\ \A s \in Slots :
           /\ s \in Asked' => s \in Asked
           /\ s \in Asked => s \in Asked' \/ (e.slot = s /\ e.act # "change")
           /\ s \in Finals => s \in Finals'
      /\ e.act # "change" => e.slot \in Asked
      /\ e.act = "add" /\ e.id \in Latest[e.slot] => e.slot \notin Asked'
      /\ Changing' => Changing
      /\ e.act = "change" /\ Single => ~Changing'
      /\ Once' /\ (Single => Single')
  BY <1>e, QueueServed
<1>k. PICK k \in Ids, s0 \in Slots, h \in Ids \cup {NoId} : k = e.id /\ s0 = e.slot /\ h = iflist[e.slot]
  BY <1>1, <1>q DEF VifTypes
<1>x. /\ wk.at = "idle" /\ e.act = "add" /\ action' = "add" /\ iflist' = [iflist EXCEPT ![s0] = k]
      /\ UNCHANGED <<armed, conn, p2pdev, setup, fwif, old, user, wk, n, timeouts, unasked, stray, late>> /\ fails' = fails
  BY <1>k, <1>q DEF counts, p2p, Event, AddEvent
<1>g. /\ k \in Comes[s0] /\ k <= n /\ ~ifp[k].live /\ ifp[k].vif = NoId /\ ~Leaving(k) /\ k # h
      /\ user.at = "add" => k # user.v
      /\ h # NoId => h \in Ids /\ ifp[h].live /\ ifp[h].slot = s0
  BY VifAssumption, <1>x, <1>k, <1>q, <1>2 DEF Listing, Fresh, News
<1>j. PICK w \in Ids \cup {NoId} : w = IF h = NoId THEN NoId ELSE ifp[h].vif
  BY <1>1, <1>g DEF VifTypes, Ifps
<1>i. /\ ifp' \in [Ids -> Ifps]
      /\ ifp'[k].live /\ ifp'[k].slot = s0 /\ ifp'[k].vif = armed /\ ~ifp'[k].reg
      /\ \A u \in Ids : u # k /\ u # h => ifp'[u] = ifp[u]
      /\ \A u \in Ids : u # k /\ u = h => ~ifp'[u].live /\ ifp'[u].vif = NoId /\ ~ifp'[u].reg
  <2>1. ifp' = [u \in Ids |-> IF u = k THEN [live |-> TRUE, slot |-> s0, vif |-> armed, reg |-> FALSE]
                              ELSE IF u = h THEN [live |-> FALSE, slot |-> NoId, vif |-> NoId, reg |-> FALSE]
                              ELSE ifp[u]]
    BY <1>1, <1>q, <1>k DEF AddEvent, Here, NoIf
  <2>2. /\ [live |-> TRUE, slot |-> s0, vif |-> armed, reg |-> FALSE] \in Ifps
        /\ [live |-> FALSE, slot |-> NoId, vif |-> NoId, reg |-> FALSE] \in Ifps
        /\ \A u \in Ids : ifp[u] \in Ifps
    BY <1>1 DEF VifTypes, Ifps
  <2> QED
    BY <2>1, <2>2
<1>d. PICK kept \in [Ids -> Vifs] :
          /\ \A u \in Ids : kept[u].kind = vif[u].kind
          /\ \A u \in Ids : u # w => kept[u] = vif[u]
          /\ \A u \in Ids : u = w => ~kept[u].live /\ kept[u].ifp = NoId
          /\ vif' = Bind(kept, k)
          /\ fault' = \/ armed # NoId /\ ~kept[armed].live
                      \/ h # NoId /\ (NoNdev(h) \/ Dangling(h))
  <2>1. /\ vif' = Bind(IF h = NoId THEN vif ELSE Detached(h, vif), k)
        /\ fault' = \/ armed # NoId /\ ~(IF h = NoId THEN vif ELSE Detached(h, vif))[armed].live
                    \/ h # NoId /\ (NoNdev(h) \/ Dangling(h))
    BY <1>q, <1>k DEF AddEvent, Here
  <2>2. CASE w = NoId
    <3>1. (IF h = NoId THEN vif ELSE Detached(h, vif)) = vif
      BY <2>2, <1>j DEF Detached
    <3>2. vif \in [Ids -> Vifs]
      BY <1>1 DEF VifTypes
    <3> QED
      BY <2>1, <2>2, <3>1, <3>2, VifAssumption
  <2>3. CASE w # NoId
    <3>1. (IF h = NoId THEN vif ELSE Detached(h, vif)) = Freed(w)
      BY <2>3, <1>j DEF Detached, Freed
    <3>2. w \in Ids
      BY <2>3
    <3>3. /\ Freed(w) \in [Ids -> Vifs]
          /\ ~Freed(w)[w].live /\ Freed(w)[w].ifp = NoId
          /\ \A u \in Ids : u # w => Freed(w)[u] = vif[u]
          /\ \A u \in Ids : Freed(w)[u].kind = vif[u].kind
      BY <3>2, <1>1, FreedFacts
    <3> QED
      BY <2>1, <3>1, <3>2, <3>3
  <2> QED
    BY <2>2, <2>3
<1>v. /\ vif' \in [Ids -> Vifs]
      /\ \A u \in Ids : vif'[u].kind = vif[u].kind
      /\ \A u \in Ids : u # armed => vif'[u] = kept[u]
      /\ \A u \in Ids : u = armed => vif'[u].live = kept[u].live /\ vif'[u].ifp = k
  <2>1. CASE armed = NoId
    <3>1. vif' = kept
      BY <2>1, <1>d DEF Bind
    <3> QED
      BY <2>1, <3>1, <1>d, VifAssumption
  <2>2. CASE armed # NoId
    <3>1. armed \in Ids
      BY <2>2, <1>1 DEF VifTypes
    <3>2. /\ Bind(kept, k) \in [Ids -> Vifs]
          /\ Bind(kept, k)[armed].live = kept[armed].live /\ Bind(kept, k)[armed].kind = kept[armed].kind
          /\ Bind(kept, k)[armed].ifp = k
          /\ \A u \in Ids : u # armed => Bind(kept, k)[u] = kept[u]
          /\ \A u \in Ids : Bind(kept, k)[u].kind = kept[u].kind
      BY <3>1, BoundFacts
    <3> QED
      BY <3>2, <1>d
  <2> QED
    BY <2>1, <2>2
<1>b. ASSUME ~fault'
      PROVE  /\ \A u \in Ids : u = armed => u # w /\ vif[u].live /\ vif'[u].live /\ vif'[u].ifp = k
             /\ \A u \in Ids : u = w => vif[u].live /\ ~vif'[u].live /\ vif'[u].ifp = NoId
             /\ \A u \in Ids : u # w /\ u # armed => vif'[u] = vif[u]
             /\ h # NoId => vif[h].kind # "dev"
  <2>1. \A u \in Ids : u = armed => kept[u].live
    BY <1>b, <1>d, VifAssumption
  <2>2. \A u \in Ids : u = w => vif[u].live
    BY <1>b, <1>d, <1>j, VifAssumption DEF Dangling
  <2>3. h # NoId => vif[h].kind # "dev"
    BY <1>b, <1>d DEF NoNdev
  <2> QED
    BY <2>1, <2>2, <2>3, <1>d, <1>v
<1>r. h # NoId /\ user.at # "idle" => ~ifp[h].reg
  BY <1>q, <1>k DEF AddEvent, Here, RtnlFree
<1>l. user.at # "addwait" \/ k # user.v \/ action = "add" => Belated
  BY <1>g DEF Belated
<1>3. VifTypes'
  <2>1. /\ armed' \in Ids \cup {NoId}
        /\ conn' \in Ids \cup {NoId}
        /\ p2pdev' \in Ids \cup {NoId}
        /\ setup' \in BOOLEAN
        /\ fwif' \in [Slots -> Ids \cup {NoId}]
        /\ old' \in BOOLEAN
        /\ user' \in [at : {"idle", "add", "addwait", "adddone", "attach", "del", "delwait", "remove",
                            "delend", "change", "chwait"},
                      v : Ids \cup {NoId}, i : Ids \cup {NoId}, ok : BOOLEAN]
        /\ wk' \in [at : {"idle", "check", "remove"}, i : Ids \cup {NoId}]
        /\ n' \in Nat
        /\ timeouts' \in Nat
        /\ fails' \in Nat
        /\ unasked' \in Nat
        /\ stray' \in BOOLEAN
        /\ late' \in BOOLEAN
    BY <1>x, <1>1 DEF VifTypes
  <2>2. vif' \in [Ids -> Vifs]
    BY <1>1, <1>v DEF VifTypes
  <2>3. ifp' \in [Ids -> Ifps]
    BY <1>1, <1>i DEF VifTypes
  <2>4. iflist' \in [Slots -> Ids \cup {NoId}]
    BY <1>1, <1>x DEF VifTypes
  <2>5. action' \in {"none", "add", "del", "change"}
    BY <1>x
  <2>6. queue' \in Seq(Events)
    BY <1>1, <1>q, <1>x DEF VifTypes
  <2>7. fault' \in BOOLEAN
    BY <1>d
  <2> QED
    BY <2>7, <2>6, <2>5, <2>4, <2>3, <2>2, <2>1 DEF VifTypes
<1>4. NoFault'
  <2>1. ASSUME Accidents = 0 PROVE ~fault'
    <3>1. ~Belated /\ timeouts = 0
      BY <2>1, <1>1, <1>2 DEF VifTypes, Accidents, Belatedly
    <3>2. user.at = "addwait" /\ k = user.v /\ armed = k
      BY <3>1, <1>l, <1>2 DEF UserShape
    <3>3. h = NoId
      BY <2>1, <1>2, <1>k, <1>g DEF Clean, CleanEvents
    <3>4. vif[k].live
      BY <2>1, <3>2, <1>2 DEF Clean, CleanUser, Adding
    <3>5. kept[armed].live
      BY <3>2, <3>3, <3>4, <1>d, <1>j, VifAssumption
    <3> QED
      BY <3>3, <3>5, <1>d
  <2> QED
    BY <2>1, <1>1, <1>x DEF VifTypes, Accidents, NoFault
<1>5. ASSUME ~fault' PROVE VifCore'
  <2>d. Sound' => Sound
    <3> SUFFICES ASSUME Sound', NEW y \in Ids, ifp[y].vif # NoId,
                        \/ ~vif[ifp[y].vif].live /\ (Pending(y, {"check", "remove"}) \/ Meets(y) \/ Leaving(y))
                        \/ ~Leaving(y) /\ Freeing(ifp[y].vif) /\ Pending(y, {"check"})
                 PROVE  Doomed'
      BY <1>1, <1>x DEF Sound, Doomed, Accidents, VifTypes
    <3>1. /\ ifp[y].live /\ iflist[ifp[y].slot] = y => ifp[y].slot \in Slots
          /\ ifp[y].vif \in Ids /\ y # k
      BY <1>1, <1>2, <1>g DEF VifTypes, Ifps, Listing
    <3>2. CASE y = h
      <4>1. ifp[y].vif = w /\ y # NoId /\ ~Leaving(y)
        BY VifAssumption, <1>k, <1>2, <1>j, <1>g, <3>2 DEF UserShape, Leaving
      <4>2. user.at = "delend" /\ user.ok /\ ifp[user.i].vif = w /\ user.i # y
        BY <1>b, <1>5, <4>1 DEF Leaving, Freeing
      <4>3. PICK z \in Ids : z = user.i
        BY <4>2, <1>2 DEF UserShape
      <4>4. z # k /\ z # h
        BY <3>2, <4>2, <4>3, <1>g DEF Leaving
      <4>5. Leaving(z)' /\ ifp'[z].vif = w /\ ~vif'[w].live /\ w # NoId
        BY <1>b, <1>i, <1>x, <1>5, <4>4, <4>3, <4>2, <4>1 DEF Leaving
      <4> QED
        BY <4>3, <4>5 DEF Doomed
    <3>3. ASSUME y # h
          PROVE  /\ ifp'[y] = ifp[y]
                 /\ Pending(y, {"check"}) => Pending(y, {"check"})'
                 /\ Pending(y, {"check", "remove"}) => Pending(y, {"check", "remove"})'
      <4>1. ifp'[y] = ifp[y]
        BY <3>1, <3>3, <1>i
      <4>2. ASSUME ifp[y].live, iflist[ifp[y].slot] = y, ifp[y].slot \in Asked
            PROVE  iflist'[ifp[y].slot] = y /\ ifp[y].slot \in Asked'
        <5>1. ifp[y].slot # s0 /\ ifp[y].slot \in Slots
          BY <3>1, <3>3, <4>2, <1>k
        <5> QED
          BY <5>1, <4>2, <1>1, <1>k, <1>x, <1>q DEF VifTypes
      <4>3. wk.at = "idle" /\ wk'.at = "idle"
        BY <1>x
      <4>4. ASSUME ifp[y].live, iflist[ifp[y].slot] = y, ifp[y].slot \in Asked
            PROVE  ifp'[y].live /\ iflist'[ifp'[y].slot] = y /\ ifp'[y].slot \in Asked'
        BY <4>1, <4>2, <4>4
      <4> QED
        BY <4>1, <4>3, <4>4 DEF Pending
    <3>4. CASE y # h /\ ~vif[ifp[y].vif].live /\ (Pending(y, {"check", "remove"}) \/ Meets(y) \/ Leaving(y))
      <4>1. ~vif'[ifp[y].vif].live
        BY <3>1, <3>4, <1>5, <1>b
      <4>2. CASE Meets(y)
        <5>1. vif[user.v].kind = "net" /\ user.v \in Ids
          BY <3>4, <4>2, <1>1, <1>2, VifAssumption
            DEF VifTypes, UserShape, Meets, Target, Mine, Pairing
        <5>2. Meets(y)'
          BY <4>2, <5>1, <1>x, <1>v DEF Meets, Target, Mine
        <5> QED
          BY <3>3, <3>4, <4>1, <5>2 DEF Doomed
      <4>3. CASE Leaving(y)
        <5>1. Leaving(y)'
          BY <4>3, <1>x DEF Leaving
        <5> QED
          BY <3>3, <3>4, <4>1, <5>1 DEF Doomed
      <4>4. CASE Pending(y, {"check", "remove"})
        <5>1. Pending(y, {"check", "remove"})'
          BY <3>3, <3>4, <4>4
        <5> QED
          BY <3>3, <3>4, <4>1, <5>1 DEF Doomed
      <4> QED
        BY <3>4, <4>2, <4>3, <4>4
    <3>5. CASE y # h /\ ~Leaving(y) /\ Freeing(ifp[y].vif) /\ Pending(y, {"check"})
      <4>1. user.i \in Ids /\ user.i # k /\ ~Leaving(y)' /\ user.at = "delend" /\ user.ok
        BY <3>5, <1>2, <1>x, <1>g DEF Freeing, UserShape, Leaving
      <4>2. user.i # h
        BY <4>1, <1>2, <1>g, <1>k, VifAssumption DEF UserShape
      <4>3. Freeing(ifp[y].vif)'
        BY <3>3, <3>5, <4>1, <4>2, <1>i, <1>x DEF Freeing
      <4>4. Pending(y, {"check"})'
        BY <3>3, <3>5
      <4> QED
        BY <4>3, <4>1, <3>5, <3>3 DEF Doomed
    <3> QED
      BY <3>1, <3>2, <3>4, <3>5 DEF Pending, Meets, Leaving
  <2>1. UserShape'
    <3>1. (armed = IF user.at \in {"idle", "attach"} THEN NoId ELSE user.v)'
      BY <1>2, <1>x DEF UserShape
    <3>2. (user.at # "idle" => user.v \in Ids /\ user.v <= n)'
      BY <1>2, <1>x DEF UserShape
    <3>3. (user.ok => user.at \in {"adddone", "attach", "delend"})'
      BY <1>2, <1>x DEF UserShape
    <3>4. (setup = (Adding /\ vif[user.v].kind = "dev"))'
      BY <1>2, <1>v, <1>x DEF UserShape, Adding
    <3>5. (Deleting /\ vif[user.v].kind = "net" =>
               user.i \in Ids /\ ifp[user.i].live /\ ifp[user.i].reg /\ ifp[user.i].vif = user.v)'
      <4> SUFFICES ASSUME Deleting, vif[user.v].kind = "net"
                   PROVE  user.i \in Ids /\ ifp'[user.i].live /\ ifp'[user.i].reg /\ ifp'[user.i].vif = user.v
        BY <1>2, <1>x, <1>v DEF UserShape, Deleting
      <4>1. user.i \in Ids /\ ifp[user.i].live /\ ifp[user.i].reg /\ ifp[user.i].vif = user.v
        BY <1>2 DEF UserShape
      <4>2. user.i # k /\ user.i # h
        BY <4>1, <1>g, <1>r, VifAssumption DEF Deleting
      <4> QED
        BY <4>1, <4>2, <1>i
    <3>6. (user.at = "delend" /\ user.ok =>
               /\ user.i \in Ids /\ vif[user.i].kind # "dev"
               /\ ifp[user.i].live => ~ifp[user.i].reg /\ iflist[ifp[user.i].slot] # user.i)'
      <4> SUFFICES ASSUME user.at = "delend", user.ok
                   PROVE  /\ user.i \in Ids /\ vif'[user.i].kind # "dev"
                          /\ ifp'[user.i].live => ~ifp'[user.i].reg /\ iflist'[ifp'[user.i].slot] # user.i
        BY <1>x
      <4>1. user.i \in Ids /\ vif[user.i].kind # "dev" /\ user.i # k
        BY <1>2, <1>g DEF UserShape, Leaving
      <4>2. CASE user.i = h
        BY <4>1, <4>2, <1>i, <1>v
      <4>3. CASE user.i # h
        <5>1. ifp'[user.i] = ifp[user.i] /\ vif'[user.i].kind # "dev"
          BY <4>1, <4>3, <1>i, <1>v
        <5>2. ifp[user.i].live => ifp[user.i].slot \in Slots /\ ~ifp[user.i].reg /\ iflist[ifp[user.i].slot] # user.i
          BY <4>1, <1>2 DEF Listing, UserShape
        <5>3. ifp[user.i].live => iflist'[ifp[user.i].slot] \in {k, iflist[ifp[user.i].slot]}
          BY <5>2, <1>1, <1>x DEF VifTypes
        <5> QED
          BY <4>1, <5>1, <5>2, <5>3
      <4> QED
        BY <4>2, <4>3
    <3>7. (wk.at # "idle" =>
               /\ wk.i \in Ids
               /\ ifp[wk.i].live => iflist[ifp[wk.i].slot] \in {wk.i, NoId})'
      BY <1>x
    <3> QED
      BY <3>7, <3>6, <3>5, <3>4, <3>3, <3>2, <3>1 DEF UserShape
  <2>2. Listing'
    <3>1. (\A s \in Slots : iflist[s] # NoId => ifp[iflist[s]].live /\ ifp[iflist[s]].slot = s)'
      <4> SUFFICES ASSUME NEW s \in Slots, iflist'[s] # NoId
                   PROVE  ifp'[iflist'[s]].live /\ ifp'[iflist'[s]].slot = s
        OBVIOUS
      <4>1. iflist'[s] = IF s = s0 THEN k ELSE iflist[s]
        BY <1>1, <1>x DEF VifTypes
      <4>2. CASE s = s0
        BY <4>1, <4>2, <1>i
      <4>3. CASE s # s0
        <5>1. iflist[s] \in Ids /\ ifp[iflist[s]].live /\ ifp[iflist[s]].slot = s
          BY <4>1, <4>3, <1>1, <1>2 DEF VifTypes, Listing
        <5>2. iflist[s] # k /\ iflist[s] # h
          BY <4>3, <5>1, <1>g, VifAssumption
        <5> QED
          BY <4>1, <4>3, <5>1, <5>2, <1>i
      <4> QED
        BY <4>2, <4>3
    <3>2. (\A i \in Ids : ifp[i].live =>
               ifp[i].slot \in Slots /\ (iflist[ifp[i].slot] = i \/ Leaving(i)))'
      <4> SUFFICES ASSUME NEW i \in Ids, ifp'[i].live
                   PROVE  ifp'[i].slot \in Slots /\ (iflist'[ifp'[i].slot] = i \/ Leaving(i)')
        OBVIOUS
      <4>0. \A s \in Slots : iflist'[s] = IF s = s0 THEN k ELSE iflist[s]
        BY <1>1, <1>x DEF VifTypes
      <4>1. CASE i = k
        BY <4>0, <4>1, <1>i
      <4>2. CASE i # k
        <5>1. i # h /\ ifp'[i] = ifp[i]
          BY <4>2, <1>i
        <5>2. ifp[i].slot \in Slots /\ (iflist[ifp[i].slot] = i \/ Leaving(i))
          BY <5>1, <1>2 DEF Listing
        <5>3. Leaving(i)' <=> Leaving(i)
          BY <1>x DEF Leaving
        <5> QED
          BY <4>0, <5>1, <5>2, <5>3, <1>k
      <4> QED
        BY <4>1, <4>2
    <3>3. (\A i \in Ids : ifp[i].reg => ifp[i].live /\ vif[i].kind # "dev")'
      BY <1>2, <1>i, <1>v DEF Listing
    <3>4. (\A i \in Ids : ~ifp[i].live => ifp[i].vif = NoId)'
      <4> SUFFICES ASSUME NEW i \in Ids, ~ifp'[i].live PROVE ifp'[i].vif = NoId
        OBVIOUS
      <4>1. i # k
        BY <1>i
      <4>2. CASE i = h
        BY <4>1, <4>2, <1>i
      <4>3. CASE i # h
        BY <4>1, <4>3, <1>i, <1>2 DEF Listing
      <4> QED
        BY <4>2, <4>3
    <3> QED
      BY <3>1, <3>2, <3>3, <3>4 DEF Listing
  <2>3. Pairing'
    <3> SUFFICES ASSUME NEW v \in Ids PROVE (IF ~vif[v].live THEN vif[v].ifp = NoId
        ELSE IF vif[v].ifp = NoId THEN (Adding \/ user.at = "attach") /\ user.v = v
        ELSE ifp[vif[v].ifp].live /\ ifp[vif[v].ifp].vif = v)'
      BY DEF Pairing
    <3>1. CASE v = armed
      BY <3>1, <1>5, <1>b, <1>i, VifAssumption
    <3>2. CASE v = w
      BY <3>2, <1>5, <1>b
    <3>3. CASE v # armed /\ v # w
      <4>1. vif'[v] = vif[v]
        BY <3>3, <1>5, <1>b
      <4>2. vif[v].ifp \in Ids /\ vif[v].live => ifp[vif[v].ifp].live /\ ifp[vif[v].ifp].vif = v
        BY <1>2, VifAssumption DEF Pairing
      <4>3. vif[v].ifp \in Ids /\ vif[v].live => ifp'[vif[v].ifp] = ifp[vif[v].ifp]
        BY <3>3, <4>2, <1>g, <1>i, <1>j, VifAssumption
      <4>4. vif[v].ifp \in Ids \cup {NoId}
        BY <1>1 DEF VifTypes, Vifs
      <4> QED
        BY <1>x, <1>2, <4>4, <4>3, <4>1 DEF Adding, Pairing
    <3> QED
      BY <3>1, <3>2, <3>3
  <2>4. News'
    <3>1. (\A i \in Ids : i > n => Fresh(i) /\ ~vif[i].live)'
      <4> SUFFICES ASSUME NEW i \in Ids, i > n PROVE Fresh(i)' /\ ~vif'[i].live
        BY <1>x
      <4>1. ~ifp[i].live /\ ~Leaving(i) /\ ~vif[i].live
        BY <1>2 DEF News, Fresh
      <4>2. i # k /\ i # h
        BY <4>1, <1>1, <1>g, VifAssumption DEF VifTypes
      <4>3. ifp'[i] = ifp[i] /\ ~vif'[i].live
        BY <4>1, <4>2, <1>5, <1>b, <1>i
      <4> QED
        BY <4>1, <4>3, <1>x DEF Fresh, Leaving
    <3>2. (\A s \in Slots, x \in Ids : x \in Comes[s] =>
               x <= n /\ Fresh(x) /\ (user.at = "add" => x # user.v))'
      <4> SUFFICES ASSUME NEW s \in Slots, NEW x \in Ids, x \in Comes'[s]
                   PROVE  x <= n /\ Fresh(x)' /\ (user.at = "add" => x # user.v)
        BY <1>x
      <4>1. x \in Comes[s] /\ x # k
        BY <1>q, <1>k, <1>x
      <4>2. x <= n /\ Fresh(x) /\ (user.at = "add" => x # user.v)
        BY <4>1, <1>2 DEF News
      <4>3. ~ifp[x].live /\ ~Leaving(x) /\ x # h
        BY <4>2, <1>g, VifAssumption DEF Fresh
      <4>4. ifp'[x] = ifp[x]
        BY <4>1, <4>3, <1>i
      <4> QED
        BY <4>2, <4>3, <4>4, <1>x DEF Fresh, Leaving
    <3>3. (Once)'
      BY <1>q
    <3>4. (user.at = "add" => Fresh(user.v))'
      <4> SUFFICES ASSUME user.at = "add" PROVE Fresh(user.v)'
        BY <1>x
      <4>1. user.v \in Ids /\ ~ifp[user.v].live /\ user.v # k
        BY <1>2, <1>g DEF News, Fresh, UserShape
      <4>2. user.v # h
        BY <4>1, <1>g, VifAssumption
      <4>3. ifp'[user.v] = ifp[user.v]
        BY <4>1, <4>2, <1>i
      <4> QED
        BY <4>1, <4>3, <1>x DEF Fresh, Leaving
    <3>5. (\A i \in Ids : ifp[i].vif # NoId => ifp[i].vif <= n)'
      <4> SUFFICES ASSUME NEW i \in Ids, ifp'[i].vif # NoId PROVE ifp'[i].vif <= n
        BY <1>x
      <4>1. CASE i = k
        BY <4>1, <1>i, <1>2 DEF UserShape
      <4>2. CASE i # k
        <5>1. i # h /\ ifp'[i] = ifp[i]
          BY <4>2, <1>i
        <5> QED
          BY <5>1, <1>2 DEF News
      <4> QED
        BY <4>1, <4>2
    <3>6. (\A s \in Slots : fwif[s] # NoId => fwif[s] <= n)'
      BY <1>x, <1>2 DEF News
    <3> QED
      BY <3>1, <3>2, <3>3, <3>4, <3>5, <3>6 DEF News
  <2>5. Told'
    <3>1. (\A s \in Slots, x \in Ids : x \in Comes[s] => (x \in Latest[s] <=> fwif[s] = x))'
      BY <1>2, <1>q, <1>x DEF Told
    <3>2. (\A s \in Slots : s \in Asked /\ fwif[s] # NoId => fwif[s] \in Comes[s])'
      <4> SUFFICES ASSUME NEW s \in Slots, s \in Asked', fwif[s] # NoId PROVE fwif[s] \in Comes'[s]
        BY <1>x
      <4>1. fwif[s] \in Ids /\ fwif[s] \in Comes[s]
        BY <1>1, <1>2, <1>q DEF VifTypes, Told
      <4>2. CASE s = s0 /\ fwif[s] = k
        BY <4>1, <4>2, <1>2, <1>q, <1>k, <1>x DEF Told
      <4> QED
        BY <4>1, <4>2, <1>q, <1>k
    <3>3. (\A s \in Slots : wk.at # "idle" /\ iflist[s] = wk.i => fwif[s] # wk.i)'
      BY <1>x
    <3> QED
      BY <3>1, <3>2, <3>3 DEF Told
  <2>6. Belatedly'
    <3>1. Belated' => Belated
      BY <1>q, <1>x, <1>l DEF Belated
    <3>2. ASSUME Belated', timeouts <= 1 PROVE user.at \in {"add", "addwait"}
      <4>1. CASE user.at = "add" /\ action' = "add"
        BY <4>1
      <4>2. CASE ~(user.at = "add" /\ action' = "add")
        <5>1. PICK s \in Slots, y \in Ids : y \in Comes'[s]
          BY <3>2, <4>2, <1>x DEF Belated
        <5>2. y \in Comes[s] /\ y # k
          BY <5>1, <1>q, <1>k, <1>x
        <5> QED
          BY <3>2, <5>2, <1>2, <1>g DEF OneLate, Late
      <4> QED
        BY <4>1, <4>2
    <3>3. ASSUME Belated', Sound' PROVE timeouts <= 1
      BY <3>3, <1>1, <1>x DEF VifTypes, Sound, Accidents
    <3>4. ASSUME Belated', Sound'
          PROVE  /\ \A s \in Slots, x \in Ids : /\ x \in Leaves[s] => iflist[s] = NoId
                                                /\ x \in Comes[s] => iflist[s] = NoId /\ fwif[s] = x
                 /\ \A s \in Slots : s \in Asked \/ iflist[s] = fwif[s]
      BY <1>2, <2>d, <3>4, <3>3, <3>2, <3>1 DEF Deletes, Belatedly
    <3>5. ASSUME Belated', Sound' PROVE fwif[s0] = k /\ s0 \notin Asked'
      <4>1. fwif[s0] = k
        BY <3>4, <3>5, <1>g
      <4>2. k \in Latest[s0]
        BY <4>1, <1>2, <1>g DEF Told
      <4> QED
        BY <4>1, <4>2, <1>q, <1>k, <1>x
    <3>6. \A s \in Slots : iflist'[s] = IF s = s0 THEN k ELSE iflist[s]
      BY <1>1, <1>x DEF VifTypes
    <3>7. \A s \in Slots, x \in Ids : (x \in Comes'[s] \/ x \in Leaves'[s]) => s \in Asked'
      BY DEF Asked
    <3>8. ASSUME Belated', Sound', NEW s \in Slots, NEW x \in Ids
          PROVE  /\ x \in Leaves'[s] => iflist'[s] = NoId
                 /\ x \in Comes'[s] => iflist'[s] = NoId /\ fwif'[s] = x
      BY <3>4, <3>5, <3>6, <3>7, <3>8, <1>q, <1>x
    <3>9. ASSUME Belated', Sound', NEW s \in Slots
          PROVE  s \in Asked' \/ iflist'[s] = fwif'[s]
      BY <3>4, <3>5, <3>6, <3>9, <1>q, <1>k, <1>x
    <3> QED
      BY <3>1, <3>8, <3>9, <1>2, <1>x DEF Belatedly
  <2>7. OneLate'
    <3>1. ASSUME timeouts <= 1, NEW s \in Slots, NEW x \in Ids, x \in Comes'[s], Late(x)'
          PROVE  Late(x) \/ Late(k)
      BY <3>1, <1>q, <1>k, <1>x DEF Late
    <3>2. ASSUME timeouts <= 1, NEW s \in Slots, NEW x \in Ids, x \in Comes'[s], Late(x)', Late(k)
          PROVE  user.at = "addwait" /\ x = user.v
      BY <1>x, <1>k, <1>q, <1>2, <3>2 DEF Late, OneLate
    <3>3. ASSUME timeouts <= 1, NEW s \in Slots, NEW x \in Ids, x \in Comes'[s], user.at = "add"
          PROVE  FALSE
      BY <1>x, <1>q, <1>2, <3>3 DEF Late, OneLate
    <3> QED
      BY <3>1, <3>2, <3>3, <1>2, <1>q, <1>x DEF OneLate
  <2>8. Follows'
    <3>1. ASSUME Sound', NEW s \in Slots, s \notin Asked', iflist'[s] # fwif'[s] PROVE Removing(s)'
      <4>0. iflist'[s] = IF s = s0 THEN k ELSE iflist[s]
        BY <1>1, <1>x DEF VifTypes
      <4>1. CASE s = s0
        <5>1. fwif[s] # k /\ k \notin Latest[s0]
          BY <3>1, <4>0, <4>1, <1>2, <1>x, <1>g DEF Told
        <5>2. s0 \in Asked'
          BY <5>1, <1>e, <1>k, <1>x, QueueLast
        <5> QED
          BY <3>1, <4>1, <5>2
      <4>2. CASE s # s0
        <5>1. s \notin Asked /\ iflist[s] # fwif[s]
          BY <3>1, <4>0, <4>2, <1>q, <1>k, <1>x
        <5>2. Removing(s)
          BY <5>1, <2>d, <3>1, <1>2 DEF Follows
        <5>3. Deletes(s)
          BY <5>2, <1>x DEF Removing
        <5>4. Belated
          BY <5>3, <1>l DEF Deletes
        <5> QED
          BY <5>1, <5>4, <2>d, <3>1, <1>2 DEF Belatedly
      <4> QED
        BY <4>1, <4>2
    <3>2. ASSUME Sound', NEW s \in Slots, Deletes(s)', iflist'[s] # NoId, fwif'[s] = iflist'[s]
          PROVE  (vif[user.v].kind # "net")' /\ Crossed'
      <4>0. \A t \in Slots : iflist'[t] = IF t = s0 THEN k ELSE iflist[t]
        BY <1>1, <1>x DEF VifTypes
      <4>1. /\ user.at \in {"delwait", "remove"} /\ iflist'[s] = Target' /\ user.v \in Ids /\ armed = user.v
            /\ vif'[user.v].kind = vif[user.v].kind /\ vif[user.v].live
            /\ Target' = IF vif[user.v].kind = "net" THEN user.i ELSE k
        BY <1>b, <1>v, <1>x, <1>5, <1>2, <3>2 DEF Mine, Target, UserShape, Deletes
      <4>2. Belated /\ Sound /\ ~Leaving(user.i) /\ \A y \in Ids : ~Leaving(y)
        BY <3>2, <4>1, <2>d, <1>l DEF Leaving
      <4>3. \A t \in Slots : t \in Asked \/ iflist[t] = fwif[t]
        BY <4>2, <1>2 DEF Belatedly
      <4>4. CASE vif[user.v].kind = "net"
        <5>1. user.i # k
          BY <4>1, <4>4, <1>2, <1>g DEF UserShape, Deleting
        <5>2. s # s0 /\ Deletes(s) /\ iflist[s] = iflist'[s]
          BY <5>1, <4>4, <4>1, <4>0 DEF Mine, Target, Deletes
        <5> QED
          BY <3>2, <4>2, <4>4, <5>2, <1>2, <1>x DEF Follows
      <4>5. CASE vif[user.v].kind # "net"
        <5>1. PICK t \in Ids \cup {NoId} : t = vif[user.v].ifp
          BY <4>1, <1>1 DEF VifTypes, Vifs
        <5>2. t \in Ids /\ ifp[t].live /\ ifp[t].vif = user.v /\ Target = t
          BY <1>2, <5>1, <4>5, <4>1 DEF Mine, Target, Adding, Pairing
        <5>3. ifp[t].slot \in Slots /\ iflist[ifp[t].slot] = t
          BY <4>2, <5>2, <1>2 DEF Listing
        <5>4. PICK y \in Ids : /\ ifp[y].vif = user.v /\ ifp[y].live /\ ifp[y].slot \in Asked
                               /\ ifp[y].slot \in Slots /\ iflist[ifp[y].slot] = y
          <6>1. CASE ifp[t].slot \in Asked
            BY <5>2, <5>3, <6>1
          <6>2. CASE ifp[t].slot \notin Asked
            <7>1. Deletes(ifp[t].slot) /\ iflist[ifp[t].slot] # NoId /\ fwif[ifp[t].slot] = iflist[ifp[t].slot]
              BY <4>1, <4>3, <5>2, <5>3, <6>2, VifAssumption DEF Deletes
            <7>2. Crossed
              BY <4>2, <5>3, <7>1, <1>2 DEF Follows
            <7> QED
              BY <7>2, <1>2, <1>x DEF Crossed, Pending, Listing
          <6> QED
            BY <6>1, <6>2
        <5>5. y # k /\ y # h
          BY <4>1, <5>4, <1>5, <1>g, <1>j, <1>b, VifAssumption
        <5>6. ifp'[y] = ifp[y] /\ ifp[y].slot # s0
          BY <5>4, <5>5, <1>i, <1>k
        <5>7. Pending(y, {"check"})'
          BY <4>0, <5>4, <5>6, <1>k, <1>q, <1>x DEF Pending
        <5> QED
          BY <1>x, <5>7, <5>6, <5>5, <5>4, <4>5, <4>1 DEF Crossed
      <4> QED
        BY <4>4, <4>5
    <3> QED
      BY <3>1, <3>2 DEF Follows
  <2>9. Clean'
    <3> SUFFICES ASSUME Accidents' = 0 PROVE
            /\ (\A i \in Ids : ifp[i].live => ifp[i].vif = i)'
            /\ (\A v \in Ids : vif[v].live => vif[v].ifp \in {v, NoId})'
            /\ CleanUser' /\ CleanWorker' /\ Single' /\ CleanEvents' /\ CleanList'
      BY DEF Clean
    <3>a. Accidents = 0
      BY DEF Accidents, AddEvent, counts
    <3>b. /\ \A i \in Ids : ifp[i].live => ifp[i].vif = i
          /\ \A v \in Ids : vif[v].live => vif[v].ifp \in {v, NoId}
          /\ CleanUser /\ CleanWorker /\ Single /\ CleanEvents /\ CleanList
      BY <3>a, <1>2 DEF Clean
    <3>c. user.at = "addwait" /\ k = user.v /\ armed = k /\ action # "add" /\ h = NoId /\ w = NoId
      <4>1. ~Belated
        BY <3>a, <1>1, <1>2 DEF VifTypes, Accidents, Belatedly
      <4>2. user.at = "addwait" /\ k = user.v /\ action # "add"
        BY <4>1, <1>l
      <4> QED
        BY <1>k, <1>j, <1>g, <1>2, <4>2, <3>b DEF UserShape, CleanEvents
    <3>d. \A s \in Slots, x \in Ids : x \notin Comes'[s]
      <4>1. ~Belated
        BY <3>a, <1>1, <1>2 DEF VifTypes, Accidents, Belatedly
      <4> QED
        BY <3>c, <4>1, <1>q, <1>k, <1>x DEF Belated
    <3>e. fwif[s0] = k /\ s0 \notin Asked'
      BY <1>x, <1>k, <1>q, <1>2, <3>b DEF Told, CleanEvents
    <3>f. \A s \in Slots : iflist'[s] = IF s = s0 THEN k ELSE iflist[s]
      BY <1>1, <1>x DEF VifTypes
    <3>1. (\A i \in Ids : ifp[i].live => ifp[i].vif = i)'
      <4> SUFFICES ASSUME NEW i \in Ids, ifp'[i].live PROVE ifp'[i].vif = i
        OBVIOUS
      <4>1. CASE i = k
        BY <4>1, <1>i, <3>c
      <4>2. CASE i # k
        <5>1. i # h /\ ifp'[i] = ifp[i]
          BY <4>2, <1>i
        <5> QED
          BY <5>1, <3>b
      <4> QED
        BY <4>1, <4>2
    <3>2. (\A v \in Ids : vif[v].live => vif[v].ifp \in {v, NoId})'
      <4> SUFFICES ASSUME NEW v \in Ids, vif'[v].live PROVE vif'[v].ifp \in {v, NoId}
        OBVIOUS
      <4>1. CASE v = armed
        BY <4>1, <1>5, <1>b, <3>c
      <4>2. CASE v # armed
        <5>1. v # w /\ vif'[v] = vif[v]
          BY <4>2, <1>5, <1>b, <3>c, VifAssumption
        <5> QED
          BY <5>1, <3>b
      <4> QED
        BY <4>1, <4>2
    <3>3. CleanUser'
      <4>1. (Changing => user.at = "chwait" /\ action # "change")'
        BY <1>q, <3>b, <3>c DEF CleanUser
      <4>2. (action = "change" => user.at = "chwait")'
        BY <1>x
      <4>3. (Adding => vif[user.v].live)'
        BY <1>5, <1>x, <1>b, <3>c
      <4>4. (user.at = "addwait" /\ action = "add" => Own(user.v))'
        BY <1>5, <1>x, <1>i, <1>b, <3>c DEF Own
      <4>5. (user.at = "adddone" /\ user.ok => Own(user.v))'
        BY <1>x, <3>c
      <4>6. (user.at = "attach" => Own(user.v))'
        BY <1>x, <3>c
      <4>7. (Deleting => Own(user.v) /\ Target = user.v)'
        BY <1>x, <3>c DEF Deleting
      <4>8. (user.at \in {"change", "chwait"} => Own(user.v))'
        BY <1>x, <3>c
      <4>9. (user.at = "delend" => user.i = user.v /\ (user.ok => Own(user.v)))'
        BY <1>x, <3>c
      <4>10. (conn # NoId =>
                  Own(conn) /\ vif[conn].kind = "p2p" /\ (Adding \/ user.at = "attach" => conn # user.v))'
        BY <1>1, <1>5, <1>x, <1>g, <1>i, <1>b, <3>b, <3>c DEF VifTypes, CleanUser, Own
      <4> QED
        BY <4>10, <4>9, <4>8, <4>7, <4>6, <4>5, <4>4, <4>3, <4>2, <4>1 DEF CleanUser
    <3>4. CleanWorker'
      BY <1>x DEF CleanWorker
    <3>5. Single'
      BY <1>q, <3>b
    <3>6. CleanEvents'
      BY <1>q, <3>f, <3>e, <3>d, <3>c, <3>b DEF Asked, Deletes, CleanEvents
    <3>7. CleanList'
      BY <3>b, <3>c, <3>e, <3>f, <1>x DEF CleanList, Deletes
    <3> QED
      BY <3>1, <3>2, <3>3, <3>4, <3>5, <3>6, <3>7
  <2> QED
    BY <2>9, <2>8, <2>7, <2>6, <2>5, <2>4, <2>3, <2>2, <2>1 DEF VifCore
<1> QED
  BY <1>3, <1>4, <1>5 DEF VifInv

\* The worker announces a removal to whoever waits.
LEMMA DelEventKeeps == ASSUME VifInv, DelEvent PROVE VifInv'
<1>1. VifTypes /\ ~fault /\ VifCore /\ NoFault
  BY DEF Event, DelEvent, VifInv
<1>2. /\ UserShape /\ Listing /\ Pairing /\ News /\ Told
      /\ Belatedly /\ OneLate /\ Follows /\ Clean
  BY <1>1 DEF VifCore
<1>e. PICK e : e = Head(queue) /\ queue # <<>> /\ queue' = Tail(queue) /\ queue \in Seq(Events) /\ Once
  BY <1>2, <1>1 DEF Event, DelEvent, News, VifTypes
<1>q. /\ e = Head(queue)
      /\ e.act \in Acts /\ e.slot \in Slots /\ e.id \in Ids /\ queue' \in Seq(Events)
      /\ e.act = "add" => e.id \in Comes[e.slot]
      /\ e.act = "del" => e.id \in Leaves[e.slot]
      /\ e.act = "change" => Changing
      /\ \A s \in Slots, x \in Ids :
           /\ x \in Comes'[s] => x \in Comes[s] /\ ~(e.act = "add" /\ e.id = x)
                                 /\ (x \in Latest'[s] <=> x \in Latest[s])
           /\ x \in Leaves'[s] => x \in Leaves[s]
           /\ x \in Comes[s] => x \in Comes'[s] \/ (e.act = "add" /\ e.slot = s /\ e.id = x)
           /\ x \in Leaves[s] => x \in Leaves'[s] \/ (e.act = "del" /\ e.slot = s /\ e.id = x)
           /\ e.act = "del" /\ e.slot \in Finals => x \notin Comes'[s]
      /\ \A s \in Slots :
           /\ s \in Asked' => s \in Asked
           /\ s \in Asked => s \in Asked' \/ (e.slot = s /\ e.act # "change")
           /\ s \in Finals => s \in Finals'
      /\ e.act # "change" => e.slot \in Asked
      /\ e.act = "add" /\ e.id \in Latest[e.slot] => e.slot \notin Asked'
      /\ Changing' => Changing
      /\ e.act = "change" /\ Single => ~Changing'
      /\ Once' /\ (Single => Single')
  BY <1>e, QueueServed
<1>0. /\ wk.at = "idle" /\ e.act = "del" /\ iflist[e.slot] # NoId /\ action' = "del"
      /\ wk' = [at |-> "check", i |-> iflist[e.slot]]
      /\ vif' = vif /\ ifp' = ifp /\ iflist' = iflist /\ armed' = armed /\ conn' = conn
      /\ p2pdev' = p2pdev /\ setup' = setup /\ fwif' = fwif /\ old' = old
      /\ user' = user /\ n' = n /\ timeouts' = timeouts /\ fails' = fails
      /\ unasked' = unasked /\ stray' = stray /\ late' = late /\ fault' = fault
  BY <1>q DEF counts, p2p, objects, Here, Event, DelEvent
<1>x. /\ wk.at = "idle" /\ e.act = "del" /\ iflist[e.slot] # NoId /\ action' = "del"
      /\ wk'.at = "check" /\ wk'.i = iflist[e.slot] /\ Target' = Target
      /\ UNCHANGED <<vif, ifp, iflist, fwif, user, timeouts, unasked, stray, armed>>
  BY <1>q DEF Mine, Target, counts, objects, Here, Event, DelEvent
<1>3. VifTypes'
  <2>1. /\ vif' \in [Ids -> Vifs]
        /\ ifp' \in [Ids -> Ifps]
        /\ iflist' \in [Slots -> Ids \cup {NoId}]
        /\ armed' \in Ids \cup {NoId}
        /\ conn' \in Ids \cup {NoId}
        /\ p2pdev' \in Ids \cup {NoId}
        /\ setup' \in BOOLEAN
        /\ fwif' \in [Slots -> Ids \cup {NoId}]
        /\ old' \in BOOLEAN
        /\ user' \in [at : {"idle", "add", "addwait", "adddone", "attach", "del", "delwait", "remove",
                            "delend", "change", "chwait"},
                      v : Ids \cup {NoId}, i : Ids \cup {NoId}, ok : BOOLEAN]
        /\ n' \in Nat
        /\ timeouts' \in Nat
        /\ fails' \in Nat
        /\ unasked' \in Nat
        /\ stray' \in BOOLEAN
        /\ late' \in BOOLEAN
        /\ fault' \in BOOLEAN
    BY <1>1, <1>0 DEF VifTypes
  <2>2. action' \in {"none", "add", "del", "change"}
    BY <1>0
  <2>3. queue' \in Seq(Events)
    BY <1>1, <1>q
  <2>4. wk' \in [at : {"idle", "check", "remove"}, i : Ids \cup {NoId}]
    BY <1>0, <1>q, <1>1 DEF VifTypes
  <2> QED
    BY <2>1, <2>2, <2>3, <2>4 DEF VifTypes
<1>4. NoFault'
  BY <1>1, <1>0 DEF VifTypes, NoFault
<1>5. ASSUME ~fault' PROVE VifCore'
  <2>d. Sound' => Sound
    BY <1>0, <1>q, <1>2
      DEF Listing, Mine, Target, Leaving, Freeing, Meets, Pending, Accidents, Doomed, Sound
  <2>1. UserShape'
    BY <1>0, <1>q, <1>2, <1>1 DEF Listing, Deleting, Adding, UserShape, VifTypes
  <2>2. Listing'
    BY <1>2, <1>x DEF Listing, Leaving
  <2>3. Pairing'
    BY <1>2, <1>x DEF Pairing, Adding
  <2>4. News'
    BY <1>0, <1>q, <1>2 DEF Listing, Leaving, Fresh, News
  <2>5. Told'
    <3>1. (\A s \in Slots, x \in Ids : x \in Comes[s] => (x \in Latest[s] <=> fwif[s] = x))'
      BY <1>1, <1>2, <1>q, <1>x DEF VifTypes, Told
    <3>2. (\A s \in Slots : s \in Asked /\ fwif[s] # NoId => fwif[s] \in Comes[s])'
      BY <1>1, <1>2, <1>q, <1>x DEF VifTypes, Told
    <3>3. (\A s \in Slots : wk.at # "idle" /\ iflist[s] = wk.i => fwif[s] # wk.i)'
      <4>1. fwif[e.slot] # iflist[e.slot]
        BY <1>x, <1>q, <1>2, <1>1 DEF Listing, Fresh, News, Told, VifTypes
      <4> QED
        BY <4>1, <1>2, <1>q, <1>x DEF Listing
    <3> QED
      BY <3>1, <3>2, <3>3 DEF Told
  <2>6. Belatedly'
    <3> SUFFICES ASSUME Belated' PROVE
            /\ timeouts' >= 1
            /\ Sound' =>
                 /\ (\A s \in Slots, x \in Ids :
                      /\ x \in Leaves[s] => iflist[s] = NoId \/ (Deletes(s) /\ s \in Finals)
                      /\ x \in Comes[s] => iflist[s] = NoId /\ fwif[s] = x)'
                 /\ (\A s \in Slots :
                      /\ s \in Asked \/ iflist[s] = fwif[s]
                      /\ wk.at # "idle" => iflist[s] # wk.i)'
      BY DEF Belatedly
    <3>p. Belated
      BY <1>q, <1>x DEF Belated
    <3>n. ~Sound'
      <4>1. Sound => e.slot \in Finals
        BY <3>p, <1>2, <1>q, <1>x DEF Belatedly
      <4> QED
        BY <4>1, <2>d, <1>q, <1>x DEF Belated
    <3>1. timeouts' >= 1
      BY <3>p, <1>2, <1>x DEF Belatedly
    <3>2. ASSUME Sound', NEW s \in Slots, NEW x \in Ids, x \in Leaves'[s]
          PROVE  iflist'[s] = NoId \/ (Deletes(s)' /\ s \in Finals')
      BY <3>n, <3>2
    <3>3. ASSUME Sound', NEW s \in Slots, NEW x \in Ids, x \in Comes'[s]
          PROVE  iflist'[s] = NoId /\ fwif'[s] = x
      BY <3>n, <3>3
    <3>4. ASSUME Sound', NEW s \in Slots, s \notin Asked' PROVE iflist'[s] = fwif'[s]
      BY <3>n, <3>4
    <3>5. ASSUME Sound', NEW s \in Slots, wk'.at # "idle" PROVE iflist'[s] # wk'.i
      BY <3>n, <3>5
    <3> QED
      BY <3>1, <3>2, <3>3, <3>4, <3>5
  <2>7. OneLate'
    BY <1>2, <1>q, <1>x DEF VifTypes, OneLate, Late
  <2>8. Follows'
    <3>1. ASSUME Sound', NEW s \in Slots, s \notin Asked', iflist'[s] # fwif'[s] PROVE Removing(s)'
      <4>1. CASE s = e.slot
        <5>1. fwif[s] = NoId
          BY <1>x, <1>q, <1>2, <1>1, <4>1, <3>1 DEF VifTypes, Asked, Told
        <5> QED
          BY <4>1, <5>1, <1>x DEF Removing
      <4>2. CASE s # e.slot
        <5>1. Removing(s)
          BY <3>1, <4>2, <1>2, <1>q, <1>x, <2>d DEF Follows
        <5> QED
          BY <5>1, <1>x DEF Removing, Deletes
      <4> QED
        BY <4>1, <4>2
    <3>2. ASSUME Sound', NEW s \in Slots, Deletes(s)', iflist'[s] # NoId, fwif'[s] = iflist'[s]
          PROVE  (vif[user.v].kind # "net")' /\ Crossed'
      <4>1. Deletes(s) /\ fwif[s] = iflist[s] /\ iflist[s] # NoId
        BY <3>2, <1>x DEF Deletes
      <4>2. vif[user.v].kind # "net" /\ Crossed
        BY <4>1, <3>2, <2>d, <1>2 DEF Follows
      <4>3. PICK x \in Ids : x # Target /\ ifp[x].vif = user.v /\ Pending(x, {"check"})
        BY <4>2 DEF Crossed
      <4>4. ifp[x].slot \in Slots
        BY <4>3, <1>2 DEF Pending, Listing
      <4>5. Pending(x, {"check"})'
        BY <4>3, <4>4, <1>q, <1>x DEF Pending
      <4> QED
        BY <4>2, <4>3, <4>5, <1>x DEF Crossed
    <3> QED
      BY <3>1, <3>2 DEF Follows
  <2>9. Clean'
    <3> SUFFICES ASSUME Accidents' = 0 PROVE
            /\ (\A i \in Ids : ifp[i].live => ifp[i].vif = i)'
            /\ (\A v \in Ids : vif[v].live => vif[v].ifp \in {v, NoId})'
            /\ CleanUser' /\ CleanWorker' /\ Single' /\ CleanEvents' /\ CleanList'
      BY DEF Clean
    <3>a. Accidents = 0
      BY DEF counts, DelEvent, Accidents
    <3>b. /\ \A i \in Ids : ifp[i].live => ifp[i].vif = i
          /\ \A v \in Ids : vif[v].live => vif[v].ifp \in {v, NoId}
          /\ CleanUser /\ CleanWorker /\ Single /\ CleanEvents /\ CleanList
      BY <3>a, <1>2 DEF Clean
    <3>1. (\A i \in Ids : ifp[i].live => ifp[i].vif = i)'
      BY VifAssumption, <1>1, <1>2, <1>q, <1>0, <3>b DEF VifTypes
    <3>2. (\A v \in Ids : vif[v].live => vif[v].ifp \in {v, NoId})'
      BY VifAssumption, <1>1, <1>2, <1>q, <1>0, <3>b DEF VifTypes
    <3>3. CleanUser'
      <4>1. (Changing => user.at = "chwait" /\ action # "change")'
        BY <3>b, <1>0, <1>q DEF CleanUser
      <4>2. (action = "change" => user.at = "chwait")'
        BY <1>0
      <4>3. (Adding => vif[user.v].live)'
        BY <3>b, <1>0 DEF Adding, CleanUser
      <4>4. (user.at = "addwait" /\ action = "add" => Own(user.v))'
        BY <1>0
      <4>5. (user.at = "adddone" /\ user.ok => Own(user.v))'
        BY <3>b, <1>0 DEF Own, CleanUser
      <4>6. (user.at = "attach" => Own(user.v))'
        BY <3>b, <1>0 DEF Own, CleanUser
      <4>7. (Deleting => Own(user.v) /\ Target = user.v)'
        BY <3>b, <1>0 DEF Mine, Target, Deleting, Own, CleanUser
      <4>8. (user.at \in {"change", "chwait"} => Own(user.v))'
        BY <3>b, <1>0 DEF Own, CleanUser
      <4>9. (user.at = "delend" => user.i = user.v /\ (user.ok => Own(user.v)))'
        BY <3>b, <1>0 DEF Own, CleanUser
      <4>10. (conn # NoId =>
                  Own(conn) /\ vif[conn].kind = "p2p" /\ (Adding \/ user.at = "attach" => conn # user.v))'
        BY <3>b, <1>0 DEF Adding, Own, CleanUser
      <4> QED
        BY <4>10, <4>9, <4>8, <4>7, <4>6, <4>5, <4>4, <4>3, <4>2, <4>1 DEF CleanUser
    <3>4. CleanWorker'
      <4>1. Deletes(e.slot) /\ Target = user.v
        BY <3>b, <1>q, <1>x DEF CleanEvents, CleanUser, Deletes, Deleting
      <4> QED
        BY <4>1, <1>x DEF CleanWorker, Deletes
    <3>5. Single'
      BY VifAssumption, <1>1, <1>2, <1>q, <1>0, <3>b
    <3>6. CleanEvents'
      BY <3>b, <1>0, <1>q DEF Mine, Target, Deletes, CleanEvents
    <3>7. CleanList'
      BY <3>b, <1>0 DEF Mine, Target, Deletes, CleanList
    <3> QED
      BY <3>1, <3>2, <3>3, <3>4, <3>5, <3>6, <3>7
  <2> QED
    BY <2>9, <2>8, <2>7, <2>6, <2>5, <2>4, <2>3, <2>2, <2>1 DEF VifCore
<1> QED
  BY <1>3, <1>4, <1>5 DEF VifInv

\* The worker leaves the interface to whoever waits, or sees that it is on the list.
LEMMA DelCheckKeeps == ASSUME VifInv, DelCheck PROVE VifInv'
<1>1. VifTypes /\ ~fault /\ VifCore /\ NoFault
  BY DEF DelCheck, VifInv
<1>2. /\ UserShape /\ Listing /\ Pairing /\ News /\ Told
      /\ Belatedly /\ OneLate /\ Follows /\ Clean
  BY <1>1 DEF VifCore
<1>q. /\ Comes' = Comes /\ Leaves' = Leaves /\ Latest' = Latest
      /\ Asked' = Asked /\ Finals' = Finals /\ Changing' = Changing
      /\ Once' = Once /\ Single' = Single /\ queue' = queue
  <2>1. queue' = queue
    BY DEF DelCheck
  <2> QED
    BY <2>1, QueueKept
<1>0. /\ wk.at = "check" /\ (fault' => armed = NoId) /\ fault' \in BOOLEAN /\ late' = fault' /\ fault' = (armed = NoId /\ ~ifp[wk.i].live)
      /\ stray' = (stray \/ (armed # NoId /\ ~Answers(wk.i) /\ wk.i \in Listed))
      /\ wk' = IF armed = NoId /\ ifp[wk.i].live /\ iflist[ifp[wk.i].slot] = wk.i
               THEN [wk EXCEPT !.at = "remove"] ELSE [at |-> "idle", i |-> NoId]
      /\ vif' = vif /\ ifp' = ifp /\ iflist' = iflist /\ armed' = armed
      /\ action' = action /\ conn' = conn /\ p2pdev' = p2pdev /\ setup' = setup
      /\ fwif' = fwif /\ old' = old /\ user' = user /\ n' = n /\ timeouts' = timeouts
      /\ fails' = fails /\ unasked' = unasked
  BY <1>1 DEF counts, p2p, event, objects, Listening, Unattended, DelCheck, VifTypes
<1>x. /\ wk.at = "check" /\ UNCHANGED <<vif, ifp, iflist, fwif, user, timeouts, unasked, armed, action>>
      /\ Target' = Target
      /\ stray' = (stray \/ (armed # NoId /\ ~Answers(wk.i) /\ wk.i \in Listed))
  BY DEF DelCheck, objects, event, counts, Target, Mine
<1>y. ASSUME ~fault'
      PROVE  \/ armed = NoId /\ ifp[wk.i].live /\ iflist[ifp[wk.i].slot] = wk.i /\ wk'.at = "remove" /\ wk'.i = wk.i
             \/ armed = NoId /\ ifp[wk.i].live /\ iflist[ifp[wk.i].slot] # wk.i /\ wk'.at = "idle" /\ wk'.i = NoId
             \/ armed # NoId /\ wk'.at = "idle" /\ wk'.i = NoId
  BY <1>1, <1>y DEF VifTypes, DelCheck, Unattended, Listening
<1>3. VifTypes'
  <2>1. /\ vif' \in [Ids -> Vifs]
        /\ ifp' \in [Ids -> Ifps]
        /\ iflist' \in [Slots -> Ids \cup {NoId}]
        /\ armed' \in Ids \cup {NoId}
        /\ action' \in {"none", "add", "del", "change"}
        /\ conn' \in Ids \cup {NoId}
        /\ p2pdev' \in Ids \cup {NoId}
        /\ setup' \in BOOLEAN
        /\ fwif' \in [Slots -> Ids \cup {NoId}]
        /\ old' \in BOOLEAN
        /\ user' \in [at : {"idle", "add", "addwait", "adddone", "attach", "del", "delwait", "remove",
                            "delend", "change", "chwait"},
                      v : Ids \cup {NoId}, i : Ids \cup {NoId}, ok : BOOLEAN]
        /\ n' \in Nat
        /\ timeouts' \in Nat
        /\ fails' \in Nat
        /\ unasked' \in Nat
    BY <1>1, <1>0 DEF VifTypes
  <2>2. queue' \in Seq(Events)
    BY <1>1, <1>q DEF VifTypes
  <2>3. wk' \in [at : {"idle", "check", "remove"}, i : Ids \cup {NoId}]
    BY <1>0, <1>1 DEF VifTypes
  <2>4. stray' \in BOOLEAN
    BY <1>0
  <2>5. late' \in BOOLEAN
    BY <1>0
  <2>6. fault' \in BOOLEAN
    BY <1>0
  <2> QED
    BY <2>1, <2>2, <2>3, <2>4, <2>5, <2>6 DEF VifTypes
<1>4. NoFault'
  BY <1>1, <1>0 DEF VifTypes, NoFault
<1>5. ASSUME ~fault' PROVE VifCore'
  <2>d. Sound' => Sound
    <3> SUFFICES ASSUME Sound', NEW x \in Ids, ifp[x].vif # NoId,
                        \/ ~vif[ifp[x].vif].live /\ (Pending(x, {"check", "remove"}) \/ Meets(x) \/ Leaving(x))
                        \/ ~Leaving(x) /\ Freeing(ifp[x].vif) /\ Pending(x, {"check"})
                 PROVE  Doomed'
      BY <1>1, <1>x DEF Sound, Doomed, Accidents, VifTypes
    <3>1. ASSUME iflist[ifp[x].slot] = x, ifp[x].live, wk.i = x
          PROVE  \/ wk'.at = "remove" /\ wk'.i = x /\ armed = NoId
                 \/ user.at \in {"delwait", "remove"} /\ Target = x
      <4>1. ifp[x].slot \in Slots
        BY <3>1, <1>2 DEF Listing
      <4>2. x \in Listed
        BY <3>1, <4>1, VifAssumption DEF Listed
      <4> QED
        BY <3>1, <4>2, <1>x, <1>5, <1>y DEF Sound, Answers
    <3>2. user.at = "delend" => armed # NoId
      BY <1>2, VifAssumption DEF UserShape
    <3> QED
      BY <1>q, <1>x, <3>2, <3>1 DEF Leaving, Freeing, Meets, Pending, Doomed
  <2>1. UserShape'
    BY <1>0, <1>2 DEF Deleting, Adding, UserShape
  <2>2. Listing'
    BY <1>0, <1>2 DEF Leaving, Listing
  <2>3. Pairing'
    BY <1>0, <1>2 DEF Adding, Pairing
  <2>4. News'
    BY <1>0, <1>q, <1>2 DEF Leaving, Fresh, News
  <2>5. Told'
    BY VifAssumption, <1>1, <1>2, <1>q, <1>0 DEF VifTypes, Told
  <2>6. Belatedly'
    BY <2>d, <1>0, <1>q, <1>2 DEF Mine, Target, Deletes, Belated, Belatedly
  <2>7. OneLate'
    BY <1>2, <1>q, <1>x DEF VifTypes, OneLate, Late
  <2>8. Follows'
    <3>1. ASSUME Sound', NEW s \in Slots, s \notin Asked', iflist'[s] # fwif'[s] PROVE Removing(s)'
      <4>1. Removing(s)
        BY <3>1, <1>q, <1>x, <1>2, <2>d DEF Follows
      <4>2. ASSUME wk.i = iflist[s]
            PROVE  \/ wk'.at = "remove" /\ wk'.i = iflist[s]
                   \/ Answers(wk.i)
        <5>1. ifp[wk.i].live /\ ifp[wk.i].slot = s /\ wk.i \in Listed
          BY <4>1, <4>2, <1>2, VifAssumption DEF Removing, Listing, Listed
        <5> QED
          BY <3>1, <4>2, <5>1, <1>5, <1>x, <1>y DEF Sound
      <4>3. ASSUME wk.i = iflist[s], Answers(wk.i)
            PROVE  user.at = "remove" \/ action = "del" \/ Accidents >= 1
        <5>1. ifp[wk.i].live
          BY <4>1, <4>3, <1>2, VifAssumption DEF Removing, Listing
        <5>2. Accidents = 0 => CleanWorker
          BY <1>2 DEF Clean
        <5>3. Accidents \in Nat
          BY <1>1 DEF VifTypes, Accidents
        <5> QED
          BY <1>x, <4>3, <5>3, <5>2, <5>1 DEF Leaving, Answers, CleanWorker
      <4>4. user.at \in {"delwait", "remove"} => wk'.at = "idle"
        BY <1>5, <1>2, <1>y, VifAssumption DEF UserShape
      <4>5. CASE wk.at # "idle" /\ wk.i = iflist[s]
        BY <1>x, <4>4, <4>3, <4>2, <4>1 DEF Accidents, Answers, Deletes, Removing
      <4>6. CASE Deletes(s) /\ ~(wk.at # "idle" /\ wk.i = iflist[s])
        BY <4>1, <4>4, <4>6, <1>x DEF Removing, Deletes, Accidents
      <4> QED
        BY <4>1, <4>5, <4>6 DEF Removing
    <3>2. ASSUME Sound', NEW s \in Slots, Deletes(s)', iflist'[s] # NoId, fwif'[s] = iflist'[s]
          PROVE  (vif[user.v].kind # "net")' /\ Crossed'
      <4>1. Deletes(s) /\ iflist[s] # NoId /\ fwif[s] = iflist[s]
        BY <3>2, <1>x DEF Deletes
      <4>2. vif[user.v].kind # "net" /\ Crossed
        BY <3>2, <4>1, <1>2, <2>d DEF Follows
      <4>3. PICK y \in Ids : y # Target /\ ifp[y].vif = user.v /\ Pending(y, {"check"})
        BY <4>2 DEF Crossed
      <4>4. y \in Listed /\ armed # NoId
        BY VifAssumption, <1>2, <4>3, <4>1 DEF UserShape, Deletes, Listed, Listing, Pending
      <4>5. wk.i # y
        BY <3>2, <4>3, <4>4, <1>x DEF Sound, Answers
      <4>6. Pending(y, {"check"})'
        BY <4>3, <4>5, <1>x, <1>q DEF Pending
      <4> QED
        BY <4>2, <4>3, <4>6, <1>x DEF Crossed
    <3> QED
      BY <3>1, <3>2 DEF Follows
  <2>9. Clean'
    <3> SUFFICES ASSUME Accidents' = 0 PROVE
            /\ (\A i \in Ids : ifp[i].live => ifp[i].vif = i)'
            /\ (\A v \in Ids : vif[v].live => vif[v].ifp \in {v, NoId})'
            /\ CleanUser' /\ CleanWorker' /\ Single' /\ CleanEvents' /\ CleanList'
      BY DEF Clean
    <3>a. Accidents = 0
      BY DEF counts, DelCheck, Accidents
    <3>b. /\ \A i \in Ids : ifp[i].live => ifp[i].vif = i
          /\ \A v \in Ids : vif[v].live => vif[v].ifp \in {v, NoId}
          /\ CleanUser /\ CleanWorker /\ Single /\ CleanEvents /\ CleanList
      BY <3>a, <1>2 DEF Clean
    <3>1. (\A i \in Ids : ifp[i].live => ifp[i].vif = i)'
      BY VifAssumption, <1>1, <1>2, <1>q, <1>0, <3>b DEF VifTypes
    <3>2. (\A v \in Ids : vif[v].live => vif[v].ifp \in {v, NoId})'
      BY VifAssumption, <1>1, <1>2, <1>q, <1>0, <3>b DEF VifTypes
    <3>3. CleanUser'
      <4>1. (Changing => user.at = "chwait" /\ action # "change")'
        BY <3>b, <1>0, <1>q DEF CleanUser
      <4>2. (action = "change" => user.at = "chwait")'
        BY <3>b, <1>0 DEF CleanUser
      <4>3. (Adding => vif[user.v].live)'
        BY <3>b, <1>0 DEF Adding, CleanUser
      <4>4. (user.at = "addwait" /\ action = "add" => Own(user.v))'
        BY <3>b, <1>0 DEF Own, CleanUser
      <4>5. (user.at = "adddone" /\ user.ok => Own(user.v))'
        BY <3>b, <1>0 DEF Own, CleanUser
      <4>6. (user.at = "attach" => Own(user.v))'
        BY <3>b, <1>0 DEF Own, CleanUser
      <4>7. (Deleting => Own(user.v) /\ Target = user.v)'
        BY <3>b, <1>0 DEF Mine, Target, Deleting, Own, CleanUser
      <4>8. (user.at \in {"change", "chwait"} => Own(user.v))'
        BY <3>b, <1>0 DEF Own, CleanUser
      <4>9. (user.at = "delend" => user.i = user.v /\ (user.ok => Own(user.v)))'
        BY <3>b, <1>0 DEF Own, CleanUser
      <4>10. (conn # NoId =>
                  Own(conn) /\ vif[conn].kind = "p2p" /\ (Adding \/ user.at = "attach" => conn # user.v))'
        BY <3>b, <1>0 DEF Adding, Own, CleanUser
      <4> QED
        BY <4>10, <4>9, <4>8, <4>7, <4>6, <4>5, <4>4, <4>3, <4>2, <4>1 DEF CleanUser
    <3>4. CleanWorker'
      BY <3>b, <1>0, <1>2, VifAssumption DEF UserShape, Leaving, CleanWorker
    <3>5. Single'
      BY VifAssumption, <1>1, <1>2, <1>q, <1>0, <3>b
    <3>6. CleanEvents'
      BY <3>b, <1>0, <1>q DEF Mine, Target, Deletes, CleanEvents
    <3>7. CleanList'
      BY <3>b, <1>0 DEF Mine, Target, Deletes, CleanList
    <3> QED
      BY <3>1, <3>2, <3>3, <3>4, <3>5, <3>6, <3>7
  <2> QED
    BY <2>9, <2>8, <2>7, <2>6, <2>5, <2>4, <2>3, <2>2, <2>1 DEF VifCore
<1> QED
  BY <1>3, <1>4, <1>5 DEF VifInv

\* The worker removes the interface (brcmf_remove_interface, brcmf_del_if).
LEMMA WorkerRemovesKeeps == ASSUME VifInv, WorkerRemoves PROVE VifInv'
<1>1. VifTypes /\ ~fault /\ VifCore /\ NoFault
  BY DEF WorkerRemoves, VifInv
<1>2. /\ UserShape /\ Listing /\ Pairing /\ News /\ Told
      /\ Belatedly /\ OneLate /\ Follows /\ Clean
  BY <1>1 DEF VifCore
<1>q. /\ Comes' = Comes /\ Leaves' = Leaves /\ Latest' = Latest
      /\ Asked' = Asked /\ Finals' = Finals /\ Changing' = Changing
      /\ Once' = Once /\ Single' = Single /\ queue' = queue
  <2>1. queue' = queue
    BY DEF WorkerRemoves
  <2> QED
    BY <2>1, QueueKept
<1>a. PICK g \in Ids : g = wk.i
  BY <1>2 DEF UserShape, WorkerRemoves
<1>0. /\ wk.at = "remove" /\ wk'.at = "idle" /\ wk'.i = NoId
      /\ UNCHANGED <<armed, action, conn, setup, fwif, old, user, n, timeouts, unasked, stray>> /\ fails' = fails
  BY DEF counts, event, Listening, WorkerRemoves
<1>n. NoFault'
  <2>1. Accidents # 0
    BY <1>2, <1>0 DEF Clean, CleanWorker
  <2> QED
    BY <2>1, <1>1, <1>0 DEF VifTypes, Accidents, NoFault
<1>g. ~ifp[g].live => fault' = TRUE /\ late' = TRUE /\ vif' = vif /\ ifp' = ifp /\ iflist' = iflist /\ p2pdev' = p2pdev
  BY <1>a DEF WorkerRemoves, objects
<1>h. ifp[g].live => /\ iflist' = [iflist EXCEPT ![ifp[g].slot] = NoId]
                     /\ vif' = Detached(g, vif) /\ ifp' = [ifp EXCEPT ![g] = NoIf]
                     /\ p2pdev' \in {NoId, p2pdev} /\ late' = late
                     /\ fault' = (Dangling(g) \/ (NoNdev(g) /\ ifp[g].vif = NoId))
  BY <1>a DEF WorkerRemoves
<1>i. ifp[g].live => /\ ifp' \in [Ids -> Ifps] /\ ~ifp'[g].live /\ ifp'[g].vif = NoId /\ ~ifp'[g].reg
                     /\ \A u \in Ids : u # g => ifp'[u] = ifp[u]
  BY <1>1, <1>h, NoIfFacts DEF VifTypes
<1>v. ifp[g].live => /\ vif' \in [Ids -> Vifs]
                     /\ \A u \in Ids : vif'[u].kind = vif[u].kind
                     /\ \A u \in Ids : u # ifp[g].vif => vif'[u] = vif[u]
                     /\ \A u \in Ids : u = ifp[g].vif => ~vif'[u].live /\ vif'[u].ifp = NoId
  <2>1. CASE ifp[g].live /\ ifp[g].vif # NoId
    <3>1. PICK w \in Ids : w = ifp[g].vif
      BY <2>1, <1>1 DEF VifTypes, Ifps
    <3>2. vif' = Freed(w)
      BY <2>1, <3>1, <1>h DEF Detached, Freed
    <3>3. /\ vif' \in [Ids -> Vifs] /\ ~vif'[w].live /\ vif'[w].ifp = NoId
          /\ \A u \in Ids : u # w => vif'[u] = vif[u]
          /\ \A u \in Ids : vif'[u].kind = vif[u].kind
      BY <3>2, <1>1, FreedFacts
    <3> QED
      BY <3>1, <3>3
  <2>2. CASE ifp[g].live /\ ifp[g].vif = NoId
    <3>1. vif' = vif
      BY <2>2, <1>h DEF Detached
    <3> QED
      BY <2>2, <3>1, <1>1, VifAssumption DEF VifTypes
  <2> QED
    BY <2>1, <2>2
<1>b. ASSUME ~fault'
      PROVE  /\ ifp[g].live /\ ifp[g].slot \in Slots /\ iflist[ifp[g].slot] \in {g, NoId}
             /\ \A u \in Ids : u = ifp[g].vif => vif[u].live
             /\ \A s \in Slots : /\ iflist[s] = g => s = ifp[g].slot
                                 /\ s # ifp[g].slot => iflist'[s] = iflist[s]
                                 /\ s = ifp[g].slot => iflist'[s] = NoId
             /\ \A u \in Ids : ifp[u].live /\ ifp[u].slot = ifp[g].slot /\ iflist[ifp[u].slot] = u => u = g
  <2>1. ifp[g].live /\ ifp[g].slot \in Slots
    BY <1>b, <1>g, <1>2 DEF Listing
  <2>2. iflist[ifp[g].slot] \in {g, NoId}
    BY <2>1, <1>0, <1>a, <1>2 DEF UserShape
  <2>3. \A u \in Ids : u = ifp[g].vif => vif[u].live
    BY <1>b, <2>1, <1>h, VifAssumption DEF Dangling
  <2>4. \A s \in Slots : /\ iflist[s] = g => s = ifp[g].slot
                         /\ s # ifp[g].slot => iflist'[s] = iflist[s]
                         /\ s = ifp[g].slot => iflist'[s] = NoId
    BY <2>1, <1>1, <1>2, <1>h, VifAssumption DEF VifTypes, Listing
  <2> QED
    BY <2>1, <2>2, <2>3, <2>4, VifAssumption
<1>r. ASSUME ~fault', user.at # "idle" PROVE ~ifp[g].reg /\ vif[g].kind # "dev"
  BY <1>r, <1>a, <1>b DEF WorkerRemoves, RtnlFree, NoNdev
<1>t. ASSUME ~fault', NEW s \in Slots, s # ifp[g].slot
      PROVE  /\ Deletes(s)' /\ iflist[s] # NoId => Deletes(s) /\ Target' = Target
             /\ Deletes(s) /\ ifp[g].vif # user.v => Deletes(s)'
             /\ Deletes(s) /\ iflist[s] # NoId => Deletes(s)' \/ (/\ ifp[iflist[s]].vif = user.v
                                               /\ ~vif'[user.v].live /\ user.v \in Ids)
  <2>1. CASE user.at \in {"delwait", "remove"}
    <3>1. user.v \in Ids /\ iflist'[s] = iflist[s] /\ vif'[user.v].kind = vif[user.v].kind
      BY <2>1, <1>t, <1>b, <1>v, <1>2 DEF UserShape
    <3>2. vif[user.v].ifp # NoId => ifp[vif[user.v].ifp].vif = user.v
      BY <2>1, <3>1, <1>2 DEF Pairing
    <3>3. CASE vif[user.v].kind = "net"
      BY <2>1, <3>1, <3>3, <1>0 DEF Deletes, Target, Mine
    <3>4. CASE vif[user.v].kind # "net" /\ user.v # ifp[g].vif
      <4>1. vif'[user.v] = vif[user.v]
        BY <3>1, <3>4, <1>t, <1>b, <1>v
      <4> QED
        BY <1>0, <4>1, <3>1 DEF Mine, Target, Deletes
    <3>5. CASE vif[user.v].kind # "net" /\ user.v = ifp[g].vif
      <4>1. ~vif'[user.v].live /\ vif'[user.v].ifp = NoId
        BY <3>1, <3>5, <1>t, <1>b, <1>v
      <4> QED
        BY <3>1, <3>2, <3>5, <4>1, <1>0 DEF Deletes, Target, Mine
    <3> QED
      BY <3>3, <3>4, <3>5
  <2>2. CASE user.at \notin {"delwait", "remove"}
    BY <2>2, <1>0 DEF Deletes
  <2> QED
    BY <2>1, <2>2
<1>3. VifTypes'
  <2>1. /\ armed' \in Ids \cup {NoId}
        /\ action' \in {"none", "add", "del", "change"}
        /\ conn' \in Ids \cup {NoId}
        /\ setup' \in BOOLEAN
        /\ fwif' \in [Slots -> Ids \cup {NoId}]
        /\ old' \in BOOLEAN
        /\ user' \in [at : {"idle", "add", "addwait", "adddone", "attach", "del", "delwait", "remove",
                            "delend", "change", "chwait"},
                      v : Ids \cup {NoId}, i : Ids \cup {NoId}, ok : BOOLEAN]
        /\ n' \in Nat
        /\ timeouts' \in Nat
        /\ fails' \in Nat
        /\ unasked' \in Nat
        /\ stray' \in BOOLEAN
    BY <1>1, <1>a, <1>0, <1>i, <1>v DEF VifTypes
  <2>2. vif' \in [Ids -> Vifs]
    BY <1>1, <1>g, <1>v DEF VifTypes
  <2>3. ifp' \in [Ids -> Ifps]
    BY <1>1, <1>g, <1>i DEF VifTypes
  <2>4. iflist' \in [Slots -> Ids \cup {NoId}]
    BY <1>1, <1>g, <1>h DEF VifTypes
  <2>5. p2pdev' \in Ids \cup {NoId}
    BY <1>1, <1>g, <1>h DEF VifTypes
  <2>6. queue' \in Seq(Events)
    BY <1>1, <1>q DEF VifTypes
  <2>7. wk' \in [at : {"idle", "check", "remove"}, i : Ids \cup {NoId}]
    BY DEF Listening, WorkerRemoves
  <2>8. late' \in BOOLEAN
    BY <1>1, <1>g, <1>h DEF VifTypes
  <2>9. fault' \in BOOLEAN
    BY <1>g, <1>h
  <2> QED
    BY <2>1, <2>2, <2>3, <2>4, <2>5, <2>6, <2>7, <2>8, <2>9 DEF VifTypes
<1>4. NoFault'
  BY <1>n
<1>5. ASSUME ~fault' PROVE VifCore'
  <2>d. Sound' => Sound
    <3> SUFFICES ASSUME Sound', NEW y \in Ids, ifp[y].vif # NoId,
                        \/ ~vif[ifp[y].vif].live /\ (Pending(y, {"check", "remove"}) \/ Meets(y) \/ Leaving(y))
                        \/ ~Leaving(y) /\ Freeing(ifp[y].vif) /\ Pending(y, {"check"})
                 PROVE  Doomed'
      BY <1>1, <1>0 DEF Sound, Doomed, Accidents, VifTypes
    <3>1. /\ ifp[y].live /\ iflist[ifp[y].slot] = y => ifp[y].slot \in Slots
          /\ ifp[y].vif \in Ids
      BY <1>1, <1>2 DEF VifTypes, Ifps, Listing
    <3>2. CASE y = g
      <4>1. vif[ifp[g].vif].live
        BY <3>1, <3>2, <1>5, <1>b
      <4>2. user.at = "delend" /\ user.ok /\ ifp[user.i].vif = ifp[g].vif /\ user.i # g
        BY <3>2, <4>1 DEF Freeing, Leaving
      <4>3. PICK z \in Ids : z = user.i
        BY <4>2, <1>2 DEF UserShape
      <4>4. Leaving(z)' /\ ifp'[z].vif = ifp[g].vif /\ ~vif'[ifp[g].vif].live /\ ifp[g].vif # NoId
        BY <3>1, <3>2, <4>2, <4>3, <1>5, <1>0, <1>b, <1>i, <1>v DEF Leaving
      <4> QED
        BY <4>3, <4>4 DEF Doomed
    <3>3. ASSUME y # g PROVE ifp'[y] = ifp[y] /\ (\A S : Pending(y, S) => Pending(y, S)')
      <4>1. ifp'[y] = ifp[y]
        BY <3>3, <1>5, <1>b, <1>i
      <4> QED
        BY <3>1, <3>3, <4>1, <1>5, <1>a, <1>b, <1>q DEF Pending
    <3>4. CASE y # g /\ ~vif[ifp[y].vif].live /\ (Pending(y, {"check", "remove"}) \/ Meets(y) \/ Leaving(y))
      <4>1. ~vif'[ifp[y].vif].live
        BY <3>1, <3>4, <1>5, <1>b, <1>v
      <4>2. CASE Meets(y)
        <5>1. vif[user.v].kind = "net" /\ user.v \in Ids
          BY <3>4, <4>2, <1>1, <1>2, VifAssumption
            DEF VifTypes, UserShape, Meets, Target, Mine, Pairing
        <5>2. Meets(y)'
          BY <4>2, <5>1, <1>5, <1>0, <1>b, <1>v DEF Meets, Target, Mine
        <5> QED
          BY <3>3, <3>4, <4>1, <5>2 DEF Doomed
      <4>3. CASE Leaving(y)
        <5>1. Leaving(y)'
          BY <4>3, <1>0 DEF Leaving
        <5> QED
          BY <3>3, <3>4, <4>1, <5>1 DEF Doomed
      <4>4. CASE Pending(y, {"check", "remove"})
        <5>1. Pending(y, {"check", "remove"})'
          BY <3>3, <3>4, <4>4
        <5> QED
          BY <3>3, <3>4, <4>1, <5>1 DEF Doomed
      <4> QED
        BY <3>4, <4>2, <4>3, <4>4
    <3>5. CASE y # g /\ ~Leaving(y) /\ Freeing(ifp[y].vif) /\ Pending(y, {"check"})
      <4>1. user.i \in Ids /\ ~Leaving(y)'
        BY <3>5, <1>2, <1>0 DEF Freeing, UserShape, Leaving
      <4>2. Pending(y, {"check"})' /\ Pending(y, {"check", "remove"})'
        BY <3>3, <3>5 DEF Pending
      <4>3. CASE ifp[y].vif = ifp[g].vif
        <5>1. ~vif'[ifp[y].vif].live
          BY <3>1, <4>3, <1>5, <1>b, <1>v
        <5> QED
          BY <3>3, <3>5, <4>2, <5>1 DEF Doomed
      <4>4. CASE ifp[y].vif # ifp[g].vif
        <5>1. Freeing(ifp[y].vif)'
          BY <3>5, <4>1, <4>4, <1>5, <1>0, <1>b, <1>i DEF Freeing
        <5> QED
          BY <3>3, <3>5, <4>1, <4>2, <5>1 DEF Doomed
      <4> QED
        BY <4>3, <4>4
    <3> QED
      BY <3>2, <3>4, <3>5
  <2>1. UserShape'
    <3>1. (armed = IF user.at \in {"idle", "attach"} THEN NoId ELSE user.v)'
      BY <1>0, <1>2 DEF UserShape
    <3>2. (user.at # "idle" => user.v \in Ids /\ user.v <= n)'
      BY <1>0, <1>2 DEF UserShape
    <3>3. (user.ok => user.at \in {"adddone", "attach", "delend"})'
      BY <1>0, <1>2 DEF UserShape
    <3>4. (setup = (Adding /\ vif[user.v].kind = "dev"))'
      BY <1>2, <1>5, <1>0, <1>b, <1>v DEF UserShape, Adding
    <3>5. (Deleting /\ vif[user.v].kind = "net" =>
               user.i \in Ids /\ ifp[user.i].live /\ ifp[user.i].reg /\ ifp[user.i].vif = user.v)'
      <4>1. ASSUME Deleting, vif[user.v].kind = "net"
            PROVE  user.i \in Ids /\ user.i # g /\ ifp[user.i].live /\ ifp[user.i].reg /\ ifp[user.i].vif = user.v /\ user.v \in Ids
        BY <4>1, <1>5, <1>2, <1>r DEF UserShape, Deleting
      <4>2. Deleting' => Deleting /\ (vif'[user.v].kind = vif[user.v].kind)
        BY <1>5, <1>2, <1>0, <1>b, <1>v DEF UserShape, Deleting
      <4>3. ASSUME Deleting, vif[user.v].kind = "net" PROVE ifp'[user.i] = ifp[user.i]
        BY <4>1, <4>3, <1>5, <1>b, <1>i
      <4> QED
        BY <4>1, <4>2, <4>3, <1>0
    <3>6. (user.at = "delend" /\ user.ok =>
               /\ user.i \in Ids /\ vif[user.i].kind # "dev"
               /\ ifp[user.i].live => ~ifp[user.i].reg /\ iflist[ifp[user.i].slot] # user.i)'
      <4> SUFFICES ASSUME user.at = "delend", user.ok
                   PROVE  /\ user.i \in Ids /\ vif'[user.i].kind # "dev"
                          /\ ifp'[user.i].live => ~ifp'[user.i].reg /\ iflist'[ifp'[user.i].slot] # user.i
        BY <1>0
      <4>1. user.i \in Ids /\ vif[user.i].kind # "dev"
        BY <1>2 DEF UserShape
      <4>2. CASE user.i = g
        BY <4>1, <4>2, <1>5, <1>b, <1>i, <1>v
      <4>3. CASE user.i # g
        <5>1. ifp'[user.i] = ifp[user.i]
          BY <4>1, <4>3, <1>5, <1>b, <1>i
        <5>2. ifp[user.i].live => ifp[user.i].slot \in Slots
          BY <4>1, <1>2 DEF Listing
        <5>3. ifp[user.i].live => ~ifp[user.i].reg /\ iflist[ifp[user.i].slot] # user.i
          BY <1>2 DEF UserShape
        <5>4. ifp[user.i].live => iflist'[ifp[user.i].slot] \in {iflist[ifp[user.i].slot], NoId}
          BY <5>2, <1>5, <1>b
        <5>5. vif'[user.i].kind # "dev"
          BY <4>1, <1>5, <1>b, <1>v
        <5> QED
          BY <4>1, <5>1, <5>3, <5>4, <5>5, VifAssumption
      <4> QED
        BY <4>2, <4>3
    <3>7. (wk.at # "idle" =>
               /\ wk.i \in Ids
               /\ ifp[wk.i].live => iflist[ifp[wk.i].slot] \in {wk.i, NoId})'
      BY <1>0
    <3> QED
      BY <3>1, <3>2, <3>3, <3>4, <3>5, <3>6, <3>7 DEF UserShape
  <2>2. Listing'
    <3>1. (\A s \in Slots : iflist[s] # NoId => ifp[iflist[s]].live /\ ifp[iflist[s]].slot = s)'
      BY <1>1, <1>2, <1>5, <1>b, <1>i DEF VifTypes, Listing
    <3>2. (\A i \in Ids : ifp[i].live =>
               ifp[i].slot \in Slots /\ (iflist[ifp[i].slot] = i \/ Leaving(i)))'
      <4> SUFFICES ASSUME NEW i \in Ids
                   PROVE  (ifp[i].live => ifp[i].slot \in Slots /\ (iflist[ifp[i].slot] = i \/ Leaving(i)))'
        OBVIOUS
      <4>1. CASE i = g
        BY <4>1, <1>5, <1>b, <1>i, VifAssumption
      <4>2. CASE i # g
        <5>1. ifp'[i] = ifp[i]
          BY <4>2, <1>5, <1>b, <1>i
        <5> QED
          BY <4>2, <5>1, <1>5, <1>2, <1>0, <1>b DEF Listing, Leaving
      <4> QED
        BY <4>1, <4>2
    <3>3. (\A i \in Ids : ifp[i].reg => ifp[i].live /\ vif[i].kind # "dev")'
      <4> SUFFICES ASSUME NEW i \in Ids PROVE (ifp[i].reg => ifp[i].live /\ vif[i].kind # "dev")'
        OBVIOUS
      <4>1. CASE i = g
        BY <4>1, <1>5, <1>b, <1>i, VifAssumption
      <4>2. CASE i # g
        <5>1. ifp'[i] = ifp[i]
          BY <4>2, <1>5, <1>b, <1>i
        <5> QED
          BY <1>v, <1>b, <1>2, <1>5, <5>1 DEF Listing
      <4> QED
        BY <4>1, <4>2
    <3>4. (\A i \in Ids : ~ifp[i].live => ifp[i].vif = NoId)'
      <4> SUFFICES ASSUME NEW i \in Ids PROVE (~ifp[i].live => ifp[i].vif = NoId)'
        OBVIOUS
      <4>1. CASE i = g
        BY <4>1, <1>5, <1>b, <1>i, VifAssumption
      <4>2. CASE i # g
        <5>1. ifp'[i] = ifp[i]
          BY <4>2, <1>5, <1>b, <1>i
        <5> QED
          BY <1>2, <5>1 DEF Listing
      <4> QED
        BY <4>1, <4>2
    <3> QED
      BY <3>1, <3>2, <3>3, <3>4 DEF Listing
  <2>3. Pairing'
    <3> SUFFICES ASSUME NEW v \in Ids PROVE (IF ~vif[v].live THEN vif[v].ifp = NoId
        ELSE IF vif[v].ifp = NoId THEN (Adding \/ user.at = "attach") /\ user.v = v
        ELSE ifp[vif[v].ifp].live /\ ifp[vif[v].ifp].vif = v)'
      BY DEF Pairing
    <3>1. CASE v = ifp[g].vif
      BY <3>1, <1>5, <1>b, <1>v
    <3>2. CASE v # ifp[g].vif
      <4>1. vif'[v] = vif[v]
        BY <3>2, <1>5, <1>b, <1>v
      <4>2. vif[v].ifp \in Ids /\ vif[v].live => ifp[vif[v].ifp].live /\ ifp[vif[v].ifp].vif = v
        BY <1>2, VifAssumption DEF Pairing
      <4>3. vif[v].ifp \in Ids /\ vif[v].live => ifp'[vif[v].ifp] = ifp[vif[v].ifp]
        BY <3>2, <4>2, <1>5, <1>b, <1>i
      <4>4. vif[v].ifp \in Ids \cup {NoId}
        BY <1>1 DEF VifTypes, Vifs
      <4> QED
        BY <1>0, <1>2, <4>4, <4>3, <4>1 DEF Adding, Pairing
    <3> QED
      BY <3>1, <3>2
  <2>4. News'
    <3>1. (\A i \in Ids : i > n => Fresh(i) /\ ~vif[i].live)'
      BY <1>2, <1>5, <1>0, <1>b, <1>i, <1>v DEF News, Fresh, Leaving
    <3>2. (\A s \in Slots, x \in Ids : x \in Comes[s] =>
               x <= n /\ Fresh(x) /\ (user.at = "add" => x # user.v))'
      BY <1>2, <1>q, <1>5, <1>0, <1>b, <1>i DEF News, Fresh, Leaving
    <3>3. (Once)'
      BY <1>q, <1>2 DEF News
    <3>4. (user.at = "add" => Fresh(user.v))'
      BY <1>2, <1>5, <1>0, <1>b, <1>i DEF News, Fresh, Leaving, UserShape
    <3>5. (\A i \in Ids : ifp[i].vif # NoId => ifp[i].vif <= n)'
      <4> SUFFICES ASSUME NEW i \in Ids PROVE (ifp[i].vif # NoId => ifp[i].vif <= n)'
        OBVIOUS
      <4>1. CASE i = g
        BY <4>1, <1>5, <1>b, <1>i, VifAssumption
      <4>2. CASE i # g
        <5>1. ifp'[i] = ifp[i]
          BY <4>2, <1>5, <1>b, <1>i
        <5> QED
          BY <1>0, <1>2, <5>1 DEF News
      <4> QED
        BY <4>1, <4>2
    <3>6. (\A s \in Slots : fwif[s] # NoId => fwif[s] <= n)'
      BY <1>0, <1>2 DEF News
    <3> QED
      BY <3>1, <3>2, <3>3, <3>4, <3>5, <3>6 DEF News
  <2>5. Told'
    BY <1>0, <1>q, <1>2 DEF Told
  <2>6. Belatedly'
    <3>1. Belated' => Belated
      BY <1>q, <1>0 DEF Belated
    <3>2. ASSUME Belated', Sound', NEW s \in Slots, NEW y \in Ids, y \in Leaves'[s]
          PROVE  iflist'[s] = NoId \/ (Deletes(s)' /\ s \in Finals')
      <4>1. iflist[s] = NoId \/ (Deletes(s) /\ s \in Finals)
        BY <3>1, <3>2, <1>2, <1>q, <2>d DEF Belatedly
      <4>2. CASE s = ifp[g].slot
        BY <4>2, <1>5, <1>b
      <4>3. CASE s # ifp[g].slot /\ iflist[s] # NoId /\ ~Deletes(s)'
        <5>1. /\ iflist[s] \in Ids /\ iflist[s] # g /\ ifp[iflist[s]].slot = s /\ ifp[iflist[s]].live
              /\ iflist'[s] = iflist[s]
          BY <4>3, <1>5, <1>1, <1>2, <1>b DEF VifTypes, Listing
        <5>2. ifp[iflist[s]].vif = user.v /\ ~vif'[user.v].live /\ user.v \in Ids
          BY <4>1, <4>3, <1>5, <1>t
        <5>3. ifp'[iflist[s]] = ifp[iflist[s]] /\ s \in Asked'
          BY <3>2, <5>1, <1>5, <1>b, <1>i DEF Asked
        <5>4. Pending(iflist[s], {"check", "remove"})'
          BY <5>1, <5>3 DEF Pending
        <5> QED
          BY <3>2, <5>1, <5>2, <5>3, <5>4, VifAssumption DEF Sound, Doomed
      <4> QED
        BY <4>1, <4>2, <4>3, <1>5, <1>b, <1>q
    <3>3. ASSUME Belated', Sound', NEW s \in Slots, NEW y \in Ids, y \in Comes'[s]
          PROVE  iflist'[s] = NoId /\ fwif'[s] = y
      BY <3>1, <3>3, <1>5, <1>2, <1>q, <1>0, <1>b, <2>d DEF Belatedly
    <3>4. ASSUME Belated', Sound', NEW s \in Slots, s \notin Asked' PROVE iflist'[s] = fwif'[s]
      BY <3>1, <3>4, <1>5, <1>a, <1>2, <1>q, <1>0, <1>b, <2>d DEF Belatedly
    <3>5. Belated' => timeouts' >= 1
      BY <3>1, <1>2, <1>0 DEF Belatedly
    <3> QED
      BY <3>2, <3>3, <3>4, <3>5, <1>0 DEF Belatedly
  <2>7. OneLate'
    BY <1>2, <1>q, <1>0 DEF VifTypes, OneLate, Late
  <2>8. Follows'
    <3>1. ASSUME Sound', NEW s \in Slots, s \notin Asked', iflist'[s] # fwif'[s] PROVE Removing(s)'
      <4>1. s \notin Asked /\ fwif'[s] = fwif[s]
        BY <3>1, <1>q, <1>0
      <4>2. iflist[s] = fwif[s] \/ Removing(s)
        BY <3>1, <4>1, <1>2, <2>d DEF Follows
      <4>3. CASE s = ifp[g].slot
        BY <3>1, <4>2, <4>3, <1>5, <1>a, <1>0, <1>b, <1>2 DEF Removing, Told
      <4>4. CASE s # ifp[g].slot
        <5>1. iflist'[s] = iflist[s] /\ Removing(s)
          BY <3>1, <4>1, <4>2, <4>4, <1>5, <1>b
        <5>2. iflist[s] # g
          BY <4>4, <1>5, <1>b
        <5>3. /\ Deletes(s) /\ ifp[g].vif # user.v
              /\ user.at = "remove" \/ vif[user.v].kind # "net" \/ action = "del" \/ Accidents >= 1
          BY <5>1, <5>2, <1>a, <1>0 DEF Removing
        <5>4. user.v \in Ids
          BY <5>3, <1>2 DEF Deletes, UserShape
        <5> QED
          BY <5>1, <5>3, <5>4, <1>5, <1>0, <1>b, <1>v, <1>t DEF Removing, Accidents
      <4> QED
        BY <4>3, <4>4
    <3>2. ASSUME Sound', NEW s \in Slots, Deletes(s)', iflist'[s] # NoId, fwif'[s] = iflist'[s]
          PROVE  (vif[user.v].kind # "net")' /\ Crossed'
      <4>1. s # ifp[g].slot /\ iflist'[s] = iflist[s]
        BY <3>2, <1>5, <1>b
      <4>2. Deletes(s) /\ Target' = Target
        BY <3>2, <4>1, <1>5, <1>t
      <4>3. vif[user.v].kind # "net" /\ Crossed
        BY <3>2, <4>1, <4>2, <1>2, <1>0, <2>d DEF Follows
      <4>4. user.v \in Ids /\ user.v # ifp[g].vif
        <5>1. user.v \in Ids /\ Target = vif[user.v].ifp /\ Target' = vif'[user.v].ifp
          BY <4>2, <4>3, <1>5, <1>2, <1>0, <1>b, <1>v DEF Deletes, UserShape, Target, Mine
        <5> QED
          BY <1>v, <1>b, <1>5, <5>1, <3>2 DEF Deletes
      <4>5. PICK y \in Ids : y # Target /\ ifp[y].vif = user.v /\ Pending(y, {"check"})
        BY <4>3 DEF Crossed
      <4>6. y # g /\ ifp'[y] = ifp[y] /\ ifp[y].slot \in Slots
        BY <4>4, <4>5, <1>5, <1>2, <1>b, <1>i DEF Pending, Listing
      <4>7. Pending(y, {"check"})'
        BY <4>5, <4>6, <1>5, <1>0, <1>q, <1>b DEF Pending
      <4> QED
        BY <4>2, <4>3, <4>4, <4>5, <4>6, <4>7, <1>5, <1>0, <1>b, <1>v DEF Crossed
    <3> QED
      BY <3>1, <3>2 DEF Follows
  <2>9. Clean'
    <3>1. Accidents # 0
      BY <1>2, <1>0 DEF Clean, CleanWorker
    <3> QED
      BY <3>1, <1>0 DEF Clean, Accidents
  <2> QED
    BY <2>1, <2>2, <2>3, <2>4, <2>5, <2>6, <2>7, <2>8, <2>9 DEF VifCore
<1> QED
  BY <1>3, <1>4, <1>5 DEF VifInv

\* The worker announces a change of role.
LEMMA ChangeEventKeeps == ASSUME VifInv, ChangeEvent PROVE VifInv'
<1>1. VifTypes /\ ~fault /\ VifCore /\ NoFault
  BY DEF Event, ChangeEvent, VifInv
<1>2. /\ UserShape /\ Listing /\ Pairing /\ News /\ Told
      /\ Belatedly /\ OneLate /\ Follows /\ Clean
  BY <1>1 DEF VifCore
<1>e. PICK e : e = Head(queue) /\ queue # <<>> /\ queue' = Tail(queue) /\ queue \in Seq(Events) /\ Once
  BY <1>2, <1>1 DEF Event, ChangeEvent, News, VifTypes
<1>q. /\ e = Head(queue)
      /\ e.act \in Acts /\ e.slot \in Slots /\ e.id \in Ids /\ queue' \in Seq(Events)
      /\ e.act = "add" => e.id \in Comes[e.slot]
      /\ e.act = "del" => e.id \in Leaves[e.slot]
      /\ e.act = "change" => Changing
      /\ \A s \in Slots, x \in Ids :
           /\ x \in Comes'[s] => x \in Comes[s] /\ ~(e.act = "add" /\ e.id = x)
                                 /\ (x \in Latest'[s] <=> x \in Latest[s])
           /\ x \in Leaves'[s] => x \in Leaves[s]
           /\ x \in Comes[s] => x \in Comes'[s] \/ (e.act = "add" /\ e.slot = s /\ e.id = x)
           /\ x \in Leaves[s] => x \in Leaves'[s] \/ (e.act = "del" /\ e.slot = s /\ e.id = x)
           /\ e.act = "del" /\ e.slot \in Finals => x \notin Comes'[s]
      /\ \A s \in Slots :
           /\ s \in Asked' => s \in Asked
           /\ s \in Asked => s \in Asked' \/ (e.slot = s /\ e.act # "change")
           /\ s \in Finals => s \in Finals'
      /\ e.act # "change" => e.slot \in Asked
      /\ e.act = "add" /\ e.id \in Latest[e.slot] => e.slot \notin Asked'
      /\ Changing' => Changing
      /\ e.act = "change" /\ Single => ~Changing'
      /\ Once' /\ (Single => Single')
  BY <1>e, QueueServed
<1>0. /\ wk.at = "idle" /\ e.act = "change" /\ iflist[e.slot] # NoId /\ action' = "change"
      /\ vif' = vif /\ ifp' = ifp /\ iflist' = iflist /\ armed' = armed /\ conn' = conn
      /\ p2pdev' = p2pdev /\ setup' = setup /\ fwif' = fwif /\ old' = old
      /\ user' = user /\ wk' = wk /\ n' = n /\ timeouts' = timeouts /\ fails' = fails
      /\ unasked' = unasked /\ stray' = stray /\ late' = late /\ fault' = fault
  BY <1>q DEF counts, p2p, objects, Here, Event, ChangeEvent
<1>3. VifTypes'
  <2>1. /\ vif' \in [Ids -> Vifs]
        /\ ifp' \in [Ids -> Ifps]
        /\ iflist' \in [Slots -> Ids \cup {NoId}]
        /\ armed' \in Ids \cup {NoId}
        /\ conn' \in Ids \cup {NoId}
        /\ p2pdev' \in Ids \cup {NoId}
        /\ setup' \in BOOLEAN
        /\ fwif' \in [Slots -> Ids \cup {NoId}]
        /\ old' \in BOOLEAN
        /\ user' \in [at : {"idle", "add", "addwait", "adddone", "attach", "del", "delwait", "remove",
                            "delend", "change", "chwait"},
                      v : Ids \cup {NoId}, i : Ids \cup {NoId}, ok : BOOLEAN]
        /\ wk' \in [at : {"idle", "check", "remove"}, i : Ids \cup {NoId}]
        /\ n' \in Nat
        /\ timeouts' \in Nat
        /\ fails' \in Nat
        /\ unasked' \in Nat
        /\ stray' \in BOOLEAN
        /\ late' \in BOOLEAN
        /\ fault' \in BOOLEAN
    BY <1>1, <1>0 DEF VifTypes
  <2>2. action' \in {"none", "add", "del", "change"}
    BY <1>0
  <2>3. queue' \in Seq(Events)
    BY <1>1, <1>q
  <2> QED
    BY <2>1, <2>2, <2>3 DEF VifTypes
<1>4. NoFault'
  BY <1>1, <1>0 DEF VifTypes, NoFault
<1>5. ASSUME ~fault' PROVE VifCore'
  <2>d. Sound' => Sound
    BY <1>0, <1>q, <1>2
      DEF Listing, Mine, Target, Leaving, Freeing, Meets, Pending, Accidents, Doomed, Sound
  <2>1. UserShape'
    BY <1>0, <1>2 DEF Deleting, Adding, UserShape
  <2>2. Listing'
    BY <1>0, <1>2 DEF Leaving, Listing, VifTypes
  <2>3. Pairing'
    BY <1>0, <1>2 DEF Adding, Pairing
  <2>4. News'
    BY <1>0, <1>q, <1>2 DEF Leaving, Fresh, News
  <2>5. Told'
    <3>1. (\A s \in Slots, x \in Ids : x \in Comes[s] => (x \in Latest[s] <=> fwif[s] = x))'
      BY VifAssumption, <1>1, <1>2, <1>q, <1>0 DEF VifTypes, Told
    <3>2. (\A s \in Slots : s \in Asked /\ fwif[s] # NoId => fwif[s] \in Comes[s])'
      BY <1>1, <1>2, <1>q DEF VifTypes, Told, ChangeEvent, Event
    <3>3. (\A s \in Slots : wk.at # "idle" /\ iflist[s] = wk.i => fwif[s] # wk.i)'
      BY VifAssumption, <1>1, <1>2, <1>q, <1>0 DEF VifTypes, Told
    <3> QED
      BY <3>1, <3>2, <3>3 DEF Told
  <2>6. Belatedly'
    BY <2>d, <1>0, <1>q, <1>2 DEF Mine, Target, Deletes, Belated, Belatedly
  <2>7. OneLate'
    <3>1. UNCHANGED <<user, timeouts>> /\ action' = "change"
      BY DEF ChangeEvent, objects, event, p2p, counts
    <3> QED
      BY <3>1, <1>2, <1>q DEF OneLate, Late
  <2>8. Follows'
    <3>1. ASSUME Sound', NEW s \in Slots, s \notin Asked', iflist'[s] # fwif'[s] PROVE Removing(s)'
      BY <2>d, <1>0, <1>q, <1>2, <1>1, <3>1
        DEF CleanUser, Clean, Mine, Target, Accidents, Deletes, Removing, Follows, VifTypes
    <3>2. ASSUME Sound', NEW s \in Slots, Deletes(s)', iflist'[s] # NoId, fwif'[s] = iflist'[s]
          PROVE  (vif[user.v].kind # "net")' /\ Crossed'
      BY <2>d, <1>0, <1>q, <1>2, <3>2
        DEF Mine, Target, Listing, Pending, Crossed, Deletes, Follows
    <3> QED
      BY <3>1, <3>2 DEF Follows
  <2>9. Clean'
    <3> SUFFICES ASSUME Accidents' = 0 PROVE
            /\ (\A i \in Ids : ifp[i].live => ifp[i].vif = i)'
            /\ (\A v \in Ids : vif[v].live => vif[v].ifp \in {v, NoId})'
            /\ CleanUser' /\ CleanWorker' /\ Single' /\ CleanEvents' /\ CleanList'
      BY DEF Clean
    <3>a. Accidents = 0
      BY DEF counts, ChangeEvent, Accidents
    <3>b. /\ \A i \in Ids : ifp[i].live => ifp[i].vif = i
          /\ \A v \in Ids : vif[v].live => vif[v].ifp \in {v, NoId}
          /\ CleanUser /\ CleanWorker /\ Single /\ CleanEvents /\ CleanList
      BY <3>a, <1>2 DEF Clean
    <3>1. (\A i \in Ids : ifp[i].live => ifp[i].vif = i)'
      BY VifAssumption, <1>1, <1>2, <1>q, <1>0, <3>b DEF VifTypes
    <3>2. (\A v \in Ids : vif[v].live => vif[v].ifp \in {v, NoId})'
      BY VifAssumption, <1>1, <1>2, <1>q, <1>0, <3>b DEF VifTypes
    <3>3. CleanUser'
      BY <3>b, <1>0, <1>q DEF Deleting, Adding, Own, CleanUser
    <3>4. CleanWorker'
      BY <1>0 DEF CleanWorker
    <3>5. Single'
      BY VifAssumption, <1>1, <1>2, <1>q, <1>0, <3>b
    <3>6. CleanEvents'
      BY <3>b, <1>0, <1>q DEF CleanUser, Deletes, CleanEvents
    <3>7. CleanList'
      BY <3>b, <1>0, <1>q DEF CleanUser, Deletes, CleanList
    <3> QED
      BY <3>1, <3>2, <3>3, <3>4, <3>5, <3>6, <3>7
  <2> QED
    BY <2>9, <2>8, <2>7, <2>6, <2>5, <2>4, <2>3, <2>2, <2>1 DEF VifCore
<1> QED
  BY <1>3, <1>4, <1>5 DEF VifInv

\* The firmware removes an interface on its own.
LEMMA FirmwareRemovesKeeps == ASSUME VifInv, NEW t \in Slots, FirmwareRemoves(t) PROVE VifInv'
<1>1. VifTypes /\ ~fault /\ VifCore /\ NoFault
  BY DEF FirmwareRemoves, VifInv
<1>2. /\ UserShape /\ Listing /\ Pairing /\ News /\ Told
      /\ Belatedly /\ OneLate /\ Follows /\ Clean
  BY <1>1 DEF VifCore
<1>e. PICK e \in Events : e = [act |-> "del", slot |-> t, id |-> fwif[t]] /\ queue' = Append(queue, e)
  BY <1>1 DEF FirmwareRemoves, Events, VifTypes
<1>f. /\ queue' \in Seq(Events)
      /\ \A s \in Slots, x \in Ids :
           /\ x \in Comes'[s] <=> x \in Comes[s] \/ (e.act = "add" /\ e.slot = s /\ e.id = x)
           /\ x \in Leaves'[s] <=> x \in Leaves[s] \/ (e.act = "del" /\ e.slot = s /\ e.id = x)
           /\ x \in Latest'[s] <=> IF e.slot = s /\ e.act # "change"
                                   THEN e.act = "add" /\ e.id = x ELSE x \in Latest[s]
      /\ \A s \in Slots : s \in Asked' <=> s \in Asked \/ (e.slot = s /\ e.act # "change")
      /\ \A s \in Slots :
           e.act # "add" /\ (s \in Finals \/ Leaves[s] = {}) => s \in Finals'
      /\ Changing' <=> Changing \/ e.act = "change"
      /\ Once /\ (e.act = "add" => \A s \in Slots : e.id \notin Comes[s]) => Once'
      /\ Single /\ (e.act = "change" => ~Changing) => Single'
  <2>1. queue \in Seq(Events)
    BY <1>1 DEF VifTypes
  <2> QED
    BY <2>1, <1>e, QueueGrows
<1>q. e.act = "del" /\ e.slot = t /\ e.id = fwif[t] /\ e.slot \in Slots /\ e.id \in Ids
  BY <1>e DEF Events
<1>0. /\ fwif[t] # NoId /\ fwif' = [fwif EXCEPT ![t] = NoId] /\ unasked' = unasked + 1
      /\ vif' = vif /\ ifp' = ifp /\ iflist' = iflist /\ armed' = armed
      /\ action' = action /\ conn' = conn /\ p2pdev' = p2pdev /\ setup' = setup
      /\ old' = old /\ user' = user /\ wk' = wk /\ n' = n /\ timeouts' = timeouts
      /\ fails' = fails /\ stray' = stray /\ late' = late /\ fault' = fault
  BY <1>1 DEF VifTypes, FirmwareRemoves, objects, event, p2p, counts
<1>x. /\ fwif' = [fwif EXCEPT ![t] = NoId] /\ unasked' = unasked + 1 /\ fwif[t] \in Ids
      /\ UNCHANGED <<vif, ifp, iflist, action, wk, timeouts, user, stray>>
  BY <1>1, <1>2 DEF VifTypes, FirmwareRemoves, objects, event, counts
<1>3. VifTypes'
  <2>1. /\ vif' \in [Ids -> Vifs]
        /\ ifp' \in [Ids -> Ifps]
        /\ iflist' \in [Slots -> Ids \cup {NoId}]
        /\ armed' \in Ids \cup {NoId}
        /\ action' \in {"none", "add", "del", "change"}
        /\ conn' \in Ids \cup {NoId}
        /\ p2pdev' \in Ids \cup {NoId}
        /\ setup' \in BOOLEAN
        /\ old' \in BOOLEAN
        /\ user' \in [at : {"idle", "add", "addwait", "adddone", "attach", "del", "delwait", "remove",
                            "delend", "change", "chwait"},
                      v : Ids \cup {NoId}, i : Ids \cup {NoId}, ok : BOOLEAN]
        /\ wk' \in [at : {"idle", "check", "remove"}, i : Ids \cup {NoId}]
        /\ n' \in Nat
        /\ timeouts' \in Nat
        /\ fails' \in Nat
        /\ stray' \in BOOLEAN
        /\ late' \in BOOLEAN
        /\ fault' \in BOOLEAN
    BY <1>1, <1>0 DEF VifTypes
  <2>2. fwif' \in [Slots -> Ids \cup {NoId}]
    BY <1>0, <1>1 DEF VifTypes
  <2>3. queue' \in Seq(Events)
    BY <1>f
  <2>4. unasked' \in Nat
    BY <1>0, <1>1 DEF VifTypes
  <2> QED
    BY <2>1, <2>2, <2>3, <2>4 DEF VifTypes
<1>4. NoFault'
  BY <1>1, <1>f, <1>0 DEF VifTypes, NoFault
<1>5. ASSUME ~fault' PROVE VifCore'
  <2>d. Sound' => Sound
    BY <1>0, <1>f, <1>2, <1>1
      DEF Listing, Mine, Target, VifTypes, Leaving, Freeing, Meets, Pending, Accidents,
          Doomed, Sound
  <2>1. UserShape'
    BY <1>0, <1>2 DEF Deleting, Adding, UserShape
  <2>2. Listing'
    BY <1>0, <1>2 DEF Leaving, Listing
  <2>3. Pairing'
    BY <1>0, <1>2 DEF Adding, Pairing
  <2>4. News'
    BY <1>0, <1>f, <1>q, <1>2 DEF Leaving, Fresh, News
  <2>5. Told'
    <3>1. (\A s \in Slots, x \in Ids : x \in Comes[s] => (x \in Latest[s] <=> fwif[s] = x))'
      BY <1>x, <1>f, <1>q, <1>2, <1>1, VifAssumption DEF Told, VifTypes
    <3>2. (\A s \in Slots : s \in Asked /\ fwif[s] # NoId => fwif[s] \in Comes[s])'
      BY <1>1, <1>2, <1>q, <1>f, <1>x DEF VifTypes, Told
    <3>3. (\A s \in Slots : wk.at # "idle" /\ iflist[s] = wk.i => fwif[s] # wk.i)'
      BY <1>0, <1>2, VifAssumption DEF UserShape, Told
    <3> QED
      BY <3>1, <3>2, <3>3 DEF Told
  <2>6. Belatedly'
    <3> SUFFICES ASSUME Belated' PROVE
            /\ timeouts' >= 1
            /\ Sound' =>
                 /\ (\A s \in Slots, x \in Ids :
                      /\ x \in Leaves[s] => iflist[s] = NoId \/ (Deletes(s) /\ s \in Finals)
                      /\ x \in Comes[s] => iflist[s] = NoId /\ fwif[s] = x)'
                 /\ (\A s \in Slots :
                      /\ s \in Asked \/ iflist[s] = fwif[s]
                      /\ wk.at # "idle" => iflist[s] # wk.i)'
      BY DEF Belatedly
    <3>p. timeouts >= 1 /\ ~Sound'
      <4>1. Belated
        BY <1>x, <1>q, <1>f DEF Belated
      <4> QED
        BY <1>2, <1>1, <1>x, <4>1 DEF VifTypes, Accidents, Sound, Belatedly
    <3>1. timeouts' >= 1
      BY <3>p, <1>x
    <3>2. ASSUME Sound', NEW s \in Slots, NEW x \in Ids, x \in Leaves'[s]
          PROVE  iflist'[s] = NoId \/ (Deletes(s)' /\ s \in Finals')
      BY <3>p, <3>2
    <3>3. ASSUME Sound', NEW s \in Slots, NEW x \in Ids, x \in Comes'[s]
          PROVE  iflist'[s] = NoId /\ fwif'[s] = x
      BY <3>p, <3>3
    <3>4. ASSUME Sound', NEW s \in Slots, s \notin Asked' PROVE iflist'[s] = fwif'[s]
      BY <3>p, <3>4
    <3>5. ASSUME Sound', NEW s \in Slots, wk'.at # "idle" PROVE iflist'[s] # wk'.i
      BY <3>p, <3>5
    <3> QED
      BY <3>1, <3>2, <3>3, <3>4, <3>5
  <2>7. OneLate'
    BY <1>x, <1>f, <1>q, <1>2 DEF Late, OneLate
  <2>8. Follows'
    <3>1. ASSUME Sound', NEW s \in Slots, s \notin Asked', iflist'[s] # fwif'[s] PROVE Removing(s)'
      BY <2>d, <1>0, <1>f, <1>q, <1>2, <1>1, <3>1
        DEF Mine, Target, Accidents, Deletes, Removing, Follows, VifTypes
    <3>2. ASSUME Sound', NEW s \in Slots, Deletes(s)', iflist'[s] # NoId, fwif'[s] = iflist'[s]
          PROVE  (vif[user.v].kind # "net")' /\ Crossed'
      BY <2>d, <1>0, <1>f, <1>2, <3>2
        DEF Mine, Target, Listing, Pending, Crossed, Deletes, Follows
    <3> QED
      BY <3>1, <3>2 DEF Follows
  <2>9. Clean'
    <3> SUFFICES ASSUME Accidents' = 0 PROVE
            /\ (\A i \in Ids : ifp[i].live => ifp[i].vif = i)'
            /\ (\A v \in Ids : vif[v].live => vif[v].ifp \in {v, NoId})'
            /\ CleanUser' /\ CleanWorker' /\ Single' /\ CleanEvents' /\ CleanList'
      BY DEF Clean
    <3>a. Accidents = 0
      BY <1>1 DEF FirmwareRemoves, Accidents, VifTypes
    <3>b. /\ \A i \in Ids : ifp[i].live => ifp[i].vif = i
          /\ \A v \in Ids : vif[v].live => vif[v].ifp \in {v, NoId}
          /\ CleanUser /\ CleanWorker /\ Single /\ CleanEvents /\ CleanList
      BY <3>a, <1>2 DEF Clean
    <3>1. (\A i \in Ids : ifp[i].live => ifp[i].vif = i)'
      BY <3>b, <1>0
    <3>2. (\A v \in Ids : vif[v].live => vif[v].ifp \in {v, NoId})'
      BY <3>b, <1>0
    <3>3. CleanUser'
      BY <1>0, <1>1 DEF Accidents, VifTypes
    <3>4. CleanWorker'
      BY <3>b, <1>0 DEF Leaving, CleanWorker
    <3>5. Single'
      BY VifAssumption, <1>1, <1>2, <1>q, <1>f, <1>0, <3>b
    <3>6. CleanEvents'
      BY <1>0, <1>1 DEF Accidents, VifTypes
    <3>7. CleanList'
      BY <1>0, <1>1 DEF Accidents, VifTypes
    <3> QED
      BY <3>1, <3>2, <3>3, <3>4, <3>5, <3>6, <3>7
  <2> QED
    BY <2>9, <2>8, <2>7, <2>6, <2>5, <2>4, <2>3, <2>2, <2>1 DEF VifCore
<1> QED
  BY <1>3, <1>4, <1>5 DEF VifInv

\* When all events are handled.
LEMMA QueueEmpty ==
    ASSUME queue = <<>>
    PROVE  /\ \A s \in Slots : Comes[s] = {} /\ Leaves[s] = {} /\ s \notin Asked
           /\ Once /\ Single /\ ~Changing
<1>1. DOMAIN queue = {}
  OBVIOUS
<1> QED
  BY <1>1 DEF Comes, Leaves, Asked, Queued, Once, Single, Changing

\* No interface is there, none is announced, and nobody works.
LEMMA VifInitInv == ASSUME Init PROVE VifInv
<1>0. ~fault /\ user = Idle /\ wk = Listening
  BY DEF Init
<1>q. /\ \A s \in Slots : Comes[s] = {} /\ Leaves[s] = {} /\ s \notin Asked
      /\ Once /\ Single /\ ~Changing
  BY QueueEmpty DEF Init
<1>f. /\ \A i \in Ids : /\ ~ifp[i].live /\ ifp[i].slot = NoId /\ ifp[i].vif = NoId /\ ~ifp[i].reg
                        /\ ~vif[i].live /\ vif[i].kind = "net" /\ vif[i].ifp = NoId
      /\ \A s \in Slots : iflist[s] = NoId /\ fwif[s] = NoId
      /\ user.at = "idle" /\ user.ok = FALSE /\ wk.at = "idle" /\ conn = NoId
  BY DEF Init, Idle, Listening
<1>1. VifTypes
  <2>1. vif \in [Ids -> Vifs] /\ ifp \in [Ids -> Ifps]
    BY DEF Init, Vifs, Ifps
  <2>2. /\ user \in [at : {"idle", "add", "addwait", "adddone", "attach", "del", "delwait", "remove",
                            "delend", "change", "chwait"},
                      v : Ids \cup {NoId}, i : Ids \cup {NoId}, ok : BOOLEAN]
        /\ wk \in [at : {"idle", "check", "remove"}, i : Ids \cup {NoId}]
    BY DEF Init, Idle, Listening
  <2>3. /\ iflist \in [Slots -> Ids \cup {NoId}] /\ fwif \in [Slots -> Ids \cup {NoId}]
        /\ armed \in Ids \cup {NoId} /\ action \in {"none", "add", "del", "change"}
        /\ conn \in Ids \cup {NoId} /\ p2pdev \in Ids \cup {NoId} /\ setup \in BOOLEAN
        /\ old \in BOOLEAN /\ stray \in BOOLEAN /\ late \in BOOLEAN /\ fault \in BOOLEAN
    BY DEF Init
  <2>4. queue \in Seq(Events)
    BY DEF Init
  <2>5. n \in Nat /\ timeouts \in Nat /\ fails \in Nat /\ unasked \in Nat
    BY DEF Init
  <2> QED
    BY <2>1, <2>2, <2>3, <2>4, <2>5 DEF VifTypes
<1>2. UserShape
  BY <1>f DEF UserShape, Adding, Deleting, Init
<1>3. Listing /\ Pairing
  BY <1>f DEF Listing, Pairing
<1>4. News
  BY <1>f, <1>q DEF News, Fresh, Leaving
<1>5. Told
  BY <1>f, <1>q DEF Told
<1>6. Belatedly /\ OneLate
  BY <1>f, <1>q DEF Belatedly, Belated, OneLate
<1>7. Follows
  BY <1>f, <1>q DEF Follows, Deletes
<1>8. CleanUser
  BY <1>f, <1>q DEF CleanUser, Adding, Deleting, Init
<1>9. Clean
  BY <1>f, <1>q, <1>8 DEF Clean, CleanWorker, CleanEvents, CleanList
<1> QED
  BY <1>0, <1>1, <1>2, <1>3, <1>4, <1>5, <1>6, <1>7, <1>9 DEF VifInv, VifCore, NoFault

\* A stuttering step leaves all of this alone.
LEMMA VifStutter == ASSUME VifInv, UNCHANGED vars PROVE VifInv'
<1>u. /\ vif' = vif /\ ifp' = ifp /\ iflist' = iflist /\ armed' = armed /\ action' = action
      /\ conn' = conn /\ p2pdev' = p2pdev /\ setup' = setup /\ fwif' = fwif /\ queue' = queue
      /\ old' = old /\ user' = user /\ wk' = wk /\ n' = n /\ timeouts' = timeouts
      /\ fails' = fails /\ unasked' = unasked /\ stray' = stray /\ late' = late /\ fault' = fault
  BY DEF vars, objects, event, p2p, counts
<1>q. /\ Comes' = Comes /\ Leaves' = Leaves /\ Latest' = Latest
      /\ Asked' = Asked /\ Finals' = Finals /\ Changing' = Changing
      /\ Once' = Once /\ Single' = Single
  BY <1>u, QueueKept
<1>1. VifTypes' /\ NoFault'
  BY <1>u DEF VifInv, VifTypes, NoFault
<1>2. ASSUME ~fault PROVE VifCore'
  <2>0. VifCore
    BY <1>2 DEF VifInv
  <2>s. Sound' <=> Sound
    BY <1>u, <1>q
      DEF Sound, Doomed, Accidents, Pending, Meets, Freeing, Leaving, Target, Mine
  <2>1. UserShape'
    BY <2>0, <1>u DEF VifCore, UserShape, Adding, Deleting
  <2>2. Listing' /\ Pairing'
    BY <2>0, <1>u DEF VifCore, Listing, Leaving, Pairing, Adding
  <2>3. News'
    BY <2>0, <1>u, <1>q DEF VifCore, News, Fresh, Leaving
  <2>4. Told'
    BY <2>0, <1>u, <1>q DEF VifCore, Told
  <2>5. Belatedly'
    BY <2>0, <2>s, <1>u, <1>q DEF VifCore, Belatedly, Belated, Deletes, Target, Mine
  <2>6. OneLate'
    BY <2>0, <1>u, <1>q DEF VifCore, OneLate, Late
  <2>7. Follows'
    BY <2>0, <2>s, <1>u, <1>q
    DEF VifCore, Follows, Removing, Deletes, Crossed, Pending, Accidents, Target, Mine
  <2>8. CleanUser' <=> CleanUser
    BY <1>u, <1>q DEF CleanUser, Own, Adding, Deleting, Target, Mine
  <2>9. /\ CleanWorker' <=> CleanWorker
        /\ CleanEvents' <=> CleanEvents
        /\ CleanList' <=> CleanList
    BY <1>u, <1>q DEF CleanWorker, CleanEvents, CleanList, Leaving, Deletes, Target, Mine
  <2>10. Clean'
    BY <2>0, <2>8, <2>9, <1>u, <1>q DEF VifCore, Clean, Accidents
  <2> QED
    BY <2>1, <2>2, <2>3, <2>4, <2>5, <2>6, <2>7, <2>10 DEF VifCore
<1> QED
  BY <1>1, <1>2, <1>u DEF VifInv

\* No step breaks the invariant.
LEMMA VifStepInv == VifInv /\ [Next]_vars => VifInv'
<1>1. ASSUME VifInv, Next PROVE VifInv'
  <2>1. ASSUME NEW kind \in Kinds, AddStart(kind) PROVE VifInv'
    BY <1>1, <2>1, AddStartKeeps
  <2>2. ASSUME NEW s \in Slots, AddRequest(s) \/ FirmwareRemoves(s) PROVE VifInv'
    BY <1>1, <2>2, AddRequestKeeps, FirmwareRemovesKeeps
  <2>3. ASSUME NEW ok \in BOOLEAN, AddWaits(ok) \/ DelWaits(ok) \/ ChangeWaits(ok) PROVE VifInv'
    BY <1>1, <2>3, AddWaitsKeeps, DelWaitsKeeps, ChangeWaitsKeeps
  <2>4. CASE AddRefused \/ AddDone \/ AddAttach \/ AttachFails \/ UserFault
    BY <1>1, <2>4, AddRefusedKeeps, AddDoneKeeps, AddAttachKeeps, AttachFailsKeeps,
       UserFaultKeeps
  <2>5. ASSUME NEW v \in Ids, DelStart(v) PROVE VifInv'
    BY <1>1, <2>5, DelStartKeeps
  <2>6. CASE DelRequest \/ DelRefused \/ Remove \/ DelEnd
    BY <1>1, <2>6, DelRequestKeeps, DelRefusedKeeps, RemoveKeeps, DelEndKeeps
  <2>7. CASE ChangeStart \/ ChangeRequest \/ ChangeRefused
    BY <1>1, <2>7, ChangeStartKeeps, ChangeRequestKeeps, ChangeRefusedKeeps
  <2>8. CASE EventIgnored \/ AddEvent \/ DelEvent \/ DelCheck \/ WorkerRemoves \/ ChangeEvent
    BY <1>1, <2>8, EventIgnoredKeeps, AddEventKeeps, DelEventKeeps, DelCheckKeeps,
       WorkerRemovesKeeps,
       ChangeEventKeeps
  <2> QED
    BY <1>1, <2>1, <2>2, <2>3, <2>4, <2>5, <2>6, <2>7, <2>8 DEF Next
<1>2. ASSUME VifInv, UNCHANGED vars PROVE VifInv'
  BY <1>2, VifStutter
<1> QED
  BY <1>1, <1>2

\* The driver's interfaces stay consistent with the user's operation, with the
\* events that wait for the worker, and with the firmware: VifInv.
THEOREM VifInvariant == Spec => []VifInv
<1>1. Init => VifInv
  BY VifInitInv
<1>2. VifInv /\ [Next]_vars => VifInv'
  BY VifStepInv
<1> QED
  BY <1>1, <1>2, PTL DEF Spec

\* However many interfaces there are, users add, change and delete, and
\* whatever fails or times out: when all events are handled by
\* brcmf_fweh_event_worker the driver has the firmware's interfaces, no vif is
\* leaked, and a freed one is used only after an accident: HostFollows.
THEOREM HostFollowsHolds == Spec => []HostFollows
<1>1. ASSUME VifInv PROVE HostFollows
  <2>1. NoFault
    BY <1>1 DEF VifInv
  <2>2. ASSUME Quiet PROVE VifTypes /\ Listing /\ Pairing /\ Follows
    BY <1>1, <2>2 DEF VifInv, VifCore, Quiet
  <2>3. ASSUME Quiet PROVE \A s \in Slots : s \notin Asked
    BY <2>3, QueueEmpty DEF Quiet
  <2>4. Paired
    <3> SUFFICES ASSUME Quiet, NEW v \in Ids, vif[v].live
                 PROVE  vif[v].ifp \in Listed /\ ifp[vif[v].ifp].vif = v
      BY DEF Paired
    <3>1. PICK i \in Ids \cup {NoId} : i = vif[v].ifp
      BY <2>2 DEF VifTypes, Vifs
    <3>2. i \in Ids /\ ifp[i].live /\ ifp[i].vif = v
      BY <3>1, <2>2 DEF Pairing, Adding, Quiet
    <3>3. ifp[i].slot \in Slots /\ iflist[ifp[i].slot] = i
      BY <3>2, <2>2 DEF Listing, Leaving, Quiet
    <3> QED
      BY <3>1, <3>2, <3>3, VifAssumption DEF Listed
  <2>5. Matching
    <3> SUFFICES ASSUME Quiet, ~stray, timeouts + unasked <= 1 PROVE iflist = fwif
      BY DEF Matching
    <3>1. ~Doomed
      <4> SUFFICES ASSUME NEW x \in Ids, ifp[x].live, ifp[x].slot \in Asked, iflist[ifp[x].slot] = x
                   PROVE  FALSE
        BY DEF Doomed, Pending, Meets, Leaving, Freeing, Quiet
      <4> QED
        BY <2>2, <2>3 DEF Asked
    <3>2. Sound
      BY <3>1 DEF Sound, Accidents
    <3>3. \A s \in Slots : iflist[s] = fwif[s]
      BY <3>2, <2>2, <2>3 DEF Follows, Removing, Deletes, Quiet
    <3>4. iflist \in [Slots -> Ids \cup {NoId}] /\ fwif \in [Slots -> Ids \cup {NoId}]
      BY <2>2 DEF VifTypes
    <3> QED
      BY <3>3, <3>4
  <2> QED
    BY <2>1, <2>4, <2>5 DEF HostFollows
<1> QED
  BY <1>1, VifInvariant, PTL

==============================================================================
