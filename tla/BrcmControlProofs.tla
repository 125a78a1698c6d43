-------------------------- MODULE BrcmControlProofs --------------------------
(***************************************************************************)
(* Proofs about the control path of the Wi-Fi driver: Bluetooth            *)
(* coexistence (CoexBack) and scanning (ScanEnds), for any number of       *)
(* calls, requests and failures.  Each part has an inductive invariant of  *)
(* its own, which the steps of the other parts leave alone.                *)
(***************************************************************************)
EXTENDS MCBrcmControl, TLAPS

allVars == <<part, sVars, vars, cVars, aVars, pVars, bVars>>

-----------------------------------------------------------------------------
(* Bluetooth coexistence (btcoex.c).                                       *)

History == [calls : Nat, faults : Nat, hurt : [1 .. 2 -> BOOLEAN], crash : BOOLEAN,
            crossed : BOOLEAN]
Values == {"orig", "dhcp", "junk"}

CoexType ==
    /\ bt \in [state : {"IDLE", "START", "OPPR", "FORCE"}, timer_on : BOOLEAN, done : BOOLEAN,
               vif : BOOLEAN, saved : [1 .. 2 -> BOOLEAN],
               reg : [1 .. 2 -> {"orig", "dhcp", "junk"}], there : BOOLEAN]
    /\ par \in [1 .. 2 -> {"orig", "dhcp", "junk"}]
    /\ bArmed \in BOOLEAN /\ queued \in BOOLEAN /\ crit \in BOOLEAN
    /\ hd \in B!EndSteps \cup {"out", "switch", "on", "force"}
    /\ us \in {"out", "save", "go", "end", "write"}
    /\ hist \in History

\* Where a session is, and what ends it; always.
SessionShape ==
    /\ bt.there /\ bt.state # "IDLE" => bArmed \/ queued \/ hd \in {"switch", "force", "idle"}
    /\ ~bt.there => /\ us = "out" /\ hd = "out" /\ ~queued /\ ~bArmed
                    /\ ~bt.saved[1] /\ ~bt.saved[2]
    /\ us \in {"save", "go"} => bt.state = "IDLE"
    /\ hd = "force" => bt.state = "OPPR"
    /\ hd = "on" => bt.state \in {"OPPR", "FORCE"}
    /\ bt.timer_on => hd = "out"
    /\ bt.saved[2] => hd = "force" \/ bt.state = "FORCE"
    /\ bt.saved[1] => bt.state # "IDLE" \/ us = "go" \/ hd \in {"stopped", "flag"}

\* Where the firmware's own value of a group is.
Group2 ==
    hist.hurt[2] \/ IF bt.saved[2] THEN bt.reg[2] = "orig" ELSE par[2] = "orig"
Group1 ==
    hist.hurt[1] \/ IF bt.saved[1] \/ hd = "write" \/ us = "write"
                    THEN bt.reg[1] = "orig" ELSE par[1] = "orig"

\* While no call of the user overlapped the end of a session: the work and the
\* timer are there for a session only, and the interface is set throughout it.
Uncrossed ==
    /\ us = "out" \/ hd \notin B!EndSteps
    /\ queued => bt.state # "IDLE" /\ hd \in {"out", "on"}
    /\ bArmed => bt.state # "IDLE" /\ (hd = "on" \/ bt.timer_on)
    /\ hd = "switch" => bt.state # "IDLE"
    /\ us \in {"end", "write"} => bt.state # "IDLE"
    /\ \/ bt.state # "IDLE" \/ us \in {"save", "go"}
       \/ hd \in {"idle", "stopped", "flag", "write"}
       => bt.vif
    /\ hd \in {"stopped", "flag", "write", "forget"} => bt.state = "IDLE"
    /\ ~hist.crash

CoexInv ==
    CoexType /\ SessionShape /\ Group2 /\ (~hist.crossed => Uncrossed /\ Group1)

\* A refusal is noted, and nothing else of the history changes.
LEMMA HurtFacts ==
    ASSUME NEW h \in History, NEW g \in 1 .. 2
    PROVE  /\ B!Refused(h) \in History /\ B!Hurt(h, g) \in History
           /\ B!Refused(h).hurt = h.hurt /\ B!Hurt(h, g).hurt = [h.hurt EXCEPT ![g] = TRUE]
           /\ B!Refused(h).crash = h.crash /\ B!Hurt(h, g).crash = h.crash
           /\ B!Refused(h).crossed = h.crossed /\ B!Hurt(h, g).crossed = h.crossed
<1>1. /\ B!Refused(h) \in History /\ B!Refused(h).hurt = h.hurt
      /\ B!Refused(h).crash = h.crash /\ B!Refused(h).crossed = h.crossed
  BY DEF B!Refused, History
<1> DEFINE k == B!Refused(h)
<1>2. B!Hurt(h, g) = [k EXCEPT !.hurt = [k.hurt EXCEPT ![g] = TRUE]]
  BY DEF B!Hurt
<1>3. k \in History /\ k.hurt = h.hurt /\ k.crash = h.crash /\ k.crossed = h.crossed
  BY <1>1
<1> HIDE DEF k
<1>4. [k.hurt EXCEPT ![g] = TRUE] \in [1 .. 2 -> BOOLEAN]
  BY <1>3 DEF History
<1>5. /\ B!Hurt(h, g) \in History /\ B!Hurt(h, g).hurt = [h.hurt EXCEPT ![g] = TRUE]
      /\ B!Hurt(h, g).crash = h.crash /\ B!Hurt(h, g).crossed = h.crossed
  BY <1>2, <1>3, <1>4 DEF History
<1> QED
  BY <1>1, <1>5

\* What two histories may differ in when at most group g was hurt between them.
Hurts(h, k, g) ==
    /\ h.crash = k.crash /\ h.crossed = k.crossed
    /\ \A o \in 1 .. 2 : h.hurt[o] \in BOOLEAN /\ (h.hurt[o] => k.hurt[o])
    /\ \A o \in 1 .. 2 \ {g} : k.hurt[o] = h.hurt[o]

LEMMA HurtHurts ==
    ASSUME NEW h \in History, NEW g \in 1 .. 2
    PROVE  /\ Hurts(h, h, g) /\ Hurts(h, B!Refused(h), g) /\ Hurts(h, B!Hurt(h, g), g)
           /\ B!Hurt(h, g).hurt[g]
<1>1. h.hurt \in [1 .. 2 -> BOOLEAN]
  BY DEF History
<1>2. Hurts(h, h, g)
  BY <1>1 DEF Hurts
<1>3. Hurts(h, B!Refused(h), g)
  <2>1. /\ B!Refused(h).hurt = h.hurt /\ B!Refused(h).crash = h.crash
        /\ B!Refused(h).crossed = h.crossed
    BY HurtFacts
  <2> QED
    BY <1>1, <2>1 DEF Hurts
<1>4. Hurts(h, B!Hurt(h, g), g) /\ B!Hurt(h, g).hurt[g]
  <2> DEFINE k == B!Hurt(h, g)
  <2>1. k.hurt = [h.hurt EXCEPT ![g] = TRUE] /\ k.crash = h.crash /\ k.crossed = h.crossed
    BY HurtFacts
  <2> HIDE DEF k
  <2>2. k.hurt[g] /\ (\A o \in 1 .. 2 : o # g => k.hurt[o] = h.hurt[o])
    BY <1>1, <2>1
  <2>3. Hurts(h, k, g) /\ k.hurt[g]
    BY <1>1, <2>1, <2>2 DEF Hurts
  <2> QED
    BY <2>3 DEF k
<1> QED
  BY <1>2, <1>3, <1>4

\* A save reads the parameters or, the group being hurt, something else.
LEMMA ReadsFacts ==
    ASSUME CoexType, NEW g \in 1 .. 2, NEW r \in B!Reads(g)
    PROVE  /\ r.reg \in Values /\ r.hist \in History /\ Hurts(hist, r.hist, g)
           /\ ~r.hist.hurt[g] => r.reg = par[g]
<1>0. hist \in History
  BY DEF CoexType
<1>1. CASE r = [reg |-> par[g], hist |-> hist]
  BY <1>0, <1>1, HurtHurts DEF CoexType, Values
<1>2. CASE r = [reg |-> "junk", hist |-> B!Hurt(hist, g)]
  BY <1>0, <1>2, HurtFacts, HurtHurts DEF Values
<1> QED
  BY <1>1, <1>2 DEF B!Reads

\* An override changes its group only and hurts none.
LEMMA OverrideFacts ==
    ASSUME CoexType, NEW g \in 1 .. 2, NEW h \in History, B!Override(g, h)
    PROVE  /\ par' \in [1 .. 2 -> Values] /\ hist' \in History
           /\ \A o \in 1 .. 2 \ {g} : par'[o] = par[o]
           /\ hist'.hurt = h.hurt /\ hist'.crash = h.crash /\ hist'.crossed = h.crossed
<1>1. CASE par' = [par EXCEPT ![g] = "dhcp"] /\ hist' = h
  BY <1>1 DEF CoexType, Values
<1>2. CASE par' = par /\ hist' = B!Refused(h)
  BY <1>2, HurtFacts DEF CoexType, Values
<1> QED
  BY <1>1, <1>2 DEF B!Override

\* A group put back has what was saved, or is hurt.
LEMMA PutBackFacts ==
    ASSUME CoexType, NEW g \in 1 .. 2, NEW h \in History, B!PutBack(g, h)
    PROVE  /\ par' \in [1 .. 2 -> Values] /\ hist' \in History
           /\ \A o \in 1 .. 2 \ {g} : par'[o] = par[o]
           /\ Hurts(h, hist', g) /\ (hist'.hurt[g] \/ par'[g] = bt.reg[g])
<1>1. CASE par' = [par EXCEPT ![g] = bt.reg[g]] /\ hist' = h
  BY <1>1, HurtHurts DEF CoexType, Values
<1>2. CASE par' = par /\ hist' = B!Hurt(h, g)
  BY <1>2, HurtFacts, HurtHurts DEF CoexType, Values
<1> QED
  BY <1>1, <1>2 DEF B!PutBack

Saves(g, v) == [bt EXCEPT !.saved[g] = TRUE, !.reg[g] = v]
Session == [state : {"IDLE", "START", "OPPR", "FORCE"}, timer_on : BOOLEAN, done : BOOLEAN,
            vif : BOOLEAN, saved : [1 .. 2 -> BOOLEAN], reg : [1 .. 2 -> Values],
            there : BOOLEAN]

\* What a successful or failed save of a parameter group and its override
\* leave behind.
LEMMA SaveFacts ==
    ASSUME CoexType, NEW g \in 1 .. 2, NEW r \in B!Reads(g), bt' = Saves(g, r.reg),
           B!Override(g, r.hist)
    PROVE  /\ bt' \in Session /\ hist' \in History /\ par' \in [1 .. 2 -> Values]
           /\ bt'.state = bt.state /\ bt'.timer_on = bt.timer_on /\ bt'.there = bt.there
           /\ bt'.vif = bt.vif /\ Hurts(hist, hist', g)
           /\ bt'.saved = [bt.saved EXCEPT ![g] = TRUE]
           /\ hist'.hurt[g] \/ bt'.reg[g] = par[g]
           /\ \A o \in 1 .. 2 \ {g} : par'[o] = par[o] /\ bt'.reg[o] = bt.reg[o]
<1> DEFINE v == r.reg
           h == r.hist
<1>1. v \in Values /\ h \in History /\ Hurts(hist, h, g) /\ (~h.hurt[g] => v = par[g])
  BY ReadsFacts
<1>2. bt' = [bt EXCEPT !.saved = [bt.saved EXCEPT ![g] = TRUE], !.reg = [bt.reg EXCEPT ![g] = v]]
  BY DEF Saves
<1>3. /\ par' \in [1 .. 2 -> Values] /\ hist' \in History
      /\ \A o \in 1 .. 2 \ {g} : par'[o] = par[o]
      /\ hist'.hurt = h.hurt /\ hist'.crash = h.crash /\ hist'.crossed = h.crossed
  BY <1>1, OverrideFacts
<1> HIDE DEF v, h
<1>4. /\ bt' \in Session
      /\ bt'.state = bt.state /\ bt'.timer_on = bt.timer_on /\ bt'.there = bt.there
      /\ bt'.vif = bt.vif
      /\ bt'.saved = [bt.saved EXCEPT ![g] = TRUE] /\ bt'.reg = [bt.reg EXCEPT ![g] = v]
  <2> DEFINE sv == [bt.saved EXCEPT ![g] = TRUE]
             rg == [bt.reg EXCEPT ![g] = v]
  <2>1. sv \in [1 .. 2 -> BOOLEAN] /\ rg \in [1 .. 2 -> Values]
    BY <1>1 DEF CoexType, Values
  <2>2. bt' = [bt EXCEPT !.saved = sv, !.reg = rg]
    BY <1>2
  <2> HIDE DEF sv, rg
  <2>3. /\ bt' \in Session
        /\ bt'.state = bt.state /\ bt'.timer_on = bt.timer_on /\ bt'.there = bt.there
        /\ bt'.vif = bt.vif /\ bt'.saved = sv /\ bt'.reg = rg
    BY <2>1, <2>2 DEF CoexType, Session, Values
  <2> QED
    BY <2>3 DEF sv, rg
<1>5. bt.reg \in [1 .. 2 -> Values]
  BY DEF CoexType, Values
<1>6. hist'.hurt[g] \/ bt'.reg[g] = par[g]
  BY <1>1, <1>3, <1>4, <1>5 DEF Hurts
<1>7. \A o \in 1 .. 2 \ {g} : bt'.reg[o] = bt.reg[o]
  BY <1>4, <1>5
<1>8. Hurts(hist, hist', g)
  BY <1>1, <1>3 DEF Hurts
<1> QED
  BY <1>3, <1>4, <1>6, <1>7, <1>8

\* The timer fires.
LEMMA TimerFuncInv ==
    ASSUME CoexInv, B!TimerFunc
    PROVE  CoexInv'
<1> USE DEF B!TimerFunc, B!EndSteps
<1>1. CoexType'
  BY DEF CoexInv, CoexType, SessionShape
<1>2. SessionShape'
  BY DEF CoexInv, CoexType, SessionShape
<1>3. Group2'
  BY DEF CoexInv, CoexType, SessionShape, Group2
<1>4. ASSUME ~hist.crossed' PROVE Uncrossed'
  BY <1>4 DEF CoexInv, CoexType, SessionShape, Uncrossed
<1>5. ASSUME ~hist.crossed' PROVE Group1'
  BY <1>5 DEF CoexInv, CoexType, SessionShape, Uncrossed, Group1
<1> QED
  BY <1>1, <1>2, <1>3, <1>4, <1>5 DEF CoexInv

\* The work starts,
LEMMA HandlerStartsInv ==
    ASSUME CoexInv, B!HandlerStarts
    PROVE  CoexInv'
<1> USE DEF B!HandlerStarts, B!EndSteps
<1>1. CoexType'
  BY DEF CoexInv, CoexType, SessionShape
<1>2. SessionShape'
  BY DEF CoexInv, CoexType, SessionShape
<1>3. Group2'
  BY DEF CoexInv, CoexType, SessionShape, Group2
<1>4. ASSUME ~hist.crossed' PROVE Uncrossed'
  BY <1>4 DEF CoexInv, CoexType, SessionShape, Uncrossed
<1>5. ASSUME ~hist.crossed' PROVE Group1'
  BY <1>5 DEF CoexInv, CoexType, SessionShape, Uncrossed, Group1
<1> QED
  BY <1>1, <1>2, <1>3, <1>4, <1>5 DEF CoexInv

\* ... opens the opportunity window,
LEMMA HandlerOpensInv ==
    ASSUME CoexInv, B!HandlerOpens
    PROVE  CoexInv'
<1> USE DEF B!HandlerOpens, B!EndSteps
<1>1. CoexType'
  BY DEF CoexInv, CoexType, SessionShape
<1>2. SessionShape'
  BY DEF CoexInv, CoexType, SessionShape
<1>3. Group2'
  BY DEF CoexInv, CoexType, SessionShape, Group2
<1>4. ASSUME ~hist.crossed' PROVE Uncrossed'
  BY <1>4 DEF CoexInv, CoexType, SessionShape, Uncrossed
<1>5. ASSUME ~hist.crossed' PROVE Group1'
  BY <1>5 DEF CoexInv, CoexType, SessionShape, Uncrossed, Group1
<1> QED
  BY <1>1, <1>2, <1>3, <1>4, <1>5 DEF CoexInv

\* ... saves and overrides group 2,
LEMMA HandlerBoostsInv ==
    ASSUME CoexInv, B!HandlerBoosts
    PROVE  CoexInv'
<1> USE DEF B!EndSteps
<1>a. PICK r \in B!Reads(2) : bt' = Saves(2, r.reg) /\ B!Override(2, r.hist)
  BY DEF B!HandlerBoosts, Saves
<1>b. CoexType /\ 2 \in 1 .. 2
  BY DEF CoexInv
<1>c. /\ bt' \in Session /\ hist' \in History /\ par' \in [1 .. 2 -> Values]
      /\ bt'.state = bt.state /\ bt'.timer_on = bt.timer_on /\ bt'.there = bt.there
      /\ bt'.vif = bt.vif /\ Hurts(hist, hist', 2)
      /\ bt'.saved = [bt.saved EXCEPT ![2] = TRUE]
      /\ hist'.hurt[2] \/ bt'.reg[2] = par[2]
      /\ \A o \in 1 .. 2 \ {2} : par'[o] = par[o] /\ bt'.reg[o] = bt.reg[o]
  BY <1>a, <1>b, SaveFacts
<1>d. /\ bt'.saved[2] /\ bt'.saved[1] = bt.saved[1] /\ bt'.reg[1] = bt.reg[1]
      /\ par'[1] = par[1] /\ hist'.hurt[1] = hist.hurt[1] /\ (hist.hurt[2] => hist'.hurt[2])
      /\ hist'.crash = hist.crash /\ hist'.crossed = hist.crossed
  BY <1>b, <1>c DEF CoexType, Hurts
<1>e. /\ hd = "switch" /\ hd' = "force" /\ bt.state = "OPPR" /\ ~bt.saved[2]
      /\ UNCHANGED <<bArmed, queued, us, crit>>
  BY DEF B!HandlerBoosts
<1>1. CoexType'
  BY <1>b, <1>c, <1>e DEF CoexInv, CoexType, Session, Values
<1>2. SessionShape'
  BY <1>b, <1>c, <1>d, <1>e DEF CoexInv, CoexType, SessionShape
<1>3. Group2'
  BY <1>b, <1>c, <1>d, <1>e DEF CoexInv, CoexType, SessionShape, Group2
<1>4. ASSUME ~hist.crossed' PROVE Uncrossed'
  BY <1>b, <1>c, <1>d, <1>e, <1>4 DEF CoexInv, CoexType, SessionShape, Uncrossed
<1>5. ASSUME ~hist.crossed' PROVE Group1'
  BY <1>b, <1>c, <1>d, <1>e, <1>5 DEF CoexInv, CoexType, SessionShape, Uncrossed, Group1
<1> QED
  BY <1>1, <1>2, <1>3, <1>4, <1>5 DEF CoexInv

\* ... enters the last state,
LEMMA HandlerForcesInv ==
    ASSUME CoexInv, B!HandlerForces
    PROVE  CoexInv'
<1> USE DEF B!HandlerForces, B!EndSteps
<1>1. CoexType'
  BY DEF CoexInv, CoexType, SessionShape
<1>2. SessionShape'
  BY DEF CoexInv, CoexType, SessionShape
<1>3. Group2'
  BY DEF CoexInv, CoexType, SessionShape, Group2
<1>4. ASSUME ~hist.crossed' PROVE Uncrossed'
  BY <1>4 DEF CoexInv, CoexType, SessionShape, Uncrossed
<1>5. ASSUME ~hist.crossed' PROVE Group1'
  BY <1>5 DEF CoexInv, CoexType, SessionShape, Uncrossed, Group1
<1> QED
  BY <1>1, <1>2, <1>3, <1>4, <1>5 DEF CoexInv

\* ... notes the timer,
LEMMA HandlerOnInv ==
    ASSUME CoexInv, B!HandlerOn
    PROVE  CoexInv'
<1> USE DEF B!HandlerOn, B!EndSteps
<1>1. CoexType'
  BY DEF CoexInv, CoexType, SessionShape
<1>2. SessionShape'
  BY DEF CoexInv, CoexType, SessionShape
<1>3. Group2'
  BY DEF CoexInv, CoexType, SessionShape, Group2
<1>4. ASSUME ~hist.crossed' PROVE Uncrossed'
  BY <1>4 DEF CoexInv, CoexType, SessionShape, Uncrossed
<1>5. ASSUME ~hist.crossed' PROVE Group1'
  BY <1>5 DEF CoexInv, CoexType, SessionShape, Uncrossed, Group1
<1> QED
  BY <1>1, <1>2, <1>3, <1>4, <1>5 DEF CoexInv

\* ... or ends the session:
LEMMA HandlerEndsInv ==
    ASSUME CoexInv, B!HandlerEnds
    PROVE  CoexInv'
<1> USE DEF B!HandlerEnds, B!Noted, B!EndSteps
<1>1. CoexType'
  BY DEF CoexInv, CoexType, SessionShape, History
<1>2. SessionShape'
  BY DEF CoexInv, CoexType, SessionShape
<1>3. Group2'
  BY DEF CoexInv, CoexType, SessionShape, Group2
<1>4. ASSUME ~hist.crossed' PROVE Uncrossed'
  BY <1>4 DEF CoexInv, CoexType, SessionShape, Uncrossed
<1>5. ASSUME ~hist.crossed' PROVE Group1'
  BY <1>5 DEF CoexInv, CoexType, SessionShape, Uncrossed, Group1
<1> QED
  BY <1>1, <1>2, <1>3, <1>4, <1>5 DEF CoexInv

\* the state and group 2,
LEMMA HandlerIdleInv ==
    ASSUME CoexInv, B!HandlerIdle
    PROVE  CoexInv'
<1> USE DEF B!EndSteps
<1>a. CoexType /\ 2 \in 1 .. 2 /\ hist \in History
  BY DEF CoexInv, CoexType
<1>b. /\ hd = "idle" /\ hd' = "stopped" /\ UNCHANGED <<bArmed, queued, us, crit>>
      /\ bt' = [bt EXCEPT !.state = "IDLE", !.timer_on = FALSE,
                         !.saved = [bt.saved EXCEPT ![2] = FALSE]]
      /\ IF bt.saved[2] THEN B!PutBack(2, hist) ELSE UNCHANGED <<par, hist>>
  BY DEF B!HandlerIdle
<1>c. /\ par' \in [1 .. 2 -> Values] /\ hist' \in History /\ par'[1] = par[1]
      /\ hist'.hurt[1] = hist.hurt[1] /\ hist'.crash = hist.crash /\ hist'.crossed = hist.crossed
      /\ hist.hurt[2] => hist'.hurt[2]
      /\ hist'.hurt[2] \/ par'[2] = IF bt.saved[2] THEN bt.reg[2] ELSE par[2]
  <2>1. CASE bt.saved[2]
    <3>1. B!PutBack(2, hist)
      BY <1>b, <2>1
    <3>2. /\ par' \in [1 .. 2 -> Values] /\ hist' \in History
          /\ \A o \in 1 .. 2 \ {2} : par'[o] = par[o]
          /\ Hurts(hist, hist', 2) /\ (hist'.hurt[2] \/ par'[2] = bt.reg[2])
      BY <1>a, <3>1, PutBackFacts
    <3> QED
      BY <2>1, <3>2 DEF Hurts
  <2>2. CASE ~bt.saved[2]
    BY <1>a, <1>b, <2>2 DEF CoexType, Values
  <2> QED
    BY <2>1, <2>2
<1>d. [bt.saved EXCEPT ![2] = FALSE] \in [1 .. 2 -> BOOLEAN]
  BY <1>a DEF CoexType
<1>1. CoexType'
  BY <1>a, <1>b, <1>c, <1>d DEF CoexInv, CoexType, Values
<1>2. SessionShape'
  BY <1>a, <1>b, <1>c DEF CoexInv, CoexType, SessionShape
<1>3. Group2'
  BY <1>a, <1>b, <1>c DEF CoexInv, CoexType, SessionShape, Group2
<1>4. ASSUME ~hist.crossed' PROVE Uncrossed'
  BY <1>a, <1>b, <1>c, <1>4 DEF CoexInv, CoexType, SessionShape, Uncrossed
<1>5. ASSUME ~hist.crossed' PROVE Group1'
  BY <1>a, <1>b, <1>c, <1>5 DEF CoexInv, CoexType, SessionShape, Uncrossed, Group1
<1> QED
  BY <1>1, <1>2, <1>3, <1>4, <1>5 DEF CoexInv

\* the report to cfg80211,
LEMMA HandlerStoppedInv ==
    ASSUME CoexInv, B!HandlerStopped
    PROVE  CoexInv'
<1> USE DEF B!HandlerStopped, B!EndSteps
<1>1. CoexType'
  BY DEF CoexInv, CoexType, SessionShape, History
<1>2. SessionShape'
  BY DEF CoexInv, CoexType, SessionShape
<1>3. Group2'
  BY DEF CoexInv, CoexType, SessionShape, Group2
<1>4. ASSUME ~hist.crossed' PROVE Uncrossed'
  BY <1>4 DEF CoexInv, CoexType, SessionShape, Uncrossed
<1>5. ASSUME ~hist.crossed' PROVE Group1'
  BY <1>5 DEF CoexInv, CoexType, SessionShape, Uncrossed, Group1
<1> QED
  BY <1>1, <1>2, <1>3, <1>4, <1>5 DEF CoexInv

\* the flag of group 1,
LEMMA HandlerFlagInv ==
    ASSUME CoexInv, B!HandlerFlag
    PROVE  CoexInv'
<1> USE DEF B!HandlerFlag, B!EndSteps
<1>1. CoexType'
  BY DEF CoexInv, CoexType, SessionShape
<1>2. SessionShape'
  BY DEF CoexInv, CoexType, SessionShape
<1>3. Group2'
  BY DEF CoexInv, CoexType, SessionShape, Group2
<1>4. ASSUME ~hist.crossed' PROVE Uncrossed'
  BY <1>4 DEF CoexInv, CoexType, SessionShape, Uncrossed
<1>5. ASSUME ~hist.crossed' PROVE Group1'
  BY <1>5 DEF CoexInv, CoexType, SessionShape, Uncrossed, Group1
<1> QED
  BY <1>1, <1>2, <1>3, <1>4, <1>5 DEF CoexInv

\* its parameters,
LEMMA HandlerWriteInv ==
    ASSUME CoexInv, B!HandlerWrite
    PROVE  CoexInv'
<1> USE DEF B!EndSteps
<1> DEFINE h == [hist EXCEPT !.crash = @ \/ ~bt.vif]
<1>0. CoexType /\ bt.vif \in BOOLEAN /\ hist \in History
  BY DEF CoexInv, CoexType
<1> DEFINE c == hist.crash \/ ~bt.vif
<1>z. c \in BOOLEAN
  OBVIOUS
<1>y. h = [hist EXCEPT !.crash = c]
  OBVIOUS
<1> HIDE DEF c, h
<1>x. h \in History
  BY <1>0, <1>y, <1>z DEF History
<1>a. CoexType /\ 1 \in 1 .. 2 /\ h \in History
  BY <1>0, <1>x
<1>b. hd = "write" /\ hd' = "forget"
      /\ B!PutBack(1, h) /\ UNCHANGED <<bt, bArmed, queued, us, crit>>
  BY DEF B!HandlerWrite, h
<1>w. h.hurt = hist.hurt /\ h.crossed = hist.crossed /\ h.crash = c
  BY <1>0, <1>y DEF History
<1>c. h.hurt = hist.hurt /\ h.crossed = hist.crossed /\ (h.crash <=> hist.crash \/ ~bt.vif)
  BY <1>w DEF c
<1>d. /\ par' \in [1 .. 2 -> Values] /\ hist' \in History
      /\ \A o \in 1 .. 2 \ {1} : par'[o] = par[o]
      /\ Hurts(h, hist', 1) /\ (hist'.hurt[1] \/ par'[1] = bt.reg[1])
  BY <1>a, <1>b, PutBackFacts
<1>e. /\ par'[2] = par[2] /\ hist'.hurt[2] = hist.hurt[2] /\ (hist.hurt[1] => hist'.hurt[1])
      /\ hist'.crossed = hist.crossed /\ (hist'.crash <=> hist.crash \/ ~bt.vif)
  BY <1>c, <1>d DEF Hurts
<1>1. CoexType'
  BY <1>a, <1>b, <1>d DEF CoexInv, CoexType, Values
<1>2. SessionShape'
  BY <1>a, <1>b DEF CoexInv, CoexType, SessionShape
<1>3. Group2'
  BY <1>a, <1>b, <1>e DEF CoexInv, CoexType, SessionShape, Group2
<1>4. ASSUME ~hist.crossed' PROVE Uncrossed'
  BY <1>a, <1>b, <1>e, <1>4 DEF CoexInv, CoexType, SessionShape, Uncrossed
<1>5. ASSUME ~hist.crossed' PROVE Group1'
  BY <1>a, <1>b, <1>d, <1>e, <1>5 DEF CoexInv, CoexType, SessionShape, Uncrossed, Group1
<1> QED
  BY <1>1, <1>2, <1>3, <1>4, <1>5 DEF CoexInv

\* and the interface.
LEMMA HandlerForgetInv ==
    ASSUME CoexInv, B!HandlerForget
    PROVE  CoexInv'
<1> USE DEF B!HandlerForget, B!EndSteps
<1>1. CoexType'
  BY DEF CoexInv, CoexType, SessionShape
<1>2. SessionShape'
  BY DEF CoexInv, CoexType, SessionShape
<1>3. Group2'
  BY DEF CoexInv, CoexType, SessionShape, Group2
<1>4. ASSUME ~hist.crossed' PROVE Uncrossed'
  BY <1>4 DEF CoexInv, CoexType, SessionShape, Uncrossed
<1>5. ASSUME ~hist.crossed' PROVE Group1'
  BY <1>5 DEF CoexInv, CoexType, SessionShape, Uncrossed, Group1
<1> QED
  BY <1>1, <1>2, <1>3, <1>4, <1>5 DEF CoexInv

\* The user starts a critical protocol:
LEMMA SetModeDisabledInv ==
    ASSUME CoexInv, B!SetModeDisabled
    PROVE  CoexInv'
<1> USE DEF B!SetModeDisabled, B!Noted, B!Called, B!Free, B!ScoActive, B!EndSteps
<1>1. CoexType'
  <2>1. bt' \in [state : {"IDLE", "START", "OPPR", "FORCE"}, timer_on : BOOLEAN, done : BOOLEAN,
                   vif : BOOLEAN, saved : [1 .. 2 -> BOOLEAN],
                   reg : [1 .. 2 -> {"orig", "dhcp", "junk"}], there : BOOLEAN]
    <3>1. bt' = bt \/ \E x \in BOOLEAN : bt' = [bt EXCEPT !.vif = x]
      BY DEF CoexInv, CoexType
    <3> QED
      BY <3>1 DEF CoexInv, CoexType
  <2>2. hist' \in History
    <3>1. hist' = [B!Called(hist) EXCEPT !.crossed = @ \/ (us' # "out" /\ hd' \in B!EndSteps)]
      OBVIOUS
    <3>2. B!Called(hist) \in History
      BY DEF CoexInv, CoexType, History
    <3> HIDE DEF B!Called
    <3> QED
      BY <3>1, <3>2 DEF History
  <2> QED
    BY <2>1, <2>2 DEF CoexInv, CoexType
<1>2. SessionShape'
  BY DEF CoexInv, CoexType, SessionShape
<1>3. Group2'
  BY DEF CoexInv, CoexType, SessionShape, Group2
<1>4. ASSUME ~hist.crossed' PROVE Uncrossed'
  BY <1>4 DEF CoexInv, CoexType, SessionShape, Uncrossed
<1>5. ASSUME ~hist.crossed' PROVE Group1'
  BY <1>5 DEF CoexInv, CoexType, SessionShape, Uncrossed, Group1
<1> QED
  BY <1>1, <1>2, <1>3, <1>4, <1>5 DEF CoexInv

\* group 1 is saved and overridden,
LEMMA DhcpStartInv ==
    ASSUME CoexInv, B!DhcpStart
    PROVE  CoexInv'
<1> USE DEF B!EndSteps
<1>0. CoexType /\ 1 \in 1 .. 2 /\ hist \in History
  BY DEF CoexInv, CoexType
<1>1. CASE bt.saved[1]
  <2>a. bt' = bt /\ B!Override(1, hist) /\ us = "save" /\ us' = "go"
        /\ UNCHANGED <<bArmed, queued, hd, crit>>
    BY <1>1 DEF B!DhcpStart
  <2>b. /\ par' \in [1 .. 2 -> Values] /\ hist' \in History
        /\ \A o \in 1 .. 2 \ {1} : par'[o] = par[o]
        /\ hist'.hurt = hist.hurt /\ hist'.crash = hist.crash /\ hist'.crossed = hist.crossed
    BY <1>0, <2>a, OverrideFacts
  <2>c. par'[2] = par[2]
    BY <2>b
  <2>1. CoexType'
    BY <1>1, <2>a, <2>b DEF CoexInv, CoexType, Values
  <2>2. SessionShape'
    BY <1>1, <2>a DEF CoexInv, CoexType, SessionShape
  <2>3. Group2'
    BY <1>1, <2>a, <2>b, <2>c DEF CoexInv, CoexType, SessionShape, Group2
  <2>4. ASSUME ~hist.crossed' PROVE Uncrossed'
    BY <1>1, <2>a, <2>b, <2>4 DEF CoexInv, CoexType, SessionShape, Uncrossed
  <2>5. ASSUME ~hist.crossed' PROVE Group1'
    BY <1>1, <2>a, <2>b, <2>5 DEF CoexInv, CoexType, SessionShape, Uncrossed, Group1
  <2> QED
    BY <2>1, <2>2, <2>3, <2>4, <2>5 DEF CoexInv
<1>2. CASE ~bt.saved[1]
  <2>a. PICK r \in B!Reads(1) : bt' = Saves(1, r.reg) /\ B!Override(1, r.hist)
    BY <1>2 DEF B!DhcpStart, Saves
  <2>c. /\ bt' \in Session /\ hist' \in History /\ par' \in [1 .. 2 -> Values]
        /\ bt'.state = bt.state /\ bt'.timer_on = bt.timer_on /\ bt'.there = bt.there
        /\ bt'.vif = bt.vif /\ Hurts(hist, hist', 1)
        /\ bt'.saved = [bt.saved EXCEPT ![1] = TRUE]
        /\ hist'.hurt[1] \/ bt'.reg[1] = par[1]
        /\ \A o \in 1 .. 2 \ {1} : par'[o] = par[o] /\ bt'.reg[o] = bt.reg[o]
    BY <1>0, <2>a, SaveFacts
  <2>d. /\ bt'.saved[1] /\ bt'.saved[2] = bt.saved[2] /\ bt'.reg[2] = bt.reg[2]
        /\ par'[2] = par[2] /\ hist'.hurt[2] = hist.hurt[2] /\ (hist.hurt[1] => hist'.hurt[1])
        /\ hist'.crash = hist.crash /\ hist'.crossed = hist.crossed
    BY <1>0, <2>c DEF CoexType, Hurts
  <2>e. us = "save" /\ us' = "go" /\ UNCHANGED <<bArmed, queued, hd, crit>> /\ ~bt.saved[1]
    BY <1>2 DEF B!DhcpStart
  <2>1. CoexType'
    BY <1>0, <2>c, <2>e DEF CoexInv, CoexType, Session, Values
  <2>2. SessionShape'
    BY <1>0, <2>c, <2>d, <2>e DEF CoexInv, CoexType, SessionShape
  <2>3. Group2'
    BY <1>0, <2>c, <2>d, <2>e DEF CoexInv, CoexType, SessionShape, Group2
  <2>4. ASSUME ~hist.crossed' PROVE Uncrossed'
    BY <1>0, <2>c, <2>d, <2>e, <2>4 DEF CoexInv, CoexType, SessionShape, Uncrossed
  <2>5. ASSUME ~hist.crossed' PROVE Group1'
    BY <1>0, <2>c, <2>d, <2>e, <2>5 DEF CoexInv, CoexType, SessionShape, Uncrossed, Group1
  <2> QED
    BY <2>1, <2>2, <2>3, <2>4, <2>5 DEF CoexInv
<1> QED
  BY <1>1, <1>2

\* and the work queued.
LEMMA DhcpGoInv ==
    ASSUME CoexInv, B!DhcpGo
    PROVE  CoexInv'
<1> USE DEF B!DhcpGo, B!EndSteps
<1>1. CoexType'
  BY DEF CoexInv, CoexType, SessionShape
<1>2. SessionShape'
  BY DEF CoexInv, CoexType, SessionShape
<1>3. Group2'
  BY DEF CoexInv, CoexType, SessionShape, Group2
<1>4. ASSUME ~hist.crossed' PROVE Uncrossed'
  BY <1>4 DEF CoexInv, CoexType, SessionShape, Uncrossed
<1>5. ASSUME ~hist.crossed' PROVE Group1'
  BY <1>5 DEF CoexInv, CoexType, SessionShape, Uncrossed, Group1
<1> QED
  BY <1>1, <1>2, <1>3, <1>4, <1>5 DEF CoexInv

\* It is over:
LEMMA SetModeEnabledInv ==
    ASSUME CoexInv, B!SetModeEnabled
    PROVE  CoexInv'
<1> USE DEF B!SetModeEnabled, B!Noted, B!Called, B!Free, B!EndSteps
<1>1. CoexType'
  <2>1. bt' \in [state : {"IDLE", "START", "OPPR", "FORCE"}, timer_on : BOOLEAN, done : BOOLEAN,
                   vif : BOOLEAN, saved : [1 .. 2 -> BOOLEAN],
                   reg : [1 .. 2 -> {"orig", "dhcp", "junk"}], there : BOOLEAN]
    <3>1. bt' = bt \/ \E x \in BOOLEAN : bt' = [bt EXCEPT !.done = x]
      BY DEF CoexInv, CoexType
    <3> QED
      BY <3>1 DEF CoexInv, CoexType
  <2>2. hist' \in History
    <3>1. hist' = [B!Called(hist) EXCEPT !.crossed = @ \/ (us' # "out" /\ hd' \in B!EndSteps)]
      OBVIOUS
    <3>2. B!Called(hist) \in History
      BY DEF CoexInv, CoexType, History
    <3> HIDE DEF B!Called
    <3> QED
      BY <3>1, <3>2 DEF History
  <2> QED
    BY <2>1, <2>2 DEF CoexInv, CoexType
<1>2. SessionShape'
  BY DEF CoexInv, CoexType, SessionShape
<1>3. Group2'
  BY DEF CoexInv, CoexType, SessionShape, Group2
<1>4. ASSUME ~hist.crossed' PROVE Uncrossed'
  BY <1>4 DEF CoexInv, CoexType, SessionShape, Uncrossed
<1>5. ASSUME ~hist.crossed' PROVE Group1'
  BY <1>5 DEF CoexInv, CoexType, SessionShape, Uncrossed, Group1
<1> QED
  BY <1>1, <1>2, <1>3, <1>4, <1>5 DEF CoexInv

\* the work ends the session,
LEMMA DhcpEndTimerInv ==
    ASSUME CoexInv, B!DhcpEndTimer
    PROVE  CoexInv'
<1> USE DEF B!DhcpEndTimer, B!DhcpEndWakes, B!EndSteps
<1>1. CoexType'
  BY DEF CoexInv, CoexType, SessionShape
<1>2. SessionShape'
  BY DEF CoexInv, CoexType, SessionShape
<1>3. Group2'
  BY DEF CoexInv, CoexType, SessionShape, Group2
<1>4. ASSUME ~hist.crossed' PROVE Uncrossed'
  BY <1>4 DEF CoexInv, CoexType, SessionShape, Uncrossed
<1>5. ASSUME ~hist.crossed' PROVE Group1'
  BY <1>5 DEF CoexInv, CoexType, SessionShape, Uncrossed, Group1
<1> QED
  BY <1>1, <1>2, <1>3, <1>4, <1>5 DEF CoexInv

\* or group 1 is put back
LEMMA DhcpEndRestoreInv ==
    ASSUME CoexInv, B!DhcpEndRestore
    PROVE  CoexInv'
<1> USE DEF B!DhcpEndRestore, B!EndSteps
<1>1. CoexType'
  BY DEF CoexInv, CoexType, SessionShape
<1>2. SessionShape'
  BY DEF CoexInv, CoexType, SessionShape
<1>3. Group2'
  BY DEF CoexInv, CoexType, SessionShape, Group2
<1>4. ASSUME ~hist.crossed' PROVE Uncrossed'
  BY <1>4 DEF CoexInv, CoexType, SessionShape, Uncrossed
<1>5. ASSUME ~hist.crossed' PROVE Group1'
  BY <1>5 DEF CoexInv, CoexType, SessionShape, Uncrossed, Group1
<1> QED
  BY <1>1, <1>2, <1>3, <1>4, <1>5 DEF CoexInv

\* here.
LEMMA DhcpEndWriteInv ==
    ASSUME CoexInv, B!DhcpEndWrite
    PROVE  CoexInv'
<1> USE DEF B!EndSteps
<1> DEFINE h == [hist EXCEPT !.crash = @ \/ ~bt.vif]
<1>0. CoexType /\ bt.vif \in BOOLEAN /\ hist \in History
  BY DEF CoexInv, CoexType
<1> DEFINE c == hist.crash \/ ~bt.vif
<1>z. c \in BOOLEAN
  OBVIOUS
<1>y. h = [hist EXCEPT !.crash = c]
  OBVIOUS
<1> HIDE DEF c, h
<1>x. h \in History
  BY <1>0, <1>y, <1>z DEF History
<1>a. CoexType /\ 1 \in 1 .. 2 /\ h \in History
  BY <1>0, <1>x
<1>b. us = "write" /\ us' = "out"
      /\ B!PutBack(1, h) /\ UNCHANGED <<bt, bArmed, queued, hd, crit>>
  BY DEF B!DhcpEndWrite, h
<1>w. h.hurt = hist.hurt /\ h.crossed = hist.crossed /\ h.crash = c
  BY <1>0, <1>y DEF History
<1>c. h.hurt = hist.hurt /\ h.crossed = hist.crossed /\ (h.crash <=> hist.crash \/ ~bt.vif)
  BY <1>w DEF c
<1>d. /\ par' \in [1 .. 2 -> Values] /\ hist' \in History
      /\ \A o \in 1 .. 2 \ {1} : par'[o] = par[o]
      /\ Hurts(h, hist', 1) /\ (hist'.hurt[1] \/ par'[1] = bt.reg[1])
  BY <1>a, <1>b, PutBackFacts
<1>e. /\ par'[2] = par[2] /\ hist'.hurt[2] = hist.hurt[2] /\ (hist.hurt[1] => hist'.hurt[1])
      /\ hist'.crossed = hist.crossed /\ (hist'.crash <=> hist.crash \/ ~bt.vif)
  BY <1>c, <1>d DEF Hurts
<1>1. CoexType'
  BY <1>a, <1>b, <1>d DEF CoexInv, CoexType, Values
<1>2. SessionShape'
  BY <1>a, <1>b DEF CoexInv, CoexType, SessionShape
<1>3. Group2'
  BY <1>a, <1>b, <1>e DEF CoexInv, CoexType, SessionShape, Group2
<1>4. ASSUME ~hist.crossed' PROVE Uncrossed'
  BY <1>a, <1>b, <1>e, <1>4 DEF CoexInv, CoexType, SessionShape, Uncrossed
<1>5. ASSUME ~hist.crossed' PROVE Group1'
  BY <1>a, <1>b, <1>d, <1>e, <1>5 DEF CoexInv, CoexType, SessionShape, Uncrossed, Group1
<1> QED
  BY <1>1, <1>2, <1>3, <1>4, <1>5 DEF CoexInv

\* brcmf_btcoex_detach.
LEMMA DetachInv ==
    ASSUME CoexInv, B!Detach
    PROVE  CoexInv'
<1> USE DEF B!EndSteps
<1>a. /\ us = "out" /\ bt.there /\ hd = "out" /\ ~bArmed' /\ ~queued' /\ bArmed' \in BOOLEAN
      /\ queued' \in BOOLEAN /\ UNCHANGED <<hd, us, crit>>
      /\ bt' = [bt EXCEPT !.timer_on = FALSE, !.saved = [g \in 1 .. 2 |-> FALSE], !.there = FALSE]
  BY DEF B!Detach
<1>b. PICK no \in SUBSET (1 .. 2) :
        LET cnt == hist.faults + (IF 1 \in no THEN 1 ELSE 0) + (IF 2 \in no THEN 1 ELSE 0) IN
        /\ par' = [g \in 1 .. 2 |-> IF bt.saved[g] /\ g \notin no THEN bt.reg[g] ELSE par[g]]
        /\ hist' = [hist EXCEPT !.crash = @ \/ (bt.saved[1] /\ ~bt.vif), !.faults = cnt,
                                !.hurt = [g \in 1 .. 2 |-> @[g] \/ g \in no]]
        /\ \A g \in no : bt.saved[g]
  BY DEF B!Detach
<1> DEFINE k == [g \in 1 .. 2 |-> hist.hurt[g] \/ g \in no]
<1>c. /\ par' \in [1 .. 2 -> Values] /\ hist' \in History
      /\ \A g \in 1 .. 2 : par'[g] = IF bt.saved[g] /\ g \notin no THEN bt.reg[g] ELSE par[g]
  <2>1. /\ hist.faults + (IF 1 \in no THEN 1 ELSE 0) + (IF 2 \in no THEN 1 ELSE 0) \in Nat
        /\ hist \in History /\ k \in [1 .. 2 -> BOOLEAN]
        /\ (hist.crash \/ (bt.saved[1] /\ ~bt.vif)) \in BOOLEAN
    BY DEF CoexInv, CoexType, History
  <2>2. hist' = [hist EXCEPT !.crash = hist.crash \/ (bt.saved[1] /\ ~bt.vif),
           !.faults = hist.faults + (IF 1 \in no THEN 1 ELSE 0) + (IF 2 \in no THEN 1 ELSE 0),
           !.hurt = k]
    BY <1>b
  <2> HIDE DEF k
  <2>3. hist' \in History
    BY <2>1, <2>2 DEF History
  <2>4. par \in [1 .. 2 -> Values] /\ bt.reg \in [1 .. 2 -> Values]
    BY DEF CoexInv, CoexType, Values
  <2>5. /\ par' \in [1 .. 2 -> Values]
        /\ \A g \in 1 .. 2 : par'[g] = IF bt.saved[g] /\ g \notin no THEN bt.reg[g] ELSE par[g]
    BY <1>b, <2>4
  <2> QED
    BY <2>3, <2>5
<1>d. /\ hist'.hurt = k /\ hist'.crossed = hist.crossed
      /\ hist'.crash <=> hist.crash \/ (bt.saved[1] /\ ~bt.vif)
  BY <1>b DEF CoexInv, CoexType, History
<1>e. \A g \in 1 .. 2 : k[g] <=> hist.hurt[g] \/ g \in no
  BY DEF CoexInv, CoexType, History
<1>f. 1 \in 1 .. 2 /\ 2 \in 1 .. 2 /\ (\A g \in no : bt.saved[g])
  BY <1>b
<1> HIDE DEF k
<1>1. CoexType'
  BY <1>a, <1>c DEF CoexInv, CoexType, Values
<1>2. SessionShape'
  BY <1>a DEF CoexInv, CoexType, SessionShape
<1>3. Group2'
  BY <1>a, <1>c, <1>d, <1>e, <1>f DEF CoexInv, CoexType, SessionShape, Group2
<1>4. ASSUME ~hist.crossed' PROVE Uncrossed'
  BY <1>a, <1>d, <1>4 DEF CoexInv, CoexType, SessionShape, Uncrossed
<1>5. ASSUME ~hist.crossed' PROVE Group1'
  BY <1>a, <1>c, <1>d, <1>e, <1>f, <1>5
     DEF CoexInv, CoexType, SessionShape, Uncrossed, Group1
<1> QED
  BY <1>1, <1>2, <1>3, <1>4, <1>5 DEF CoexInv

\* A coexistence session has not begun.
LEMMA CoexInitInv ==
    ASSUME B!BtInit PROVE CoexInv
<1> USE DEF B!BtInit, B!EndSteps
<1>1. CoexType
  BY DEF CoexType, History
<1>2. SessionShape /\ Group2 /\ Uncrossed /\ Group1
  BY DEF SessionShape, Group2, Uncrossed, Group1
<1> QED
  BY <1>1, <1>2 DEF CoexInv

\* The other parts leave the coexistence state alone.
LEMMA CoexKept ==
    ASSUME CoexInv, UNCHANGED bVars
    PROVE  CoexInv'
BY DEF bVars, CoexInv, CoexType, SessionShape, Group2, Uncrossed, Group1

\* Every step of the control plane keeps the coexistence invariant.
LEMMA CoexStepInv ==
    ASSUME CoexInv, [ControlNext]_allVars
    PROVE  CoexInv'
<1>1. CASE B!BtNext
  BY <1>1, TimerFuncInv, HandlerStartsInv, HandlerOpensInv, HandlerBoostsInv,
     HandlerForcesInv, HandlerOnInv, HandlerEndsInv, HandlerIdleInv,
     HandlerStoppedInv, HandlerFlagInv, HandlerWriteInv, HandlerForgetInv,
     SetModeDisabledInv, DhcpStartInv, DhcpGoInv, SetModeEnabledInv,
     DhcpEndTimerInv, DhcpEndRestoreInv, DhcpEndWriteInv, DetachInv
     DEF B!BtNext
<1>2. CASE UNCHANGED bVars
  BY <1>2, CoexKept
<1>3. B!BtNext \/ UNCHANGED bVars
  BY DEF ControlNext, ScanStep, VifStep, ConnectStep, ApStep, PnoStep, CoexStep, allVars
<1> QED
  BY <1>1, <1>2, <1>3

\* CoexInv holds in every reachable state.
THEOREM CoexInvariant == ControlSpec => []CoexInv
<1>1. ControlInit => CoexInv
  BY CoexInitInv DEF ControlInit
<1>2. CoexInv /\ [ControlNext]_allVars => CoexInv'
  BY CoexStepInv
<1> QED
  BY <1>1, <1>2, PTL DEF ControlSpec, allVars

\* The calls of the user, the timer and the work of btcoex.c, however many
\* sessions there are and reads and writes that are refused, end every session
\* and give the firmware its parameters back, but for a group it refused to tell
\* or to take: CoexBack.
THEOREM CoexBackHolds == ControlSpec => []CoexBack
<1>1. ASSUME CoexInv PROVE B!CoexBack
  <2>1. B!SessionEnds
    BY <1>1 DEF CoexInv, SessionShape, B!SessionEnds, B!Quiet
  <2>2. B!BoostOnce
    BY <1>1 DEF CoexInv, SessionShape, B!BoostOnce
  <2>3. B!ParametersBack
    <3>1. SUFFICES ASSUME ~hist.crossed
                   PROVE  /\ B!Quiet => ~bt.saved[1] /\ ~bt.saved[2]
                          /\ B!Quiet => \A g \in 1 .. 2 : hist.hurt[g] \/ par[g] = "orig"
                          /\ ~hist.crash
      BY <1>1 DEF CoexInv, CoexType, B!ParametersBack
    <3>2. B!Quiet => ~bt.saved[1] /\ ~bt.saved[2]
      BY <1>1 DEF CoexInv, SessionShape, B!Quiet
    <3> QED
      BY <1>1, <3>1, <3>2 DEF CoexInv, Uncrossed, Group1, Group2, B!Quiet
  <2> QED
    BY <2>1, <2>2, <2>3 DEF B!CoexBack
<1> QED
  BY <1>1, CoexInvariant, PTL DEF CoexBack

-----------------------------------------------------------------------------
(* Scanning (cfg80211.c), as long as no completion met the start of a scan *)
(* (crossed); afterwards ScanStep is disabled.                             *)

Plain == S!OtherSteps \cup {"take"}
Carrying == {"timer", "fwabort", "report"}
ThreadState == [at : S!ScanSteps \cup S!CompleteSteps \cup S!OtherSteps,
                req : Requests \cup {None}, fw : BOOLEAN,
                back : {"idle", "suspend", "unabort"},
                then : {"idle", "int_busy", "status"}]

ScanType ==
    /\ scan_request \in Requests \cup {None} /\ owner \in Requests \cup {None}
    /\ unused \subseteq Requests
    /\ th \in [S!Threads -> ThreadState]
    /\ \A t \in S!Threads : th[t].at \in S!ScanSteps => t = "user"
    /\ \A t \in S!Threads : th[t].at \in Plain => th[t].req = None

\* A request is recorded, from its start until a completion clears it, for the
\* one cfg80211 waits for.
Recorded ==
    /\ scan_request # None => scan_request = owner
    /\ S!Scanning => S!Completing = {} /\ owner # None /\ th["user"].req = owner
    /\ S!Scanning /\ th["user"].at # "request" => scan_request = owner
    /\ \A t \in S!Threads : th[t].at \in Carrying \cup {"unbusy"} => scan_request = None
    /\ \A t \in S!Threads : th[t].at = "clear" /\ scan_request # None => th[t].req = scan_request

\* Unless it was changed between a read and the clearing, one thread has the
\* request and will report it.
Carried ==
    /\ ~twice
    /\ \A t \in S!Threads : th[t].at \in Carrying /\ th[t].req # None => owner = th[t].req
    /\ \A t, u \in S!Threads : /\ th[t].at \in Carrying /\ th[t].req # None
                               /\ th[u].at \in Carrying /\ th[u].req # None
                               => t = u

\* What will end the scan of the request cfg80211 waits for.
Ends ==
    /\ owner # None /\ ~(S!Scanning /\ th["user"].at = "request") => ~int_map
    /\ owner # None =>
          \/ S!Scanning
          \/ /\ scan_request = owner
             /\ timer \/ timeout_work \/ \E t \in S!Threads : th[t].at \in {"take", "clear"}
          \/ \E t \in S!Threads : th[t].at \in Carrying /\ th[t].req = owner

ScanInv ==
    ScanType /\ (~crossed => Recorded /\ (~raced => Carried) /\ (~mixed => Ends))

\* Thread t goes to step a with the request q; the others stay.
Moved(t, a, q) ==
    /\ th' \in [S!Threads -> ThreadState]
    /\ th'[t].at = a /\ th'[t].req = q
    /\ \A u \in S!Threads : u # t => th'[u] = th[u]

recVars == <<scan_request, owner, unused, int_map, twice, raced, mixed>>

\* A thread that goes on to another step has moved.
LEMMA GoesMoves ==
    ASSUME ScanType, NEW t \in S!Threads, NEW a \in S!ScanSteps \cup S!CompleteSteps \cup S!OtherSteps,
           S!Goes(t, a)
    PROVE  Moved(t, a, th[t].req)
BY DEF S!Goes, Moved, ScanType, ThreadState

\* So has one that is put at a step with a request.
LEMMA AtMoves ==
    ASSUME ScanType, NEW t \in S!Threads, NEW a \in S!ScanSteps \cup S!CompleteSteps \cup S!OtherSteps,
           NEW b \in {"idle", "int_busy", "status"}, th' = [th EXCEPT ![t] = S!At(a, b)]
    PROVE  Moved(t, a, None)
BY DEF S!At, Moved, ScanType, ThreadState

\* Several fields of the state of one thread change.
LEMMA FieldsMove ==
    ASSUME ScanType, NEW t \in S!Threads, NEW a \in S!CompleteSteps \cup S!OtherSteps,
           NEW s \in ThreadState, s.at = a, s.req = th[t].req, th' = [th EXCEPT ![t] = s]
    PROVE  Moved(t, a, th[t].req)
BY DEF Moved, ScanType

\* And one that calls brcmf_notify_escan_complete.
LEMMA CallMoves ==
    ASSUME ScanType, NEW t \in S!Threads, NEW f \in BOOLEAN, NEW b \in {"idle", "suspend", "unabort"},
           S!Call(t, f, b)
    PROVE  Moved(t, "take", th[t].req)
<1> DEFINE s == [[[th[t] EXCEPT !.at = "take"] EXCEPT !.fw = f] EXCEPT !.back = b]
<1>1. s \in ThreadState /\ s.at = "take" /\ s.req = th[t].req
  BY DEF ScanType, ThreadState, S!CompleteSteps
<1>2. th' = [th EXCEPT ![t] = s]
  BY DEF S!Call, ScanType
<1> HIDE DEF s
<1> QED
  BY <1>1, <1>2, FieldsMove DEF S!CompleteSteps

\* And one that aborts the scan.
LEMMA AbortsMoves ==
    ASSUME ScanType, NEW t \in S!Threads, NEW b \in {"idle", "int_busy", "status"}, S!Aborts(t, b)
    PROVE  \/ Moved(t, "take", th[t].req) /\ crossed' = (crossed \/ S!Scanning)
           \/ Moved(t, "unabort", th[t].req) /\ crossed' = crossed
<1>1. CASE int_map \/ scan_request # None
  <2> DEFINE s == [[[[th[t] EXCEPT !.at = "take"] EXCEPT !.fw = TRUE]
                      EXCEPT !.back = "unabort"] EXCEPT !.then = b]
  <2>1. s \in ThreadState /\ s.at = "take" /\ s.req = th[t].req
    BY DEF ScanType, ThreadState, S!CompleteSteps
  <2>2. th' = [th EXCEPT ![t] = s] /\ crossed' = (crossed \/ S!Scanning)
    BY <1>1 DEF S!Aborts, ScanType
  <2> HIDE DEF s
  <2> QED
    BY <2>1, <2>2, FieldsMove DEF S!CompleteSteps
<1>2. CASE ~(int_map \/ scan_request # None)
  <2> DEFINE s == [[th[t] EXCEPT !.at = "unabort"] EXCEPT !.then = b]
  <2>1. s \in ThreadState /\ s.at = "unabort" /\ s.req = th[t].req
    BY DEF ScanType, ThreadState, S!OtherSteps
  <2>2. th' = [th EXCEPT ![t] = s] /\ crossed' = crossed
    BY <1>2 DEF S!Aborts, ScanType
  <2> HIDE DEF s
  <2> QED
    BY <2>1, <2>2, FieldsMove DEF S!OtherSteps
<1> QED
  BY <1>1, <1>2

\* Nothing changes that the invariant is about.
LEMMA ScanKept ==
    ASSUME ScanInv, ~crossed, UNCHANGED <<recVars, th, timer, timeout_work, crossed>>
    PROVE  ScanInv'
BY DEF recVars, ScanInv, ScanType, Recorded, Carried, Ends, S!Scanning, S!Completing

\* A thread moves outside of a completion and of the start of a scan, or calls
\* brcmf_notify_escan_complete.
LEMMA Elsewhere ==
    ASSUME ScanInv, ~crossed, NEW t \in S!Threads, th[t].at \in S!OtherSteps,
           NEW a \in S!OtherSteps \cup {"take"}, Moved(t, a, th[t].req),
           UNCHANGED <<recVars, timer>>, timeout_work' = timeout_work \/ a = "take",
           ~crossed' /\ a = "take" => ~S!Scanning
    PROVE  ScanInv'
<1>1. th[t].req = None /\ th[t].at \notin S!ScanSteps \cup S!CompleteSteps
  BY DEF ScanInv, ScanType, Plain, S!OtherSteps, S!ScanSteps, S!CompleteSteps
<1>2. a \notin S!ScanSteps \cup Carrying \cup {"unbusy", "clear"} /\ a \in Plain
  BY DEF Plain, S!OtherSteps, S!ScanSteps, Carrying
<1>3. ScanType'
  BY <1>1, <1>2 DEF ScanInv, ScanType, Moved, recVars
<1>4. /\ S!Scanning' <=> S!Scanning
      /\ \A u \in S!Threads : th[u].at \in {"take", "clear"} => th'[u].at \in {"take", "clear"}
      /\ \A u \in S!Threads : th'[u].at \in Carrying \cup {"unbusy", "clear"} => u # t /\ th'[u] = th[u]
      /\ \A u \in S!Threads : th[u].at \in Carrying \cup {"unbusy", "clear"} => u # t /\ th'[u] = th[u]
  BY <1>1, <1>2 DEF Moved, S!Scanning, S!Threads, S!OtherSteps, Carrying
<1>5. ASSUME ~crossed' PROVE Recorded'
  <2>1. S!Scanning => S!Completing' = {}
    BY <1>1, <1>2, <1>4, <1>5
      DEF Moved, S!Scanning, S!Completing, S!CompleteSteps, S!OtherSteps, Plain, ScanInv, Recorded
  <2>2. S!Scanning => th'["user"] = th["user"]
    BY <1>1 DEF Moved, S!Scanning, S!Threads
  <2> QED
    BY <1>4, <2>1, <2>2 DEF ScanInv, Recorded, recVars
<1>6. ASSUME ~raced' PROVE Carried'
  BY <1>4, <1>6 DEF ScanInv, Carried, recVars
<1>7. ASSUME ~mixed' PROVE Ends'
  <2>1. S!Scanning => th'["user"] = th["user"]
    BY <1>1 DEF Moved, S!Scanning, S!Threads
  <2>2. timeout_work' = timeout_work \/ \E u \in S!Threads : th'[u].at \in {"take", "clear"}
    BY DEF Moved
  <2>3. Ends /\ UNCHANGED recVars
    BY <1>7 DEF ScanInv, recVars
  <2>4. owner' # None /\ ~(S!Scanning' /\ th'["user"].at = "request") => ~int_map'
    BY <1>4, <2>1, <2>3 DEF Ends, recVars
  <2>5. \A u \in S!Threads : th[u].at \in Carrying /\ th[u].req = owner => th'[u].at \in Carrying /\ th'[u].req = owner
    BY <1>4
  <2>6. timer' = timer
    OBVIOUS
  <2> QED
    BY <1>4, <2>2, <2>3, <2>4, <2>5, <2>6 DEF Ends, recVars
<1> QED
  BY <1>3, <1>5, <1>6, <1>7 DEF ScanInv

\* The start of a scan goes on, the request recorded.
LEMMA Starting ==
    ASSUME ScanInv, ~crossed, th["user"].at \in S!ScanSteps \ {"request"},
           NEW a \in S!ScanSteps \ {"request"}, Moved("user", a, th["user"].req),
           UNCHANGED <<recVars, timer, timeout_work, crossed>>
    PROVE  ScanInv'
<1>1. /\ S!Scanning /\ S!Scanning' /\ th'["user"].at = a /\ th'["user"].req = th["user"].req
      /\ "user" \in S!Threads /\ \A u \in S!Threads : u # "user" => th'[u] = th[u]
  BY DEF S!Scanning, Moved, S!Threads
<1>2. a \notin Plain \cup S!CompleteSteps /\ th["user"].at \notin S!CompleteSteps
  BY DEF Plain, S!OtherSteps, S!ScanSteps, S!CompleteSteps
<1>3. ScanType'
  BY <1>1, <1>2 DEF ScanInv, ScanType, Moved, recVars
<1>4. Recorded'
  BY <1>1, <1>2 DEF ScanInv, Recorded, recVars, S!Completing, Carrying, S!CompleteSteps
<1>5. ASSUME ~raced' PROVE Carried'
  BY <1>1, <1>2, <1>5 DEF ScanInv, Carried, recVars, Carrying, S!CompleteSteps
<1>6. ASSUME ~mixed' PROVE Ends'
  BY <1>1, <1>6 DEF ScanInv, Ends, recVars
<1> QED
  BY <1>3, <1>4, <1>5, <1>6 DEF ScanInv

\* ... and the bit of the abort.
LEMMA UnabortInv ==
    ASSUME ScanInv, ~crossed, NEW t \in S!Threads, S!Unabort(t)
    PROVE  ScanInv'
<1>1. /\ ScanType /\ th[t].at \in S!OtherSteps /\ th[t].req = None
      /\ th[t].then \in {"idle", "int_busy", "status"} /\ th' = [th EXCEPT ![t] = S!At(th[t].then, "idle")]
      /\ UNCHANGED <<recVars, timer, timeout_work, crossed>>
  BY DEF ScanInv, ScanType, ThreadState, S!Unabort, Plain, S!OtherSteps, S!shared, S!bounds,
       S!history, recVars
<1>2. th[t].then \in S!OtherSteps
  BY <1>1 DEF S!OtherSteps
<1>3. Moved(t, th[t].then, th[t].req)
  BY <1>1, <1>2, AtMoves
<1> QED
  BY <1>1, <1>2, <1>3, Elsewhere

\* The user ends a scan,
LEMMA UserAbortInv ==
    ASSUME ScanInv, ~crossed, NEW critical \in BOOLEAN, S!UserAbort(critical)
    PROVE  ScanInv'
<1>1. /\ ScanType /\ "user" \in S!Threads /\ th["user"].at \in S!OtherSteps
      /\ UNCHANGED <<recVars, timer>> /\ ~S!Scanning
  BY DEF ScanInv, S!UserAbort, recVars, S!shared, S!bounds, S!history, S!Threads,
       S!OtherSteps,
       S!Scanning, S!ScanSteps
<1>2. CASE S!Aborts("user", "idle") /\ timeout_work' = timeout_work
  <2>1. \/ Moved("user", "take", th["user"].req) /\ crossed' = (crossed \/ S!Scanning)
        \/ Moved("user", "unabort", th["user"].req)
    BY <1>1, <1>2, AbortsMoves
  <2>2. "unabort" \in S!OtherSteps
    BY DEF S!OtherSteps
  <2> QED
    BY <1>1, <1>2, <2>1, <2>2, Elsewhere
<1> QED
  BY <1>2 DEF S!UserAbort, S!shared, S!bounds, S!history

\* ... reports its end,
LEMMA UserCompleteInv ==
    ASSUME ScanInv, ~crossed, S!UserComplete
    PROVE  ScanInv'
<1>1. /\ ScanType /\ "user" \in S!Threads /\ th["user"].at \in S!OtherSteps
      /\ UNCHANGED <<recVars, timer>> /\ ~S!Scanning
  BY DEF ScanInv, S!UserComplete, recVars, S!shared, S!bounds, S!history, S!Threads,
       S!OtherSteps,
       S!Scanning, S!ScanSteps
<1>2. CASE S!Call("user", TRUE, "idle") /\ timeout_work' = timeout_work
  <2>1. Moved("user", "take", th["user"].req) /\ crossed' = (crossed \/ S!Scanning)
    BY <1>1, <1>2, CallMoves DEF S!Call
  <2> QED
    BY <1>1, <1>2, <2>1, Elsewhere
<1> QED
  BY <1>2 DEF S!UserComplete, S!shared, S!bounds, S!history

\* ... or suspends.
LEMMA SuspendInv ==
    ASSUME ScanInv, ~crossed, S!Suspend
    PROVE  ScanInv'
<1>1. /\ ScanType /\ "user" \in S!Threads /\ th["user"].at \in S!OtherSteps
      /\ UNCHANGED <<recVars, timer>> /\ ~S!Scanning
  BY DEF ScanInv, S!Suspend, recVars, S!shared, S!bounds, S!history, S!Threads,
       S!OtherSteps, S!Scanning,
       S!ScanSteps
<1>2. CASE S!Call("user", TRUE, "suspend") /\ timeout_work' = timeout_work
  <2>1. Moved("user", "take", th["user"].req) /\ crossed' = (crossed \/ S!Scanning)
    BY <1>1, <1>2, CallMoves DEF S!Call
  <2> QED
    BY <1>1, <1>2, <2>1, Elsewhere
<1>3. CASE S!Goes("user", "suspend") /\ timeout_work' = timeout_work
  <2>1. "suspend" \in S!OtherSteps
    BY DEF S!OtherSteps
  <2>2. Moved("user", "suspend", th["user"].req)
    BY <1>1, <1>3, <2>1, GoesMoves
  <2> QED
    BY <1>1, <1>3, <2>1, <2>2, Elsewhere
<1> QED
  BY <1>2, <1>3 DEF S!Suspend, S!shared, S!bounds, S!history

\* The scan is ended,
LEMMA SuspendAbortsInv ==
    ASSUME ScanInv, ~crossed, S!SuspendAborts
    PROVE  ScanInv'
<1>1. /\ ScanType /\ "user" \in S!Threads /\ th["user"].at \in S!OtherSteps
      /\ UNCHANGED <<recVars, timer>> /\ ~S!Scanning
  BY DEF ScanInv, S!SuspendAborts, recVars, S!shared, S!bounds, S!history, S!Threads,
       S!OtherSteps,
       S!Scanning, S!ScanSteps
<1>2. CASE S!Aborts("user", "status") /\ timeout_work' = timeout_work
  <2>1. \/ Moved("user", "take", th["user"].req) /\ crossed' = (crossed \/ S!Scanning)
        \/ Moved("user", "unabort", th["user"].req)
    BY <1>1, <1>2, AbortsMoves
  <2>2. "unabort" \in S!OtherSteps
    BY DEF S!OtherSteps
  <2> QED
    BY <1>1, <1>2, <2>1, <2>2, Elsewhere
<1>3. CASE S!Goes("user", "status") /\ timeout_work' = timeout_work
  <2>1. "status" \in S!OtherSteps
    BY DEF S!OtherSteps
  <2>2. Moved("user", "status", th["user"].req)
    BY <1>1, <1>3, <2>1, GoesMoves
  <2> QED
    BY <1>1, <1>3, <2>1, <2>2, Elsewhere
<1> QED
  BY <1>2, <1>3 DEF S!SuspendAborts, S!shared, S!bounds, S!history

\* ... and the bits are cleared.
LEMMA SuspendStatusInv ==
    ASSUME ScanInv, ~crossed, S!SuspendStatus
    PROVE  ScanInv'
<1>1. /\ ScanType /\ "user" \in S!Threads /\ th["user"].at \in S!OtherSteps
      /\ UNCHANGED <<recVars, timer>> /\ ~S!Scanning
  BY DEF ScanInv, S!SuspendStatus, recVars, S!shared, S!bounds, S!history, S!Threads,
       S!OtherSteps,
       S!Scanning, S!ScanSteps
<1>2. CASE S!Goes("user", "idle") /\ timeout_work' = timeout_work
  <2>1. "idle" \in S!OtherSteps
    BY DEF S!OtherSteps
  <2>2. Moved("user", "idle", th["user"].req)
    BY <1>1, <1>2, <2>1, GoesMoves
  <2> QED
    BY <1>1, <1>2, <2>1, <2>2, Elsewhere
<1> QED
  BY <1>2 DEF S!SuspendStatus, S!shared, S!bounds, S!history

\* The firmware is done.
LEMMA EscanDoneInv ==
    ASSUME ScanInv, ~crossed, S!EscanDone
    PROVE  ScanInv'
<1>1. /\ ScanType /\ "event" \in S!Threads /\ th["event"].at \in S!OtherSteps
      /\ UNCHANGED <<recVars, timer>>
  BY DEF ScanInv, S!EscanDone, S!Event, recVars, S!shared, S!bounds, S!history, S!Threads,
       S!OtherSteps,
       S!Scanning, S!ScanSteps
<1>2. CASE S!Call("event", FALSE, "idle") /\ timeout_work' = timeout_work
  <2>1. Moved("event", "take", th["event"].req) /\ crossed' = (crossed \/ S!Scanning)
    BY <1>1, <1>2, CallMoves DEF S!Call
  <2> QED
    BY <1>1, <1>2, <2>1, Elsewhere
<1>3. CASE UNCHANGED <<th, timeout_work, crossed>>
  BY <1>1, <1>3, ScanKept
<1> QED
  BY <1>2, <1>3 DEF S!EscanDone, S!shared, S!bounds, S!history

\* A hit of a scheduled scan:
LEMMA NetFoundInv ==
    ASSUME ScanInv, ~crossed, S!NetFound
    PROVE  ScanInv'
<1>1. /\ ScanType /\ "event" \in S!Threads /\ th["event"].at \in S!OtherSteps
      /\ UNCHANGED <<recVars, timer>>
  BY DEF ScanInv, S!NetFound, S!Event, recVars, S!shared, S!bounds, S!history, S!Threads,
       S!OtherSteps,
       S!Scanning, S!ScanSteps
<1>2. CASE S!Aborts("event", "int_busy") /\ timeout_work' = timeout_work
  <2>1. \/ Moved("event", "take", th["event"].req) /\ crossed' = (crossed \/ S!Scanning)
        \/ Moved("event", "unabort", th["event"].req)
    BY <1>1, <1>2, AbortsMoves
  <2>2. "unabort" \in S!OtherSteps
    BY DEF S!OtherSteps
  <2> QED
    BY <1>1, <1>2, <2>1, <2>2, Elsewhere
<1>3. CASE S!Goes("event", "int_busy") /\ timeout_work' = timeout_work
  <2>1. "int_busy" \in S!OtherSteps
    BY DEF S!OtherSteps
  <2>2. Moved("event", "int_busy", th["event"].req)
    BY <1>1, <1>3, <2>1, GoesMoves
  <2> QED
    BY <1>1, <1>3, <2>1, <2>2, Elsewhere
<1> QED
  BY <1>2, <1>3 DEF S!NetFound, S!shared, S!bounds, S!history

\* the internal scan is marked,
LEMMA IntBusyInv ==
    ASSUME ScanInv, ~crossed, S!IntBusy
    PROVE  ScanInv'
<1>1. /\ ScanType /\ "event" \in S!Threads /\ th["event"].at \in S!OtherSteps
      /\ UNCHANGED <<recVars, timer>>
  BY DEF ScanInv, S!IntBusy, recVars, S!shared, S!bounds, S!history, S!Threads,
       S!OtherSteps, S!Scanning,
       S!ScanSteps
<1>2. CASE S!Goes("event", "int_escan") /\ timeout_work' = timeout_work
  <2>1. "int_escan" \in S!OtherSteps
    BY DEF S!OtherSteps
  <2>2. Moved("event", "int_escan", th["event"].req)
    BY <1>1, <1>2, <2>1, GoesMoves
  <2> QED
    BY <1>1, <1>2, <2>1, <2>2, Elsewhere
<1> QED
  BY <1>2 DEF S!IntBusy, S!shared, S!bounds, S!history

\* ... starts,
LEMMA IntEscanInv ==
    ASSUME ScanInv, ~crossed, S!IntEscan
    PROVE  ScanInv'
<1>1. /\ ScanType /\ "event" \in S!Threads /\ th["event"].at \in S!OtherSteps
      /\ UNCHANGED <<recVars, timer>>
  BY DEF ScanInv, S!IntEscan, recVars, S!shared, S!bounds, S!history, S!Threads,
       S!OtherSteps,
       S!Scanning, S!ScanSteps
<1>2. CASE S!Goes("event", "int_map") /\ timeout_work' = timeout_work
  <2>1. "int_map" \in S!OtherSteps
    BY DEF S!OtherSteps
  <2>2. Moved("event", "int_map", th["event"].req)
    BY <1>1, <1>2, <2>1, GoesMoves
  <2> QED
    BY <1>1, <1>2, <2>1, <2>2, Elsewhere
<1> QED
  BY <1>2 DEF S!IntEscan, S!shared, S!bounds, S!history

\* ... or fails.
LEMMA IntFailsInv ==
    ASSUME ScanInv, ~crossed, S!IntFails
    PROVE  ScanInv'
<1>1. /\ ScanType /\ "event" \in S!Threads /\ th["event"].at \in S!OtherSteps
      /\ UNCHANGED <<recVars, timer>>
  BY DEF ScanInv, S!IntFails, recVars, S!shared, S!bounds, S!history, S!Threads,
       S!OtherSteps,
       S!Scanning, S!ScanSteps
<1>2. CASE S!Goes("event", "idle") /\ timeout_work' = timeout_work
  <2>1. "idle" \in S!OtherSteps
    BY DEF S!OtherSteps
  <2>2. Moved("event", "idle", th["event"].req)
    BY <1>1, <1>2, <2>1, GoesMoves
  <2> QED
    BY <1>1, <1>2, <2>1, <2>2, Elsewhere
<1> QED
  BY <1>2 DEF S!IntFails, S!shared, S!bounds, S!history

\* The work of the timer.
LEMMA TimeoutWorkerInv ==
    ASSUME ScanInv, ~crossed, S!TimeoutWorker
    PROVE  ScanInv'
<1>1. /\ ScanType /\ "work" \in S!Threads /\ th["work"].at \in S!OtherSteps
      /\ UNCHANGED <<recVars, timer>>
  BY DEF ScanInv, S!TimeoutWorker, recVars, S!shared, S!bounds, S!history, S!Threads,
       S!OtherSteps,
       S!Scanning, S!ScanSteps
<1>2. CASE S!Call("work", TRUE, "idle")
  <2>1. Moved("work", "take", th["work"].req) /\ crossed' = (crossed \/ S!Scanning)
    BY <1>1, <1>2, CallMoves DEF S!Call
  <2> QED
    BY <1>1, <1>2, <2>1, Elsewhere
<1> QED
  BY <1>2 DEF S!TimeoutWorker, S!shared, S!bounds, S!history

\* The scan is marked,
LEMMA ScanBusyInv ==
    ASSUME ScanInv, ~crossed, S!ScanBusy
    PROVE  ScanInv'
<1>1. /\ ScanType /\ "user" \in S!Threads /\ S!Goes("user", "escan")
      /\ th["user"].at \in S!ScanSteps \ {"request"} /\ "escan" \in S!ScanSteps \ {"request"}
      /\ UNCHANGED <<recVars, timer, timeout_work, crossed>>
  BY DEF ScanInv, S!ScanBusy, recVars, S!shared, S!bounds, S!history, S!Threads, S!ScanSteps
<1>2. Moved("user", "escan", th["user"].req)
  BY <1>1, GoesMoves
<1> QED
  BY <1>1, <1>2, Starting

\* ... sent to the firmware,
LEMMA ScanEscanInv ==
    ASSUME ScanInv, ~crossed, S!ScanEscan
    PROVE  ScanInv'
<1>1. /\ ScanType /\ "user" \in S!Threads /\ S!Goes("user", "arm")
      /\ th["user"].at \in S!ScanSteps \ {"request"} /\ "arm" \in S!ScanSteps \ {"request"}
      /\ UNCHANGED <<recVars, timer, timeout_work, crossed>>
  BY DEF ScanInv, S!ScanEscan, recVars, S!shared, S!bounds, S!history, S!Threads,
       S!ScanSteps
<1>2. Moved("user", "arm", th["user"].req)
  BY <1>1, GoesMoves
<1> QED
  BY <1>1, <1>2, Starting

\* ... which may refuse it.
LEMMA ScanFailsInv ==
    ASSUME ScanInv, ~crossed, S!ScanFails
    PROVE  ScanInv'
<1>1. /\ ScanType /\ "user" \in S!Threads /\ S!Goes("user", "out")
      /\ th["user"].at \in S!ScanSteps \ {"request"} /\ "out" \in S!ScanSteps \ {"request"}
      /\ UNCHANGED <<recVars, timer, timeout_work, crossed>>
  BY DEF ScanInv, S!ScanFails, recVars, S!shared, S!bounds, S!history, S!Threads,
       S!ScanSteps
<1>2. Moved("user", "out", th["user"].req)
  BY <1>1, GoesMoves
<1> QED
  BY <1>1, <1>2, Starting

\* A refused scan is unmarked.
LEMMA ScanOutInv ==
    ASSUME ScanInv, ~crossed, S!ScanOut
    PROVE  ScanInv'
<1>1. /\ ScanType /\ "user" \in S!Threads /\ S!Goes("user", "forget")
      /\ th["user"].at \in S!ScanSteps \ {"request"} /\ "forget" \in S!ScanSteps \ {"request"}
      /\ UNCHANGED <<recVars, timer, timeout_work, crossed>>
  BY DEF ScanInv, S!ScanOut, recVars, S!shared, S!bounds, S!history, S!Threads, S!ScanSteps
<1>2. Moved("user", "forget", th["user"].req)
  BY <1>1, GoesMoves
<1> QED
  BY <1>1, <1>2, Starting

\* The other steps.
LEMMA KeptStepsInv ==
    ASSUME ScanInv, ~crossed, S!CritStop \/ S!EscanAborted \/ S!FirmwareDone \/ S!FirmwareFound
    PROVE  ScanInv'
<1>1. UNCHANGED <<recVars, th, timer, timeout_work, crossed>>
  BY DEF S!CritStop, S!EscanAborted, S!Event, S!FirmwareDone, S!FirmwareFound, recVars,
       S!shared,
       S!bounds, S!history
<1> QED
  BY <1>1, ScanKept

\* The timer fires.
LEMMA TimeoutInv ==
    ASSUME ScanInv, ~crossed, S!Timeout
    PROVE  ScanInv'
<1>1. UNCHANGED <<recVars, th, crossed>> /\ timeout_work' = S!Expires /\ timer' = FALSE
  BY DEF S!Timeout, recVars, S!bounds, S!history
<1>2. ScanType' /\ Recorded' /\ (~raced' => Carried')
  BY <1>1 DEF recVars, ScanInv, ScanType, Recorded, Carried, S!Scanning, S!Completing
<1>3. ASSUME ~mixed' PROVE Ends'
  BY <1>1, <1>3 DEF recVars, ScanInv, Ends, S!Scanning, S!Expires
<1> QED
  BY <1>2, <1>3 DEF ScanInv

\* The internal scan is recorded.
LEMMA IntMapInv ==
    ASSUME ScanInv, ~crossed, S!IntMap
    PROVE  ScanInv'
<1>1. /\ ScanType /\ "event" \in S!Threads /\ "idle" \in S!OtherSteps /\ th["event"].at \in S!OtherSteps
      /\ UNCHANGED <<scan_request, owner, unused, twice, raced, timer, timeout_work, crossed>>
      /\ mixed' = (mixed \/ owner # None) /\ S!Goes("event", "idle")
  BY DEF ScanInv, S!IntMap, S!bounds, S!Threads, S!OtherSteps
<1>2. Moved("event", "idle", th["event"].req)
  BY <1>1, GoesMoves
<1>3. /\ th'["event"].at = "idle" /\ th'["event"].req = None
      /\ \A u \in S!Threads : u # "event" => th'[u] = th[u]
      /\ th' \in [S!Threads -> ThreadState]
  BY <1>1, <1>2 DEF Moved, ScanType, Plain
<1>4. /\ "idle" \in Plain /\ "idle" \notin S!ScanSteps \cup S!CompleteSteps \cup Carrying
      /\ th["event"].at \notin S!CompleteSteps \cup Carrying /\ "user" \in S!Threads /\ "user" # "event"
  BY <1>1 DEF S!OtherSteps, S!ScanSteps, S!CompleteSteps, Carrying, Plain, S!Threads
<1>5. ScanType'
  BY <1>1, <1>3, <1>4 DEF ScanType
<1>6. Recorded' /\ (~raced' => Carried')
  BY <1>1, <1>3, <1>4
    DEF ScanInv, Recorded, Carried, S!Scanning, S!Completing, S!CompleteSteps, Carrying
<1>7. ~mixed' => Ends'
  BY <1>1 DEF ScanInv, Recorded, Ends, S!Scanning
<1> QED
  BY <1>5, <1>6, <1>7 DEF ScanInv

\* scan_request is read,
LEMMA TakeInv ==
    ASSUME ScanInv, ~crossed, NEW t \in S!Threads, S!Take(t)
    PROVE  ScanInv'
<1>1. /\ th[t].at = "take" /\ th' = [th EXCEPT ![t] = [th[t] EXCEPT !.at = "clear", !.req = scan_request]]
      /\ UNCHANGED <<recVars, timer, timeout_work, crossed>> /\ ScanType
  BY DEF ScanInv, ScanType, S!Take, S!shared, S!bounds, S!history, recVars
<1>2. Moved(t, "clear", scan_request)
  <2> DEFINE s == [[th[t] EXCEPT !.at = "clear"] EXCEPT !.req = scan_request]
  <2>1. s \in ThreadState /\ s.at = "clear" /\ s.req = scan_request
    BY <1>1 DEF ScanType, ThreadState, S!CompleteSteps
  <2>2. th' = [th EXCEPT ![t] = s]
    BY <1>1
  <2> HIDE DEF s
  <2> QED
    BY <1>1, <2>1, <2>2 DEF Moved, ScanType
<1>3. /\ th'[t].at = "clear" /\ th'[t].req = scan_request
      /\ \A u \in S!Threads : u # t => th'[u] = th[u]
      /\ th' \in [S!Threads -> ThreadState]
  BY <1>2 DEF Moved
<1>4. /\ {"take", "clear"} \cap (S!ScanSteps \cup Carrying \cup {"unbusy"}) = {} /\ "clear" \notin Plain
      /\ "take" \in S!CompleteSteps /\ "clear" \in S!CompleteSteps /\ "user" \in S!Threads
  BY DEF S!OtherSteps, S!ScanSteps, S!CompleteSteps, Carrying, Plain, S!Threads
<1>5. ScanType'
  BY <1>1, <1>3, <1>4 DEF ScanType, recVars
<1>6. Recorded /\ ~S!Scanning /\ ~S!Scanning'
  BY <1>1, <1>3, <1>4 DEF ScanInv, Recorded, S!Scanning, S!Completing
<1>7. Recorded'
  BY <1>1, <1>3, <1>4, <1>6 DEF Recorded, recVars
<1>8. ~raced' => Carried'
  BY <1>1, <1>3, <1>4 DEF ScanInv, Carried, recVars
<1>9. ~mixed' => Ends'
  BY <1>1, <1>3, <1>4, <1>6 DEF ScanInv, Ends, recVars
<1> QED
  BY <1>5, <1>7, <1>8, <1>9 DEF ScanInv

\* ... and cleared.
LEMMA ClearInv ==
    ASSUME ScanInv, ~crossed, NEW t \in S!Threads, S!Clear(t)
    PROVE  ScanInv'
<1>1. /\ th[t].at = "clear" /\ S!Goes(t, "timer") /\ scan_request' = None
      /\ raced' = (raced \/ scan_request # th[t].req)
      /\ UNCHANGED <<owner, unused, int_map, twice, mixed, timer, timeout_work, crossed>> /\ ScanType
  BY DEF ScanInv, S!Clear, S!Cleared, S!bounds
<1>2. Moved(t, "timer", th[t].req)
  BY <1>1, GoesMoves DEF S!CompleteSteps
<1>3. /\ th'[t].at = "timer" /\ th'[t].req = th[t].req
      /\ \A u \in S!Threads : u # t => th'[u] = th[u]
      /\ th' \in [S!Threads -> ThreadState]
  BY <1>2 DEF Moved
<1>4. /\ "timer" \notin S!ScanSteps \cup Plain /\ "clear" \notin S!ScanSteps \cup Plain \cup Carrying
      /\ "timer" \in Carrying /\ "clear" \in S!CompleteSteps /\ "timer" \in S!CompleteSteps /\ "user" \in S!Threads
  BY DEF S!OtherSteps, S!ScanSteps, S!CompleteSteps, Carrying, Plain, S!Threads
<1>5. ScanType'
  BY <1>1, <1>3, <1>4 DEF ScanType
<1>6. Recorded /\ ~S!Scanning /\ ~S!Scanning'
  BY <1>1, <1>3, <1>4 DEF ScanInv, Recorded, S!Scanning, S!Completing
<1>7. Recorded'
  BY <1>1, <1>6 DEF Recorded
<1>8. ASSUME ~raced' PROVE Carried'
  <2>1. Carried /\ scan_request = th[t].req
    BY <1>1, <1>8 DEF ScanInv
  <2>2. th[t].req # None => \A u \in S!Threads : th[u].at \notin Carrying /\ owner = th[t].req
    BY <1>6, <2>1 DEF Recorded
  <2> QED
    BY <1>1, <1>3, <1>4, <2>1, <2>2 DEF Carried
<1>9. ASSUME ~mixed' PROVE Ends'
  <2>1. Ends /\ (owner # None => ~int_map)
    BY <1>1, <1>6, <1>9 DEF ScanInv, Ends
  <2>2. CASE owner # None /\ scan_request = owner
    <3>1. th'[t].at \in Carrying /\ th'[t].req = owner'
      BY <1>1, <1>3, <1>4, <1>6, <2>2 DEF Recorded
    <3> QED
      BY <1>1, <2>1, <3>1 DEF Ends
  <2>3. CASE owner # None /\ scan_request # owner
    <3>1. PICK u \in S!Threads : th[u].at \in Carrying /\ th[u].req = owner
      BY <1>6, <2>1, <2>3 DEF Ends
    <3>2. u # t
      BY <1>1, <1>4, <3>1
    <3> QED
      BY <1>1, <1>3, <2>1, <3>1, <3>2 DEF Ends
  <2> QED
    BY <1>1, <2>1, <2>2, <2>3 DEF Ends
<1> QED
  BY <1>5, <1>7, <1>8, <1>9 DEF ScanInv

\* A completion goes on with the request it has: the timer is stopped, the
\* firmware told.
LEMMA Completes ==
    ASSUME ScanInv, ~crossed, NEW t \in S!Threads, th[t].at \in Carrying,
           NEW a \in Carrying, Moved(t, a, th[t].req),
           UNCHANGED <<recVars, timeout_work, crossed>>
    PROVE  ScanInv'
<1>1. ScanType /\ UNCHANGED <<recVars, timeout_work, crossed>>
  BY DEF ScanInv
<1>2. /\ th'[t].at = a /\ th'[t].req = th[t].req
      /\ \A u \in S!Threads : u # t => th'[u] = th[u]
      /\ th' \in [S!Threads -> ThreadState]
  BY DEF Moved
<1>3. /\ Carrying \cap (S!ScanSteps \cup Plain \cup {"clear", "take"}) = {}
      /\ Carrying \subseteq S!CompleteSteps /\ "user" \in S!Threads
  BY DEF S!OtherSteps, S!ScanSteps, S!CompleteSteps, Carrying, Plain, S!Threads
<1>4. ScanType'
  BY <1>1, <1>2, <1>3 DEF ScanType, recVars
<1>5. Recorded /\ ~S!Scanning /\ ~S!Scanning' /\ scan_request = None
  BY <1>2, <1>3 DEF ScanInv, Recorded, S!Scanning, S!Completing
<1>6. Recorded'
  BY <1>1, <1>5 DEF Recorded, recVars
<1>7. \A u \in S!Threads : /\ th'[u].req = th[u].req
                           /\ th'[u].at \in Carrying <=> th[u].at \in Carrying
  BY <1>2
<1>8. ~raced' => Carried'
  BY <1>1, <1>7 DEF ScanInv, Carried, recVars
<1>9. ~mixed' => Ends'
  BY <1>1, <1>5, <1>7 DEF ScanInv, Ends, recVars
<1> QED
  BY <1>4, <1>6, <1>8, <1>9 DEF ScanInv

\* The timer is stopped,
LEMMA StopTimerInv ==
    ASSUME ScanInv, ~crossed, NEW t \in S!Threads, S!StopTimer(t)
    PROVE  ScanInv'
<1>1. PICK a \in {"fwabort", "report"} : S!Goes(t, a)
  BY DEF S!StopTimer
<1>2. ScanType /\ th[t].at \in Carrying /\ UNCHANGED <<recVars, timeout_work, crossed>>
  BY DEF ScanInv, S!StopTimer, Carrying, recVars, S!bounds, S!history
<1>3. a \in Carrying /\ a \in S!CompleteSteps
  BY DEF Carrying, S!CompleteSteps
<1>4. Moved(t, a, th[t].req)
  BY <1>1, <1>2, <1>3, GoesMoves
<1> QED
  BY <1>2, <1>3, <1>4, Completes

\* ... the firmware told to abort,
LEMMA AbortFirmwareInv ==
    ASSUME ScanInv, ~crossed, NEW t \in S!Threads, S!AbortFirmware(t)
    PROVE  ScanInv'
<1>1. /\ ScanType /\ th[t].at \in Carrying /\ UNCHANGED <<recVars, timeout_work, crossed>>
      /\ S!Goes(t, "report")
  BY DEF ScanInv, S!AbortFirmware, Carrying, recVars, S!bounds, S!history
<1>2. "report" \in Carrying /\ "report" \in S!CompleteSteps
  BY DEF Carrying, S!CompleteSteps
<1>3. Moved(t, "report", th[t].req)
  BY <1>1, <1>2, GoesMoves
<1> QED
  BY <1>1, <1>2, <1>3, Completes

\* ... the end reported,
LEMMA ReportInv ==
    ASSUME ScanInv, ~crossed, NEW t \in S!Threads, S!Report(t)
    PROVE  ScanInv'
<1>1. /\ ScanType /\ th[t].at = "report" /\ S!Goes(t, "unbusy") /\ int_map' = FALSE
      /\ UNCHANGED <<scan_request, unused, raced, mixed, timer, timeout_work, crossed>>
      /\ IF int_map \/ th[t].req = None
         THEN UNCHANGED <<owner, twice>>
         ELSE /\ owner' = IF owner = th[t].req THEN None ELSE owner
              /\ twice' = (twice \/ owner # th[t].req)
  BY DEF ScanInv, S!Report, S!bounds
<1>2. Moved(t, "unbusy", th[t].req)
  BY <1>1, GoesMoves DEF S!CompleteSteps
<1>3. /\ th'[t].at = "unbusy" /\ th'[t].req = th[t].req
      /\ \A u \in S!Threads : u # t => th'[u] = th[u]
      /\ th' \in [S!Threads -> ThreadState]
  BY <1>2 DEF Moved
<1>4. /\ {"report", "unbusy"} \cap (S!ScanSteps \cup Plain \cup {"clear", "take"}) = {}
      /\ "report" \in Carrying /\ "unbusy" \notin Carrying
      /\ "report" \in S!CompleteSteps /\ "user" \in S!Threads
  BY DEF S!OtherSteps, S!ScanSteps, S!CompleteSteps, Carrying, Plain, S!Threads
<1>5. ScanType'
  BY <1>1, <1>3, <1>4 DEF ScanType
<1>6. Recorded /\ ~S!Scanning /\ ~S!Scanning' /\ scan_request = None
  BY <1>1, <1>3, <1>4 DEF ScanInv, Recorded, S!Scanning, S!Completing
<1>7. Recorded'
  BY <1>1, <1>6 DEF Recorded
<1>8. ASSUME ~raced' PROVE Carried'
  <2>1. Carried
    BY <1>1, <1>8 DEF ScanInv
  <2>2. ~twice' /\ (owner' = owner \/ (owner' = None /\ owner = th[t].req /\ th[t].req # None))
    BY <1>1, <1>4, <2>1 DEF Carried
  <2>3. \A u \in S!Threads : th'[u].at \in Carrying => u # t /\ th[u].at \in Carrying /\ th'[u].req = th[u].req
    BY <1>3, <1>4
  <2>4. th[t].req # None => \A u \in S!Threads : th'[u].at \in Carrying => th[u].req = None
    BY <1>1, <1>4, <2>1, <2>3 DEF Carried
  <2> QED
    BY <2>1, <2>2, <2>3, <2>4 DEF Carried
<1>9. ASSUME ~mixed' PROVE Ends'
  <2>1. Ends /\ (owner # None => ~int_map)
    BY <1>1, <1>6, <1>9 DEF ScanInv, Ends
  <2>2. CASE owner' # None
    <3>1. owner' = owner /\ owner # None /\ th[t].req # owner
      BY <1>1, <2>1, <2>2
    <3>2. PICK u \in S!Threads : th[u].at \in Carrying /\ th[u].req = owner
      BY <1>6, <2>1, <3>1 DEF Ends
    <3> QED
      BY <1>1, <1>3, <3>1, <3>2 DEF Ends
  <2> QED
    BY <2>2 DEF Ends
<1> QED
  BY <1>5, <1>7, <1>8, <1>9 DEF ScanInv

\* ... and the scan unmarked.
LEMMA UnbusyInv ==
    ASSUME ScanInv, ~crossed, NEW t \in S!Threads, S!Unbusy(t)
    PROVE  ScanInv'
<1>1. /\ ScanType /\ th[t].at = "unbusy" /\ th' = [th EXCEPT ![t] = S!At(th[t].back, th[t].then)]
      /\ th[t].back \in {"idle", "suspend", "unabort"}
      /\ th[t].then \in {"idle", "int_busy", "status"}
      /\ UNCHANGED <<recVars, timer, timeout_work, crossed>>
  BY DEF ScanInv, ScanType, ThreadState, S!Unbusy, S!bounds, S!history, recVars
<1>2. th[t].back \in S!OtherSteps
  BY <1>1 DEF S!OtherSteps
<1>3. Moved(t, th[t].back, None)
  BY <1>1, <1>2, AtMoves
<1>4. /\ th'[t].at \in S!OtherSteps /\ th'[t].req = None
      /\ \A u \in S!Threads : u # t => th'[u] = th[u]
      /\ th' \in [S!Threads -> ThreadState]
  BY <1>2, <1>3 DEF Moved
<1>5. /\ S!OtherSteps \cap (S!ScanSteps \cup S!CompleteSteps \cup Carrying \cup {"unbusy", "clear", "take"}) = {}
      /\ S!OtherSteps \subseteq Plain /\ "unbusy" \notin Carrying \cup S!ScanSteps \cup {"clear", "take"}
      /\ "unbusy" \in S!CompleteSteps /\ "user" \in S!Threads
  BY DEF S!OtherSteps, S!ScanSteps, S!CompleteSteps, Carrying, Plain, S!Threads
<1>6. ScanType'
  BY <1>1, <1>4, <1>5 DEF ScanType, recVars
<1>7. Recorded /\ ~S!Scanning /\ ~S!Scanning' /\ scan_request = None
  BY <1>1, <1>4, <1>5 DEF ScanInv, Recorded, S!Scanning, S!Completing
<1>8. Recorded'
  BY <1>1, <1>7 DEF Recorded, recVars
<1>9. \A u \in S!Threads : th'[u].at \in Carrying <=> th[u].at \in Carrying
  BY <1>1, <1>4, <1>5
<1>10. \A u \in S!Threads : th[u].at \in Carrying => th'[u].req = th[u].req
  BY <1>1, <1>4, <1>5
<1>11. ~raced' => Carried'
  BY <1>1, <1>9, <1>10 DEF ScanInv, Carried, recVars
<1>12. ~mixed' => Ends'
  BY <1>1, <1>7, <1>9, <1>10 DEF ScanInv, Ends, recVars
<1> QED
  BY <1>6, <1>8, <1>11, <1>12 DEF ScanInv

\* The user starts a scan:
LEMMA ScanStartInv ==
    ASSUME ScanInv, ~crossed, S!ScanStart
    PROVE  ScanInv'
<1>1. PICK r \in unused :
          /\ owner' = r /\ unused' = unused \ {r}
          /\ th' = [th EXCEPT !["user"].at = "request", !["user"].req = r]
  BY DEF S!ScanStart
<1>2. /\ ScanType /\ th["user"].at = "idle" /\ owner = None /\ "user" \in S!Threads
      /\ UNCHANGED <<scan_request, int_map, twice, raced, mixed>>
      /\ crossed' = (crossed \/ S!Completing # {}) /\ r \in Requests /\ r # None
  BY NoneAssumption DEF ScanInv, ScanType, S!ScanStart, S!Threads
<1>3. Moved("user", "request", r)
  <2> DEFINE s == [[th["user"] EXCEPT !.at = "request"] EXCEPT !.req = r]
  <2>1. s \in ThreadState /\ s.at = "request" /\ s.req = r
    BY <1>2 DEF ScanType, ThreadState, S!ScanSteps
  <2>2. th' = [th EXCEPT !["user"] = s]
    BY <1>1, <1>2 DEF ScanType
  <2> HIDE DEF s
  <2> QED
    BY <1>2, <2>1, <2>2 DEF Moved, ScanType
<1>4. /\ th'["user"].at = "request" /\ th'["user"].req = r
      /\ \A u \in S!Threads : u # "user" => th'[u] = th[u]
      /\ th' \in [S!Threads -> ThreadState]
  BY <1>3 DEF Moved
<1>5. /\ "request" \in S!ScanSteps /\ "request" \notin Plain \cup S!CompleteSteps
      /\ Carrying \cup {"unbusy", "clear"} \subseteq S!CompleteSteps
  BY DEF S!OtherSteps, S!ScanSteps, S!CompleteSteps, Carrying, Plain
<1>6. ScanType'
  BY <1>1, <1>2, <1>4, <1>5 DEF ScanType
<1>7. ASSUME ~crossed' PROVE Recorded' /\ (~raced' => Carried') /\ Ends'
  <2>1. \A u \in S!Threads : th[u].at \notin S!CompleteSteps /\ th'[u].at \notin S!CompleteSteps
    BY <1>2, <1>4, <1>5, <1>7 DEF S!Completing
  <2>2. S!Scanning' /\ scan_request = None /\ S!Completing' = {}
    BY <1>2, <1>4, <1>5, <2>1 DEF ScanInv, Recorded, S!Scanning, S!Completing
  <2>3. Recorded'
    BY <1>1, <1>2, <1>4, <1>5, <2>1, <2>2 DEF Recorded
  <2>4. ~raced' => Carried'
    BY <1>2, <1>5, <2>1 DEF ScanInv, Carried
  <2> QED
    BY <1>4, <2>2, <2>3, <2>4 DEF Ends
<1> QED
  BY <1>6, <1>7 DEF ScanInv

\* ... the request is recorded,
LEMMA ScanRequestInv ==
    ASSUME ScanInv, ~crossed, S!ScanRequest
    PROVE  ScanInv'
<1>1. /\ ScanType /\ th["user"].at = "request" /\ "user" \in S!Threads /\ S!Goes("user", "busy")
      /\ scan_request' = th["user"].req /\ mixed' = (mixed \/ int_map)
      /\ UNCHANGED <<owner, unused, int_map, twice, raced, timer, timeout_work, crossed>>
  BY DEF ScanInv, S!ScanRequest, S!bounds, S!Threads
<1>2. Moved("user", "busy", th["user"].req)
  BY <1>1, GoesMoves DEF S!ScanSteps
<1>3. /\ th'["user"].at = "busy" /\ th'["user"].req = th["user"].req
      /\ \A u \in S!Threads : u # "user" => th'[u] = th[u]
      /\ th' \in [S!Threads -> ThreadState]
  BY <1>2 DEF Moved
<1>4. /\ {"request", "busy"} \subseteq S!ScanSteps /\ {"request", "busy"} \cap (Plain \cup S!CompleteSteps) = {}
      /\ Carrying \cup {"unbusy", "clear"} \subseteq S!CompleteSteps
  BY DEF S!OtherSteps, S!ScanSteps, S!CompleteSteps, Carrying, Plain
<1>5. Recorded /\ S!Scanning /\ S!Scanning' /\ owner # None /\ th["user"].req = owner
  BY <1>1, <1>3, <1>4 DEF ScanInv, Recorded, S!Scanning
<1>6. \A u \in S!Threads : th[u].at \notin S!CompleteSteps /\ th'[u].at \notin S!CompleteSteps
  BY <1>1, <1>3, <1>4, <1>5 DEF Recorded, S!Completing
<1>7. ScanType'
  BY <1>1, <1>3, <1>4, <1>5 DEF ScanType
<1>8. Recorded'
  BY <1>1, <1>3, <1>4, <1>5, <1>6 DEF Recorded, S!Completing
<1>9. ~raced' => Carried'
  BY <1>1, <1>4, <1>6 DEF ScanInv, Carried
<1>10. ~mixed' => Ends'
  BY <1>1, <1>5 DEF Ends
<1> QED
  BY <1>7, <1>8, <1>9, <1>10 DEF ScanInv

\* The user's thread leaves the start of a scan, the timer armed,
LEMMA ScanArmInv ==
    ASSUME ScanInv, ~crossed, S!ScanArm
    PROVE  ScanInv'
<1>1. /\ ScanType /\ th["user"].at = "arm" /\ "user" \in S!Threads /\ timer' = TRUE
      /\ th' = [th EXCEPT !["user"].at = "idle", !["user"].req = None]
      /\ UNCHANGED <<recVars, timeout_work, crossed>>
  BY DEF ScanInv, S!ScanArm, S!ArmTimer, S!bounds, S!history, recVars, S!Threads
<1>2. /\ th'["user"].at = "idle" /\ th'["user"].req = None
      /\ \A u \in S!Threads : u # "user" => th'[u] = th[u]
      /\ th' \in [S!Threads -> ThreadState]
  <2> DEFINE s == [[th["user"] EXCEPT !.at = "idle"] EXCEPT !.req = None]
  <2>1. s \in ThreadState /\ s.at = "idle" /\ s.req = None
    BY <1>1 DEF ScanType, ThreadState, S!OtherSteps
  <2>2. th' = [th EXCEPT !["user"] = s]
    BY <1>1 DEF ScanType
  <2> HIDE DEF s
  <2> QED
    BY <1>1, <2>1, <2>2 DEF ScanType
<1>3. /\ "arm" \in S!ScanSteps /\ "arm" \notin Plain \cup S!CompleteSteps
      /\ "idle" \in Plain /\ "idle" \notin S!ScanSteps \cup S!CompleteSteps
      /\ Carrying \cup {"unbusy", "clear"} \subseteq S!CompleteSteps
  BY DEF S!OtherSteps, S!ScanSteps, S!CompleteSteps, Carrying, Plain
<1>4. Recorded /\ S!Scanning /\ ~S!Scanning' /\ scan_request = owner
  BY <1>1, <1>2, <1>3 DEF ScanInv, Recorded, S!Scanning
<1>5. \A u \in S!Threads : th[u].at \notin S!CompleteSteps /\ th'[u].at \notin S!CompleteSteps
  BY <1>1, <1>2, <1>3, <1>4 DEF Recorded, S!Completing
<1>6. ScanType'
  BY <1>1, <1>2, <1>3 DEF ScanType, recVars
<1>7. Recorded'
  BY <1>1, <1>3, <1>4, <1>5 DEF Recorded, recVars
<1>8. ~raced' => Carried'
  BY <1>1, <1>3, <1>5 DEF ScanInv, Carried, recVars
<1>9. ~mixed' => Ends'
  BY <1>1, <1>4 DEF ScanInv, Ends, recVars
<1> QED
  BY <1>6, <1>7, <1>8, <1>9 DEF ScanInv

\* ... or the request given back with the error.
LEMMA ScanForgetInv ==
    ASSUME ScanInv, ~crossed, S!ScanForget
    PROVE  ScanInv'
<1>1. /\ ScanType /\ th["user"].at = "forget" /\ "user" \in S!Threads
      /\ scan_request' = None /\ owner' = None /\ twice' = (twice \/ owner # th["user"].req)
      /\ th' = [th EXCEPT !["user"].at = "idle", !["user"].req = None]
      /\ UNCHANGED <<unused, int_map, raced, mixed, timer, timeout_work, crossed>>
  BY DEF ScanInv, S!ScanForget, S!bounds, S!Threads
<1>2. /\ th'["user"].at = "idle" /\ th'["user"].req = None
      /\ \A u \in S!Threads : u # "user" => th'[u] = th[u]
      /\ th' \in [S!Threads -> ThreadState]
  <2> DEFINE s == [[th["user"] EXCEPT !.at = "idle"] EXCEPT !.req = None]
  <2>1. s \in ThreadState /\ s.at = "idle" /\ s.req = None
    BY <1>1 DEF ScanType, ThreadState, S!OtherSteps
  <2>2. th' = [th EXCEPT !["user"] = s]
    BY <1>1 DEF ScanType
  <2> HIDE DEF s
  <2> QED
    BY <1>1, <2>1, <2>2 DEF ScanType
<1>3. /\ "forget" \in S!ScanSteps /\ "forget" \notin Plain \cup S!CompleteSteps
      /\ "idle" \in Plain /\ "idle" \notin S!ScanSteps \cup S!CompleteSteps
      /\ Carrying \cup {"unbusy", "clear"} \subseteq S!CompleteSteps
  BY DEF S!OtherSteps, S!ScanSteps, S!CompleteSteps, Carrying, Plain
<1>4. Recorded /\ S!Scanning /\ ~S!Scanning' /\ owner = th["user"].req
  BY <1>1, <1>2, <1>3 DEF ScanInv, Recorded, S!Scanning
<1>5. \A u \in S!Threads : th[u].at \notin S!CompleteSteps /\ th'[u].at \notin S!CompleteSteps
  BY <1>1, <1>2, <1>3, <1>4 DEF Recorded, S!Completing
<1>6. ScanType'
  BY <1>1, <1>2, <1>3 DEF ScanType
<1>7. Recorded' /\ Ends'
  BY <1>1, <1>3, <1>4, <1>5 DEF Recorded, Ends
<1>8. ~raced' => Carried'
  BY <1>1, <1>3, <1>4, <1>5 DEF ScanInv, Carried
<1> QED
  BY <1>6, <1>7, <1>8 DEF ScanInv

\* No scan has been requested.
LEMMA ScanInitInv ==
    ASSUME S!Init PROVE ScanInv
<1>1. th \in [S!Threads -> ThreadState] /\ \A t \in S!Threads : th[t].at = "idle" /\ th[t].req = None
  BY DEF S!Init, S!At, ThreadState, S!OtherSteps
<1>2. "idle" \in Plain /\ "idle" \notin S!ScanSteps \cup S!CompleteSteps \cup Carrying /\ "user" \in S!Threads
  BY DEF S!OtherSteps, S!ScanSteps, S!CompleteSteps, Carrying, Plain, S!Threads
<1>3. ScanType
  BY <1>1, <1>2 DEF S!Init, ScanType
<1>4. Recorded /\ Carried /\ Ends
  BY <1>1, <1>2 DEF S!Init, Recorded, Carried, Ends, S!Scanning, S!Completing
<1> QED
  BY <1>3, <1>4 DEF ScanInv

\* Every step of the control plane keeps the scan invariant.
LEMMA ScanStepInv ==
    ASSUME ScanInv, [ControlNext]_allVars
    PROVE  ScanInv'
<1>1. CASE ~crossed /\ S!Next
  <2>1. ASSUME NEW t \in S!Threads, S!Complete(t) \/ S!Unabort(t) PROVE ScanInv'
    BY <1>1, <2>1, TakeInv, ClearInv, StopTimerInv, AbortFirmwareInv, ReportInv, UnbusyInv,
       UnabortInv DEF S!Complete
  <2>2. CASE \E critical \in BOOLEAN : S!UserAbort(critical)
    BY <1>1, <2>2, UserAbortInv
  <2>3. CASE S!UserGoesOn
    BY <1>1, <2>3, ScanRequestInv, ScanBusyInv, ScanEscanInv, ScanFailsInv, ScanArmInv,
       ScanOutInv, ScanForgetInv, SuspendAbortsInv, SuspendStatusInv DEF S!UserGoesOn
  <2>4. CASE S!EventGoesOn
    BY <1>1, <2>4, KeptStepsInv, EscanDoneInv, NetFoundInv, IntBusyInv, IntEscanInv,
       IntFailsInv,
       IntMapInv DEF S!EventGoesOn
  <2>5. CASE S!ScanStart \/ S!UserComplete \/ S!Suspend \/ S!Timeout \/ S!TimeoutWorker
    BY <1>1, <2>5, ScanStartInv, UserCompleteInv, SuspendInv, TimeoutInv, TimeoutWorkerInv
  <2>6. CASE S!CritStop \/ S!FirmwareDone \/ S!FirmwareFound
    BY <1>1, <2>6, KeptStepsInv
  <2> QED
    BY <1>1, <2>1, <2>2, <2>3, <2>4, <2>5, <2>6 DEF S!Next
<1>2. CASE UNCHANGED S!vars
  BY <1>2
    DEF S!vars, S!shared, S!bounds, S!history, ScanInv, ScanType, Recorded, Carried, Ends,
              S!Scanning, S!Completing
<1>3. (~crossed /\ S!Next) \/ UNCHANGED S!vars
  <2>1. UNCHANGED sVars => UNCHANGED S!vars
    BY DEF sVars, S!vars, S!shared, S!bounds, S!history
  <2>2. VifStep \/ ConnectStep \/ ApStep \/ PnoStep \/ CoexStep \/ UNCHANGED allVars
            => UNCHANGED sVars
    BY DEF VifStep, ConnectStep, ApStep, PnoStep, CoexStep, allVars, sVars
  <2> QED
    BY <2>1, <2>2 DEF ControlNext, ScanStep
<1> QED
  BY <1>1, <1>2, <1>3

\* ScanInv holds in every reachable state.
THEOREM ScanInvariant == ControlSpec => []ScanInv
<1>1. ControlInit => ScanInv
  BY ScanInitInv DEF ControlInit
<1>2. ScanInv /\ [ControlNext]_allVars => ScanInv'
  BY ScanStepInv
<1> QED
  BY <1>1, <1>2, PTL DEF ControlSpec, allVars

\* However the user's thread, the event worker and the work of the scan timer
\* interleave in brcmf_notify_escan_complete and brcmf_abort_scanning, a scan
\* is reported once, and until then something is left that ends it, but in
\* the races named there: ScanEnds.
THEOREM ScanEndsHolds == ControlSpec => []ScanEnds
<1>1. ASSUME ScanInv PROVE ScanEnds
  <2>1. S!ReportedOnce
    BY <1>1 DEF ScanInv, Carried, S!ReportedOnce
  <2>2. S!Guarded
    <3>1. SUFFICES ASSUME owner # None, ~crossed, ~mixed, ~S!Scanning
                   PROVE  \/ /\ scan_request = owner
                             /\ timer \/ timeout_work \/ \E t \in S!Threads : th[t].at \in {"take", "clear"}
                          \/ \E t \in S!Completing : th[t].req = owner
      BY DEF S!Guarded
    <3>2. Ends
      BY <1>1, <3>1 DEF ScanInv
    <3>3. \A t \in S!Threads : th[t].at \in Carrying => t \in S!Completing
      BY DEF Carrying, S!CompleteSteps, S!Completing
    <3> QED
      BY <3>1, <3>2, <3>3 DEF Ends
  <2> QED
    BY <2>1, <2>2 DEF ScanEnds
<1> QED
  BY <1>1, ScanInvariant, PTL
==============================================================================
