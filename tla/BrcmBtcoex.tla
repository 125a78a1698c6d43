----------------------------- MODULE BrcmBtcoex -----------------------------
(***************************************************************************)
(* Bluetooth coexistence in the Wi-Fi driver (btcoex.c): while a critical  *)
(* protocol (DHCP) runs and Bluetooth carries voice, two groups of the     *)
(* firmware's coexistence parameters are saved, overridden and put back by *)
(* a state machine.  The user's calls, a work item and a timer run it, and *)
(* no lock orders them.  Values are "orig" (the firmware's own), "dhcp"    *)
(* (the override) and "junk" (what a failed read leaves, its address).     *)
(***************************************************************************)
EXTENDS Naturals

CONSTANTS Sessions,    \* calls of the user
          CoexFaults   \* refused reads and writes of parameters

VARIABLES bt,     \* struct brcmf_btcoex_info
          par,    \* the firmware's parameters: groups 1 (66,41,68), 2 (50,51,64,65,71)
          armed,  \* the timer
          queued, \* the work is queued
          hd,     \* where the work handler is
          us,     \* where the user's thread is
          crit,   \* cfg80211: a critical protocol is under way
          hist    \* calls, faults; hurt: groups whose own values were not read
                  \* or not put back; crash: a NULL interface was used; crossed:
                  \* a call of the user overlapped the end of a session
btVars == <<bt, par, armed, queued, hd, us, crit, hist>>

EndSteps == {"idle", "stopped", "flag", "write", "forget"}

\* brcmf_btcoex_attach; the driver has one interface here.
BtInit ==
    /\ bt = [state |-> "IDLE", timer_on |-> FALSE, done |-> FALSE, vif |-> FALSE,
             saved |-> [g \in 1 .. 2 |-> FALSE], reg |-> [g \in 1 .. 2 |-> "orig"],
             there |-> TRUE]
    /\ par = [g \in 1 .. 2 |-> "orig"]
    /\ armed = FALSE /\ queued = FALSE /\ hd = "out" /\ us = "out" /\ crit = FALSE
    /\ hist = [calls |-> 0, faults |-> 0, hurt |-> [g \in 1 .. 2 |-> FALSE],
               crash |-> FALSE, crossed |-> FALSE]

Refused(h) == [h EXCEPT !.faults = @ + 1]
Hurt(h, g) == [Refused(h) EXCEPT !.hurt[g] = TRUE]

\* What a save of group g may read: a failed read leaves the register number.
Reads(g) == {[reg |-> par[g], hist |-> hist]} \cup
            (IF hist.faults < CoexFaults
             THEN {[reg |-> "junk", hist |-> Hurt(hist, g)]} ELSE {})

\* Writes of a group.  Nobody looks at their result: the code goes on as if
\* the firmware had obeyed.  h is what the step notes besides.
Override(g, h) ==
    \/ par' = [par EXCEPT ![g] = "dhcp"] /\ hist' = h
    \/ h.faults < CoexFaults /\ par' = par /\ hist' = Refused(h)
PutBack(g, h) ==
    \/ par' = [par EXCEPT ![g] = bt.reg[g]] /\ hist' = h
    \/ h.faults < CoexFaults /\ par' = par /\ hist' = Hurt(h, g)

Noted(h) == [h EXCEPT !.crossed = @ \/ (us' # "out" /\ hd' \in EndSteps)]

----------------------------------------------------------------------------
(* The timer and the work.                                                 *)

\* brcmf_btcoex_timerfunc.
TimerFunc ==
    /\ armed /\ armed' = FALSE
    /\ bt' = [bt EXCEPT !.timer_on = FALSE] /\ queued' = TRUE
    /\ UNCHANGED <<par, hd, us, crit, hist>>

\* brcmf_btcoex_handler starts: a timer that is on is deleted.
HandlerStarts ==
    /\ queued /\ hd = "out" /\ queued' = FALSE /\ hd' = "switch"
    /\ IF bt.timer_on
       THEN bt' = [bt EXCEPT !.timer_on = FALSE] /\ armed' = FALSE
       ELSE UNCHANGED <<bt, armed>>
    /\ UNCHANGED <<par, us, crit, hist>>

\* DHCP_START: the opportunity window; a short timeout fires at once.
HandlerOpens ==
    /\ hd = "switch" /\ bt.state = "START"
    /\ bt' = [bt EXCEPT !.state = "OPPR"]
    /\ armed' = TRUE /\ hd' = "on"
    /\ UNCHANGED <<par, queued, us, crit, hist>>

\* DHCP_OPPR_WIN, DHCP is not over: brcmf_btcoex_boost_wifi(btci, true).
\* The group is never saved already here (BoostOnce), so the code's other
\* branch, which would restore it, has no action.
HandlerBoosts ==
    /\ hd = "switch" /\ bt.state = "OPPR" /\ ~bt.done /\ hd' = "force"
    /\ ~bt.saved[2]
    /\ \E r \in Reads(2) :
         /\ bt' = [bt EXCEPT !.saved[2] = TRUE, !.reg[2] = r.reg]
         /\ Override(2, r.hist)
    /\ UNCHANGED <<armed, queued, us, crit>>

HandlerForces ==
    /\ hd = "force" /\ hd' = "on"
    /\ bt' = [bt EXCEPT !.state = "FORCE"] /\ armed' = TRUE
    /\ UNCHANGED <<par, queued, us, crit, hist>>

\* btci->timer_on = true, after the timer has been started.
HandlerOn ==
    /\ hd = "on" /\ hd' = "out" /\ bt' = [bt EXCEPT !.timer_on = TRUE]
    /\ UNCHANGED <<par, armed, queued, us, crit, hist>>

\* The other cases go to the end of the session.
HandlerEnds ==
    /\ hd = "switch" /\ (bt.state \in {"FORCE", "IDLE"} \/ (bt.state = "OPPR" /\ bt.done))
    /\ hd' = "idle" /\ UNCHANGED <<bt, par, armed, queued, us, crit>> /\ hist' = Noted(hist)

\* The state, and brcmf_btcoex_boost_wifi(btci, false).
HandlerIdle ==
    /\ hd = "idle" /\ hd' = "stopped"
    /\ bt' = [bt EXCEPT !.state = "IDLE", !.timer_on = FALSE, !.saved[2] = FALSE]
    /\ IF bt.saved[2] THEN PutBack(2, hist) ELSE UNCHANGED <<par, hist>>
    /\ UNCHANGED <<armed, queued, us, crit>>

\* cfg80211_crit_proto_stopped(&btci->vif->wdev)
HandlerStopped ==
    /\ hd = "stopped" /\ hd' = "flag" /\ crit' = FALSE
    /\ hist' = [hist EXCEPT !.crash = @ \/ ~bt.vif]
    /\ UNCHANGED <<bt, par, armed, queued, us>>

\* brcmf_btcoex_restore_part1: the flag, the interface, the parameters.
HandlerFlag ==
    /\ hd = "flag" /\ hd' = IF bt.saved[1] THEN "write" ELSE "forget"
    /\ bt' = [bt EXCEPT !.saved[1] = FALSE]
    /\ UNCHANGED <<par, armed, queued, us, crit, hist>>
HandlerWrite ==
    /\ hd = "write" /\ hd' = "forget"
    /\ PutBack(1, [hist EXCEPT !.crash = @ \/ ~bt.vif])
    /\ UNCHANGED <<bt, armed, queued, us, crit>>
HandlerForget ==
    /\ hd = "forget" /\ hd' = "out" /\ bt' = [bt EXCEPT !.vif = FALSE]
    /\ UNCHANGED <<par, armed, queued, us, crit, hist>>

----------------------------------------------------------------------------
(* The user's calls (brcmf_btcoex_set_mode).                               *)

Called(h) == [h EXCEPT !.calls = @ + 1]
Free == us = "out" /\ bt.there /\ hist.calls < Sessions

\* brcmf_btcoex_is_sco_active samples a parameter twelve times and counts:
\* Bluetooth decides the result, a failed read is a no.
ScoActive == BOOLEAN

\* BTCOEX_DISABLED: refused in a session; without a voice link nothing is
\* done.
SetModeDisabled ==
    /\ Free /\ ~crit
    /\ \/ /\ bt.state # "IDLE" /\ us' = "out" /\ UNCHANGED <<bt, crit>>
       \/ /\ bt.state = "IDLE" /\ crit' = TRUE
          /\ \E sco \in ScoActive :
               /\ us' = IF sco THEN "save" ELSE "out"
               /\ bt' = [bt EXCEPT !.vif = @ \/ sco]
    /\ UNCHANGED <<par, armed, queued, hd>> /\ hist' = Noted(Called(hist))

\* brcmf_btcoex_dhcp_start: save and override group 1.
DhcpStart ==
    /\ us = "save" /\ us' = "go"
    /\ IF bt.saved[1] THEN bt' = bt /\ Override(1, hist)
       ELSE \E r \in Reads(1) :
              /\ bt' = [bt EXCEPT !.saved[1] = TRUE, !.reg[1] = r.reg]
              /\ Override(1, r.hist)
    /\ UNCHANGED <<armed, queued, hd, crit>>
DhcpGo ==
    /\ us = "go" /\ us' = "out"
    /\ bt' = [bt EXCEPT !.done = FALSE, !.state = "START"] /\ queued' = TRUE
    /\ UNCHANGED <<par, armed, hd, crit, hist>>

\* BTCOEX_ENABLED, by cfg80211 when it was started, in a session only.
SetModeEnabled ==
    /\ Free /\ crit /\ crit' = FALSE
    /\ IF bt.state # "IDLE" /\ bt.vif
       THEN us' = "end" /\ bt' = [bt EXCEPT !.done = TRUE]
       ELSE us' = "out" /\ UNCHANGED bt
    /\ UNCHANGED <<par, armed, queued, hd>> /\ hist' = Noted(Called(hist))

\* brcmf_btcoex_dhcp_end with the timer on: the work ends the session.
MutDhcpEndWakes == queued
DhcpEndWakes == queued \/ bt.state # "IDLE"
DhcpEndTimer ==
    /\ us = "end" /\ bt.timer_on /\ us' = "out"
    /\ bt' = [bt EXCEPT !.timer_on = FALSE] /\ armed' = FALSE
    /\ queued' = DhcpEndWakes
    /\ UNCHANGED <<par, hd, crit, hist>>
\* With the timer off: only group 1 is restored, the work is under way.
DhcpEndRestore ==
    /\ us = "end" /\ ~bt.timer_on
    /\ us' = IF bt.saved[1] THEN "write" ELSE "out"
    /\ bt' = [bt EXCEPT !.saved[1] = FALSE]
    /\ UNCHANGED <<par, armed, queued, hd, crit, hist>>
DhcpEndWrite ==
    /\ us = "write" /\ us' = "out"
    /\ PutBack(1, [hist EXCEPT !.crash = @ \/ ~bt.vif])
    /\ UNCHANGED <<bt, armed, queued, hd, crit>>

\* brcmf_btcoex_detach: the timer is shut down, the work is waited for, both
\* groups are put back; the write of those in no is refused.
Detach ==
    /\ us = "out" /\ bt.there /\ hd = "out"
    /\ armed' = FALSE /\ queued' = FALSE
    /\ bt' = [bt EXCEPT !.timer_on = FALSE, !.saved = [g \in 1 .. 2 |-> FALSE],
                        !.there = FALSE]
    /\ \E no \in SUBSET {g \in 1 .. 2 : bt.saved[g]} :
         LET n == hist.faults + (IF 1 \in no THEN 1 ELSE 0) + (IF 2 \in no THEN 1 ELSE 0) IN
         /\ no # {} => n <= CoexFaults
         /\ par' = [g \in 1 .. 2 |-> IF bt.saved[g] /\ g \notin no THEN bt.reg[g] ELSE par[g]]
         /\ hist' = [hist EXCEPT !.crash = @ \/ (bt.saved[1] /\ ~bt.vif), !.faults = n,
                                 !.hurt = [g \in 1 .. 2 |-> @[g] \/ g \in no]]
    /\ UNCHANGED <<hd, us, crit>>

BtNext == TimerFunc \/ HandlerStarts \/ HandlerOpens \/ HandlerBoosts \/ HandlerForces
          \/ HandlerOn \/ HandlerEnds \/ HandlerIdle \/ HandlerStopped \/ HandlerFlag
          \/ HandlerWrite \/ HandlerForget \/ SetModeDisabled \/ DhcpStart \/ DhcpGo
          \/ SetModeEnabled \/ DhcpEndTimer \/ DhcpEndRestore \/ DhcpEndWrite \/ Detach
BtSpec == BtInit /\ [][BtNext]_btVars

----------------------------------------------------------------------------
Quiet == hd = "out" /\ us = "out" /\ ~queued /\ ~armed

\* A session always has something that ends it: the timer, the work or a call
\* under way.
SessionEnds == bt.there /\ bt.state # "IDLE" => ~Quiet

\* When nothing is under way the firmware has its own parameters back, both
\* groups, but for one whose read or restoring write was refused, and unless a
\* call of the user overlapped the end of a session; and no interface is used
\* that is not there.  A refused override does no harm, and a group never
\* suffers from what happened to the other one.
ParametersBack ==
    ~hist.crossed =>
      /\ Quiet => \A g \in 1 .. 2 : hist.hurt[g] \/ par[g] = "orig"
      /\ Quiet => bt.saved = [g \in 1 .. 2 |-> FALSE]
      /\ ~hist.crash

\* Group 2 is not overridden a second time before it is restored.
BoostOnce == hd = "switch" /\ bt.state = "OPPR" => ~bt.saved[2]

\* Property CoexBack.  The user's calls, the timer and the work of btcoex.c,
\* in any order, end every session and give the firmware its parameters back,
\* but for a group whose values it refused to tell or to take.
CoexBack == SessionEnds /\ ParametersBack /\ BoostOnce
=============================================================================
