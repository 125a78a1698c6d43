------------------------------ MODULE BrcmVif ------------------------------
(***************************************************************************)
(* Virtual interfaces of the Wi-Fi driver.  A user adds, changes or        *)
(* deletes an interface (cfg80211.c, p2p.c): arm the wait, send a command, *)
(* wait for the firmware's event with a timeout, disarm.  The worker of    *)
(* fweh.c handles the events in order and makes or frees the interface     *)
(* objects of core.c.  Users hold the rtnl lock for the whole operation;   *)
(* the worker takes it only to unregister a device.                        *)
(*                                                                         *)
(* The n-th request allocates the n-th vif; the firmware interface made    *)
(* for it and the brcmf_if made for that have the same number, so that a   *)
(* mix-up is visible.  The primary interface is not part of the model.     *)
(***************************************************************************)
EXTENDS Naturals, Sequences

CONSTANTS Slots,       \* bsscfg indices besides 0
          Ids, NoId,   \* requests, 1..n, and none
          Kinds,       \* "net": STA or AP, "p2p": P2P client or GO, "dev": P2P device
          MaxAccidents \* timeouts, commands that fail, and interfaces the
                       \* firmware removes on its own

\* NoId stands for no request and for no slot.
ASSUME VifAssumption == Ids \subseteq Nat /\ NoId \notin Ids /\ NoId \notin Slots

VARIABLES
    vif,     \* struct brcmf_cfg80211_vif: live, kind, and vif->ifp
    ifp,     \* struct brcmf_if: live, slot, ifp->vif, and registered with the kernel
    iflist,  \* drvr->iflist
    armed,   \* vif_event.vif
    action,  \* vif_event.action
    conn, p2pdev,  \* p2p->bss_idx[CONNECTION].vif, [DEVICE].vif
    setup,   \* fweh->p2pdev_setup_ongoing
    fwif,    \* the firmware's interfaces
    queue,   \* fweh->event_q
    old,     \* firmware whose events name the P2P device "noif" with the role of
             \* a station, as they do TDLS: ignored except during its set-up
    user,    \* the operation in progress
    wk,      \* brcmf_fweh_event_worker
    n,       \* requests so far
    timeouts, fails, unasked,
    stray,   \* the driver gave up an interface that the firmware keeps, or left
             \* a removal to a user who waited for something else
    late,    \* the worker came to a deleted interface after the user was done
    fault    \* memory that was freed, or no memory, was used

objects == <<vif, ifp, iflist>>
event == <<armed, action>>
p2p == <<conn, p2pdev, setup>>
counts == <<n, timeouts, fails, unasked>>
vars == <<objects, event, p2p, fwif, queue, old, user, wk, counts, stray, late, fault>>

Idle == [at |-> "idle", v |-> NoId, i |-> NoId, ok |-> FALSE]
Listening == [at |-> "idle", i |-> NoId]

Init ==
    /\ vif = [v \in Ids |-> [live |-> FALSE, kind |-> "net", ifp |-> NoId]]
    /\ ifp = [i \in Ids |-> [live |-> FALSE, slot |-> NoId, vif |-> NoId, reg |-> FALSE]]
    /\ iflist = [s \in Slots |-> NoId]
    /\ armed = NoId /\ action = "none"
    /\ conn = NoId /\ p2pdev = NoId /\ setup = FALSE
    /\ fwif = [s \in Slots |-> NoId] /\ queue = <<>> /\ old \in BOOLEAN
    /\ user = Idle /\ wk = Listening
    /\ n = 0 /\ timeouts = 0 /\ fails = 0 /\ unasked = 0
    /\ stray = FALSE /\ late = FALSE /\ fault = FALSE

At(step) == ~fault /\ user.at = step
Mine == vif[user.v]
\* The interface made for a P2P device has no network device.
NoNdev(i) == vif[i].kind = "dev"
Usable == Mine.live /\ Mine.ifp # NoId /\ ifp[Mine.ifp].live /\ (NoNdev(Mine.ifp) => NoNdev(user.v))
Listed == {iflist[s] : s \in Slots} \ {NoId}
RtnlFree == user.at = "idle"

\* brcmf_free_vif; freeing twice is a fault.
Freed(v) == [vif EXCEPT ![v].live = FALSE, ![v].ifp = NoId]
\* The vifs after brcmf_net_detach or brcmf_p2p_ifp_removed of an interface.
Detached(i, V) == IF ifp[i].vif = NoId THEN V ELSE [V EXCEPT ![ifp[i].vif].live = FALSE, ![ifp[i].vif].ifp = NoId]
Dangling(i) == ifp[i].vif # NoId /\ ~vif[ifp[i].vif].live
NoIf == [live |-> FALSE, slot |-> NoId, vif |-> NoId, reg |-> FALSE]

\* brcmf_cfg80211_arm_vif_event
Arm(v) == armed' = v /\ action' = "none"

Spare == timeouts + fails + unasked < MaxAccidents

\* wait_event_timeout: the awaited action, or a timeout without it.
Wait(what, ok) ==
    IF ok THEN action = what /\ timeouts' = timeouts
          ELSE action # what /\ Spare /\ timeouts' = timeouts + 1

Fails == Spare /\ fails' = fails + 1

-----------------------------------------------------------------------------
(* Adding: brcmf_apsta_add_vif, brcmf_p2p_add_vif, brcmf_p2p_create_p2pdev. *)
AddStart(kind) ==
    /\ At("idle") /\ armed = NoId /\ n + 1 \in Ids
    /\ kind = "dev" => p2pdev = NoId
    /\ n' = n + 1
    /\ vif' = [vif EXCEPT ![n'] = [live |-> TRUE, kind |-> kind, ifp |-> NoId]]
    /\ Arm(n') /\ setup' = (kind = "dev")
    /\ user' = [Idle EXCEPT !.at = "add", !.v = n']
    /\ UNCHANGED <<ifp, iflist, conn, p2pdev, fwif, queue, old, wk, timeouts, fails, unasked, stray, late, fault>>

\* brcmf_p2p_get_conn_idx
NoConnection == Mine.kind = "p2p" /\ conn # NoId

\* The command is accepted: the firmware makes an interface and announces it.
AddRequest(s) ==
    /\ At("add") /\ fwif[s] = NoId /\ ~NoConnection
    /\ fwif' = [fwif EXCEPT ![s] = user.v]
    /\ queue' = Append(queue, [act |-> "add", slot |-> s, id |-> user.v])
    /\ user' = [user EXCEPT !.at = "addwait"]
    /\ UNCHANGED <<objects, event, p2p, old, wk, counts, stray, late, fault>>

\* No connection left, no slot left, or the command fails.
AddRefused ==
    /\ At("add")
    /\ IF NoConnection \/ (\A s \in Slots : fwif[s] # NoId)
       THEN fails' = fails ELSE Fails
    /\ Arm(NoId) /\ setup' = FALSE
    /\ vif' = Freed(user.v) /\ user' = Idle /\ fault' = ~Mine.live
    /\ UNCHANGED <<ifp, iflist, conn, p2pdev, fwif, queue, old, wk, n, timeouts, unasked, stray, late>>

AddWaits(ok) ==
    /\ At("addwait") /\ Wait("add", ok)
    /\ user' = [user EXCEPT !.at = "adddone", !.ok = ok]
    /\ UNCHANGED <<objects, event, p2p, fwif, queue, old, wk, n, fails, unasked, stray, late, fault>>

\* Disarm; after a timeout the vif is freed.
AddDone ==
    /\ At("adddone")
    /\ Arm(NoId) /\ setup' = FALSE
    /\ IF user.ok THEN vif' = vif /\ user' = [user EXCEPT !.at = "attach"]
                  ELSE vif' = Freed(user.v) /\ user' = Idle
    /\ fault' = (~user.ok /\ ~Mine.live)
    /\ UNCHANGED <<ifp, iflist, conn, p2pdev, fwif, queue, old, wk, counts, stray, late>>

\* brcmf_net_attach, or for a P2P device noting it.
AddAttach ==
    /\ At("attach") /\ Usable
    /\ ifp' = IF Mine.kind = "dev" THEN ifp ELSE [ifp EXCEPT ![Mine.ifp].reg = TRUE]
    /\ conn' = IF Mine.kind = "p2p" THEN user.v ELSE conn
    /\ p2pdev' = IF Mine.kind = "dev" THEN user.v ELSE p2pdev
    /\ user' = Idle
    /\ UNCHANGED <<vif, iflist, event, setup, fwif, queue, old, wk, counts, stray, late, fault>>

\* Registering fails; or, for a P2P device, reading its index, after which the
\* interface keeps its pointer to the vif.
AttachFails ==
    /\ At("attach") /\ Usable /\ Fails
    /\ IF Mine.kind = "dev"
       THEN p2pdev' = user.v /\ UNCHANGED <<ifp, iflist>>
       ELSE /\ iflist' = [iflist EXCEPT ![ifp[Mine.ifp].slot] = NoId]
            /\ ifp' = [ifp EXCEPT ![Mine.ifp] = NoIf] /\ UNCHANGED p2pdev
    /\ vif' = Freed(user.v) /\ user' = Idle
    /\ stray' = (stray \/ Mine.kind # "dev")
    /\ UNCHANGED <<event, conn, setup, fwif, queue, old, wk, n, timeouts, unasked, late, fault>>

-----------------------------------------------------------------------------
(* Deleting: brcmf_cfg80211_del_apsta_iface, brcmf_p2p_del_vif.             *)
Deletable(v) ==
    /\ vif[v].live /\ vif[v].ifp # NoId
    /\ IF vif[v].kind = "dev" THEN p2pdev = v ELSE ifp[vif[v].ifp].reg

DelStart(v) ==
    /\ At("idle") /\ armed = NoId /\ Deletable(v)
    /\ Arm(v) /\ user' = [Idle EXCEPT !.at = "del", !.v = v, !.i = vif[v].ifp]
    /\ UNCHANGED <<objects, p2p, fwif, queue, old, wk, counts, stray, late, fault>>

\* The interface: ifp for one, vif->ifp for the other.
Target == IF Mine.kind = "net" THEN user.i ELSE Mine.ifp

\* interface_remove names the slot, p2p_ifdel and p2p_disc the interface.
InFirmware(i) == LET s == ifp[i].slot IN IF Mine.kind = "net" THEN fwif[s] # NoId ELSE fwif[s] = i

DelRequest ==
    /\ At("del") /\ Usable /\ InFirmware(Target)
    /\ LET s == ifp[Target].slot IN
        /\ fwif' = [fwif EXCEPT ![s] = NoId]
        /\ queue' = Append(queue, [act |-> "del", slot |-> s, id |-> fwif[s]])
    /\ user' = [user EXCEPT !.at = "delwait"]
    /\ UNCHANGED <<objects, event, p2p, old, wk, counts, stray, late, fault>>

\* Without the firmware a plain interface stays, one of P2P is removed.
Otherwise == IF Mine.kind = "net" THEN "delend" ELSE "remove"
DelRefused ==
    /\ At("del") /\ Usable
    /\ IF InFirmware(Target) THEN Fails ELSE fails' = fails
    /\ user' = [user EXCEPT !.at = IF Mine.kind = "dev" THEN "delwait" ELSE Otherwise]
    /\ stray' = (stray \/ (Mine.kind # "net" /\ InFirmware(Target)))
    /\ UNCHANGED <<objects, event, p2p, fwif, queue, old, wk, n, timeouts, unasked, late, fault>>

\* The removal of a P2P device by an old firmware is ignored and always times
\* out: that is no accident.
DelWaits(ok) ==
    /\ At("delwait")
    /\ IF old /\ NoNdev(user.v) /\ ~ok THEN action # "del" /\ timeouts' = timeouts ELSE Wait("del", ok)
    /\ user' = [user EXCEPT !.at = IF ok THEN "remove" ELSE Otherwise]
    /\ UNCHANGED <<objects, event, p2p, fwif, queue, old, wk, n, fails, unasked, stray, late, fault>>

\* The interface of P2P is found through the vif.
Held == Mine.kind = "net" \/ Mine.live

\* brcmf_remove_interface(ifp, true), if it is still in the list.  A network
\* device is freed with its vif when the user gives the lock back, a P2P
\* device here.
Remove ==
    /\ At("remove") /\ Held
    /\ LET i == Target
           here == i \in Listed
       IN /\ iflist' = IF here THEN [iflist EXCEPT ![ifp[i].slot] = NoId] ELSE iflist
          /\ IF here /\ NoNdev(i)
             THEN p2pdev' = NoId /\ vif' = Detached(i, vif) /\ ifp' = [ifp EXCEPT ![i] = NoIf]
             ELSE p2pdev' = p2pdev /\ vif' = vif
                  /\ ifp' = IF here THEN [ifp EXCEPT ![i].reg = FALSE] ELSE ifp
          /\ user' = [user EXCEPT !.at = "delend", !.i = i, !.ok = here /\ ~NoNdev(i)]
    /\ UNCHANGED <<event, conn, setup, fwif, queue, old, wk, counts, stray, late, fault>>

\* Disarm, forget the connection, give the lock back.
DelEnd ==
    /\ At("delend") /\ Arm(NoId)
    /\ conn' = IF conn = user.v THEN NoId ELSE conn
    /\ IF user.ok THEN vif' = Detached(user.i, vif) /\ ifp' = [ifp EXCEPT ![user.i] = NoIf]
                  ELSE UNCHANGED <<vif, ifp>>
    /\ user' = Idle /\ fault' = (user.ok /\ Dangling(user.i))
    /\ UNCHANGED <<iflist, p2pdev, setup, fwif, queue, old, wk, counts, stray, late>>

-----------------------------------------------------------------------------
(* brcmf_p2p_ifchange, on the P2P connection.                               *)
ChangeStart ==
    /\ At("idle") /\ conn # NoId
    /\ IF vif[conn].live
       THEN Arm(conn) /\ user' = [Idle EXCEPT !.at = "change", !.v = conn] /\ fault' = fault
       ELSE fault' = TRUE /\ UNCHANGED <<event, user>>
    /\ UNCHANGED <<objects, p2p, fwif, queue, old, wk, counts, stray, late>>

ChangeRequest ==
    /\ At("change") /\ Usable /\ InFirmware(Mine.ifp)
    /\ queue' = Append(queue, [act |-> "change", slot |-> ifp[Mine.ifp].slot, id |-> Mine.ifp])
    /\ user' = [user EXCEPT !.at = "chwait"]
    /\ UNCHANGED <<objects, event, p2p, fwif, old, wk, counts, stray, late, fault>>
ChangeRefused ==
    /\ At("change") /\ Usable
    /\ IF InFirmware(Mine.ifp) THEN Fails ELSE fails' = fails
    /\ Arm(NoId) /\ user' = Idle
    /\ UNCHANGED <<objects, p2p, fwif, queue, old, wk, n, timeouts, unasked, stray, late, fault>>
ChangeWaits(ok) ==
    /\ At("chwait") /\ Wait("change", ok)
    /\ Arm(NoId) /\ user' = Idle
    /\ UNCHANGED <<objects, p2p, fwif, queue, old, wk, n, fails, unasked, stray, late, fault>>

-----------------------------------------------------------------------------
\* The worker freed the interface or the vif the user goes on with.
UserFault ==
    /\ \/ user.at \in {"attach", "del", "change"} /\ ~Usable
       \/ user.at = "remove" /\ ~Held
    /\ ~fault /\ fault' = TRUE
    /\ UNCHANGED <<objects, event, p2p, fwif, queue, old, user, wk, counts, stray, late>>

(* brcmf_fweh_event_worker: events in order.                                *)
Event(act) == ~fault /\ wk.at = "idle" /\ queue # <<>> /\ Head(queue).act = act /\ queue' = Tail(queue)
Here == iflist[Head(queue).slot]

\* A vif is being deleted by a user who removes its interface himself.
Answers(i) == user.at \in {"delwait", "remove"} /\ Target = i

\* The P2P device of an old firmware outside of its set-up, and a removal or
\* a change of what is not in the list.
Noif == NoNdev(Head(queue).id) /\ old /\ ~setup
EventIgnored ==
    /\ \/ Event("add") /\ Noif /\ stray' = TRUE
       \/ Event("del") /\ Here = NoId /\ stray' = stray
       \/ Event("del") /\ Here # NoId /\ Noif /\ stray' = (stray \/ ~Answers(Here))
       \/ Event("change") /\ Here = NoId /\ stray' = stray
    /\ UNCHANGED <<objects, event, p2p, fwif, old, user, wk, counts, late, fault>>

\* brcmf_add_if, replacing what is in the slot, and brcmf_notify_vif_event,
\* which binds the new interface to the vif of whoever waits.
Bind(V, id) == IF armed = NoId THEN V ELSE [V EXCEPT ![armed].ifp = id]
AddEvent ==
    /\ Event("add")
    /\ LET e == Head(queue)
           kept == IF Here = NoId THEN vif ELSE Detached(Here, vif)
       IN
        /\ ~Noif
        /\ Here # NoId => ~ifp[Here].reg \/ RtnlFree
        /\ ifp' = [i \in Ids |->
                     IF i = e.id THEN [live |-> TRUE, slot |-> e.slot, vif |-> armed, reg |-> FALSE]
                     ELSE IF i = Here THEN NoIf ELSE ifp[i]]
        /\ vif' = Bind(kept, e.id)
        /\ iflist' = [iflist EXCEPT ![e.slot] = e.id]
        /\ fault' = \/ armed # NoId /\ ~kept[armed].live
                    \/ Here # NoId /\ (NoNdev(Here) \/ Dangling(Here))
    /\ action' = "add"
    /\ UNCHANGED <<armed, p2p, fwif, old, user, wk, counts, stray, late>>

\* brcmf_notify_vif_event for a removal.
DelEvent ==
    /\ Event("del") /\ Here # NoId /\ ~Noif
    /\ action' = "del" /\ wk' = [at |-> "check", i |-> Here]
    /\ UNCHANGED <<objects, armed, p2p, fwif, old, user, counts, stray, late, fault>>

\* brcmf_fweh_handle_if_event: if nobody waits, brcmf_remove_interface(ifp,
\* false) if it is still in the list.
UnattendedNever == FALSE   \* mutant: always left to whoever waits
Unattended == armed = NoId
DelCheck ==
    /\ ~fault /\ wk.at = "check"
    /\ LET gone == Unattended /\ ~ifp[wk.i].live
           mine == Unattended /\ ~gone /\ iflist[ifp[wk.i].slot] = wk.i
       IN /\ fault' = gone /\ late' = gone
          /\ stray' = (stray \/ (armed # NoId /\ ~Answers(wk.i) /\ wk.i \in Listed))
          /\ wk' = IF mine THEN [wk EXCEPT !.at = "remove"] ELSE Listening
    /\ UNCHANGED <<objects, event, p2p, fwif, queue, old, user, counts>>

\* brcmf_del_if: the rtnl lock is taken for a registered or a P2P device.
WorkerRemoves ==
    /\ ~fault /\ wk.at = "remove"
    /\ ifp[wk.i].reg \/ NoNdev(wk.i) => RtnlFree
    /\ IF ifp[wk.i].live
       THEN /\ iflist' = [iflist EXCEPT ![ifp[wk.i].slot] = NoId]
            /\ vif' = Detached(wk.i, vif) /\ ifp' = [ifp EXCEPT ![wk.i] = NoIf]
            /\ p2pdev' = IF NoNdev(wk.i) THEN NoId ELSE p2pdev
            /\ fault' = (Dangling(wk.i) \/ (NoNdev(wk.i) /\ ifp[wk.i].vif = NoId))
            /\ late' = late
       ELSE fault' = TRUE /\ late' = TRUE /\ UNCHANGED <<objects, p2pdev>>
    /\ wk' = Listening
    /\ UNCHANGED <<event, conn, setup, fwif, queue, old, user, counts, stray>>

ChangeEvent ==
    /\ Event("change") /\ Here # NoId
    /\ action' = "change"
    /\ UNCHANGED <<objects, armed, p2p, fwif, old, user, wk, counts, stray, late, fault>>

\* The firmware removes an interface nobody asked it to.
FirmwareRemoves(s) ==
    /\ ~fault /\ fwif[s] # NoId /\ Spare /\ unasked' = unasked + 1
    /\ fwif' = [fwif EXCEPT ![s] = NoId]
    /\ queue' = Append(queue, [act |-> "del", slot |-> s, id |-> fwif[s]])
    /\ UNCHANGED <<objects, event, p2p, old, user, wk, n, timeouts, fails, stray, late, fault>>

Next ==
    \/ \E kind \in Kinds : AddStart(kind)
    \/ \E s \in Slots : AddRequest(s) \/ FirmwareRemoves(s)
    \/ \E ok \in BOOLEAN : AddWaits(ok) \/ DelWaits(ok) \/ ChangeWaits(ok)
    \/ AddRefused \/ AddDone \/ AddAttach \/ AttachFails \/ UserFault
    \/ \E v \in Ids : DelStart(v)
    \/ DelRequest \/ DelRefused \/ Remove \/ DelEnd
    \/ ChangeStart \/ ChangeRequest \/ ChangeRefused
    \/ EventIgnored \/ AddEvent \/ DelEvent \/ DelCheck \/ WorkerRemoves \/ ChangeEvent

Spec == Init /\ [][Next]_vars

-----------------------------------------------------------------------------
\* Types; a wait is armed only by an operation in progress.
TypeOK ==
    /\ armed \in Ids \cup {NoId} /\ action \in {"none", "add", "del", "change"}
    /\ \A s \in Slots : iflist[s] \in Ids \cup {NoId} /\ fwif[s] \in Ids \cup {NoId}
    /\ conn \in Ids \cup {NoId} /\ p2pdev \in Ids \cup {NoId}
    /\ armed # NoId => user.v = armed

Quiet == user.at = "idle" /\ wk.at = "idle" /\ queue = <<>> /\ ~fault

\* When all events are handled the driver has the interfaces the firmware has
\* (brcmf_fweh_handle_if_event), unless `stray' says why not or two accidents
\* confused two requests.
Matching == Quiet /\ ~stray /\ timeouts + unasked <= 1 => iflist = fwif

\* Then, too, every vif belongs to an interface in the list that belongs to it:
\* none is leaked, whatever timed out or failed (brcmf_free_vif).
Paired == Quiet => \A v \in Ids : vif[v].live => vif[v].ifp \in Listed /\ ifp[vif[v].ifp].vif = v

\* Freed memory is used only in a narrow window, after a timeout, or when the
\* firmware removes an interface nobody asked it to remove; a command that
\* fails never leads to it (brcmf_remove_interface).
NoFault == fault => late \/ timeouts + unasked > 0

(***************************************************************************)
(* When all events are handled the driver has the interfaces the firmware  *)
(* has, no vif is leaked, and a freed interface is used only in the races  *)
(* named there (brcmf_fweh_handle_if_event, brcmf_cfg80211_free_vif,       *)
(* brcmf_remove_interface).                                                *)
(***************************************************************************)
HostFollows == Matching /\ Paired /\ NoFault
=============================================================================
