------------------------------ MODULE BrcmScan ------------------------------
(***************************************************************************)
(* Scanning in the Wi-Fi driver (cfg80211.c).  A request of cfg80211 and   *)
(* an internal scan that follows a scheduled-scan hit use one scan engine  *)
(* in the firmware.  Three threads touch the driver's state without a      *)
(* common lock: the user's (cfg80211 operations, one at a time), the       *)
(* worker for firmware events, and the work queued by the scan timer.      *)
(* Each of them may run brcmf_notify_escan_complete.                       *)
(*                                                                         *)
(* Left out: what is scanned and found, and scans for action frames (p2p.c).*)
(***************************************************************************)
EXTENDS Naturals, Sequences

CONSTANTS Requests,   \* requests of cfg80211, each used once
          None,
          MaxAborts,  \* operations that end a scan
          MaxFound,   \* hits of a scheduled scan
          MaxFails    \* commands the firmware refuses without being busy

VARIABLES
    scan_request,  \* cfg->scan_request
    int_map,       \* cfg->int_escan_map is not 0
    busy, aborting, suppress,  \* the bits of cfg->scan_status
    timer,         \* escan_timeout is armed
    timeout_work,  \* escan_timeout_work is queued
    owner,         \* the request cfg80211 waits for (rdev->scan_req)
    fw,            \* what the firmware scans for: None, a request or "internal"
    queue,         \* events for brcmf_fweh_event_worker
    th,            \* per thread: where it is, and its local variables
    unused, aborts, found, fails,  \* the bounds
    twice,   \* a request was reported, or given back, twice
    raced,   \* scan_request changed between being read and being cleared
    crossed, \* a completion and the start of a scan overlapped
    mixed    \* int_escan_map was set while a request was under way

shared == <<scan_request, int_map, busy, aborting, suppress, timer, timeout_work, owner, fw, queue>>
bounds == <<unused, aborts, found, fails>>
history == <<twice, raced, crossed, mixed>>
vars == <<shared, th, bounds, history>>

Threads == {"user", "event", "work"}

ScanSteps == {"request", "busy", "escan", "arm", "out", "forget"}
CompleteSteps == {"take", "clear", "timer", "fwabort", "report", "unbusy"}
OtherSteps == {"idle", "unabort", "int_busy", "int_escan", "int_map", "suspend", "status"}

Scanning == th["user"].at \in ScanSteps
Completing == {t \in Threads : th[t].at \in CompleteSteps}

\* A thread outside of brcmf_notify_escan_complete that will go on at `then'.
At(at, then) == [at |-> at, req |-> None, fw |-> FALSE, back |-> "idle", then |-> then]

\* brcmf_init_escan, wl_init_priv.
Init ==
    /\ scan_request = None /\ int_map = FALSE
    /\ busy = FALSE /\ aborting = FALSE /\ suppress = FALSE
    /\ timer = FALSE /\ timeout_work = FALSE /\ owner = None
    /\ fw = None /\ queue = <<>>
    /\ th = [t \in Threads |-> At("idle", "idle")]
    /\ unused = Requests /\ aborts = 0 /\ found = 0 /\ fails = 0
    /\ twice = FALSE /\ raced = FALSE /\ crossed = FALSE /\ mixed = FALSE

Goes(t, at) == th' = [th EXCEPT ![t].at = at]

-----------------------------------------------------------------------------
(* brcmf_notify_escan_complete(cfg, ifp, aborted, fw_abort), by any thread. *)

\* A call of it; the thread goes on at `back'.
Call(t, fwabort, back) ==
    /\ th' = [th EXCEPT ![t].at = "take", ![t].fw = fwabort, ![t].back = back]
    /\ crossed' = (crossed \/ Scanning)

\* scan_request = cfg->scan_request;
Take(t) ==
    /\ th[t].at = "take"
    /\ th' = [th EXCEPT ![t].at = "clear", ![t].req = scan_request]
    /\ UNCHANGED <<shared, bounds, history>>

\* cfg->scan_request = NULL;
Cleared == None
Clear(t) ==
    /\ th[t].at = "clear" /\ Goes(t, "timer")
    /\ scan_request' = Cleared
    /\ raced' = (raced \/ scan_request # th[t].req)
    /\ UNCHANGED <<int_map, busy, aborting, suppress, timer, timeout_work, owner, fw, queue,
                   bounds, twice, crossed, mixed>>

\* timer_delete_sync(&cfg->escan_timeout)
StopTimer(t) ==
    /\ th[t].at = "timer" /\ Goes(t, IF th[t].fw THEN "fwabort" ELSE "report")
    /\ timer' = FALSE
    /\ UNCHANGED <<scan_request, int_map, busy, aborting, suppress, timeout_work, owner, fw, queue,
                   bounds, history>>

\* BRCMF_C_SCAN with channel -1; the firmware confirms with an event.
AbortFirmware(t) ==
    /\ th[t].at = "fwabort" /\ Goes(t, "report")
    /\ fw' = None /\ queue' = IF fw = None THEN queue ELSE Append(queue, "abort")
    /\ UNCHANGED <<scan_request, int_map, busy, aborting, suppress, timer, timeout_work, owner,
                   bounds, history>>

\* A scheduled scan's results take precedence; otherwise cfg80211_scan_done.
Report(t) ==
    /\ th[t].at = "report" /\ Goes(t, "unbusy")
    /\ int_map' = FALSE
    /\ IF int_map \/ th[t].req = None
       THEN UNCHANGED <<owner, twice>>
       ELSE /\ owner' = IF owner = th[t].req THEN None ELSE owner
            /\ twice' = (twice \/ owner # th[t].req)
    /\ UNCHANGED <<scan_request, busy, aborting, suppress, timer, timeout_work, fw, queue,
                   bounds, raced, crossed, mixed>>

\* test_and_clear_bit(BRCMF_SCAN_STATUS_BUSY), return.
Unbusy(t) ==
    /\ th[t].at = "unbusy"
    /\ th' = [th EXCEPT ![t] = At(th[t].back, th[t].then)]
    /\ busy' = FALSE
    /\ UNCHANGED <<scan_request, int_map, aborting, suppress, timer, timeout_work, owner, fw, queue,
                   bounds, history>>

Complete(t) == Take(t) \/ Clear(t) \/ StopTimer(t) \/ AbortFirmware(t) \/ Report(t) \/ Unbusy(t)

-----------------------------------------------------------------------------
(* brcmf_abort_scanning, by the user's thread or the event worker.          *)
Aborts(t, then) ==
    /\ aborting' = TRUE
    /\ IF int_map \/ scan_request # None
       THEN /\ th' = [th EXCEPT ![t].at = "take", ![t].fw = TRUE, ![t].back = "unabort", ![t].then = then]
            /\ crossed' = (crossed \/ Scanning)
       ELSE /\ th' = [th EXCEPT ![t].at = "unabort", ![t].then = then]
            /\ crossed' = crossed

Unabort(t) ==
    /\ th[t].at = "unabort" /\ th' = [th EXCEPT ![t] = At(th[t].then, "idle")]
    /\ busy' = FALSE /\ aborting' = FALSE
    /\ UNCHANGED <<scan_request, int_map, suppress, timer, timeout_work, owner, fw, queue,
                   bounds, history>>

-----------------------------------------------------------------------------
(* The user's thread: operations of cfg80211, under the wiphy's lock.       *)

\* brcmf_cfg80211_scan up to its tests; cfg80211 has one request at a time.
Startable == ~busy /\ ~aborting /\ ~suppress
ScanStart ==
    /\ th["user"].at = "idle" /\ owner = None /\ unused # {}
    /\ Startable
    /\ LET r == CHOOSE r \in unused : TRUE IN
        /\ owner' = r /\ unused' = unused \ {r}
        /\ th' = [th EXCEPT !["user"].at = "request", !["user"].req = r]
    /\ crossed' = (crossed \/ Completing # {})
    /\ UNCHANGED <<scan_request, int_map, busy, aborting, suppress, timer, timeout_work, fw, queue,
                   aborts, found, fails, twice, raced, mixed>>

\* cfg->scan_request = request;
ScanRequest ==
    /\ th["user"].at = "request" /\ Goes("user", "busy")
    /\ scan_request' = th["user"].req
    /\ mixed' = (mixed \/ int_map)
    /\ UNCHANGED <<int_map, busy, aborting, suppress, timer, timeout_work, owner, fw, queue,
                   bounds, twice, raced, crossed>>

\* set_bit(BRCMF_SCAN_STATUS_BUSY)
ScanBusy ==
    /\ th["user"].at = "busy" /\ Goes("user", "escan")
    /\ busy' = TRUE
    /\ UNCHANGED <<scan_request, int_map, aborting, suppress, timer, timeout_work, owner, fw, queue,
                   bounds, history>>

\* brcmf_p2p_scan_prep, brcmf_vif_set_mgmt_ie and brcmf_do_escan succeed.
ScanEscan ==
    /\ th["user"].at = "escan" /\ Goes("user", "arm")
    /\ fw = None /\ fw' = th["user"].req
    /\ UNCHANGED <<scan_request, int_map, busy, aborting, suppress, timer, timeout_work, owner, queue,
                   bounds, history>>

\* One of them fails: -EBUSY from a firmware that scans, or another error.
ScanFails ==
    /\ th["user"].at = "escan" /\ Goes("user", "out")
    /\ IF fw = None THEN fails < MaxFails /\ fails' = fails + 1 ELSE fails' = fails
    /\ UNCHANGED <<shared, unused, aborts, found, history>>

\* mod_timer(&cfg->escan_timeout)
ForgetTimer == timer' = timer   \* mutant
ArmTimer == timer' = TRUE
ScanArm ==
    /\ th["user"].at = "arm"
    /\ th' = [th EXCEPT !["user"].at = "idle", !["user"].req = None]
    /\ ArmTimer
    /\ UNCHANGED <<scan_request, int_map, busy, aborting, suppress, timeout_work, owner, fw, queue,
                   bounds, history>>

\* scan_out: the bit, then the request, which cfg80211 frees on an error.
ScanOut ==
    /\ th["user"].at = "out" /\ Goes("user", "forget")
    /\ busy' = FALSE
    /\ UNCHANGED <<scan_request, int_map, aborting, suppress, timer, timeout_work, owner, fw, queue,
                   bounds, history>>
ScanForget ==
    /\ th["user"].at = "forget"
    /\ th' = [th EXCEPT !["user"].at = "idle", !["user"].req = None]
    /\ scan_request' = None /\ owner' = None
    /\ twice' = (twice \/ owner # th["user"].req)
    /\ UNCHANGED <<int_map, busy, aborting, suppress, timer, timeout_work, fw, queue,
                   bounds, raced, crossed, mixed>>

\* brcmf_abort_scanning from __brcmf_cfg80211_down, brcmf_p2p_stop_device, or,
\* with scanning suppressed, brcmf_cfg80211_crit_proto_start.
UserAbort(critical) ==
    /\ th["user"].at = "idle" /\ aborts < MaxAborts /\ aborts' = aborts + 1
    /\ suppress' = (suppress \/ critical)
    /\ Aborts("user", "idle")
    /\ UNCHANGED <<scan_request, int_map, busy, timer, timeout_work, owner, fw, queue,
                   unused, found, fails, twice, raced, mixed>>

\* brcmf_cfg80211_crit_proto_stop
CritStop ==
    /\ th["user"].at = "idle" /\ suppress /\ suppress' = FALSE
    /\ UNCHANGED <<scan_request, int_map, busy, aborting, timer, timeout_work, owner, fw, queue,
                   th, bounds, history>>

\* brcmf_cfg80211_sched_scan_stop, brcmf_cfg80211_del_iface, and without a
\* condition brcmf_p2p_ifchange.
UserComplete ==
    /\ th["user"].at = "idle" /\ aborts < MaxAborts /\ aborts' = aborts + 1
    /\ Call("user", TRUE, "idle")
    /\ UNCHANGED <<shared, unused, found, fails, twice, raced, mixed>>

\* brcmf_cfg80211_suspend: the scheduled scan, any scan, all bits.
Suspend ==
    /\ th["user"].at = "idle" /\ aborts < MaxAborts /\ aborts' = aborts + 1
    /\ IF int_map THEN Call("user", TRUE, "suspend")
                  ELSE Goes("user", "suspend") /\ crossed' = crossed
    /\ UNCHANGED <<shared, unused, found, fails, twice, raced, mixed>>
SuspendAborts ==
    /\ th["user"].at = "suspend"
    /\ IF busy THEN Aborts("user", "status")
               ELSE Goes("user", "status") /\ UNCHANGED <<aborting, crossed>>
    /\ UNCHANGED <<scan_request, int_map, busy, suppress, timer, timeout_work, owner, fw, queue,
                   bounds, twice, raced, mixed>>
SuspendStatus ==
    /\ th["user"].at = "status" /\ Goes("user", "idle")
    /\ busy' = FALSE /\ aborting' = FALSE /\ suppress' = FALSE
    /\ UNCHANGED <<scan_request, int_map, timer, timeout_work, owner, fw, queue, bounds, history>>

UserGoesOn ==
    \/ ScanRequest \/ ScanBusy \/ ScanEscan \/ ScanFails \/ ScanArm \/ ScanOut \/ ScanForget
    \/ SuspendAborts \/ SuspendStatus

-----------------------------------------------------------------------------
(* The event worker.                                                        *)
Event(kind) == th["event"].at = "idle" /\ queue # <<>> /\ Head(queue) = kind /\ queue' = Tail(queue)

\* brcmf_cfg80211_escan_handler: BRCMF_E_STATUS_ABORT.
EscanAborted ==
    /\ Event("abort")
    /\ UNCHANGED <<scan_request, int_map, busy, aborting, suppress, timer, timeout_work, owner, fw,
                   th, bounds, history>>

\* The same for the end of a scan, successful or not.
EscanDone ==
    /\ Event("done")
    /\ IF busy /\ (int_map \/ scan_request # None)
       THEN Call("event", FALSE, "idle")
       ELSE UNCHANGED <<th, crossed>>
    /\ UNCHANGED <<scan_request, int_map, busy, aborting, suppress, timer, timeout_work, owner, fw,
                   bounds, twice, raced, mixed>>

\* brcmf_notify_sched_scan_results, brcmf_start_internal_escan.
NetFound ==
    /\ Event("found")
    /\ IF busy THEN Aborts("event", "int_busy")
               ELSE Goes("event", "int_busy") /\ UNCHANGED <<aborting, crossed>>
    /\ UNCHANGED <<scan_request, int_map, busy, suppress, timer, timeout_work, owner, fw,
                   bounds, twice, raced, mixed>>
IntBusy ==
    /\ th["event"].at = "int_busy" /\ Goes("event", "int_escan")
    /\ busy' = TRUE
    /\ UNCHANGED <<scan_request, int_map, aborting, suppress, timer, timeout_work, owner, fw, queue,
                   bounds, history>>
IntEscan ==
    /\ th["event"].at = "int_escan" /\ Goes("event", "int_map")
    /\ fw = None /\ fw' = "internal"
    /\ UNCHANGED <<scan_request, int_map, busy, aborting, suppress, timer, timeout_work, owner, queue,
                   bounds, history>>
IntFails ==
    /\ th["event"].at = "int_escan" /\ Goes("event", "idle")
    /\ IF fw = None THEN fails < MaxFails /\ fails' = fails + 1 ELSE fails' = fails
    /\ busy' = FALSE
    /\ UNCHANGED <<scan_request, int_map, aborting, suppress, timer, timeout_work, owner, fw, queue,
                   unused, aborts, found, history>>
IntMap ==
    /\ th["event"].at = "int_map" /\ Goes("event", "idle")
    /\ int_map' = TRUE
    /\ mixed' = (mixed \/ owner # None)
    /\ UNCHANGED <<scan_request, busy, aborting, suppress, timer, timeout_work, owner, fw, queue,
                   bounds, twice, raced, crossed>>

EventGoesOn == EscanAborted \/ EscanDone \/ NetFound \/ IntBusy \/ IntEscan \/ IntFails \/ IntMap

-----------------------------------------------------------------------------
\* brcmf_escan_timeout
Expires == timeout_work \/ int_map \/ scan_request # None
Timeout ==
    /\ timer /\ timer' = FALSE
    /\ timeout_work' = Expires
    /\ UNCHANGED <<scan_request, int_map, busy, aborting, suppress, owner, fw, queue,
                   th, bounds, history>>

\* brcmf_cfg80211_escan_timeout_worker
TimeoutWorker ==
    /\ th["work"].at = "idle" /\ timeout_work /\ timeout_work' = FALSE
    /\ Call("work", TRUE, "idle")
    /\ UNCHANGED <<scan_request, int_map, busy, aborting, suppress, timer, owner, fw, queue,
                   bounds, twice, raced, mixed>>

\* The firmware ends a scan, and finds a network of a scheduled scan.
FirmwareDone ==
    /\ fw # None /\ fw' = None /\ queue' = Append(queue, "done")
    /\ UNCHANGED <<scan_request, int_map, busy, aborting, suppress, timer, timeout_work, owner,
                   th, bounds, history>>
FirmwareFound ==
    /\ found < MaxFound /\ found' = found + 1 /\ queue' = Append(queue, "found")
    /\ UNCHANGED <<scan_request, int_map, busy, aborting, suppress, timer, timeout_work, owner, fw,
                   th, unused, aborts, fails, history>>

Next ==
    \/ \E t \in Threads : Complete(t) \/ Unabort(t)
    \/ \E critical \in BOOLEAN : UserAbort(critical)
    \/ ScanStart \/ UserComplete \/ Suspend \/ CritStop \/ UserGoesOn
    \/ EventGoesOn \/ Timeout \/ TimeoutWorker \/ FirmwareDone \/ FirmwareFound

Spec == Init /\ [][Next]_vars

-----------------------------------------------------------------------------
\* Types, and a thread is only in the steps of its own operations.
TypeOK ==
    /\ scan_request \in Requests \cup {None} /\ owner \in Requests \cup {None}
    /\ fw \in Requests \cup {None, "internal"}
    /\ \A b \in {int_map, busy, aborting, suppress, timer, timeout_work} : b \in BOOLEAN
    /\ \A t \in Threads : th[t].at \in ScanSteps \cup CompleteSteps \cup OtherSteps
    /\ th["work"].at \in CompleteSteps \cup {"idle"}

\* brcmf_notify_escan_complete reports a request to cfg80211 once, unless two
\* threads read it before one cleared it, or a completion met the start of the
\* scan.
ReportedOnce == twice => raced \/ crossed

\* A request of brcmf_cfg80211_scan that cfg80211 waits for can still end,
\* whatever became of the firmware's events: it is recorded, with the timer
\* armed, the work queued or a thread about to take it, or a thread has taken
\* it and will report it.
\* Exceptions: the start of the scan met a completion, which may forget the
\* new request or stop its timer; an internal scan was recorded meanwhile
\* (after its abort, which saw nothing to abort), and takes precedence.
Guarded ==
    owner # None =>
        \/ Scanning \/ crossed \/ mixed
        \/ scan_request = owner /\ (timer \/ timeout_work \/ \E t \in Threads : th[t].at \in {"take", "clear"})
        \/ \E t \in Completing : th[t].req = owner
=============================================================================
