---------------------------- MODULE MCBrcmControl ----------------------------
(***************************************************************************)
(* The parts of the Wi-Fi driver's control path for one run of TLC: scans, *)
(* virtual interfaces, a connection, access points, scheduled scans, and   *)
(* coexistence with Bluetooth.  They meet in the driver only where one     *)
(* ends a scan or a link, which is an operation of the module that has the *)
(* scan or the link.  The part chosen in the initial state is the one that *)
(* takes steps, so the states are the sum of the parts' and not their      *)
(* product.                                                                *)
(***************************************************************************)
EXTENDS BrcmVif
LOCAL INSTANCE TLC

CONSTANTS Requests, None, MaxAborts, MaxFound, MaxFails,       \* of BrcmScan
          Aps, NoAp, ConnectRequests, ConnectBounds,           \* of BrcmConnect
          Settings, Elements, IeLimit, IeBuf, KeyIdx, ApBound, \* of BrcmAp
          Scans, NetDetect, MaxBuckets, MaxChans, MinPeriod, PnoBound,   \* of BrcmPno
          Sessions, CoexFaults                                 \* of BrcmBtcoex

ASSUME NoneAssumption == None \notin Requests

VARIABLES part,
    scan_request, int_map, busy, aborting, suppress, timer, timeout_work, owner, fw, sQueue,
    th, unused, aborts, found, sFails, twice, raced, crossed, mixed,
    mode, cVif, sme, cFw, evq, cUser, cWk, used, cLate,
    role, ap, up, dev, odd, spent,
    reqs, job, pfn, hit, escan, asleep, log,
    bt, par, bArmed, queued, hd, us, crit, hist

S == INSTANCE BrcmScan WITH queue <- sQueue, fails <- sFails
C == INSTANCE BrcmConnect WITH
        Requests <- ConnectRequests, Bounds <- ConnectBounds,
        vif <- cVif, fw <- cFw, user <- cUser, wk <- cWk, late <- cLate
A == INSTANCE BrcmAp
P == INSTANCE BrcmPno
B == INSTANCE BrcmBtcoex WITH armed <- bArmed

sVars == <<scan_request, int_map, busy, aborting, suppress, timer, timeout_work, owner, fw, sQueue,
           th, unused, aborts, found, sFails, twice, raced, crossed, mixed>>
cVars == <<mode, cVif, sme, cFw, evq, cUser, cWk, used, cLate>>
aVars == <<role, ap, up, dev, odd, spent>>
pVars == <<reqs, job, pfn, hit, escan, asleep, log>>
bVars == <<bt, par, bArmed, queued, hd, us, crit, hist>>

\* One initial state of the parts that take no steps.
ControlInit ==
    /\ part \in {"scan", "vif", "connect", "ap", "pno", "coex"}
    /\ S!Init /\ Init /\ C!ConnectInit /\ A!ApInit /\ P!PnoInit /\ B!BtInit
    /\ part # "vif" => ~old
    /\ part # "connect" => mode = "sta"
    /\ role = "ap" => dev.mfp
    /\ part # "ap" => role = "ap"

\* Nothing is promised of scanning once the start of a scan met a completion,
\* or two threads met in one and an internal scan was recorded over it.
ScanStep    == part = "scan" /\ ~crossed /\ ~(raced /\ mixed) /\ S!Next /\ UNCHANGED <<part, vars, cVars, aVars, pVars, bVars>>
VifStep     == part = "vif" /\ Next /\ UNCHANGED <<part, sVars, cVars, aVars, pVars, bVars>>
ConnectStep == part = "connect" /\ C!ConnectNext /\ UNCHANGED <<part, sVars, vars, aVars, pVars, bVars>>
ApStep      == part = "ap" /\ A!ApNext /\ UNCHANGED <<part, sVars, vars, cVars, pVars, bVars>>
PnoStep     == part = "pno" /\ P!PnoNext /\ UNCHANGED <<part, sVars, vars, cVars, aVars, bVars>>
CoexStep    == part = "coex" /\ B!BtNext /\ UNCHANGED <<part, sVars, vars, cVars, aVars, pVars>>

ControlNext == ScanStep \/ VifStep \/ ConnectStep \/ ApStep \/ PnoStep \/ CoexStep
ControlSpec ==
    ControlInit /\ [][ControlNext]_<<part, sVars, vars, cVars, aVars, pVars, bVars>>

-----------------------------------------------------------------------------
\* A scan is reported to cfg80211 once, and until then something is left that
\* ends it, but in the races named there (brcmf_notify_escan_complete).
ScanEnds == part = "scan" => S!ReportedOnce /\ S!Guarded

(***************************************************************************)
(* Driver, firmware and cfg80211 agree on the connection when nothing is   *)
(* under way, one that needs a handshake is reported after it, and events  *)
(* of an access point that was left do not take down the link there is     *)
(* (brcmf_bss_connect_done, brcmf_notify_connect_status).                  *)
(***************************************************************************)
ConnectAgrees == part = "connect" => C!ConnectType /\ C!ConnectAgrees /\ C!HandshakeDone /\ C!KeepsLink

(***************************************************************************)
(* Starts and stops of access points, failed ones included, put power      *)
(* saving and the offload back, and one that runs keeps the radio and AP   *)
(* mode; the firmware has the protection, the WEP keys, the keys and the   *)
(* vendor elements that the driver believes it has, but where named there  *)
(* (brcmf_cfg80211_start_ap, brcmf_cfg80211_add_key,                       *)
(* brcmf_vif_set_mgmt_ie).                                                 *)
(***************************************************************************)
ApFollows ==
    part = "ap" => A!ApType /\ A!ApPower /\ A!ApSecured /\ A!WepBack /\ A!KeyKnown /\ A!IesFollow

\* The firmware's offload is that of the requests there are, and a hit is
\* reported to the request it belongs to (brcmf_pno_config_sched_scans).
PnoRight == part = "pno" => P!PnoRight

\* When a session is over the firmware has its own parameters back, but for a
\* group it refused to tell or to take (brcmf_btcoex_handler,
\* brcmf_btcoex_dhcp_end).
CoexBack == part = "coex" => B!CoexBack

-----------------------------------------------------------------------------
\* What a user asks of a connection: WPA2 with a passphrase, 802.1X with and
\* without one, a cipher there is not, WEP, SAE.
Want(w, a, c, p, d, x) ==
    [wpa |-> w, akm |-> a, pair |-> c, group |-> c, psk |-> p, pwd |-> d, want1x |-> x,
     wep |-> w = 0]
MCConnectRequests ==
    {Want(2, "psk", "ccmp", TRUE, FALSE, FALSE), Want(2, "ft1x", "ccmp", FALSE, FALSE, TRUE),
     Want(2, "1x", "ccmp", TRUE, FALSE, TRUE), Want(0, "none", "gcmp", FALSE, FALSE, FALSE),
     Want(0, "none", "wep", FALSE, FALSE, FALSE), Want(0, "none", "tkip", FALSE, FALSE, FALSE),
     Want(2, "sae", "ccmp", FALSE, TRUE, FALSE)}
MCConnectBounds == [calls |-> 4, fails |-> 1, odd |-> 1]

\* An open access point, one with SAE and 802.11d, one that needs protected
\* management frames.
Rsn(g, p, a, m) ==
    [open |-> FALSE, rsn |-> TRUE, group |-> g, pairs |-> p, akms |-> a, mfp |-> m,
     bip |-> m # "none", whole |-> TRUE]
NoRsn == [open |-> TRUE, rsn |-> FALSE, group |-> "none", pairs |-> {}, akms |-> {},
          mfp |-> "none", bip |-> FALSE, whole |-> TRUE]
MCSettings ==
    {[ie |-> NoRsn, psk |-> FALSE, sae |-> FALSE, d11 |-> FALSE],
     [ie |-> Rsn("ccmp", {"ccmp"}, {"psk256"}, "required"), psk |-> TRUE, sae |-> TRUE, d11 |-> TRUE],
     [ie |-> Rsn("ccmp", {"ccmp"}, {"psk"}, "required"), psk |-> FALSE, sae |-> FALSE, d11 |-> FALSE]}
\* More vendor elements than are parsed, and a WPA element among them.
Element(k, i, l) == [kind |-> k, id |-> i, len |-> l]
MCElements == {<<Element("vendor", 1, 6), Element("wpa", 2, 20)>>,
               <<Element("vendor", 3, 6), Element("vendor", 1, 6), Element("vendor", 4, 6)>>}
MCApBound == [calls |-> 4, refused |-> 1]

\* Three requests for two buckets; two share a channel, one asks for a random address.
Search(i, e, c, k, h, r) ==
    [id |-> i, every |-> e, chans |-> c, nets |-> k, hidden |-> h, random |-> r]
MCScans == {Search(0, 30, <<1>>, <<"n1">>, {}, FALSE),
            Search(1, 20, <<1, 6>>, <<"n1", "n2">>, {"n2"}, TRUE),
            Search(2, 15, <<11, 6>>, <<"n2">>, {}, FALSE)}
MCNetDetect == Search(0, 5, <<6>>, <<"n2">>, {"n2"}, FALSE)
MCPnoBound == [calls |-> 4, refused |-> 1, hits |-> 2]

\* No access point is told from another but by what happened to it.
ApSymmetry == Permutations(Aps)
=============================================================================
