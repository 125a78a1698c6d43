---------------------------- MODULE BrcmConnect ----------------------------
(***************************************************************************)
(* Connecting a station, or joining an ad-hoc network, in the Wi-Fi        *)
(* driver (cfg80211.c): the user's calls configure the firmware with one   *)
(* command after another and ask it to join; the firmware answers with     *)
(* events that the event worker handles.  Driver, cfg80211 and firmware    *)
(* each have their own idea of the connection.  The calls hold a lock the  *)
(* worker does not take.                                                   *)
(***************************************************************************)
EXTENDS Naturals, Sequences, FiniteSets

CONSTANTS Aps,        \* access points, or cells of an ad-hoc network
          NoAp,
          Requests,   \* what the user may ask a connection to use
          Bounds      \* of calls, refused commands and unasked events

VARIABLES mode,   \* type of the interface: "sta" or "ibss"
          vif,    \* sme_state and profile of the interface, and its carrier
          sme,    \* cfg80211's state: "idle", "connecting", "connected"
          fw,     \* the firmware's connection
          evq,    \* events that the worker has not taken
          user,   \* call under way
          wk,     \* event being handled
          used,   \* what the bounds have left
          late    \* an event of before the current call changed something

cVars == <<mode, vif, sme, fw, evq, user, wk, used, late>>

Sups == {"none", "psk", "sae", "1x"}
FwSups == {"psk", "sae"}     \* the firmware does the handshake, and says so

NoProf == [bssid |-> NoAp, sup |-> "none"]
Idle == [at |-> "idle"]

ConnectType ==
    /\ mode \in {"sta", "ibss"}
    /\ vif.bits \subseteq {"READY", "CONNECTING", "CONNECTED", "EAP", "ASSOC"}
    /\ vif.prof \in [bssid : Aps \cup {NoAp}, sup : Sups]
    /\ {vif.carrier, vif.open, late} \subseteq BOOLEAN /\ vif.ies \in Aps \cup {NoAp}
    /\ sme \in {"idle", "connecting", "connected"}
    /\ fw.on \in Aps \cup {NoAp} /\ fw.sup \in Sups
    /\ {fw.joining, fw.done, fw.pmk, fw.up, fw.kept} \subseteq BOOLEAN

ConnectInit ==
    /\ mode \in {"sta", "ibss"}
    /\ vif = [bits |-> {}, prof |-> NoProf, carrier |-> FALSE, open |-> FALSE,
              ies |-> NoAp]
    /\ sme = "idle"
    /\ fw = [on |-> NoAp, joining |-> FALSE, sup |-> "none", done |-> FALSE,
             pmk |-> FALSE, up |-> FALSE, kept |-> FALSE, no |-> 0]
    /\ evq = << >> /\ user = Idle /\ wk = Idle
    /\ used = [calls |-> 0, fails |-> 0, odd |-> 0]
    /\ late = FALSE

-----------------------------------------------------------------------------
(* A command to the firmware works, or is refused.                          *)
Works == used' = used
Refused == used.fails < Bounds.fails /\ used' = [used EXCEPT !.fails = @ + 1]

Set(S)   == [vif EXCEPT !.bits = @ \cup S]
Clear(S) == [vif EXCEPT !.bits = @ \ S]
Has(b)   == b \in vif.bits

\* A call of the user begins.
Called == /\ user.at = "idle" /\ used.calls < Bounds.calls
          /\ used' = [used EXCEPT !.calls = @ + 1]

\* An event of the firmware, with the number of the call whose join or
\* disassociation it belongs to.
Ev(e, ok, addr) == [no |-> fw'.no, e |-> e, ok |-> ok, addr |-> addr]
Send(es) == evq' = evq \o es

\* WLC_DISASSOC: the firmware gives the connection up, and may report that.
Disassoc ==
    \/ /\ Works
       /\ fw' = [fw EXCEPT !.on = NoAp, !.joining = FALSE, !.done = FALSE,
                            !.no = used.calls]
       /\ \/ evq' = evq
          \/ fw.on # NoAp /\ Send(<<Ev("LINK", FALSE, fw.on)>>)
    \/ Refused /\ fw' = [fw EXCEPT !.kept = TRUE] /\ UNCHANGED evq

-----------------------------------------------------------------------------
(* What a request asks for, as the firmware is told.                        *)
\* wpa_auth after the version is known.
SetWpaVersion(r) ==
    CASE r.wpa = 1 -> {"WPA_PSK", "WPA_UNSPECIFIED"}
      [] r.wpa = 2 -> {"WPA2_PSK", "WPA2_UNSPECIFIED"}
      [] r.wpa = 3 -> {"SAE_PSK"}
      [] OTHER     -> {}

\* Ciphers the driver can set, and what wsec becomes.
Wsec == [none |-> {}, wep |-> {"WEP"}, tkip |-> {"TKIP"}, ccmp |-> {"AES"}, cmac |-> {"AES"}]
SetWsecMode(r) == r.pair \in DOMAIN Wsec /\ r.group \in DOMAIN Wsec

\* The key management suite must fit the version; suites for which the
\* firmware may do the handshake, when it is given what that needs.
Akms(auth) ==
    CASE auth \cap {"WPA_PSK", "WPA_UNSPECIFIED"} # {}   -> {"1x", "psk"}
      [] auth \cap {"WPA2_PSK", "WPA2_UNSPECIFIED"} # {} -> {"1x", "1x256", "psk", "psk256", "ft1x", "ftpsk"}
      [] "SAE_PSK" \in auth                              -> {"sae", "ftsae"}
      [] OTHER                                           -> {"1x", "1x256", "psk", "psk256", "ft1x", "ftpsk", "sae", "ftsae"}

SetKeyMgmt(r) ==
    LET auth == SetWpaVersion(r) IN
    IF r.akm = "none" THEN [ok |-> TRUE, sup |-> "none"]
    ELSE [ok  |-> r.akm \in Akms(auth),
          sup |-> IF r.akm \in {"1x", "1x256", "ft1x"} /\ r.want1x THEN "1x"
                  ELSE IF "SAE_PSK" \in auth /\ r.akm \in Akms(auth) /\ r.pwd THEN "sae" ELSE "none"]

\* A WEP key is looked at only without WPA, and is then an error with another
\* pairwise cipher; sending it is one more command that can be refused.
SetSharedKey(r) == r.wep /\ r.wpa = 0 => r.pair \in {"none", "wep"}

-----------------------------------------------------------------------------
(* Connect: from the call to the first command.                             *)
ConnectBegins ==
    /\ mode = "sta" /\ sme = "idle" /\ vif.open /\ Called /\ Has("READY")
    /\ \E r \in Requests : user' = [at |-> "set", r |-> r]
    /\ sme' = "connecting"
    /\ vif' = Set({"CONNECTING"})
    /\ UNCHANGED <<mode, fw, evq, wk, late>>

\* A call that fails: cfg80211 hears of it by the result.
ConnectFails(v) ==
    /\ vif' = [v EXCEPT !.bits = @ \ {"CONNECTING"}]
    /\ sme' = "idle" /\ user' = Idle
    /\ UNCHANGED <<mode, evq, wk, late>>

\* Version, authentication type, ciphers, key management, shared key.
ConnectSets ==
    /\ user.at = "set"
    /\ LET k == SetKeyMgmt(user.r)
           v == [vif EXCEPT !.prof.sup = k.sup] IN
       \/ Refused /\ fw' = fw /\ (ConnectFails(vif) \/ ConnectFails(v))
       \/ ~SetWsecMode(user.r) /\ Works /\ fw' = fw /\ ConnectFails(vif)
       \/ SetWsecMode(user.r) /\ ~(k.ok /\ SetSharedKey(user.r)) /\ Works /\ fw' = fw /\ ConnectFails(v)
       \/ /\ SetWsecMode(user.r) /\ k.ok /\ SetSharedKey(user.r)
          /\ Works
          /\ vif' = v /\ user' = [user EXCEPT !.at = "sup"]
          /\ UNCHANGED <<mode, sme, fw, evq, wk, late>>

\* The handshake is given to the firmware, with the key it needs.
ConnectSup ==
    /\ user.at = "sup"
    /\ LET psk == user.r.psk /\ vif.prof.sup # "sae"
           sup == IF psk THEN "psk" ELSE vif.prof.sup
           v   == [vif EXCEPT !.prof.sup = sup] IN
       \/ psk /\ vif.prof.sup # "none" /\ Works /\ fw' = fw /\ ConnectFails(vif)
       \/ sup # "none" /\ Refused /\ fw' = fw /\ ConnectFails(v)
       \/ /\ psk => vif.prof.sup = "none"
          /\ Works
          /\ fw' = [fw EXCEPT !.pmk = @ \/ sup \in FwSups]
          /\ vif' = v /\ user' = [user EXCEPT !.at = "join"]
          /\ UNCHANGED <<mode, sme, evq, wk, late>>

\* join, or where that is refused SET_SSID.
Joined == fw' = [fw EXCEPT !.joining = TRUE, !.on = NoAp, !.done = FALSE,
                           !.sup = vif.prof.sup, !.no = used.calls]
ConnectJoins ==
    /\ user.at = "join"
    /\ \/ (Works \/ Refused) /\ Joined /\ user' = Idle /\ UNCHANGED <<mode, vif, sme, evq, wk, late>>
       \/ Refused /\ fw' = fw /\ ConnectFails(vif)     \* both

\* Disconnect: the bits, the report, then the command; the carrier is left.
DisconnectBegins ==
    /\ mode = "sta" /\ sme # "idle" /\ vif.open /\ Called /\ Has("READY")
    /\ vif' = Clear({"CONNECTED", "CONNECTING", "EAP", "ASSOC"})
    /\ sme' = "idle" /\ user' = [at |-> "disassoc"]
    /\ UNCHANGED <<mode, fw, evq, wk, late>>

DisconnectSends ==
    /\ user.at = "disassoc" /\ Disassoc /\ user' = Idle
    /\ UNCHANGED <<mode, vif, sme, wk, late>>

-----------------------------------------------------------------------------
(* brcmf_link_down in two halves: what it does to a connection, and what it *)
(* does to the firmware's supplicant.                                       *)
LinkDown ==
    /\ IF Has("CONNECTED") THEN Disassoc /\ sme' = (IF mode = "sta" THEN "idle" ELSE sme)
       ELSE UNCHANGED <<fw, evq, sme, used>>
    /\ vif' = Clear({"CONNECTED", "CONNECTING", "EAP", "ASSOC"})

SupDown(v) == [v EXCEPT !.prof.sup = "none"]
PmkDown == fw' = [fw EXCEPT !.pmk = @ /\ vif.prof.sup = "none"]

\* An ad-hoc network: wsec, beacon period, channel, then SET_SSID.
JoinIbss ==
    /\ mode = "ibss" /\ sme = "idle" /\ vif.open /\ Called /\ Has("READY")
    /\ \E b \in Aps \cup {NoAp} :
         user' = [at |-> "ibss", bssid |-> b]
    /\ sme' = "connecting" /\ vif' = Set({"CONNECTING"})
    /\ UNCHANGED <<mode, fw, evq, wk, late>>

JoinIbssSets ==
    /\ user.at = "ibss"
    /\ LET v == [vif EXCEPT !.prof.bssid = user.bssid] IN
       \/ Refused /\ fw' = fw /\ (ConnectFails(vif) \/ ConnectFails(v))
       \/ Works /\ Joined /\ vif' = v /\ user' = Idle /\ UNCHANGED <<mode, sme, evq, wk, late>>

LeaveIbss ==
    /\ mode = "ibss" /\ sme # "idle" /\ vif.open /\ Called /\ Has("READY")
    /\ user' = [at |-> "leave"]
    /\ UNCHANGED <<mode, vif, sme, fw, evq, wk, late>>

LeaveIbssDown ==
    /\ user.at = "leave"
    /\ IF Has("CONNECTED") THEN Disassoc ELSE UNCHANGED <<fw, evq, used>>
    /\ vif' = [SupDown(Clear({"CONNECTED", "CONNECTING", "EAP", "ASSOC"})) EXCEPT !.carrier = FALSE]
    /\ sme' = "idle" /\ user' = Idle
    /\ UNCHANGED <<mode, wk, late>>

\* The interface is opened: the firmware is configured, once.  Where that
\* fails READY stays behind on an interface that is not open.
ConfigDongle == IF fw.up THEN {TRUE} ELSE BOOLEAN
Up ==
    /\ ~vif.open /\ Called
    /\ \E ok \in ConfigDongle :
         /\ vif' = IF ok THEN [Set({"READY"}) EXCEPT !.carrier = FALSE, !.open = TRUE] ELSE Set({"READY"})
         /\ fw' = [fw EXCEPT !.up = ok]
    /\ UNCHANGED <<mode, sme, evq, user, wk, late>>

\* ... and closed, which cfg80211 allows once it has no connection.
Down ==
    /\ vif.open /\ sme = "idle" /\ Called
    /\ user' = [at |-> "down"]
    /\ UNCHANGED <<mode, vif, sme, fw, evq, wk, late>>

DownLink ==
    /\ user.at = "down" /\ LinkDown
    /\ user' = [at |-> "closed"]
    /\ UNCHANGED <<mode, wk, late>>

DownClosed ==
    /\ user.at = "closed"
    /\ PmkDown
    /\ vif' = [SupDown(Clear({"READY"})) EXCEPT !.carrier = FALSE, !.open = FALSE]
    /\ user' = Idle
    /\ UNCHANGED <<mode, sme, evq, wk, used, late>>

-----------------------------------------------------------------------------
(* The event worker.                                                        *)
Stale(e) == late' = (late \/ (e.no # used.calls /\ (vif' # vif \/ sme' # sme \/ fw' # fw)))

IsLinkdown(e) == e.e \in {"DEAUTH", "DEAUTH_IND", "DISASSOC_IND"} \/ (e.e \in {"LINK", "NONET"} /\ ~e.ok)

\* The interface as is_linkup leaves it, and whether that is a link.
IsLinkup(e) ==
    LET p  == IF e.e = "SET_SSID" /\ e.ok THEN [vif.prof EXCEPT !.bssid = e.addr] ELSE vif.prof
        b  == vif.bits \cup (IF vif.prof.sup \in FwSups /\ e.e = "PSK_SUP" /\ e.ok THEN {"EAP"} ELSE {})
                       \cup (IF vif.prof.sup \in FwSups /\ e.e = "SET_SSID" /\ e.ok THEN {"ASSOC"} ELSE {})
        plain == e.e = "SET_SSID" /\ e.ok /\ vif.prof.sup \notin FwSups
        both  == ~plain /\ {"EAP", "ASSOC"} \subseteq b
    IN  [up |-> plain \/ both,
         v  |-> [vif EXCEPT !.prof = p, !.bits = IF both THEN b \ {"EAP", "ASSOC"} ELSE b]]

IsNonetwork(e) == (e.e = "NONET") \/ (e.e \in {"SET_SSID", "PSK_SUP"} /\ ~e.ok)

\* Failure of a connect that is being waited for.
ConnectDoneFalse(v) ==
    IF "CONNECTING" \in v.bits
    THEN /\ vif' = [v EXCEPT !.bits = @ \ {"CONNECTING", "EAP", "ASSOC"}]
         /\ sme' = IF sme = "connecting" THEN "idle" ELSE sme
    ELSE vif' = v /\ sme' = sme

Take == wk.at = "idle" /\ evq # << >>

\* Association information of whatever the firmware is connected to now.
GetAssocIes == {NoAp, fw.on}

\* A link: whether a connect waits for it is asked first, and what is
\* reported is fetched from the firmware before it is reported.
NotifyLinkup ==
    /\ Take
    /\ LET e == Head(evq)  u == IsLinkup(e) IN
       /\ e.e # "ROAM" /\ u.up
       /\ evq' = Tail(evq)
       /\ IF mode = "ibss"
          THEN /\ vif' = [u.v EXCEPT !.prof.bssid = e.addr, !.carrier = TRUE,
                                     !.bits = (@ \ {"CONNECTING"}) \cup {"CONNECTED"}]
               /\ sme' = IF sme = "connecting" THEN "connected" ELSE sme
               /\ wk' = wk
          ELSE /\ vif' = [u.v EXCEPT !.bits = @ \ {"CONNECTING"}]
               /\ wk' = [at |-> IF "CONNECTING" \in u.v.bits THEN "report" ELSE "carrier", e |-> e]
               /\ sme' = sme
       /\ UNCHANGED <<fw, used, mode, user>>
       /\ Stale(e)

ConnectReports ==
    /\ wk.at = "report"
    /\ \E i \in GetAssocIes : vif' = [Set({"CONNECTED"}) EXCEPT !.ies = i]
    /\ sme' = IF sme = "connecting" THEN "connected" ELSE sme
    /\ wk' = [wk EXCEPT !.at = "carrier"]
    /\ UNCHANGED <<mode, fw, evq, user, used>>
    /\ Stale(wk.e)

CarrierOn ==
    /\ wk.at = "carrier"
    /\ vif' = [vif EXCEPT !.carrier = TRUE]
    /\ wk' = Idle
    /\ UNCHANGED <<mode, sme, fw, evq, user, used>>
    /\ Stale(wk.e)

\* A link down of another access point than the one connected to is not ours.
Ours(e) == ~Has("CONNECTED") \/ vif.prof.bssid = e.addr

NotifyLinkdown ==
    /\ Take
    /\ LET e == Head(evq)  v == [vif EXCEPT !.bits = @ \ {"EAP", "ASSOC"}] IN
       /\ IsLinkdown(e)
       /\ evq' = Tail(evq)
       /\ IF mode = "sta" /\ (Has("CONNECTED") \/ Has("CONNECTING")) /\ Ours(e)
          THEN ConnectDoneFalse(v) /\ wk' = [at |-> "down", e |-> e]
          ELSE vif' = v /\ sme' = sme /\ wk' = wk
       /\ UNCHANGED <<mode, fw, user, used>>
       /\ Stale(e)

LinkDowns ==
    /\ wk.at = "down" /\ LinkDown
    /\ wk' = [wk EXCEPT !.at = "clean"]
    /\ UNCHANGED <<mode, user>>
    /\ Stale(wk.e)

\* The rest of link_down, a profile without memory, and no carrier.
LinkCleans ==
    /\ wk.at = "clean"
    /\ PmkDown
    /\ vif' = [vif EXCEPT !.prof = NoProf, !.carrier = FALSE]
    /\ wk' = Idle
    /\ UNCHANGED <<mode, sme, evq, user, used>>
    /\ Stale(wk.e)

MutBssConnectDone(e, v) ==
    IF mode = "ibss" THEN vif' = [v EXCEPT !.bits = @ \ {"CONNECTING"}] /\ sme' = sme
    ELSE IF "CONNECTING" \in v.bits
    THEN /\ vif' = [v EXCEPT !.bits = @ \ {"CONNECTING"}]
         /\ sme' = IF sme = "connecting" THEN "idle" ELSE sme
    ELSE vif' = v /\ sme' = sme

\* No network, or a failed handshake.
BssConnectDone(e, v) ==
    IF mode = "ibss" THEN vif' = [v EXCEPT !.bits = @ \ {"CONNECTING"}] /\ sme' = sme
    ELSE ConnectDoneFalse(v)

NotifyOther ==
    /\ Take
    /\ LET e == Head(evq)  u == IsLinkup(e) IN
       /\ e.e # "ROAM" /\ ~u.up /\ ~IsLinkdown(e)
       /\ evq' = Tail(evq)
       /\ IF IsNonetwork(e) THEN BssConnectDone(e, u.v) ELSE vif' = u.v /\ sme' = sme
       /\ UNCHANGED <<mode, fw, user, wk, used>>
       /\ Stale(e)

\* Roamed: the new access point now, CONNECTED after the firmware was asked.
NotifyRoaming ==
    /\ Take
    /\ LET e == Head(evq) IN
       /\ e.e = "ROAM"
       /\ evq' = Tail(evq)
       /\ IF Has("CONNECTED")
          THEN /\ vif' = [vif EXCEPT !.prof.bssid = e.addr]
               /\ wk' = [at |-> "roamed", e |-> e]
          ELSE /\ vif' = Clear({"CONNECTING"})
               /\ wk' = [at |-> IF Has("CONNECTING") THEN "report" ELSE "carrier", e |-> e]
       /\ UNCHANGED <<mode, sme, fw, user, used>>
       /\ Stale(e)

RoamingDone ==
    /\ wk.at = "roamed"
    /\ \E i \in GetAssocIes : vif' = [Set({"CONNECTED"}) EXCEPT !.ies = i]
    /\ wk' = Idle
    /\ UNCHANGED <<mode, sme, fw, evq, user, used>>
    /\ Stale(wk.e)

-----------------------------------------------------------------------------
(* The firmware, external.                                                  *)
FirmJoins ==
    /\ fw.joining /\ \E a \in Aps :
         LET ok == Ev("SET_SSID", TRUE, a)  sup == Ev("PSK_SUP", TRUE, a) IN
         \/ /\ fw' = [fw EXCEPT !.on = a, !.joining = FALSE, !.done = fw.sup \in FwSups]
            /\ IF mode = "sta" /\ fw.sup \in FwSups
               THEN Send(<<ok, sup>>) \/ Send(<<sup, ok>>)
               ELSE Send(<<ok>>)
         \/ /\ mode = "sta" /\ fw.sup \in FwSups
            /\ fw' = [fw EXCEPT !.joining = FALSE]
            /\ Send(<<ok, Ev("PSK_SUP", FALSE, a)>>)
    /\ UNCHANGED <<mode, vif, sme, user, wk, used, late>>

FirmFails ==
    /\ fw.joining
    /\ fw' = [fw EXCEPT !.joining = FALSE]
    /\ \/ Send(<<Ev("SET_SSID", FALSE, NoAp)>>)
       \/ \E up \in BOOLEAN : Send(<<Ev("NONET", up, NoAp)>>)
    /\ UNCHANGED <<mode, vif, sme, user, wk, used, late>>

Unasked == used.odd < Bounds.odd /\ used' = [used EXCEPT !.odd = @ + 1]

\* The connection ends: by a frame of the access point, and a link event.
FirmLoses ==
    /\ fw.on # NoAp /\ Unasked
    /\ fw' = [fw EXCEPT !.on = NoAp, !.done = FALSE]
    /\ \/ Send(<<Ev("LINK", FALSE, fw.on)>>)
       \/ \E k \in {"DEAUTH", "DEAUTH_IND", "DISASSOC_IND"} :
            \/ Send(<<Ev(k, FALSE, fw.on)>>)
            \/ Send(<<Ev(k, FALSE, fw.on), Ev("LINK", FALSE, fw.on)>>)
    /\ UNCHANGED <<mode, vif, sme, user, wk, late>>

\* It moves to another access point; the one it left may still say goodbye.
FirmRoams ==
    /\ mode = "sta" /\ fw.on # NoAp /\ Unasked
    /\ \E a \in Aps \ {fw.on} :
         /\ fw' = [fw EXCEPT !.on = a]
         /\ \/ Send(<<Ev("ROAM", TRUE, a)>>)
            \/ Send(<<Ev("ROAM", TRUE, a), Ev("DEAUTH_IND", FALSE, fw.on)>>)
    /\ UNCHANGED <<mode, vif, sme, user, wk, late>>

-----------------------------------------------------------------------------
ConnectNext ==
    \/ ConnectBegins \/ ConnectSets \/ ConnectSup \/ ConnectJoins
    \/ DisconnectBegins \/ DisconnectSends
    \/ JoinIbss \/ JoinIbssSets \/ LeaveIbss \/ LeaveIbssDown
    \/ Up \/ Down \/ DownLink \/ DownClosed
    \/ NotifyLinkup \/ ConnectReports \/ CarrierOn \/ NotifyLinkdown \/ LinkDowns
    \/ LinkCleans \/ NotifyOther \/ NotifyRoaming \/ RoamingDone
    \/ FirmJoins \/ FirmFails \/ FirmLoses \/ FirmRoams

ConnectSpec == ConnectInit /\ [][ConnectNext]_cVars

-----------------------------------------------------------------------------
Quiet == user.at = "idle" /\ wk.at = "idle" /\ evq = << >> /\ ~fw.joining

\* When nothing is under way a connect was answered, and driver, cfg80211 and
\* firmware agree on whether there is a connection and with whom
\* (brcmf_notify_connect_status, brcmf_link_down), unless an event of before
\* the current call was applied or the firmware refused to disassociate.
ConnectAgrees ==
    Quiet /\ ~late /\ ~fw.kept =>
        /\ mode = "sta" =>
             /\ vif.bits \cap {"CONNECTING", "EAP", "ASSOC"} = {}
             /\ sme = (IF Has("CONNECTED") THEN "connected" ELSE "idle")
             /\ Has("CONNECTED") => fw.on = vif.prof.bssid /\ vif.carrier
        /\ fw.on # NoAp => Has("CONNECTED")

\* A connection the firmware secures is reported only when its handshake is
\* done (brcmf_is_linkup).
HandshakeDone ==
    Has("CONNECTED") /\ ~late /\ fw.on # NoAp /\ fw.sup \in FwSups => fw.done

\* The driver ends only connections that the firmware has lost
\* (brcmf_notify_connect_status).
KeepsLink ==
    wk.at = "down" /\ ~late /\ Has("CONNECTED") => fw.on # vif.prof.bssid
=============================================================================
