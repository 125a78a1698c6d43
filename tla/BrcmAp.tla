------------------------------- MODULE BrcmAp -------------------------------
(***************************************************************************)
(* Access point mode of the Wi-Fi driver (cfg80211.c): starting, changing  *)
(* and stopping an access point, or a P2P group, its keys and the vendor   *)
(* elements of its frames.  Every operation is a sequence of commands,     *)
(* each of which the firmware may refuse; the operations are serialised by *)
(* cfg80211's lock, so one is one step that says which command, if any, is *)
(* refused.                                                                *)
(***************************************************************************)
EXTENDS Naturals, Sequences, FiniteSets
LOCAL INSTANCE SequencesExt

CONSTANTS Settings,   \* what an access point may be started with
          Elements,   \* lists of elements of a beacon
          IeLimit,    \* VNDR_IE_PARSE_LIMIT
          IeBuf,      \* size of the buffer of saved elements
          KeyIdx,     \* indices of keys
          ApBound     \* operations, and refused commands

VARIABLES role,     \* interfaces: an access point and a second one, or a group
          ap,       \* the driver's state of each interface
          up,       \* interfaces that cfg80211 takes for started
          dev,      \* the firmware; mfp: it has the feature FEAT_MFP
          odd,      \* departures that a property allows for
          spent

aVars == <<role, ap, up, dev, odd, spent>>

Packets == {"beacon", "prbrsp", "assocrsp"}
Algs == {"wep", "ccmp"}

\* ap: the usual access point; mbss: one beside it; go: owner of a P2P group.
Vifs == IF role = "go" THEN {"go"} ELSE {"ap", "mbss"}

NewVif == [created |-> FALSE, carrier |-> FALSE, fwauth |-> {}, asked |-> {},
           keys |-> [k \in KeyIdx |-> "off"], saved |-> [p \in Packets |-> << >>]]
NewBss == [on |-> FALSE, wsec |-> {}, auth |-> {}, pmk |-> FALSE,
           keys |-> [k \in KeyIdx |-> "off"], ies |-> [p \in Packets |-> << >>]]

ApInit ==
    /\ role \in {"ap", "go"}
    /\ ap = [v \in Vifs |-> NewVif]
    /\ up = {}
    /\ dev \in [mpc : {TRUE}, arp : {TRUE}, radio : {TRUE}, apmode : {FALSE},
               mfp : BOOLEAN, bss : {[v \in Vifs |-> NewBss]}]
    /\ odd = {}
    /\ spent = [calls |-> 0, refused |-> 0]

ApType ==
    /\ up \subseteq Vifs
    /\ odd \subseteq {"mpc", "arp", "ie", "open", "key", "wep", "marked", "down"}
    /\ dev.mfp \in BOOLEAN
    /\ \A v \in Vifs : /\ ap[v].keys \in [KeyIdx -> Algs \cup {"off"}]
                       /\ dev.bss[v].keys \in [KeyIdx -> Algs \cup {"off"}]

\* An operation, and the command of it that the firmware refuses.
Operation(f) ==
    /\ spent.calls < ApBound.calls
    /\ f # "none" => spent.refused < ApBound.refused
    /\ spent' = [calls |-> spent.calls + 1,
                 refused |-> spent.refused + IF f = "none" THEN 0 ELSE 1]

-----------------------------------------------------------------------------
(* Vendor elements.  An element is [kind, id, len]; only vendor elements    *)
(* that are neither WPA nor WME, and long enough, are the driver's to set,  *)
(* and of those no more than a limit.                                       *)
ParseVndrIes(es) ==
    LET vs == SelectSeq(es, LAMBDA e : e.kind = "vendor" /\ e.len > 4)
    IN  SubSeq(vs, 1, IF Len(vs) < IeLimit THEN Len(vs) ELSE IeLimit)

\* Those for which the buffer has room, up to the first for which it has not;
\* each is charged for the header of its command too.
Header == 12
Room(es, n) ==
    LET room[i \in 1..n] == IF i = 1 THEN IeBuf ELSE room[i - 1] - (es[i - 1].len + 2 + Header)
    IN  room[n]
Fit(es) ==
    LET bad == {n \in DOMAIN es : Room(es, n) < es[n].len + Header}
    IN  SubSeq(es, 1, IF bad = {} THEN Len(es) ELSE (CHOOSE n \in bad : \A m \in bad : n <= m) - 1)

Without(es, old) == SelectSeq(es, LAMBDA e : \A i \in DOMAIN old : old[i] # e)

\* What is saved and what the firmware has after one call: nothing is sent
\* when the list is the saved one; the old elements are deleted and the new
\* ones added by one command, and saved whether or not it is obeyed.
SetMgmtIe(saved, have, es, ok) ==
    LET new == ParseVndrIes(es)  add == Fit(new)
    IN  IF saved # << >> /\ new = saved THEN [saved |-> saved, have |-> have]
        ELSE [saved |-> add, have |-> IF ok THEN Without(have, saved) \o add ELSE have]

\* Elements of the three frames of an access point.  A refusal for the
\* beacon ends it, one for another frame does not.
ConfigApMgmtIe(a, b, es, f) ==
    LET r(p) == IF f = "beacon" /\ p # "beacon" THEN [saved |-> a.saved[p], have |-> b.ies[p]]
                ELSE SetMgmtIe(a.saved[p], b.ies[p], es, f # p)
    IN  [saved |-> [p \in Packets |-> r(p).saved], have |-> [p \in Packets |-> r(p).have]]

\* When an access point ends its elements are deleted, and then forgotten even
\* if the firmware refused to delete those of frame f.
ClearMgmtIes(b, a, f) == [p \in Packets |-> SetMgmtIe(a.saved[p], b.ies[p], << >>, f # p).have]

-----------------------------------------------------------------------------
(* Security of an access point, from the WPA or RSN element of its beacon:  *)
(* the group cipher, the pairwise ciphers, the key management suites and,   *)
(* in an RSN element, the capability to protect management frames.          *)
Cipher == [none |-> {}, wep |-> {"WEP"}, tkip |-> {"TKIP"}, ccmp |-> {"AES"}]
AkmAuth(rsn) ==
    [none |-> {"NONE"}, x1 |-> {IF rsn THEN "WPA2_1X" ELSE "WPA_1X"},
     psk |-> {IF rsn THEN "WPA2_PSK" ELSE "WPA_PSK"}, psk256 |-> {"PSK256"}, x256 |-> {"1X256"},
     sae |-> {"SAE"}]
Known(f, ks) == UNION {f[k] : k \in ks \cap DOMAIN f}

\* Unknown pairwise ciphers and suites are passed over, an unknown group
\* cipher is refused, and so is required protection without a suite for it.
ConfigureWpaie(ie) ==
    LET auth == Known(AkmAuth(ie.rsn), ie.akms)
        strong == auth \cap {"PSK256", "1X256", "SAE"} # {}
        req == ie.rsn /\ ie.mfp = "required"
        also == IF ~req THEN {} ELSE IF "PSK256" \in auth THEN {"WPA2_PSK"}
                ELSE IF "1X256" \in auth THEN {"WPA2_1X"} ELSE {}
    IN  [ok   |-> ie.whole /\ ie.group \in DOMAIN Cipher /\ (req => strong),
         wsec |-> Cipher[ie.group] \cup Known(Cipher, ie.pairs) \cup {"SES_OW"},
         mfp  |-> IF ie.rsn /\ ie.mfp # "none" THEN {ie.mfp} ELSE {},
         auth |-> auth \cup also]

\* The commands that follow; bip when the element ends in a group management
\* cipher.  Protection is part of wsec in the firmware, so it has to be set after
\* it; a firmware without the feature is not asked for any.
When(c, q) == IF c THEN q ELSE << >>
WpaieSteps(ie) ==
    When(ie.rsn, <<"wme">> \o When(dev.mfp /\ ie.bip, <<"bip">>)) \o <<"auth", "wsec">>
       \o When(dev.mfp, <<"mfp">>) \o <<"wpa_auth">>
OpenSteps  == <<"open_auth", "open_wsec", "open_wpa_auth">>
ParseConfigureSecurity(s) ==
    IF s.ie.open THEN OpenSteps ELSE IF ConfigureWpaie(s.ie).ok THEN WpaieSteps(s.ie)
    ELSE <<"invalid">>

-----------------------------------------------------------------------------
(* Starting: the commands in order.                                         *)

SharedSteps(v, s) ==
    <<"mpc", "arp">> \o When(s.d11, <<"regulatory">>) \o <<"bcnprd", "dtim">>
       \o When(v = "ap", <<"down">>) \o <<"infra">>

ApSteps(v, s) ==
    <<"set_ap">> \o When(v = "ap", <<"chanspec">>) \o <<"up">>
       \o When(s.psk, <<"pmk">>) \o When(s.sae, <<"sae">>)
       \o ParseConfigureSecurity(s) \o <<"wep_key", "wep_wsec", "ssid", "closednet">>

GoSteps(s) == <<"chanspec">> \o ParseConfigureSecurity(s) \o <<"bss_ssid", "bss_enable">>

StartSteps(v, s) ==
    When(v # "mbss", SharedSteps(v, s)) \o (IF v = "go" THEN GoSteps(s) ELSE ApSteps(v, s))

\* Commands whose refusal is only logged, and what then is not sent either.
Passed == [c \in {"mpc", "arp", "open_auth", "open_wsec", "open_wpa_auth", "wep_key", "wep_wsec"} |->
             CASE c = "open_auth" -> {"open_auth", "open_wsec", "open_wpa_auth"}
               [] c = "open_wsec" -> {"open_wsec", "open_wpa_auth"}
               [] c = "wep_key"   -> {"wep_key", "wep_wsec"}
               [] OTHER           -> {c}]

\* The first WEP key of the driver's table, which is all that is sent again.
WepKeys(a) == {k \in KeyIdx : a.keys[k] = "wep"}
FirstWep(a) == {k \in WepKeys(a) : \A m \in WepKeys(a) : k <= m}

ReconfigureWep(a, b) ==
    [b EXCEPT !.keys = [k \in KeyIdx |-> IF k \in FirstWep(a) THEN "wep" ELSE @[k]]]

\* What a command does to the firmware.  DOWN removes the WEP keys.
Downed(d) == [d EXCEPT !.radio = FALSE,
                 !.bss = [v \in DOMAIN @ |-> [@[v] EXCEPT
                      !.keys = [k \in KeyIdx |-> IF @[k] = "wep" THEN "off" ELSE @[k]]]]]

Command(d, v, s, c) ==
    LET w == ConfigureWpaie(s.ie) IN
    CASE c = "mpc"    -> [d EXCEPT !.mpc = FALSE]
      [] c = "arp"    -> [d EXCEPT !.arp = FALSE]
      [] c = "down"   -> Downed(d)
      [] c = "up"     -> [d EXCEPT !.radio = TRUE]
      [] c = "set_ap" -> [d EXCEPT !.apmode = TRUE]
      [] c \in {"pmk", "sae"}   -> [d EXCEPT !.bss[v].pmk = TRUE]
      [] c = "open_wsec"        -> [d EXCEPT !.bss[v].wsec = {}]
      [] c = "open_wpa_auth"    -> [d EXCEPT !.bss[v].auth = {}]
      [] c = "wsec"     -> [d EXCEPT !.bss[v].wsec = w.wsec]
      [] c = "mfp"      -> [d EXCEPT !.bss[v].wsec = (@ \ {"capable", "required"}) \cup w.mfp]
      [] c = "wpa_auth" -> [d EXCEPT !.bss[v].auth = w.auth]
      [] c = "wep_key"  -> [d EXCEPT !.bss[v] = ReconfigureWep(ap[v], @)]
      [] c = "wep_wsec" -> IF WepKeys(ap[v]) = {} THEN d ELSE [d EXCEPT !.bss[v].wsec = @ \cup {"WEP"}]
      [] c \in {"ssid", "bss_enable"} -> [d EXCEPT !.bss[v].on = TRUE]
      [] OTHER -> d

Run(v, s, cs) ==
    LET d[i \in 0..Len(cs)] == IF i = 0 THEN dev ELSE Command(d[i - 1], v, s, cs[i])
    IN  d[Len(cs)]

Before(cs, c) == SubSeq(cs, 1, (CHOOSE i \in DOMAIN cs : cs[i] = c) - 1)
Sent(cs, f) ==
    IF f \in {"none"} \cup Packets THEN cs
    ELSE IF f \in DOMAIN Passed THEN SelectSeq(cs, LAMBDA c : c \notin Passed[f])
    ELSE Before(cs, f)

\* The offload of ARP and ND is not turned on while an access point runs.
Operating(a) == \E v \in {"ap", "mbss"} \cap Vifs : a[v].created
ConfigureArpNd(d, a) == IF Operating(a) THEN d ELSE [d EXCEPT !.arp = TRUE]

StartFailed(d, v) == IF v = "mbss" THEN d ELSE ConfigureArpNd([d EXCEPT !.mpc = TRUE], ap)

\* Which bits of use_fwauth the commands that were reached have set.
FwAuth(v, s, cs) ==
    LET S == Range(cs)
        psk == IF s.psk /\ ("pmk" \in S) THEN {"PSK"} ELSE {}
        sae == IF s.sae /\ ("sae" \in S) THEN {"SAE"} ELSE {}
        b == ap[v].fwauth \cup psk \cup sae
    IN  IF v = "go" THEN ap[v].fwauth ELSE IF b = {} THEN {"NONE"} ELSE b

\* The first access point takes the second one's keys down with its own.
Downs(v) == IF v = "ap" /\ "mbss" \in up THEN {"down"} ELSE {}
\* Of several WEP keys all but one stay away.
Lost(v) == IF Cardinality(WepKeys(ap[v])) > 1 THEN {"wep"} ELSE {}

Odd(f) ==
    CASE f \in {"mpc", "arp"} -> {f}
      [] f \in {"open_auth", "open_wsec", "open_wpa_auth"} -> {"open"}
      [] f \in {"wep_key", "wep_wsec"} -> {"wep"}
      [] f \in Packets -> {"ie"}
      [] OTHER -> {}

\* A second access point may not change what it shares with the first, 11d.
StartAp(v) ==
    /\ v \notin up
    /\ \E s \in Settings :
       /\ v = "mbss" => ~s.d11
       /\ LET cs == StartSteps(v, s) IN
          \/ /\ "invalid" \notin Range(cs)
             /\ \E f \in {"none"} \cup Packets \cup (DOMAIN Passed \cap Range(cs)) :
                /\ Operation(f)
                /\ LET d == Run(v, s, Sent(cs, f))
                       w == ConfigureWpaie(s.ie)
                   IN  \E es \in Elements :
                       LET m == ConfigApMgmtIe(ap[v], d.bss[v], es, f) IN
                       /\ dev' = [d EXCEPT !.bss[v].ies = m.have]
                       /\ ap' = [ap EXCEPT ![v].created = TRUE, ![v].carrier = TRUE, ![v].saved = m.saved,
                                           ![v].fwauth = FwAuth(v, s, cs),
                                           ![v].asked = IF s.ie.open THEN {} ELSE w.wsec \cup w.mfp]
                /\ odd' = odd \cup Odd(f) \cup Downs(v) \cup Lost(v)
             /\ up' = up \cup {v}
          \/ /\ \E f \in Range(cs) \ DOMAIN Passed :
                /\ Operation(IF f = "invalid" THEN "none" ELSE f)
                /\ LET sent == Before(cs, f) IN
                   /\ "invalid" \notin Range(sent)
                   /\ dev' = StartFailed(Run(v, s, sent), v)
                   /\ ap' = [ap EXCEPT ![v].fwauth = FwAuth(v, s, sent \o <<f>>)]
             /\ odd' = odd \cup Downs(v)
             /\ UNCHANGED up
    /\ UNCHANGED role

\* Stopping: commands that are refused are only logged, but the result of the
\* last decides what cfg80211 believes.
StopCommand(d, v, c) ==
    CASE c = "nopmk"  -> [d EXCEPT !.bss[v].pmk = FALSE]
      [] c = "nossid" -> [d EXCEPT !.bss[v].on = FALSE]
      [] c = "down"   -> Downed(d)
      [] c = "no_ap"  -> [d EXCEPT !.apmode = FALSE]
      [] c = "up"     -> [d EXCEPT !.radio = TRUE]
      [] c = "mpc"    -> [d EXCEPT !.mpc = TRUE]
      [] OTHER        -> d
StopSteps(v) ==
    IF v = "go" THEN <<"nossid", "mpc">>
    ELSE When(ap[v].fwauth # {"NONE"}, <<"nopmk">>) \o
         (IF v = "mbss" THEN <<"down">> ELSE <<"nossid", "down", "no_ap", "regulatory", "up", "mpc">>)

StopAp(v) ==
    /\ v \in up
    /\ \E f \in {"none", "arp"} \cup Range(StopSteps(v)) \cup {p \in Packets : v = "ap" /\ ap[v].saved[p] # << >>} :
       LET cs == SelectSeq(StopSteps(v), LAMBDA c : c # f)
           r[i \in 0..Len(cs)] == IF i = 0 THEN dev ELSE StopCommand(r[i - 1], v, cs[i])
           d == r[Len(cs)]
           a == [ap EXCEPT ![v].fwauth = IF v = "go" THEN @ ELSE {"NONE"}]
           b == [a EXCEPT ![v].created = FALSE, ![v].carrier = FALSE]
           last == IF v = "mbss" THEN "down" ELSE IF v = "go" THEN "nossid" ELSE "up" IN
       /\ Operation(f)
       /\ up' = IF f = last THEN up ELSE up \ {v}
       /\ IF v = "mbss"
          THEN ap' = a /\ dev' = d /\ odd' = odd \cup {"marked", "down"} /\ f # "arp"
          ELSE /\ ap' = IF v = "go" THEN b ELSE [b EXCEPT ![v].saved = NewVif.saved]
               /\ LET e == IF v = "go" THEN d ELSE [d EXCEPT !.bss[v].ies = ClearMgmtIes(d.bss[v], ap[v], f)]
                  IN  dev' = IF f = "arp" THEN e ELSE ConfigureArpNd(e, b)
               /\ odd' = odd \cup Odd(f) \cup Downs(v) \cup IF f \in {"up", "nossid"} THEN {"down"} ELSE {}
    /\ UNCHANGED role

ChangeBeacon(v) ==
    /\ v \in up
    /\ \E es \in Elements, f \in {"none"} \cup Packets :
       LET m == ConfigApMgmtIe(ap[v], dev.bss[v], es, f) IN
       /\ Operation(f)
       /\ ap' = [ap EXCEPT ![v].saved = m.saved]
       /\ dev' = [dev EXCEPT !.bss[v].ies = m.have]
       /\ odd' = odd \cup Odd(f)
    /\ UNCHANGED <<role, up>>

-----------------------------------------------------------------------------
(* Keys.                                                                    *)
MutAddWsec(b, alg) == [b EXCEPT !.wsec = Cipher[alg]]
\* The cipher of a key is added to wsec, which is read first.
AddWsec(b, alg) == [b EXCEPT !.wsec = @ \cup Cipher[alg]]

\* A key of the whole network, or of one peer (x), which is not for WEP; "gcmp"
\* stands for a cipher the driver does not know, and then the table has been
\* cleared.
AddKey(v) ==
    /\ \E k \in KeyIdx, alg \in Algs \cup {"gcmp"}, f \in {"none", "key", "wsec"} :
       \E x \in {FALSE, alg = "ccmp"} :
       LET t == [ap EXCEPT ![v].keys[k] = IF alg = "gcmp" THEN "off" ELSE alg]
           sent == [dev.bss[v] EXCEPT !.keys[k] = alg] IN
       /\ Operation(f)
       /\ ap' = t
       /\ \/ alg = "gcmp" /\ f = "none" /\ dev' = dev /\ odd' = odd \cup {"key"}
          \/ alg # "gcmp" /\ f = "key" /\ dev' = dev /\ odd' = odd \cup {"wep"}
          \/ alg # "gcmp" /\ f = "wsec" /\ ~x /\ dev' = [dev EXCEPT !.bss[v] = sent] /\ odd' = odd \cup {"wep"}
          \/ alg # "gcmp" /\ f = "none" /\ odd' = odd
             /\ dev' = [dev EXCEPT !.bss[v] = IF x THEN sent ELSE AddWsec(sent, alg)]
    /\ UNCHANGED <<role, up>>

\* Only a key of the table is deleted.
DelKey(v) ==
    /\ \E k \in KeyIdx, f \in {"none", "key"} :
       /\ ap[v].keys[k] # "off"
       /\ Operation(f)
       /\ ap' = [ap EXCEPT ![v].keys[k] = "off"]
       /\ dev' = IF f = "key" THEN dev ELSE [dev EXCEPT !.bss[v].keys[k] = "off"]
       /\ odd' = IF f = "key" THEN odd \cup {"key"} ELSE odd
    /\ UNCHANGED <<role, up>>

\* The second interface is deleted, with what it has.
DelMbss ==
    /\ role = "ap" /\ "mbss" \notin up /\ ap["mbss"] # NewVif /\ Operation("none")
    /\ ap' = [ap EXCEPT !["mbss"] = NewVif]
    /\ dev' = [dev EXCEPT !.bss["mbss"] = NewBss]
    /\ UNCHANGED <<role, up, odd>>

ApNext ==
    /\ spent.calls < ApBound.calls
    /\ \/ \E v \in Vifs : StartAp(v) \/ StopAp(v) \/ ChangeBeacon(v) \/ AddKey(v) \/ DelKey(v)
       \/ DelMbss

ApSpec == ApInit /\ [][ApNext]_aVars

-----------------------------------------------------------------------------
\* The radio may sleep, and ARP be answered by the firmware, exactly when no
\* access point runs, whichever command of a start was refused
\* (brcmf_cfg80211_start_ap, brcmf_cfg80211_stop_ap), unless that very
\* command was, or the stop of a second access point left its mark.  One that
\* runs has the radio on and the firmware in AP mode, through failed starts and
\* stops, unless the other one's start or stop brought it down.
ApPower ==
    LET first == IF role = "go" THEN "go" ELSE "ap" IN
    /\ "mpc" \notin odd => dev.mpc = ~ap[first].created
    /\ "arp" \notin odd /\ ap[first].created => ~dev.arp \/ first = "go"
    /\ odd \cap {"arp", "marked"} = {} /\ (\A v \in Vifs : ~ap[v].created) => dev.arp
    /\ "down" \notin odd => \A v \in up : dev.radio /\ (v # "go" => dev.apmode)

\* A running access point has the ciphers and, when the firmware has the
\* feature, the protection of management frames it was started with, whatever
\* keys are set since (brcmf_configure_wpaie, brcmf_cfg80211_add_key).
ApSecured ==
    \A v \in up :
        ap[v].asked \ (IF dev.mfp THEN {} ELSE {"capable", "required"}) \subseteq dev.bss[v].wsec

\* One that has a WEP key in the driver's table has one in the firmware, which
\* lost it when it was brought down (brcmf_cfg80211_reconfigure_wep).
WepBack ==
    \A v \in up \ {"go"} :
        odd \cap {"wep", "down"} = {} /\ WepKeys(ap[v]) # {}
            => \E k \in KeyIdx : dev.bss[v].keys[k] = "wep"

\* A key of the firmware is one that can still be deleted
\* (brcmf_cfg80211_del_key), unless a cipher the driver does not know or a
\* refused deletion cleared the table only.
KeyKnown ==
    "key" \notin odd => \A v \in Vifs, k \in KeyIdx :
        dev.bss[v].keys[k] # "off" => ap[v].keys[k] # "off"

\* The firmware has the vendor elements that the driver has saved, no more
\* and no less (brcmf_vif_set_mgmt_ie), unless it refused to set some.
IesFollow ==
    "ie" \notin odd => \A v \in Vifs, p \in Packets : dev.bss[v].ies[p] = ap[v].saved[p]
=============================================================================
