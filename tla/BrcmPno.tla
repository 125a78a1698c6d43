------------------------------ MODULE BrcmPno -------------------------------
(***************************************************************************)
(* Scheduled scans in the Wi-Fi driver (pno.c, cfg80211.c): the requests   *)
(* of the user are kept in an array and merged into one configuration of   *)
(* the firmware's scan offload, which is torn down and built again, one    *)
(* command after the other, on every change.  A hit names the array's      *)
(* indices (buckets) of the requests it matches; after a scan for the hit  *)
(* the indices are turned into the requests to report.  The user's thread  *)
(* and the worker for firmware events share the array.                     *)
(*                                                                         *)
(* A request is a record [id, every, chans, nets, hidden, random]: scan    *)
(* period, channels, the networks to match, those of them to probe for,    *)
(* and whether a random address is asked for.  Sleeping with network       *)
(* detection starts a request of its own with id 0.                        *)
(***************************************************************************)
EXTENDS Integers, Sequences, FiniteSets
LOCAL INSTANCE SequencesExt

CONSTANTS Scans,       \* the requests
          NetDetect,   \* the one of the wake-up configuration
          MaxBuckets,  \* BRCMF_PNO_MAX_BUCKETS, wiphy->max_sched_scan_reqs
          MaxChans,    \* BRCMF_NUMCHANNELS
          MinPeriod,   \* BRCMF_PNO_SCHED_SCAN_MIN_PERIOD
          PnoBound     \* [calls, refused, hits]

VARIABLES reqs,     \* pi->reqs[0 .. n_reqs - 1]
          job,      \* the user's thread: what it does, its commands still to send
          pfn,      \* the offload as the firmware knows it
          hit,      \* the worker: buckets found, before it starts a scan for them
          escan,    \* cfg->int_escan_map: buckets a scan is under way for
          asleep,   \* cfg->wowl.nd_enabled: hits go to the wake-up handler
          log       \* calls, refused, hits; deaf: an order to stop was refused;
                    \* shifted: a request went while the worker held its bucket
pnoVars == <<reqs, job, pfn, hit, escan, asleep, log>>

NoPfn == [on |-> FALSE, period |-> 0, chans |-> <<>>, ends |-> <<>>, times |-> <<>>,
          random |-> FALSE, nets |-> <<>>]
NoJob == [op |-> "none", id |-> -1, todo |-> <<>>, undo |-> FALSE, stop |-> FALSE,
          then |-> "none"]
\* Buckets, with the requests they stood for when they were found.
NoHit == [at |-> {}, ids |-> {}]

\* brcmf_pno_attach
PnoInit ==
    /\ reqs = <<>> /\ job = NoJob /\ pfn = NoPfn /\ hit = NoHit /\ escan = NoHit
    /\ asleep = FALSE
    /\ log = [calls |-> 0, refused |-> 0, hits |-> 0, deaf |-> FALSE, shifted |-> FALSE]

----------------------------------------------------------------------------
(* The configuration made of the requests.                                 *)

Gcd(a, b) ==
    CHOOSE d \in 1 .. a : /\ a % d = 0 /\ b % d = 0
                          /\ \A e \in d + 1 .. a : a % e # 0 \/ b % e # 0
\* brcmf_pno_prep_fwconfig: the common period, not below the minimum.
ScanFreq(rs) ==
    LET g == FoldLeft(LAMBDA a, r : Gcd(r.every, a), rs[1].every, Tail(rs))
    IN IF g < MinPeriod THEN MinPeriod ELSE g
\* brcmf_pno_get_bucket_channels: one list of channels, the buckets' ends in it.
AllChans(rs) == FlattenSeq([i \in DOMAIN rs |-> rs[i].chans])
Ends(rs) == [i \in DOMAIN rs |-> Len(AllChans(SubSeq(rs, 1, i))) - 1]
Times(rs) == [i \in DOMAIN rs |-> LET t == rs[i].every \div ScanFreq(rs)
                                  IN IF t = 0 THEN 1 ELSE t]
\* brcmf_pno_config_networks
Networks(rs) == FlattenSeq([i \in DOMAIN rs |->
    [j \in DOMAIN rs[i].nets |-> <<rs[i].nets[j], rs[i].nets[j] \in rs[i].hidden>>]])
Random(rs) == \E i \in DOMAIN rs : rs[i].random

\* brcmf_pno_clean
Clean == <<<<"pfn", FALSE>>, <<"pfnclear">>>>
\* The commands of brcmf_pno_config_sched_scans; the channels of all requests
\* have to fit.
ConfigFits(rs) == rs # <<>> /\ Len(AllChans(rs)) <= MaxChans
ConfigSchedScans(rs) ==
    Clean \o <<<<"pfn_set", ScanFreq(rs)>>, <<"pfn_cfg", AllChans(rs)>>,
               <<"pfn_gscan_cfg", Ends(rs), Times(rs)>>>>
          \o (IF Random(rs) THEN <<<<"pfn_macaddr">>>> ELSE <<>>)
          \o [i \in DOMAIN Networks(rs) |-> <<"pfn_add", Networks(rs)[i]>>]
          \o <<<<"pfn", TRUE>>>>

\* What a command does to the offload.
Obey(p, c) == CASE c[1] = "pfn" -> [p EXCEPT !.on = c[2]]
                [] c[1] = "pfnclear" -> [NoPfn EXCEPT !.on = p.on]
                [] c[1] = "pfn_set" -> [p EXCEPT !.period = c[2]]
                [] c[1] = "pfn_cfg" -> [p EXCEPT !.chans = c[2]]
                [] c[1] = "pfn_gscan_cfg" -> [p EXCEPT !.ends = c[2], !.times = c[3]]
                [] c[1] = "pfn_macaddr" -> [p EXCEPT !.random = TRUE]
                [] c[1] = "pfn_add" -> [p EXCEPT !.nets = Append(@, c[2])]

----------------------------------------------------------------------------
(* The user's thread, under the wiphy's lock.                              *)

Without(rs, id) == SelectSeq(rs, LAMBDA r : r.id # id)
IdsOf(rs) == {rs[i].id : i \in DOMAIN rs}
Callable == job = NoJob /\ log.calls < PnoBound.calls /\ ~asleep
Called == [log EXCEPT !.calls = @ + 1]
Ended(stop, then) == [NoJob EXCEPT !.op = "end", !.stop = stop, !.then = then]

\* Configure for rs, if there is any; a failure is not looked at.
Reconfigure(rs, stop, then) ==
    IF ConfigFits(rs)
    THEN [Ended(stop, then) EXCEPT !.op = "again", !.todo = ConfigSchedScans(rs)]
    ELSE Ended(stop, then)

\* brcmf_pno_start_sched_scan: stored, then configured; if that fails the
\* request is removed and the others are configured again.
Start(r, then) ==
    LET rs == Append(reqs, r) IN
    CASE Len(reqs) = MaxBuckets -> job' = Ended(FALSE, then) /\ reqs' = reqs
      [] Len(reqs) < MaxBuckets /\ ~ConfigFits(rs) ->
           job' = Reconfigure(reqs, FALSE, then) /\ reqs' = reqs
      [] OTHER ->
           /\ job' = [Ended(FALSE, then) EXCEPT !.op = "start", !.id = r.id,
                                                !.todo = ConfigSchedScans(rs)]
           /\ reqs' = rs

\* brcmf_cfg80211_sched_scan_start; cfg80211 starts an id once.
SchedScanStart ==
    /\ Callable
    /\ \E r \in Scans : r.id \notin IdsOf(reqs) /\ Start(r, "none")
    /\ log' = Called /\ UNCHANGED <<pfn, hit, escan, asleep>>

\* brcmf_pno_stop_sched_scan: removed, the offload cleaned and configured for
\* the rest.  A request that is not there ends the call at once.
Stop(id, then, l) ==
    /\ reqs' = Without(reqs, id)
    /\ job' = IF id \notin IdsOf(reqs) THEN Ended(TRUE, then)
              ELSE [Ended(TRUE, then) EXCEPT !.op = "stop", !.todo = Clean]
    /\ log' = [l EXCEPT !.shifted = @ \/ (id \in IdsOf(reqs) /\ hit # NoHit)]
    /\ UNCHANGED <<pfn, hit, escan, asleep>>

\* brcmf_cfg80211_sched_scan_stop
SchedScanStop == Callable /\ \E id \in IdsOf(reqs) : Stop(id, "none", Called)

\* brcmf_cfg80211_suspend with network detection: request 0 is stopped, the
\* one of the wake-up configuration started, hits go to its handler.
Suspend == Callable /\ Stop(0, "detect", Called)
DetectStart ==
    /\ job.op = "none" /\ job.then = "detect"
    /\ Start(NetDetect, "sleep") /\ UNCHANGED <<pfn, hit, escan, asleep, log>>
Route(to, sleeps) ==
    /\ job.op = "none" /\ job.then = to
    /\ asleep' = sleeps /\ job' = NoJob /\ UNCHANGED <<reqs, pfn, hit, escan, log>>
ConfigureWowl == Route("sleep", TRUE)
\* brcmf_cfg80211_resume
Resume == asleep /\ job = NoJob /\ Stop(0, "wake", log)
ResumeRoute == Route("wake", FALSE)

\* The next command succeeds.
Command ==
    /\ job.todo # <<>>
    /\ pfn' = Obey(pfn, Head(job.todo))
    /\ job' = [job EXCEPT !.todo = Tail(@)]
    /\ log' = [log EXCEPT !.deaf = @ /\ Head(job.todo) # <<"pfn", FALSE>>]
    /\ UNCHANGED <<reqs, hit, escan, asleep>>

\* The next command is refused.  The ones that follow in brcmf_pno_clean and
\* in the configuration are not sent; a configuration that got past pfn_set
\* is cleaned up.
Undone == /\ ~job.undo /\ job.op \in {"start", "again"}
          /\ Head(job.todo)[1] \notin {"pfnclear", "pfn_set"}
          /\ Head(job.todo) # <<"pfn", FALSE>>
Refused ==
    /\ job.todo # <<>> /\ log.refused < PnoBound.refused
    /\ job' = [job EXCEPT !.todo = IF Undone THEN Clean ELSE <<>>, !.undo = TRUE]
    /\ log' = [log EXCEPT !.refused = @ + 1,
                          !.deaf = @ \/ Head(job.todo) = <<"pfn", FALSE>>]
    /\ UNCHANGED <<reqs, pfn, hit, escan, asleep>>

\* The commands are sent: a failed start takes its request back, a stop
\* configures for the rest.
StartFailed ==
    /\ job.op = "start" /\ job.todo = <<>> /\ job.undo
    /\ reqs' = Without(reqs, job.id) /\ job' = Reconfigure(reqs', FALSE, job.then)
    /\ log' = [log EXCEPT !.shifted = @ \/ hit # NoHit \/ escan # NoHit]
    /\ UNCHANGED <<pfn, hit, escan, asleep>>
StopCleaned ==
    /\ job.op = "stop" /\ job.todo = <<>>
    /\ job' = Reconfigure(reqs, TRUE, job.then)
    /\ UNCHANGED <<reqs, pfn, hit, escan, asleep, log>>
Configured ==
    /\ job.todo = <<>> /\ (job.op = "again" \/ (job.op = "start" /\ ~job.undo))
    /\ job' = Ended(job.stop, job.then)
    /\ UNCHANGED <<reqs, pfn, hit, escan, asleep, log>>

\* A stop ends the scan for a hit, whose buckets are old: with `aborted'
\* brcmf_notify_escan_complete reports nothing.
MutRemaining == escan
Remaining == IF job.stop THEN NoHit ELSE escan
CallEnds ==
    /\ job.op = "end"
    /\ job' = [NoJob EXCEPT !.then = job.then] /\ escan' = Remaining
    /\ UNCHANGED <<reqs, pfn, hit, asleep, log>>

----------------------------------------------------------------------------
(* The worker for firmware events.                                         *)

\* brcmf_pno_get_bucket_map
BucketMap(net) == {i \in DOMAIN reqs : \E j \in DOMAIN reqs[i].nets : reqs[i].nets[j] = net}
AllNets == UNION {{r.nets[j] : j \in DOMAIN r.nets} : r \in Scans}

\* brcmf_notify_sched_scan_results, at any time: an event may be late.  A hit
\* that matches nothing is dropped.
NetFound ==
    /\ ~asleep /\ hit = NoHit /\ log.hits < PnoBound.hits
    /\ \E net \in AllNets : BucketMap(net) # {} /\
         hit' = [at |-> BucketMap(net), ids |-> {reqs[i].id : i \in BucketMap(net)}]
    /\ log' = [log EXCEPT !.hits = @ + 1] /\ UNCHANGED <<reqs, job, pfn, escan, asleep>>

\* brcmf_start_internal_escan: a scan for an earlier hit is aborted; if the
\* new one cannot be started nothing is under way.
InternalEscan ==
    /\ hit # NoHit /\ hit' = NoHit
    /\ escan' \in {hit, NoHit}
    /\ UNCHANGED <<reqs, job, pfn, asleep, log>>

\* brcmf_notify_escan_complete: brcmf_pno_find_reqid_by_bucket, or 0.
ReqidByBucket(b) == IF b <= Len(reqs) THEN reqs[b].id ELSE 0
EscanComplete ==
    /\ escan # NoHit /\ escan' = NoHit
    /\ UNCHANGED <<reqs, job, pfn, hit, asleep, log>>

PnoNext == SchedScanStart \/ SchedScanStop \/ Suspend \/ DetectStart \/ ConfigureWowl
           \/ Resume \/ ResumeRoute \/ Command \/ Refused \/ StartFailed \/ StopCleaned
           \/ Configured \/ CallEnds \/ NetFound \/ InternalEscan \/ EscanComplete
PnoSpec == PnoInit /\ [][PnoNext]_pnoVars

----------------------------------------------------------------------------
\* The channels of bucket i in the offload.
Slice(i) == SubSeq(pfn.chans, (IF i = 1 THEN 0 ELSE pfn.ends[i - 1] + 1) + 1, pfn.ends[i] + 1)

\* Between two calls an offload that runs serves the stored requests, whatever
\* was refused (unless it was the order to stop): each has its bucket with its
\* channels and a period no longer than asked for or the minimum, and all the
\* networks are there.  Without a refusal it runs when there is a request.
OffloadServes ==
    job = NoJob /\ ~log.deaf =>
      /\ pfn.on =>
           /\ reqs # <<>> /\ Len(pfn.ends) = Len(reqs)
           /\ \A i \in DOMAIN reqs :
                /\ Slice(i) = reqs[i].chans
                /\ pfn.period * pfn.times[i] <=
                     (IF reqs[i].every < MinPeriod THEN MinPeriod ELSE reqs[i].every)
                /\ \A j \in DOMAIN reqs[i].nets : \E k \in DOMAIN pfn.nets :
                     pfn.nets[k] = <<reqs[i].nets[j], reqs[i].nets[j] \in reqs[i].hidden>>
           /\ pfn.random = (\E i \in DOMAIN reqs : reqs[i].random)
      /\ log.refused = 0 => (pfn.on <=> reqs # <<>>)

\* Between two calls the buckets a scan is under way for still stand for the
\* requests that were hit, unless one went while the worker held its bucket.
BucketsFresh ==
    job = NoJob /\ ~log.shifted => \A b \in escan.at : ReqidByBucket(b) \in escan.ids

\* Property PnoRight.  However commands are refused and hits arrive between
\* the steps of brcmf_pno_start_sched_scan and brcmf_pno_stop_sched_scan, the
\* offload and the scan under way go with the stored requests.
PnoRight == OffloadServes /\ BucketsFresh
=============================================================================
