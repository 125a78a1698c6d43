-------------------------- MODULE MCAppleIbridge --------------------------
(***************************************************************************)
(* The two sub-drivers of the iBridge, which share no state, for one run   *)
(* of TLC: the light sensor, and the Touch Bar for its liveness.  The part *)
(* chosen in the initial state is the one that takes steps; fairness is    *)
(* asked of the Touch Bar's steps only.                                    *)
(***************************************************************************)
EXTENDS AppleTb

CONSTANTS User, Illums, Fixed, MaxOps, MaxResets   \* of AppleAls

VARIABLES part, bound, hyst, sens, events, alsPc, new, report, devSens, illum, raced,
          ops, resets

A == INSTANCE AppleAls WITH pc <- alsPc

\* The threads that use the sysfs files are not the one of the HID events.
ASSUME AlsAssumption ==
    /\ "event" \notin User
    /\ Illums \subseteq Nat /\ Illums # {} /\ Fixed \subseteq Nat \ {0}
    /\ MaxOps \in Nat /\ MaxResets \in Nat

alsVars == <<bound, hyst, sens, events, alsPc, new, report, devSens, illum, raced, ops, resets>>
allVars == <<part, vars, alsVars>>

\* One initial state of the part that takes no steps.
IbridgeInit ==
    /\ part \in {"als", "tb"} /\ Init /\ A!Init
    /\ part = "tb" => illum = CHOOSE v \in Illums : TRUE
    /\ part = "als" => idleTimeout = CHOOSE n \in {p[1] : p \in Params} : TRUE

InTb == part = "tb" /\ UNCHANGED <<part, alsVars>>
AlsNext == part = "als" /\ A!Next /\ UNCHANGED <<part, vars>>
TbNext == InTb /\ Next

\* Fairness of AppleTb, for its part.
IbridgeFairness ==
    WF_allVars(InTb /\ Worker) /\ WF_allVars(InTb /\ Tick) /\ WF_allVars(InTb /\ PmStep)

IbridgeSpec == IbridgeInit /\ [][AlsNext \/ TbNext]_allVars /\ IbridgeFairness

---------------------------------------------------------------------------
\* With hysteresis 0 the sensor and cur_sensitivity agree on a sensitivity that
\* suits the brightness (appleals_update_dyn_sensitivity).
Follows == A!Follows

\* A sensitivity whose range still covers the brightness is not replaced
\* (appleals_compute_sensitivity).
NoFlapping == A!NoFlapping

\* Mode and display end up as the Fn key and the settings ask, and an idle bar
\* goes off and stays off (appletb_update_touchbar_no_lock, appletb_set_tb_worker).
TouchBarFollows == part = "tb" => BarFollows

---------------------------------------------------------------------------
\* No timeouts, as in modprobe.d/mbp-t1-touchbar.conf, or dimmed after one
\* tick and off after two.
MCIdles  == {-1, 2}
MCDims   == {-1, 1}
MCParams == {<<-1, -1>>, <<2, 1>>}
===========================================================================
