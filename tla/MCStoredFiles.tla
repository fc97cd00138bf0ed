----------------------------- MODULE MCStoredFiles -----------------------------
(***************************************************************************)
(* Model checking of the two parts that promise whole files: a YMODEM      *)
(* transfer, and the settings file under crashes.  They share nothing;     *)
(* about says which of them a behaviour is about.                          *)
(***************************************************************************)
EXTENDS MCYmodemTransfer

CONSTANTS MaxSaves, MaxFailures, MaxCrashes

VARIABLES
    about, disk, pc, writing, pending, chain, flush, settings, saves, promised, refused,
    failures, crashes

Store == INSTANCE SettingsStore WITH MaxFaults <- MaxFailures, faults <- failures

ASSUME StoreConstants == Store!StoreAssumption

storeState == <<disk, pc, writing, pending, chain, flush, settings, saves, promised, refused,
                failures, crashes>>

MCInit ==
    /\ Init /\ Store!Init
    /\ \/ about = "transfer"
       \/ about = "settings" /\ ends.sender = "app"

MCNext ==
    /\ UNCHANGED about
    /\ \/ about = "transfer" /\ Next /\ UNCHANGED storeState
       \/ about = "settings" /\ Store!Next /\ UNCHANGED vars

\* Both ends of a transfer are idle in a behaviour about the settings.
MCSpec == MCInit /\ [][MCNext]_<<about, vars, storeState>> /\ Fairness

\* Settings that are said to be stored survive (SettingsStore).
SettingsSurvive == Store!SettingsSurvive
=================================================================================
