------------------------------- MODULE Board -------------------------------
(***************************************************************************)
(* What the firmware keeps between starts and asks of its board: the log   *)
(* ring and the crash report (CrashLog), the files of the settings, the    *)
(* state and the networks (SavedFiles), what is in them (FrontButtons,     *)
(* CrossPointState), the buttons (ButtonNavigator), the battery            *)
(* (BatteryGauge), downloads to the card (HttpDownloader) and the counters *)
(* that decide on sleeps and refreshes (WakeSchedule).                     *)
(*                                                                         *)
(* These parts share no state: a behaviour is of at most one of them, and  *)
(* the others stay in one of their initial states.                         *)
(***************************************************************************)
EXTENDS CrashLog, SavedFiles, FrontButtons, CrossPointState, ButtonNavigator, BatteryGauge, HttpDownloader,
        WakeSchedule

VARIABLE part     \* the part that moves, if any

boardVars == <<part, logVars, filesVars, buttonVars, stateVars, navVars, batteryVars, downloadVars,
               scheduleVars>>

AtRest(p, state) == part # p => state

BoardInit ==
  /\ part \in {"log", "files", "buttons", "state", "navigator", "battery", "downloads", "wakes", "none"}
  /\ LogInit /\ ButtonsInit /\ StateInit
  /\ FilesInit /\ AtRest("files", <<store, json, bin, bak>> = <<"wifi", NoFile, 0, FALSE>>)
  /\ NavInit /\ AtRest("navigator", list.items = 1 /\ list.perPage = 1 /\ list.byPage)
  /\ BatteryInit /\ AtRest("battery", gauge = CHOOSE g \in [soc : Socs, voltage : Voltages] : TRUE)
  /\ DownloadInit /\ AtRest("downloads", dest = Absent)
  /\ ScheduleInit /\ AtRest("wakes", nvs.key)

Moves(p, step) == part = p /\ UNCHANGED part /\ step

BoardNext ==
  \/ /\ Moves("log", LogNext)
     /\ UNCHANGED <<filesVars, buttonVars, stateVars, navVars, batteryVars, downloadVars, scheduleVars>>
  \/ /\ Moves("files", FilesNext)
     /\ UNCHANGED <<logVars, buttonVars, stateVars, navVars, batteryVars, downloadVars, scheduleVars>>
  \/ /\ Moves("buttons", ButtonsNext)
     /\ UNCHANGED <<logVars, filesVars, stateVars, navVars, batteryVars, downloadVars, scheduleVars>>
  \/ /\ Moves("state", StateNext)
     /\ UNCHANGED <<logVars, filesVars, buttonVars, navVars, batteryVars, downloadVars, scheduleVars>>
  \/ /\ Moves("navigator", NavNext)
     /\ UNCHANGED <<logVars, filesVars, buttonVars, stateVars, batteryVars, downloadVars, scheduleVars>>
  \/ /\ Moves("battery", BatteryNext)
     /\ UNCHANGED <<logVars, filesVars, buttonVars, stateVars, navVars, downloadVars, scheduleVars>>
  \/ /\ Moves("downloads", DownloadNext)
     /\ UNCHANGED <<logVars, filesVars, buttonVars, stateVars, navVars, batteryVars, scheduleVars>>
  \/ /\ Moves("wakes", ScheduleNext)
     /\ UNCHANGED <<logVars, filesVars, buttonVars, stateVars, navVars, batteryVars, downloadVars>>

BoardSpec == BoardInit /\ [][BoardNext]_boardVars
=============================================================================
