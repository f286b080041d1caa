---------------------------- MODULE TrmnlDevice ----------------------------
(***************************************************************************)
(* The device from reset to deep sleep: setup() and loop() of main.cpp,    *)
(* the wake cycle of TrmnlActivity and the form of CaptivePortalActivity,  *)
(* over the two stores that survive a power loss (NVS and the SD card) and *)
(* the e-ink panel, which keeps its picture without power.                 *)
(*                                                                         *)
(* The firmware is one sequential program: pc names where it stands.  A    *)
(* label that stands for a write in flight (InNvsSave, InSdWrite) is a     *)
(* point where a power loss can leave the store half written.  What the    *)
(* radio, the server, the card and the user do is chosen freely.           *)
(*                                                                         *)
(* Left out: what an image looks like (a picture is named by the server    *)
(* and the file name it was announced under), a panel refresh cut short by *)
(* a power loss, and the 16-wake full refresh.                             *)
(***************************************************************************)
EXTENDS TrmnlState, WifiCredentialStore

CONSTANTS
  Malformed,  \* a server field the portal rejects
  BootSsid,   \* TRMNL_BOOTSTRAP_WIFI_SSID, or NoSsid
  SerialLog,  \* ENABLE_SERIAL_LOG
  EnableOta,  \* TRMNL_DISABLE_OTA is not defined
  SdFaults,   \* the SD card may fail to mount or to store a write
  PowerLoss   \* the program may be cut off at any point

ASSUME DeviceAssumption ==
  /\ Malformed \notin Servers \cup {None}
  /\ BootSsid \in Ssids \cup {NoSsid}
  /\ {SerialLog, EnableOta, SdFaults, PowerLoss} \subseteq BOOLEAN

VARIABLES
  nvs,      \* NVS namespace "trmnl"
  sd,       \* /.crosspoint/wifi.json
  panel,    \* the picture on the e-ink panel
  image,    \* firmware URL the boot partition was written from
  st,       \* TRMNL_STATE in RAM
  wifi,     \* WIFI_STORE in RAM
  pc,       \* where the program stands
  online,   \* wifiOk of the running cycle
  rate,     \* resp.refresh_rate of the running cycle, in units of its default
  timer,    \* deep-sleep timer, 0 when it is not armed
  pressed,  \* the reset counts as a press of the button, still to be verified
  form,     \* the form being saved
  outage,   \* no network can be joined any more
  failRun,  \* history: failed wakes since a wake that joined a network
  tried,    \* history: failed wakes since a form was saved, up to 2
  resetDone \* history: reset_firmware obeyed, and no form saved since

stores  == <<nvs, sd, panel, image>>
ram     == <<st, wifi, online, rate, timer, pressed, form>>
history == <<failRun, tried, resetDone>>
vars    == <<stores, ram, pc, outage, history>>

Pictures == [ server : OrNone(Servers), file : OrNone(Files) ]
Picture(server, file) == [server |-> server, file |-> file]
Notice == Picture(None, None)  \* any screen of text: splash, error, portal

Fields == OrNone(Servers) \cup {Malformed}  \* what the server field may hold
Form == [ ssid : Ssids \cup {NoSsid}, server : Fields ]
NoForm == [ssid |-> NoSsid, server |-> None]

Rates == {0, 1}
Default == 1  \* TRMNL_DEFAULT_REFRESH_SECONDS

-----------------------------------------------------------------------------
(* Program labels.                                                         *)

\* after these NVS saves the program goes on at the label on the right
AfterNvsSave ==
  [ setupNvs   |-> "setupShow", \* TrmnlActivity.cpp:152
    resetNvs   |-> "resetSd",   \* TrmnlActivity.cpp:198
    otaNvs     |-> "boot",      \* TrmnlActivity.cpp:226
    wipeNvs    |-> "boot",      \* TrmnlActivity.cpp:316, 354, main.cpp:248
    refreshNvs |-> "boot",      \* TrmnlActivity.cpp:360, main.cpp:261
    portalNvs  |-> "boot",      \* CaptivePortalActivity.cpp:181
    cycleNvs   |-> "hold" ]     \* TrmnlActivity.cpp:323
InNvsSave == pc \in DOMAIN AfterNvsSave

SdWrites == {"seedSd", "joinedSd", "addSd", "lastSd", "wipeSd", "cmdSd", "resetSd"}
InSdWrite == pc \in SdWrites

\* TrmnlActivity between onEnter() and deep sleep
CyclePcs == {"connect", "joinedSd", "api", "setupNvs", "setupShow", "show",
             "resetNvs", "resetSd", "otaNvs", "wipeSd", "cycleNvs", "hold"}
Labels == DOMAIN AfterNvsSave \cup SdWrites \cup CyclePcs \cup
          {"boot", "decide", "portal", "noCard", "asleep", "off"}

Goto(from, to) == pc = from /\ pc' = to

(* A reset: RAM is lost and the program starts again.                      *)
Restart ==
  /\ pc' = "boot"
  /\ st' = Blank
  /\ wifi' = NoNetworks
  /\ online' = FALSE
  /\ rate' = 0
  /\ timer' = 0
  /\ form' = NoForm

-----------------------------------------------------------------------------
(* Durable writes.                                                         *)

(* History: all of the state in RAM has reached NVS.                       *)
NoteSaved ==
  /\ failRun' = IF st.fails = 0 /\ (online \/ pc = "wipeNvs") THEN 0 ELSE failRun
  /\ tried' = IF pc = "portalNvs" THEN 0 ELSE tried
  /\ resetDone' = (pc = "resetNvs" \/ (resetDone /\ pc # "portalNvs"))

(* TRMNL_STATE.save() and what follows it: a restart, or the next step.    *)
(* After the save of a reset the networks are cleared next.                *)
SaveNvs ==
  /\ InNvsSave
  /\ nvs' = st
  /\ IF AfterNvsSave[pc] = "boot"
       THEN Restart /\ pressed' = FALSE
       ELSE /\ pc' = AfterNvsSave[pc]
            /\ wifi' = IF pc = "resetNvs" THEN NoNetworks ELSE wifi
            /\ UNCHANGED <<st, online, rate, timer, pressed, form>>
  /\ NoteSaved
  /\ UNCHANGED <<sd, panel, image, outage>>

(* WIFI_STORE.saveToFile(); nobody looks at its result.                    *)
Slip_NoFormWrite == UNCHANGED sd
WriteSd == sd' \in (IF SdFaults THEN {sd, wifi} ELSE {wifi})

SeedStored ==
  /\ Goto("seedSd", "decide")
  /\ WriteSd
  /\ UNCHANGED <<nvs, panel, image, ram, outage, history>>

JoinedStored ==
  /\ Goto("joinedSd", "api")
  /\ WriteSd
  /\ UNCHANGED <<nvs, panel, image, ram, outage, history>>

(* Ten failed wakes: the networks go first, then the fields in NVS.        *)
WipeStored ==
  /\ Goto("wipeSd", "wipeNvs")
  /\ WriteSd
  /\ st' = [st EXCEPT !.fails = 0, !.portal = TRUE]
  /\ UNCHANGED <<nvs, panel, image, wifi, online, rate, timer, pressed, form,
                 outage, history>>

(* CMD:WIPE wipes in the same order but keeps the failure count.           *)
CmdWipeStored ==
  /\ Goto("cmdSd", "wipeNvs")
  /\ WriteSd
  /\ st' = [st EXCEPT !.portal = TRUE]
  /\ UNCHANGED <<nvs, panel, image, wifi, online, rate, timer, pressed, form,
                 outage, history>>

(* reset_firmware: NVS is already saved, the networks go last.             *)
ResetStored ==
  /\ pc = "resetSd"
  /\ WriteSd
  /\ Restart /\ pressed' = FALSE
  /\ UNCHANGED <<nvs, panel, image, outage, history>>

-----------------------------------------------------------------------------
(* setup(): from reset to one of the two activities.                       *)

(* The card does not mount: a message on the panel, and setup() returns    *)
(* before TRMNL_STATE.load().                                              *)
BootNoCard ==
  /\ SdFaults
  /\ Goto("boot", "noCard")
  /\ panel' = Notice
  /\ pressed' = FALSE
  /\ UNCHANGED <<nvs, sd, image, st, wifi, online, rate, timer, form, outage, history>>

(* Both stores are read; with bootstrap credentials compiled in, an empty  *)
(* list is seeded unless the portal has been requested.                    *)
Boot ==
  /\ pc = "boot"
  /\ st' = nvs
  /\ LET known == Loaded(sd)
         seeds == BootSsid # NoSsid /\ known.ssids = {} /\ ~nvs.portal
     IN /\ wifi' = IF seeds THEN Added(known, BootSsid) ELSE known
        /\ pc' = IF seeds THEN "seedSd" ELSE "decide"
  /\ UNCHANGED <<stores, online, rate, timer, pressed, form, outage, history>>

(* verifyPowerButtonWakeup(): too short a press puts the device back to    *)
(* sleep, with the button armed and no timer.                              *)
TapTooShort ==
  /\ pressed
  /\ Goto("decide", "off")
  /\ st' = Blank /\ wifi' = NoNetworks /\ pressed' = FALSE
  /\ UNCHANGED <<stores, online, rate, timer, form, outage, history>>

(* The portal for a device without networks, one that was asked to, and a  *)
(* user who holds BACK; the wake cycle otherwise.                          *)
Slip_OnlyNoNetworks(back) == wifi.ssids = {} \/ back
WantsPortal(back) == wifi.ssids = {} \/ back \/ st.portal

EnterPortal ==
  /\ Goto("decide", "portal")
  /\ \E back \in BOOLEAN : WantsPortal(back)
  /\ panel' = Notice
  /\ pressed' = FALSE
  /\ UNCHANGED <<nvs, sd, image, st, wifi, online, rate, timer, form, outage, history>>

EnterCycle ==
  /\ Goto("decide", "connect")
  /\ ~WantsPortal(FALSE)
  /\ pressed' = FALSE
  /\ UNCHANGED <<stores, st, wifi, online, rate, timer, form, outage, history>>

-----------------------------------------------------------------------------
(* TrmnlActivity::connectWifi() and the branch for a wake that failed.     *)

Joined(ssid) ==
  /\ Goto("connect", "joinedSd")
  /\ ~outage
  /\ ssid \in wifi.ssids
  /\ wifi' = WithLast(wifi, ssid)
  /\ st' = [st EXCEPT !.fails = 0]
  /\ online' = TRUE
  /\ UNCHANGED <<stores, rate, timer, pressed, form, outage, history>>

Slip_EarlyWipe(fails) == fails >= Threshold - 1
Slip_LateWipe(fails) == fails > Threshold
TooManyFails(fails) == fails >= Threshold

AddCapped(n, max) == IF n < max THEN n + 1 ELSE max

(* No network could be joined in this wake.  The tenth such wake draws a   *)
(* message and drops the networks; the others just save the count.         *)
NotJoined ==
  /\ pc = "connect"
  /\ st' = [st EXCEPT !.fails = @ + 1]
  /\ failRun' = AddCapped(failRun, Threshold)
  /\ tried' = AddCapped(tried, 2)
  /\ IF TooManyFails(st.fails + 1)
       THEN /\ pc' = "wipeSd"
            /\ panel' = Notice
            /\ wifi' = NoNetworks
       ELSE /\ pc' = "cycleNvs"
            /\ UNCHANGED <<panel, wifi>>
  /\ UNCHANGED <<nvs, sd, image, online, rate, timer, pressed, form, outage, resetDone>>

-----------------------------------------------------------------------------
(* TrmnlActivity::runCycleAndSleep() once it is online.                    *)

NeedsSetup == st.key = None

(* /api/setup answered with a key: the key is saved before the picture.    *)
SetupOk ==
  /\ Goto("api", "setupNvs")
  /\ NeedsSetup
  /\ st.server # None
  /\ st' = [st EXCEPT !.key = st.server]
  /\ UNCHANGED <<stores, wifi, online, rate, timer, pressed, form, outage, history>>

SetupPicture(file) ==
  /\ Goto("setupShow", "cycleNvs")
  /\ panel' = Picture(st.server, file)
  /\ st' = [st EXCEPT !.file = file]
  /\ rate' = Default
  /\ UNCHANGED <<nvs, sd, image, wifi, online, timer, pressed, form, outage, history>>

SetupSplash ==
  /\ Goto("setupShow", "cycleNvs")
  /\ panel' = Notice
  /\ rate' = Default
  /\ UNCHANGED <<nvs, sd, image, st, wifi, online, timer, pressed, form, outage, history>>

(* Setup failed; the interval of the back-off is never 0.                  *)
SetupFailed ==
  /\ Goto("api", "cycleNvs")
  /\ NeedsSetup
  /\ panel' = Notice
  /\ rate' = Default
  /\ UNCHANGED <<nvs, sd, image, st, wifi, online, timer, pressed, form, outage, history>>

(* /api/display: no usable answer.  Nothing changes, and the refresh rate  *)
(* stays at the 0 the response was constructed with.                       *)
DisplayFailed ==
  /\ Goto("api", "cycleNvs")
  /\ ~NeedsSetup
  /\ UNCHANGED <<stores, ram, outage, history>>

Answered == pc = "api" /\ ~NeedsSetup /\ st.server # None

(* reset_firmware: forget the account and ask for the portal, then save.   *)
Unprovisioned(s) ==
  [ server |-> s.server, key |-> None, file |-> None, ota |-> None,
    fails |-> 0, portal |-> TRUE ]
DisplayReset ==
  /\ Answered
  /\ pc' = "resetNvs"
  /\ st' = Unprovisioned(st)
  /\ UNCHANGED <<stores, wifi, online, rate, timer, pressed, form, outage, history>>

(* update_firmware with a URL other than the last one applied: the boot    *)
(* partition is switched before the URL is saved.                          *)
DisplayOta(url) ==
  /\ Answered
  /\ EnableOta
  /\ url # st.ota
  /\ image' = url
  /\ st' = [st EXCEPT !.ota = url]
  /\ pc' = "otaNvs"
  /\ UNCHANGED <<nvs, sd, panel, wifi, online, rate, timer, pressed, form, outage, history>>

(* No reset, and no update to apply or one that failed.                    *)
Slip_FailedOtaRecorded ==
  /\ Answered
  /\ pc' = "show"
  /\ \E url \in Urls : st' = [st EXCEPT !.ota = url]
  /\ UNCHANGED <<stores, wifi, online, rate, timer, pressed, form, outage, history>>
DisplayGoesOn ==
  /\ Answered
  /\ pc' = "show"
  /\ UNCHANGED <<stores, ram, outage, history>>

(* The server refuses in the body's status: a splash, and the refresh rate *)
(* it sent or else the default.                                            *)
ShowRefusal ==
  /\ Goto("show", "cycleNvs")
  /\ panel' = Notice
  /\ rate' = Default
  /\ UNCHANGED <<nvs, sd, image, st, wifi, online, timer, pressed, form, outage, history>>

CacheHit(file) == file # None /\ file = st.file

ShowHit(file) ==
  /\ Goto("show", "cycleNvs")
  /\ CacheHit(file)
  /\ rate' \in Rates
  /\ UNCHANGED <<stores, st, wifi, online, timer, pressed, form, outage, history>>

Slip_KeyNotStored(s, file) == s
Remember(s, file) == [s EXCEPT !.file = file]

ShowRendered(file) ==
  /\ Goto("show", "cycleNvs")
  /\ ~CacheHit(file)
  /\ panel' = Picture(st.server, file)
  /\ st' = Remember(st, file)
  /\ rate' \in Rates
  /\ UNCHANGED <<nvs, sd, image, wifi, online, timer, pressed, form, outage, history>>

(* Download or decoding failed: the panel and the cache key stay.          *)
ShowFailed(file) ==
  /\ Goto("show", "cycleNvs")
  /\ ~CacheHit(file)
  /\ rate' \in Rates
  /\ UNCHANGED <<stores, st, wifi, online, timer, pressed, form, outage, history>>

(* The end of a wake: the server's interval if it gave one, else the       *)
(* default, and deep sleep with timer and button armed.                    *)
Slip_ServerInterval == rate
RefreshSec == IF online /\ rate > 0 THEN rate ELSE Default

Sleep ==
  /\ Goto("hold", "asleep")
  /\ timer' = RefreshSec
  /\ st' = Blank /\ wifi' = NoNetworks /\ online' = FALSE /\ rate' = 0
  /\ UNCHANGED <<stores, pressed, form, outage, history>>

TimerWake ==
  /\ pc = "asleep"
  /\ timer > 0
  /\ Restart /\ pressed' = FALSE
  /\ UNCHANGED <<stores, outage, history>>

ButtonWake ==
  /\ pc \in {"asleep", "off"}
  /\ Restart /\ pressed' = TRUE
  /\ UNCHANGED <<stores, outage, history>>

-----------------------------------------------------------------------------
(* CaptivePortalActivity: handleSave(), in the order of its writes.        *)

(* The network goes into the list, and to the card unless the list is      *)
(* full.                                                                   *)
FormSent(ssid, server) ==
  /\ pc = "portal"
  /\ form' = [ssid |-> ssid, server |-> server]
  /\ IF CanAdd(wifi, ssid)
       THEN wifi' = Added(wifi, ssid) /\ pc' = "addSd"
       ELSE wifi' = WithLast(wifi, ssid) /\ pc' = "lastSd"
  /\ UNCHANGED <<stores, st, online, rate, timer, pressed, outage, history>>

FormAdded ==
  /\ Goto("addSd", "lastSd")
  /\ WriteSd
  /\ wifi' = WithLast(wifi, form.ssid)
  /\ UNCHANGED <<nvs, panel, image, st, online, rate, timer, pressed, form, outage, history>>

(* Another server invalidates the key; an empty field or the same server   *)
(* keeps it.  Either way the portal is no longer wanted.                   *)
Slip_KeepKey(s, server) ==
  [s EXCEPT !.server = IF server = None THEN @ ELSE server, !.portal = FALSE]
WithForm(s, server) ==
  IF server \in {None, s.server}
    THEN [s EXCEPT !.portal = FALSE]
    ELSE [s EXCEPT !.server = server, !.key = None, !.portal = FALSE]

(* The server field is looked at only now, when the network is on the      *)
(* card: a malformed one gets the form again.                              *)
FormRejected ==
  /\ Goto("lastSd", "portal")
  /\ form.server = Malformed
  /\ WriteSd
  /\ form' = NoForm
  /\ UNCHANGED <<nvs, panel, image, st, wifi, online, rate, timer, pressed, outage, history>>

FormAccepted ==
  /\ Goto("lastSd", "portalNvs")
  /\ form.server # Malformed
  /\ WriteSd
  /\ st' = WithForm(st, form.server)
  /\ UNCHANGED <<nvs, panel, image, wifi, online, rate, timer, pressed, form, outage, history>>

-----------------------------------------------------------------------------
(* loop() and the 30 s hold: serial commands and the power button.         *)

TakesCommands == SerialLog /\ pc \in {"portal", "hold", "noCard"}

(* CMD:WIPE: the networks, then the flag.  Without a card there is nothing *)
(* to write the first part to.                                             *)
CmdWipe ==
  /\ TakesCommands
  /\ wifi' = NoNetworks
  /\ IF pc = "noCard"
       THEN pc' = "wipeNvs" /\ st' = [st EXCEPT !.portal = TRUE]
       ELSE pc' = "cmdSd" /\ UNCHANGED st
  /\ UNCHANGED <<stores, online, rate, timer, pressed, form, outage, history>>

CmdRefresh ==
  /\ TakesCommands
  /\ pc' = "refreshNvs"
  /\ st' = [st EXCEPT !.file = None]
  /\ UNCHANGED <<stores, wifi, online, rate, timer, pressed, form, outage, history>>

(* A long press where loop() runs: GPIO13 goes low and the device is off.  *)
LongPress ==
  /\ pc \in {"portal", "noCard"}
  /\ pc' = "off"
  /\ st' = Blank /\ wifi' = NoNetworks
  /\ UNCHANGED <<stores, online, rate, timer, pressed, form, outage, history>>

-----------------------------------------------------------------------------
(* The environment.                                                        *)

(* Power fails or the program panics.  A store that is being written may   *)
(* be left between two puts of the save, or without a readable file.  A    *)
(* power-on on battery is taken for a press of the button, a panic is not. *)
CutOff ==
  /\ PowerLoss
  /\ pc # "boot"
  /\ nvs' \in IF InNvsSave THEN {TornSave(nvs, st, k) : k \in 0 .. Puts} ELSE {nvs}
  /\ sd' \in IF InSdWrite THEN {sd, wifi, Torn} ELSE {sd}
  /\ Restart /\ pressed' \in BOOLEAN
  /\ IF InNvsSave /\ nvs' = st THEN NoteSaved ELSE UNCHANGED history
  /\ UNCHANGED <<panel, image, outage>>

(* From some point on no network answers, ever.                            *)
OutageBegins ==
  /\ ~outage
  /\ outage' = TRUE
  /\ UNCHANGED <<stores, ram, pc, history>>

-----------------------------------------------------------------------------
Init ==
  /\ nvs = Factory
  /\ sd = Torn
  /\ panel = Notice
  /\ image = None
  /\ st = Blank
  /\ wifi = NoNetworks
  /\ pc = "boot"
  /\ online = FALSE
  /\ rate = 0
  /\ timer = 0
  /\ pressed \in BOOLEAN
  /\ form = NoForm
  /\ outage = FALSE
  /\ failRun = 0
  /\ tried = 0
  /\ resetDone = FALSE

(* What the running program does next, whatever it is answered.            *)
SetUp == Boot \/ BootNoCard \/ SeedStored \/ EnterPortal \/ EnterCycle
Connect == (\E ssid \in Ssids : Joined(ssid)) \/ JoinedStored \/ NotJoined \/ WipeStored
Provision ==
  \/ SetupOk \/ SetupSplash \/ SetupFailed
  \/ \E file \in OrNone(Files) : SetupPicture(file)
Display ==
  \/ DisplayFailed \/ DisplayReset \/ DisplayGoesOn \/ ResetStored \/ ShowRefusal
  \/ \E url \in Urls : DisplayOta(url)
  \/ \E file \in OrNone(Files) : ShowHit(file) \/ ShowRendered(file) \/ ShowFailed(file)
HandleForm == FormAdded \/ FormRejected \/ FormAccepted
Firmware ==
  \/ SetUp \/ Connect \/ Provision \/ Display \/ HandleForm
  \/ SaveNvs \/ CmdWipeStored \/ Sleep \/ TimerWake

User ==
  \/ \E ssid \in Ssids, server \in Fields : FormSent(ssid, server)
  \/ CmdWipe \/ CmdRefresh \/ LongPress \/ ButtonWake \/ TapTooShort

Next == Firmware \/ User \/ CutOff \/ OutageBegins

(* The processor keeps executing and the armed timer fires; users, servers *)
(* and radios owe nothing.                                                 *)
Spec == Init /\ [][Next]_vars
FairSpec == Spec /\ WF_vars(Firmware)

-----------------------------------------------------------------------------
TypeOK ==
  /\ nvs \in State /\ st \in State
  /\ sd \in Store \cup {Torn} /\ wifi \in Store
  /\ panel \in Pictures
  /\ image \in OrNone(Urls)
  /\ pc \in Labels
  /\ online \in BOOLEAN /\ pressed \in BOOLEAN
  /\ outage \in BOOLEAN /\ resetDone \in BOOLEAN
  /\ rate \in Rates /\ timer \in Rates
  /\ form \in Form
  /\ failRun \in 0 .. Threshold /\ tried \in 0 .. 2

(* The key the device holds was issued by the server it would send it to:  *)
(* a server switched in the portal never gets the previous server's key.   *)
KeyBelongsToServer == KeyFits(nvs) /\ KeyFits(st)

(* Networks are dropped for failing only after Threshold failed wakes with *)
(* no wake in between that joined a network and saved its state.           *)
WipeIsEarned == pc = "wipeSd" => failRun = Threshold

(* Once reset_firmware has been saved, no boot reaches the network or      *)
(* re-seeds the compiled-in credentials until a portal form is saved,      *)
(* wherever power fails on the way.                                        *)
ResetIsHonoured == resetDone => pc \notin (CyclePcs \ {"resetSd"}) \cup {"seedSd"}

(* A picture on the panel of a resting device is the one the cache key in  *)
(* NVS names, from the server in NVS, or the key is empty.                 *)
PanelMatchesKey ==
  pc \in {"asleep", "off", "boot", "decide"} /\ panel # Notice =>
    /\ panel.server = nvs.server
    /\ nvs.file \in {None, panel.file}

(* The URL recorded as applied is the one the boot partition was written   *)
(* from, so the same firmware is not flashed at every wake.                *)
OtaRecordIsTrue == pc # "otaNvs" => nvs.ota \in {None, image}

(* The request for the portal is taken back only when a network is on the  *)
(* card, so that the device does not come straight back to the portal.     *)
PortalLeftWithNetworks ==
  [][nvs.portal /\ ~nvs'.portal => sd # Torn /\ sd.ssids # {}]_vars

(* A sleeping device runs another cycle, unless it lands in the portal,    *)
(* finds no card or is switched off: it never sleeps for good.             *)
SleepIsFollowedByCycle ==
  pc = "asleep" ~> pc \in {"connect", "portal", "noCard", "off"}

(* When no network can be joined any more the device ends up in the portal *)
(* by itself.                                                              *)
OutageEndsInPortal == outage ~> pc \in {"portal", "noCard", "off"}

(* "On cache-hit the dashboard is still on screen" (main.cpp:179): when an *)
(* answer is compared with the cache key, the key names what is shown.     *)
KeyIsOnPanel ==
  pc = "show" /\ st.file # None => panel = Picture(st.server, st.file)

(* "A single wake of 3 retry attempts is NOT enough to wipe"               *)
(* (TrmnlActivity.cpp:287), for the credentials the user has just saved.   *)
OneFailedWakeIsTolerated == [][pc = "connect" /\ pc' = "wipeSd" => tried' >= 2]_vars

(* "CMD:WIPE wipes WiFi + api_key + friendly_id, reboots into the portal"  *)
(* (README.md:131): the key is gone when the state is written.             *)
WipeForgetsTheAccount ==
  [][pc = "cmdSd" /\ pc' = "wipeNvs" => st'.key = None]_vars

(* "CMD:REFRESH - clear the cached filename, reboot" (README.md:168): the  *)
(* command changes nothing else that is stored.                            *)
RefreshOnlyForgetsTheFile ==
  [][pc = "refreshNvs" => [nvs' EXCEPT !.file = None] = [nvs EXCEPT !.file = None]]_vars
=============================================================================
