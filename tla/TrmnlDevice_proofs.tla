------------------------- MODULE TrmnlDevice_proofs -------------------------
(***************************************************************************)
(* Proofs about TrmnlDevice for any number of servers, files, networks and *)
(* firmware URLs and any failure threshold.                                *)
(***************************************************************************)
EXTENDS TrmnlDevice, FiniteSetTheorems, TLAPS

(* The failure count stays below the threshold except while the networks   *)
(* are being wiped.                                                        *)
CountInv ==
  /\ nvs.fails < Threshold
  /\ IF pc = "wipeSd" THEN st.fails = Threshold ELSE st.fails < Threshold

TInv == TypeOK /\ CountInv

USE NoneAssumption, ThresholdAssumption, DefaultAssumption, SsidAssumption

(* Where RAM holds no state yet, or no more.                               *)
Unloaded == {"boot", "off", "asleep"}

(* The labels of NVS saves, spelled out for the provers.                   *)
LEMMA NvsLabels ==
  /\ DOMAIN AfterNvsSave = {"setupNvs", "resetNvs", "otaNvs", "wipeNvs",
                            "refreshNvs", "portalNvs", "cycleNvs"}
  /\ AfterNvsSave["setupNvs"] = "setupShow"
  /\ AfterNvsSave["resetNvs"] = "resetSd"
  /\ AfterNvsSave["otaNvs"] = "boot"
  /\ AfterNvsSave["wipeNvs"] = "boot"
  /\ AfterNvsSave["refreshNvs"] = "boot"
  /\ AfterNvsSave["portalNvs"] = "boot"
  /\ AfterNvsSave["cycleNvs"] = "hold"
BY DEF AfterNvsSave

(* The constructed and the factory state are states.                       *)
LEMMA BlankTyped ==
  /\ Blank \in State /\ Blank.fails = 0 /\ ~Blank.portal /\ Blank.key = None
  /\ Factory \in State /\ Factory.fails = 0 /\ ~Factory.portal
  /\ KeyFits(Blank) /\ KeyFits(Factory)
BY DEF Blank, Factory, State, OrNone, KeyFits

(* So is the empty store of networks.                                      *)
LEMMA NoNetworksTyped == NoNetworks \in Store /\ NoNetworks.ssids = {}
BY DEF NoNetworks, Store

(* Cutting a save short mixes the fields of two states.                    *)
LEMMA TornTyped ==
  ASSUME NEW old \in State, NEW new \in State, NEW k \in 0 .. Puts
  PROVE  /\ TornSave(old, new, k) \in State
         /\ TornSave(old, new, k).fails \in {old.fails, new.fails}
BY DEF TornSave, State, Puts

(* The request for the portal is put last.                                 *)
LEMMA TornPortal ==
  ASSUME NEW old \in State, NEW new \in State, NEW k \in 0 .. Puts,
         TornSave(old, new, k) # new
  PROVE  TornSave(old, new, k).portal = old.portal
<1>1. CASE k = Puts
  BY <1>1 DEF TornSave, State, Puts
<1>2. CASE k # Puts
  <2>1. ~(k >= 6)
    BY <1>2 DEF Puts
  <2>. QED
    BY <2>1, Zenon DEF TornSave
<1>. QED
  BY <1>1, <1>2

(* A store without a free place is not empty.                              *)
LEMMA FullIsNotEmpty ==
  ASSUME NEW store \in Store, NEW ssid \in Ssids, ~CanAdd(store, ssid)
  PROVE  store.ssids # {}
BY FS_EmptySet DEF CanAdd, Store

(* The device starts out with the types it keeps.                          *)
LEMMA TypeInit == Init => TInv
<1> SUFFICES ASSUME Init PROVE TInv
  OBVIOUS
<1>1. nvs \in State /\ st \in State /\ wifi \in Store /\ nvs.fails = 0 /\ st.fails = 0
  BY BlankTyped, NoNetworksTyped DEF Init
<1>2. form \in Form /\ panel \in Pictures
  BY DEF Init, Pictures, Form, NoForm, Fields, OrNone, Notice, Picture
<1>3. pc \in Labels
  BY DEF Init, Labels
<1>4. sd \in Store \cup {Torn} /\ image \in OrNone(Urls) /\ rate \in Rates /\ timer \in Rates
  BY DEF Init, OrNone, Rates
<1>5. online \in BOOLEAN /\ pressed \in BOOLEAN /\ outage \in BOOLEAN /\ resetDone \in BOOLEAN
  BY Zenon DEF Init
<1>6. failRun \in 0 .. Threshold /\ tried \in 0 .. 2
  BY DEF Init
<1>7. TypeOK
  BY <1>1, <1>2, <1>3, <1>4, <1>5, <1>6, Zenon DEF TypeOK
<1>8. CountInv
  BY <1>1 DEF Init, CountInv
<1>. QED
  BY <1>7, <1>8 DEF TInv

(* A restart puts the volatile state where Init has it.                    *)
LEMMA RestartTyped ==
  ASSUME Restart
  PROVE  /\ st' \in State /\ st'.fails = 0 /\ st' = Blank
         /\ wifi' \in Store /\ form' \in Form
         /\ rate' \in Rates /\ timer' \in Rates
         /\ pc' = "boot" /\ online' = FALSE
BY BlankTyped, NoNetworksTyped DEF Restart, Form, NoForm, Fields, OrNone, Rates

(* A notice is a picture.                                                  *)
LEMMA NoticeTyped == Notice \in Pictures
BY DEF Notice, Picture, Pictures, OrNone

(* The form of a program that saves none.                                  *)
LEMMA NoFormTyped == NoForm \in Form
BY DEF NoForm, Form, Fields, OrNone

(* How a step that does not touch TRMNL_STATE treats it: the state stays,  *)
(* and so does where the program is as far as the invariants care, or the  *)
(* state is lost with RAM.                                                 *)
StateKept ==
  /\ st' = st
  /\ pc' = "wipeSd" <=> pc = "wipeSd"
  /\ pc' = "resetNvs" => pc = "resetNvs"
  /\ pc' = "noCard" => pc = "noCard" \/ SdFaults
  /\ pc \in Unloaded \cup {"portalNvs"} => pc' = pc \/ pc' = "boot" \/ SdFaults
StateLost == st' = Blank /\ pc' \in Unloaded

(* The steps that touch TRMNL_STATE in RAM; every other one leaves it as   *)
(* it is or loses it.                                                      *)
LEMMA StateSteps ==
  ASSUME [Next]_vars
  PROVE  \/ StateKept
         \/ StateLost
         \/ Boot \/ (\E ssid \in Ssids : Joined(ssid)) \/ NotJoined
         \/ WipeStored \/ CmdWipeStored
         \/ SetupOk \/ (\E file \in OrNone(Files) : SetupPicture(file))
         \/ DisplayReset \/ (\E url \in Urls : DisplayOta(url))
         \/ \E file \in OrNone(Files) : ShowRendered(file)
         \/ FormAccepted \/ CmdWipe \/ CmdRefresh
BY NvsLabels DEF Next, Firmware, SetUp, Connect, Provision, Display, HandleForm, User,
   OutageBegins, CutOff, SaveNvs, InNvsSave, Restart, BootNoCard, SeedStored, EnterPortal,
   EnterCycle, JoinedStored, SetupSplash, SetupFailed, DisplayFailed,
   DisplayGoesOn, Answered, ResetStored, ShowRefusal, ShowHit, ShowFailed,
   FormAdded, FormRejected, Sleep, TimerWake, FormSent, LongPress, ButtonWake,
   TapTooShort, Goto, Unloaded, StateKept, StateLost, vars, stores, ram, history

(* The state in RAM keeps its type and its bound on the failure count; only *)
(* a failed wake raises the count.                                         *)
LEMMA StateTyped ==
  ASSUME TInv, [Next]_vars
  PROVE  /\ st' \in State
         /\ IF pc' = "wipeSd" THEN st'.fails = Threshold ELSE st'.fails < Threshold
         /\ NotJoined \/ st'.fails \in {0, st.fails, nvs.fails}
<1> DEFINE Good == /\ st' \in State
                   /\ IF pc' = "wipeSd" THEN st'.fails = Threshold ELSE st'.fails < Threshold
                   /\ NotJoined \/ st'.fails \in {0, st.fails, nvs.fails}
<1> USE DEF TInv, TypeOK, CountInv, Goto
<1>1. CASE StateKept
  BY <1>1 DEF StateKept
<1>2. CASE StateLost
  BY <1>2, BlankTyped DEF StateLost, Unloaded
<1>3. CASE Boot
  <2>1. st' = nvs /\ pc' \in {"seedSd", "decide"}
    BY <1>3 DEF Boot
  <2>. QED
    BY <2>1
<1>4. ASSUME NEW ssid \in Ssids, Joined(ssid) PROVE Good
  BY <1>4 DEF Joined, State
<1>5. CASE NotJoined
  BY <1>5 DEF NotJoined, TooManyFails, State
<1>6. CASE WipeStored
  <2>1. st' = [st EXCEPT !.fails = 0, !.portal = TRUE] /\ pc' = "wipeNvs"
    BY <1>6 DEF WipeStored
  <2>2. [st EXCEPT !.fails = 0] \in State
    BY DEF State
  <2>3. \A s \in State : [s EXCEPT !.portal = TRUE] \in State
    BY DEF State
  <2>4. st' \in State
    BY <2>1, <2>2, <2>3, Zenon
  <2>5. st'.fails = 0
    BY <2>1 DEF State
  <2>. QED
    BY <2>1, <2>4, <2>5
<1>7. CASE CmdWipeStored
  BY <1>7 DEF CmdWipeStored, State
<1>8. CASE SetupOk
  BY <1>8 DEF SetupOk, State, OrNone
<1>9. ASSUME NEW file \in OrNone(Files), SetupPicture(file) PROVE Good
  BY <1>9 DEF SetupPicture, State
<1>10. CASE DisplayReset
  <2>1. Unprovisioned(st) \in State /\ Unprovisioned(st).fails = 0
    BY DEF Unprovisioned, State, OrNone
  <2>. QED
    BY <1>10, <2>1 DEF DisplayReset
<1>11. ASSUME NEW url \in Urls, DisplayOta(url) PROVE Good
  BY <1>11 DEF DisplayOta, Answered, State, OrNone
<1>12. ASSUME NEW file \in OrNone(Files), ShowRendered(file) PROVE Good
  BY <1>12 DEF ShowRendered, Remember, State
<1>13. CASE FormAccepted
  <2>1. form.server \in OrNone(Servers)
    BY <1>13 DEF FormAccepted, Form, Fields
  <2>. QED
    BY <1>13, <2>1 DEF FormAccepted, WithForm, State, OrNone
<1>14. CASE CmdWipe \/ CmdRefresh
  BY <1>14 DEF CmdWipe, CmdRefresh, TakesCommands, State, OrNone
<1>. QED
  BY StateSteps, <1>1, <1>2, <1>3, <1>4, <1>5, <1>6, <1>7, <1>8, <1>9, <1>10, <1>11, <1>12,
     <1>13, <1>14

(* NVS changes in a save, whole or cut short.                              *)
LEMMA NvsSteps ==
  ASSUME [Next]_vars
  PROVE  nvs' = nvs \/ SaveNvs \/ CutOff
BY DEF Next, Firmware, SetUp, Connect, Provision, Display, HandleForm, User, vars,
   stores, ram, history, OutageBegins, Boot, BootNoCard, SeedStored,
   EnterPortal, EnterCycle, Joined, JoinedStored, NotJoined, WipeStored,
   SetupOk, SetupSplash, SetupFailed, SetupPicture, DisplayFailed,
   DisplayReset, DisplayGoesOn, DisplayOta, ResetStored, ShowRefusal, ShowHit,
   ShowRendered, ShowFailed, FormAdded, FormRejected, FormAccepted,
   CmdWipeStored, Sleep, TimerWake, FormSent, CmdWipe, CmdRefresh, LongPress,
   ButtonWake, TapTooShort

(* What a save leaves in NVS, whole or cut short, is a state.              *)
LEMMA NvsTyped ==
  ASSUME TInv, [Next]_vars
  PROVE  nvs' \in State /\ nvs'.fails < Threshold
<1> USE DEF TInv, TypeOK, CountInv
<1>1. CASE nvs' = nvs
  BY <1>1
<1>2. CASE SaveNvs
  BY <1>2, NvsLabels DEF SaveNvs, InNvsSave
<1>3. CASE CutOff /\ ~InNvsSave
  BY <1>3 DEF CutOff
<1>4. CASE CutOff /\ InNvsSave
  <2>1. st.fails < Threshold
    BY <1>4, NvsLabels DEF InNvsSave
  <2>2. PICK k \in 0 .. Puts : nvs' = TornSave(nvs, st, k)
    BY <1>4 DEF CutOff
  <2>3. /\ TornSave(nvs, st, k) \in State
        /\ TornSave(nvs, st, k).fails \in {nvs.fails, st.fails}
    BY TornTyped
  <2>. QED
    BY <2>1, <2>2, <2>3
<1>. QED
  BY NvsSteps, <1>1, <1>2, <1>3, <1>4

(* Only an update touches the boot partition.                              *)
LEMMA ImageTyped ==
  ASSUME image \in OrNone(Urls), [Next]_vars
  PROVE  image' \in OrNone(Urls)
<1>1. \/ image' = image
      \/ \E url \in Urls : DisplayOta(url)
  BY DEF Next, Firmware, SetUp, Connect, Provision, Display, HandleForm, User,
     vars, stores, ram, history, CutOff, OutageBegins, SaveNvs, Boot,
     BootNoCard, SeedStored, EnterPortal, EnterCycle, Joined, JoinedStored,
     NotJoined, WipeStored, SetupOk, SetupSplash, SetupFailed, SetupPicture,
     DisplayFailed, DisplayReset, DisplayGoesOn, ResetStored, ShowRefusal,
     ShowHit, ShowRendered, ShowFailed, FormAdded, FormRejected, FormAccepted,
     CmdWipeStored, Sleep, TimerWake, FormSent, CmdWipe, CmdRefresh,
     LongPress, ButtonWake, TapTooShort
<1>2. CASE image' = image
  BY <1>2
<1>3. ASSUME NEW url \in Urls, DisplayOta(url)
      PROVE  image' \in OrNone(Urls)
  BY <1>3 DEF DisplayOta, OrNone
<1>. QED
  BY <1>1, <1>2, <1>3

(* The card gets what RAM holds, or what a cut leaves of it.               *)
LEMMA SdTyped ==
  ASSUME sd \in Store \cup {Torn}, wifi \in Store, [Next]_vars
  PROVE  sd' \in Store \cup {Torn}
<1>1. \/ sd' = sd
      \/ SeedStored \/ JoinedStored \/ WipeStored \/ CmdWipeStored \/
         ResetStored \/ FormAdded \/ FormRejected \/ FormAccepted
      \/ CutOff
  BY DEF Next, Firmware, SetUp, Connect, Provision, Display, HandleForm, User,
     vars, stores, ram, history, OutageBegins, SaveNvs, Boot, BootNoCard,
     EnterPortal, EnterCycle, Joined, NotJoined, SetupOk, SetupSplash,
     SetupFailed, SetupPicture, DisplayFailed, DisplayReset, DisplayGoesOn,
     DisplayOta, ShowRefusal, ShowHit, ShowRendered, ShowFailed, Sleep,
     TimerWake, FormSent, CmdWipe, CmdRefresh, LongPress, ButtonWake,
     TapTooShort
<1>2. CASE sd' = sd
  BY <1>2
<1>3. CASE SeedStored \/ JoinedStored \/ WipeStored \/ CmdWipeStored \/
           ResetStored \/ FormAdded \/ FormRejected \/ FormAccepted
  BY <1>3 DEF SeedStored, JoinedStored, WipeStored, CmdWipeStored, ResetStored,
      FormAdded, FormRejected, FormAccepted, WriteSd
<1>4. CASE CutOff
  BY <1>4 DEF CutOff
<1>. QED
  BY <1>1, <1>2, <1>3, <1>4

(* The list of networks stays a list of networks.                          *)
LEMMA WifiTyped ==
  ASSUME sd \in Store \cup {Torn}, wifi \in Store, form \in Form, [Next]_vars
  PROVE  wifi' \in Store
<1>1. \/ wifi' = wifi
      \/ Boot
      \/ (\E ssid \in Ssids : Joined(ssid))
      \/ (\E ssid \in Ssids, server \in Fields : FormSent(ssid, server))
      \/ FormAdded
      \/ SaveNvs \/ ResetStored \/ TimerWake \/ ButtonWake \/ CutOff
      \/ NotJoined \/ CmdWipe \/ LongPress \/ TapTooShort \/ Sleep
  BY DEF Next, Firmware, SetUp, Connect, Provision, Display, HandleForm, User,
     vars, stores, ram, history, OutageBegins, BootNoCard, SeedStored,
     EnterPortal, EnterCycle, JoinedStored, WipeStored, SetupOk, SetupSplash,
     SetupFailed, SetupPicture, DisplayFailed, DisplayReset, DisplayGoesOn,
     DisplayOta, ShowRefusal, ShowHit, ShowRendered, ShowFailed, FormRejected,
     FormAccepted, CmdWipeStored, CmdRefresh
<1>2. CASE wifi' = wifi
  BY <1>2
<1>3. CASE Boot
  BY <1>3, NoNetworksTyped, DeviceAssumption DEF Boot, Loaded, Added, Store
<1>4. ASSUME NEW ssid \in Ssids, Joined(ssid)
      PROVE  wifi' \in Store
  BY <1>4 DEF Joined, WithLast, Store
<1>5. ASSUME NEW ssid \in Ssids, NEW server \in Fields, FormSent(ssid, server)
      PROVE  wifi' \in Store
  BY <1>5 DEF FormSent, WithLast, Added, Store
<1>6. CASE FormAdded
  BY <1>6 DEF FormAdded, WithLast, Form, Store
<1>7. CASE SaveNvs \/ ResetStored \/ TimerWake \/ ButtonWake \/ CutOff
  BY <1>7, NoNetworksTyped DEF SaveNvs, ResetStored, TimerWake, ButtonWake, CutOff, Restart
<1>8. CASE NotJoined \/ CmdWipe \/ LongPress \/ TapTooShort \/ Sleep
  BY <1>8, NoNetworksTyped DEF NotJoined, CmdWipe, LongPress, TapTooShort, Sleep
<1>. QED
  BY <1>1, <1>2, <1>3, <1>4, <1>5, <1>6, <1>7, <1>8

(* Steps that draw; every other one leaves the panel alone.                *)
LEMMA PanelSteps ==
  ASSUME [Next]_vars
  PROVE  \/ panel' = panel
         \/ \E file \in OrNone(Files) : SetupPicture(file) \/ ShowRendered(file)
         \/ BootNoCard \/ EnterPortal \/ NotJoined \/ SetupSplash \/ SetupFailed
         \/ ShowRefusal
BY DEF Next, Firmware, SetUp, Connect, Provision, Display, HandleForm, User,
   vars, stores, ram, history, CutOff, OutageBegins, SaveNvs, Boot,
   SeedStored, EnterCycle, Joined, JoinedStored, WipeStored, SetupOk,
   DisplayFailed, DisplayReset, DisplayGoesOn, DisplayOta, ResetStored,
   ShowHit, ShowFailed, FormAdded, FormRejected, FormAccepted,
   CmdWipeStored, Sleep, TimerWake, FormSent, CmdWipe, CmdRefresh,
   LongPress, ButtonWake, TapTooShort

(* What is drawn is a notice or a file of the server in RAM.               *)
LEMMA PanelTyped ==
  ASSUME panel \in Pictures, st \in State, [Next]_vars
  PROVE  panel' \in Pictures
<1>2. CASE panel' = panel
  BY <1>2
<1>3. ASSUME NEW file \in OrNone(Files), SetupPicture(file) \/ ShowRendered(file)
      PROVE  panel' \in Pictures
  BY <1>3 DEF SetupPicture, ShowRendered, Picture, Pictures, State
<1>4. CASE BootNoCard \/ EnterPortal \/ NotJoined \/ SetupSplash \/
           SetupFailed \/ ShowRefusal
  BY <1>4, NoticeTyped DEF BootNoCard, EnterPortal, NotJoined, SetupSplash, SetupFailed,
      ShowRefusal
<1>. QED
  BY PanelSteps, <1>2, <1>3, <1>4

(* The form is one the portal page can send.                               *)
LEMMA FormTyped ==
  ASSUME form \in Form, [Next]_vars
  PROVE  form' \in Form
<1>1. \/ form' = form
      \/ (\E ssid \in Ssids, server \in Fields : FormSent(ssid, server))
      \/ FormRejected
      \/ SaveNvs \/ ResetStored \/ TimerWake \/ ButtonWake \/ CutOff
  BY DEF Next, Firmware, SetUp, Connect, Provision, Display, HandleForm, User,
     vars, stores, ram, history, OutageBegins, Boot, BootNoCard, SeedStored,
     EnterPortal, EnterCycle, Joined, JoinedStored, NotJoined, WipeStored,
     SetupOk, SetupSplash, SetupFailed, SetupPicture, DisplayFailed,
     DisplayReset, DisplayGoesOn, DisplayOta, ShowRefusal, ShowHit,
     ShowRendered, ShowFailed, FormAdded, FormAccepted, CmdWipeStored, Sleep,
     CmdWipe, CmdRefresh, LongPress, TapTooShort
<1>2. CASE form' = form
  BY <1>2
<1>3. ASSUME NEW ssid \in Ssids, NEW server \in Fields, FormSent(ssid, server)
      PROVE  form' \in Form
  BY <1>3 DEF FormSent, Form
<1>4. CASE FormRejected
  BY <1>4, NoFormTyped DEF FormRejected
<1>5. CASE SaveNvs \/ ResetStored \/ TimerWake \/ ButtonWake \/ CutOff
  BY <1>5, NoFormTyped DEF SaveNvs, ResetStored, TimerWake, ButtonWake, CutOff, Restart
<1>. QED
  BY <1>1, <1>2, <1>3, <1>4, <1>5

(* Intervals stay among the rates.                                         *)
LEMMA RatesTyped ==
  ASSUME rate \in Rates, timer \in Rates, [Next]_vars
  PROVE  rate' \in Rates /\ timer' \in Rates
<1>1. \/ rate' = rate /\ timer' = timer
      \/ Sleep
      \/ \E file \in OrNone(Files) :
           SetupPicture(file) \/ ShowHit(file) \/ ShowRendered(file) \/ ShowFailed(file)
      \/ SetupSplash \/ SetupFailed \/ ShowRefusal
      \/ SaveNvs \/ ResetStored \/ TimerWake \/ ButtonWake \/ CutOff
  BY DEF Next, Firmware, SetUp, Connect, Provision, Display, HandleForm, User,
     vars, stores, ram, history, OutageBegins, Boot, BootNoCard, SeedStored,
     EnterPortal, EnterCycle, Joined, JoinedStored, NotJoined, WipeStored,
     SetupOk, DisplayFailed, DisplayReset, DisplayGoesOn, DisplayOta,
     FormAdded, FormRejected, FormAccepted, CmdWipeStored, FormSent, CmdWipe,
     CmdRefresh, LongPress, TapTooShort
<1>2. CASE rate' = rate /\ timer' = timer
  BY <1>2
<1>3. CASE Sleep
  BY <1>3 DEF Sleep, Rates, Default, RefreshSec
<1>4. ASSUME NEW file \in OrNone(Files),
             SetupPicture(file) \/ ShowHit(file) \/ ShowRendered(file) \/ ShowFailed(file)
      PROVE  rate' \in Rates /\ timer' \in Rates
  BY <1>4 DEF SetupPicture, ShowHit, ShowRendered, ShowFailed, Rates, Default
<1>5. CASE SetupSplash \/ SetupFailed \/ ShowRefusal
  BY <1>5 DEF SetupSplash, SetupFailed, ShowRefusal, Rates, Default
<1>6. CASE SaveNvs \/ ResetStored \/ TimerWake \/ ButtonWake \/ CutOff
  BY <1>6 DEF SaveNvs, ResetStored, TimerWake, ButtonWake, CutOff, Restart, Rates
<1>. QED
  BY <1>1, <1>2, <1>3, <1>4, <1>5, <1>6

(* The history counters stay within their caps.                            *)
LEMMA HistoryTyped ==
  ASSUME failRun \in 0 .. Threshold, tried \in 0 .. 2, [Next]_vars
  PROVE  failRun' \in 0 .. Threshold /\ tried' \in 0 .. 2
<1>1. \/ failRun' = failRun /\ tried' = tried
      \/ NotJoined
      \/ SaveNvs \/ CutOff
  BY DEF Next, Firmware, SetUp, Connect, Provision, Display, HandleForm, User,
     vars, stores, ram, history, OutageBegins, Boot, BootNoCard, SeedStored,
     EnterPortal, EnterCycle, Joined, JoinedStored, WipeStored, SetupOk,
     SetupSplash, SetupFailed, SetupPicture, DisplayFailed, DisplayReset,
     DisplayGoesOn, DisplayOta, ResetStored, ShowRefusal, ShowHit,
     ShowRendered, ShowFailed, FormAdded, FormRejected, FormAccepted,
     CmdWipeStored, Sleep, TimerWake, FormSent, CmdWipe, CmdRefresh,
     LongPress, ButtonWake, TapTooShort
<1>2. CASE failRun' = failRun /\ tried' = tried
  BY <1>2
<1>3. CASE NotJoined
  BY <1>3 DEF NotJoined, AddCapped
<1>4. CASE SaveNvs \/ CutOff
  BY <1>4 DEF SaveNvs, CutOff, NoteSaved, history
<1>. QED
  BY <1>1, <1>2, <1>3, <1>4

(* resetDone is a flag.                                                    *)
LEMMA ResetDoneTyped ==
  ASSUME resetDone \in BOOLEAN, [Next]_vars
  PROVE  resetDone' \in BOOLEAN
<1>1. \/ resetDone' = resetDone
      \/ SaveNvs \/ CutOff
  BY DEF Next, Firmware, SetUp, Connect, Provision, Display, HandleForm, User,
     vars, stores, ram, history, OutageBegins, Boot, BootNoCard, SeedStored,
     EnterPortal, EnterCycle, Joined, JoinedStored, NotJoined, WipeStored,
     SetupOk, SetupSplash, SetupFailed, SetupPicture, DisplayFailed,
     DisplayReset, DisplayGoesOn, DisplayOta, ResetStored, ShowRefusal,
     ShowHit, ShowRendered, ShowFailed, FormAdded, FormRejected, FormAccepted,
     CmdWipeStored, Sleep, TimerWake, FormSent, CmdWipe, CmdRefresh,
     LongPress, ButtonWake, TapTooShort
<1>2. CASE resetDone' = resetDone
  BY <1>2
<1>3. CASE SaveNvs \/ CutOff
  BY <1>3 DEF SaveNvs, CutOff, NoteSaved, history
<1>. QED
  BY <1>1, <1>2, <1>3

(* Every step ends at a label.                                             *)
LEMMA PcTyped ==
  ASSUME pc \in Labels, [Next]_vars
  PROVE  pc' \in Labels
BY NvsLabels DEF Labels, CyclePcs, SdWrites, InNvsSave, Next, Firmware, SetUp,
   Connect, Provision, Display, HandleForm, User, Goto,
   Answered, Restart, CutOff, OutageBegins, SaveNvs, Boot, BootNoCard,
   SeedStored, EnterPortal, EnterCycle, Joined, JoinedStored, NotJoined,
   WipeStored, SetupOk, SetupSplash, SetupFailed, SetupPicture, DisplayFailed,
   DisplayReset, DisplayGoesOn, DisplayOta, ResetStored, ShowRefusal, ShowHit,
   ShowRendered, ShowFailed, FormAdded, FormRejected, FormAccepted,
   CmdWipeStored, Sleep, TimerWake, FormSent, CmdWipe, CmdRefresh, LongPress,
   ButtonWake, TapTooShort, vars, stores, ram

(* The flags stay flags.                                                   *)
LEMMA FlagsTyped ==
  ASSUME online \in BOOLEAN, pressed \in BOOLEAN, outage \in BOOLEAN, [Next]_vars
  PROVE  online' \in BOOLEAN /\ pressed' \in BOOLEAN /\ outage' \in BOOLEAN
BY Zenon DEF Next, Firmware, SetUp, Connect, Provision, Display, HandleForm, User, Goto,
   Answered, Restart, CutOff, OutageBegins, SaveNvs, Boot, BootNoCard,
   SeedStored, EnterPortal, EnterCycle, Joined, JoinedStored, NotJoined,
   WipeStored, SetupOk, SetupSplash, SetupFailed, SetupPicture, DisplayFailed,
   DisplayReset, DisplayGoesOn, DisplayOta, ResetStored, ShowRefusal, ShowHit,
   ShowRendered, ShowFailed, FormAdded, FormRejected, FormAccepted,
   CmdWipeStored, Sleep, TimerWake, FormSent, CmdWipe, CmdRefresh, LongPress,
   ButtonWake, TapTooShort, vars, stores, ram

(* The lemmas above, put together for one step.                            *)
LEMMA TypeNext == TInv /\ [Next]_vars => TInv'
<1> SUFFICES ASSUME TInv, [Next]_vars PROVE TInv'
  OBVIOUS
<1>1. TypeOK
  BY DEF TInv
<1>2. /\ st' \in State /\ nvs' \in State /\ CountInv'
  BY StateTyped, NvsTyped DEF CountInv
<1>3. sd' \in Store \cup {Torn} /\ wifi' \in Store
  BY <1>1, SdTyped, WifiTyped DEF TypeOK
<1>4. panel' \in Pictures /\ image' \in OrNone(Urls)
  BY <1>1, PanelTyped, ImageTyped DEF TypeOK
<1>5. pc' \in Labels /\ form' \in Form
  BY <1>1, PcTyped, FormTyped DEF TypeOK
<1>6. online' \in BOOLEAN /\ pressed' \in BOOLEAN /\ outage' \in BOOLEAN
  BY <1>1, FlagsTyped DEF TypeOK
<1>7. resetDone' \in BOOLEAN
  BY <1>1, ResetDoneTyped DEF TypeOK
<1>8. rate' \in Rates /\ timer' \in Rates
  BY <1>1, RatesTyped DEF TypeOK
<1>9. failRun' \in 0 .. Threshold /\ tried' \in 0 .. 2
  BY <1>1, HistoryTyped DEF TypeOK
<1>. QED
  BY <1>2, <1>3, <1>4, <1>5, <1>6, <1>7, <1>8, <1>9 DEF TInv, TypeOK

(* Types and counts hold in every reachable state.                         *)
LEMMA TypeInductive == Spec => []TInv
<1>1. Init => TInv
  BY TypeInit
<1>2. TInv /\ [Next]_vars => TInv'
  BY TypeNext
<1>. QED
  BY <1>1, <1>2, PTL DEF Spec

(* Every variable keeps its type, and with it the count of failed wakes    *)
(* its bound, for any number of servers, files and networks.               *)
THEOREM TypeCorrect == Spec => []TypeOK
<1>1. TInv => TypeOK
  BY DEF TInv
<1>. QED
  BY <1>1, TypeInductive, PTL

(* What the count of failed wakes vouches for, in RAM and in NVS: at least *)
(* that many wakes in a row failed.                                        *)
RunInv == st.fails <= failRun /\ nvs.fails <= failRun

(* History moves with a save, a cut or a failed wake.                      *)
LEMMA HistorySteps ==
  ASSUME [Next]_vars
  PROVE  UNCHANGED history \/ SaveNvs \/ CutOff \/ NotJoined
BY DEF Next, Firmware, SetUp, Connect, Provision, Display, HandleForm, User, vars,
   stores, ram, history, OutageBegins, Boot, BootNoCard, SeedStored,
   EnterPortal, EnterCycle, Joined, JoinedStored, WipeStored, SetupOk,
   SetupSplash, SetupFailed, SetupPicture, DisplayFailed, DisplayReset,
   DisplayGoesOn, DisplayOta, ResetStored, ShowRefusal, ShowHit, ShowRendered,
   ShowFailed, FormAdded, FormRejected, FormAccepted, CmdWipeStored, Sleep,
   TimerWake, FormSent, CmdWipe, CmdRefresh, LongPress, ButtonWake,
   TapTooShort

(* No step counts a failed wake that did not happen.                       *)
LEMMA RunNext ==
  ASSUME TInv, RunInv, [Next]_vars
  PROVE  RunInv'
<1>1. /\ failRun \in 0 .. Threshold /\ st \in State /\ nvs \in State
      /\ st.fails \in 0 .. Threshold /\ nvs.fails \in 0 .. Threshold
  BY DEF TInv, TypeOK, State
<1>2. CASE SaveNvs
  <2>1. nvs' = st /\ (failRun' = failRun \/ (failRun' = 0 /\ st.fails = 0))
    BY <1>2 DEF SaveNvs, NoteSaved
  <2>2. st' = st \/ st' = Blank
    BY <1>2 DEF SaveNvs, Restart
  <2>. QED
    BY <1>1, <2>1, <2>2, BlankTyped DEF RunInv
<1>3. CASE CutOff
  <2>1. st' = Blank
    BY <1>3 DEF CutOff, Restart
  <2>2. CASE InNvsSave /\ nvs' = st
    BY <1>1, <1>3, <2>1, <2>2, BlankTyped DEF CutOff, NoteSaved, RunInv
  <2>3. CASE ~(InNvsSave /\ nvs' = st)
    <3>1. failRun' = failRun
      BY <1>3, <2>3 DEF CutOff, history
    <3>2. nvs'.fails \in {nvs.fails, st.fails}
      <4>1. CASE ~InNvsSave
        BY <1>3, <4>1 DEF CutOff
      <4>2. CASE InNvsSave
        <5>1. PICK k \in 0 .. Puts : nvs' = TornSave(nvs, st, k)
          BY <1>3, <4>2 DEF CutOff
        <5>2. TornSave(nvs, st, k).fails \in {nvs.fails, st.fails}
          BY <1>1, TornTyped
        <5>. QED
          BY <5>1, <5>2
      <4>. QED
        BY <4>1, <4>2
    <3>. QED
      BY <1>1, <2>1, <3>1, <3>2, BlankTyped DEF RunInv
  <2>. QED
    BY <2>2, <2>3
<1>4. CASE NotJoined
  <2>1. st'.fails = st.fails + 1 /\ nvs' = nvs
    BY <1>1, <1>4 DEF NotJoined, State
  <2>2. failRun' = AddCapped(failRun, Threshold)
    BY <1>4 DEF NotJoined
  <2>3. st.fails < Threshold
    BY <1>4 DEF NotJoined, TInv, CountInv
  <2>. QED
    BY <1>1, <2>1, <2>2, <2>3 DEF AddCapped, RunInv
<1>5. CASE UNCHANGED history /\ ~SaveNvs /\ ~CutOff /\ ~NotJoined
  BY <1>1, <1>5, NvsSteps, StateTyped DEF history, RunInv
<1>. QED
  BY HistorySteps, <1>2, <1>3, <1>4, <1>5

(* The networks are only dropped for failing after Threshold failed wakes  *)
(* in a row, wherever power fails and whatever the card does.              *)
THEOREM WipeIsAlwaysEarned == Spec => []WipeIsEarned
<1>1. Init => RunInv
  BY BlankTyped DEF Init, RunInv
<1>2. TInv /\ RunInv /\ [Next]_vars => RunInv'
  BY RunNext
<1>3. TInv /\ RunInv => WipeIsEarned
  <2>1. SUFFICES ASSUME TInv, RunInv, pc = "wipeSd" PROVE failRun = Threshold
    BY DEF WipeIsEarned
  <2>2. st.fails = Threshold /\ failRun \in 0 .. Threshold
    BY <2>1 DEF TInv, TypeOK, CountInv
  <2>. QED
    BY <2>1, <2>2 DEF RunInv
<1>. QED
  BY <1>1, <1>2, <1>3, TypeInductive, PTL DEF Spec

(* One step keeps both keys with the server they are stored with.          *)
LEMMA KeyNext ==
  ASSUME ~PowerLoss, TInv, KeyBelongsToServer, [Next]_vars
  PROVE  KeyBelongsToServer'
<1>1. nvs \in State /\ st \in State /\ KeyFits(nvs) /\ KeyFits(st)
  BY DEF TInv, TypeOK, KeyBelongsToServer
<1>2. KeyFits(nvs')
  <2>1. ~CutOff
    BY DEF CutOff
  <2>. QED
    BY <1>1, <2>1, NvsSteps DEF SaveNvs
<1>3. KeyFits(st')
  <2>1. CASE StateKept \/ StateLost \/ Boot
    BY <1>1, <2>1, BlankTyped DEF Boot, StateKept, StateLost
  <2>2. ASSUME NEW ssid \in Ssids, Joined(ssid) PROVE KeyFits(st')
    BY <1>1, <2>2 DEF Joined, State, KeyFits
  <2>3. CASE NotJoined
    BY <1>1, <2>3 DEF NotJoined, State, KeyFits
  <2>4. CASE WipeStored
    BY <1>1, <2>4 DEF WipeStored, State, KeyFits
  <2>5. CASE CmdWipeStored
    BY <1>1, <2>5 DEF CmdWipeStored, State, KeyFits
  <2>6. CASE SetupOk
    BY <1>1, <2>6 DEF SetupOk, State, KeyFits
  <2>7. ASSUME NEW file \in OrNone(Files), SetupPicture(file) \/ ShowRendered(file)
        PROVE  KeyFits(st')
    BY <1>1, <2>7 DEF SetupPicture, ShowRendered, Remember, State, KeyFits
  <2>8. CASE DisplayReset
    BY <2>8 DEF DisplayReset, Unprovisioned, KeyFits
  <2>9. ASSUME NEW url \in Urls, DisplayOta(url) PROVE KeyFits(st')
    BY <1>1, <2>9 DEF DisplayOta, State, KeyFits
  <2>10. CASE FormAccepted
    <3>1. st' = WithForm(st, form.server)
      BY <2>10 DEF FormAccepted
    <3>2. KeyFits(WithForm(st, form.server))
      BY <1>1 DEF WithForm, State, KeyFits
    <3>. QED
      BY <3>1, <3>2
  <2>11. CASE CmdWipe \/ CmdRefresh
    BY <1>1, <2>11 DEF CmdWipe, CmdRefresh, State, KeyFits
  <2>. QED
    BY StateSteps, <2>1, <2>2, <2>3, <2>4, <2>5, <2>6, <2>7, <2>8, <2>9, <2>10, <2>11
<1>. QED
  BY <1>2, <1>3 DEF KeyBelongsToServer, KeyFits

(* As long as power does not fail, the key in NVS and the key in RAM were  *)
(* issued by the server they are stored with: a save of the portal that    *)
(* changes the server drops the key (CaptivePortalActivity.cpp:147-177).   *)
THEOREM KeyAlwaysBelongs ==
  ASSUME ~PowerLoss
  PROVE  Spec => []KeyBelongsToServer
<1>1. Init => KeyBelongsToServer
  BY BlankTyped DEF Init, KeyBelongsToServer
<1>2. TInv /\ KeyBelongsToServer /\ [Next]_vars => KeyBelongsToServer'
  BY KeyNext
<1>. QED
  BY <1>1, <1>2, TypeInductive, PTL DEF Spec

(* With a card that works, a request for the portal that NVS holds is in   *)
(* RAM wherever RAM is loaded, until a form takes it back.                 *)
PortalInv ==
  /\ pc # "noCard"
  /\ pc = "resetNvs" => st.portal
  /\ nvs.portal => st.portal \/ pc \in Unloaded \cup {"portalNvs"}

(* Only a form takes the request for the portal out of a loaded RAM.       *)
LEMMA PortalNext ==
  ASSUME ~SdFaults, TInv, PortalInv, [Next]_vars
  PROVE  PortalInv'
<1>1. nvs \in State /\ st \in State
  BY DEF TInv, TypeOK
<1>2. CASE SaveNvs
  BY <1>2, NvsLabels DEF SaveNvs, InNvsSave, Restart, PortalInv, Unloaded
<1>3. CASE CutOff
  BY <1>3 DEF CutOff, Restart, PortalInv, Unloaded
<1>4. CASE nvs' = nvs /\ ~SaveNvs /\ ~CutOff
  <2> USE DEF PortalInv, Goto
  <2>1. CASE StateKept
    BY <1>4, <2>1 DEF StateKept, Unloaded
  <2>2. CASE StateLost
    BY <2>2 DEF StateLost, Unloaded
  <2>3. CASE Boot
    BY <1>4, <2>3 DEF Boot, Unloaded
  <2>4. ASSUME NEW ssid \in Ssids, Joined(ssid) PROVE PortalInv'
    BY <1>1, <1>4, <2>4 DEF Joined, State, Unloaded
  <2>5. CASE NotJoined
    BY <1>1, <1>4, <2>5 DEF NotJoined, State, Unloaded
  <2>6. CASE WipeStored \/ CmdWipeStored
    BY <1>1, <1>4, <2>6 DEF WipeStored, CmdWipeStored, State, Unloaded
  <2>7. CASE SetupOk
    BY <1>1, <1>4, <2>7 DEF SetupOk, State, Unloaded
  <2>8. ASSUME NEW file \in OrNone(Files), SetupPicture(file) \/ ShowRendered(file)
        PROVE  PortalInv'
    BY <1>1, <1>4, <2>8 DEF SetupPicture, ShowRendered, Remember, State, Unloaded
  <2>9. CASE DisplayReset
    BY <2>9 DEF DisplayReset, Unprovisioned
  <2>10. ASSUME NEW url \in Urls, DisplayOta(url) PROVE PortalInv'
    BY <1>1, <1>4, <2>10 DEF DisplayOta, Answered, State, Unloaded
  <2>11. CASE FormAccepted
    BY <2>11 DEF FormAccepted
  <2>12. CASE CmdWipe \/ CmdRefresh
    BY <1>1, <1>4, <2>12 DEF CmdWipe, CmdRefresh, TakesCommands, State, Unloaded
  <2>. QED
    BY StateSteps, <2>1, <2>2, <2>3, <2>4, <2>5, <2>6, <2>7, <2>8, <2>9, <2>10, <2>11, <2>12
<1>. QED
  BY NvsSteps, <1>2, <1>3, <1>4

(* The request stays in every reachable state.                             *)
LEMMA PortalInductive ==
  ASSUME ~SdFaults
  PROVE  Spec => []PortalInv
<1>1. Init => PortalInv
  BY DEF Init, PortalInv, Unloaded
<1>2. TInv /\ PortalInv /\ [Next]_vars => PortalInv'
  BY PortalNext
<1>. QED
  BY <1>1, <1>2, TypeInductive, PTL DEF Spec

(* After reset_firmware was saved the device is only ever in these places. *)
HeldLabels == {"resetSd", "boot", "decide", "portal", "addSd", "lastSd", "portalNvs",
               "cmdSd", "wipeNvs", "refreshNvs", "off"}
ResetInv == resetDone => nvs.portal /\ pc \in HeldLabels

(* From these places only a form leads on.                                 *)
LEMMA HeldSteps ==
  ASSUME ~SdFaults, pc \in HeldLabels, nvs.portal, PortalInv, pc # "resetNvs", [Next]_vars
  PROVE  pc' \in HeldLabels
BY NvsLabels DEF HeldLabels, PortalInv, Unloaded, WantsPortal, InNvsSave,
   Next, Firmware, SetUp, Connect, Provision, Display, HandleForm, User, Goto,
   Answered, Restart, CutOff, OutageBegins, SaveNvs, Boot, BootNoCard,
   SeedStored, EnterPortal, EnterCycle, Joined, JoinedStored, NotJoined,
   WipeStored, SetupOk, SetupSplash, SetupFailed, SetupPicture, DisplayFailed,
   DisplayReset, DisplayGoesOn, DisplayOta, ResetStored, ShowRefusal, ShowHit,
   ShowRendered, ShowFailed, FormAdded, FormRejected, FormAccepted,
   CmdWipeStored, Sleep, TimerWake, FormSent, CmdWipe, CmdRefresh, LongPress,
   ButtonWake, TapTooShort, vars, stores, ram

(* Nor does a save, cut short or not, lose the request before a form.      *)
LEMMA ResetNext ==
  ASSUME ~SdFaults, TInv, PortalInv, ResetInv, [Next]_vars
  PROVE  ResetInv'
<1>1. nvs \in State /\ st \in State
  BY DEF TInv, TypeOK
<1>2. CASE SaveNvs
  BY <1>2, NvsLabels
     DEF SaveNvs, NoteSaved, InNvsSave, Restart, PortalInv, ResetInv, Unloaded, HeldLabels
<1>3. CASE CutOff
  <2>1. pc' = "boot"
    BY <1>3 DEF CutOff, Restart
  <2>2. CASE InNvsSave /\ nvs' = st
    BY <1>3, <2>1, <2>2, NvsLabels
       DEF CutOff, NoteSaved, InNvsSave, PortalInv, ResetInv, Unloaded, HeldLabels
  <2>3. CASE ~(InNvsSave /\ nvs' = st)
    <3>1. resetDone' = resetDone
      BY <1>3, <2>3 DEF CutOff, history
    <3>2. nvs'.portal = nvs.portal
      <4>1. CASE ~InNvsSave
        BY <1>3, <4>1 DEF CutOff
      <4>2. CASE InNvsSave
        <5>1. PICK k \in 0 .. Puts : nvs' = TornSave(nvs, st, k)
          BY <1>3, <4>2 DEF CutOff
        <5>2. TornSave(nvs, st, k).portal = nvs.portal
          BY <1>1, <2>3, <4>2, <5>1, TornPortal
        <5>. QED
          BY <5>1, <5>2, Zenon
      <4>. QED
        BY <4>1, <4>2
    <3>. QED
      BY <2>1, <3>1, <3>2 DEF ResetInv, HeldLabels
  <2>. QED
    BY <2>2, <2>3
<1>4. CASE ~SaveNvs /\ ~CutOff
  <2>1. nvs' = nvs /\ resetDone' = resetDone
    BY <1>4, NvsSteps, HistorySteps DEF NotJoined, history
  <2>2. resetDone => pc' \in HeldLabels
    BY HeldSteps DEF ResetInv, HeldLabels
  <2>. QED
    BY <2>1, <2>2 DEF ResetInv
<1>. QED
  BY <1>2, <1>3, <1>4

(* With a card that works, no boot after reset_firmware was saved reaches  *)
(* the network or re-seeds the compiled-in one before a form is saved,     *)
(* wherever power fails.                                                   *)
THEOREM ResetIsAlwaysHonoured ==
  ASSUME ~SdFaults
  PROVE  Spec => []ResetIsHonoured
<1>1. Init => ResetInv
  BY DEF Init, ResetInv
<1>2. TInv /\ PortalInv /\ ResetInv /\ [Next]_vars => ResetInv'
  BY ResetNext
<1>3. ResetInv => ResetIsHonoured
  BY DEF ResetInv, ResetIsHonoured, HeldLabels, CyclePcs
<1>. QED
  BY <1>1, <1>2, <1>3, TypeInductive, PortalInductive, PTL DEF Spec

(* A form leaves a network on its way to the card, and on the card before  *)
(* NVS is written.                                                         *)
FormInv ==
  /\ pc \in {"addSd", "lastSd"} => wifi.ssids # {}
  /\ pc = "portalNvs" => sd # Torn /\ sd.ssids # {}

(* Each step of the form keeps the network.                                *)
LEMMA FormNext ==
  ASSUME ~SdFaults, TInv, FormInv, [Next]_vars
  PROVE  FormInv'
<1>1. wifi \in Store /\ form \in Form
  BY DEF TInv, TypeOK
<1>2. ASSUME NEW ssid \in Ssids, NEW server \in Fields, FormSent(ssid, server)
      PROVE  FormInv'
  <2>1. CASE CanAdd(wifi, ssid)
    BY <1>1, <1>2, <2>1 DEF FormSent, Added, Store, FormInv
  <2>2. CASE ~CanAdd(wifi, ssid)
    BY <1>1, <1>2, <2>2, FullIsNotEmpty DEF FormSent, WithLast, Store, FormInv
  <2>. QED
    BY <2>1, <2>2
<1>3. CASE FormAdded
  BY <1>1, <1>3 DEF FormAdded, Goto, WithLast, Store, FormInv
<1>4. CASE FormAccepted
  BY <1>1, <1>4, TornAssumption DEF FormAccepted, Goto, WriteSd, FormInv
<1>5. CASE UNCHANGED <<pc, wifi, sd>>
  BY <1>5 DEF FormInv
<1>6. CASE pc' \notin {"addSd", "lastSd", "portalNvs"}
  BY <1>6 DEF FormInv
<1>7. \/ \E ssid \in Ssids, server \in Fields : FormSent(ssid, server)
      \/ FormAdded \/ FormAccepted \/ UNCHANGED <<pc, wifi, sd>>
      \/ pc' \notin {"addSd", "lastSd", "portalNvs"}
  BY NvsLabels
  DEF InNvsSave, Next, Firmware, SetUp, Connect, Provision, Display, HandleForm, User,
   vars, stores, ram, history, Goto, Answered, Restart, CutOff, OutageBegins,
   SaveNvs, Boot, BootNoCard, SeedStored, EnterPortal, EnterCycle, Joined,
   JoinedStored, NotJoined, WipeStored, SetupOk, SetupSplash, SetupFailed,
   SetupPicture, DisplayFailed, DisplayReset, DisplayGoesOn, DisplayOta,
   ResetStored, ShowRefusal, ShowHit, ShowRendered, ShowFailed, FormRejected,
   CmdWipeStored, Sleep, TimerWake, CmdWipe, CmdRefresh, LongPress,
   ButtonWake, TapTooShort
<1>. QED
  BY <1>2, <1>3, <1>4, <1>5, <1>6, <1>7

(* With a card that works, the request for the portal is taken back only   *)
(* when a network is on the card, wherever power fails.                    *)
THEOREM PortalAlwaysLeftWithNetworks ==
  ASSUME ~SdFaults
  PROVE  Spec => PortalLeftWithNetworks
<1>1. Init => FormInv
  BY DEF Init, FormInv
<1>2. TInv /\ FormInv /\ [Next]_vars => FormInv'
  BY FormNext
<1>3. TInv /\ PortalInv /\ FormInv /\ [Next]_vars =>
        [nvs.portal /\ ~nvs'.portal => sd # Torn /\ sd.ssids # {}]_vars
  <2>1. SUFFICES ASSUME TInv, PortalInv, FormInv, [Next]_vars, nvs.portal, ~nvs'.portal
                 PROVE  sd # Torn /\ sd.ssids # {}
    OBVIOUS
  <2>2. nvs \in State /\ st \in State
    BY <2>1 DEF TInv, TypeOK
  <2>3. InNvsSave /\ ~st.portal
    <3>1. CASE SaveNvs
      BY <2>1, <3>1 DEF SaveNvs
    <3>2. CASE CutOff
      <4>1. InNvsSave
        BY <2>1, <3>2 DEF CutOff
      <4>2. PICK k \in 0 .. Puts : nvs' = TornSave(nvs, st, k)
        BY <3>2, <4>1 DEF CutOff
      <4>3. nvs' # st => nvs'.portal = nvs.portal
        <5>1. SUFFICES ASSUME nvs' # st PROVE TornSave(nvs, st, k).portal = nvs.portal
          BY <4>2, Zenon
        <5>. QED
          BY <2>2, <4>2, <5>1, TornPortal
      <4>. QED
        BY <2>1, <4>1, <4>3, Zenon
    <3>. QED
      BY <2>1, <3>1, <3>2, NvsSteps
  <2>4. pc = "portalNvs"
    BY <2>1, <2>3, NvsLabels DEF InNvsSave, PortalInv, Unloaded
  <2>. QED
    BY <2>1, <2>4 DEF FormInv
<1>. QED
  BY <1>1, <1>2, <1>3, TypeInductive, PortalInductive, PTL DEF Spec, PortalLeftWithNetworks

-----------------------------------------------------------------------------
(* The URL of the update in the state, too, is the one the boot partition  *)
(* was written from, and NVS follows at once.                              *)
OtaInv ==
  /\ pc # "otaNvs" => nvs.ota \in {None, image} /\ st.ota \in {None, image}
  /\ pc = "otaNvs" => st.ota = image

(* No step but an update changes the URL in RAM, except to what NVS holds  *)
(* or to none.                                                             *)
LEMMA OtaOfState ==
  ASSUME TInv, [Next]_vars, ~ \E url \in Urls : DisplayOta(url)
  PROVE  st'.ota \in {st.ota, nvs.ota, None}
<1>1. nvs \in State /\ st \in State
  BY DEF TInv, TypeOK
<1>2. CASE StateKept \/ StateLost \/ Boot
  BY <1>2 DEF Boot, StateKept, StateLost, Blank
<1>3. ASSUME NEW ssid \in Ssids, Joined(ssid) PROVE st'.ota = st.ota
  BY <1>1, <1>3 DEF Joined, State
<1>4. CASE NotJoined \/ WipeStored \/ CmdWipeStored \/ SetupOk
  BY <1>1, <1>4 DEF NotJoined, WipeStored, CmdWipeStored, SetupOk, State
<1>5. ASSUME NEW file \in OrNone(Files), SetupPicture(file) \/ ShowRendered(file)
      PROVE  st'.ota = st.ota
  BY <1>1, <1>5 DEF SetupPicture, ShowRendered, Remember, State
<1>6. CASE DisplayReset
  BY <1>6 DEF DisplayReset, Unprovisioned
<1>7. CASE FormAccepted
  <2>1. st' = WithForm(st, form.server)
    BY <1>7 DEF FormAccepted
  <2>. QED
    BY <1>1, <2>1 DEF WithForm, State
<1>8. CASE CmdWipe \/ CmdRefresh
  BY <1>1, <1>8 DEF CmdWipe, CmdRefresh, State
<1>. QED
  BY StateSteps, <1>2, <1>3, <1>4, <1>5, <1>6, <1>7, <1>8

(* Once the boot partition is switched the save comes next.                *)
LEMMA OtaSteps ==
  ASSUME ~PowerLoss, [Next]_vars
  PROVE  \/ SaveNvs
         \/ \E url \in Urls : DisplayOta(url)
         \/ nvs' = nvs /\ image' = image /\ pc' # "otaNvs" /\ pc # "otaNvs"
         \/ nvs' = nvs /\ image' = image /\ pc' = pc /\ st' = st
BY DEF Next, Firmware, SetUp, Connect, Provision, Display, HandleForm, User, vars,
   stores, ram, history, CutOff, OutageBegins, Boot, BootNoCard, SeedStored, Restart,
   EnterPortal, EnterCycle, Joined, JoinedStored, NotJoined, WipeStored,
   SetupOk, SetupSplash, SetupFailed, SetupPicture, DisplayFailed, Answered, TakesCommands,
   DisplayReset, DisplayGoesOn, ResetStored, ShowRefusal, ShowHit, Goto,
   ShowRendered, ShowFailed, FormAdded, FormRejected, FormAccepted,
   CmdWipeStored, Sleep, TimerWake, FormSent, CmdWipe, CmdRefresh, LongPress,
   ButtonWake, TapTooShort

LEMMA OtaNext ==
  ASSUME ~PowerLoss, TInv, OtaInv, [Next]_vars
  PROVE  OtaInv'
<1>1. CASE SaveNvs
  <2>1. nvs' = st /\ image' = image /\ st' \in {st, Blank} /\ pc' # "otaNvs"
    BY <1>1, NvsLabels DEF SaveNvs, InNvsSave, Restart
  <2>. QED
    BY <2>1 DEF OtaInv, Blank
<1>2. ASSUME NEW url \in Urls, DisplayOta(url) PROVE OtaInv'
  BY <1>2 DEF DisplayOta, OtaInv, TInv, TypeOK, State
<1>3. CASE nvs' = nvs /\ image' = image /\ pc' = pc /\ st' = st
  BY <1>3 DEF OtaInv
<1>4. CASE /\ nvs' = nvs /\ image' = image /\ pc' # "otaNvs" /\ pc # "otaNvs"
           /\ ~ \E url \in Urls : DisplayOta(url)
  BY <1>4, OtaOfState DEF OtaInv
<1>. QED
  BY <1>1, <1>2, <1>3, <1>4, OtaSteps

(* As long as power does not fail, the URL that is recorded as applied is  *)
(* the one the boot partition was written from: no firmware is flashed     *)
(* again at the next wake, and none is taken for applied that was not      *)
(* (TrmnlActivity.cpp:205-226).                                            *)
THEOREM OtaRecordIsAlwaysTrue ==
  ASSUME ~PowerLoss
  PROVE  Spec => []OtaRecordIsTrue
<1>1. Init => OtaInv
  BY DEF Init, OtaInv, Factory, Blank
<1>2. TInv /\ OtaInv /\ [Next]_vars => OtaInv'
  BY OtaNext
<1>3. OtaInv => OtaRecordIsTrue
  BY DEF OtaInv, OtaRecordIsTrue
<1>. QED
  BY <1>1, <1>2, <1>3, TypeInductive, PTL DEF Spec

-----------------------------------------------------------------------------
(* The cache key of a state names what is shown.                           *)
Shows(s) == panel = Notice \/ (panel.server = s.server /\ s.file \in {None, panel.file})

(* Labels at which NVS holds what is in RAM, or RAM is lost next.          *)
Settled == Unloaded \cup {"decide", "seedSd", "hold", "resetSd"}

(* Labels between the portal or a missing card and a restart.              *)
Noticed == {"portal", "noCard", "addSd", "lastSd", "portalNvs"}

ShownInv ==
  /\ pc \notin Unloaded => Shows(st)
  /\ pc \in Settled => Shows(nvs)
  /\ pc \in Noticed => panel = Notice

LEMMA ShownBySave ==
  ASSUME ShownInv, SaveNvs
  PROVE  ShownInv'
<1>1. nvs' = st /\ panel' = panel /\ Shows(st)
  BY NvsLabels DEF SaveNvs, InNvsSave, ShownInv, Unloaded
<1>2. pc' \in {"setupShow", "resetSd", "boot", "hold"} /\ (pc' = "boot" \/ st' = st)
  BY NvsLabels DEF SaveNvs, InNvsSave, Restart
<1>. QED
  BY <1>1, <1>2 DEF ShownInv, Shows, Unloaded, Settled, Noticed

(* Steps that draw.                                                        *)
LEMMA ShownByDrawing ==
  ASSUME TInv, [Next]_vars,
         \/ \E file \in OrNone(Files) : SetupPicture(file) \/ ShowRendered(file)
         \/ BootNoCard \/ EnterPortal \/ NotJoined \/ SetupSplash \/ SetupFailed
         \/ ShowRefusal
  PROVE  ShownInv' \/ (panel' = panel /\ NotJoined)
<1>1. ASSUME NEW file \in OrNone(Files), SetupPicture(file) \/ ShowRendered(file)
      PROVE  ShownInv'
  <2>1. st \in State
    BY DEF TInv, TypeOK
  <2>2. panel' = Picture(st.server, file) /\ pc' = "cycleNvs"
    BY <1>1 DEF SetupPicture, ShowRendered, Goto
  <2>3. st'.server = st.server /\ st'.file = file
    BY <1>1, <2>1 DEF SetupPicture, ShowRendered, Remember, State
  <2>. QED
    BY <2>2, <2>3 DEF ShownInv, Shows, Picture, Unloaded, Settled, Noticed
<1>2. CASE panel' = Notice
  BY <1>2 DEF ShownInv, Shows
<1>3. CASE BootNoCard \/ EnterPortal \/ SetupSplash \/ SetupFailed \/ ShowRefusal
  BY <1>2, <1>3 DEF BootNoCard, EnterPortal, SetupSplash, SetupFailed, ShowRefusal
<1>4. CASE NotJoined
  BY <1>2, <1>4 DEF NotJoined
<1>. QED
  BY <1>1, <1>3, <1>4

(* Steps that draw nothing and save nothing: what RAM and NVS say about    *)
(* the panel stays as true as it was.                                      *)
LEMMA ShownByRest ==
  ASSUME TInv, ShownInv, [Next]_vars, nvs' = nvs, panel' = panel, ~SaveNvs, ~PowerLoss
  PROVE  ShownInv'
<1>1. nvs \in State /\ st \in State
  BY DEF TInv, TypeOK
<1> USE DEF ShownInv, Shows, Unloaded, Settled, Noticed, Goto
<1>2. CASE UNCHANGED vars \/ OutageBegins
  BY <1>2 DEF vars, stores, ram, OutageBegins
<1>3. CASE Boot
  BY <1>3 DEF Boot
<1>4. CASE \/ BootNoCard \/ EnterPortal \/ EnterCycle \/ SeedStored
           \/ JoinedStored \/ SetupSplash \/ SetupFailed \/ DisplayFailed
           \/ DisplayGoesOn \/ ShowRefusal
           \/ \E file \in OrNone(Files) : ShowHit(file) \/ ShowFailed(file)
           \/ \E ssid \in Ssids, server \in Fields : FormSent(ssid, server)
  BY <1>4 DEF BootNoCard, EnterPortal, EnterCycle, SeedStored, JoinedStored, SetupSplash,
     SetupFailed, DisplayFailed, DisplayGoesOn, Answered, ShowRefusal, ShowHit, ShowFailed,
     FormSent, ram
<1>5. CASE FormAdded \/ FormRejected
  BY <1>5 DEF FormAdded, FormRejected
<1>6. CASE ResetStored \/ Sleep \/ TimerWake \/ ButtonWake \/ LongPress \/ TapTooShort
  BY <1>6 DEF ResetStored, Sleep, TimerWake, ButtonWake, LongPress, TapTooShort, Restart
<1>7. ASSUME NEW ssid \in Ssids, Joined(ssid) PROVE ShownInv'
  <2>1. st'.server = st.server /\ st'.file = st.file /\ pc = "connect" /\ pc' = "joinedSd"
    BY <1>1, <1>7 DEF Joined, State
  <2>. QED
    BY <2>1
<1>8. CASE NotJoined \/ WipeStored \/ CmdWipeStored \/ SetupOk
  <2>1. /\ st'.server = st.server /\ st'.file = st.file
        /\ pc \notin Unloaded /\ pc' \notin Settled \cup Noticed
    BY <1>1, <1>8 DEF NotJoined, WipeStored, CmdWipeStored, SetupOk, State
  <2>. QED
    BY <2>1
<1>9. CASE DisplayReset
  <2>1. st'.server = st.server /\ st'.file = None /\ pc = "api" /\ pc' = "resetNvs"
    BY <1>9 DEF DisplayReset, Answered, Unprovisioned
  <2>. QED
    BY <2>1
<1>10. ASSUME NEW url \in Urls, DisplayOta(url) PROVE ShownInv'
  <2>1. st'.server = st.server /\ st'.file = st.file /\ pc = "api" /\ pc' = "otaNvs"
    BY <1>1, <1>10 DEF DisplayOta, Answered, State
  <2>. QED
    BY <2>1
<1>11. CASE FormAccepted
  BY <1>11 DEF FormAccepted
<1>12. CASE CmdWipe \/ CmdRefresh
  <2>1. /\ st'.server = st.server /\ st'.file \in {st.file, None}
        /\ pc \in {"portal", "hold", "noCard"} /\ pc' \in {"wipeNvs", "cmdSd", "refreshNvs"}
    BY <1>1, <1>12 DEF CmdWipe, CmdRefresh, TakesCommands, State
  <2>. QED
    BY <2>1
<1>13. ASSUME NEW file \in OrNone(Files), SetupPicture(file) \/ ShowRendered(file)
       PROVE  ShownInv'
  BY <1>13, ShownByDrawing DEF NotJoined, SetupPicture, ShowRendered
<1>. QED
  BY <1>2, <1>3, <1>4, <1>5, <1>6, <1>7, <1>8, <1>9, <1>10, <1>11, <1>12, <1>13
  DEF Next, Firmware, SetUp, Connect, Provision, Display, HandleForm, User, CutOff

(* As long as power does not fail, a device at rest shows the picture that *)
(* its cache key names, of the server that it knows, or the key is empty,  *)
(* or it shows a notice: a cache hit cannot leave another picture on the   *)
(* panel (TrmnlActivity.cpp:229-292, CaptivePortalActivity.cpp:147-181).   *)
THEOREM PanelAlwaysMatchesKey ==
  ASSUME ~PowerLoss
  PROVE  Spec => []PanelMatchesKey
<1>1. Init => ShownInv
  BY DEF Init, ShownInv, Shows
<1>2. TInv /\ ShownInv /\ [Next]_vars => ShownInv'
  <2> SUFFICES ASSUME TInv, ShownInv, [Next]_vars PROVE ShownInv'
    OBVIOUS
  <2>1. nvs' = nvs \/ SaveNvs
    BY NvsSteps DEF CutOff
  <2>2. \/ panel' = panel
        \/ \E file \in OrNone(Files) : SetupPicture(file) \/ ShowRendered(file)
        \/ BootNoCard \/ EnterPortal \/ NotJoined \/ SetupSplash \/ SetupFailed
        \/ ShowRefusal
    BY PanelSteps
  <2>. QED
    BY <2>1, <2>2, ShownBySave, ShownByDrawing, ShownByRest
<1>3. ShownInv => PanelMatchesKey
  BY DEF ShownInv, Shows, PanelMatchesKey, Settled, Unloaded
<1>. QED
  BY <1>1, <1>2, <1>3, TypeInductive, PTL DEF Spec
=============================================================================
