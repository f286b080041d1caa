# x3-trmnl in TLA+

A formal model of the x3-trmnl firmware: an ESP32-C3 e-ink display that wakes
on a timer, asks a TRMNL server for a picture, draws it and sleeps again.
The modules are translated from the C++ sources, checked with TLC on small
instances and, where it matters most, proved with TLAPS for every value of the
constants. `PROJECT.json` is the index: components, runs, mutants, the source
lines of every definition, findings, hazards and theorems.

## 1. Inventory

### Components

| Component (source) | State it keeps | Operations | Modelled in |
|---|---|---|---|
| `src/main.cpp` | none of its own | `setup()` decides between wake cycle and portal; `loop()` takes serial commands and the long press | `TrmnlDevice` |
| `TrmnlActivity` | the response of the running cycle | `connectWifi`, `runCycleAndSleep`, `startTimerSleep` | `TrmnlDevice`, `WakeSchedule` |
| `CaptivePortalActivity` | access point, web server | `handleSave` | `TrmnlDevice` |
| `TrmnlState` | server, key, last file, last OTA URL, wake and failure counts, portal flag; NVS copy | `load`, `save` | `TrmnlState`, `WakeSchedule` |
| `WifiCredentialStore`, `JsonSettingsIO` | up to 8 networks, the last one joined; `/.crosspoint/wifi.json` | add, set last, clear; load, save, migrate | `WifiCredentialStore`; `SavedFiles` |
| `TrmnlOta` | boot partition | `applyOtaUpdate` | `TrmnlDevice` (outcome) |
| `TrmnlApi` | none | `setup`, `fetchDisplay`, `postLog` | `TrmnlDevice` (free answers) |
| `TrmnlImage` | frame buffer | receive, decode BMP and PNG, show | `TrmnlImage` |
| `ActivityManager`, `Activity`, `RenderLock` | current activity, stack, pending action, waiter, mutex | push, pop, replace, request update (and wait); render task | `ActivityManager` |
| `BootActivity`, `SleepActivity`, `FullScreenMessageActivity` | none | draw one screen | the one that is shown is `Notice` in `TrmnlDevice` |
| `HalGPIO` | wake reason | verify a press | outcomes in `TrmnlDevice` |
| `HalPowerManager` | latch configuration, gauge caches | power off, percentage, voltage | `TrmnlDevice`, `BatteryGauge` |
| `HalStorage` | SD card | `writeFile`, `rename` | `SavedFiles` |
| `HalDisplay` | frame buffer, panel | clear, refresh | `HalDisplay` |
| `HalSystem`, `Logging` | panic flag and 16-line log ring in RTC memory | put a message, read back, dump after a panic | `CrashLog` |
| `CrossPointSettings` | settings of the e-reader firmware | load, migrate, save; the button map | `SavedFiles`, `FrontButtons` |
| `CrossPointState` | ring of sleep pictures | push, look up, save, load, migrate | `CrossPointState`, `SavedFiles` |
| `MappedInputManager` | none | roles to buttons, labels | `FrontButtons` |
| `ButtonNavigator` | time of the last step | release, hold, index arithmetic | `ButtonNavigator` |
| `network/HttpDownloader` | a file on the card | `downloadToFile` | `HttpDownloader` |
| `network/OtaUpdater` | the release found | not called by anything in the tree | no |
| `GfxRenderer` | frame buffer, its copy, orientation, render mode | shapes, pictures, text | `GfxRenderer`, `Shapes`, `Text`, `Screenshot` |
| `Bitmap`, `BitmapHelpers` | a BMP file, error rows | parse, read rows, rewind, dither | `Bitmap` |
| `ScreenshotUtil` | a file, the frame buffer | `takeScreenshot` | `Screenshot` |
| `EpdFont`, `EpdFontFamily` | font tables | glyph, kern, ligature, bounds | `Text` |
| `FontDecompressor`, `FontCacheManager` | page slots, hot group, recorded text | bitmap of a glyph, prewarm | `FontDecompressor` |
| `InflateReader`, `uzlib` | decoder state, ring | one-shot, streaming | `Inflate` |
| `Utf8` | none | decode, truncate | `Utf8` |
| `I18n`, `Serialization`, `FsHelpers`, string helpers | one byte for the language; none | lookup, conversion | no |

How they interact: the wake cycle is one long call inside
`TrmnlActivity::onEnter()`; it never returns but sleeps or restarts. It reads
and writes the two singletons `TRMNL_STATE` (NVS) and `WIFI_STORE` (SD card),
which outlive a reset only as far as they were saved, and draws on a panel that
keeps its picture without power. The portal is an activity whose `loop()`
handles one HTTP request at a time; a saved form ends in a restart. Everything
runs in the Arduino loop task, but for the render task of `ActivityManager`.

Below them lie the libraries. A downloaded picture is decoded straight into the
frame buffer; shapes, bitmaps and text of `GfxRenderer` go the same way, glyphs
through a cache of inflated font groups. The settings, the state and the
networks are JSON files on the card that are rewritten in place and once came
from binary files. Much of this is what the firmware inherited from an
e-reader: shapes beyond rectangles and lines, bitmaps, screenshots, wrapped
text, the page cache, list navigation, `HttpDownloader` and the ring of sleep
pictures have no caller in `src/src/` today. They are modelled as the libraries
they are: against any caller that keeps to their interface.

### What is hard

* *Two stores and a panel, no transaction.* NVS is written field by field, the
  card file in place, the panel last; power can fail in between
  (`TrmnlState.cpp:69-78`, `TrmnlActivity.cpp:198-200`, `312-316`).
* *Values that say something about other values*: the key belongs to a server,
  `last_file` to the picture on the panel, `last_ota_url` to the boot
  partition, `wifi_fail` to a series of wakes, `portal_req` to an empty store.
* *Partial failure*: results of card writes are ignored; without a card
  `setup()` returns half-way and `loop()` runs all the same.
* *Liveness without a user*: a wall display that sleeps without a timer, or
  retries a router that is gone, is dead until somebody notices.
* *A panel that keeps everything*: a picture that arrived in part, a row drawn
  at the wrong end or a border that was not taken back stays for hours.
* *Redundant paths*: a line can be drawn in either direction, a corner as an
  arc or as a filled piece, an image by bytes or by pixels, a text measured and
  drawn, a glyph taken from a page, a hot group or a stream. They must agree.
* *Memory that runs out half-way*, memory that survives a reset unchecked
  (the log ring), and files whose content any older version may have written.
* *Counters that outlive a reset*: one byte of failed setups and a count of wakes
  decide, many wakes later, how long the device sleeps and whether ghosting is
  cleared.
* *Two tasks*: the loop task replaces and destroys activities that the render
  task draws, and waits for it through a handle shared without the mutex.

`PROJECT.json` lists every hazard at its line with the properties that cover it
or the reason why none does.

## 2. Modules

| Module | What it is |
|---|---|
| `TrmnlState` | The persistent fields, their factory values, and what a `save()` cut short leaves (`TornSave`). |
| `WifiCredentialStore` | Operations on the list of networks as operators. |
| `TrmnlDevice` | The program from reset to sleep; extends the two above. Constants are the build flags and what may go wrong. |
| `ActivityManager` | Loop task and render task. Independent of `TrmnlDevice`. |
| `HalDisplay` | Frame buffer and panel, the state all drawing shares. |
| `GfxRenderer` | Shapes as sets of points, orientation, bitmaps and images, as operators. |
| `Shapes` | One call of a drawing function, and what each shape is meant to be. |
| `TrmnlImage` | The download of a picture: receiving, decoding, showing. |
| `Bitmap` | A BMP file read row by row, with either ditherer of the build. |
| `Screenshot` | The frame buffer saved as a BMP, with the copy the border is taken back from. |
| `Utf8`, `Text` | Decoding and cutting bytes; measuring, drawing, cutting and wrapping text. |
| `FontDecompressor` | Page slots, hot group and prewarming, of any faces. |
| `Inflate` | Huffman trees, blocks, and the reader in one shot or through a ring. |
| `Graphics` | The composition of the ten modules above. |
| `KeptValue` | Abstract: what a file promises about the value it keeps. |
| `SavedFiles` | The three JSON files with their binary ancestors; implements `KeptValue`. |
| `CrashLog` | The log ring in RTC memory and the crash report. |
| `FrontButtons` | The button map as read from either file format, and `MappedInputManager`. |
| `CrossPointState` | The ring of sleep pictures. |
| `ButtonNavigator` | Presses, holds and the list they move through. |
| `BatteryGauge` | Percentage and voltage behind two poll windows. |
| `HttpDownloader` | A download to a file of the card. |
| `WakeSchedule` | The counters of wakes and failed setups over many wakes, the sleeps and refreshes they choose. |
| `Board` | The eight modules above that share no state. |
| `Firmware` | `Graphics` and `Board` side by side, for checking. |
| `Numbers` | Lemmas about quotients and remainders, least numbers, and induction and recursion over the natural numbers. |
| `TrmnlDevice_proofs`, `ActivityManager_proofs`, `WakeSchedule_proofs` | The theorems about the module of that name. |
| `Graphics_proofs` | The theorems about `TrmnlImage`, `Screenshot`, `Bitmap` and `Shapes`. |
| `Text_proofs` | The theorems about `Utf8`, `Text` and `FontDecompressor`. |
| `Inflate_proofs` | The theorems about the codes of `Inflate` and about reading through it. |
| `Board_proofs` | The theorems about `HttpDownloader`, `FrontButtons`, `CrossPointState`, `ButtonNavigator`, `BatteryGauge`, `CrashLog` and `SavedFiles`, and the composition of all eight parts. |

### TrmnlDevice: correspondence with the code

The program is sequential, so one variable `pc` names the point it has reached.
Between two labels lies code that touches no durable store except as its last
effect; a durable write has a label of its own (`InNvsSave`, `InSdWrite`), at
which `CutOff` may leave it half done. A label names who saves and thereby what
follows (`AfterNvsSave`).

| Actions | Code |
|---|---|
| `Boot`, `BootNoCard`, `SeedStored`, `TapTooShort`, `EnterPortal`, `EnterCycle` | `setup()`, main.cpp:60-227; HalGPIO.cpp:252-282 |
| `Joined`, `JoinedStored`, `NotJoined`, `WipeStored` | `connectWifi()` and the branch for failure, TrmnlActivity.cpp:71-128, 286-319 |
| `SetupOk`, `SetupPicture`, `SetupSplash`, `SetupFailed` | provisioning, 144-179 |
| `DisplayFailed`, `DisplayReset`, `ResetStored`, `DisplayOta`, `DisplayGoesOn`, `ShowRefusal`, `ShowHit`, `ShowRendered`, `ShowFailed` | the display cycle, 180-285 |
| `SaveNvs` | every `TRMNL_STATE.save()` |
| `Sleep`, `TimerWake`, `ButtonWake` | 377-384, 30-60; a reset loses RAM (`Restart`) |
| `FormSent`, `FormAdded`, `FormRejected`, `FormAccepted` | `handleSave()`, CaptivePortalActivity.cpp:124-198 |
| `CmdWipe`, `CmdWipeStored`, `CmdRefresh`, `LongPress` | `loop()` main.cpp:229-277 and the hold TrmnlActivity.cpp:342-374 |
| `CutOff`, `OutageBegins` | external: power, panics, radio |

Data is abstracted to what the properties tell apart. A key is the server that
issued it. A picture is the server and file name it was announced under; every
screen of text is `Notice`. A refresh rate is 0 or the default. The counters
`wakes` and `setup_fail` decide only the length of a sleep and the kind of
refresh and are left to `WakeSchedule`. Left out are `friendly_id` and
`last_refresh`, which decide nothing, passwords, the try order of the networks
(any stored one may be the one that joins), the migration from `wifi.bin`, an NVS partition that fails to open, a
panel refresh cut short, and the dev builds `TRMNL_BUTTON_DIAG`,
`TRMNL_FORCE_CAPTIVE_PORTAL` and `TRMNL_FORCE_CACHE_MISS`.

`failRun`, `tried` and `resetDone` are history variables: no action reads them
except to update them.

### ActivityManager: correspondence with the code

`lpc` and `rpc` name where the two tasks stand; a step is at most one access to
shared state (mutex, notification, waiter, `currentActivity`). No activity in
this tree overrides `render()` or starts another for a result, so the class is
modelled against its interface: an activity makes any sequence of up to
`MaxCalls` calls in `onEnter()`, `loop()` and result handlers. A task
notification is a flag because both takers clear the count
(`ulTaskNotifyTake(pdTRUE, ...)`). `goToSleep()`, which nothing calls, and the
payload of a result are left out.

### Graphics: correspondence with the code

`fb` and `panel` are functions from the points of the panel to a colour. A
shape is the set of points at which the code calls `drawPixel()`; what its
loops enumerate is written as a set, and only where one iteration depends on
the one before (Bresenham, the arcs, the scan of a polygon) as a recursive
function. Orientation is the transformation of `rotateCoordinates()`.

| Module | Actions and operators | Code |
|---|---|---|
| `TrmnlImage` | `RequestImage`; `ReadParts`, `WaitForParts`, `GiveUp` (the receive loop with its deadline); `RenderImage` = `Decode` and refresh | TrmnlImage.cpp |
| `Bitmap` | `OpenBitmap` (`HeaderError`, palette), `ReadNextRow` (conversion and ditherer), `RewindToData` | Bitmap.cpp, BitmapHelpers |
| `Screenshot` | `BeginScreenshot`, `WriteRow`, `StoreBwBuffer`, `RestoreBwBuffer` | ScreenshotUtil.cpp, GfxRenderer.cpp |
| `GfxRenderer` | `DrawLine`, `DrawRoundedRect`, `FillRoundedRect`, `FillPolygon`, `DrawBitmap`, ... | GfxRenderer.cpp |
| `Utf8` | `NextCodepoint`, `SafeTruncateBuffer`, `TruncateChars` | Utf8.cpp |
| `Text` | `TextBounds`, `DrawText`, `DrawTextRotated90CW`, `TruncatedText`, `WrappedText` over an abstract font | EpdFont.cpp, GfxRenderer.cpp |
| `FontDecompressor` | `OpenScope`, `RecordText`, `EndScan`, `CloseScope`; `DrawPageGlyph`, `DrawHotGlyph`, `FailToDraw` | FontDecompressor.cpp, FontCacheManager.cpp |
| `Inflate` | `BuildTree`, `DecodeSymbol`, `BlockData`, `StoredBlock`, `Uncompress`, `ReadAtMost` | tinflate.c, InflateReader.cpp |

A font is a pair of tables small enough to have a kern, a ligature, combining
marks and a missing glyph. The pixels of a compressed font are tagged with the
glyph they belong to, so that a wrong offset is a wrong picture. A compressed
stream is its blocks of symbols; how symbols are found in bits is checked on
its own: for small alphabets by TLC, for any code by the proofs.

Measuring, upright and turned drawing each have their own loop in the code and
their own step in `Text` (`BoundsStep`, `DrawStep`, `TurnedStep`); that they agree
is a property. An upright text hangs from the ascender of the regular face, a
turned one from that of its own face.

`saveFramebufferAsBmp()` asks neither `file.close()` nor `Storage.remove()` for a
result (ScreenshotUtil.cpp:75, 86, 112, 115). A card that carries one of them not
out, a *lapse*, leaves the header alone, or the file with any number of its rows.

`Graphics` composes them. The renderer has one caller at a time. A download and
the screenshot after it are the same behaviour over the same display; the
others share no state with it, and one behaviour is of one of them.

### Board: correspondence with the code

| Module | Actions | Code |
|---|---|---|
| `CrashLog` | `PutMessage`, then `MoveHead`, of either task; `HalSystemBegin`, `CheckPanic`; `Reset`, `PowerOff`, `PowerUp` (external) | Logging.cpp, HalSystem.cpp |
| `SavedFiles` | `LoadFromFile`, `SaveToFile`, `WriteFile`, `WriteFails`, `RenameBinary`; `PowerCut` (external) | the three stores, JsonSettingsIO.cpp, HalStorage.cpp |
| `FrontButtons` | `LoadSettings`, `LoadFromBinaryFile`; `MapButton`, `MapLabels` | CrossPointSettings.cpp, JsonSettingsIO.cpp, MappedInputManager.cpp |
| `CrossPointState` | `ShowSleepImage`, `SaveState`, `Restart`, `MigrateState` | CrossPointState.cpp, JsonSettingsIO.cpp |
| `ButtonNavigator` | `PressButton`, `HoldFrame`, `ReleaseFrame`, `Pause` | ButtonNavigator.cpp |
| `BatteryGauge` | `GetBatteryPercentage`, `GetBatteryVoltageMV`, `Wait` | HalPowerManager.cpp |
| `HttpDownloader` | `StartTransfer`, `StreamPiece`, `EndTransfer` | HttpDownloader.cpp |
| `WakeSchedule` | `StartWake`; `ConnectFails`; `SetupGivesKey`, `ShowSetup`, `SetupFails`; `DisplayFails`, `ServerResets`, `FirmwareInstalled`, `DisplayAnswers`; `SerialCommand`, `EndWake` | `runCycleAndSleep()`, TrmnlActivity.cpp:130-384 |
| | `UsePortal`; `PowerLoss` (external) | `handleSave()`, CaptivePortalActivity.cpp:162-187 |

`SavedFiles` is the detailed specification of the abstract `KeptValue`: `kept`
is what a start of the device would load now (`Loaded`), `saving` the value of
the write under way. Power may go between any two of truncating, writing and
renaming; the abstract save may therefore leave a fallback, and only after it
has begun. The property `ValueIsKept` is `Kept!KeptSpec`.

`CrashLog` splits a message into the two stores to RTC memory, because two
tasks log without a lock. Memory after a power loss is any value. Messages are
numbered when they are put, and `logged`, `cleared` and `alone` are history
variables, as are the steps counted in `ButtonNavigator` and the list `shown`
in `CrossPointState`.

`downloadToFile()` ignores the results of `Storage.remove()`
(HttpDownloader.cpp:148, 168, 178, 184, 191) and of `file.close()` (163) too. In
`HttpDownloader` an older file may therefore outlive its removal, and after a lapse
at the end any part of the new one may be left.

`WakeSchedule` looks at the same wakes as `TrmnlDevice`, from the other side: it
has the counters as numbers, and neither servers, files nor networks. Its
saves are not torn and its card never fails, so that the fast refresh of the
card-error screen does not occur; those faults are in `TrmnlDevice`. Two wakes
that follow each other differ by one in their count, so `wakeCount` is a natural
number; a start in `WakeCounts` is the bound. `failures`, `fastShown`, `lost` and
`missed` are history variables.

### Firmware

`Graphics` and `Board` share no variable, so `Firmware` lets a behaviour be of one
of them: every step is a step of `GraphicsSpec` or of `BoardSpec` that leaves the
variables of the other alone. The run is of `FirmwareSpec`, the theorems are about
the two specifications it is made of, and about their parts.

## 3. Runs

| Run | Question | Bounds |
|---|---|---|
| `device_clean` | Do keys, cache key and OTA record stay true to what they describe, and does the device keep waking or reach the portal, with a card that fails and serial commands? | 2 servers, 2 files, 1 URL, 2 networks, list of 1, threshold 2; no power loss |
| `device_power_loss` | What survives a cut-off at every label and inside every save? | 2 servers, 1 file, 1 URL, 2 networks, list of 1, threshold 3; build seeded with a server, a key and a network |
| `activities` | Are two tasks and any navigation safe and live? | 4 activities (three on the stack at most), 2 calls in one go |
| `firmware` | Does what reaches the panel, the card and the caller agree with what was sent, asked for or encoded, and what survives resets, cut-offs, failing cards and gauges and uneven frames? | panel 16x6; the sets below |

Two servers are needed for a switch and its undoing, two files for a hit and a
miss, two networks with a list of one for a full list, a threshold of two or
three for a run that is and one that is not long enough (the code's ten changes
only how long the same series is). With four activities the stack reaches a
depth at which the result of a lower activity is awaited while two others come
and go.

In `firmware` a panel of 16x6 has two bytes in a row and six rows, so that a
byte, a row and a chunk boundary all fall inside it, and width and height
differ. Pictures are 5, 6, 16 or 33 pixels wide and high: smaller than, equal
to and larger than the panel, with a row that fills a word of four bytes and
one that does not. A picture comes in two parts, a stall of the connection is
one tick, the deadline three. Shapes begin in 0..3, are up to 8 wide and high
and have radii up to 3: every order of sides, radii and centres occurs. The
ditherers read 2x2 pictures of three luminances twice. Bytes of a text are one
of each class of UTF-8 lead and continuation byte, three in a row, and code
points are the first and last of each length. Texts have four characters of a
font with a kern, a ligature and two marks, and three lines. The font cache has
two page slots of two glyphs and one group. A tree is built from every list of
up to four items of `FewItems`: lengths up to three and the three ways to repeat
one, so that codes with too little and too much room occur; a stream has two blocks of two symbols with
matches up to four long over a window of three, so that a match overlaps itself
and wraps, and is read in pieces of 1, 2, 5 or 20 bytes.

A log ring of two lines is overrun twice by four messages of two tasks;
a field of a file is 0..4, that is every button and one that is none; the ring
of three sleep pictures is overrun by five; the list has up to five items in
pages; frames are up to three ticks apart with a start and an interval of two,
so that a frame may skip a repeat; the gauge is polled every two of four ticks,
answers 0 or 120 (which the code clamps) or not at all; a body is up to four
bytes. Wakes are counted from 0 to 18, across the full refresh at 1 and at 17,
and from 254 to 258, where the byte of failed setups wraps; two wakes are cut off
between two full refreshes; the server asks for no or for five minutes' sleep.
Images are tried where they stay on the panel: beyond its edges the code counts in
`uint16_t` and `size_t`.

`CHECK_DEADLOCK FALSE` is set where something really ends: a drawn call, an
ended download, a log at its bound.

Passing properties:

* `KeyBelongsToServer`, `PanelMatchesKey`, `OtaRecordIsTrue`: relations between
  stores. The first and the third are claimed without power loss; with it the
  first is a finding and the third lasts until the URL is applied again.
* `WipeIsEarned`: the counter in NVS against a history of wakes.
* `ResetIsHonoured`: after `reset_firmware`, in spite of cut-offs, no boot goes
  online or re-seeds networks until a form is saved. It rests on `portal_req`
  being the *last* put of `save()`, so that a torn save of the portal never
  drops the flag early: the mutant that puts it first breaks it.
* `PortalLeftWithNetworks`: an action property between NVS and card. It is
  claimed for a working card: `handleSave()` ignores a failing write.
* `SleepIsFollowedByCycle`, `OutageEndsInPortal`, `WaitEnds`, `UpdateIsDrawn`:
  liveness, under the fairness below.
* `RenderedIsCurrent`, `ResultsGoToStarter`, `NobodyWaitsTwice`,
  `PendingHasActivity`: safety of the two tasks.

* `LineIsStraight`, `RoundedRectsAgree`, `TriangleIsFilled`, `PicturesAgree`:
  redundant ways of drawing agree with what the shape is and with each other, in
  every orientation. `PicturesAgree` relates the two paths of a bitmap (one bit
  and general), its scaling to its bounds, and its three grey passes to its levels.
  An icon fills the rectangle it was given on an upright screen (`drawIcon()` turns
  for Portrait only). An image does on a lying screen, and a square one on an upright
  screen, but for being moved by exactly one pixel along each axis that is turned
  round; its bits are not turned on an upright screen, which is why one that is not
  square is left out (a TODO, GfxRenderer.cpp:627).
* `PanelShowsThePicture`, `DownloadEnds`: what the
  panel shows is what was sent, clipped (a bottom-up BMP higher than the panel
  excepted: that is the run `large_picture_is_clipped`); a stalled, cut or
  damaged download never reaches it; every download ends.
* `ScreenshotIsThePanel`: on a card that closes and removes files as it is told, a
  screenshot that `saveFramebufferAsBmp()` reports as saved is complete and, read back
  by the code's own reader and drawn, is the frame buffer, and one that is reported
  as failed is gone. That is an assumption about the card, as the code looks at no
  result. With a lapse the property claims only that a failed file lacks rows, so that
  the reader sees it is cut. Whatever the card does, when all is over the frame
  buffer is what it was, no copy of it is kept and no border is on the panel.
* `RowsAreReadRight`: a row read again after a rewind, in the middle of the picture too, is
  dithered as at first, and colours near the greys of the panel become those.
* `OnlyEncodingsAreDecoded`, `TextIsCutBetweenCharacters`: overlong, surrogate
  and truncated sequences are replaced; a well-formed text is cut between its
  characters.
* `TextIsDrawnAsMeasured`: the box measured is that of the glyphs drawn, across for
  every text, in height for every text without a raised mark (a raised one moves the
  box the wrong way, section 5); the advance is where the next text would go; and turned
  text is the same text turned, moved by the difference of the two ascenders.
* `WrappedTextFits`: no line is too wide, but for a lone ellipsis in a box narrower
  than it (section 5), and no word is lost without an ellipsis.
* `GlyphIsTheRightOne`: whatever was prewarmed, evicted or lost for want of
  memory, the pixels drawn are those of the glyph.
* `EveryWordIsDecoded`, `OutputIsTheExpansion`: a Huffman tree decodes exactly
  the words of its canonical code; output in pieces through a ring is the
  expansion of the blocks.
* `ValueIsKept`: the refinement of `KeptValue`.
* `CrashReportIsGenuine`, `RecentAreTheLast`, `PercentageIsRecent`: a state against
  its history, after garbage memory, a restart, a gauge that fails.
* `DownloadIsWholeOrGone`: what a lost connection, a full card and an older file leave
  of a download. That the file is whole, or gone after an error, is claimed for a card
  that carries out `close()` and `remove()`; what is reported OK has no gap on any.
* `LabelsTellTheTruth`: the label above a button names what `mapButton()` does
  with it, for any content of either settings file; after a binary file every
  role has a button.
* `SleepFollowsFailures`: however wakes were cut off, restarted or went without a
  network, the sleep after each of the first 255 failed setups in a row is the one for
  the failures at this server. From the 256th on it is not: the run `backoff_wraps`.
* `GhostingIsCleared`: at most fifteen pictures in a row are drawn with a fast
  refresh, one more for every wake cut off before its count was saved, unless the
  wake that was to refresh in full had nothing to show.
* `EveryPressIsAStep`: a press moves the list at least once, a press let go in
  time just once, a held one never faster than its interval, and the list ends
  where so many steps lead.

Each has a mutant, `Slip_...`, next to the definition it replaces.

Violated properties (each a line of the documentation or a comment that the
code does not keep; `PROJECT.json` quotes it):

| Run | What TLC finds |
|---|---|
| `stale_panel` | The portal, opened with BACK and left by a long press, stays on the panel: `last_file` still names the picture it replaced, and the next wake is a cache hit. A splash does the same. |
| `torn_server_switch` | Power lost inside the portal's save pairs the new server with the old key. |
| `fresh_credentials` | Credentials just saved are wiped after one failed wake, because the count is not reset. |
| `refresh_without_card` | `CMD:REFRESH` on a device that booted without its card erases NVS. |
| `wipe_keeps_key` | `CMD:WIPE` keeps the key that README.md says it wipes. |
| `stale_wait` | A render begun earlier ends `requestUpdateAndWait()`. |
| `large_picture_is_clipped` | A bottom-up BMP higher than the panel leaves white where its own rows belong; a comment promises that it is clipped. |
| `backoff_wraps` | The 256th failed setup in a row is followed by half an hour of sleep, where a comment says a day from the sixth on. |

### Fairness

`TrmnlDevice!FairSpec` has weak fairness of `Firmware`, the steps the program
takes by itself: the processor goes on and an armed timer fires. Which branch is
taken, answers, forms, presses, faults and cut-offs are not fair.
`OutageEndsInPortal` is checked without power loss; the free choice between
joining and not joining is settled by `outage`.

`ActivityManager!FairSpec` has weak fairness of both tasks, which have equal
priority and share time, and strong fairness of `BeginRender`: `loop()` in
main.cpp delays 10 ms in every round with the mutex free, so the mutex cannot be
missed for ever. `UpdateIsDrawn` holds only if `loop()` keeps ending, which is
its premise: activities that replace each other for ever keep the manager in its
inner loop, as the code would.

`Graphics!GraphicsSpec` has weak fairness of a download while it is receiving:
the task that runs the receive loop goes on, and the time it measures passes.
What the connection delivers, and whether it delivers anything, is free.

## 4. Proofs

`TrmnlDevice_proofs` proves, for all constants that satisfy the module's
assumptions (no bounds):

| Theorem | Assumes | Inductive invariant |
|---|---|---|
| `TypeCorrect` | - | `TInv` = `TypeOK` and `CountInv`: a count in RAM reaches the threshold only on its way into a wipe, so a saved one never does and `fails + 1` stays in range. |
| `WipeIsAlwaysEarned` | - | `RunInv`: the count, in NVS and in RAM, never exceeds the failed wakes seen, wherever a save was torn. |
| `KeyAlwaysBelongs` | no power loss | `KeyBelongsToServer` is inductive itself; each action that touches server or key is one step. |
| `ResetIsAlwaysHonoured` | card works | `PortalInv` and `ResetInv`: while the reset holds, NVS asks for the portal and the program is at `HeldLabels`, from which only a saved form leads out. |
| `OtaRecordIsAlwaysTrue` | no power loss | `OtaInv`: the URL in NVS and the one in RAM are that of the running image or none; only at the save after an update may NVS still hold another, and there RAM is right. |
| `PanelAlwaysMatchesKey` | no power loss | `ShownInv`: the panel shows a notice or what RAM says it shows, and at the labels with nothing left to save NVS says the same. |
| `PortalAlwaysLeftWithNetworks` | card works | `FormInv`: between the form's first write and its save the network is in RAM and then on the card. |

The type proof goes variable by variable: a *frame* lemma says which actions
change it, one case each. `PTL` combines the steps into the temporal theorem.

`ActivityManager_proofs` proves five of the module's invariants for any number
of activities and calls, from `ManagerAssumption` alone:

| Theorem | Property | Inductive invariant |
|---|---|---|
| `OnlyTheCurrentIsRendered` | `RenderedIsCurrent` | `LockInv` and `DrawInv`: who holds the mutex is told by where both tasks stand, and what is being drawn is `cur`. |
| `NobodyEverWaitsTwice` | `NobodyWaitsTwice` | `WaitInv`: the loop task is registered, or told, only while it is inside `requestUpdateAndWait()`, and never both. |
| `TypeCorrect`, `PendingAlwaysHasActivity` | `TypeOK`, `PendingHasActivity` | `NoteInv`: the two with `AtLabels`, which says what note the loop task is carrying out and when there is no current activity. |
| `ResultsAlwaysGoToStarter` | `ResultsGoToStarter` | `NoteInv` and `StackInv`: no activity is in two places, a note to push comes from an activity waiting for the one to be pushed, and each below waits for the one above. |

`ScreenSteps` sorts the steps once into those that touch the screens and those
that only move a task on; the lemmas after it have one case per sort.
`StackPop` and `StackPush` do the reasoning about sequences.

The modules of `Board` have proofs for any value of their constants; where no
other module is named they are in `Board_proofs`:

| Part | Theorem | Inductive invariant |
|---|---|---|
| `HttpDownloader` | `DownloadsAreWholeOrGone` | `StreamInv`: no more is written than was received, and while nothing failed the file holds exactly what is counted as written, from its first byte. The card's lapses are in the specification; the theorem is about the property as it stands, conditions and all. |
| `FrontButtons` | `ButtonsTypeCorrect`, `LabelsAreTrue` | `MappingInv`: every role has a button that exists, and while the map is not from a JSON file no two share one. |
| `CrossPointState` | `RecentAreAlwaysTheLast` | `RecentInv`: the ring as a function of its history. The slot `k` before the position to be written next holds the picture shown `k`-th last, so long as there are so many. |
| `ButtonNavigator` | `EveryPressIsAlwaysAStep` | `NavInv`: while a button is down the list stands where the steps of the press lead, round either end (`After`); there are steps only once the button was down for longer than the start, and the time of the last one is kept for as long as the press. |
| `BatteryGauge` | `PercentageIsAlwaysRecent` | `GaugeInv`: the polls lie in the past, each cache holds what the gauge said when its window was opened, and the last answer is from a window that was open. |
| `SavedFiles` | `FilesTypeCorrect`, `FilesKeepTheirValue` | `FilesInv`: what is in the file at each step of a write, and that the binary file is renamed only when the JSON file is whole. The refinement is one lemma per action: `LoadFromFile` and `SaveToFile` start a save or stutter, the steps of `WriteFile` spoil or finish it, a failure or a power cut breaks it off. |
| `CrashLog` | `LogTypeCorrect`, `CrashReportIsAlwaysGenuine` | `RingInv`: a ring with its magic has its head in range and holds only messages put since it was cleared (`Genuine`); if no two calls met, they lie in order behind the head, whether or not a put has moved it yet (`InOrder`). |
| `WakeSchedule_proofs` | `ScheduleTypeCorrect`, `SleepAlwaysFollowsFailures`, `GhostingIsAlwaysCleared` | `CountInv`: the byte, in NVS and in a wake, is the failures modulo 256. `SleepInv`: a sleep begun is that of the count it was saved with. `GhostInv`: the fast refreshes fit in the wakes since the last count that was due (`Slack`), and the count in RAM is at most one ahead of NVS. |
| `Board` | `PartsAreAsSpecified`, `BoardIsSafe` | None of its own: a step of the board is a step of one part and leaves the variables of the others alone, so `BoardSpec` implies the specification of every part, and with it what was proved of that part. `BoardIsSafe` states the nine properties of `Board` at once. |

`Graphics_proofs` and, for what is about texts and their glyphs, `Text_proofs`
prove properties of `Graphics` for panels, pictures, shapes, texts and
fonts of any size, and `Inflate_proofs` two, for streams, windows and pieces of
any size and for codes of any lengths:

| Theorem | Inductive invariant and argument |
|---|---|
| `PanelAlwaysShowsThePicture` | `PictureInv`, with `ShotInv` and `FileInv` because the screenshot shares the frame buffer: a download under way has not touched the display, and once it is shown the frame buffer is what was decoded from it. `BmpIsDrawn` and `PngIsDrawn` say that decoding a sound picture draws what was meant, `BmpsAreTold` and `PngsAreTold` that its colours are told apart rightly, palette by palette. |
| `ScreenshotIsAlwaysThePanel` | `ShotInv`: the chunks stored cover the frame buffer and copied back they give it again (`ChunksCover`, `CopiedBackIsTheSame`). `FileInv`: the rows in the file are those of the buffer at the start, as many as were written, and once saving has failed it is gone or short of rows. `ReadBackIsTheSame`: the code's own reader accepts the header and reads those rows. |
| `RowsAreAlwaysReadRight` | `OpenInv`: there is a sequence of ditherer states (`Follows`), the first of them fresh, whose rows are those of the first pass; the row read next in a later pass is the next of that sequence. Colours near those of the panel are read as those (`KeepsNative`). |
| `LinesAreAlwaysStraight` | `CallInv` says what a line may be called with. The walk of Bresenham's loop is by induction over its steps: after `n` of them it stands on the point nearest to the line in its column, and the error term is that distance. Flat and steep lines are one lemma each, the two directions and the four orientations follow from symmetry. |
| `RoundedRectsAlwaysAgree` | `CallInv` again. Every part of the filling is described by the points it covers (`InCorner`, `ColumnPart`, `MiddlePart`), and a point of the shape is in one of them by where its column and row lie between the corners (`PartsAreRounded`). How far a row of a corner reaches is the root of what the radius leaves (`ReachIs`). A point of the disc with a neighbour outside of it is in the ring the border draws (`RimIsRing`), so the border is closed. |
| `TrianglesAreAlwaysFilled` | `CallInv` again. The cross products of a point inside the triangle have one sign and, weighted with the heights of the corners over its row, add up to zero, so corners lie on both sides of the row (`InsideIsCrossed`). Such a row crosses just two edges, one that falls and one that rises (`CrossedPair`). The node of each is rounded towards a corner but never past the point (`NodeSide`, `QuotientIs`), and the two nodes have ranks 0 and 1 (`BetweenIsFilled`). |
| `PicturesAlwaysAgree` | `CallInv` again. Without a crop both paths choose the same scale, the smaller of the two (`ScalesAgree`), and one that fits both bounds (`ScaleFits`, `ScaledIs`); then both draw the same set of spots, once per pass (`PassDraws`, `FastDraws`). Images are taken orientation by orientation: the area the panel's `drawImage()` fills is the rectangle itself, turned and moved by the pixel it is off. |
| `OnlyEncodingsAreEverDecoded` | `BytesInv`: a text is bytes of the sets it is made of. `DecodedIsEncoded` takes the four lengths one by one: what is decoded, encoded again, is the bytes it was read from. |
| `TextIsAlwaysCutBetweenCharacters` | `BytesInv` again: a text to be cut is of characters that have an encoding. An encoding starts with the one byte that tells its length and goes on with continuation bytes only (`EncodingIs`), so the last lead byte of a text that ends within a character is where that character starts (`LastIs`). The beginnings of a text are a function of the number of characters (`PrefixesExist`, `EncodedIs`), each the one before and one encoding more (`PrefixIs`); taking characters off the end walks down that function (`CutIs`). |
| `TextIsAlwaysDrawnAsMeasured` | `TextInv`: a text to be drawn is of the characters of the texts. It follows from `AnyFontDrawsAsItMeasures`, for every font `IsFont` describes. Drawing, `getTextBounds()` and turned drawing are three walks along the letters that are left when ligatures are taken; `Along` relates the states of the first two letter by letter: the same glyphs at the same places, and the same character before, except that measuring forgets a base without a glyph, whose advance is zero and which has no kern (`StepsAre`). A missing glyph, a mark and a base are a case each (`BoundsGoAlong`). A turned walk is the upright one with the axes exchanged: what goes right goes up, what is raised goes left (`TurnedIsState`, `CentreTurns`, `TurnedGoesAlong`). |
| `TextIsAlwaysWrappedToFit` | `TextInv` again, with `AnyFontWrapsToFit` for every font, width and number of lines. The loop of `wrappedText()` keeps to `KeepsTo`: the lines fit, and the words of the lines, of the line that is open and of what remains are those of the text, or an ellipsis stands at the end of a line. A word shorter than its line, one that starts the next and one that fits no line are one case each (`PlaceWordKeeps`). Every round takes a character at least off what remains (`Advances`), so the loop ends. `TruncatedIs`: a text too long is cut to what leaves room for the ellipsis. |
| `GlyphIsAlwaysTheRightOne` | `FontInv`: every slot of the page is a slot of its face (`IsSlot`: a glyph with an offset lies there in the buffer, whole), the hot group holds the pixels of the group it is named for (`HotInv`), and what a scope recorded names a family that exists (`ScanInv`). The offset of a glyph is counted along the same glyphs that its group is joined from, so it is the length of what comes before (`GroupHolds`), and without the padding of its rows the glyph is what it looks like (`CompactedIs`). A glyph that is extracted is put behind all others and moves none of them (`ExtractIs`); this carries through the glyphs of a group, the groups that were not lost and the styles of the text (`ExtractGroupIs`, `FilledSlotIs`, `WarmedPageIs`). The property alone says nothing of the caches the next glyph is taken from. |
| `OutputIsAlwaysTheExpansion` | `InflateInv`, which is about all bytes that came out so far, in this call and before. `StreamIs`: every match reaches back into the data before it. `RingHolds`: the ring holds the last `DictSize` of those bytes, and `dictIdx` is their number modulo `DictSize`. `Kept`: the bytes are the start of what the stream stands for, and the reader is where they end - `at` and `curlen` in a block that is stored, at a symbol or within a match, whose `lzOff` is then the place of the byte one distance back (`Offset`). `OutputIsTheExpansion` itself says nothing of where the reader is and is not inductive. A match of any length repeats itself (`MatchRepeats`), also where it overlaps what it puts out; a byte that enters the ring overwrites none that a match may still ask for (`RingHoldsNext`), not even at a distance of the whole window. Each branch of the loop puts out the next byte or none (`InflateStepIs`), and induction over the rounds of a call gives the step of `ReadAtMost` (`UncompressIs`). |
| `EveryWordIsAlwaysDecoded` | The code is always a sequence of lengths from 0 to 15, whatever items describe it (`CodeAlwaysKept`). Then it follows from `AnyCodeIsDecoded`, for every such sequence that leaves room for its words (`IsPrefixCode`), and `FixedCodeIsDecoded`, for the tables that are written out. Both trees hold the number of words of each length, and each symbol at the place of its rank (`IsTree`, `TreeIsBuilt`, `FixedTreeIs`). A word is the first one of its length and as many more as symbols of that length come before (`ValueIs`). After each bit `cur` is the value of the bits so far, less the first word of their number and less how many words have that number of bits. It is not negative while the word goes on, as a longer word starts behind all the shorter ones, and negative with its last bit; `sum + cur` is then one less than the rank of the symbol (`WordIsDecoded`). |

`IsFont` asks of a font what `fontconvert.py` writes: glyphs with a width and a
height, and kerns only between characters that have a glyph. `FontAssumption`
asks of a compressed face that every glyph has a size and a group.
`IsPrefixCode` asks of the lengths of a code that the words of each length, as
the format counts them, are among those there are; lengths that break it have no
words to decode. No more is asked: not that all words are used.

The theorems rest on the assumptions of the modules, three of which are there
for the proofs: a screenshot is no larger than what the reader of bitmaps takes
(`ScreenshotAssumption`; the panel of 800x480 is far below 2048x3072), the bytes
of a text are not zero (`BytesAssumption`; zero ends it), and shapes and
pictures are not higher than the upright screen (`ShapesAssumption`). Higher
ones are clipped, and of a bottom-up bitmap nothing is drawn then: section 5.

Induction. The theorems of the library that take an operator cannot be
instantiated by the provers. `Numbers` therefore states induction for a set of
numbers (`Induction`: a set that holds zero and with each number the next holds
them all) and recursion for a function (`Recursion`), and proves both from the
existence of a least counterexample. A property to be proved by induction is
given as the set of numbers that have it.

Only model-checked:

* `SleepIsFollowedByCycle`, `OutageEndsInPortal`, `WaitEnds`, `UpdateIsDrawn`,
  `DownloadEnds`: liveness. Fairness and `ENABLED` are beyond the prover.

All safety properties of the passing runs are stated by theorems.

## 5. Observations on the code

Met while modelling, and modelled as the code has them. Where a comment says
otherwise and no run of its own shows it, the disagreement is told here, because a
passing property is stated around it.

* *Against their comments:*
  * "Border is inside the rectangle" (GfxRenderer.cpp:331, 384): `drawRect()` with a
    line width, which `drawRoundedRect()` falls back on without a radius, puts its right
    and lower side one pixel outside. `RoundedRectsAgree` is about borders with a radius
    and about the `drawRect()` that has no line width.
  * "If the buffer ends mid-sequence, the incomplete trailing bytes are excluded"
    (Utf8.h:13-15): `utf8SafeTruncateBuffer()` keeps an incomplete sequence when it is
    all there is. `TextIsCutBetweenCharacters` is about one within a *later* character.
  * "each no wider than maxWidth pixels" (GfxRenderer.h:133-134): an ellipsis alone is
    wider when the box is narrower than it. `WrappedTextFits` excepts just that.
  * "Each failed wake doubles the sleep interval up to ~24 h" (TrmnlActivity.cpp:165-167):
    not the 256th, the run `backoff_wraps`.
* `fillRect()` with a width of zero or less draws to the left; `fillRoundedRect()`
  leaves gaps when fewer than two columns lie between its corners; `fillPolygon()`
  never draws the topmost row.
* `drawImage()` is one pixel off in three of the four orientations, and one that is
  not square is out of place on an upright screen, because its bits are not turned
  (GfxRenderer.cpp:627 has a TODO). The tree draws one image, the square logo.
* `drawBitmap()` of a bottom-up file that is taller than the screen stops at its
  first row; rounding of a crop may exceed `maxWidth` by one.
* `drawTextRotated90CW()` ignores that a cache scope is recording, and takes the
  ascender of the styled face where `drawText()` takes that of the regular one;
  `getTextBounds()` moves the box of a raised mark down (EpdFont.cpp:57) where
  `drawText()` moves the mark up. Only the width of the box is used in the tree.
* No result of `close()` or `remove()` is looked at where a screenshot or a download is
  saved (section 2), so what is left of a failed one depends on the card.
* `prewarmCache()` is called for the first recorded font only.
* `takeScreenshot()` holds no `RenderLock`.
* `Bitmap::rewindToData()` resets the ditherer but not `prevRowY`.
* `FloydSteinbergDitherer` mirrors the spread of its error in every other row,
  as a serpentine scan wants it, but all rows are read from the left.
* `InflateReader::read()` reports success and zeros for a stored block cut short.
* After a failed decode the frame buffer is no longer what the panel shows.
* A download of unknown length that is cut short is taken for whole.
* `clearPanic()` is not called after the dump, so the report of one panic may be
  written again.
* The full refresh of every sixteenth wake (TrmnlActivity.cpp:271) is skipped, and
  not made up for, when that wake hits the cache, fails or does not connect.
* The button map of the JSON settings is checked field by field but, unlike that
  of the binary file, not for duplicates.

## 6. Not modelled

* `OtaUpdater`: release page of another project, no caller. The bytes that
  `TrmnlOta` writes, and HTTP, TLS, headers and JSON of `TrmnlApi`: their
  answers are free choices, which is all the wake cycle sees of them.
* The lock against low power (`HalPowerManager::Lock`): nothing in the tree
  calls `setPowerSaving(true)`, so the frequency never changes.
* Telemetry other than the wake count (`friendly_id`, `last_refresh`, battery, signal):
  sent to the server, decides nothing.
* `HalDisplay` refresh modes, greyscale planes and the resync after a wake, the
  debouncing of buttons, the SD and EPD drivers, the battery ADC: submodules that
  are not in the tree, or hardware.
* The one-bit Atkinson ditherer, which nothing uses, the
  gamma and brightness options, gzip and zlib headers with their checksums.
* The panic message and stack dump beside the log ring, and the wording of a log
  line.
* `I18n` (tables and one byte), `Serialization`, `FsHelpers`, `UrlUtils`,
  `StringUtils`, `XmlParserUtils` (stateless conversions), generated font data,
  build scripts and CI.

## 7. Left to do

1. An atomic abstract store for NVS, as `KeptValue` is for the card, with
   `TrmnlDevice` without power loss as its implementation.
2. The order in which stored networks are tried, and that the network of a saved
   form is the first.
