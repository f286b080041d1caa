\* No power loss; serial log build; a card that may fail.
SPECIFICATION FairSpec
CONSTANTS
  Servers = {s1, s2}
  Files = {f1, f2}
  Urls = {u1}
  None = None
  Threshold = 2
  DefaultServer = None
  DefaultKey = None
  Ssids = {w1, w2}
  NoSsid = NoSsid
  MaxNetworks = 1
  Torn = Torn
  Malformed = Malformed
  BootSsid = NoSsid
  SerialLog = TRUE
  EnableOta = TRUE
  SdFaults = TRUE
  PowerLoss = FALSE
INVARIANTS TypeOK KeyBelongsToServer PanelMatchesKey OtaRecordIsTrue
PROPERTIES SleepIsFollowedByCycle OutageEndsInPortal
