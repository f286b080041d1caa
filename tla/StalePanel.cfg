SPECIFICATION Spec
CONSTANTS
  Servers = {s1, s2}
  Files = {f1}
  Urls = {u1}
  None = None
  Threshold = 3
  DefaultServer = s1
  DefaultKey = s1
  Ssids = {w1, w2}
  NoSsid = NoSsid
  MaxNetworks = 1
  Torn = Torn
  Malformed = Malformed
  BootSsid = NoSsid
  SerialLog = FALSE
  EnableOta = TRUE
  SdFaults = FALSE
  PowerLoss = FALSE
INVARIANT KeyIsOnPanel
