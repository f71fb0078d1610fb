CONSTANTS
  Workers = {w1, w2, w3}
  CanAbort = TRUE
  Origins = {a, b, c}
  Home = a
  Sensitive = {authorization, cookie, proxyAuth}
  Slots = 4
  SlotTime = 2
  Permille = 500
  Baseline = 1
  MaxLog = 4
SPECIFICATION PartsSpec
INVARIANTS
  TypeOK
  DrainedIsQuiescent
  CallbackStateLive
  NoLostWakeup
  StripTypeOK
  SecretsStayHome
  HeadersKeptAtHome
  OriginTracked
  LedgerExact
PROPERTIES
  KeepsDrainContract
  DropEnds
  AbortStopsHops
  ExtraLoad
