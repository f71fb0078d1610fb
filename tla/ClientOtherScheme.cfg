CONSTANTS
  Parts = {"setup"}
  Envs <- MCEnvs
  Proxies <- MCProxies
  Hosts <- MCHosts
  Delays = {0, 7, 99}
  PerMs = 3
  MaxMs = 20
  ConnectMs = 9
  Limits = {0, 50}
  MaxU32 = 40
  MaxCalls = 3
  MaxSettings = 2
  MaxWrites = 2
  MaxBuilds = 2
  ArrayNulls = FALSE
  MaxBody = 5
  MaxSteps = 2
  HaveIcu = TRUE
  None = None
  Err = Err
  Unknown = Unknown
  Defaults <- MCDefaults
  Starts <- MCStarts
  Fallbacks = {"utf_8", "windows_1252"}
  Openings <- MCOpenings
  Following <- MCFollowing
  Texts <- MCTexts
  Refs <- MCRefs
  Queries <- MCQueries
  MaxPort = 65535
  Origins = {"h", "i"}
  Codes <- MCCodes
  Flags = {"expired"}
  MaxSaid = 2
  Statuses <- MCStatuses
  Versions = {"HTTP/1.0", "HTTP/1.1", "ICY", "long"}
  Long = {"long"}
  Blocks <- MCBlocks
  Urls <- MCUrls
  Parsable <- MCParsable
  Mine <- MCMine
  Nul = Nul
  MaxChunks = 2
  MaxReads = 4
  Threads = {1, 2}
  MaxI32 = 3
  MaxUnits = 3
  Values <- MCValues
  Leads = 3
  Digits = 2
  DefaultSamples = 7
  Chosen = {"gbk", "euc_jp"}
  MaxRows = 2
  Accepts <- MCAccepts
SPECIFICATION Spec
INVARIANT OtherTrafficSpared
