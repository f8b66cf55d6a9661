SPECIFICATION MCSpec
CONSTANTS
 Adapter = {a1, a2, a3}
 supports = {a2}
 EventBit = {position, measurement}
 AskedMasks = {{position}}
 mExcludedMask = {}
 MaxAdapters = 3
 MaxActs = 5
 Ver = {"v1", "v2"}
 Host = {"h1"}
 GnssType = {"GNSS_MSM", "GNSS_QCA1530"}
 MaxFrameworkCalls = 2
 MaxRestarts = 1
 UlpProxy = {u1}
 LocPosMode = {"MSB"}
 MaxBases = 1
 MaxHalCalls = 3
 MaxReports = 1
 Caller = {c1, c2}
 MaxAsks = 2
 WifiSender = {"QUIPC"}
 MaxWrites = 3
 MaxPipe = 1
 MaxNmea = 3
 Lists <- SvLists
 Masks <- SvMasks
 Data = {d1, d2, d3}
 MaxElems = 3
 Item = {1, 2, 3, 4, 5, 6}
 Rank <- Ranks
 config_table <- Conf
 loc_param_table <- LogConf
 Line <- Lines
 MaxLines = 3
 MaxReads = 2
 Lit <- LightStates
 Level = {255}
 Device = {"find7s", "find7"}
 Camera = {0, 1}
 Setting <- Settings
 Text <- Texts
 MaxStrings = 3
 Tree <- Trees
 FileName = {f1, f2, f3}
 Size = {0, 32}
 page_size = 32
 Earlier = {1000}
 ID = {1, 2}
 NoHandle = 0
 MAX_START_DATA_CALL_RETRIES = 1
 MaxQueue = 3
 MaxTimers = 2
INVARIANTS PartsTypeOK EventsCovered AdaptersServed SettingsArrive CapabilitiesTold UlpInStep
 ContextsShared DaemonsServed SentencesWhole StructuresKept ConfRead LedShows CamerasSafe
 DtbTable RetriesBounded CallTracked FallbackHasHandle
CHECK_DEADLOCK FALSE
