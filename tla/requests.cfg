SPECIFICATION DaemonSpec
CONSTANTS
  nas1 = nas1
  nas2 = nas2
  nas3 = nas3
  Nas = {nas1, nas2, nas3}
  Lan <- MCLan
  NameOf <- MCNameOf
  MaxPairRequests = 2
  MaxPairFaults = 1
  Absent = Absent
  Keys = {1}
  PublicKeys = {1}
  MaxBlocks = 2
  MaxShieldRequests = 1
  MaxShieldFaults = 1
  Events <- MCEvents
  WindowLimit <- MCWindowLimit
  CorrelationMin = 2
  StuffingLimit = 1
  HabitualAfter = 2
  Policies <- MCPolicies
  Recoveries = {0, 75}
  ChannelSize = 1
  MaxEvents = 2
  MaxSuccesses = 1
  MaxTurns = 1
  Owner = "owner"
  Guests = {"guest"}
  Desks = {1, 2}
  MaxShareAsked = 3
  MaxShareMishaps = 1
  Uploads = {2, 3}
  Clerks = {1, 2}
  Inodes = {1, 2, 3}
  Items = {1, 2}
  MaxFileAsked = 3
  MaxFileMishaps = 1
  Visitors = {1, 2}
  Owners = {1, 2}
  Limits = {0, 1, 2}
  MaxLinkEdits = 2
  MaxLinkTime = 3
  Counters = {1, 2}
  MaxLoginAttempts = 1
  MaxAccountAsked = 3
  MaxAccountMishaps = 1
  Instances = {"docker"}
  Askers = {1}
  MaxServiceAsked = 2
  MaxServiceMishaps = 1
  UidApps = {"wiki", "forum", "blog"}
  SameName = {"wiki", "forum"}
  ImageOwned = {"blog"}
  Databases = {"forum"}
  UidMax = 2
  Deployers = {1}
  MaxUidAsked = 3
  MaxUidMishaps = 1
  Chores = {1, 2}
  DefaultKind <- MCDefaultKind
  Minutes = 2
  LastMinute = 3
  Editors = {1, 2}
  MaxChoreAsked = 2
  MaxChoreMishaps = 1
  Images = {1}
  MaxVersion = 2
  ImageCheckers = {"panel", "night"}
  Night = "night"
  MaxImageAsked = 2
  MaxImageMishaps = 1
  ListOf <- MCListOf
  Fetchers = {"timer", "panel"}
  CacheKept = 3
  MaxFeedAsked = 1
  MaxFeedMishaps = 1
INVARIANTS
  DaemonTypesOK
  PeersConsistent
  
  
  ContentsConsistent
  AccessConsistent
  
CHECK_DEADLOCK FALSE
