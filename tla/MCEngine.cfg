\* One slot and two kept requests for three resources; a channel shorter than what
\* can be on its way.
CONSTANTS
  Page = page
  X = x
  Y = y
  Z = z
  B1 = b1
  Urls <- MCUrls
  Assets <- MCAssets
  Targets <- MCTargets
  Browsers <- MCBrowsers
  ChannelRoom = 2
  RequestRoom = 2
  Slots = 1
  MaxAsks = 2
  NoJob = nojob
  NoUrl = nourl

CHECK_DEADLOCK FALSE

SPECIFICATION FairSpec

INVARIANTS
  ActiveCounts

PROPERTIES
  StartsOnce
  Served
  Ends
