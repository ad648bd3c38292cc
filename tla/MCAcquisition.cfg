SPECIFICATION FairSpec
CONSTANTS
  u1 = u1
  u2 = u2
  v1 = v1
  v2 = v2
  Url = {u1, u2}
  Volume = {v1, v2}
  Task = {rss, user}
  Manual = {user}
  Covers <- MCCovers
  Dl <- MCDl
  Guid <- MCGuid
  NoUrl = NoUrl
  NoGuid = NoGuid
  MaxUpsets = 2
CHECK_DEADLOCK FALSE
INVARIANTS OneRowPerDownload
PROPERTIES ClaimNotStolen LoserDoesNotFill ImportKeepsClaim CompletedIsQueued
