SPECIFICATION UpkeepSpec
CONSTANTS
  web1 = web1  web2 = web2  cli = cli  c1 = c1  gitlab = gitlab  forgejo = forgejo
  Null = Null
  Tables <- SomeTables
  Order <- Migrated
  ForeignKeys <- SomeKeys
  Ids = {1, 2}
  Contents <- SomeContents
  Uploads <- SomeUploads
  Admins = {web1, web2}
  Operators = {cli}
  Conns = {c1}
  TTL = 1
  MaxTokens = 1
  MaxDownloads = 1
  Feeds = {gitlab, forgejo}
  Dates = {1, 2}
  LeaveDays = {1}
  Fetches = {1, 2}
  MaxChanges = 1
  MaxRefreshes = 1
  Purposes = {"server", "reassign"}
INVARIANTS UpkeepTypeOK RestoredIsTheBackup TokenIsSpent
PROPERTIES RestoreEnds QuietAfterStop FeedsArrive
CHECK_DEADLOCK FALSE
