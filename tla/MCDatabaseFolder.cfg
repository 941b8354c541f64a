SPECIFICATION FolderSpec
CONSTANTS
  t1 = t1  t2 = t2
  PathOrder <- MCPathOrder
  Canon <- MCCanon
  Rendered <- MCRendered
  SystemSchema = {"pg_catalog"}
  LongReturn = {"long"}
  Command <- MCCommand
  Folders <- MCFolders
  Catalogs <- MCCatalogs
  Changed <- MCChanged
  Bare <- MCBare
  Lower <- MCLower
  NotScanned = {}
  Table = {t1, t2}
  Torn = Torn  Absent = Absent
  MaxRuns = 3  MaxDrops = 1
INVARIANTS FetchConverges TrackedKept FilterExplained ColumnFilesListed UpdateExact
CHECK_DEADLOCK FALSE
