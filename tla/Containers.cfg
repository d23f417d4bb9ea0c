SPECIFICATION Spec
CONSTANTS
  None = None
  Blank = Blank
  VendorKey <- MCVendorKey
  ProductKey <- MCProductKey
  Images <- MCImages
  Records <- MCRecords
  Ratings <- MCRatings
  Published <- MCPublished
  PackageLimit = 2
  MaxDeliveries = 2
  MaxFaults = 2
CHECK_DEADLOCK FALSE
INVARIANTS WorstFindingSetsLevel RowsAreWarranted
PROPERTIES ScanIsNotWeakened
