CONSTANTS
  r1 = r1
  r2 = r2
  Records = {r1, r2}
  InitialOrder <- TwoRecords
  InitialValues <- BothTabs
  MaxVersion = 2
  MaxOthers = 2
  Dialogs <- AllDialogs
  Own = {r2}
  Paks = {p1, p2}
  Archived = {p2}
  MaxReads = 2
  MaxRotations = 3
  Forms <- AddForms
  Texts = {"a", "b"}
  Blank = ""
  MaxRecords = 2
  DevEuiPrefixes = {"a", "b"}
  NoPrefix = "none"
  MaxSerial = 2
  Quantities = {1, 2}
SPECIFICATION MCSpec
INVARIANTS ConfirmsWhatIsOffered KeyIsTold RecordsAreAnnounced RangeIsToBeHad
PROPERTIES KeyIsSeen
CHECK_DEADLOCK FALSE
