CONSTANTS
  r1 = r1
  r2 = r2
  Records = {r1, r2}
  InitialOrder <- OneRecord
  InitialValues <- Different
  MaxVersion = 2
  MaxOthers = 1
  Dialogs <- AllDialogs
  Values = {"", "a", "b"}
  Texts <- SomeTexts
  Blank = ""
  Spaces = " "
SPECIFICATION FairSpec
INVARIANTS InputStaysWithItsRecord
PROPERTIES SaveTouchesWhatWasTyped SavedRecordIsShown SavesEnd
CHECK_DEADLOCK FALSE
