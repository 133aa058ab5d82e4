CONSTANTS
  Row = Row
  Digits <- MCDigits
  Amounts <- MCAmounts
  Words <- MCWords
  Currencies = {"KRW"}
  Codes <- MCCodes
  Hyphenated = {"A-"}
  Footers <- MCFooters
  RowWindow = 11
  CountWindow = 79
  Documents <- MCDocuments
  Modes = {"auto", "always"}
  Runs = {r1}
  Clicks = {c1}
  ModelItems <- MCModelItems
  ModelTypes = {"quote", "rfq", "general_document"}
  MaxClicks = 2
  MaxCrashes = 1
  g1 = g1
  g2 = g2
  Gateways = {g1, g2}
  Threads = {t1, t2, t3}
  Config <- MCConfig
  MaxTexts = 2
SPECIFICATION MCSpec
INVARIANT CurrentShown
INVARIANT UnreadFlagged
INVARIANT RowsRead
INVARIANT PermitsCounted
PROPERTY FieldsKept
CHECK_DEADLOCK FALSE
