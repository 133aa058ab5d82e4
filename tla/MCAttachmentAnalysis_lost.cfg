CONSTANTS
  Row = Row
  Digits <- MCDigits
  Amounts <- MCAmounts
  Words <- MCWords
  Currencies = {"KRW"}
  Codes <- MCCodes
  Hyphenated = {"A-"}
  Footers <- MCFooters
  RowWindow = 11
  CountWindow = 79
  Documents <- LongQuotes
  Modes = {"auto", "always"}
  Runs = {r1}
  Clicks = {c1}
  ModelItems <- MCModelItems
  ModelTypes = {"quote", "rfq", "general_document"}
  MaxClicks = 2
  MaxCrashes = 1
SPECIFICATION Spec
INVARIANT EveryRowAccounted
CHECK_DEADLOCK FALSE
