\* The device flow, the calendar client, the token's file and the two stores.
CONSTANTS
  Calendars <- MCCalendars
  Offer <- MCOffer
  DayLen = 2
  AllDay = AllDay
  MaxInterval = 1
  Expiry = 3
  Now <- MCNow
  MaxTokens = 2
  MaxBoots = 1
SPECIFICATION Spec
INVARIANTS TypeOK AgendaBest BootFindsToken
PROPERTIES ValidTokenKept StoresFromWholeFetch JobEnds
CHECK_DEADLOCK FALSE
