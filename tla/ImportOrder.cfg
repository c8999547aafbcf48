CONSTANTS
  Absent = absent
  Nothing = nothing
  Subject = {s, t}
  Value = {v, w}
  MaxLines = 2
  MaxTime = 2
  Fixture <- Fixtures
  MaxRecords = 3
  MaxEvents = 1
  MaxDates = 1
  RawKey = {k, l}
  Key = {k, l, junk}
  Cryptography = TRUE
  Junk = junk
  Content = {"x"}
  Signer = {1, 2}
  Drafts <- Directories
  Entries <- SomeEntries
  EventLines <- SomeEvents
  Strays <- SomeStrays
  Uses <- Algorithms
  MaxEdits = 0
  MaxEnvelopes = 1
SPECIFICATION ClaimsSpec
INVARIANT ImportOrderFree
