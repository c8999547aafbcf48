CONSTANTS
  Absent = absent
  Nothing = nothing
  Subject = {s, t}
  Value = {v, w}
  MaxLines = 4
  MaxTime = 2
  Fixture <- Fixtures
  MaxRecords = 3
  MaxEvents = 3
  MaxDates = 2
  RawKey = {k, l, m}
  Key = {k, l, m, junk}
  Cryptography = TRUE
  Junk = junk
  Content = {"x", "y"}
  Signer = {1, 2}
  Drafts <- Directories
  Entries <- SomeEntries
  EventLines <- SomeEvents
  Strays <- SomeStrays
  Uses <- Algorithms
  MaxEdits = 1
  MaxEnvelopes = 2
SYMMETRY Symmetric
SPECIFICATION ClaimsSpec
INVARIANTS
  OnePath
  CurrentSurfaces
  DeficitIsFragmented
  OrderFreeIfDated
  VouchedContent
  HalfMadeRefused
  SigningKeeps
  RoundTrip
  ReadersAgree
  NotaryBound
