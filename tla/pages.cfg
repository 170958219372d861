\* Three tickets of two customers, pages of two, two instants: ties, late
\* commits, full and empty last pages.
SPECIFICATION FairSpec
CONSTANTS
  ann = ann
  bob = bob
  Customers = {ann, bob}
  Tickets = {1, 2, 3}
  Owner <- Owners
  PageSize = 2
  MaxClock = 2
CHECK_DEADLOCK FALSE
INVARIANT PagesApart
INVARIANT NothingMissed
INVARIANT ReportAddsUp
PROPERTY WalkEnds
