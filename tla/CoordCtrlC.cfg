\* The coordinator idles when every client has left: no deadlock check.
SPECIFICATION FairSpec
CONSTANTS
  c1 = c1
  c2 = c2
  q1 = q1
  Nobody = Nobody
  Clients = {c1, c2}
  Classes = {q1}
  NumSlots = 3
  NumFDs = 4
  MaxLoad = 1
  MaxReports = 2
  Interrupts = TRUE
  SelectFails = FALSE
  Resets = FALSE
PROPERTY InterruptStops
CHECK_DEADLOCK FALSE
