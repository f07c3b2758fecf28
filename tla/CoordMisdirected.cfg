\* The coordinator idles when every client has left: no deadlock check.
SPECIFICATION Spec
CONSTANTS
  c1 = c1
  c2 = c2
  c3 = c3
  q1 = q1
  Nobody = Nobody
  Clients = {c1, c2, c3}
  Classes = {q1}
  NumSlots = 4
  NumFDs = 4
  MaxLoad = 1
  MaxReports = 2
  Interrupts = FALSE
  SelectFails = FALSE
  Resets = FALSE
SYMMETRY Symmetry
INVARIANT SentToSource
CHECK_DEADLOCK FALSE
