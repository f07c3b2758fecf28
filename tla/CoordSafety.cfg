\* The coordinator idles when every client has left: no deadlock check.
SPECIFICATION Spec
CONSTANTS
  c1 = c1
  c2 = c2
  q1 = q1
  Nobody = Nobody
  Clients = {c1, c2}
  Classes = {q1}
  NumSlots = 3
  NumFDs = 4
  MaxLoad = 1
  MaxReports = 2
  Interrupts = TRUE
  SelectFails = TRUE
  Resets = TRUE
SYMMETRY Symmetry
INVARIANT TypeOK
INVARIANT NodeInfosExclusive
INVARIANT DecidesOnSomeNode
INVARIANT MonitoredKnown
INVARIANT UniqueNodes
INVARIANT SnapshotCurrent
INVARIANT MonitoredOpen
INVARIANT NoLostStop
PROPERTY ImplementsService
CHECK_DEADLOCK FALSE
