\* One request at a time, in every order.
CONSTANTS
  s1 = s1 s2 = s2 s3 = s3 s4 = s4 o1 = o1 o2 = o2 r1 = r1 r2 = r2 r3 = r3
  Shifts = {s1, s2, s3, s4}
  Officers = {o1, o2}
  Rows = {r1, r2, r3}
  NoRow = NoRow NoShift = NoShift NoOfficer = NoOfficer
  Handlers = {h1}
  Times <- SomeTimes
  Rules <- SomeRules
  Asked <- SomeStatuses
  MaxBatch = 2
  DayLength = 4
  Week = 2
  Horizon = 3
  NoEnd = NoEnd
SPECIFICATION Spec
SYMMETRY Symmetry
INVARIANTS BookingsKept ReplacedOnce
PROPERTIES AcceptedIsFree
\* Requests stop coming when all rows are used.
CHECK_DEADLOCK FALSE
