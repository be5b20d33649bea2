\* Every operation in turn on two patrols, or three handlers at once on one.
CONSTANTS
  phone = phone tablet = tablet supervisor = supervisor p1 = p1 p2 = p2
  NoPatrol = NoPatrol
  Patrols = {p1, p2}
  LastCheckpoint = 2
  Handlers = {phone, tablet, supervisor}
  May <- AloneOrRacing
  Sequential = TRUE
  LateVisits = TRUE
SPECIFICATION MCSpec
INVARIANTS PatrolsTrueAlone VisitedHonestly
\* Requests stop coming, and nothing is left to do once all patrols are over.
CHECK_DEADLOCK FALSE
