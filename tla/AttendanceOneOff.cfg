\* Every operation in turn over two days, or three handlers at once on one day.
CONSTANTS
  officer = officer device = device reviewer = reviewer
  b1 = b1 b2 = b2
  NoBreak = NoBreak
  Days <- TwoDays
  Breaks = {b1, b2}
  Handlers = {officer, device, reviewer}
  May <- AloneOrRacing
  Recurring = FALSE
SPECIFICATION MCSpec
SYMMETRY BreakSymmetry
INVARIANTS BreakTotalExactAlone PlanFollowsWorkAlone
PROPERTIES NeverBackOnDuty
\* Requests stop coming, and nothing is left to do once all rows are final.
CHECK_DEADLOCK FALSE
