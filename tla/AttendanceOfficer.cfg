\* Two days of a recurring shift: an officer with one request at a time, and a
\* reviewer.
CONSTANTS
  officer = officer device = device reviewer = reviewer
  b1 = b1 b2 = b2
  NoBreak = NoBreak
  Days <- TwoDays
  Breaks = {b1, b2}
  Handlers = {officer, reviewer}
  May <- OfficerAndReviewer
  Recurring = TRUE
SPECIFICATION OfficerSpec
SYMMETRY BreakSymmetry
INVARIANTS BreaksInTurn ClockedOutIsSettled FinishedAssignmentReleased WorkShown
\* Requests stop coming, and nothing is left to do once all rows are final.
CHECK_DEADLOCK FALSE
