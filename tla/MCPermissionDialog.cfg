SPECIFICATION DSpec
CONSTANTS
  bash = bash c1 = c1 c2 = c2 c3 = c3 main = main helper = helper helper2 = helper2 here = here k1 = k1 k2 = k2 git = git
  Unlinked = Unlinked NoFamily = NoFamily Nobody = Nobody
  Call = {c1, c2}
  Conversation = {main}
  Helper = {helper, helper2}
  Tool = {bash}
  EditTools = {}
  FleetTools = {}
  Key = {k1, k2}
  Place = {here}
  Family = {git}
  Within <- MCWithin
  Opts <- MCOpts
  Modes = {"ask"}
  Button = {"allow", "family", "covered"}
  Attendance = {FALSE}
  MaxPress = 2
  MaxDenials = 1
  MaxKeys = 2
INVARIANTS OneDialogAtATime NoDeadDialog LostOnlyToAStaleAnswer
SYMMETRY MCSymmetry
CHECK_DEADLOCK FALSE
