SPECIFICATION Spec
CONSTANTS
  bash = bash edit = edit web = web
  c1 = c1 c2 = c2 main = main helper = helper helper2 = helper2 other = other
  here = here there = there k1 = k1 k2 = k2 git = git
  Unlinked = Unlinked NoFamily = NoFamily
  Call = {c1, c2}
  Conversation = {main}
  Helper = {}
  Tool = {bash, edit, web}
  EditTools = {edit}
  FleetTools = {}
  Key = {k1, k2}
  Place = {here, there}
  Family = {git}
  Within <- MCWithin
  Opts <- MCOpts
  Modes = {"ask", "plan", "auto"}
  Button = {"session", "family"}
  Attendance = {TRUE, FALSE}
  MaxPress = 1
  MaxDenials = 1
INVARIANTS IrreversibleNeedsThePerson
SYMMETRY MCSymmetry
CHECK_DEADLOCK FALSE
