SPECIFICATION FairSpec
CONSTANTS
  bash = bash edit = edit web = web
  c1 = c1 c2 = c2 main = main helper = helper helper2 = helper2 other = other
  here = here there = there k1 = k1 k2 = k2 git = git
  Unlinked = Unlinked NoFamily = NoFamily
  Call = {c1, c2}
  Conversation = {main}
  Helper = {helper, helper2}
  Tool = {bash, edit, web}
  EditTools = {edit}
  FleetTools = {web}
  Key = {k1, k2}
  Place = {here, there}
  Family = {git}
  Within <- MCWithin
  Opts <- MCOptsRead
  Modes = {"ask"}
  Button = {"deny"}
  Attendance = {FALSE}
  MaxPress = 1
  MaxDenials = 2
INVARIANTS TypeOK ContinuationsArePaidFor DenyIsHeardOrTaken
PROPERTIES FirstAnswerStands EveryQuestionSettles
CHECK_DEADLOCK FALSE
