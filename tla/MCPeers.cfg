SPECIFICATION Spec
CONSTANTS
  Program = {1, 2}
  Turn = {1, 2}
  MaxInbox = 2
  Sender = {1}
  Worker = {2}
  MaxTries = 2
  MaxSend = 3
  MaxAsk = 2
  MaxRun = 2
  MaxEvent = 1
INVARIANTS
  TypeOK
  NamesCollideUnseenOnly
  AcceptedNotLost
  OneNoticePerAsk
  AwaitedIsOnItsWay
  BusyIsTrue
CHECK_DEADLOCK FALSE
