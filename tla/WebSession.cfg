SPECIFICATION FairSpec
CONSTANTS
  s1 = s1
  s2 = s2
  ReqLimit = 3
  Sockets = {s1, s2}
  Http = Http
  NoWeb = NoWeb
  Uses <- MCUses
INVARIANTS RepliesReachSender AcceptedOnceSubscribed OneVisitor HandedInOrder
PROPERTY EveryRequestAnswered
CHECK_DEADLOCK FALSE
