CONSTANTS
  m1 = m1
  m2 = m2
  m3 = m3
  m4 = m4
  s1 = s1
  s2 = s2
  NoConvo = NoConvo
  NoBlock = NoBlock
  Blocks <- Catalogue
  NextBlocks <- MCNextBlocks
  AttachedBlock <- MCAttachedBlock
  SystemBlocks <- MCSystemBlocks
  EntryBlocks <- ShortEntryBlocks
  CaptureBlocks <- MCCaptureBlocks
  MaxAttempts <- MCMaxAttempts
  AttemptLimit = 1
  GlobalFallback = TRUE
  Msgs = {m1, m2, m3, m4}
  Subs = {s1}
  Sender <- OneSubscriber
  TextMsgs = {m1, m2, m3, m4}
  FallbackBlock = NoBlock
  Overlap = FALSE
  Faults = {"channel"}
SPECIFICATION FairSpec
INVARIANTS NoneForgotten OneLiveConversation AttemptWithinBlockLimit
PROPERTIES CapturesKept FollowsFlow EveryMessageHandled
CHECK_DEADLOCK FALSE
