CONSTANTS
  m1 = m1
  m2 = m2
  m3 = m3
  m4 = m4
  s1 = s1
  s2 = s2
  NoConvo = NoConvo
  NoBlock = NoBlock
  Blocks <- Catalogue
  NextBlocks <- MCNextBlocks
  AttachedBlock <- MCAttachedBlock
  SystemBlocks <- MCSystemBlocks
  EntryBlocks <- MCEntryBlocks
  CaptureBlocks <- MCCaptureBlocks
  MaxAttempts <- MCMaxAttempts
  AttemptLimit = 1
  GlobalFallback = TRUE
  Msgs = {m1, m2, m3}
  Subs = {s1, s2}
  Sender <- TwoSubscribers
  TextMsgs = {m1, m2, m3}
  FallbackBlock <- MCFallbackBlock
  Overlap = TRUE
  Faults = {"db", "channel"}
SYMMETRY PairSymmetry
SPECIFICATION Spec
INVARIANTS TypeOK WaitsAtQuestion AnsweredByOneConversation
PROPERTY LifecycleSpec
CHECK_DEADLOCK FALSE
