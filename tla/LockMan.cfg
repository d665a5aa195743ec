SPECIFICATION FairSpec
CONSTANTS
  Proc = {p1, p2, p3}
  Rec = {r1, r2, r3}
  Key = {k1}
  Sharing = {}
  Background = bg
  Ctx <- Contexts
  CtxOf <- OwnOrBackground
  NoCtx = NoCtx
  NoRec = NoRec
  NoKey = NoKey
  MaxDepth = 2
  MaxOwed = 2
CHECK_DEADLOCK FALSE
INVARIANTS
  MutualExclusion
  NoLostWakeup
  DepthCounts
  NoLeak
  FatalUnlockNeedsOrphan
  FatalLockNeedsSharing
 
