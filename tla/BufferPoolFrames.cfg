CONSTANTS
  FrameId = {f1, f2}
  MaxPages = 3
  Data = {d1, d2}
  Zero = Zero
  Free = Free
  NoFrame = NoFrame
  MAX_FREE_PAGES = 2
  MaxPin = 2
SPECIFICATION Spec
INVARIANT FramesStayUsable
