CONSTANTS
  FrameId = {f1, f2}
  MaxPages = 3
  Data = {d1, d2}
  Zero = Zero
  Free = Free
  NoFrame = NoFrame
  MAX_FREE_PAGES = 2
  MaxPin = 2
SPECIFICATION Spec
SYMMETRY Symmetry
VIEW View
CHECK_DEADLOCK TRUE
INVARIANTS TypeOK CacheCoherent PoolConsistent PagesAccounted PageZeroShared
PROPERTIES PinnedPagesStay
