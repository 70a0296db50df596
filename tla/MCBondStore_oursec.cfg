SPECIFICATION Spec
CONSTANTS
  p1 = p1
  p2 = p2
  p3 = p3
  h1 = h1
  h2 = h2
  v1 = v1
  v2 = v2
  Peers <- MCPeers
  Handles <- MCHandles
  Vals <- MCVals
  MaxSec = 1
  MaxCccd = 2
  MaxCalls = 4
  NoHandle = NoHandle
  NoRec = NoRec
  Junk = Junk
  Gone = Gone
  Unknown = Unknown
SYMMETRY Symmetry
INVARIANT OurSecReadsBack
