CONSTANTS
  p1 = p1
  p2 = p2
  g1 = g1
  k1 = k1
  none = none
  Proc <- MC_Proc
  GenId <- MC_GenId
  PeerKey <- MC_PeerKey
  KeyLen <- MC_KeyLen
  Blk <- MC_Blk
  None <- none
  WriteMayFail = TRUE
  RenameMayFail = FALSE
SPECIFICATION FSpec
SYMMETRY MC_Symmetry
INVARIANT NoUnshreddedUnlink
