CONSTANTS
  p1 = p1
  p2 = p2
  r1 = r1
  none = none
  Proc <- MC_Proc
  PersonaId <- MC_PersonaId
  RsaId <- MC_RsaId
  DhInput <- MC_DhInput
  None <- none
SPECIFICATION Spec
SYMMETRY MC_Symmetry
INVARIANT LoadHexPropagates
