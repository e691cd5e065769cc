---------------------------- MODULE MC_Keystore ----------------------------
(* Two processes and one RSA persona id, with every kind of dhparams_pem  *)
(* argument.  An EC add runs the same steps as an RSA add without         *)
(* dhparams_pem (the DH step is skipped), so a second id adds no case.    *)
EXTENDS Keystore, TLC

CONSTANTS p1, p2, r1, none

MC_Proc      == {p1, p2}
MC_PersonaId == {r1}
MC_RsaId     == {r1}
MC_DhInput   == {"new", "valid", "invalid"}

MC_Symmetry == Permutations(MC_Proc)
=============================================================================
