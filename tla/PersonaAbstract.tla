--------------------------- MODULE PersonaAbstract ---------------------------
(***************************************************************************)
(* What the persona directories under <base> promise to every process:    *)
(* add_persona's staging and rename (spec.md 4.4 step 6, 4.5) make a      *)
(* persona appear in one step with its identity files (the public key,    *)
(* and the name and private key when given), and these files are never    *)
(* replaced or removed afterwards: a persona's id is the hash of its      *)
(* public key, so its identity must not change under it.  The mutable     *)
(* metadata (srclink, dhparams.pem) and the kex directories are not       *)
(* visible at this level.                                                  *)
(***************************************************************************)

CONSTANT PersonaId   \* ids of the personas that can be added

VARIABLES
  pexists,  \* pexists[h]: the directory <base>/<h>/ exists
  ident     \* ident[h]: its identity files among name, pub, priv

vars == <<pexists, ident>>

IdentFile == {"name", "pub", "priv"}

Init ==
  /\ pexists = [h \in PersonaId |-> FALSE]
  /\ ident   = [h \in PersonaId |-> {}]

(* A persona appears with its public key and, maybe, a name and a         *)
(* private key.                                                            *)
Create(h) ==
  /\ ~pexists[h]
  /\ pexists' = [pexists EXCEPT ![h] = TRUE]
  /\ \E F \in SUBSET {"name", "priv"} : ident' = [ident EXCEPT ![h] = F \cup {"pub"}]

Next == \E h \in PersonaId : Create(h)

Spec == Init /\ [][Next]_vars
=============================================================================
