--------------------------- MODULE KeystoreProofs ---------------------------
(***************************************************************************)
(* Proofs about Keystore for every number of processes and persona ids:  *)
(* the model is well-typed, and at most one add_persona call per id ever *)
(* returns the new persona (spec.md section 5), whatever the interleaving *)
(* of adds, DH-parameter steps, loads, links and crashes.                 *)
(***************************************************************************)
EXTENDS Keystore, TLAPS

USE KsAssumption

(* p is in add_persona after a successful rename of the directory of h,   *)
(* in the DH-parameter step that comes before the persona is returned.    *)
Post(p, h) == pc[p] \in {"add_dh_open", "add_dh_write"} /\ arg[p] = h

(* The strengthening of OneAddWins: an id has no winner before its        *)
(* directory exists; a process past the rename holds the only pending win *)
(* for its id, and the id has no winner yet.                               *)
AddInv ==
  /\ \A h \in PersonaId : ~pexists[h] => wins[h] = 0
  /\ \A h \in PersonaId : wins[h] <= 1
  /\ \A p \in Proc, h \in PersonaId : Post(p, h) => pexists[h] /\ wins[h] = 0
  /\ \A p, q \in Proc, h \in PersonaId : Post(p, h) /\ Post(q, h) => p = q
  /\ \A p \in Proc : pc[p] \notin {"idle", "ks_load"} => arg[p] \in PersonaId

(* What a process is about to rename into place is a persona: its public  *)
(* key and, maybe, a name and a private key.                              *)
StgInv ==
  \A p \in Proc : pc[p] = "add_rename" => "pub" \in stg[p] /\ stg[p] \subseteq IdentFiles

KsInv == TypeOK /\ AddInv /\ StgInv

(* Putting a persona object into one entry of a process's map keeps the   *)
(* map well-typed.                                                         *)
LEMMA InsertType ==
  ASSUME NEW S, NEW kk \in [Proc -> [PersonaId -> S]],
         NEW p \in Proc, NEW h \in PersonaId, NEW s \in S
  PROVE  [kk EXCEPT ![p][h] = s] \in [Proc -> [PersonaId -> S]]
  OBVIOUS

LEMMA KsInvInit == Init => KsInv
  BY SMTT(20) DEF Init, KsInv, TypeOK, AddInv, StgInv, Post, PC, Op, PFile

(* Every step of every process keeps KsInv.                               *)
LEMMA KsInvNext == KsInv /\ [Next]_vars => KsInv'
<1> SUFFICES ASSUME KsInv, [Next]_vars PROVE KsInv'
  OBVIOUS
<1> USE DEF KsInv, TypeOK, AddInv, StgInv, IdentFiles, Post, PC, Op, PFile, disk,
            Goto, Return, Call, Running, Insert
<1>1. ASSUME NEW p \in Proc, KsLoad(p) PROVE KsInv'
  BY <1>1 DEF KsLoad
<1>2. ASSUME NEW p \in Proc, KsLoadPersona(p) PROVE KsInv'
  <2>1. PICK h \in todo[p] :
          /\ todo' = [todo EXCEPT ![p] = @ \ {h}]
          /\ IF Loadable(h) THEN Insert(p, h, "loaded") ELSE UNCHANGED personas
    BY <1>2 DEF KsLoadPersona
  <2>2. h \in PersonaId
    BY <2>1
  <2>3. CASE Loadable(h)
    <3>1. personas' = [personas EXCEPT ![p][h] = "loaded"]
      BY <2>1, <2>3
    <3>2. personas' \in [Proc -> [PersonaId -> {"absent", "loaded", "broken"}]]
      BY ONLY <3>1, <2>2, KsInv, InsertType DEF KsInv, TypeOK
    <3>3. UNCHANGED <<disk, pc, op, ret, arg, stg, mode, renamed, wins>>
      BY <1>2 DEF KsLoadPersona
    <3>4. todo' \in [Proc -> SUBSET PersonaId]
      BY <2>1
    <3>5. QED
      BY <3>2, <3>3, <3>4
  <2>4. CASE ~Loadable(h)
    BY <1>2, <2>1, <2>2, <2>4 DEF KsLoadPersona
  <2>5. QED
    BY <2>3, <2>4
<1>3. ASSUME NEW p \in Proc, KsLoadDone(p) PROVE KsInv'
  BY <1>3 DEF KsLoadDone
<1>4. ASSUME NEW p \in Proc, KsLoadHex(p) PROVE KsInv'
  BY <1>4 DEF KsLoadHex
<1>5. ASSUME NEW p \in Proc, AddStage(p) PROVE KsInv'
  <2>1. PICK h \in PersonaId, F \in SUBSET {"name", "priv"},
             d \in {"none"} \cup DhInput :
          /\ Call(p, "add", h)
          /\ stg'  = [stg EXCEPT ![p] = F \cup {"pub"}]
          /\ mode' = [mode EXCEPT ![p] = d]
    BY <1>5 DEF AddStage
  <2>2. /\ Running(p)
        /\ renamed' = [renamed EXCEPT ![p] = FALSE]
        /\ Goto(p, "add_rename")
        /\ UNCHANGED <<disk, personas, todo, wins>>
    BY <1>5 DEF AddStage
  <2>3. TypeOK'
    BY <2>1, <2>2
  <2>4. AddInv'
    BY <2>1, <2>2
  <2>5. StgInv'
    BY <2>1, <2>2
  <2>6. QED
    BY <2>3, <2>4, <2>5
<1>6. ASSUME NEW p \in Proc, AddConflict(p) PROVE KsInv'
  BY <1>6 DEF AddConflict
<1>7. ASSUME NEW p \in Proc, AddPublish(p) PROVE KsInv'
  <2> DEFINE h == arg[p]
  <2>1. pc[p] = "add_rename" /\ ~pexists[h] /\ h \in PersonaId
    BY <1>7 DEF AddPublish
  <2>2. /\ pexists' = [pexists EXCEPT ![h] = TRUE]
        /\ pfiles'  = [pfiles EXCEPT ![h] = stg[p]]
        /\ stg'     = [stg EXCEPT ![p] = {}]
        /\ renamed' = [renamed EXCEPT ![p] = TRUE]
        /\ UNCHANGED <<dhp, srcl, op, arg, mode, todo>>
    BY <1>7 DEF AddPublish
  <2>3. wins[h] = 0 /\ \A q \in Proc : ~Post(q, h)
    BY <2>1
  <2>4. CASE /\ Insert(p, h, "loaded")
             /\ wins' = [wins EXCEPT ![h] = @ + 1]
             /\ Return(p, "ok")
    <3>1. personas' \in [Proc -> [PersonaId -> {"absent", "loaded", "broken"}]]
      BY ONLY <2>1, <2>4, KsInv, InsertType DEF KsInv, TypeOK, Insert
    <3>2. TypeOK'
      BY <3>1, <2>1, <2>2, <2>4
    <3>3. AddInv'
      BY <2>1, <2>2, <2>3, <2>4
    <3>4. StgInv'
      BY <2>1, <2>2, <2>4
    <3>5. QED
      BY <3>2, <3>3, <3>4
  <2>5. CASE Goto(p, "add_dh_open") /\ UNCHANGED <<personas, ret, wins>>
    BY <2>1, <2>2, <2>3, <2>5
  <2>6. QED
    BY <2>4, <2>5, <1>7 DEF AddPublish
<1>8. ASSUME NEW p \in Proc, DhStart(p) PROVE KsInv'
  BY <1>8 DEF DhStart
<1>9. ASSUME NEW p \in Proc, DhGenFail(p) PROVE KsInv'
  BY <1>9, SMTT(20) DEF DhGenFail
<1>10. ASSUME NEW p \in Proc, DhOpen(p) PROVE KsInv'
  <2>1. /\ pc[p] \in {"add_dh_open", "dh_open"}
        /\ pfiles' = [pfiles EXCEPT ![arg[p]] = @ \cup {"dhparams"}]
        /\ dhp'    = [dhp EXCEPT ![arg[p]] = "empty"]
        /\ UNCHANGED <<pexists, srcl, personas, op, ret, arg, stg, mode, todo,
                       renamed, wins>>
    BY <1>10 DEF DhOpen
  <2>2. CASE pc[p] = "add_dh_open"
    <3>1. pc' = [pc EXCEPT ![p] = "add_dh_write"]
      BY <1>10, <2>2 DEF DhOpen
    <3>2. arg[p] \in PersonaId
      BY <2>2
    <3>3. TypeOK'
      BY <2>1, <3>1, <3>2
    <3>4. \A q \in Proc, x \in PersonaId : Post(q, x)' = Post(q, x)
      BY <2>1, <2>2, <3>1
    <3>5. AddInv'
      BY <2>1, <3>1, <3>4
    <3>6. StgInv'
      BY <2>1, <3>1
    <3>7. QED
      BY <3>3, <3>5, <3>6
  <2>3. CASE pc[p] = "dh_open"
    <3>1. pc' = [pc EXCEPT ![p] = "dh_write"]
      BY <1>10, <2>3 DEF DhOpen
    <3>2. arg[p] \in PersonaId
      BY <2>3
    <3>3. TypeOK'
      BY <2>1, <3>1, <3>2
    <3>4. \A q \in Proc, x \in PersonaId : Post(q, x)' = Post(q, x)
      BY <2>1, <2>3, <3>1
    <3>5. AddInv'
      BY <2>1, <3>1, <3>4
    <3>6. StgInv'
      BY <2>1, <3>1
    <3>7. QED
      BY <3>3, <3>5, <3>6
  <2>4. QED
    BY <2>1, <2>2, <2>3
<1>11. ASSUME NEW p \in Proc, DhWrite(p) PROVE KsInv'
  <2> DEFINE h == arg[p]
             ok == mode[p] # "invalid"
  <2>1. pc[p] \in {"add_dh_write", "dh_write"} /\ h \in PersonaId
    BY <1>11 DEF DhWrite
  <2>2. /\ dhp' = [dhp EXCEPT ![h] = IF ok THEN "valid" ELSE "invalid"]
        /\ Return(p, IF ok THEN "ok" ELSE "fail")
        /\ UNCHANGED <<pexists, pfiles, srcl, op, arg, stg, mode, todo, renamed>>
    BY <1>11 DEF DhWrite
  <2>3. CASE pc[p] = "add_dh_write" /\ ok
    <3>1. Insert(p, h, "loaded") /\ wins' = [wins EXCEPT ![h] = @ + 1]
      BY <1>11, <2>3 DEF DhWrite
    <3>2. personas' \in [Proc -> [PersonaId -> {"absent", "loaded", "broken"}]]
      BY ONLY <2>1, <3>1, KsInv, InsertType DEF KsInv, TypeOK, Insert
    <3>3. Post(p, h) /\ wins[h] = 0 /\ pexists[h]
      BY <2>3, <2>1
    <3>4. TypeOK'
      BY <3>1, <3>2, <2>1, <2>2
    <3>5. AddInv'
      BY <3>1, <3>3, <2>1, <2>2
    <3>6. StgInv'
      BY <2>1, <2>2
    <3>7. QED
      BY <3>4, <3>5, <3>6
  <2>4. CASE ~(pc[p] = "add_dh_write" /\ ok)
    <3>1. UNCHANGED <<personas, wins>>
      BY <1>11, <2>4 DEF DhWrite
    <3>2. QED
      BY <3>1, <2>1, <2>2
  <2>5. QED
    BY <2>3, <2>4
<1>12. ASSUME NEW p \in Proc, LinkOpen(p) PROVE KsInv'
  <2>1. PICK h \in PersonaId :
          /\ Call(p, "link", h)
          /\ \/ /\ pexists[h]
                /\ pfiles' = [pfiles EXCEPT ![h] = @ \cup {"srclink"}]
                /\ srcl'   = [srcl EXCEPT ![h] = "empty"]
                /\ Running(p)
                /\ Goto(p, "link_write")
             \/ /\ ~pexists[h]
                /\ Return(p, "fail")
                /\ UNCHANGED <<pfiles, srcl>>
    BY <1>12 DEF LinkOpen
  <2>2. UNCHANGED <<pexists, dhp, personas, stg, mode, todo, renamed, wins>>
    BY <1>12 DEF LinkOpen
  <2>3. pc[p] = "idle" /\ op' = [op EXCEPT ![p] = "link"]
                       /\ arg' = [arg EXCEPT ![p] = h]
    BY <2>1
  <2>4. CASE pexists[h]
    <3>1. /\ pfiles' = [pfiles EXCEPT ![h] = @ \cup {"srclink"}]
          /\ srcl'   = [srcl EXCEPT ![h] = "empty"]
          /\ Running(p)
          /\ Goto(p, "link_write")
      BY <2>1, <2>4
    <3>2. QED
      BY <3>1, <2>2, <2>3
  <2>5. CASE ~pexists[h]
    <3>1. Return(p, "fail") /\ UNCHANGED <<pfiles, srcl>>
      BY <2>1, <2>5
    <3>2. QED
      BY <3>1, <2>2, <2>3
  <2>6. QED
    BY <2>4, <2>5, SMTT(20)
<1>13. ASSUME NEW p \in Proc, LinkWrite(p) PROVE KsInv'
  <2>1. TypeOK'
    BY <1>13 DEF LinkWrite
  <2>2. AddInv'
    BY <1>13 DEF LinkWrite
  <2>3. StgInv'
    BY <1>13 DEF LinkWrite
  <2>4. QED
    BY <2>1, <2>2, <2>3
<1>14. ASSUME NEW p \in Proc, Crash(p) PROVE KsInv'
  BY <1>14 DEF Crash
<1>15. CASE UNCHANGED vars
  BY <1>15 DEF vars
<1>16. QED
  BY <1>1, <1>2, <1>3, <1>4, <1>5, <1>6, <1>7, <1>8, <1>9, <1>10, <1>11,
     <1>12, <1>13, <1>14, <1>15 DEF Next

(* For any numbers of processes and persona ids, every reachable state of *)
(* the keystore model is well-typed.                                       *)
THEOREM KsTypeCorrect == Spec => []TypeOK
<1>1. Init => KsInv
  BY KsInvInit
<1>2. KsInv /\ [Next]_vars => KsInv'
  BY KsInvNext
<1>3. KsInv => TypeOK
  BY DEF KsInv
<1>4. QED
  BY <1>1, <1>2, <1>3, PTL DEF Spec

(* spec.md section 5: however add_persona calls for one key interleave    *)
(* with each other, with new_dh_params, loads, links and crashes, at most *)
(* one of them returns the persona.                                       *)
THEOREM AddOnce == Spec => []OneAddWins
<1>1. Init => KsInv
  BY KsInvInit
<1>2. KsInv /\ [Next]_vars => KsInv'
  BY KsInvNext
<1>3. KsInv => OneAddWins
  BY DEF KsInv, AddInv, OneAddWins
<1>4. QED
  BY <1>1, <1>2, <1>3, PTL DEF Spec

-----------------------------------------------------------------------------
(* Refinement of PersonaAbstract.                                          *)

(* A step that leaves the persona directories and their identity files    *)
(* alone.                                                                  *)
IdentUnchanged ==
  /\ pexists' = pexists
  /\ \A h \in PersonaId : pfiles'[h] \cap IdentFiles = pfiles[h] \cap IdentFiles

LEMMA IdentStutter ==
  ASSUME TypeOK, TypeOK', IdentUnchanged
  PROVE  UNCHANGED Abs!vars
  BY DEF Abs!vars, IdentUnchanged, TypeOK

(* Every step of Keystore is a step of PersonaAbstract or leaves its      *)
(* variables alone: only AddPublish changes them, and it is a Create.     *)
LEMMA IdentNext == KsInv /\ [Next]_vars => [Abs!Next]_Abs!vars
<1> SUFFICES ASSUME KsInv, [Next]_vars PROVE [Abs!Next]_Abs!vars
  OBVIOUS
<1>1. TypeOK /\ TypeOK'
  BY KsInvNext DEF KsInv
<1>2. IdentUnchanged => UNCHANGED Abs!vars
  BY <1>1, IdentStutter
<1>3. ASSUME NEW p \in Proc, AddPublish(p) PROVE Abs!Next
  <2> DEFINE h == arg[p]
  <2>1. /\ pc[p] = "add_rename" /\ ~pexists[h] /\ h \in PersonaId
        /\ "pub" \in stg[p] /\ stg[p] \subseteq IdentFiles
    BY <1>3 DEF AddPublish, KsInv, AddInv, StgInv
  <2>2. /\ pexists' = [pexists EXCEPT ![h] = TRUE]
        /\ pfiles'  = [pfiles EXCEPT ![h] = stg[p]]
    BY <1>3 DEF AddPublish
  <2>3. Abs!Create(h)
    <3> DEFINE F == stg[p] \cap {"name", "priv"}
    <3>1. F \in SUBSET {"name", "priv"}
      OBVIOUS
    <3>2. F \cup {"pub"} = stg[p] \cap IdentFiles
      BY <2>1 DEF IdentFiles
    <3>3. \A x \in PersonaId :
            pfiles'[x] \cap IdentFiles
              = IF x = h THEN stg[p] \cap IdentFiles ELSE pfiles[x] \cap IdentFiles
      BY <1>1, <2>1, <2>2 DEF TypeOK
    <3>4. [x \in PersonaId |-> pfiles'[x] \cap IdentFiles]
            = [[x \in PersonaId |-> pfiles[x] \cap IdentFiles] EXCEPT ![h] = F \cup {"pub"}]
      BY <2>1, <3>2, <3>3
    <3>5. QED
      BY <2>1, <2>2, <3>1, <3>4 DEF Abs!Create
  <2>4. QED
    <3>1. SUFFICES \E x \in PersonaId : Abs!Create(x)
      BY DEF Abs!Next
    <3>2. QED
      BY <2>1, <2>3 DEF Abs!Create
<1>4. ASSUME NEW p \in Proc,
             \/ KsLoad(p) \/ KsLoadPersona(p) \/ KsLoadDone(p) \/ KsLoadHex(p)
             \/ AddStage(p) \/ AddConflict(p) \/ DhStart(p) \/ DhGenFail(p)
             \/ LinkWrite(p) \/ Crash(p)
      PROVE  IdentUnchanged
  BY <1>4 DEF IdentUnchanged, KsLoad, KsLoadPersona, KsLoadDone, KsLoadHex,
              AddStage, AddConflict, DhStart, DhGenFail, LinkWrite, Crash, disk
<1>5. ASSUME NEW p \in Proc, DhOpen(p) PROVE IdentUnchanged
  <2>1. /\ pfiles' = [pfiles EXCEPT ![arg[p]] = @ \cup {"dhparams"}]
        /\ pexists' = pexists
        /\ arg[p] \in PersonaId
    BY <1>5 DEF DhOpen, KsInv, AddInv
  <2>2. QED
    BY <1>1, <2>1 DEF IdentUnchanged, TypeOK, IdentFiles
<1>6. ASSUME NEW p \in Proc, DhWrite(p) PROVE IdentUnchanged
  BY <1>6 DEF IdentUnchanged, DhWrite
<1>7. ASSUME NEW p \in Proc, LinkOpen(p) PROVE IdentUnchanged
  <2>1. PICK h \in PersonaId :
          \/ pfiles' = [pfiles EXCEPT ![h] = @ \cup {"srclink"}]
          \/ pfiles' = pfiles
    BY <1>7 DEF LinkOpen
  <2>2. pexists' = pexists
    BY <1>7 DEF LinkOpen
  <2>3. CASE pfiles' = [pfiles EXCEPT ![h] = @ \cup {"srclink"}]
    BY <1>1, <2>2, <2>3 DEF IdentUnchanged, TypeOK, IdentFiles
  <2>4. CASE pfiles' = pfiles
    BY <2>2, <2>4 DEF IdentUnchanged
  <2>5. QED
    BY <2>1, <2>3, <2>4, SMTT(20)
<1>8. UNCHANGED vars => IdentUnchanged
  BY DEF vars, IdentUnchanged
<1>9. Abs!Next \/ IdentUnchanged
  BY <1>3, <1>4, <1>5, <1>6, <1>7, <1>8 DEF Next
<1>10. QED
  BY <1>2, <1>9

(* add_persona publishes a persona with its public key, name and private  *)
(* key in one step, and nothing the keystore does afterwards replaces or   *)
(* removes them: Keystore implements PersonaAbstract, for every number of  *)
(* processes and persona ids.                                              *)
THEOREM IdentityRefined == Spec => PersonaIdentity
<1>1. Init => Abs!Init
  BY DEF Init, Abs!Init
<1>2. KsInv /\ [Next]_vars => [Abs!Next]_Abs!vars
  BY IdentNext
<1>3. Init => KsInv
  BY KsInvInit
<1>4. KsInv /\ [Next]_vars => KsInv'
  BY KsInvNext
<1>5. QED
  BY <1>1, <1>2, <1>3, <1>4, PTL DEF Spec, PersonaIdentity, Abs!Spec
=============================================================================
