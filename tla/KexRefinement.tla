--------------------------- MODULE KexRefinement ---------------------------
(***************************************************************************)
(* KexStore implements KexAbstract for every number of processes, keys,   *)
(* key lengths and block sizes: seen from the shared directory, every     *)
(* step of a process is a step of the abstract directory or changes       *)
(* nothing there.  The argument needs, besides KexInv, what a process     *)
(* holds in its staging directory when it is about to rename it.          *)
(***************************************************************************)
EXTENDS KexStoreProofs

(* What gen_kex_key stages (lines 914-951) is a complete key, with or     *)
(* without a peer binding; what add_dh_pubkey stages (lines 1085-1095) is *)
(* a public key alone.                                                     *)
StageInv ==
  /\ \A p \in Proc : pc[p] = "gen_publish" =>
       stg[p] \in {{"pub", "priv"}, {"pub", "priv", "peer"}}
  /\ \A p \in Proc : pc[p] \in {"imp_stat", "imp_rename"} => stg[p] = {"pub"}

LEMMA StageInvInit == Init => StageInv
  BY DEF Init, StageInv

(* Only GenStage and ImportStage lead to the publishing labels, and they  *)
(* stage exactly these files; every other step leaves a process's label   *)
(* and staging directory as they were, or moves it to a label where       *)
(* StageInv says nothing.                                                  *)
LEMMA StageInvNext == KexInv /\ StageInv /\ [Next]_vars => StageInv'
<1> SUFFICES ASSUME KexInv, StageInv, [Next]_vars PROVE StageInv'
  OBVIOUS
<1> USE DEF KexInv, TypeOK, StageInv, Goto, Stage, PC, KFile
<1>1. ASSUME NEW p \in Proc, GenStage(p) PROVE StageInv'
  BY <1>1, ZenonT(30) DEF GenStage
<1>2. ASSUME NEW p \in Proc, ImportStage(p) PROVE StageInv'
  BY <1>2, ZenonT(30) DEF ImportStage
<1>3. ASSUME NEW p \in Proc, ImportStat(p) PROVE StageInv'
  <2>1. pc[p] = "imp_stat" /\ stg[p] = {"pub"}
    BY <1>3 DEF ImportStat
  <2>2. CASE stg' = [stg EXCEPT ![p] = {}] /\ pc' = [pc EXCEPT ![p] = "idle"]
    BY <2>2, SMTT(20)
  <2>3. CASE pc' = [pc EXCEPT ![p] = "imp_rename"] /\ stg' = stg
    BY <2>1, <2>3, SMTT(20)
  <2>4. QED
    BY <1>3, <2>2, <2>3 DEF ImportStat
<1>4. ASSUME NEW p \in Proc, GenPublish(p) PROVE StageInv'
  <2>1. stg' = [stg EXCEPT ![p] = {}] /\ pc' = [pc EXCEPT ![p] = "idle"]
    BY <1>4 DEF GenPublish
  <2>2. QED
    BY <2>1, SMTT(20)
<1>11. ASSUME NEW p \in Proc, ShredUnlink(p) PROVE StageInv'
  <2>1. stg' = stg /\ pc' = [pc EXCEPT ![p] = "idle"]
    BY <1>11 DEF ShredUnlink, locals
  <2>2. QED
    BY <2>1, SMTT(20)
<1>5. ASSUME NEW p \in Proc, ImportRename(p) PROVE StageInv'
  <2>1. stg' = [stg EXCEPT ![p] = {}] /\ pc' = [pc EXCEPT ![p] = "idle"]
    BY <1>5 DEF ImportRename
  <2>2. QED
    BY <2>1
<1>6. ASSUME NEW p \in Proc, Crash(p) PROVE StageInv'
  BY <1>6 DEF Crash
<1>7. ASSUME NEW p \in Proc,
             \/ Start(p) \/ LoadPub(p) \/ LoadPriv(p) \/ LoadPeer(p)
             \/ LoadDone(p) \/ ShredOpen(p) \/ ShredWrite(p)
             \/ DelDhPub(p) \/ DelDhId(p) \/ UsedKey(p)
      PROVE  StageInv'
  <2>1. stg' = stg
    BY <1>7 DEF Start, LoadPub, LoadPriv, LoadPeer, LoadDone, ShredOpen,
                ShredWrite, DelDhPub, DelDhId, UsedKey, locals
  <2>2. \/ pc' = pc
        \/ \E l \in PC \ {"gen_publish", "imp_stat", "imp_rename"} :
             pc' = [pc EXCEPT ![p] = l]
    <3>1. CASE Start(p) \/ LoadPub(p) \/ LoadPriv(p) \/ LoadPeer(p) \/ LoadDone(p)
      BY <3>1 DEF Start, LoadPub, LoadPriv, LoadPeer, LoadDone
    <3>2. CASE ShredOpen(p) \/ ShredWrite(p)
      BY <3>2 DEF ShredOpen, ShredWrite
    <3>3. CASE DelDhPub(p) \/ DelDhId(p) \/ UsedKey(p)
      BY <3>3 DEF DelDhPub, DelDhId, UsedKey
    <3>4. QED
      BY <1>7, <3>1, <3>2, <3>3
  <2>3. QED
    BY <2>1, <2>2, ZenonT(30)
<1>9. CASE UNCHANGED vars
  BY <1>9, SMTT(20) DEF vars
<1>10. QED
  BY <1>1, <1>2, <1>3, <1>4, <1>5, <1>6, <1>7, <1>9, <1>11 DEF Next

RInv == KexInv /\ StageInv

LEMMA RInvInductive == Spec => []RInv
<1>1. Init => RInv
  BY KexInvInit, StageInvInit DEF RInv
<1>2. RInv /\ [Next]_vars => RInv'
  BY KexInvNext, StageInvNext DEF RInv
<1>3. QED
  BY <1>1, <1>2, PTL DEF Spec

(***************************************************************************)
(* The refinement, step by step.  Each step of a process is matched with  *)
(* the abstract step it performs on the directory:                         *)
(*   GenPublish   -> Generate (GenInv: a fresh issued id, no directory;    *)
(*                   StageInv: a complete key)                              *)
(*   ImportRename -> Import, or a stutter when the rename fails            *)
(*   ShredUnlink, DelDhPub, UsedKey (unlink)  -> Unlink                     *)
(*   UsedKey (create) -> MarkUsed                                          *)
(*   DelDhId      -> Rmdir, or a stutter when rmdir fails                  *)
(* and every other step leaves kexists and files alone.                    *)
(***************************************************************************)
AbsStep == [Abs!Next]_Abs!vars

(* A step of one abstract action on one kex id is an abstract step.        *)
LEMMA AbsStepIntro ==
  ASSUME NEW k \in KexId,
         \/ Abs!Generate(k) \/ Abs!Import(k) \/ Abs!Unlink(k)
         \/ Abs!MarkUsed(k) \/ Abs!Rmdir(k)
  PROVE  AbsStep
<1>1. Abs!Next
  BY DEF Abs!Next, Abs!KexId, KexId
<1>2. QED
  BY <1>1 DEF AbsStep

LEMMA GenPublishStep ==
  ASSUME RInv, NEW p \in Proc, GenPublish(p) PROVE AbsStep
<1> USE DEF RInv, KexInv, TypeOK, GenInv, StageInv
<1>1. arg[p] \in GenId /\ ~kexists[arg[p]]
  BY DEF GenPublish
<1>2. Abs!Generate(arg[p])
  BY <1>1 DEF GenPublish, Abs!Generate
<1>3. QED
  BY <1>1, <1>2, AbsStepIntro DEF KexId

LEMMA ImportRenameStep ==
  ASSUME RInv, NEW p \in Proc, ImportRename(p) PROVE AbsStep
<1> USE DEF RInv, KexInv, TypeOK, ImpInv, StageInv
<1>1. arg[p] \in PeerKey
  BY DEF ImportRename
<1>2. CASE kexists[arg[p]] /\ files[arg[p]] # {}
  BY <1>2 DEF ImportRename, AbsStep, Abs!vars, disk
<1>3. CASE ~kexists[arg[p]] \/ files[arg[p]] = {}
  <2>1. Abs!Import(arg[p])
    BY <1>1, <1>3 DEF ImportRename, Abs!Import
  <2>2. QED
    BY <1>1, <2>1, AbsStepIntro DEF KexId
<1>4. QED
  BY <1>2, <1>3

LEMMA UnlinkStep ==
  ASSUME RInv, NEW p \in Proc, ShredUnlink(p) \/ DelDhPub(p) \/ UsedKey(p)
  PROVE  AbsStep
<1> USE DEF RInv, KexInv, TypeOK
<1>1. CASE ShredUnlink(p)
  <2>1. arg[p] \in KexId
    BY <1>1 DEF ShredUnlink, ShredInv, KexId
  <2>2. Abs!Unlink(arg[p])
    BY <1>1 DEF ShredUnlink, Abs!Unlink, Abs!KFile, locals
  <2>3. QED
    BY <2>1, <2>2, AbsStepIntro
<1>2. CASE DelDhPub(p)
  <2>1. PICK k \in KexId : files' = [files EXCEPT ![k] = @ \ {"pub"}]
                          /\ UNCHANGED kexists
    BY <1>2 DEF DelDhPub
  <2>2. Abs!Unlink(k)
    BY <2>1 DEF Abs!Unlink, Abs!KFile
  <2>3. QED
    BY <2>2, AbsStepIntro
<1>3. CASE UsedKey(p)
  <2>1. PICK k \in KexId :
          /\ UNCHANGED kexists
          /\ \/ kexists[k] /\ files' = [files EXCEPT ![k] = @ \cup {"used"}]
             \/ files' = [files EXCEPT ![k] = @ \ {"used"}]
    BY <1>3 DEF UsedKey
  <2>2. Abs!MarkUsed(k) \/ Abs!Unlink(k)
    BY <2>1 DEF Abs!MarkUsed, Abs!Unlink, Abs!KFile
  <2>3. QED
    BY <2>2, AbsStepIntro
<1>4. QED
  BY <1>1, <1>2, <1>3

LEMMA DelDhIdStep ==
  ASSUME RInv, NEW p \in Proc, DelDhId(p) PROVE AbsStep
<1> USE DEF RInv, KexInv, TypeOK
<1>1. PICK k \in KexId :
        /\ kexists' = [kexists EXCEPT ![k] = @ /\ files[k] # {}]
        /\ UNCHANGED files
  BY DEF DelDhId
<1>2. CASE kexists[k] /\ files[k] = {}
  <2>1. Abs!Rmdir(k)
    BY <1>1, <1>2 DEF Abs!Rmdir
  <2>2. QED
    BY <2>1, AbsStepIntro
<1>3. CASE ~(kexists[k] /\ files[k] = {})
  <2>1. kexists' = kexists
    BY <1>1, <1>3
  <2>2. QED
    BY <1>1, <2>1 DEF AbsStep, Abs!vars
<1>4. QED
  BY <1>2, <1>3

(* The steps that touch no kex directory.                                   *)
LEMMA HiddenStep ==
  ASSUME NEW p \in Proc,
         \/ Start(p) \/ LoadPub(p) \/ LoadPriv(p) \/ LoadPeer(p) \/ LoadDone(p)
         \/ GenStage(p) \/ ImportStage(p) \/ ImportStat(p)
         \/ ShredOpen(p) \/ ShredWrite(p) \/ Crash(p)
  PROVE  AbsStep
  BY DEF Start, LoadPub, LoadPriv, LoadPeer, LoadDone, GenStage, ImportStage,
         ImportStat, ShredOpen, ShredWrite, Crash, disk, AbsStep, Abs!vars

LEMMA RefineNext == RInv /\ [Next]_vars => AbsStep
<1> SUFFICES ASSUME RInv, [Next]_vars PROVE AbsStep
  OBVIOUS
<1>1. CASE UNCHANGED vars
  BY <1>1 DEF vars, AbsStep, Abs!vars
<1>2. CASE Next
  <2>1. PICK p \in Proc :
          \/ Start(p) \/ LoadPub(p) \/ LoadPriv(p) \/ LoadPeer(p) \/ LoadDone(p)
          \/ GenStage(p) \/ GenPublish(p)
          \/ ImportStage(p) \/ ImportStat(p) \/ ImportRename(p)
          \/ ShredOpen(p) \/ ShredWrite(p) \/ ShredUnlink(p)
          \/ DelDhPub(p) \/ DelDhId(p) \/ UsedKey(p)
          \/ Crash(p)
    BY <1>2 DEF Next
  <2>2. QED
    BY <2>1, GenPublishStep, ImportRenameStep, UnlinkStep, DelDhIdStep,
       HiddenStep
<1>3. QED
  BY <1>1, <1>2

(* Atomic publication (spec.md 4.5, property 8.5) for every number of      *)
(* processes and keys: the shared directory as gen_kex_key, add_dh_pubkey, *)
(* del_dh_priv, del_dh_pub, del_dh_id and used_key change it behaves as    *)
(* KexAbstract -- a kex directory appears in one step with every file of  *)
(* the call that created it, then only loses files (bar "used"), and is    *)
(* removed only when empty.                                                 *)
THEOREM KexRefined == Spec => AtomicPublish
<1>1. Init => Abs!Init
  BY DEF Init, Abs!Init, Abs!KexId, KexId
<1>2. RInv /\ [Next]_vars => [Abs!Next]_Abs!vars
  BY RefineNext DEF AbsStep
<1>3. QED
  BY <1>1, <1>2, RInvInductive, PTL DEF Spec, AtomicPublish, Abs!Spec
=============================================================================
