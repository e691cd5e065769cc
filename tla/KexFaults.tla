----------------------------- MODULE KexFaults -----------------------------
(***************************************************************************)
(* KexStore with the failures of two system calls whose outcome           *)
(* src/keystore.cc does not act on, and a record of every private key     *)
(* whose bytes were unlinked without being zeroed first.                   *)
(*                                                                         *)
(* - WriteMayFail: write(2) in del_dh_priv's loop (line 1156) fails (EIO,  *)
(*   ENOSPC on a copy-on-write file system).  Its result is not checked: *)
(*   i advances, while nothing is zeroed and the descriptor's file        *)
(*   offset stays where it was, so the next write lands behind i.         *)
(* - RenameMayFail: rename(2) in gen_kex_key (line 959) fails (EIO,       *)
(*   ENOSPC, EDQUOT).  The cleanup at lines 960-963 unlinks the staged    *)
(*   dh.priv.pem without overwriting it.                                  *)
(***************************************************************************)
EXTENDS KexStore

CONSTANTS
  WriteMayFail,   \* the shredding write can fail
  RenameMayFail   \* the publishing rename can fail

VARIABLES
  unshredded,     \* ids whose private key file was unlinked unzeroed
  fpos            \* fpos[p]: the file offset of the descriptor p shreds with

fvars == <<vars, unshredded, fpos>>

FInit == Init /\ unshredded = {} /\ fpos = [p \in Proc |-> 0]

(* del_dh_priv, lines 1146-1149: open sets the file offset to 0.  In      *)
(* KexStore the loop counter i (off) stands for it; here the two part.    *)
FShredOpen(p) ==
  /\ ShredOpen(p)
  /\ fpos' = [fpos EXCEPT ![p] = 0]
  /\ UNCHANGED unshredded

(* del_dh_priv, lines 1155-1158: a write that succeeds zeroes the block   *)
(* at the file offset and moves it on, and i advances with it.            *)
FShredWrite(p) ==
  LET k == arg[p] IN
  /\ pc[p] = "shred"
  /\ off[p] < size[p]
  /\ priv' = [priv EXCEPT ![k].zero = Larger(@, fpos[p] + Blk),
                          ![k].len  = Larger(@, fpos[p] + Blk)]
  /\ off'  = [off EXCEPT ![p] = @ + Blk]
  /\ fpos' = [fpos EXCEPT ![p] = @ + Blk]
  /\ UNCHANGED <<kexists, files, keys, pc, arg, stg, size, todo, issued,
                 unshredded>>

(* del_dh_priv, line 1156: the write fails; i advances, the file offset   *)
(* does not, and the loop goes on.                                         *)
ShredWriteFail(p) ==
  /\ WriteMayFail
  /\ pc[p] = "shred"
  /\ off[p] < size[p]
  /\ off' = [off EXCEPT ![p] = @ + Blk]
  /\ UNCHANGED <<kexists, files, priv, keys, pc, arg, stg, size, todo, issued,
                 unshredded, fpos>>

(* del_dh_priv, lines 1159-1161: the unlink, recording a key whose bytes  *)
(* are not all zero.                                                       *)
FShredUnlink(p) ==
  /\ ShredUnlink(p)
  /\ unshredded' = unshredded \cup
       IF priv[arg[p]].zero < priv[arg[p]].keyLen THEN {arg[p]} ELSE {}
  /\ UNCHANGED fpos

(* gen_kex_key, lines 959-964: rename fails; dh.pub.pem, dh.priv.pem and  *)
(* peer are unlinked from the staging directory, which is removed.        *)
GenRenameFail(p) ==
  /\ RenameMayFail
  /\ pc[p] = "gen_publish"
  /\ stg' = [stg EXCEPT ![p] = {}]
  /\ unshredded' = unshredded \cup {arg[p]}
  /\ Goto(p, "idle")
  /\ UNCHANGED <<disk, keys, arg, off, size, todo, issued, fpos>>

(* Every other step of KexStore, which unlinks no private key and leaves  *)
(* the file offsets alone.                                                 *)
Unfailed(p) ==
  /\ \/ Start(p) \/ LoadPub(p) \/ LoadPriv(p) \/ LoadPeer(p) \/ LoadDone(p)
     \/ GenStage(p) \/ GenPublish(p)
     \/ ImportStage(p) \/ ImportStat(p) \/ ImportRename(p)
     \/ DelDhPub(p) \/ DelDhId(p) \/ UsedKey(p)
     \/ Crash(p)
  /\ UNCHANGED <<unshredded, fpos>>

FNext == \E p \in Proc :
           \/ Unfailed(p)
           \/ FShredOpen(p) \/ FShredWrite(p) \/ ShredWriteFail(p)
           \/ FShredUnlink(p) \/ GenRenameFail(p)

FSpec == FInit /\ [][FNext]_fvars

(* spec.md section 5: private-key files MUST be overwritten before they   *)
(* are unlinked; so no dh.priv.pem is ever unlinked with key bytes left.  *)
NoUnshreddedUnlink == unshredded = {}
=============================================================================
