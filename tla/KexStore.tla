------------------------------ MODULE KexStore ------------------------------
(***************************************************************************)
(* The ephemeral (kex) keys of one persona, src/keystore.cc, as seen by   *)
(* several opmsg processes that share the directory <base>/<persona>/.    *)
(*                                                                         *)
(* Every process runs persona::load (which enumerates the kex directories *)
(* and calls load_dh on each) and then any of the persona's kex           *)
(* operations: gen_kex_key, add_dh_pubkey, del_dh_priv, del_dh_pub,       *)
(* del_dh_id and used_key.  A process may crash (or exit) at any point    *)
(* and be started again: its memory is lost, the disk keeps what it did.  *)
(*                                                                         *)
(* Steps are cut where another process can observe a difference: a        *)
(* system call on the shared directory.  Writes into a private staging    *)
(* directory are invisible to every other process (its name                *)
(* sec.usec.pid never passes is_hex_hash) and form one step.              *)
(*                                                                         *)
(* Data is abstracted: a kex key is an id, a PEM file is its presence,    *)
(* and dh.priv.pem has a content [keyLen, len, zero]: the length of the   *)
(* key it was written with, its current length and the length of its      *)
(* zeroed prefix (del_dh_priv overwrites from offset 0 onwards).          *)
(* Early returns that change nothing (a sentinel id rsa_kex_id or         *)
(* ec_kex_id, an id that fails is_hex_hash, an OOM or crypto failure      *)
(* before mkdir) are stuttering steps and need no action of their own.    *)
(***************************************************************************)
EXTENDS Naturals

CONSTANTS
  Proc,     \* opmsg processes sharing the persona directory
  GenId,    \* ids a freshly generated kex key can hash to
  PeerKey,  \* ids of peer kex public keys carried by incoming messages
  KeyLen,   \* possible byte lengths of a dh.priv.pem
  Blk,      \* size of the zero block del_dh_priv writes (512 in the code)
  None      \* no key in memory / no argument

ASSUME ConstAssumption ==
  /\ Blk \in Nat \ {0}
  /\ KeyLen \subseteq Nat \ {0}
  /\ GenId \cap PeerKey = {}

KexId == GenId \cup PeerKey
KFile == {"pub", "priv", "peer", "used"}

(* A PKEYbox in a process's keys map: which halves it holds.              *)
Box == [pub : BOOLEAN, priv : BOOLEAN]

(* The content of a dh.priv.pem inode.                                    *)
Inode == [keyLen : Nat, len : Nat, zero : Nat]

PC == {"start", "load", "load_priv", "load_peer", "idle",
       "gen_publish", "imp_stat", "imp_rename", "shred"}

VARIABLES
  (* the shared directory <base>/<persona>/ *)
  kexists,  \* kexists[k]: directory <k>/ exists
  files,    \* files[k] \subseteq KFile: dh.pub.pem, dh.priv.pem, peer, used
  priv,     \* priv[k] \in Inode: content of <k>/dh.priv.pem
  (* memory of each process *)
  keys,     \* keys[p][k]: persona::keys entry of k, or None
  pc,       \* where process p is
  arg,      \* the kex id p's current operation works on
  stg,      \* files p has written into its staging directory
  off,      \* del_dh_priv loop offset i
  size,     \* del_dh_priv: st.st_size from its stat
  todo,     \* persona::load: directory entries not yet passed to load_dh
  (* the random source *)
  issued    \* ids of the kex keys generated so far

disk   == <<kexists, files, priv>>
locals == <<arg, stg, off, size, todo>>
vars   == <<kexists, files, priv, keys, pc, arg, stg, off, size, todo, issued>>

Larger(a, b) == IF a >= b THEN a ELSE b

Init ==
  /\ kexists = [k \in KexId |-> FALSE]
  /\ files   = [k \in KexId |-> {}]
  /\ priv    = [k \in KexId |-> [keyLen |-> 0, len |-> 0, zero |-> 0]]
  /\ keys    = [p \in Proc |-> [k \in KexId |-> None]]
  /\ pc      = [p \in Proc |-> "start"]
  /\ arg     = [p \in Proc |-> None]
  /\ stg     = [p \in Proc |-> {}]
  /\ off     = [p \in Proc |-> 0]
  /\ size    = [p \in Proc |-> 0]
  /\ todo    = [p \in Proc |-> {}]
  /\ issued  = {}

Goto(p, l) == pc' = [pc EXCEPT ![p] = l]

(* gen_dh_key (lines 981-1028) or gen_ec: a freshly generated key hashes *)
(* to a kex id no earlier key had (hash collisions are not modelled).     *)
NewKexId == GenId \ issued

(* mkdir_helper, lines 53-70: <persona>/<sec>.<usec>.<pid>/ is a staging *)
(* directory private to the calling process; F is what it holds.           *)
Stage(p, F) == stg' = [stg EXCEPT ![p] = F]

(***************************************************************************)
(* persona::load, lines 750-770: opendir and readdir over the persona     *)
(* directory; every entry that passes is_hex_hash is handed to load_dh,  *)
(* whose failures are ignored.  Entries created after opendir may be     *)
(* missed, as readdir allows.                                              *)
(***************************************************************************)
Start(p) ==
  /\ pc[p] = "start"
  /\ todo' = [todo EXCEPT ![p] = {k \in KexId : kexists[k]}]
  /\ Goto(p, "load")
  /\ UNCHANGED <<disk, keys, arg, stg, off, size, issued>>

(* load_dh, lines 550-573: read dh.pub.pem and insert the PKEYbox.       *)
LoadPub(p) ==
  /\ pc[p] = "load"
  /\ \E k \in todo[p] :
       /\ keys' = [keys EXCEPT ![p][k] = [pub |-> "pub" \in files[k], priv |-> FALSE]]
       /\ arg'  = [arg EXCEPT ![p] = k]
       /\ todo' = [todo EXCEPT ![p] = @ \ {k}]
  /\ Goto(p, "load_priv")
  /\ UNCHANGED <<disk, stg, off, size, issued>>

(* load_dh, lines 575-590: read dh.priv.pem.  A file whose first block   *)
(* has been zeroed no longer parses: load_dh returns -1 on the spot and  *)
(* leaves the box as it is.                                                *)
LoadPriv(p) ==
  LET k == arg[p] IN
  /\ pc[p] = "load_priv"
  /\ \/ /\ "priv" \notin files[k]
        /\ Goto(p, "load_peer")
        /\ UNCHANGED keys
     \/ /\ "priv" \in files[k]
        /\ priv[k].zero = 0
        /\ keys' = [keys EXCEPT ![p][k].priv = TRUE]
        /\ Goto(p, "load_peer")
     \/ /\ "priv" \in files[k]
        /\ priv[k].zero > 0
        /\ Goto(p, "load")
        /\ UNCHANGED keys
  /\ UNCHANGED <<disk, locals, issued>>

(* load_dh, lines 592-620: drop a box with neither half (an empty         *)
(* directory left as a tombstone); the peer file read is abstracted away. *)
LoadPeer(p) ==
  LET k == arg[p] IN
  /\ pc[p] = "load_peer"
  /\ keys' = IF keys[p][k].pub \/ keys[p][k].priv
               THEN keys
               ELSE [keys EXCEPT ![p][k] = None]
  /\ Goto(p, "load")
  /\ UNCHANGED <<disk, locals, issued>>

LoadDone(p) ==
  /\ pc[p] = "load"
  /\ todo[p] = {}
  /\ Goto(p, "idle")
  /\ UNCHANGED <<disk, keys, locals, issued>>

(***************************************************************************)
(* gen_kex_key, lines 882-954 (with gen_ec / gen_dh_key): a fresh key is *)
(* generated, mkdir_helper makes the staging directory and dh.pub.pem,   *)
(* dh.priv.pem and, when a peer is given and its write succeeds, peer    *)
(* are written there.  A fresh key never hashes to an id already in the  *)
(* keys map, so the early return at line 902 is never taken.             *)
(***************************************************************************)
Bug_GenStage(p) ==
  /\ pc[p] = "idle"
  /\ \E k \in NewKexId :
       /\ issued' = issued \cup {k}
       /\ arg' = [arg EXCEPT ![p] = k]
       /\ Stage(p, {"pub"})
  /\ Goto(p, "gen_publish")
  /\ UNCHANGED <<disk, keys, off, size, todo>>

GenStage(p) ==
  /\ pc[p] = "idle"
  /\ \E k \in NewKexId, withPeer \in BOOLEAN :
       /\ issued' = issued \cup {k}
       /\ arg' = [arg EXCEPT ![p] = k]
       /\ Stage(p, {"pub", "priv"} \cup IF withPeer THEN {"peer"} ELSE {})
  /\ Goto(p, "gen_publish")
  /\ UNCHANGED <<disk, keys, off, size, todo>>

(* gen_kex_key, lines 956-976: stat finds no <hex>/ for a fresh key, the *)
(* rename publishes the staging directory, and the box goes into keys.   *)
GenPublish(p) ==
  LET k == arg[p] IN
  /\ pc[p] = "gen_publish"
  /\ ~kexists[k]
  /\ kexists' = [kexists EXCEPT ![k] = TRUE]
  /\ files'   = [files EXCEPT ![k] = stg[p]]
  /\ \E L \in KeyLen :
       priv' = [priv EXCEPT ![k] = [keyLen |-> L, len |-> L, zero |-> 0]]
  /\ keys' = [keys EXCEPT ![p][k] = [pub |-> TRUE, priv |-> TRUE]]
  /\ stg'  = [stg EXCEPT ![p] = {}]
  /\ Goto(p, "idle")
  /\ UNCHANGED <<arg, off, size, todo, issued>>

(***************************************************************************)
(* add_dh_pubkey, lines 1054-1095: a key already in keys is returned as  *)
(* it is (a stutter); otherwise mkdir_helper and dh.pub.pem are staged.  *)
(***************************************************************************)
ImportStage(p) ==
  /\ pc[p] = "idle"
  /\ \E k \in PeerKey :
       /\ keys[p][k] = None
       /\ arg' = [arg EXCEPT ![p] = k]
       /\ Stage(p, {"pub"})
  /\ Goto(p, "imp_stat")
  /\ UNCHANGED <<disk, keys, off, size, todo, issued>>

(* add_dh_pubkey, lines 1097-1104: stat(hexdir) succeeds -- the key was  *)
(* imported before, maybe deleted since -- so the staging directory is   *)
(* removed and the call fails.                                             *)
ImportStat(p) ==
  /\ pc[p] = "imp_stat"
  /\ \/ /\ kexists[arg[p]]
        /\ stg' = [stg EXCEPT ![p] = {}]
        /\ Goto(p, "idle")
     \/ /\ ~kexists[arg[p]]
        /\ Goto(p, "imp_rename")
        /\ UNCHANGED stg
  /\ UNCHANGED <<disk, keys, arg, off, size, todo, issued>>

(* add_dh_pubkey, lines 1100-1112: rename(tmpdir, hexdir) fails when     *)
(* hexdir has appeared with files in it since the stat; it replaces      *)
(* hexdir when that is missing or an empty directory.                     *)
ImportRename(p) ==
  LET k == arg[p] IN
  /\ pc[p] = "imp_rename"
  /\ \/ /\ kexists[k]
        /\ files[k] # {}
        /\ UNCHANGED <<disk, keys>>
     \/ /\ ~kexists[k] \/ files[k] = {}
        /\ kexists' = [kexists EXCEPT ![k] = TRUE]
        /\ files'   = [files EXCEPT ![k] = stg[p]]
        /\ keys'    = [keys EXCEPT ![p][k] = [pub |-> TRUE, priv |-> FALSE]]
        /\ UNCHANGED priv
  /\ stg' = [stg EXCEPT ![p] = {}]
  /\ Goto(p, "idle")
  /\ UNCHANGED <<arg, off, size, todo, issued>>

(***************************************************************************)
(* del_dh_priv, lines 1133-1151: stat dh.priv.pem (fail when it is       *)
(* missing), remember its size and open it.                                *)
(***************************************************************************)
ShredOpen(p) ==
  /\ pc[p] = "idle"
  /\ \E k \in KexId :
       /\ "priv" \in files[k]
       /\ arg'  = [arg EXCEPT ![p] = k]
       /\ size' = [size EXCEPT ![p] = priv[k].len]
       /\ off'  = [off EXCEPT ![p] = 0]
  /\ Goto(p, "shred")
  /\ UNCHANGED <<disk, keys, stg, todo, issued>>

Bug_ShredWrite(p) ==
  LET k == arg[p] IN
  /\ pc[p] = "shred"
  /\ off[p] < size[p]
  /\ priv' = [priv EXCEPT ![k].zero = Larger(@, Blk),
                          ![k].len  = Larger(@, Blk)]
  /\ off' = [off EXCEPT ![p] = @ + Blk]
  /\ UNCHANGED <<kexists, files, keys, pc, arg, stg, size, todo, issued>>

Bug_ShredNoAdvance(p) ==
  LET k == arg[p] IN
  /\ pc[p] = "shred"
  /\ off[p] < size[p]
  /\ priv' = [priv EXCEPT ![k].zero = Larger(@, off[p] + Blk),
                          ![k].len  = Larger(@, off[p] + Blk)]
  /\ UNCHANGED <<kexists, files, keys, pc, locals, issued>>

(* del_dh_priv, lines 1155-1158: one iteration of the shredding loop      *)
(* writes a block of zeros at offset i and syncs.                          *)
ShredWrite(p) ==
  LET k == arg[p] IN
  /\ pc[p] = "shred"
  /\ off[p] < size[p]
  /\ priv' = [priv EXCEPT ![k].zero = Larger(@, off[p] + Blk),
                          ![k].len  = Larger(@, off[p] + Blk)]
  /\ off' = [off EXCEPT ![p] = @ + Blk]
  /\ UNCHANGED <<kexists, files, keys, pc, arg, stg, size, todo, issued>>

Bug_ShredUnlink(p) ==
  LET k == arg[p] IN
  /\ pc[p] = "shred"
  /\ off[p] + Blk >= size[p]
  /\ files' = [files EXCEPT ![k] = @ \ {"priv", "used", "peer"}]
  /\ keys'  = IF keys[p][k] # None
                THEN [keys EXCEPT ![p][k].priv = FALSE]
                ELSE keys
  /\ Goto(p, "idle")
  /\ UNCHANGED <<kexists, priv, locals, issued>>

(* del_dh_priv, lines 1159-1172: close, unlink dh.priv.pem, used and     *)
(* peer, and drop the private half of the box in memory.                  *)
ShredUnlink(p) ==
  LET k == arg[p] IN
  /\ pc[p] = "shred"
  /\ off[p] >= size[p]
  /\ files' = [files EXCEPT ![k] = @ \ {"priv", "used", "peer"}]
  /\ keys'  = IF keys[p][k] # None
                THEN [keys EXCEPT ![p][k].priv = FALSE]
                ELSE keys
  /\ Goto(p, "idle")
  /\ UNCHANGED <<kexists, priv, locals, issued>>

(* del_dh_pub, lines 1177-1192: unlink dh.pub.pem, drop the public half. *)
DelDhPub(p) ==
  /\ pc[p] = "idle"
  /\ \E k \in KexId :
       /\ files' = [files EXCEPT ![k] = @ \ {"pub"}]
       /\ keys'  = IF keys[p][k] # None
                     THEN [keys EXCEPT ![p][k].pub = FALSE]
                     ELSE keys
  /\ UNCHANGED <<kexists, priv, pc, locals, issued>>

(* del_dh_id, lines 1117-1130: erase the box, then rmdir, which only     *)
(* removes an empty directory.                                             *)
DelDhId(p) ==
  /\ pc[p] = "idle"
  /\ \E k \in KexId :
       /\ keys'    = [keys EXCEPT ![p][k] = None]
       /\ kexists' = [kexists EXCEPT ![k] = @ /\ files[k] # {}]
  /\ UNCHANGED <<files, priv, pc, locals, issued>>

(* used_key, lines 1031-1043: create the used marker (O_CREAT|O_EXCL,    *)
(* which fails when the directory is gone) or unlink it.                  *)
UsedKey(p) ==
  /\ pc[p] = "idle"
  /\ \E k \in KexId :
       \/ /\ kexists[k]
          /\ files' = [files EXCEPT ![k] = @ \cup {"used"}]
       \/ /\ files' = [files EXCEPT ![k] = @ \ {"used"}]
  /\ UNCHANGED <<kexists, priv, keys, pc, locals, issued>>

(* The process dies (or exits); a staging directory it leaves behind is  *)
(* never read again.                                                       *)
Crash(p) ==
  /\ pc[p] # "start"
  /\ keys' = [keys EXCEPT ![p] = [k \in KexId |-> None]]
  /\ stg'  = [stg EXCEPT ![p] = {}]
  /\ off'  = [off EXCEPT ![p] = 0]
  /\ size' = [size EXCEPT ![p] = 0]
  /\ todo' = [todo EXCEPT ![p] = {}]
  /\ Goto(p, "start")
  /\ UNCHANGED <<disk, arg, issued>>

Next == \E p \in Proc :
          \/ Start(p) \/ LoadPub(p) \/ LoadPriv(p) \/ LoadPeer(p) \/ LoadDone(p)
          \/ GenStage(p) \/ GenPublish(p)
          \/ ImportStage(p) \/ ImportStat(p) \/ ImportRename(p)
          \/ ShredOpen(p) \/ ShredWrite(p) \/ ShredUnlink(p)
          \/ DelDhPub(p) \/ DelDhId(p) \/ UsedKey(p)
          \/ Crash(p)

Spec == Init /\ [][Next]_vars

(***************************************************************************)
(* The steps a process takes inside a call of the store, after the call  *)
(* has begun and before it returns.  None of them waits on a lock or on  *)
(* another process: each is a system call on the local file system.  A   *)
(* process that keeps running is therefore scheduled for them; whether a *)
(* call is made at all (the steps from "idle" and "start") and whether   *)
(* the process dies are the environment's choice and get no fairness.    *)
(***************************************************************************)
InCall(p) ==
  \/ LoadPub(p) \/ LoadPriv(p) \/ LoadPeer(p) \/ LoadDone(p)
  \/ GenPublish(p) \/ ImportStat(p) \/ ImportRename(p)
  \/ ShredWrite(p) \/ ShredUnlink(p)

FairSpec == Spec /\ \A p \in Proc : WF_vars(InCall(p))

-----------------------------------------------------------------------------
(***************************************************************************)
(* Properties                                                              *)
(***************************************************************************)

TypeOK ==
  /\ kexists \in [KexId -> BOOLEAN]
  /\ files   \in [KexId -> SUBSET KFile]
  /\ priv    \in [KexId -> Inode]
  /\ keys    \in [Proc -> [KexId -> Box \cup {None}]]
  /\ pc      \in [Proc -> PC]
  /\ arg     \in [Proc -> KexId \cup {None}]
  /\ stg     \in [Proc -> SUBSET KFile]
  /\ off     \in [Proc -> Nat]
  /\ size    \in [Proc -> Nat]
  /\ todo    \in [Proc -> SUBSET KexId]
  /\ issued  \in SUBSET GenId

(***************************************************************************)
(* The state the shredding of del_dh_priv relies on.  A directory that is  *)
(* gone is empty, and one of a generated id exists only once that id has   *)
(* been issued; a linked dh.priv.pem belongs to a key that has been        *)
(* generated and is at least as long as that key; a generated key is       *)
(* published by one process only, into a directory that does not exist; an *)
(* import works on a peer key and never stages a private key; and a        *)
(* process in the shredding loop has a size no smaller than the key, has   *)
(* zeroed (with the other shredders) at least the bytes below its offset,  *)
(* and shreds a key that no process is about to publish.  This is the      *)
(* inductive invariant from which ShredBeforeUnlink is proved.             *)
(***************************************************************************)
DirInv == \A k \in KexId :
            /\ ~kexists[k] => files[k] = {}
            /\ kexists[k] /\ k \in GenId => k \in issued

PrivInv == \A k \in KexId :
             "priv" \in files[k] => k \in issued /\ priv[k].len >= priv[k].keyLen

GenInv == \A q \in Proc : pc[q] = "gen_publish" =>
             /\ arg[q] \in issued
             /\ ~kexists[arg[q]]
             /\ \A r \in Proc \ {q} : pc[r] = "gen_publish" => arg[r] # arg[q]

ImpInv == \A q \in Proc : pc[q] \in {"imp_stat", "imp_rename"} =>
             arg[q] \in PeerKey /\ "priv" \notin stg[q]

ShredInv == \A p \in Proc : pc[p] = "shred" =>
             /\ arg[p] \in issued
             /\ size[p] >= priv[arg[p]].keyLen
             /\ priv[arg[p]].zero >= off[p]
             /\ \A q \in Proc : pc[q] = "gen_publish" => arg[q] # arg[p]

LoadInv == \A p \in Proc : pc[p] \in {"load_priv", "load_peer"} =>
             arg[p] \in KexId /\ keys[p][arg[p]] \in Box

(* Every reachable state satisfies the shredding invariant: a process    *)
(* inside del_dh_priv's loop has zeroed every byte below its offset, for *)
(* every interleaving of shredders, publishers, loaders and crashes.     *)
KexInv == TypeOK /\ DirInv /\ PrivInv /\ GenInv /\ ImpInv /\ ShredInv /\ LoadInv

(* Secure erasure (del_dh_priv, lines 1149-1161, spec.md 4.3 and 5): a    *)
(* dh.priv.pem is only ever unlinked once every byte of the private key  *)
(* it was written with has been overwritten with zeros -- also when two  *)
(* processes shred the same key at once, or a shred was cut short by a   *)
(* crash and started again on the partly zeroed file.                     *)
ShredBeforeUnlink ==
  [][\A k \in KexId :
       ("priv" \in files[k] /\ "priv" \notin files'[k]) =>
          priv[k].zero >= priv[k].keyLen]_vars

(* Atomic publication (staging-and-rename, spec.md 4.5 and property 8.5): *)
(* seen from the shared directory, every kex directory appears at once   *)
(* with all the files of the call that created it, afterwards loses      *)
(* files but gains none other than "used", and is removed only when      *)
(* empty.  KexAbstract states this; the mapping hides staging            *)
(* directories, process memory and file contents.                        *)
Abs == INSTANCE KexAbstract
AtomicPublish == Abs!Spec

(* Tombstones (load_dh, lines 592-593: "we leave empty dir's for already *)
(* imported (EC)DH keys, that are tried to be re-imported from old       *)
(* mails"; spec.md 4.3: an import fails with Conflict when the key has   *)
(* appeared concurrently): a kex directory that has no public key any    *)
(* more never gets one again while it exists.                             *)
TombstoneBlocksReimport ==
  [][\A k \in KexId :
       (kexists[k] /\ "pub" \notin files[k]) => "pub" \notin files'[k]]_vars


(* Every call returns: a process inside persona::load's directory loop,  *)
(* gen_kex_key's publication or del_dh_priv's shredding loop gets back   *)
(* to its caller (or dies), whatever the other process does to the       *)
(* shared directory meanwhile -- the loops over readdir entries and over  *)
(* 512-byte blocks are bounded by snapshots taken before them.  The      *)
(* kex_live run has no peer keys, so add_dh_pubkey (two steps, no loop)  *)
(* is not part of what it checks.                                          *)
CallsReturn ==
  \A p \in Proc : pc[p] \notin {"idle", "start"} ~> pc[p] \in {"idle", "start"}
=============================================================================
