--------------------------- MODULE KexStoreProofs ---------------------------
(***************************************************************************)
(* Proofs about KexStore for every number of processes, keys, key        *)
(* lengths and block sizes: KexInv is an inductive invariant, hence the  *)
(* type invariant holds and del_dh_priv never unlinks a private key file *)
(* that still holds key bytes.                                             *)
(***************************************************************************)
EXTENDS KexStore, TLAPS

USE ConstAssumption


(* Putting a PKEYbox or None into one entry of the keys map keeps it    *)
(* well-typed.                                                             *)
LEMMA BoxSet ==
  ASSUME NEW kk \in [Proc -> [KexId -> Box \cup {None}]],
         NEW p \in Proc, NEW k \in KexId, NEW bx \in Box \cup {None}
  PROVE  [kk EXCEPT ![p][k] = bx] \in [Proc -> [KexId -> Box \cup {None}]]
  OBVIOUS

(* Clearing or setting one half of an existing PKEYbox keeps the keys    *)
(* map well-typed.                                                         *)
LEMMA BoxUpdate ==
  ASSUME NEW kk \in [Proc -> [KexId -> Box \cup {None}]],
         NEW p \in Proc, NEW k \in KexId, kk[p][k] \in Box, NEW b \in BOOLEAN
  PROVE  /\ [kk EXCEPT ![p][k].priv = b] \in [Proc -> [KexId -> Box \cup {None}]]
         /\ [kk EXCEPT ![p][k].pub = b] \in [Proc -> [KexId -> Box \cup {None}]]
  BY DEF Box

(* ... and leaves a PKEYbox in that entry and every other process's map  *)
(* as it was.                                                              *)
LEMMA BoxUpdateAt ==
  ASSUME NEW kk \in [Proc -> [KexId -> Box \cup {None}]],
         NEW p \in Proc, NEW k \in KexId, kk[p][k] \in Box, NEW b \in BOOLEAN
  PROVE  /\ [kk EXCEPT ![p][k].priv = b][p][k] \in Box
         /\ \A q \in Proc \ {p} : [kk EXCEPT ![p][k].priv = b][q] = kk[q]
  BY DEF Box

LEMMA KexInvInit == Init => KexInv
  BY SMTT(20) DEF Init, KexInv, TypeOK, DirInv, PrivInv, GenInv, ImpInv, ShredInv,
         LoadInv, Inode, Box, PC, KexId, KFile

(* Every step of every process keeps KexInv.                              *)
LEMMA KexInvNext == KexInv /\ [Next]_vars => KexInv'
<1> SUFFICES ASSUME KexInv, [Next]_vars PROVE KexInv'
  OBVIOUS
<1> USE DEF KexInv, TypeOK, DirInv, PrivInv, GenInv, ImpInv, ShredInv, LoadInv,
            Inode, PC, KexId, KFile, Goto, NewKexId, Stage, disk, locals
<1>1. ASSUME NEW p \in Proc, Start(p) PROVE KexInv'
  BY <1>1, SMTT(20) DEF Start
<1>2. ASSUME NEW p \in Proc, LoadPub(p) PROVE KexInv'
  BY <1>2 DEF LoadPub, Box
<1>3. ASSUME NEW p \in Proc, LoadPriv(p) PROVE KexInv'
  <2>1. TypeOK'
    <3>1. kexists' \in [KexId -> BOOLEAN]
      BY <1>3 DEF LoadPriv
    <3>2. files' \in [KexId -> SUBSET KFile]
      BY <1>3 DEF LoadPriv
    <3>3. priv' \in [KexId -> Inode]
      BY <1>3 DEF LoadPriv
    <3>4. keys' \in [Proc -> [KexId -> Box \cup {None}]]
      <4>1. arg[p] \in KexId /\ keys[p][arg[p]] \in Box
        BY <1>3 DEF LoadPriv
      <4>2. keys' = keys \/ keys' = [keys EXCEPT ![p][arg[p]].priv = TRUE]
        BY <1>3 DEF LoadPriv
      <4>3. CASE keys' = keys
        BY <4>3, SMTT(20)
      <4>4. CASE keys' = [keys EXCEPT ![p][arg[p]].priv = TRUE]
        BY <4>1, <4>4, BoxUpdate
      <4>5. QED
        BY <4>2, <4>3, <4>4, SMTT(20)
    <3>5. pc' \in [Proc -> PC]
      <4>1. pc' = [pc EXCEPT ![p] = "load_peer"] \/ pc' = [pc EXCEPT ![p] = "load"]
        BY <1>3 DEF LoadPriv
      <4>2. QED
        BY <4>1, SMTT(20)
    <3>6. arg' \in [Proc -> KexId \cup {None}]
      BY <1>3 DEF LoadPriv
    <3>7. stg' \in [Proc -> SUBSET KFile]
      BY <1>3 DEF LoadPriv
    <3>8. off' \in [Proc -> Nat]
      BY <1>3 DEF LoadPriv
    <3>9. size' \in [Proc -> Nat]
      BY <1>3 DEF LoadPriv
    <3>10. todo' \in [Proc -> SUBSET KexId]
      BY <1>3 DEF LoadPriv
    <3>11. issued' \in SUBSET GenId
      BY <1>3 DEF LoadPriv
    <3>12. QED
      BY <3>1, <3>2, <3>3, <3>4, <3>5, <3>6, <3>7, <3>8, <3>9, <3>10, <3>11
  <2>2. DirInv'
    BY <1>3 DEF LoadPriv
  <2>3. PrivInv'
    BY <1>3 DEF LoadPriv
  <2>4. GenInv'
    BY <1>3 DEF LoadPriv
  <2>5. ImpInv'
    BY <1>3 DEF LoadPriv
  <2>6. ShredInv'
    BY <1>3 DEF LoadPriv
  <2>7. LoadInv'
    <3>1. arg[p] \in KexId /\ keys[p][arg[p]] \in Box
      BY <1>3 DEF LoadPriv
    <3>2. keys' = keys \/ keys' = [keys EXCEPT ![p][arg[p]].priv = TRUE]
      BY <1>3 DEF LoadPriv
    <3>3. /\ keys'[p][arg[p]] \in Box
          /\ \A q \in Proc \ {p} : keys'[q] = keys[q]
      <4>1. CASE keys' = keys
        BY <3>1, <4>1
      <4>2. CASE keys' = [keys EXCEPT ![p][arg[p]].priv = TRUE]
        <5>1. keys \in [Proc -> [KexId -> Box \cup {None}]]
          OBVIOUS
        <5>2. /\ [keys EXCEPT ![p][arg[p]].priv = TRUE][p][arg[p]] \in Box
              /\ \A q \in Proc \ {p} :
                    [keys EXCEPT ![p][arg[p]].priv = TRUE][q] = keys[q]
          BY ONLY <3>1, <5>1, BoxUpdateAt
        <5>3. QED
          BY <4>2, <5>2
      <4>3. QED
        BY <3>2, <4>1, <4>2
    <3>4. /\ UNCHANGED <<arg>> /\ pc'[p] \in {"load_peer", "load"}
          /\ \A q \in Proc \ {p} : pc'[q] = pc[q]
      BY <1>3 DEF LoadPriv
    <3>5. QED
      BY <3>1, <3>3, <3>4
  <2>8. QED
    BY <2>1, <2>2, <2>3, <2>4, <2>5, <2>6, <2>7
<1>4. ASSUME NEW p \in Proc, LoadPeer(p) PROVE KexInv'
  <2>1. keys' \in [Proc -> [KexId -> Box \cup {None}]]
    <3>1. arg[p] \in KexId /\ keys[p][arg[p]] \in Box
      BY <1>4 DEF LoadPeer
    <3>2. keys' = keys \/ keys' = [keys EXCEPT ![p][arg[p]] = None]
      BY <1>4 DEF LoadPeer
    <3>3. CASE keys' = keys
      BY <3>3
    <3>4. CASE keys' = [keys EXCEPT ![p][arg[p]] = None]
      BY <3>1, <3>4, BoxSet
    <3>5. QED
      BY <3>2, <3>3, <3>4
  <2>2. /\ UNCHANGED <<disk, locals, issued>> /\ pc' = [pc EXCEPT ![p] = "load"]
        /\ \A q \in Proc \ {p} : keys'[q] = keys[q]
    BY <1>4 DEF LoadPeer
  <2>3. QED
    BY <2>1, <2>2
<1>5. ASSUME NEW p \in Proc, LoadDone(p) PROVE KexInv'
  BY <1>5, SMTT(20) DEF LoadDone
<1>6. ASSUME NEW p \in Proc, GenStage(p) PROVE KexInv'
  <2>1. TypeOK'
    <3>1. kexists' \in [KexId -> BOOLEAN]
      BY <1>6 DEF GenStage
    <3>2. files' \in [KexId -> SUBSET KFile]
      BY <1>6 DEF GenStage
    <3>3. priv' \in [KexId -> Inode]
      BY <1>6 DEF GenStage
    <3>4. keys' \in [Proc -> [KexId -> Box \cup {None}]]
      BY <1>6 DEF GenStage
    <3>5. pc' \in [Proc -> PC]
      BY <1>6 DEF GenStage
    <3>6. arg' \in [Proc -> KexId \cup {None}]
      BY <1>6 DEF GenStage
    <3>7. stg' \in [Proc -> SUBSET KFile]
      BY <1>6 DEF GenStage
    <3>8. off' \in [Proc -> Nat]
      BY <1>6 DEF GenStage
    <3>9. size' \in [Proc -> Nat]
      BY <1>6 DEF GenStage
    <3>10. todo' \in [Proc -> SUBSET KexId]
      BY <1>6 DEF GenStage
    <3>11. issued' \in SUBSET GenId
      BY <1>6 DEF GenStage
    <3>12. QED
      BY <3>1, <3>2, <3>3, <3>4, <3>5, <3>6, <3>7, <3>8, <3>9, <3>10, <3>11
  <2>2. DirInv'
    BY <1>6 DEF GenStage
  <2>3. PrivInv'
    BY <1>6 DEF GenStage
  <2>4. GenInv'
    <3>1. PICK k \in GenId \ issued :
            /\ issued' = issued \cup {k}
            /\ arg' = [arg EXCEPT ![p] = k]
            /\ pc' = [pc EXCEPT ![p] = "gen_publish"]
            /\ UNCHANGED kexists
      BY <1>6 DEF GenStage
    <3>2. ~kexists[k]
      BY <3>1
    <3>3. \A q \in Proc \ {p} : pc[q] = "gen_publish" => arg[q] # k
      BY <3>1
    <3>4. UNCHANGED kexists /\ pc[p] = "idle"
      BY <1>6 DEF GenStage
    <3>5. QED
      BY <3>1, <3>2, <3>3, <3>4
  <2>5. ImpInv'
    BY <1>6 DEF GenStage
  <2>6. ShredInv'
    BY <1>6 DEF GenStage
  <2>7. LoadInv'
    BY <1>6 DEF GenStage
  <2>8. QED
    BY <2>1, <2>2, <2>3, <2>4, <2>5, <2>6, <2>7
<1>7. ASSUME NEW p \in Proc, GenPublish(p) PROVE KexInv'
  BY <1>7 DEF GenPublish, Box
<1>8. ASSUME NEW p \in Proc, ImportStage(p) PROVE KexInv'
  BY <1>8, SMTT(20) DEF ImportStage
<1>9. ASSUME NEW p \in Proc, ImportStat(p) PROVE KexInv'
  <2>1. TypeOK'
    <3>1. kexists' \in [KexId -> BOOLEAN]
      BY <1>9 DEF ImportStat
    <3>2. files' \in [KexId -> SUBSET KFile]
      BY <1>9 DEF ImportStat
    <3>3. priv' \in [KexId -> Inode]
      BY <1>9 DEF ImportStat
    <3>4. keys' \in [Proc -> [KexId -> Box \cup {None}]]
      BY <1>9 DEF ImportStat
    <3>5. pc' \in [Proc -> PC]
      <4>1. pc' = [pc EXCEPT ![p] = "idle"] \/ pc' = [pc EXCEPT ![p] = "imp_rename"]
        BY <1>9 DEF ImportStat
      <4>2. QED
        BY <4>1
    <3>6. arg' \in [Proc -> KexId \cup {None}]
      BY <1>9 DEF ImportStat
    <3>7. stg' \in [Proc -> SUBSET KFile]
      BY <1>9, SMTT(20) DEF ImportStat
    <3>8. off' \in [Proc -> Nat]
      BY <1>9 DEF ImportStat
    <3>9. size' \in [Proc -> Nat]
      BY <1>9 DEF ImportStat
    <3>10. todo' \in [Proc -> SUBSET KexId]
      BY <1>9 DEF ImportStat
    <3>11. issued' \in SUBSET GenId
      BY <1>9 DEF ImportStat
    <3>12. QED
      BY <3>1, <3>2, <3>3, <3>4, <3>5, <3>6, <3>7, <3>8, <3>9, <3>10, <3>11
  <2>2. DirInv'
    BY <1>9 DEF ImportStat
  <2>3. PrivInv'
    BY <1>9 DEF ImportStat
  <2>4. GenInv'
    BY <1>9 DEF ImportStat
  <2>5. ImpInv'
    BY <1>9 DEF ImportStat
  <2>6. ShredInv'
    BY <1>9 DEF ImportStat
  <2>7. LoadInv'
    BY <1>9, SMTT(20) DEF ImportStat
  <2>8. QED
    BY <2>1, <2>2, <2>3, <2>4, <2>5, <2>6, <2>7
<1>10. ASSUME NEW p \in Proc, ImportRename(p) PROVE KexInv'
  <2>1. TypeOK'
    <3>1. kexists' \in [KexId -> BOOLEAN]
      BY <1>10 DEF ImportRename
    <3>2. files' \in [KexId -> SUBSET KFile]
      <4>1. arg[p] \in PeerKey /\ stg[p] \in SUBSET KFile
        BY <1>10 DEF ImportRename
      <4>2. files' = files \/ files' = [files EXCEPT ![arg[p]] = stg[p]]
        BY <1>10 DEF ImportRename
      <4>3. QED
        BY <4>1, <4>2
    <3>3. priv' \in [KexId -> Inode]
      BY <1>10 DEF ImportRename
    <3>4. keys' \in [Proc -> [KexId -> Box \cup {None}]]
      <4>1. arg[p] \in PeerKey
        BY <1>10 DEF ImportRename
      <4>2. \/ keys' = keys
            \/ keys' = [keys EXCEPT ![p][arg[p]] = [pub |-> TRUE, priv |-> FALSE]]
        BY <1>10 DEF ImportRename
      <4>3. [pub |-> TRUE, priv |-> FALSE] \in Box
        BY DEF Box
      <4>4. CASE keys' = keys
        BY <4>4
      <4>5. CASE keys' = [keys EXCEPT ![p][arg[p]] = [pub |-> TRUE, priv |-> FALSE]]
        BY <4>1, <4>3, <4>5, BoxSet
      <4>6. QED
        BY <4>2, <4>4, <4>5
    <3>5. pc' \in [Proc -> PC]
      BY <1>10 DEF ImportRename
    <3>6. arg' \in [Proc -> KexId \cup {None}]
      BY <1>10 DEF ImportRename
    <3>7. stg' \in [Proc -> SUBSET KFile]
      BY <1>10 DEF ImportRename
    <3>8. off' \in [Proc -> Nat]
      BY <1>10 DEF ImportRename
    <3>9. size' \in [Proc -> Nat]
      BY <1>10 DEF ImportRename
    <3>10. todo' \in [Proc -> SUBSET KexId]
      BY <1>10 DEF ImportRename
    <3>11. issued' \in SUBSET GenId
      BY <1>10, SMTT(20) DEF ImportRename
    <3>12. QED
      BY <3>1, <3>2, <3>3, <3>4, <3>5, <3>6, <3>7, <3>8, <3>9, <3>10, <3>11
  <2>2. DirInv'
    <3>1. CASE UNCHANGED <<kexists, files>>
      BY <1>10, <3>1 DEF ImportRename
    <3>2. CASE /\ kexists' = [kexists EXCEPT ![arg[p]] = TRUE]
               /\ files'   = [files EXCEPT ![arg[p]] = stg[p]]
      BY <1>10, <3>2 DEF ImportRename
    <3>3. QED
      BY <1>10, <3>1, <3>2 DEF ImportRename
  <2>3. PrivInv'
    BY <1>10 DEF ImportRename
  <2>4. GenInv'
    <3>1. arg[p] \in PeerKey /\ arg[p] \notin GenId
      BY <1>10 DEF ImportRename
    <3>2. \A j \in KexId : kexists'[j] => kexists[j] \/ j = arg[p]
      BY <1>10 DEF ImportRename
    <3>3. UNCHANGED <<arg, issued>> /\ pc' = [pc EXCEPT ![p] = "idle"]
      BY <1>10 DEF ImportRename
    <3>4. QED
      BY <3>1, <3>2, <3>3
  <2>5. ImpInv'
    BY <1>10 DEF ImportRename
  <2>6. ShredInv'
    BY <1>10 DEF ImportRename
  <2>7. LoadInv'
    BY <1>10 DEF ImportRename
  <2>8. QED
    BY <2>1, <2>2, <2>3, <2>4, <2>5, <2>6, <2>7
<1>11. ASSUME NEW p \in Proc, ShredOpen(p) PROVE KexInv'
  BY <1>11, SMTT(20) DEF ShredOpen
<1>12. ASSUME NEW p \in Proc, ShredWrite(p) PROVE KexInv'
  <2> DEFINE k == arg[p]
  <2>1. k \in issued /\ off[p] < size[p] /\ off[p] \in Nat
    BY <1>12 DEF ShredWrite
  <2>2. priv' = [priv EXCEPT ![k].zero = Larger(@, off[p] + Blk),
                             ![k].len  = Larger(@, off[p] + Blk)]
    BY <1>12 DEF ShredWrite
  <2>3. /\ priv'[k].keyLen = priv[k].keyLen
        /\ priv'[k].zero >= priv[k].zero /\ priv'[k].len >= priv[k].len
        /\ priv'[k].zero >= off[p] + Blk
        /\ priv' \in [KexId -> Inode]
        /\ \A j \in KexId \ {k} : priv'[j] = priv[j]
    BY <2>1, <2>2, SMTT(20) DEF Larger
  <2>4. /\ off' = [off EXCEPT ![p] = @ + Blk]
        /\ UNCHANGED <<kexists, files, keys, pc, arg, stg, size, todo, issued>>
    BY <1>12 DEF ShredWrite
  <2>5. TypeOK'
    BY <2>3, <2>4
  <2>6. PrivInv'
    BY <2>3, <2>4
  <2>7. ShredInv'
    BY <2>1, <2>3, <2>4, SMTT(20)
  <2>8. QED
    BY <2>3, <2>4, <2>5, <2>6, <2>7
<1>13. ASSUME NEW p \in Proc, ShredUnlink(p) PROVE KexInv'
  <2>1. TypeOK'
    <3>1. kexists' \in [KexId -> BOOLEAN]
      BY <1>13 DEF ShredUnlink
    <3>2. files' \in [KexId -> SUBSET KFile]
      BY <1>13 DEF ShredUnlink
    <3>3. priv' \in [KexId -> Inode]
      BY <1>13 DEF ShredUnlink
    <3>4. keys' \in [Proc -> [KexId -> Box \cup {None}]]
      <4>1. arg[p] \in KexId
        BY <1>13 DEF ShredUnlink
      <4>2. CASE keys[p][arg[p]] # None
        <5>1. keys[p][arg[p]] \in Box
          BY <4>1, <4>2
        <5>2. QED
          BY <1>13, <4>1, <4>2, <5>1, BoxUpdate DEF ShredUnlink
      <4>3. CASE keys[p][arg[p]] = None
        BY <1>13, <4>3 DEF ShredUnlink
      <4>4. QED
        BY <4>2, <4>3, SMTT(20)
    <3>5. pc' \in [Proc -> PC]
      BY <1>13 DEF ShredUnlink
    <3>6. arg' \in [Proc -> KexId \cup {None}]
      BY <1>13 DEF ShredUnlink
    <3>7. stg' \in [Proc -> SUBSET KFile]
      BY <1>13 DEF ShredUnlink
    <3>8. off' \in [Proc -> Nat]
      BY <1>13 DEF ShredUnlink
    <3>9. size' \in [Proc -> Nat]
      BY <1>13 DEF ShredUnlink
    <3>10. todo' \in [Proc -> SUBSET KexId]
      BY <1>13 DEF ShredUnlink
    <3>11. issued' \in SUBSET GenId
      BY <1>13 DEF ShredUnlink
    <3>12. QED
      BY <3>1, <3>2, <3>3, <3>4, <3>5, <3>6, <3>7, <3>8, <3>9, <3>10, <3>11
  <2>2. DirInv'
    BY <1>13 DEF ShredUnlink
  <2>3. PrivInv'
    BY <1>13 DEF ShredUnlink
  <2>4. GenInv'
    BY <1>13 DEF ShredUnlink
  <2>5. ImpInv'
    BY <1>13 DEF ShredUnlink
  <2>6. ShredInv'
    BY <1>13 DEF ShredUnlink
  <2>7. LoadInv'
    BY <1>13, SMTT(20) DEF ShredUnlink
  <2>8. QED
    BY <2>1, <2>2, <2>3, <2>4, <2>5, <2>6, <2>7
<1>14. ASSUME NEW p \in Proc, DelDhPub(p) PROVE KexInv'
  <2>1. TypeOK'
    <3>1. kexists' \in [KexId -> BOOLEAN]
      BY <1>14 DEF DelDhPub
    <3>2. files' \in [KexId -> SUBSET KFile]
      BY <1>14 DEF DelDhPub
    <3>3. priv' \in [KexId -> Inode]
      BY <1>14 DEF DelDhPub
    <3>4. keys' \in [Proc -> [KexId -> Box \cup {None}]]
      <4>1. PICK k \in KexId :
              keys' = IF keys[p][k] # None
                        THEN [keys EXCEPT ![p][k].pub = FALSE]
                        ELSE keys
        BY <1>14 DEF DelDhPub
      <4>2. CASE keys[p][k] # None
        <5>1. keys[p][k] \in Box
          BY <4>2
        <5>2. QED
          BY <4>1, <4>2, <5>1, BoxUpdate
      <4>3. CASE keys[p][k] = None
        BY <4>1, <4>3
      <4>4. QED
        BY <4>2, <4>3
    <3>5. pc' \in [Proc -> PC]
      BY <1>14 DEF DelDhPub
    <3>6. arg' \in [Proc -> KexId \cup {None}]
      BY <1>14 DEF DelDhPub
    <3>7. stg' \in [Proc -> SUBSET KFile]
      BY <1>14 DEF DelDhPub
    <3>8. off' \in [Proc -> Nat]
      BY <1>14 DEF DelDhPub
    <3>9. size' \in [Proc -> Nat]
      BY <1>14 DEF DelDhPub
    <3>10. todo' \in [Proc -> SUBSET KexId]
      BY <1>14 DEF DelDhPub
    <3>11. issued' \in SUBSET GenId
      BY <1>14 DEF DelDhPub
    <3>12. QED
      BY <3>1, <3>2, <3>3, <3>4, <3>5, <3>6, <3>7, <3>8, <3>9, <3>10, <3>11
  <2>2. DirInv'
    BY <1>14 DEF DelDhPub
  <2>3. PrivInv'
    BY <1>14 DEF DelDhPub
  <2>4. GenInv'
    BY <1>14 DEF DelDhPub
  <2>5. ImpInv'
    BY <1>14 DEF DelDhPub
  <2>6. ShredInv'
    BY <1>14 DEF DelDhPub
  <2>7. LoadInv'
    BY <1>14 DEF DelDhPub
  <2>8. QED
    BY <2>1, <2>2, <2>3, <2>4, <2>5, <2>6, <2>7
<1>15. ASSUME NEW p \in Proc, DelDhId(p) PROVE KexInv'
  BY <1>15, SMTT(20) DEF DelDhId
<1>16. ASSUME NEW p \in Proc, UsedKey(p) PROVE KexInv'
  <2>1. TypeOK'
    <3>1. kexists' \in [KexId -> BOOLEAN]
      BY <1>16 DEF UsedKey
    <3>2. files' \in [KexId -> SUBSET KFile]
      <4>1. PICK k \in KexId :
              \/ files' = [files EXCEPT ![k] = @ \cup {"used"}]
              \/ files' = [files EXCEPT ![k] = @ \ {"used"}]
        BY <1>16 DEF UsedKey
      <4>2. QED
        BY <4>1
    <3>3. priv' \in [KexId -> Inode]
      BY <1>16 DEF UsedKey
    <3>4. keys' \in [Proc -> [KexId -> Box \cup {None}]]
      BY <1>16 DEF UsedKey
    <3>5. pc' \in [Proc -> PC]
      BY <1>16 DEF UsedKey
    <3>6. arg' \in [Proc -> KexId \cup {None}]
      BY <1>16 DEF UsedKey
    <3>7. stg' \in [Proc -> SUBSET KFile]
      BY <1>16 DEF UsedKey
    <3>8. off' \in [Proc -> Nat]
      BY <1>16 DEF UsedKey
    <3>9. size' \in [Proc -> Nat]
      BY <1>16 DEF UsedKey
    <3>10. todo' \in [Proc -> SUBSET KexId]
      BY <1>16 DEF UsedKey
    <3>11. issued' \in SUBSET GenId
      BY <1>16 DEF UsedKey
    <3>12. QED
      BY <3>1, <3>2, <3>3, <3>4, <3>5, <3>6, <3>7, <3>8, <3>9, <3>10, <3>11
  <2>2. DirInv'
    <3>1. UNCHANGED <<kexists, issued>>
      BY <1>16 DEF UsedKey
    <3>2. \A j \in KexId : files'[j] # {} => kexists[j] \/ files[j] # {}
      BY <1>16 DEF UsedKey
    <3>3. QED
      BY <3>1, <3>2
  <2>3. PrivInv'
    <3>1. PICK k \in KexId :
            \/ files' = [files EXCEPT ![k] = @ \cup {"used"}]
            \/ files' = [files EXCEPT ![k] = @ \ {"used"}]
      BY <1>16 DEF UsedKey
    <3>2. UNCHANGED <<priv, issued>>
      BY <1>16 DEF UsedKey
    <3>3. \A j \in KexId : "priv" \in files'[j] => "priv" \in files[j]
      <4>1. CASE files' = [files EXCEPT ![k] = @ \cup {"used"}]
        BY <4>1
      <4>2. CASE files' = [files EXCEPT ![k] = @ \ {"used"}]
        BY <4>2
      <4>3. QED
        BY <3>1, <4>1, <4>2
    <3>4. QED
      BY <3>2, <3>3
  <2>4. GenInv'
    BY <1>16 DEF UsedKey
  <2>5. ImpInv'
    BY <1>16 DEF UsedKey
  <2>6. ShredInv'
    BY <1>16 DEF UsedKey
  <2>7. LoadInv'
    BY <1>16, SMTT(20) DEF UsedKey
  <2>8. QED
    BY <2>1, <2>2, <2>3, <2>4, <2>5, <2>6, <2>7
<1>17. ASSUME NEW p \in Proc, Crash(p) PROVE KexInv'
  BY <1>17, SMTT(20) DEF Crash
<1>18. CASE UNCHANGED vars
  BY <1>18, SMTT(20) DEF vars
<1>19. QED
  BY <1>1, <1>2, <1>3, <1>4, <1>5, <1>6, <1>7, <1>8, <1>9, <1>10, <1>11, <1>12, <1>13, <1>14, <1>15, <1>16, <1>17, <1>18, ZenonT(30) DEF Next

(* The step ShredBeforeUnlink requires of every transition.                *)
ShredStep ==
  \A k \in KexId :
    ("priv" \in files[k] /\ "priv" \notin files'[k]) =>
       priv[k].zero >= priv[k].keyLen

(* Only del_dh_priv's final unlink removes a linked dh.priv.pem, and by   *)
(* ShredInv its loop has then zeroed at least size >= keyLen bytes; the   *)
(* renames of gen_kex_key and add_dh_pubkey only replace directories that *)
(* are missing or empty.                                                    *)
LEMMA ShredStepNext == KexInv /\ [Next]_vars => ShredStep
<1> SUFFICES ASSUME KexInv, [Next]_vars,
                    NEW k \in KexId, "priv" \in files[k], "priv" \notin files'[k]
             PROVE  priv[k].zero >= priv[k].keyLen
  BY DEF ShredStep
<1> USE DEF KexInv, TypeOK, DirInv, GenInv, ImpInv, ShredInv, KexId, KFile
<1>1. ASSUME NEW p \in Proc, ShredUnlink(p) PROVE priv[k].zero >= priv[k].keyLen
  <2>1. k = arg[p]
    BY <1>1 DEF ShredUnlink
  <2>2. pc[p] = "shred" /\ off[p] >= size[p]
    BY <1>1 DEF ShredUnlink
  <2>3. QED
    BY <2>1, <2>2 DEF Inode
<1>2. ASSUME NEW p \in Proc, GenPublish(p) PROVE priv[k].zero >= priv[k].keyLen
  <2>1. files[arg[p]] = {}
    BY <1>2 DEF GenPublish
  <2>2. files'[k] = files[k]
    BY <1>2, <2>1 DEF GenPublish
  <2>3. QED
    BY <2>2
<1>3. ASSUME NEW p \in Proc, ImportRename(p) PROVE priv[k].zero >= priv[k].keyLen
  <2>1. arg[p] \in KexId
    BY <1>3 DEF ImportRename
  <2>2. \/ files' = files
        \/ (~kexists[arg[p]] \/ files[arg[p]] = {})
           /\ files' = [files EXCEPT ![arg[p]] = stg[p]]
    BY <1>3 DEF ImportRename, disk
  <2>3. kexists[k] /\ files[k] # {}
    OBVIOUS
  <2>4. CASE files' = files
    BY <2>4
  <2>5. CASE (~kexists[arg[p]] \/ files[arg[p]] = {})
             /\ files' = [files EXCEPT ![arg[p]] = stg[p]]
    <3>1. k # arg[p]
      BY <2>3, <2>5
    <3>2. QED
      BY <2>1, <2>5, <3>1
  <2>6. QED
    BY <2>2, <2>4, <2>5
<1>4. ASSUME NEW p \in Proc, DelDhPub(p) \/ UsedKey(p)
      PROVE  priv[k].zero >= priv[k].keyLen
  <2>1. \E j \in KexId : \/ files' = [files EXCEPT ![j] = @ \ {"pub"}]
                         \/ files' = [files EXCEPT ![j] = @ \cup {"used"}]
                         \/ files' = [files EXCEPT ![j] = @ \ {"used"}]
    BY <1>4 DEF DelDhPub, UsedKey
  <2>2. QED
    BY <2>1, SMTT(20)
<1>5. ASSUME NEW p \in Proc,
             \/ Start(p) \/ LoadPub(p) \/ LoadPriv(p) \/ LoadPeer(p)
             \/ LoadDone(p) \/ GenStage(p) \/ ImportStage(p) \/ ImportStat(p)
             \/ ShredOpen(p) \/ ShredWrite(p) \/ DelDhId(p) \/ Crash(p)
      PROVE  priv[k].zero >= priv[k].keyLen
  <2>1. files' = files
    BY <1>5 DEF Start, LoadPub, LoadPriv, LoadPeer, LoadDone, GenStage,
                ImportStage, ImportStat, ShredOpen, ShredWrite, DelDhId, Crash,
                disk
  <2>2. QED
    BY <2>1, SMTT(20)
<1>6. CASE UNCHANGED vars
  BY <1>6 DEF vars
<1>7. QED
  BY <1>1, <1>2, <1>3, <1>4, <1>5, <1>6 DEF Next

(* Type correctness: every reachable state of the kex-key store is well-  *)
(* typed (persona::keys holds a PKEYbox or nothing, dh.priv.pem inodes    *)
(* have natural lengths, every process is at one of its labels).          *)
THEOREM TypeCorrect == Spec => []TypeOK
<1>1. Init => KexInv
  BY KexInvInit
<1>2. KexInv /\ [Next]_vars => KexInv'
  BY KexInvNext
<1>3. KexInv => TypeOK
  BY DEF KexInv
<1>4. QED
  BY <1>1, <1>2, <1>3, PTL DEF Spec

(* The shredding invariant KexInv holds in every reachable state.          *)
THEOREM InvariantHolds == Spec => []KexInv
<1>1. Init => KexInv
  BY KexInvInit
<1>2. KexInv /\ [Next]_vars => KexInv'
  BY KexInvNext
<1>3. QED
  BY <1>1, <1>2, PTL DEF Spec

(* Secure erasure for every number of processes, keys, key lengths and    *)
(* block sizes: del_dh_priv unlinks a dh.priv.pem only after its loop has *)
(* zeroed every byte of the key the file was written with.                 *)
THEOREM ShredSafe == Spec => ShredBeforeUnlink
<1>1. Init => KexInv
  BY KexInvInit
<1>2. KexInv /\ [Next]_vars => KexInv'
  BY KexInvNext
<1>3. KexInv /\ [Next]_vars => [ShredStep]_vars
  BY ShredStepNext
<1>4. QED
  BY <1>1, <1>2, <1>3, PTL DEF Spec, ShredBeforeUnlink, ShredStep

=============================================================================
