---------------------------- MODULE KexAbstract ----------------------------
(***************************************************************************)
(* What the kex-key part of a persona directory promises to every process *)
(* that reads <base>/<persona>/: the staging-and-rename discipline of      *)
(* spec.md section 4.5 makes each kex directory appear in one step with   *)
(* every file its creator wrote; afterwards files only disappear (the     *)
(* "used" marker excepted) and the directory itself only goes away when   *)
(* it is empty.  Staging directories, process memory and file contents    *)
(* are not visible at this level.                                          *)
(***************************************************************************)

CONSTANTS
  GenId,    \* ids of kex keys this persona generates (gen_kex_key)
  PeerKey   \* ids of peer kex public keys it imports (add_dh_pubkey)

VARIABLES
  kexists,  \* kexists[k]: the directory <persona>/<k>/ exists
  files     \* files[k]: the files inside it

vars == <<kexists, files>>

KexId == GenId \cup PeerKey
KFile == {"pub", "priv", "peer", "used"}

Init ==
  /\ kexists = [k \in KexId |-> FALSE]
  /\ files   = [k \in KexId |-> {}]

(* A generated key appears complete: both halves, maybe a peer binding.    *)
Generate(k) ==
  /\ k \in GenId
  /\ ~kexists[k]
  /\ kexists' = [kexists EXCEPT ![k] = TRUE]
  /\ \E F \in {{"pub", "priv"}, {"pub", "priv", "peer"}} :
       files' = [files EXCEPT ![k] = F]

(* An imported public key appears where nothing, or an empty directory    *)
(* (rename(2) replaces an empty directory), was.                           *)
Import(k) ==
  /\ k \in PeerKey
  /\ ~kexists[k] \/ files[k] = {}
  /\ kexists' = [kexists EXCEPT ![k] = TRUE]
  /\ files'   = [files EXCEPT ![k] = {"pub"}]

(* Files of an existing directory only go away ...                         *)
Unlink(k) ==
  /\ \E F \in SUBSET KFile : files' = [files EXCEPT ![k] = @ \ F]
  /\ UNCHANGED kexists

(* ... except the "used" marker, which may be created.                     *)
MarkUsed(k) ==
  /\ kexists[k]
  /\ files' = [files EXCEPT ![k] = @ \cup {"used"}]
  /\ UNCHANGED kexists

(* Only an empty directory is removed.                                     *)
Rmdir(k) ==
  /\ kexists[k]
  /\ files[k] = {}
  /\ kexists' = [kexists EXCEPT ![k] = FALSE]
  /\ UNCHANGED files

Next == \E k \in KexId :
          Generate(k) \/ Import(k) \/ Unlink(k) \/ MarkUsed(k) \/ Rmdir(k)

Spec == Init /\ [][Next]_vars

=============================================================================
