------------------------------ MODULE Keystore ------------------------------
(***************************************************************************)
(* The persona level of src/keystore.cc: the persona directories under    *)
(* <base> and the keystore objects of several opmsg processes that share  *)
(* them.  Modelled operations: keystore::load() and keystore::load(hex)   *)
(* with persona::load's prologue (check_type, name, srclink, the long-term *)
(* keys, dhparams.pem), add_persona, new_dh_params(pem), new_dh_params()  *)
(* and link.  A process may crash at any point.                            *)
(*                                                                         *)
(* As in KexStore, a step is one system call on the shared tree, and the  *)
(* writes into a private staging directory form one step.  File contents  *)
(* are abstracted: dhparams.pem is "empty", "valid" or "invalid" PEM and   *)
(* srclink is "empty" or "set".  A persona's type is fixed by its id (the *)
(* id hashes its public key), so RsaId is a constant.  The kex part of    *)
(* persona::load is KexStore's; its failures are ignored by the loop at    *)
(* line 766 and never fail the persona.  Early returns before mkdir, and   *)
(* the ones after mkdir that only leave an orphan staging directory (a    *)
(* PEM that does not parse, a key-type mismatch), change nothing a reader *)
(* can see and are stuttering steps.                                       *)
(***************************************************************************)
EXTENDS Naturals

CONSTANTS
  Proc,       \* opmsg processes sharing <base>
  PersonaId,  \* ids of the personas that can be added
  RsaId,      \* the RSA ones; the others are EC
  DhInput,    \* dhparams_pem arguments: "new", a "valid" or an "invalid" PEM
  None        \* no argument

ASSUME KsAssumption ==
  /\ RsaId \subseteq PersonaId
  /\ DhInput \subseteq {"new", "valid", "invalid"}
  /\ None \notin PersonaId

PFile == {"name", "pub", "priv", "srclink", "dhparams"}
Op    == {"none", "load", "load_hex", "add", "dh", "link"}
PC    == {"idle", "ks_load", "add_rename", "add_dh_open", "add_dh_write",
          "dh_open", "dh_write", "link_write"}

VARIABLES
  (* the shared tree <base>/ *)
  pexists,   \* pexists[h]: <base>/<h>/ exists
  pfiles,    \* pfiles[h] \subseteq PFile: the files in it
  dhp,       \* content of <h>/dhparams.pem
  srcl,      \* content of <h>/srclink
  (* memory of each process *)
  personas,  \* personas[p][h]: "absent", or the persona object is "loaded"
             \* or was inserted after a failed persona::load ("broken")
  pc,        \* where p is
  op,        \* the keystore call p is in, or last returned from
  ret,       \* its return value: "none" while it runs, "ok" or "fail"
  arg,       \* the persona id it works on
  stg,       \* the files p wrote into its staging directory
  mode,      \* the dhparams_pem argument of add_persona / new_dh_params
  todo,      \* keystore::load(): directory entries not yet loaded
  (* history *)
  renamed,   \* renamed[p]: p's current add_persona has renamed its dir
  wins       \* wins[h]: add_persona calls for h that returned a persona

disk == <<pexists, pfiles, dhp, srcl>>
vars == <<pexists, pfiles, dhp, srcl, personas, pc, op, ret, arg, stg,
          mode, todo, renamed, wins>>

(* persona::load succeeds (lines 648-742): check_type finds the public key *)
(* and, for an RSA persona, an existing dhparams.pem must parse.           *)
Loadable(h) ==
  /\ pexists[h]
  /\ h \in RsaId /\ "dhparams" \in pfiles[h] => dhp[h] = "valid"

Init ==
  /\ pexists  = [h \in PersonaId |-> FALSE]
  /\ pfiles   = [h \in PersonaId |-> {}]
  /\ dhp      = [h \in PersonaId |-> "empty"]
  /\ srcl     = [h \in PersonaId |-> "empty"]
  /\ personas = [p \in Proc |-> [h \in PersonaId |-> "absent"]]
  /\ pc       = [p \in Proc |-> "idle"]
  /\ op       = [p \in Proc |-> "none"]
  /\ ret      = [p \in Proc |-> "none"]
  /\ arg      = [p \in Proc |-> None]
  /\ stg      = [p \in Proc |-> {}]
  /\ mode     = [p \in Proc |-> "none"]
  /\ todo     = [p \in Proc |-> {}]
  /\ renamed  = [p \in Proc |-> FALSE]
  /\ wins     = [h \in PersonaId |-> 0]

Goto(p, l) == pc' = [pc EXCEPT ![p] = l]
Return(p, r) == /\ pc' = [pc EXCEPT ![p] = "idle"]
                /\ ret' = [ret EXCEPT ![p] = r]
Call(p, o, h) == /\ pc[p] = "idle"
                 /\ op' = [op EXCEPT ![p] = o]
                 /\ arg' = [arg EXCEPT ![p] = h]
Running(p) == ret' = [ret EXCEPT ![p] = "none"]
Insert(p, h, s) == personas' = [personas EXCEPT ![p][h] = s]
-----------------------------------------------------------------------------
(* keystore::load(): opendir and readdir of <base>.  Staging directories   *)
(* fail is_hex_hash and are skipped, so the entries are the persona dirs.  *)
KsLoad(p) ==
  /\ Call(p, "load", None)
  /\ Running(p)
  /\ todo' = [todo EXCEPT ![p] = {h \in PersonaId : pexists[h]}]
  /\ Goto(p, "ks_load")
  /\ UNCHANGED <<disk, personas, stg, mode, renamed, wins>>

(* One entry: a persona whose load fails is deleted and skipped.          *)
KsLoadPersona(p) ==
  /\ pc[p] = "ks_load"
  /\ \E h \in todo[p] :
       /\ todo' = [todo EXCEPT ![p] = @ \ {h}]
       /\ IF Loadable(h) THEN Insert(p, h, "loaded") ELSE UNCHANGED personas
  /\ UNCHANGED <<disk, pc, op, ret, arg, stg, mode, renamed, wins>>

KsLoadDone(p) ==
  /\ pc[p] = "ks_load"
  /\ todo[p] = {}
  /\ Return(p, "ok")
  /\ UNCHANGED <<disk, personas, op, arg, stg, mode, todo, renamed, wins>>

(* keystore::load(hex): p->load()'s result is ignored, the persona is     *)
(* inserted and 0 is returned.                                             *)
KsLoadHex(p) ==
  /\ \E h \in PersonaId :
       /\ Call(p, "load_hex", h)
       /\ Insert(p, h, IF Loadable(h) THEN "loaded" ELSE "broken")
  /\ ret' = [ret EXCEPT ![p] = "ok"]
  /\ UNCHANGED <<disk, pc, stg, mode, todo, renamed, wins>>

(* add_persona up to the rename (lines 378-451): normalize the key to its  *)
(* id h, mkdir_helper, then write name (if given), <type>.pub.pem and     *)
(* <type>.priv.pem (if given) into the staging directory.                 *)
AddStage(p) ==
  /\ \E h \in PersonaId, F \in SUBSET {"name", "priv"},
        d \in {"none"} \cup DhInput :
       /\ Call(p, "add", h)
       /\ stg'  = [stg EXCEPT ![p] = F \cup {"pub"}]
       /\ mode' = [mode EXCEPT ![p] = d]
  /\ Running(p)
  /\ renamed' = [renamed EXCEPT ![p] = FALSE]
  /\ Goto(p, "add_rename")
  /\ UNCHANGED <<disk, personas, todo, wins>>

(* Mutants of AddConflict: the error branch of the rename does not return *)
(* and the call goes on as if it had succeeded ...                        *)
Bug_AddConflict(p) ==
  /\ pc[p] = "add_rename"
  /\ pexists[arg[p]]
  /\ stg' = [stg EXCEPT ![p] = {}]
  /\ Insert(p, arg[p], "loaded")
  /\ wins' = [wins EXCEPT ![arg[p]] = @ + 1]
  /\ Return(p, "ok")
  /\ UNCHANGED <<disk, op, arg, mode, todo, renamed>>

(* ... or the cleanup unlinks the files under hexdir, not tmpdir.         *)
Bug_AddConflictHexdir(p) ==
  /\ pc[p] = "add_rename"
  /\ pexists[arg[p]]
  /\ pfiles' = [pfiles EXCEPT ![arg[p]] = @ \ stg[p]]
  /\ stg' = [stg EXCEPT ![p] = {}]
  /\ Return(p, "fail")
  /\ UNCHANGED <<pexists, dhp, srcl, personas, op, arg, mode, todo, renamed, wins>>

(* The rename fails: <base>/<h>/ exists and is not empty (it holds the    *)
(* public key).  The staged files are unlinked and Conflict returned.     *)
AddConflict(p) ==
  /\ pc[p] = "add_rename"
  /\ pexists[arg[p]]
  /\ stg' = [stg EXCEPT ![p] = {}]
  /\ Return(p, "fail")
  /\ UNCHANGED <<disk, personas, op, arg, mode, todo, renamed, wins>>

(* The rename succeeds, the persona object is built (lines 461-465) and,  *)
(* when no DH parameters are to be made (none asked, or an EC persona),   *)
(* inserted into personas and returned.                                    *)
AddPublish(p) ==
  LET h == arg[p] IN
  /\ pc[p] = "add_rename"
  /\ ~pexists[h]
  /\ pexists' = [pexists EXCEPT ![h] = TRUE]
  /\ pfiles'  = [pfiles EXCEPT ![h] = stg[p]]
  /\ stg'     = [stg EXCEPT ![p] = {}]
  /\ renamed' = [renamed EXCEPT ![p] = TRUE]
  /\ \/ /\ mode[p] = "none" \/ h \notin RsaId
        /\ Insert(p, h, "loaded")
        /\ wins' = [wins EXCEPT ![h] = @ + 1]
        /\ Return(p, "ok")
     \/ /\ mode[p] # "none" /\ h \in RsaId
        /\ Goto(p, "add_dh_open")
        /\ UNCHANGED <<personas, ret, wins>>
  /\ UNCHANGED <<dhp, srcl, op, arg, mode, todo>>

(* p->new_dh_params(pem) or new_dh_params() called on an RSA persona p    *)
(* holds in memory.                                                        *)
DhStart(p) ==
  /\ \E h \in RsaId, d \in DhInput :
       /\ Call(p, "dh", h)
       /\ personas[p][h] = "loaded"
       /\ mode' = [mode EXCEPT ![p] = d]
  /\ Running(p)
  /\ Goto(p, "dh_open")
  /\ UNCHANGED <<disk, personas, stg, todo, renamed, wins>>

(* new_dh_params() fails to generate parameters (DH_generate_parameters_ex *)
(* or DH_check, line 839) before it touches the disk.                      *)
DhGenFail(p) ==
  /\ pc[p] \in {"add_dh_open", "dh_open"}
  /\ mode[p] = "new"
  /\ Return(p, "fail")
  /\ UNCHANGED <<disk, personas, op, arg, stg, mode, todo, renamed, wins>>

(* open(dhparams.pem, O_CREAT|O_RDWR|O_TRUNC): the file now exists and is *)
(* empty, whatever it held before.                                         *)
DhOpen(p) ==
  LET h == arg[p] IN
  /\ pc[p] \in {"add_dh_open", "dh_open"}
  /\ pfiles' = [pfiles EXCEPT ![h] = @ \cup {"dhparams"}]
  /\ dhp'    = [dhp EXCEPT ![h] = "empty"]
  /\ Goto(p, IF pc[p] = "add_dh_open" THEN "add_dh_write" ELSE "dh_write")
  /\ UNCHANGED <<pexists, srcl, personas, op, ret, arg, stg, mode, todo,
                 renamed, wins>>

(* Mutant of DhWrite: the argument "new" is not told apart and is written *)
(* into dhparams.pem verbatim.                                             *)
Bug_DhWrite(p) ==
  LET h  == arg[p]
      ok == mode[p] # "invalid"
  IN
  /\ pc[p] \in {"add_dh_write", "dh_write"}
  /\ dhp' = [dhp EXCEPT ![h] = IF mode[p] = "valid" THEN "valid" ELSE mode[p]]
  /\ IF pc[p] = "add_dh_write" /\ ok
       THEN /\ Insert(p, h, "loaded")
            /\ wins' = [wins EXCEPT ![h] = @ + 1]
       ELSE UNCHANGED <<personas, wins>>
  /\ Return(p, IF ok THEN "ok" ELSE "fail")
  /\ UNCHANGED <<pexists, pfiles, srcl, op, arg, stg, mode, todo, renamed>>

(* The PEM is written (PEM_write_DHparams of the new parameters, or fwrite *)
(* of the caller's string) and read back.  A string that does not parse   *)
(* fails new_dh_params(pem) at line 798 and stays in the file.  From      *)
(* add_persona a failure returns nullptr (lines 470-474) with the persona *)
(* on disk and not in personas; success inserts it (line 477).            *)
DhWrite(p) ==
  LET h  == arg[p]
      ok == mode[p] # "invalid"
  IN
  /\ pc[p] \in {"add_dh_write", "dh_write"}
  /\ dhp' = [dhp EXCEPT ![h] = IF ok THEN "valid" ELSE "invalid"]
  /\ IF pc[p] = "add_dh_write" /\ ok
       THEN /\ Insert(p, h, "loaded")
            /\ wins' = [wins EXCEPT ![h] = @ + 1]
       ELSE UNCHANGED <<personas, wins>>
  /\ Return(p, IF ok THEN "ok" ELSE "fail")
  /\ UNCHANGED <<pexists, pfiles, srcl, op, arg, stg, mode, todo, renamed>>

(* link(hex): open(srclink, O_RDWR|O_CREAT|O_TRUNC).  It fails when the   *)
(* persona directory does not exist.                                       *)
LinkOpen(p) ==
  /\ \E h \in PersonaId :
       /\ Call(p, "link", h)
       /\ personas[p][h] # "absent"
       /\ \/ /\ pexists[h]
             /\ pfiles' = [pfiles EXCEPT ![h] = @ \cup {"srclink"}]
             /\ srcl'   = [srcl EXCEPT ![h] = "empty"]
             /\ Running(p)
             /\ Goto(p, "link_write")
          \/ /\ ~pexists[h]
             /\ Return(p, "fail")
             /\ UNCHANGED <<pfiles, srcl>>
  /\ UNCHANGED <<pexists, dhp, personas, stg, mode, todo, renamed, wins>>

(* The two writes of the hex and the newline.                             *)
LinkWrite(p) ==
  /\ pc[p] = "link_write"
  /\ srcl' = [srcl EXCEPT ![arg[p]] = "set"]
  /\ Return(p, "ok")
  /\ UNCHANGED <<pexists, pfiles, dhp, personas, op, arg, stg, mode, todo,
                 renamed, wins>>

(* The process dies: its memory and its unfinished call are gone, the      *)
(* disk keeps what it did.  A staging directory it left is invisible.     *)
Crash(p) ==
  /\ personas' = [personas EXCEPT ![p] = [h \in PersonaId |-> "absent"]]
  /\ pc'   = [pc EXCEPT ![p] = "idle"]
  /\ op'   = [op EXCEPT ![p] = "none"]
  /\ ret'  = [ret EXCEPT ![p] = "none"]
  /\ arg'  = [arg EXCEPT ![p] = None]
  /\ stg'  = [stg EXCEPT ![p] = {}]
  /\ mode' = [mode EXCEPT ![p] = "none"]
  /\ todo' = [todo EXCEPT ![p] = {}]
  /\ renamed' = [renamed EXCEPT ![p] = FALSE]
  /\ UNCHANGED <<disk, wins>>

Next ==
  \E p \in Proc :
    \/ KsLoad(p) \/ KsLoadPersona(p) \/ KsLoadDone(p) \/ KsLoadHex(p)
    \/ AddStage(p) \/ AddConflict(p) \/ AddPublish(p)
    \/ DhStart(p) \/ DhGenFail(p) \/ DhOpen(p) \/ DhWrite(p)
    \/ LinkOpen(p) \/ LinkWrite(p) \/ Crash(p)

Spec == Init /\ [][Next]_vars


-----------------------------------------------------------------------------
(* Properties *)

TypeOK ==
  /\ pexists  \in [PersonaId -> BOOLEAN]
  /\ pfiles   \in [PersonaId -> SUBSET PFile]
  /\ dhp      \in [PersonaId -> {"empty", "valid", "invalid"}]
  /\ srcl     \in [PersonaId -> {"empty", "set"}]
  /\ personas \in [Proc -> [PersonaId -> {"absent", "loaded", "broken"}]]
  /\ pc       \in [Proc -> PC]
  /\ op       \in [Proc -> Op]
  /\ ret      \in [Proc -> {"none", "ok", "fail"}]
  /\ arg      \in [Proc -> PersonaId \cup {None}]
  /\ stg      \in [Proc -> SUBSET PFile]
  /\ mode     \in [Proc -> {"none"} \cup DhInput]
  /\ todo     \in [Proc -> SUBSET PersonaId]
  /\ renamed  \in [Proc -> BOOLEAN]
  /\ wins     \in [PersonaId -> Nat]

(* spec.md section 5: when several processes add the same persona at once, *)
(* exactly one rename succeeds and the others fail with Conflict; so at    *)
(* most one add_persona call per id ever returns the new persona, also     *)
(* across crashes and DH-parameter steps.                                   *)
OneAddWins == \A h \in PersonaId : wins[h] <= 1

(* The identity files of a persona, as PersonaAbstract sees them.          *)
IdentFiles == {"name", "pub", "priv"}

Abs == INSTANCE PersonaAbstract
         WITH pexists <- pexists,
              ident   <- [h \in PersonaId |-> pfiles[h] \cap IdentFiles]

(* add_persona publishes a persona in one rename with its public key, name *)
(* and private key, and no later call (a failed add of the same key,      *)
(* link, new_dh_params, a crash) replaces or removes any of them.          *)
PersonaIdentity == Abs!Spec

(* spec.md 4.5: readers never observe a half-constructed persona, i.e.    *)
(* every persona directory under <base> can be loaded by keystore::load.  *)
PersonaLoadable == \A h \in PersonaId : pexists[h] => Loadable(h)

(* spec.md section 5 (cancellation): operations run to completion or fail  *)
(* atomically; an add_persona that returned failure left no persona of its *)
(* own on disk.                                                            *)
AddFailsAtomically ==
  \A p \in Proc : op[p] = "add" /\ ret[p] = "fail" => ~renamed[p]

(* spec.md 4.4: keystore::load(hex) propagates persona::load's errors; a  *)
(* call that returned success put a loaded persona into the map.           *)
LoadHexPropagates ==
  \A p \in Proc :
    op[p] = "load_hex" /\ ret[p] = "ok" => personas[p][arg[p]] = "loaded"

=============================================================================
