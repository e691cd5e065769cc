# Formal models of opmsg's keystore (`src/keystore.cc`)

This directory holds TLA+ models of the opmsg keystore, TLC configurations that
model-check them, and TLAPS proofs about them. The code under study is the single
file `src/keystore.cc`. `spec.md` describes it in prose.

## 1. The system

The keystore keeps a persona's keys in a directory tree under a base directory
(`~/.opmsg`):

    <base>/<persona-hex>/              one persona (add_persona, persona::load)
        rsa|ec.pub.pem, *.priv.pem     long-term keys
        name, srclink, dhparams.pem    metadata (link, new_dh_params)
        <kex-hex>/                     one ephemeral (EC)DH "kex" key
            dh.pub.pem dh.priv.pem     written by gen_kex_key / add_dh_pubkey
            peer, used                 optional binding, used marker

Each opmsg process builds a `keystore` object that holds `persona` objects, and
each persona holds a `keys` map of `PKEYbox`es loaded from the kex
directories. There is no lock. Several opmsg processes, for example a sender and
a receiver, or two receivers, share the same tree. Their only coordination is
the staging-and-rename discipline (spec.md 4.5):
1. `mkdir_helper` makes a private `<sec>.<usec>.<pid>` directory.
2. The files are written into it.
3. `stat` and then `rename` publish the directory under its final hex name.

Deletion goes file by file. `del_dh_priv` first overwrites the private key with
zeros in 512-byte blocks (the loop at lines 1155-1158), then unlinks it.
`load_dh` drops a directory that has neither half. Such an empty directory is
left on purpose, as a tombstone against re-import (lines 592-593).

### Inventory

| Component | Code | State | Operations | Status |
|---|---|---|---|---|
| Kex-key store | `persona::load` (dh part), `load_dh`, `gen_kex_key`, `add_dh_pubkey`, `used_key`, `del_dh_id`, `del_dh_priv`, `del_dh_pub` | kex dirs and their files; contents of `dh.priv.pem`; per-process `keys`, staging dir, loop variables | 17 actions (`KexStore`), 3 failure actions (`KexFaults`) | modelled, except `persona::load(dh_hex)` for one id |
| Keystore and persona metadata | `keystore::load`, `keystore::load(hex)`, `add_persona`, `persona::load` prologue, `check_type`, `new_dh_params`, `link` | persona dirs, `dhparams.pem`, `srclink`, per-process `personas` map | 14 actions (`Keystore`) | modelled |
| PEM normalisation | `normalize_and_hexhash` | none (pure) | one call (`Normalize`) | modelled, checked and proved; `bn2hexhash` not |
| Key generation | `gen_ec`, `gen_rsa`, `gen_dh_key`, `new_dh_params()` | OpenSSL | | abstracted (`NewKexId`, `DhGenFail`) |
| Iterators, lookups | `find_persona`, `first_pers` ... `find_dh_key` | none (read-only) | | not modelled |

The hard behaviours are:
- the interleaving of several processes on one directory with no lock;
- windows between `stat` and `rename`, and between the shredding writes and the
  unlink;
- crashes that leave partly zeroed files or orphan staging directories;
- in-memory `keys` maps that go stale when another process changes the disk;
- error paths that return after part of the work is done.

`PROJECT.json` lists each hazard at its line.

## 2. Modules

* **`KexStore.tla`** models the kex-key part of one persona directory, shared by
  the processes in `Proc`.
  - Constants: `Proc` (processes), `GenId` (ids that generated keys hash to),
    `PeerKey` (ids of imported peer keys), `KeyLen` (possible sizes of a
    `dh.priv.pem`), `Blk` (the shred block, 512 in the code) and `None`.
  - Shared state: `kexists`, `files` and `priv`. `priv[k]` is the inode of
    `dh.priv.pem`: the key length, the file length, and the length of the
    zeroed prefix.
  - Per-process state: `keys` (the `persona::keys` map, with one `Box` per
    entry saying which halves are loaded), `pc`, `arg`, `stg` (the staging
    directory's files), and `off`/`size` (the loop variable `i` and
    `st.st_size` of `del_dh_priv`). `todo` holds the directory entries of
    `persona::load` that are still to be read.
  - The ghost `issued` records the ids of generated keys, so that a fresh key
    gets a fresh id.

  Each action is one atomic file-system step of a handler, together with the
  in-memory work that follows it:

  | Action | Code |
  |---|---|
  | `Start`, `LoadDone` | `opendir` / loop end of `persona::load` |
  | `LoadPub`, `LoadPriv`, `LoadPeer` | the three parts of `load_dh`, including its early `return -1` on an unparsable private key and the tombstone drop |
  | `GenStage`, `GenPublish` | `gen_kex_key` up to and after `stat`+`rename` |
  | `ImportStage`, `ImportStat`, `ImportRename` | `add_dh_pubkey` before, at `stat`, at `rename` |
  | `ShredOpen`, `ShredWrite`, `ShredUnlink` | `del_dh_priv`: `stat`+`open`, one loop iteration, the unlinks |
  | `DelDhPub`, `DelDhId`, `UsedKey` | the one-step deletions and the used marker |
  | `Crash` | a process dies: its memory goes, the disk stays |

  `GenStage` and `ImportStage` are single actions because the staging
  directory is private to its process until it is renamed. `GenPublish` has
  no failure branch: `KexInv` shows that `stat` never finds a directory for a
  freshly generated id.

  A write past the end of a file extends it (`Larger`). Zeros land at
  `[i, i+Blk)`, so the zeroed prefix becomes the maximum of the prefixes
  written by all shredders.

* **`KexAbstract.tla`** is what the directory promises to a reader.
  - A kex directory appears in one step, with all the files its creator wrote.
  - After that, files only go away, except the `used` marker.
  - A directory is removed only when it is empty.
  - An import may replace only a missing or empty directory.

  `KexStore` implements it through `Abs == INSTANCE KexAbstract`: kexists and
  files map to themselves, and staging directories and memory are hidden.
* **`KexFaults.tla`** extends `KexStore` with two failing system calls whose
  result the code does not act on. It adds a ghost `unshredded`, the ids
  whose `dh.priv.pem` was unlinked with key bytes left, and `fpos`, the file
  offset of the descriptor `del_dh_priv` writes through. In `KexStore` the
  loop counter `i` (`off`) stands for that offset; a failed write separates
  the two:
  - `FShredOpen`, `FShredWrite`: the open sets the offset to 0, and a
    successful write zeroes the block at the offset and advances both;
  - `ShredWriteFail`: a `write` of the zeroing loop (line 1156) fails; `i`
    advances, the offset does not, and nothing is zeroed;
  - `FShredUnlink`: `ShredUnlink`, recording an unlink of an unzeroed key;
  - `GenRenameFail`: `rename` of `gen_kex_key` (line 959) fails and the
    cleanup unlinks the staged `dh.priv.pem` (line 961).
  The constants `WriteMayFail` and `RenameMayFail` switch each fault on.
* **`Keystore.tla`** models the persona level, shared by the processes in `Proc`.
  - Constants: `PersonaId`, `RsaId` (the RSA ones; a persona's type is fixed
    by its id, which hashes its public key), `DhInput` (the `dhparams_pem`
    argument: `"new"`, a valid or an invalid PEM), `None`.
  - Shared state: `pexists`, `pfiles` (name, pub, priv, srclink, dhparams),
    `dhp` (`dhparams.pem`: empty, valid or invalid) and `srcl`.
  - Per-process state: `personas` (absent, loaded, or inserted after a failed
    load: broken), `pc`, `op`/`ret` (the call and its result), `arg`, `stg`,
    `mode`, `todo`. Ghosts: `renamed` (the current add has renamed) and `wins`
    (adds of an id that returned a persona).
  - `Loadable(h)` is `persona::load`'s success: `check_type` finds the public
    key, and an RSA persona's existing `dhparams.pem` parses.

  | Action | Code |
  |---|---|
  | `KsLoad`, `KsLoadPersona`, `KsLoadDone` | `keystore::load()`: opendir, one entry (skipped when its load fails), end |
  | `KsLoadHex` | `keystore::load(hex)`: inserts the persona whatever `load` returned |
  | `AddStage`, `AddConflict`, `AddPublish` | `add_persona`: staging, failed rename with cleanup, rename and insertion |
  | `DhStart`, `DhGenFail`, `DhOpen`, `DhWrite` | `new_dh_params(pem)`/`new_dh_params()`, also from `add_persona` after its rename: generation failure, the truncating `open`, the write and read-back |
  | `LinkOpen`, `LinkWrite` | `link`: truncating `open`, the writes |
  | `Crash` | a process dies |
* **`PersonaAbstract.tla`**: a persona appears in one step with its public key
  and, maybe, its name and private key, and these never change. `Keystore`
  implements it with `ident <- [h |-> pfiles[h] \cap IdentFiles]`.
* **`Normalize.tla`** models `normalize_and_hexhash` over strings of a small
  alphabet with model markers that, like the real
  `-----BEGIN PUBLIC KEY-----`, start and end with the same characters, so one
  occurrence can overlap another. `Find` is `std::string::find`. The digest is
  an injective function of the canonical string, so the model returns the
  string itself. `SpecNormalize` is spec.md 4.2 read literally.
* **`KexStoreProofs.tla`**, **`KexRefinement.tla`**, **`KeystoreProofs.tla`**,
  **`NormalizeProofs.tla`** hold the TLAPS proofs.
* **`MC_*.tla`** instantiate the modules for TLC.

## 3. Runs

| Run | Config | Expect | Properties |
|---|---|---|---|
| `kex_store` | `MC_KexStore.cfg` | pass | `KexInv`, `ShredBeforeUnlink`, `AtomicPublish` |
| `kex_tombstone` | `MC_KexTombstone.cfg` | violation | `TombstoneBlocksReimport` |
| `kex_live` | `MC_KexLive.cfg` | pass | `CallsReturn` |
| `kex_shred_fail` | `MC_KexShredFail.cfg` | violation | `NoUnshreddedUnlink` |
| `kex_rename_fail` | `MC_KexRenameFail.cfg` | violation | `NoUnshreddedUnlink` |
| `keystore` | `MC_Keystore.cfg` | pass | `TypeOK`, `OneAddWins`, `PersonaIdentity` |
| `ks_half_persona` | `MC_KsPersonaLoadable.cfg` | violation | `PersonaLoadable` |
| `ks_add_atomic` | `MC_KsAddFailsAtomically.cfg` | violation | `AddFailsAtomically` |
| `ks_load_hex` | `MC_KsLoadHexPropagates.cfg` | violation | `LoadHexPropagates` |
| `normalize` | `MC_Normalize.cfg` | pass | `Idempotent`, `TrailingStable`, `AgreesWithSpec` |
| `normalize_frame` | `MC_NormalizeFrame.cfg` | violation | `OneBeginFrame` |

**Kex store.**
* `KexInv` is the shredding invariant; it includes the type invariant
  `TypeOK`, which the run therefore does not list again. `ShredBeforeUnlink`
  is the action property it yields: every step that removes `priv` from a directory has
  `zero >= keyLen`. Together they show that the shredding of `del_dh_priv`
  zeroes the whole key when two processes shred the same key at once, when
  one unlinks while the other still writes, when a crash cut a shred short,
  and when `st_size` is not a multiple of the block size.
* `AtomicPublish` checks that `KexStore` refines `KexAbstract`.
* `TombstoneBlocksReimport` fails. Two processes import the same peer key and
  both pass `stat` before either renames. The first renames, `del_dh_pub`
  leaves the tombstone, and the second `rename` replaces that empty
  directory: the deleted key is back (code bug at line 1100).
* `CallsReturn`: every call that has begun (the load loop, a publication, the
  shredding loop) gets back to `idle`, or the process dies. The run has no
  peer keys, so `add_dh_pubkey` is outside it.
* `NoUnshreddedUnlink` fails in both fault runs: with a failing `write`, the
  loop runs to its end without zeroing and the file is unlinked; with a
  failing `rename`, the cleanup unlinks the staged private key. Both go
  against spec.md section 5 ("MUST overwrite private-key files before
  unlinking").

**Keystore.**
* `OneAddWins`: of all `add_persona` calls for one id, at most one returns a
  persona, also with crashes and with the DH step.
* `PersonaIdentity`: `Keystore` refines `PersonaAbstract`; the failing rename's
  cleanup touches only the staging directory, and no later call rewrites an
  identity file.
* `PersonaLoadable` fails: `add_persona` renames first and then truncates and
  writes `dhparams.pem`, so an RSA persona is visible with an empty (and,
  after a crash or an invalid PEM, a lasting empty or invalid) `dhparams.pem`,
  and `persona::load` fails for it. spec.md section 8 (atomic publish) and S1
  count `dhparams.pem` among the files the creating call publishes.
* `AddFailsAtomically` fails: `add_persona` can return failure after its
  rename (lines 470-474).
* `LoadHexPropagates` fails: `keystore::load(hex)` returns 0 for an id with no
  directory (line 168), where spec.md 4.4 propagates the error.

**Normalisation.** Over every string of up to 8 characters of
`{"-","B","E","\n"}`, with markers `-B-` and `-E-`, and up to 2 characters of
appended garbage: the canonical form is a fixed point (`Idempotent`), garbage
after the key does not change the id (`TrailingStable`), and the code equals
spec.md 4.2 except when the second BEGIN overlaps the first (`AgreesWithSpec`).
`OneBeginFrame` fails on `-B-B-E-`: the code accepts a blob with two BEGIN
markers (line 121).

**Bounds.**
- Two processes everywhere, since every race here is between two.
- Kex store: one generated and one imported id; key lengths {2, 3} and block
  size 2, so that one length is a multiple of the block and one is not, and a
  shredder can meet a file whose size differs from the one another process
  saw. Processes are symmetric. About 1.03 million distinct states.
- `kex_live`: no symmetry (liveness checking does not admit it), no peer key
  and the single key length 3 (a loop of two iterations whose last write
  passes the end of the file). About 18,000 states; with a peer key the graph
  has over 1.3 million states and the check takes more than five minutes.
- Keystore: one RSA persona id, with all three `DhInput`s. A second id makes
  the state space grow past 30 million states; an EC persona runs the same
  steps as an RSA one without the DH step. About 1.08 million states.
- Normalisation: markers of length 3 can overlap by one character, as the
  real ones overlap by five; 8 characters fit two overlapping markers and an
  END marker with garbage around them. 174,762 inputs.

**Fairness.** `FairSpec` assumes weak fairness for `InCall(p)`, the steps a
process takes inside a call after it has begun: the loops of `persona::load`
and `del_dh_priv`, the `stat`/`rename` of `gen_kex_key` and `add_dh_pubkey`.
None of them waits on a lock or on another process, so a process that keeps
running takes them. Starting a call and crashing are the environment's and
get no fairness.

**Mutants.** Each property of a passing run is broken by a plausible bug:
- `ShredWrite` always writing at offset 0 breaks `KexInv`;
- `ShredUnlink` stopping one block early breaks `ShredBeforeUnlink`;
- `GenStage` staging only the public half breaks `AtomicPublish`;
- `ShredWrite` not advancing `i` breaks `CallsReturn`;
- `DhWrite` writing `"new"` verbatim breaks `TypeOK` (keystore);
- `AddConflict` going on as if the rename had worked breaks `OneAddWins`;
- `AddConflict` cleaning up under the final directory breaks `PersonaIdentity`;
- no truncation after END breaks `Idempotent`, the last END instead of the
  first breaks `TrailingStable`, and a search for a second BEGIN one
  position late breaks `AgreesWithSpec`.

## 4. Proofs (checked by `tlapm`)

The proofs assume only `ConstAssumption`:
- `Blk` is a positive natural;
- key lengths are positive;
- generated and imported ids are disjoint.

They hold for every number of processes and ids.

* `KexInvInit`, `KexInvNext`: `KexInv` is an inductive invariant. `KexInv`
  strengthens the type invariant with:
  - `DirInv`: a missing directory has no files, and a directory of a
    generated id exists only once the id has been issued;
  - `PrivInv`: a linked `dh.priv.pem` belongs to an issued key and is at
    least as long as the key;
  - `GenInv`: a process about to publish holds a fresh id that no other
    publisher holds, and whose directory does not exist;
  - `ImpInv`: an import works on a peer id and never stages a private key;
  - `ShredInv`: a shredder's key was issued, its `size` is at least the key
    length, the zeroed prefix reaches its offset, and no process is about to
    publish that key;
  - `LoadInv`: a loader in `load_dh` has a box for its key.

  `ShredBeforeUnlink` needs `ShredInv`. `ShredInv` in turn needs `GenInv`
  and `DirInv`: the renames that set `files` only land where nothing, or
  nothing with a private key, was. `PrivInv` makes the size a shredder reads
  large enough. The proof has one step per action and, under it, one step per
  conjunct that the action can disturb.
* `InvariantHolds`: `Spec => []KexInv`, type correctness included
  (`TypeCorrect` states that conjunct on its own).
* `ShredSafe`: `Spec => ShredBeforeUnlink`. It rests on `ShredStepNext`,
  which says that every `Next` step from a `KexInv` state satisfies the
  shredding step condition.

`KeystoreProofs.tla` assumes `KsAssumption` (RSA ids are persona ids, the
DH inputs are the three kinds, `None` is not an id) and proves, for every
number of processes and ids:
* `KsInvInit`, `KsInvNext`: `KsInv == TypeOK /\ AddInv /\ StgInv` is
  inductive. `AddInv` says that an id whose directory is missing has no win,
  that a process past its rename (`Post`) works on an existing directory that
  has no win yet and is the only one there, and that a busy process has an
  id. `StgInv` says that staged files are identity files with the public key.
  `OneAddWins` needs `AddInv`: a win happens only at a rename or at the DH
  step after it, and the rename succeeds for one process only.
* `KsTypeCorrect`: `Spec => []TypeOK`; `AddOnce`: `Spec => []OneAddWins`.
* `IdentityRefined`: `Spec => PersonaIdentity`. Every `Next` step from a
  `KsInv` state is a `Create` of the mapped state or leaves it unchanged;
  `StgInv` makes the published files a valid `Create`.

`KexRefinement.tla` proves `KexRefined`: `Spec => AtomicPublish`, for every
number of processes and ids, under `ConstAssumption`. The inductive invariant
is `RInv == KexInv /\ StageInv`. `StageInv` says what a process holds in its
staging directory when it is about to rename it: `gen_kex_key` has staged a
complete key, with or without a peer binding, and `add_dh_pubkey` a public key
alone. Each step is then matched with one abstract step on the directory:
- `GenPublish` is `Generate`: `GenInv` gives a fresh id with no directory,
  and `StageInv` a complete key.
- `ImportRename` is `Import`, or a stutter when the rename fails.
- `ShredUnlink`, `DelDhPub` and the unlink of `UsedKey` are `Unlink`.
- The create of `UsedKey` is `MarkUsed`.
- `DelDhId` is `Rmdir`, or a stutter when `rmdir` fails.
- Every other step leaves `kexists` and `files` alone.

`NormalizeProofs.tla` proves the three properties of the `normalize` run.
They hold for every alphabet, every input length, every garbage length, and
every pair of markers that satisfies `NormAssumption` and `MarkerAssumption`.
`MarkerAssumption` states two facts of the real markers:
- `-----END PUBLIC KEY-----` does not occur inside `-----BEGIN PUBLIC KEY-----`;
- BEGIN does not end with the newline that line 128 appends.
- `AgreesWithSpecProved`: `Spec => []AgreesWithSpec`.
- `IdempotentProved`: `Spec => []Idempotent`.
- `TrailingStableProved`: `Spec => []TrailingStable`.
The invariant is `NInv`: the input is a string, and a returned result is
`NormalizeAndHexhash(input)`. With it, each property becomes a fact about one
call, with no induction over strings. `Find` is a `CHOOSE` of the least match,
not a recursion, so the proofs work with these lemmas:
- the `Find` lemmas: the least match, no match, no match after the first,
  and `FindExtend`, which says a match found in `x` is found at the same
  place in `x \o y`;
- `Occurs`, a pointwise statement that a marker occurs at a position;
- `CanonShape`: the length and characters of the canonical form
  `SubSeq(u, 1, len) \o NL`.
On top of these lemmas:
- `NormAgrees` compares the code with `SpecNormalize`.
- `NormIdem` argues as follows. In a canonical form, BEGIN is at position 1
  and nothing after it starts another BEGIN. END can only be at the same
  place, because it is not inside BEGIN. The final newline is never part of
  a marker match.
- `NormTrailing` uses `RestAppend`. Appended garbage does not move BEGIN. It
  also does not move the first END, and it leaves the prefix the code keeps
  unchanged. The only new outcome is the rejection of a second BEGIN.

Only model-checked:
- the liveness property `CallsReturn`, because TLAPS cannot reason about
  liveness or `ENABLED`;
- the violated properties, because they are refuted, not proved.

## 5. Not modelled, and why

- **File contents, PEM parsing and crypto.** They are reduced to whether a
  half exists, the zeroed prefix of a private key, and valid/invalid
  `dhparams.pem`.
- **Key hashing.** Ids are model values; hash collisions are not modelled.
  `bn2hexhash` formats a bignum and is not modelled.
- **The `peer` file's content, the `name` content, error strings, `errno`,
  and the reserved ids `rsa_kex_id`/`ec_kex_id`.** These are early returns or
  data that change no state a property distinguishes.
- **The content of orphaned staging directories.** A crash after staging
  leaves private-key bytes there, never unlinked; no property tracks them.
- **`persona::load(dh_hex)` for a single kex id** (lines 744-749): it loads
  one directory with `load_dh`, which `LoadPub`/`LoadPriv`/`LoadPeer` already
  model.
- **Read-only lookups and iterators**: they change no state.
- **Short writes** other than the failed shredding write: `add_persona`'s and
  `link`'s writes are unchecked too, but a partial `name` or `srclink`
  affects no property here.
