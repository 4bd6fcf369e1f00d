# Wuci-Ji in TLA+

Specifications of the parts of this repository that keep state and share it,
model-checked with TLC and, for the invariants that matter most, proved with
TLAPS. Paths below are relative to the repository root.

## The system

Wuci-Ji is a family of tools that seal artifacts and keep evidence about them.
Most of it is small sequential programs around files. What can go wrong beyond
the reach of a unit test sits where several of them, or several requests, meet
at the same store.

| component | state | operations | interacts with | hard behaviour |
|---|---|---|---|---|
| Bottle Worker (`apps/bottle/worker/index.ts`) | none of its own; two KV keys per bottle | POST a bottle, list an inbox page, serve evidence | the browser client; Workers KV; the rate limiters | capacity is check-then-act, two writes without a transaction, best-effort rollback, lagging reads, isolates that die |
| Bottle client, Open Bottles (`apps/bottle/src/ui/OpenBottles.ts`, `src/api/client.ts`) | selected key record, cursor and its owner | select, submit, receive a page | the Worker's listing | paging while the inbox changes, failed pages, empty pages |
| Bottle client, the page (`main.ts`, `ui/navigationGuard.ts`, `ui/CreateIdentity.ts`, `ui/DropBottle.ts`, `ui/OpenBottles.ts`) | current view, activation counter, guard, ceremony of a new identity, form contents | navigate, generate, verify a backup, drop, import an identity | the Worker's POST | late answers after navigation, private material in left views, resubmission |
| Bastion ledger (`daylight/v18-bastion/src`) | one file: a genesis line and chained entries | init, append, verify, tamper-check; propose and sign transitions | v19 capsules read the file | unlocked read-modify-write, truncation before writing, crashes, duplicates |
| Aperture capsule (`daylight/v19-aperture-bastion/src`) | a capsule file | pack, verify evidence references | reads vectors, ledger, scorecards | accepts what the source's own verifier refuses |
| Aperture Singularity (`daylight/v20-aperture-singularity/src`) | none | audit evidence, verify attestations | reads capsules | pure decisions |
| Meridian vault (`daylight/v15-meridian/src/vault.py`, `envelope.py`) | config, key, evidence, sealed store, index | init, seal, open, auto-seal, status | evidence ledger and scoring | store and index written apart, re-seal overwrites, forced re-init, deletion of originals, no locks |
| Artifact ledger (`tools/wuci_ledger.py`) | a directory: a file per entry and per head, copies of the latest, a lock file | init, append, verify history, prove and verify inclusion and consistency | gates, witnesses, install | tree shapes at powers of two, crashes between files, forced init under a lock, readers without one |
| Install and audit (`tools/wuci_install.py`) | installed files, receipt, proofs | install, audit, bootstrap | the checkout, make, gates, ledger | many files replaced one after the other, no lock, a checkout that changes meanwhile |
| Gate, Warrant, Witness (`src/gate_contract.s`, `tools/wuci_warrant.zig`, `tools/wuci_witness.py`) | none | check a contract, write a bundle | artifacts | text contracts, sequential |
| FROST workflow (`tools/frost_secp256k1_workflow.py`, `tools/wuci_frost_authorize.py`) | nonce and share files | commit, sign, aggregate | gates | nonce reuse across runs |
| Assembly core (`src/*.s`) | buffers | seal, open, hash, sign | every tool | arithmetic at word level |
| Consoles and OS tooling (`tools/wuci_os.py`, `wucios/`) | files of builds | wrappers | everything | sequential |
| Rust crates (`daylight-equation/`, `penumbra/`) | none | functions | - | numeric |

What makes each correct:

- **Worker.** A drop answered 201 can be listed, and its evidence fetched, until
  the expiry in its answer. A listed bottle has evidence. Inboxes do not grow
  without bound. A refused drop leaves nothing. Every request gets an answer and
  a full inbox has room again one day.
- **Open Bottles.** A walk from the first page to the last returns every bottle
  that was there all the time, and none twice.
- **Bastion ledger.** A ledger that verifies is one that commands composed; an
  appended transition stays; a changed vector is accepted only with a signed
  and logged transition for exactly this change.
- **Vault.** What was sealed can be opened with the same key and evidence; the
  original is deleted only when it can; the index names what the store holds.
- **Page.** A private identity is in memory only where leaving asks first; a
  public record is exported only after its backup was checked; a message goes to
  the key that was confirmed.
- **Artifact ledger.** A published head stays the root of the entries on disk; a
  ledger at rest verifies and takes the next append; an accepted proof means
  inclusion, or a prefix.
- **Install.** What is installed was signed, and what audit accepts is one
  release, not a mixture of two.

## Modules

| module | models |
|---|---|
| `BottleInbox` | what the Bottle service promises, without a store: a bottle gets its receipt, is placed in an inbox, is accepted or declined, and lapses |
| `BottleWorker` | `handleDropBottle` and `createKvBottleStorage`, over a KV store that lags, fails and expires keys; refines `BottleInbox` |
| `BottleWalk` | extends `BottleWorker` with views that page through an inbox: `OpenBottles`, `listBottlePage`, `handleListBottles` |
| `BastionLedger` | transitions, the ledger file and the commands on it, both verifiers, tamper-check |
| `MeridianVault` | the vault directory and the commands on it: init, seal, autoseal, open |
| `BottlePage` | the page in the browser: `main.ts`, the navigation guard, the identity ceremony, the Drop form, identity imports of the Open form |
| `MerkleTree` | roots, inclusion and consistency proofs and their checks, of `wuci_ledger.py` |
| `PublishedLog` | what the artifact ledger promises, without files: a log that grows by one asked-for bundle at a time |
| `ArtifactLedger` | the ledger directory and the commands on it, over `MerkleTree`; refines `PublishedLog` |
| `Installer` | install, bootstrap and audit, with the checkout they copy from |
| `BottleWorkerProofs` (with `BottleWalk`), `BottlePageProofs`, `BastionLedgerProofs`, `MeridianVaultProofs`, `MerkleTreeProofs`, `ArtifactLedgerProofs`, `InstallerProofs` | the theorems |
| `Recursion` | a theorem about recursive functions, for `MerkleTreeProofs` |
| `MCBottleWorker`, `MCBottleWalk`, `MCBottlePage`, `MCBastionLedger`, `MCMeridianVault`, `MCArtifactLedger`, `MCInstaller` | instances for TLC |

An operator whose name extends that of another (`HasRecipientCapacityAtLimit`,
marked *Mutant*) is that definition with a plausible mistake in it. No
specification uses it; substituting it for the original must break the property
it is meant for, which shows that the property depends on that piece of code.

### BottleWorker

A drop and the bottle it stores share a name. `pc[d]` is the await the handler
of drop `d` is suspended at; one action is the code between two awaits:

| action | code |
|---|---|
| `Receive` | `handleRequest` captures `now` |
| `RefuseBody`, `RefuseRecipient`, `RefuseRate`, `Admit` | `readJsonRequest`, `parseDropBottleRequest`, `assertActiveKeyringRecipient`, `enforceDropRateLimit` |
| `CheckCapacity` | `hasRecipientCapacity`: one KV listing, from either copy, limited to the capacity |
| `PutId`, `PutRcpt` | the two writes of `put` |
| `PutIdFails`, `PutRcptFails` | a write throws; it may have taken effect |
| `Delete`, `DeleteFails` | `bestEffortDelete`, two deletes in parallel, failures swallowed |
| `Respond`, `LookupFails`, `Kill` | 201; 500 before any write; the isolate dies |
| `SyncId`, `SyncIndex`, `ExpireId`, `ExpireIndex`, `Tick` | Workers KV and time (external) |

The store is an authoritative copy (`ids`, `index`) and one location that lags
(`idsSeen`, `indexSeen`). Listings may return short pages, also an empty one
that is not the last. Expiration is in
whole seconds: a second is `TicksPerSecond` ticks, so rounding is visible.
What is abstracted: ciphertexts, digests and headers; every way to refuse a drop
before storage is one outcome, `refused`. A deployed Worker keeps no memory
between requests, so a restart is a `Kill` of what is in flight.

### BottleWalk

`vpc[v]` is where a view's page request is: `ListPage` and `GetValues` are the
two reads of the Worker, `ReceivePage` the answer in the browser, `PageFails`
any failure of it. A cursor stands for the last key of its page. A page
without keys that is not the last has none: it leaves the walk where it was, which
is what `PageFails` does. `steady[v]`
and `opened[v]` are history: what was listed in both copies when the walk began
and what the walk has returned.

### BottlePage

The browser runs one handler at a time, so a step is a handler up to its next
`await`, or what follows an `await`. Each activation of a view (`activationId`)
has a form of its own, in `create[a]`, `drop[a]` or `open[a]`: the views left
behind are no longer shown, but what they await goes on.

| actions | code |
|---|---|
| `ClickLink`, `ChangeHash`, `HashChanged`, `MayLeave` | the link and `hashchange` listeners, `activateView`, `confirmNavigationAway` |
| `Generate`, `Generated`, `Fingerprinted` | the submit of `CreateIdentity.ts` and what follows its two awaits |
| `ChooseBackup`, `BackupChecked`, `StartOver` | the check of the saved file; the restart of the ceremony |
| `Loaded`, `Retry` | `loadRecipients`, `loadKeyRecords`; the end of the rendering in `activateView` |
| `SelectRecipient`, `TickConfirmation`, `WriteMessage`, `SubmitDrop`, `Encrypted`, `Received`, `NotReceived` | the Drop form's listeners; encryption and upload |
| `SelectRecord`, `TypeIdentity`, `ChooseIdentityFile`, `IdentityFileRead`, `SubmitOpen`, `OpenEnds` | the Open form's listeners; the reading of a file |

A ceremony's `revision` is `ceremonyRevision`; a late result carries the one it
was started under. Which controls are enabled is state (`submit`, `unlocked`,
`startOver`, `backup`), because `clearActiveCeremony` changes the phase without
updating them. Identities are numbered; a saved file is the right one or not; a
message is a number; an upload's bottle may be stored although no receipt is
shown. Opened bottles and paging are in `BottleWalk`.

### BastionLedger

Digests are taken to be collision free, so a digest is what it covers. A
transition is its body (before and after vector, changed fields, flags) and its
proof, here the passphrase it was signed under. A head is the sequence of
transitions that leads to it. A command process is at one of three places:
`idle`, `loaded` (it has read and verified the file and composed what it will
write, `draft`) and `opened` (`write_bytes` has truncated the file). Two commands
that both have it open write over each other from the start (`Overlaid`); a
command that dies leaves some prefix of its lines (`DieOpened`). `composed`,
`acked` and `disturbed` are history.

The tamper-check modelled is the one with a transition and a ledger; the legacy
digest-marker mode, which never reports acceptance, is left out, as is the
measurement of vectors, which are constants here. An entry is its transition, so what the aperture does not
recompute of it (`evidence_refs.py:86-101`: the entry's digest, the version of the
genesis record) cannot differ from it here.

### MeridianVault

`_write_private` replaces a file atomically and no command takes a lock, so a
step is one read or one replacement of one file:

| steps of a command | code |
|---|---|
| init: `StartInit`, `MakeDirs`, `CopyLedger`, `CopyCorpus`, `WriteKey`, `WriteConfig` | `init_vault`: checks, directories, then four files with the configuration last |
| seal: `StartSeal`, `ReadSource`, `ReadKey`, `ReadEvidence`, `WriteStore`, `LoadIndex`, `SaveIndex`, `Overwrite`, `Unlink` | `seal_file`, `seal_bytes`, `seal` |
| autoseal: `StartAutoseal`, `NextFile`, then as a seal for each file | `autoseal`, under the configuration loaded at the start |
| open: `StartOpen`, `ReadEnvelope`, `ReadOpenKey`, `OpenEnvelope`, `Restore` | `open_file`, `open_bytes`, `open_envelope` |
| `Refuse`, `Die`, `Edit` | a step raises; the process dies; the user writes a file (the last two external) |

`job[p]` is what the command has in memory, which may be stale by the time it is
used. An envelope is its text, its key and its authorisation tag, and the tag is
what it covers: ledger, corpus, policy. Salts and random keys are numbered by the
init that drew them; the nonce is left out. Which evidence satisfies which policy
is the constant `Authorized`. Ledger and corpus are read in one step by a seal
(`ReadEvidence`) because `seal` derives the scorecard twice and refuses when the
two differ. Everything the code reads that may have been replaced since is read
at its own step.

Five variables are history. `clean` holds the commands nothing has interfered
with: for a seal, no other command on its file or name, no edit of its file and
no init; for an init, no other init. `wiped[n]` is the text whose only copy is
now the entry `n`. `stale`, `raced` and `mixed` record a death between envelope
and index, two overlapping updates of the index, and inits that overlapped or
died. They are the exceptions of the properties, each of which is there because
the code really fails without it.

Left out: wrong passphrases, refused symlinks and hard links, writes that fail,
names that do not validate, and what the index records besides the digest.
`status` and `list` change nothing.

### MerkleTree and ArtifactLedger

Hashes are ideal: a leaf's hash is the leaf, a node's the pair of its children, so
two hashes are equal only when what was hashed is. Roots and paths are recursive
functions over sequences of entries, those with several arguments functions of one
argument after the other; the two checks follow a path from its end, as the code
does, and `NoHash`, which is no hash of anything, is where the code raises.

The directory is `entries`, `heads`, three copies and `lock`. A step is one read,
one listing or one write of one file:

| steps of a command | code |
|---|---|
| init: `StartInit` or `StartForcedInit`, `CheckEmpty`, `MakeDirs`, `WriteEmptyHead`, `WriteNumberedEmptyHead` | `run_init`, which takes no lock |
| append: `TakeLock`, `ReadHead`, `ListEntries`, `WriteEntry`, `ReplaceLatestEntry`, `ComputeRoot`, `ReplacePrevious`, `ReplaceLatest`, `WriteNumbered`, `Unlock` | `run_append` and `LedgerLock` |
| verify-history: `StartVerify`, `VerifyHead`, `VerifyEntries`, `VerifyHeads`, `VerifyPrevious`, `VerifyLatestEntry` | `run_verify_history`, without a lock |
| proofs: `StartProveInclusion`, `InclusionHead`, `ProveInclusion`, `ProveConsistency` | `run_prove_inclusion`, `run_prove_consistency` |
| `Fail`, `Die`, `TornFiles` | a step raises, and an append leaves through its lock's exit; a command is killed and leaves the lock; a file being created may be left torn (external) |

The removal of the directory by a forced init is one step. A torn file is left by a
step that raises or a command that is killed; that `os.write` could write less than
it was given and say so only in the result nobody reads (`wuci_safeio.py:361`) is
left out. `published`,
`forced` and `disturbed` are history. The refinement of `PublishedLog` takes the log
to be the bundles under the latest head, no log where there is none or a torn one, and
an append to want its bundle from the taking of the lock until it replaces that head:
`ReplaceLatest` is the only step that publishes, whatever entry files a dead append
has left. Of a ledger that was removed nothing is promised. Reading the model against the code shows what
the lock is for: without its exclusivity the checked properties still hold, since
entry files are created exclusively and so serialise appends. And it shows what a
fault costs: an append that dies after its entry file leaves a ledger that refuses
every further append, although what was published stays covered; one that dies
between `latest_head` and `heads/<n>` leaves a ledger whose history never verifies
again, while appends go on. That a lock left behind blocks appends is intended
(`tests/wuci_ledger_mutation_hardening.py:145-148`). A consistency proof can be
made only while its second head is the latest one.

### Installer

The checkout (`source`, `built`, `proofs`) can be pulled, made or cleaned at any
moment; `prefix` is what is installed; `receipt` is written last. A file's content
is the release it is of.

| steps | code |
|---|---|
| `StartInstall`, `StartBootstrap`, `VerifyManifest`, `VerifyDigest`, `MakeAttestations`, `MakeLedger` | `run_install`, `run_bootstrap`, `perform_install`, and the Makefile targets it runs |
| `ReadCandidate`, `InstallBinary` to `InstallSidecar`, `InstallCage`, `InstallQcage` | `install_files`, one file a step |
| `CopyFile`, `EndBundle`, `EndLedger`, `WriteReceipt` | `copy_tree_regular` file by file, `proof_hashes` of the checkout's files, the receipt |
| `Update`, `Make`, `Clean`, `Stop` | git, make, and an install that fails or is killed (external) |

`audit` changes nothing and is the predicate `AuditPasses`. `mixed`, `fresh` and
`begun` are history: whether anything overlapped, whether the last install finished
alone, and how many have begun to write since the last that finished. What no
check of the code reads again (tools, the audit command, policies, the CAGE ledger
entry and leaf) is left out. Two steps take several reads together: `VerifyManifest`
the key, the manifest and its signature, after the make that builds a missing
binary, and `EndLedger` the four hashes of `proof_hashes`. A pull or make between
those reads is an overlap, which `AuditedIsOneRelease` and `FinishedInstallPasses`
except. The audit is the installed tool's, which takes the key of the prefix; one
started from a checkout takes the checkout's.

## Runs

| run | bounds | shows |
|---|---|---|
| `bottle_drops` | 3 drops, capacity 1, 2 ticks a second, 2 faults | types; what is accepted stays; overshoot is bounded; leftovers are paid for by faults; refinement of `BottleInbox` |
| `bottle_live` | 2 drops to one recipient that may overlap, capacity 1, 3 faults, arrivals until after the first expiry, fair | every drop is settled, a rolled-back one with the error; a full inbox drains |
| `bottle_walk` | 3 bottles, pages of 1, 2 recipients, one view, no faults | complete and duplicate-free walks |
| `bottle_failed_drop_listed` | 2 drops, 2 faults | finding 1 |
| `bastion_ledger` | 2 commands at a time, 5 in all, 1 crash, 4 signed transitions | ledger invariants |
| `bastion_duplicate` | 1 command at a time | finding 2 |
| `bastion_overlap` | 2 commands at a time, no crash | finding 3 |
| `meridian_vault` | 2 processes, 3 commands or edits, 1 death, 2 files, 1 given name, 2 texts, 2 ledgers, 2 corpora, 2 policies | completeness, index and store, openability of new vaults and of removed originals |
| `meridian_index` | the same, no death | finding 4 |
| `artifact_ledger` | 2 processes, 3 commands, 2 faults, 2 bundles, up to 5 entries, starting from none, one or four | append-only; a quiet ledger verifies; verdicts hold; both kinds of proofs mean what they say; refinement of `PublishedLog` |
| `install` | 2 processes, 3 installs, 2 stops, 2 changes of the checkout, 2 releases and a development tree | only signed binaries; what audit accepts; when a finished install passes |
| `bottle_page` | 3 activations, 2 ceremonies, 1 message, 2 uploads, 2 identities imported or typed, 2 keys | guarded identities; checked exports; truthful busy state; confirmed recipients; duplicates only unseen |

Why these bounds are enough: the capacity race needs two drops between a check
and a write, and a third shows what the next check sees. Two faults make a write
fail and its rollback fail, the deepest error path of `put`. `bottle_live` has a third, for the other delete: one drop fails
with both keys left, fills the inbox of capacity one and refuses the other; or both
get in, past the capacity; or the other arrives as the leftover expires (drops expire
two ticks after they arrive, and arrive until tick three) and fills the inbox anew.
Two ticks a second
and an odd arrival time separate rounding up from rounding down. A walk of three
bottles in pages of one has a first, a middle and a last page, each of which can
expire, be short, or fail and be asked for again; writes that fail are the
business of the other runs, so `bottle_walk` has none. In the ledger, five
commands are an init and two appends that race, and an init or append that finds
what they left; one crash suffices to tear a file. Three vault commands are an
init and two seals, or two inits and a seal, in any overlap; two ledgers and two
corpora that do not go together make a half-replaced vault visible, and two
policies tell a stale policy from a fresh one. In the artifact ledger, a third
command finds what two overlapping ones, or one that failed or died, have left; trees of four and
five entries are the first whose consistency paths have siblings on both sides and
whose split is not in the middle. Three installs are one that finished and two
interrupted ones of different releases, or one that repairs them; the second
release lacks a file of the first, so that a leftover is seen, and the development
tree has another key and a binary no manifest names. Three activations are a view
with something in flight, another, and the first again; two ceremonies let a late
result meet a newer ceremony; two uploads let a message be stored twice. Commands,
processes, keys, and recipients in the walk, are only compared for equality and are
declared symmetric. Deadlock is
not checked: all these systems may stop when there is nothing more to do (no
request left, the clock at its bound, no command left).

Bounds appear as constants named in the modules: `Window`, `MaxLatency`,
`LastArrival`, `MaxClock` and `MaxFaults` for the Worker, `MaxCommands` and
`MaxCrashes` for the Bastion ledger, `MaxCommands` and `MaxDeaths` for the vault,
`MaxSize`, `MaxCommands` and `MaxFaults` for the artifact ledger, `MaxInstalls`,
`MaxChanges` and `MaxStops` for the installer, `MaxActivations`, `MaxIdentities`,
`MaxMessages`, `MaxUploads` and `MaxImports` for the page. `Window` is more than a bound: how many drops a
capacity check can miss is what `OvershootBounded` is stated in. `MaxLatency`
says a request is over before its bottle expires, which thirty days justify.

## Fairness

`FairSpec` has weak fairness of each handler's next step (the runtime resumes a
promise that has settled), of the store's replication and expiry of each key,
and of time. Nothing obliges a request to arrive, a fault to happen or not to
happen, or a view to ask for a page. Without fairness of expiry an inbox stays
full; KV documents that expired keys are removed, and the code relies on it.

## Findings

1. **A failed drop can stay listed** (`bottle_failed_drop_listed`). If the write
   of the recipient key takes effect but throws, and its delete fails, a drop
   answered 500 is listed until it expires. The test of this name
   (`apps/bottle/worker/index.test.ts:585`) has a store whose throwing writes
   never take effect. What does hold, and is checked: it takes two faults
   (`LeftoversNeedFaults`).
2. **An append can invalidate the ledger** (`bastion_duplicate`).
   `append_transition` does not check the new entry against the ledger:
   appending a transition again, or the same body signed under another
   passphrase, succeeds, and the ledger violates its own validity rule from then
   on. `RepairableAtTip` is what remains: removing the last entry repairs it.
3. **Overlapping appends lose entries** (`bastion_overlap`). Both commands return
   their entry and one transition is gone from the "append-only" ledger. The
   remains are still a ledger somebody composed (`VerifiedHeadWasComposed`).
4. **Overlapping seals lose index entries** (`meridian_index`). `seal_bytes`
   reads, changes and replaces `index.json` without a lock; of two overlapping
   seals of different files one is missing from the index that "names every
   sealed entry". The envelope itself is there and can be opened by its name
   (`WipedCanBeOpened` holds), but `vault list` does not show it.

The properties of the other modules hold with exceptions that are there because the
code really fails without them. They have no run of their own:

- *Install.* The audit does not compare the manifest with the binary, nor its hash
  with the receipt: after two interrupted installs, of a newer and then of the old
  release, the old binary passes beside the newer manifest (the `begun <= 1` of
  `AuditedIsOneRelease`). Nothing removes files of an older release, or the
  temporary file of an interrupted copy, from an installed proof tree, and the audit
  hashes them: a finished reinstall is refused until somebody cleans the prefix
  (`FinishedInstallPasses`), where `docs/wuci_install_model.md:30-43` has no such
  condition. Installs take no lock and can mix when they overlap (`mixed`).
- *Page.* A Ctrl-click on a link runs the guard and clears the ceremony although
  the page stays: its controls are not updated, so that no ceremony can be begun
  until Start Over, and the public record stays although the dialog says it "will be
  cleared" (`CreateIdentity.ts:124`). A file whose reading ends after a submit puts
  the identity back into the form during the lookup, though `OpenBottles.ts:72` says
  it "is cleared before lookup" (the exception of `NoIdentityWhileOpening`). Of two
  imports the last to finish wins, and a failing one empties a later entry. An
  upload goes on after the Drop view was left and its receipt is never shown; a
  message whose answer was lost is stored again on retry (`DuplicatesAreUnseen`).

Two smaller divergences of the vault from its document
(`docs/WUCI_DAYLIGHT_V15_MERIDIAN_VAULT.md`) were met while reading and have no
run: line 48 says `vault.key` is absent in passphrase mode, but a forced init in
that mode leaves an old one (`vault.py:467`); line 79 shows `--restore` without an
output path, which `vault.py:363` refuses.

## Proofs

All theorems are about every value of the constants, under the named
assumptions of the modules: sizes are naturals, capacity and window at least one,
retention is a whole number of seconds and longer than any request's latency,
active recipients are recipients, drops are a finite set of numbers; for the
ledger, bounds are naturals and a vector is what it records in its fields; for the
vault, authorised triples are of a ledger, a corpus and a policy, and what stands
for a missing file or for noise is none of the contents. For the artifact ledger,
starting ledgers fit its bound; for the installer, binaries, keys and trees are
functions of the release; for the page, at least one activation. Hashes are ideal
throughout.

`BottleWorkerProofs`: `HandlerInv`, the inductive invariant, relates where a drop
is suspended to which keys exist and what is still to be rolled back; the types
and it carry `AcceptedBottlesKept` and `ListedBottlesHaveEvidence`, for which the
lemma on `ExpirationSecond` (rounding up never drops a key early) is needed.
`OvershootBounded` is not inductive by itself, since an overshoot shows only
after the check that allowed it: `CapacityInv` counts listed bottles together
with the drops past their check. `WorkerImplementsInbox` maps each step to a step
of `BottleInbox` or to none. `LeftoversAreFaults` charges each leftover, and each
rollback still under way, to a fault (`LeftoverInv`). Cardinalities are reasoned about with the library's
finite set theorems.

`BastionLedgerProofs`: `LedgerInv` says of every line, in the file or in a draft,
that it was composed for the place it is at, above a ledger without duplicates.
Types alone are not inductive: that the last line a command writes is an entry is
part of `LedgerInv`, so `LedgerCorrect` proves both together. Because a line
carries the whole head it was made for, a chain that holds needs no induction:
its last line determines the head (`ChainBelowTip`), from which
`VerifiedHeadsAreComposed`, `LedgersAreRepairable` and `TampersAreAuthorized`
follow. `UndisturbedLedgerIsExact` needs a second invariant, `OrderlyInv`, on
what the one running command has done.

`MeridianVaultProofs`: the types alone are not inductive, since a step uses what
its process has read; `Typed` adds what each step has in memory (`JobAt`).
`ConfigIsComplete` and `IndexedIsStored` hold under any overlap and death and need
only that a writer past a file has written it and that nothing removes a file of
the vault (`CompleteInv`, `IndexInv`). For the other three, `CleanInv` says what
undisturbed commands may rely on: an undisturbed init is the only one, and no
other command works on the file or name of an undisturbed seal. From it,
`BornInv` follows the files of an init until the configuration is written, and
`WipedInv` follows a text from its file through memory and store to its removal:
what an undisturbed seal holds is sealed under the vault's present key, evidence
and policy, because no init has run since. `QuietInv` bounds the processes between
an envelope and the index to one, which has loaded the index as it still is, so
that saving it adds that process's entry and loses none.

The same module proves the walks of `BottleWalk`: a bottle is `Placed` once its
recipient key was written; its place in the key order is then fixed and it never comes
back once it has left the listing. `WalkOK` says what a view has seen up to its cursor,
`PageOK` what the page it awaits adds, so that each page extends the seen part of the
listing without a gap (`WalksAreComplete`) or an overlap (`WalksDoNotRepeat`). That a
page has a last key is proved by well-founded induction on strict subsets.

`BottlePageProofs`: `PageInv` says that what a ceremony awaits under its present
revision finds it as it left it, and that everything else awaited is of an earlier
revision (`Awaited`); that an uploaded message is in one form at most, and in none
once its receipt was shown (`MessageInv`). `CeremonyIsGuarded` and
`BusyUntilRendered` are inductive only together with it.

`MerkleTreeProofs`: what the roots and paths of `wuci_ledger.py` are worth, for every
log of every length. A recursive function of TLA+ is a `CHOOSE`, of which nothing
follows until a function with its equation is known to exist. `Recursion` shows that
for every recursion whose body asks for the function only at arguments of a lesser
depth; the tree's functions are of this kind, since `split_power` leaves both parts
shorter. Induction over logs is by a least counterexample: a set of naturals that is
not empty has a least element. Two logs of one root are then one log (`RootFixesLog`),
although the root does not contain the size: a node is never a leaf, and equal trees
split where their equal sizes split.
`InclusionPathUnique` and `ConsistencyPathUnique` say that the two checks accept the
path that the tool computes and no other sequence whatever.

`ArtifactLedgerProofs`, on the directory: `LedgerInv` is what faults cannot break:
entries are in place, the lock excludes, and the head an append is about to publish
covers what is on disk. From it follows that the ledger is append-only. `Health` holds
until something fails or a ledger is removed: every file up to the latest head is the
ideal one, and the one append at work has at most one entry more. A quiet ledger is
then healthy. `VerdictInv` adds what a run of verify-history knows at each of its steps
while no writer disturbs it.

`EvidenceInv` says that every head ever published has the root of a log, also of a
ledger that was removed since, and that a written proof is that of a leaf or a prefix
of some log; with the theorems about the tree, `InclusionProofsHold` and
`ConsistencyProofsHold` follow for every published head. `PublishInv` says that the
latest head is a published one, that an append which goes on after reading it still
holds the latest, and that the entry it has written is the one after that head's.
`LedgerImplementsLog` is then a step by step argument: the log under the new head is
what is stored up to the new entry (`OneMore`, from `RootFixesLog`), every other step
leaves the latest head alone or finds none, and what follows a forced removal is a
`Remove`.

`InstallerProofs`: a job has verified a key, a manifest and a binary whatever
happens beside it (`JobInv`), which carries `InstallsSigned` through the two runs of
make; an install that nothing disturbs has made the prefix its own up to the file it
is at (`Progress`); and `ReceiptInv` relates receipt, binary and manifest to how
many installs have begun to write since. A prefix that passes the audit has the
receipt's binary and proofs, which were one release's when it was written.

Every invariant of a passing run and both refinements are proved. Only model-checked
are the two liveness properties `DropSettles` and `InboxDrains`, of `bottle_live`:
liveness under fairness is outside what the proof system does. No proof assumes
anything of hashes but that they are ideal, and that what stands for a missing or torn
file is none of the contents (`AbsentAssumption`).

## Plan

Done: the Bottle drop path, walk and page, the Bastion ledger, the Meridian vault,
the artifact ledger and its Merkle tree, the installer, and their proofs, down to the
tree's. What a next step could take up, in this order:

1. The FROST ceremony (`tools/frost_secp256k1_workflow.py`) as a protocol over
   abstract group elements: use of nonce files, quorum, shares of one session.
2. The Gate contract as a decision function, against a reference definition.
3. `BottleWalk` and `BottlePage` composed, for what a view shows of a page whose
   identity was imported while it was under way.
4. The files the installer model leaves out, and `audit` running beside an install.

## Not modelled

- *Cryptographic arithmetic and byte formats* (the assembly core, FROST's group
  operations, the Rust crates, envelope encryption): outside what TLC can enumerate,
  and covered by test vectors.
- *Consoles, builds and OS tooling* (`tools/wuci_os.py`, `wuci_black_ice.py`,
  `wuci_kaiju.py`, `tools/wucios/`): most of the lines of the repository. They are
  argument parsing, reports and sequential calls of external programs; whatever they
  leave is decided by those programs, of which a model could only assume the outcome.
- *Checks of one input* (gates, warrants, witnesses, claim scans,
  `validate_wucios.py`, `live_integrity_check.py`, v15 scoring and obligations, the
  v19 capsule checks but the ledger's, the v20 audit): functions of the files they
  are given, without state between calls.
- *Text formats* of ledgers, receipts, manifests and envelopes.

The mapped definitions therefore stand for a small share of all lines: the parts of
this system that keep state and share it are small, and they are the ones modelled.
