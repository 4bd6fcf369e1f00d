------------------------------- MODULE Installer -------------------------------
(***************************************************************************)
(* WUCI-INSTALL (tools/wuci_install.py): install and bootstrap copy a      *)
(* release from a checkout into a prefix, one file after the other, each   *)
(* replaced atomically, and write a receipt last. audit compares what is   *)
(* in the prefix with the receipt.                                         *)
(*                                                                         *)
(* There is no lock: installs may overlap, and the checkout may be pulled, *)
(* made or cleaned while one runs. A file's content is the release it is   *)
(* of; two files hash to the same only when they hold the same. What no    *)
(* check reads again (the tools, the audit command, the policies, the      *)
(* ledger entry and leaf of CAGE) is left out.                             *)
(***************************************************************************)
EXTENDS Integers, FiniteSets

CONSTANTS
    Procs,
    Releases,    \* what a checkout can be at
    Binaries, Keys,
    BinaryOf,    \* the binary that make builds of a release
    KeyOf,       \* install/wuci-install-root.v1.pub of a release
    Signed,      \* the release whose manifest and signature a release holds
    Files,       \* names of files in the proof trees
    TreeFiles,   \* the files of each tree that make writes at a release
    First,       \* the release of the checkout at the start
    None,
    Temp,        \* a temporary file left in a tree, its name and its content
    MaxInstalls, \* bound: installs started
    MaxChanges,  \* bound: changes of the checkout
    MaxStops     \* bound: installs that fail or are killed

Trees == {"bundle", "ledger"}

ASSUME ReleasesAssumption ==
    /\ BinaryOf \in [Releases -> Binaries]
    /\ KeyOf \in [Releases -> Keys]
    /\ Signed \in [Releases -> Releases]
    /\ TreeFiles \in [Trees -> [Releases -> SUBSET Files]]
    /\ First \in Releases
ASSUME NoneAssumption == None \notin Releases \cup Binaries \cup Keys
ASSUME TempAssumption == Temp \notin Files \cup Releases \cup {None}
ASSUME BoundsAssumption == MaxInstalls \in Nat /\ MaxChanges \in Nat /\ MaxStops \in Nat

VARIABLES
    source,   \* the release the checkout is at
    built,    \* build/wuci-ji
    proofs,   \* the attestations and the proof trees in build/
    localKey, \* the user's copy of the install root key
    prefix,   \* what is installed
    receipt,  \* install-receipt.json
    pc, job,  \* the install each process runs
    installs, changes, stops,
    mixed,    \* history: an install ran while another did or the checkout changed
    fresh,    \* history: the last install that wrote to the prefix finished, undisturbed
    begun     \* history: installs that have begun to write since the last that finished

checkout == <<source, built, proofs>>
counts == <<installs, changes, stops>>
vars == <<checkout, localKey, prefix, receipt, pc, job, counts, mixed, fresh, begun>>

-----------------------------------------------------------------------------
Names == Files \cup {Temp}
NoTree == [f \in Names |-> None]
NoProofs == [cage |-> None, qcage |-> None, trees |-> [t \in Trees |-> NoTree]]
NoPrefix == [binary |-> None, manifest |-> None, signature |-> None, key |-> None,
             repoKey |-> None, sidecar |-> None, proofs |-> NoProofs]

(* A job: the key, the manifest and the binary that were verified, the     *)
(* files of the tree that are still to be copied, the hashes for the       *)
(* receipt, and whether nothing else has happened since it started.        *)
NoJob == [key |-> None, manifest |-> None, binary |-> None, left |-> {},
          hashes |-> NoProofs, alone |-> FALSE]

Running == {p \in Procs : pc[p] # "idle"}
Listing(tree) == {f \in Names : tree[f] # None}

Goto(p, step) == pc' = [pc EXCEPT ![p] = step]
With(p, j) == job' = [job EXCEPT ![p] = j]

Halt(p) == Goto(p, "idle") /\ With(p, NoJob)

(* Something outside of the installs that run has happened. *)
Disturbed(jobs) == [p \in Procs |-> [jobs[p] EXCEPT !.alone = FALSE]]

Init ==
    /\ source = First
    /\ built = None
    /\ proofs = NoProofs
    /\ localKey \in {None, KeyOf[First]}
    /\ prefix = NoPrefix
    /\ receipt = None
    /\ pc = [p \in Procs |-> "idle"]
    /\ job = [p \in Procs |-> NoJob]
    /\ installs = 0 /\ changes = 0 /\ stops = 0
    /\ mixed = FALSE /\ fresh = FALSE /\ begun = 0

-----------------------------------------------------------------------------
(***************************************************************************)
(* The checkout: what make does, and what people do to it.                 *)
(***************************************************************************)
(* The witness bundle is written over, the ledger is made anew.            *)
BundleMade(tree) ==
    [f \in Names |-> IF f \in TreeFiles["bundle"][source] THEN source ELSE tree[f]]
LedgerMade == [f \in Names |-> IF f \in TreeFiles["ledger"][source] THEN source ELSE None]

WithAttestations(made) ==
    [made EXCEPT !.cage = source, !.qcage = source, !.trees["bundle"] = BundleMade(@)]
WithLedger(made) ==
    [made EXCEPT !.trees["bundle"] = BundleMade(@), !.trees["ledger"] = LedgerMade]

Changed ==
    /\ changes < MaxChanges
    /\ changes' = changes + 1
    /\ job' = Disturbed(job)
    /\ mixed' = (mixed \/ Running # {})
    /\ UNCHANGED <<localKey, prefix, receipt, pc, installs, stops, fresh, begun>>

(* A pull, a switch, or a new manifest that is signed, in the checkout or  *)
(* as a clone in its place.                                                *)
Update(r) ==
    /\ r # source
    /\ Changed
    /\ source' = r
    /\ \/ UNCHANGED <<built, proofs>>
       \/ built' = None /\ proofs' = NoProofs

Make ==
    /\ Changed
    /\ built' = BinaryOf[source]
    /\ proofs' = WithLedger(WithAttestations(proofs))
    /\ UNCHANGED source

Clean ==
    /\ Changed
    /\ built' = None
    /\ proofs' = NoProofs
    /\ UNCHANGED source

-----------------------------------------------------------------------------
(***************************************************************************)
(* perform_install                                                         *)
(***************************************************************************)
Started(p) ==
    /\ pc[p] = "idle"
    /\ installs < MaxInstalls
    /\ installs' = installs + 1
    /\ Goto(p, "trust")
    /\ job' = [Disturbed(job) EXCEPT ![p] = [NoJob EXCEPT !.alone = (Running = {})]]
    /\ mixed' = (mixed \/ Running # {})
    /\ UNCHANGED <<checkout, prefix, receipt, changes, stops, fresh, begun>>

StartInstall(p) == Started(p) /\ UNCHANGED localKey

(* bootstrap copies the key of the checkout first. *)
StartBootstrap(p) == Started(p) /\ localKey' = KeyOf[source]

(* Mutant: the user's key is not looked at. *)
VerifyManifestNoKey(p) ==
    /\ pc[p] = "trust"
    /\ built' = IF built = None THEN BinaryOf[source] ELSE built
    /\ IF KeyOf[Signed[source]] = KeyOf[source]
       THEN /\ Goto(p, "digest")
            /\ With(p, [job[p] EXCEPT !.key = localKey, !.manifest = Signed[source]])
       ELSE Halt(p)
    /\ UNCHANGED <<source, proofs, localKey, prefix, receipt, counts, mixed, fresh, begun>>

(* A binary that is not there is made; the local key must be the           *)
(* checkout's, and the manifest signed under it.                           *)
VerifyManifest(p) ==
    /\ pc[p] = "trust"
    /\ built' = IF built = None THEN BinaryOf[source] ELSE built
    /\ IF localKey = KeyOf[source] /\ KeyOf[Signed[source]] = localKey
       THEN /\ Goto(p, "digest")
            /\ With(p, [job[p] EXCEPT !.key = localKey, !.manifest = Signed[source]])
       ELSE Halt(p)
    /\ UNCHANGED <<source, proofs, localKey, prefix, receipt, counts, mixed, fresh, begun>>

Internal == UNCHANGED <<checkout, localKey, prefix, receipt, counts, mixed, fresh, begun>>

VerifyDigest(p) ==
    /\ pc[p] = "digest"
    /\ IF built = BinaryOf[job[p].manifest]
       THEN Goto(p, "attest") /\ With(p, [job[p] EXCEPT !.binary = built])
       ELSE Halt(p)
    /\ Internal

(* make cage-proof qcage-proof: the binary is rebuilt when the source has  *)
(* changed, then the bundle and the attestations of it.                    *)
MakeAttestations(p) ==
    /\ pc[p] = "attest"
    /\ built' = BinaryOf[source]
    /\ proofs' = WithAttestations(proofs)
    /\ Goto(p, "witness")
    /\ UNCHANGED <<source, localKey, prefix, receipt, job, counts, mixed, fresh, begun>>

(* make self-release-witness-bundle self-release-ledger-bundle *)
MakeLedger(p) ==
    /\ pc[p] = "witness"
    /\ built' = BinaryOf[source]
    /\ proofs' = WithLedger(proofs)
    /\ Goto(p, "candidate")
    /\ UNCHANGED <<source, localKey, prefix, receipt, job, counts, mixed, fresh, begun>>

-----------------------------------------------------------------------------
(***************************************************************************)
(* install_files                                                           *)
(***************************************************************************)
(* Mutant: the binary is not compared again before it is installed. *)
ReadCandidateAnew(p) ==
    /\ pc[p] = "candidate"
    /\ IF built # None
       THEN Goto(p, "binary") /\ With(p, [job[p] EXCEPT !.binary = built])
       ELSE Halt(p)
    /\ Internal

ReadCandidate(p) ==
    /\ pc[p] = "candidate"
    /\ IF built = job[p].binary THEN Goto(p, "binary") /\ UNCHANGED job ELSE Halt(p)
    /\ Internal

Copied == UNCHANGED <<checkout, localKey, receipt, counts, mixed>>

InstallBinary(p) ==
    /\ pc[p] = "binary"
    /\ prefix' = [prefix EXCEPT !.binary = job[p].binary]
    /\ Goto(p, "manifest")
    /\ fresh' = FALSE
    /\ begun' = begun + 1
    /\ Copied /\ UNCHANGED job

(* The manifest and its signature are read again here. *)
InstallManifest(p) ==
    /\ pc[p] = "manifest"
    /\ prefix' = [prefix EXCEPT !.manifest = Signed[source]]
    /\ Goto(p, "signature")
    /\ Copied /\ UNCHANGED <<job, fresh, begun>>

InstallSignature(p) ==
    /\ pc[p] = "signature"
    /\ prefix' = [prefix EXCEPT !.signature = Signed[source]]
    /\ Goto(p, "key")
    /\ Copied /\ UNCHANGED <<job, fresh, begun>>

InstallKey(p) ==
    /\ pc[p] = "key"
    /\ prefix' = [prefix EXCEPT !.key = localKey]
    /\ Goto(p, "repoKey")
    /\ Copied /\ UNCHANGED <<job, fresh, begun>>

InstallRepoKey(p) ==
    /\ pc[p] = "repoKey"
    /\ prefix' = [prefix EXCEPT !.repoKey = KeyOf[source]]
    /\ Goto(p, "sidecar")
    /\ Copied /\ UNCHANGED <<job, fresh, begun>>

InstallSidecar(p) ==
    /\ pc[p] = "sidecar"
    /\ prefix' = [prefix EXCEPT !.sidecar = KeyOf[source]]
    /\ Goto(p, "cage")
    /\ Copied /\ UNCHANGED <<job, fresh, begun>>

InstallCage(p) ==
    /\ pc[p] = "cage"
    /\ IF proofs.cage = None
       THEN Halt(p) /\ UNCHANGED prefix
       ELSE /\ prefix' = [prefix EXCEPT !.proofs.cage = proofs.cage]
            /\ Goto(p, "qcage")
            /\ UNCHANGED job
    /\ Copied /\ UNCHANGED <<fresh, begun>>

(* The listing of the bundle follows at once. *)
InstallQcage(p) ==
    /\ pc[p] = "qcage"
    /\ IF proofs.qcage = None
       THEN Halt(p) /\ UNCHANGED prefix
       ELSE /\ prefix' = [prefix EXCEPT !.proofs.qcage = proofs.qcage]
            /\ Goto(p, "bundle")
            /\ With(p, [job[p] EXCEPT !.left = Listing(proofs.trees["bundle"])])
    /\ Copied /\ UNCHANGED <<fresh, begun>>

(* Mutant: a file that is there already is not copied. *)
CopyFileNew(p, t, f) ==
    /\ pc[p] = t
    /\ f \in job[p].left
    /\ proofs.trees[t][f] # None
    /\ prefix' = IF prefix.proofs.trees[t][f] = None
                 THEN [prefix EXCEPT !.proofs.trees[t][f] = proofs.trees[t][f]] ELSE prefix
    /\ With(p, [job[p] EXCEPT !.left = @ \ {f}])
    /\ Copied /\ UNCHANGED <<pc, fresh, begun>>

(* One file of a tree; a file that is gone since the listing is an error.  *)
CopyFile(p, t, f) ==
    /\ pc[p] = t
    /\ f \in job[p].left
    /\ IF proofs.trees[t][f] = None
       THEN Halt(p) /\ UNCHANGED prefix
       ELSE /\ prefix' = [prefix EXCEPT !.proofs.trees[t][f] = proofs.trees[t][f]]
            /\ With(p, [job[p] EXCEPT !.left = @ \ {f}])
            /\ UNCHANGED pc
    /\ Copied /\ UNCHANGED <<fresh, begun>>

EndBundle(p) ==
    /\ pc[p] = "bundle"
    /\ job[p].left = {}
    /\ IF Listing(proofs.trees["ledger"]) = {}
       THEN Halt(p)
       ELSE /\ Goto(p, "ledger")
            /\ With(p, [job[p] EXCEPT !.left = Listing(proofs.trees["ledger"])])
    /\ Copied /\ UNCHANGED <<prefix, fresh, begun>>

(* proof_hashes: of what is in build/, not of what was installed. *)
EndLedger(p) ==
    /\ pc[p] = "ledger"
    /\ job[p].left = {}
    /\ Goto(p, "receipt")
    /\ With(p, [job[p] EXCEPT !.hashes = proofs])
    /\ Internal

WriteReceipt(p) ==
    /\ pc[p] = "receipt"
    /\ receipt' = [binary |-> job[p].binary, key |-> job[p].key, proofs |-> job[p].hashes]
    /\ fresh' = job[p].alone
    /\ begun' = 0
    /\ Halt(p)
    /\ UNCHANGED <<checkout, localKey, prefix, counts, mixed>>

-----------------------------------------------------------------------------
(* A step fails, or the install is killed: nothing is taken back. What was *)
(* being copied into a tree may be left beside it as a temporary file.     *)
Stop(p) ==
    /\ p \in Running
    /\ stops < MaxStops
    /\ stops' = stops + 1
    /\ \/ UNCHANGED prefix
       \/ \E t \in Trees : /\ pc[p] = t /\ job[p].left # {}
                           /\ prefix' = [prefix EXCEPT !.proofs.trees[t][Temp] = Temp]
    /\ Halt(p)
    /\ UNCHANGED <<checkout, localKey, receipt, installs, changes, mixed, fresh, begun>>

Install(p) ==
    \/ StartInstall(p) \/ StartBootstrap(p) \/ VerifyManifest(p) \/ VerifyDigest(p)
    \/ MakeAttestations(p) \/ MakeLedger(p)
    \/ ReadCandidate(p) \/ InstallBinary(p) \/ InstallManifest(p) \/ InstallSignature(p)
    \/ InstallKey(p) \/ InstallRepoKey(p) \/ InstallSidecar(p)
    \/ InstallCage(p) \/ InstallQcage(p)
    \/ \E t \in Trees, f \in Names : CopyFile(p, t, f)
    \/ EndBundle(p) \/ EndLedger(p) \/ WriteReceipt(p) \/ Stop(p)

Next ==
    \/ \E p \in Procs : Install(p)
    \/ \E r \in Releases : Update(r)
    \/ Make \/ Clean

Spec == Init /\ [][Next]_vars

-----------------------------------------------------------------------------
(***************************************************************************)
(* audit, of a prefix that no install is writing to.                       *)
(***************************************************************************)
(* Mutant: the installed binary is not hashed. *)
AuditPassesAnyBinary ==
    /\ receipt # None
    /\ prefix.key = receipt.key
    /\ prefix.repoKey = prefix.key /\ prefix.sidecar = prefix.repoKey
    /\ prefix.manifest # None /\ prefix.signature = prefix.manifest
    /\ KeyOf[prefix.manifest] = prefix.key
    /\ prefix.proofs = receipt.proofs

(* The signature is checked under the installed key, which must be the     *)
(* installed copy of the repository's, but the manifest is not compared    *)
(* with the binary.                                                        *)
AuditPasses ==
    /\ receipt # None
    /\ prefix.binary = receipt.binary
    /\ prefix.key = receipt.key
    /\ prefix.repoKey = prefix.key /\ prefix.sidecar = prefix.repoKey
    /\ prefix.manifest # None /\ prefix.signature = prefix.manifest
    /\ KeyOf[prefix.manifest] = prefix.key
    /\ prefix.proofs = receipt.proofs

-----------------------------------------------------------------------------
(***************************************************************************)
(* Properties.                                                             *)
(***************************************************************************)
Steps == {"idle", "trust", "digest", "attest", "witness", "candidate", "binary", "manifest",
          "signature", "key", "repoKey", "sidecar", "cage", "qcage", "bundle", "ledger",
          "receipt"}

Maybe(S) == S \cup {None}
ProofType == [cage : Maybe(Releases), qcage : Maybe(Releases),
              trees : [Trees -> [Names -> Maybe(Releases) \cup {Temp}]]]

Prefixes ==
    [binary : Maybe(Binaries), manifest : Maybe(Releases), signature : Maybe(Releases),
     key : Maybe(Keys), repoKey : Maybe(Keys), sidecar : Maybe(Keys), proofs : ProofType]
Receipts == [binary : Binaries, key : Keys, proofs : ProofType]
Jobs == [key : Maybe(Keys), manifest : Maybe(Releases), binary : Maybe(Binaries),
         left : SUBSET Names, hashes : ProofType, alone : BOOLEAN]

ASSUME ReceiptAssumption == None \notin Receipts

(* The variables have their types: a receipt has a key and a binary, which *)
(* a job has verified before it writes one.                                *)
TypeOK ==
    /\ source \in Releases /\ built \in Maybe(Binaries) /\ proofs \in ProofType
    /\ localKey \in Maybe(Keys)
    /\ prefix \in Prefixes /\ receipt \in Maybe(Receipts)
    /\ pc \in [Procs -> Steps] /\ job \in [Procs -> Jobs]
    /\ installs \in Nat /\ changes \in Nat /\ stops \in Nat /\ begun \in Nat
    /\ mixed \in BOOLEAN /\ fresh \in BOOLEAN

(* However installs overlap and stop, and whatever is pulled, made or      *)
(* cleaned between the check of a binary and its copying: the installed    *)
(* binary is one that a signed manifest names.                             *)
OnlySignedBinaries ==
    prefix.binary # None => \E r \in Releases : prefix.binary = BinaryOf[Signed[r]]

(* Installs that stopped anywhere leave no prefix that passes for another: *)
(* if none overlapped another or a change of the checkout, a prefix that   *)
(* passes the audit has the binary and all the proofs of one release, and  *)
(* the manifest names that binary, if no more than one has begun to write  *)
(* since the last that finished. (The audit does not compare the manifest  *)
(* with the binary: two interrupted installs, of a newer and of the old    *)
(* release, can leave the old binary with the newer manifest, and it       *)
(* passes.)                                                                *)
AuditedIsOneRelease ==
    (AuditPasses /\ ~mixed) =>
        /\ \E r \in Releases :
            /\ prefix.binary = BinaryOf[r]
            /\ prefix.proofs.cage = r /\ prefix.proofs.qcage = r
            /\ \A t \in Trees : \A f \in TreeFiles[t][r] : prefix.proofs.trees[t][f] = r
        /\ begun <= 1 => prefix.binary = BinaryOf[prefix.manifest]

(* A prefix whose last install finished, with nothing beside it, passes    *)
(* the audit exactly when its proof trees hold no file that build/ did     *)
(* not: nothing removes what an earlier release or an earlier interrupted  *)
(* install left there, and the audit hashes it.                            *)
FinishedInstallPasses ==
    fresh => (AuditPasses <=>
                 \A t \in Trees : Listing(prefix.proofs.trees[t])
                                  \subseteq Listing(receipt.proofs.trees[t]))
=============================================================================
