---------------------------- MODULE InstallerProofs ----------------------------
(***************************************************************************)
(* Whatever the releases, their files and the number of installs: only     *)
(* binaries a signed manifest names are installed, a prefix that passes    *)
(* the audit is of one release, and an install that finished undisturbed   *)
(* passes unless an earlier one left files in its trees.                   *)
(***************************************************************************)
EXTENDS Installer, TLAPS

(* The steps after the binary was installed. *)
Written == {"manifest", "signature", "key", "repoKey", "sidecar", "cage", "qcage", "bundle",
            "ledger", "receipt"}

(* What a job has verified, whatever happens beside it. *)
JobInv(step, j) ==
    /\ step \notin {"idle", "trust"} =>
           j.key \in Keys /\ \E r \in Releases : j.manifest = Signed[r]
    /\ step \notin {"idle", "trust", "digest"} => j.binary = BinaryOf[j.manifest]

(* All that make writes is of release r. *)
MadeOf(made, r) ==
    /\ made.cage = r /\ made.qcage = r
    /\ \A t \in Trees : \A f \in TreeFiles[t][r] : made.trees[t][f] = r

(* The files of a tree, but those in left, are where they were copied to.  *)
CopiedTree(to, from, t, left) ==
    \A f \in Listing(from.trees[t]) \ left : to.trees[t][f] = from.trees[t][f]

(* How far an install is that nothing has disturbed. *)
Verified(step, j) ==
    /\ step \notin {"idle", "trust"} =>
           /\ j.key = localKey /\ localKey = KeyOf[source]
           /\ j.manifest = Signed[source] /\ KeyOf[Signed[source]] = localKey
    /\ step = "witness" => proofs.cage = source /\ proofs.qcage = source
    /\ step \in {"candidate", "binary"} \cup Written =>
           built = BinaryOf[source] /\ MadeOf(proofs, source)
    /\ step \in {"binary"} \cup Written => j.binary = BinaryOf[source]

WrittenFiles(step, j) ==
    /\ step \in Written => prefix.binary = j.binary /\ begun > 0
    /\ step \in Written \ {"manifest"} => prefix.manifest = Signed[source]
    /\ step \in Written \ {"manifest", "signature"} => prefix.signature = Signed[source]
    /\ step \in Written \ {"manifest", "signature", "key"} => prefix.key = localKey
    /\ step \in {"sidecar", "cage", "qcage", "bundle", "ledger", "receipt"} =>
           prefix.repoKey = localKey
    /\ step \in {"cage", "qcage", "bundle", "ledger", "receipt"} => prefix.sidecar = localKey
    /\ step \in {"qcage", "bundle", "ledger", "receipt"} => prefix.proofs.cage = proofs.cage
    /\ step \in {"bundle", "ledger", "receipt"} => prefix.proofs.qcage = proofs.qcage

CopiedTrees(step, j) ==
    /\ step = "bundle" => CopiedTree(prefix.proofs, proofs, "bundle", j.left)
    /\ step \in {"ledger", "receipt"} => CopiedTree(prefix.proofs, proofs, "bundle", {})
    /\ step = "ledger" => CopiedTree(prefix.proofs, proofs, "ledger", j.left)
    /\ step = "receipt" => CopiedTree(prefix.proofs, proofs, "ledger", {}) /\ j.hashes = proofs

Progress(p) ==
    /\ \A q \in Procs \ {p} : pc[q] = "idle"
    /\ Verified(pc[p], job[p]) /\ WrittenFiles(pc[p], job[p]) /\ CopiedTrees(pc[p], job[p])

(* The receipt, and the prefix it was written for. *)
FreshInv ==
    fresh => /\ \A p \in Procs : pc[p] \notin Written
             /\ receipt # None
             /\ prefix.binary = receipt.binary /\ prefix.key = receipt.key
             /\ prefix.repoKey = prefix.key /\ prefix.sidecar = prefix.key
             /\ prefix.manifest # None /\ prefix.signature = prefix.manifest
             /\ KeyOf[prefix.manifest] = prefix.key
             /\ prefix.proofs.cage = receipt.proofs.cage
             /\ prefix.proofs.qcage = receipt.proofs.qcage
             /\ \A t \in Trees : CopiedTree(prefix.proofs, receipt.proofs, t, {})

ReceiptInv ==
    (~mixed /\ receipt # None) =>
        /\ \E r \in Releases : receipt.binary = BinaryOf[r] /\ MadeOf(receipt.proofs, r)
        /\ begun = 0 => prefix.binary = receipt.binary
        /\ begun <= 1 => \/ prefix.binary = BinaryOf[prefix.manifest]
                         \/ receipt.binary = BinaryOf[prefix.manifest]
        /\ begun = 0 => receipt.binary = BinaryOf[prefix.manifest]

InstallInv ==
    /\ TypeOK
    /\ \A p \in Procs : JobInv(pc[p], job[p])
    /\ \A p \in Procs : pc[p] # "idle" /\ job[p].alone => Progress(p)
    /\ ~mixed => \A p \in Procs : pc[p] # "idle" => job[p].alone
    /\ OnlySignedBinaries /\ FreshInv /\ ReceiptInv

-----------------------------------------------------------------------------
LEMMA ConstantTypes ==
    /\ \A r \in Releases : /\ BinaryOf[r] \in Binaries /\ KeyOf[r] \in Keys
                           /\ Signed[r] \in Releases
                           /\ \A t \in Trees : TreeFiles[t][r] \subseteq Files
    /\ NoTree \in [Names -> Maybe(Releases) \cup {Temp}]
    /\ NoProofs \in ProofType /\ NoPrefix \in Prefixes /\ NoJob \in Jobs
<1>1. NoTree \in [Names -> Maybe(Releases) \cup {Temp}]
  BY DEF NoTree, Maybe
<1>2. NoProofs \in ProofType
  BY <1>1 DEF NoProofs, ProofType, Maybe
<1>3. NoPrefix \in Prefixes /\ NoJob \in Jobs
  BY <1>2 DEF NoPrefix, NoJob, Prefixes, Jobs, Maybe
<1>4. QED
  BY <1>1, <1>2, <1>3, ReleasesAssumption

LEMMA MadeTypes ==
    ASSUME TypeOK, NEW made \in ProofType
    PROVE  /\ WithAttestations(made).cage = source /\ WithAttestations(made).qcage = source
           /\ WithAttestations(made) \in ProofType /\ WithLedger(made) \in ProofType
           /\ MadeOf(WithLedger(WithAttestations(made)), source)
           /\ made.cage = source /\ made.qcage = source => MadeOf(WithLedger(made), source)
<1> DEFINE T == [Names -> Maybe(Releases) \cup {Temp}]
<1>1. source \in Releases /\ \A t \in Trees : made.trees[t] \in T
  BY DEF TypeOK, ProofType
<1>2. /\ \A tree \in T : BundleMade(tree) \in T
      /\ LedgerMade \in T
  BY <1>1 DEF BundleMade, LedgerMade, Maybe
<1>3. Files \subseteq Names
  BY DEF Names
<1>4. /\ \A tree \in T : \A f \in TreeFiles["bundle"][source] : BundleMade(tree)[f] = source
      /\ \A f \in TreeFiles["ledger"][source] : LedgerMade[f] = source
  BY <1>1, <1>3, ConstantTypes DEF BundleMade, LedgerMade, Trees
<1> HIDE DEF T
<1>5. \A m \in ProofType :
         /\ m.trees["bundle"] \in T
         /\ WithAttestations(m) \in ProofType
         /\ WithAttestations(m).cage = source /\ WithAttestations(m).qcage = source
         /\ WithLedger(m) \in ProofType
         /\ WithLedger(m).cage = m.cage /\ WithLedger(m).qcage = m.qcage
         /\ WithLedger(m).trees["bundle"] = BundleMade(m.trees["bundle"])
         /\ WithLedger(m).trees["ledger"] = LedgerMade
  <2>1. SUFFICES ASSUME NEW m \in ProofType
                 PROVE  /\ m.trees["bundle"] \in T
                        /\ WithAttestations(m) \in ProofType
                        /\ WithAttestations(m).cage = source /\ WithAttestations(m).qcage = source
                        /\ WithLedger(m) \in ProofType
                        /\ WithLedger(m).cage = m.cage /\ WithLedger(m).qcage = m.qcage
                        /\ WithLedger(m).trees["bundle"] = BundleMade(m.trees["bundle"])
                        /\ WithLedger(m).trees["ledger"] = LedgerMade
    OBVIOUS
  <2>2. m.trees \in [Trees -> T] /\ m.cage \in Maybe(Releases) /\ m.qcage \in Maybe(Releases)
    BY DEF ProofType, T
  <2>3. /\ [m.trees EXCEPT !["bundle"] = BundleMade(@)] \in [Trees -> T]
        /\ [m.trees EXCEPT !["bundle"] = BundleMade(@), !["ledger"] = LedgerMade] \in [Trees -> T]
    BY <1>2, <2>2
  <2>4. source \in Maybe(Releases)
    BY <1>1 DEF Maybe
  <2>5. m.trees["bundle"] \in T
    BY <2>2 DEF Trees
  <2>6. /\ WithAttestations(m) \in ProofType
        /\ WithAttestations(m).cage = source /\ WithAttestations(m).qcage = source
    BY <2>2, <2>3, <2>4 DEF WithAttestations, ProofType, T
  <2>7. /\ WithLedger(m) \in ProofType
        /\ WithLedger(m).cage = m.cage /\ WithLedger(m).qcage = m.qcage
    BY <2>2, <2>3 DEF WithLedger, ProofType, T
  <2>8. /\ WithLedger(m).trees["bundle"] = BundleMade(m.trees["bundle"])
        /\ WithLedger(m).trees["ledger"] = LedgerMade
    BY <2>2 DEF WithLedger, ProofType, Trees
  <2>9. QED
    BY <2>5, <2>6, <2>7, <2>8
<1>6. \A m \in ProofType : m.cage = source /\ m.qcage = source => MadeOf(WithLedger(m), source)
  BY <1>4, <1>5 DEF MadeOf, Trees
<1>7. QED
  BY <1>5, <1>6

-----------------------------------------------------------------------------
(* A step of an install that runs: what is left to show of it.             *)
LEMMA RunningStep ==
    ASSUME InstallInv, NEW p \in Procs, pc[p] # "idle",
           NEW step \in Steps, NEW j \in Jobs, Goto(p, step), With(p, j),
           JobInv(step, j), step = "idle" \/ j.alone = job[p].alone,
           mixed' = mixed, TypeOK', OnlySignedBinaries', FreshInv', ReceiptInv',
           (step # "idle" /\ j.alone /\ Progress(p)) =>
               Verified(step, j)' /\ WrittenFiles(step, j)' /\ CopiedTrees(step, j)'
    PROVE  InstallInv'
<1>1. /\ pc'[p] = step /\ job'[p] = j
      /\ \A q \in Procs \ {p} : pc'[q] = pc[q] /\ job'[q] = job[q]
  BY DEF Goto, With, InstallInv, TypeOK
<1>2. \A q \in Procs : JobInv(pc'[q], job'[q])
  BY <1>1 DEF InstallInv
<1>3. ASSUME NEW q \in Procs, pc'[q] # "idle", job'[q].alone PROVE Progress(q)'
  <2>1. CASE q # p
    BY <1>1, <1>3, <2>1 DEF InstallInv, Progress
  <2>2. CASE q = p
    BY <1>1, <1>3, <2>2 DEF InstallInv, Progress
  <2>3. QED
    BY <2>1, <2>2
<1>4. ~mixed' => \A q \in Procs : pc'[q] # "idle" => job'[q].alone
  BY <1>1 DEF InstallInv
<1>5. \A q \in Procs : JobInv(pc[q], job[q])'
  BY <1>2
<1>6. QED
  BY <1>3, <1>4, <1>5 DEF InstallInv

(* A step that leaves the prefix and the receipt alone.                    *)
LEMMA QuietStep ==
    ASSUME InstallInv, NEW p \in Procs, NEW step \in Steps, NEW j, Goto(p, step),
           step \in Written => pc[p] \in Written,
           UNCHANGED <<prefix, receipt, fresh, begun, mixed>>
    PROVE  OnlySignedBinaries' /\ FreshInv' /\ ReceiptInv'
<1>1. OnlySignedBinaries' /\ ReceiptInv'
  BY DEF InstallInv, OnlySignedBinaries, ReceiptInv
<1>2. \A q \in Procs : pc'[q] \in Written => pc[q] \in Written
  BY DEF Goto, InstallInv, TypeOK
<1>3. FreshInv'
  BY <1>2 DEF InstallInv, FreshInv
<1>4. QED
  BY <1>1, <1>3

(* A step that writes one file to the prefix after the binary.             *)
LEMMA WritingStep ==
    ASSUME InstallInv, NEW p \in Procs, pc[p] \in Written,
           UNCHANGED <<receipt, begun, mixed, fresh>>,
           prefix'.binary = prefix.binary, prefix'.manifest = prefix.manifest
    PROVE  OnlySignedBinaries' /\ FreshInv' /\ ReceiptInv'
<1>1. ~fresh
  BY DEF InstallInv, FreshInv
<1>2. OnlySignedBinaries' /\ ReceiptInv'
  <2>1. ~mixed => begun > 0
    BY DEF InstallInv, Progress, WrittenFiles, Written
  <2>2. begun \in Nat
    BY DEF InstallInv, TypeOK
  <2>3. QED
    BY <2>1, <2>2 DEF InstallInv, OnlySignedBinaries, ReceiptInv
<1>3. QED
  BY <1>1, <1>2 DEF FreshInv

LEMMA JobOf ==
    ASSUME InstallInv, NEW p \in Procs
    PROVE  /\ job[p] \in Jobs /\ pc[p] \in Steps /\ JobInv(pc[p], job[p])
           /\ pc \in [Procs -> Steps] /\ job \in [Procs -> Jobs]
           /\ source \in Releases /\ built \in Maybe(Binaries) /\ proofs \in ProofType
           /\ localKey \in Maybe(Keys) /\ prefix \in Prefixes /\ receipt \in Maybe(Receipts)
           /\ Goto(p, pc[p]) <=> pc' = pc
           /\ With(p, job[p]) <=> job' = job
BY DEF InstallInv, TypeOK, Goto, With

LEMMA Types ==
    ASSUME InstallInv, NEW p \in Procs, NEW step \in Steps, NEW j \in Jobs,
           Goto(p, step), With(p, j), counts' \in Nat \X Nat \X Nat, begun' \in Nat,
           fresh' \in BOOLEAN, mixed' \in BOOLEAN,
           source' \in Releases, built' \in Maybe(Binaries), proofs' \in ProofType,
           localKey' \in Maybe(Keys), prefix' \in Prefixes, receipt' \in Maybe(Receipts)
    PROVE  TypeOK'
<1>1. pc' \in [Procs -> Steps] /\ job' \in [Procs -> Jobs]
  BY JobOf DEF Goto, With
<1>2. installs' \in Nat /\ changes' \in Nat /\ stops' \in Nat
  BY DEF counts
<1>3. QED
  BY <1>1, <1>2 DEF TypeOK

(* An install ends early.                                                  *)
LEMMA HaltInv ==
    ASSUME InstallInv, NEW p \in Procs, pc[p] # "idle", Halt(p),
           UNCHANGED <<source, proofs, localKey, receipt, mixed, fresh, begun>>,
           counts' \in Nat \X Nat \X Nat, built' \in Maybe(Binaries), prefix' \in Prefixes,
           \/ prefix' = prefix
           \/ /\ pc[p] \in Written
              /\ prefix'.binary = prefix.binary /\ prefix'.manifest = prefix.manifest
    PROVE  InstallInv'
<1>1. Goto(p, "idle") /\ With(p, NoJob) /\ NoJob \in Jobs /\ "idle" \in Steps
  BY ConstantTypes DEF Halt, Steps
<1>2. OnlySignedBinaries' /\ FreshInv' /\ ReceiptInv'
  <2>1. CASE prefix' = prefix
    BY <1>1, <2>1, QuietStep DEF Written
  <2>2. CASE prefix' # prefix
    BY <2>2, WritingStep
  <2>3. QED
    BY <2>1, <2>2
<1>3. TypeOK'
  BY <1>1, JobOf, Types DEF InstallInv, TypeOK
<1>4. JobInv("idle", NoJob)
  BY DEF JobInv
<1>5. QED
  BY <1>1, <1>2, <1>3, <1>4, RunningStep

LEMMA CountsTyped ==
    ASSUME InstallInv
    PROVE  counts \in Nat \X Nat \X Nat /\ begun \in Nat /\ begun + 1 \in Nat
           /\ fresh \in BOOLEAN /\ mixed \in BOOLEAN
BY DEF InstallInv, TypeOK, counts

LEMMA StoppedInv ==
    ASSUME InstallInv, NEW p \in Procs, Stop(p) PROVE InstallInv'
<1>1. /\ pc[p] # "idle" /\ Halt(p) /\ built' \in Maybe(Binaries)
      /\ UNCHANGED <<source, proofs, localKey, receipt, mixed, fresh, begun>>
  BY JobOf DEF Stop, Running, checkout
<1>2. counts' \in Nat \X Nat \X Nat
  BY CountsTyped DEF Stop, counts
<1>3. CASE UNCHANGED prefix
  BY <1>1, <1>2, <1>3, JobOf, HaltInv
<1>4. ASSUME NEW t \in Trees, pc[p] = t,
             prefix' = [prefix EXCEPT !.proofs.trees[t][Temp] = Temp]
      PROVE  InstallInv'
  <2> DEFINE T == [Names -> Maybe(Releases) \cup {Temp}]
             trees == [prefix.proofs.trees EXCEPT ![t][Temp] = Temp]
             to == [prefix.proofs EXCEPT !.trees = trees]
  <2>1. /\ prefix.proofs \in ProofType /\ prefix.proofs.trees \in [Trees -> T]
        /\ prefix.proofs.trees[t] \in T /\ Temp \in Names
    BY JobOf DEF Prefixes, ProofType, Names
  <2>2. trees \in [Trees -> T]
    BY <2>1
  <2> HIDE DEF trees
  <2>3. to \in ProofType
    BY <2>1, <2>2 DEF ProofType
  <2>4. prefix' = [prefix EXCEPT !.proofs = to]
    BY <1>4 DEF trees
  <2> HIDE DEF to
  <2>5. /\ prefix' \in Prefixes /\ prefix'.binary = prefix.binary
        /\ prefix'.manifest = prefix.manifest
    BY <2>3, <2>4, JobOf DEF Prefixes
  <2>6. pc[p] \in Written
    BY <1>4 DEF Trees, Written
  <2>7. QED
    BY <1>1, <1>2, <2>5, <2>6, HaltInv
<1>5. QED
  BY <1>3, <1>4 DEF Stop

(* The checks that come first. *)
LEMMA CheckSteps ==
    ASSUME InstallInv, NEW p \in Procs, VerifyManifest(p) \/ VerifyDigest(p)
    PROVE  InstallInv'
<1>1. /\ pc[p] \in {"trust", "digest"} /\ pc[p] # "idle"
      /\ UNCHANGED <<source, proofs, localKey, prefix, receipt, counts, mixed, fresh, begun>>
  BY DEF VerifyManifest, VerifyDigest, Internal, checkout
<1>2. built' \in Maybe(Binaries)
  BY JobOf, ConstantTypes DEF VerifyManifest, VerifyDigest, Internal, checkout, Maybe
<1>3. CASE Halt(p)
  BY <1>1, <1>2, <1>3, CountsTyped, JobOf, HaltInv
<1>4. CASE VerifyManifest(p) /\ ~Halt(p)
  <2>0. PICK j : j = [job[p] EXCEPT !.key = localKey, !.manifest = Signed[source]]
    OBVIOUS
  <2>1. /\ localKey = KeyOf[source] /\ KeyOf[Signed[source]] = localKey
        /\ Goto(p, "digest") /\ With(p, j)
    BY <1>4, <2>0 DEF VerifyManifest
  <2>2. /\ j \in Jobs /\ j.key = localKey /\ j.manifest = Signed[source]
        /\ j.alone = job[p].alone /\ localKey \in Keys
    BY <2>0, <2>1, JobOf, ConstantTypes DEF Jobs, Maybe
  <2>3. JobInv("digest", j) /\ "digest" \in Steps
    BY <2>2, JobOf DEF JobInv, Steps
  <2>4. TypeOK'
    BY <1>1, <1>2, <2>1, <2>2, <2>3, CountsTyped, JobOf, Types
  <2>5. OnlySignedBinaries' /\ FreshInv' /\ ReceiptInv'
    BY <1>1, <2>1, <2>3, QuietStep DEF Written
  <2>6. Verified("digest", j)' /\ WrittenFiles("digest", j)' /\ CopiedTrees("digest", j)'
    BY <1>1, <2>1, <2>2 DEF Verified, WrittenFiles, CopiedTrees, Written
  <2>7. QED
    BY <1>1, <2>1, <2>2, <2>3, <2>4, <2>5, <2>6, RunningStep
<1>5. CASE VerifyDigest(p) /\ ~Halt(p)
  <2>0. PICK j : j = [job[p] EXCEPT !.binary = built]
    OBVIOUS
  <2>1. /\ built = BinaryOf[job[p].manifest] /\ pc[p] = "digest"
        /\ Goto(p, "attest") /\ With(p, j)
    BY <1>5, <2>0 DEF VerifyDigest
  <2>2. /\ j \in Jobs /\ j.binary = BinaryOf[j.manifest] /\ j.key = job[p].key
        /\ j.alone = job[p].alone /\ j.manifest = job[p].manifest
    BY <2>0, <2>1, JobOf DEF Jobs
  <2>3. JobInv("attest", j) /\ "attest" \in Steps
    BY <2>1, <2>2, JobOf DEF JobInv, Steps
  <2>4. TypeOK'
    BY <1>1, <1>2, <2>1, <2>2, <2>3, CountsTyped, JobOf, Types
  <2>5. OnlySignedBinaries' /\ FreshInv' /\ ReceiptInv'
    BY <1>1, <2>1, <2>3, QuietStep DEF Written
  <2>6. Progress(p) => /\ Verified("attest", j)' /\ WrittenFiles("attest", j)'
                       /\ CopiedTrees("attest", j)'
    BY <1>1, <2>1, <2>2 DEF Progress, Verified, WrittenFiles, CopiedTrees, Written
  <2>7. QED
    BY <1>1, <2>1, <2>2, <2>3, <2>4, <2>5, <2>6, RunningStep
<1>6. QED
  BY <1>3, <1>4, <1>5

LEMMA MakeStep ==
    ASSUME InstallInv, NEW p \in Procs, NEW step \in {"witness", "candidate"}, Goto(p, step),
           pc[p] = IF step = "witness" THEN "attest" ELSE "witness",
           UNCHANGED <<source, localKey, prefix, receipt, job, counts, mixed, fresh, begun>>,
           built' = BinaryOf[source], proofs' \in ProofType,
           proofs' = IF step = "witness" THEN WithAttestations(proofs) ELSE WithLedger(proofs)
    PROVE  InstallInv'
<1>1. PICK j : j = job[p]
  OBVIOUS
<1>2. /\ built' \in Maybe(Binaries) /\ step \in Steps
      /\ step \notin Written \cup {"idle", "trust", "digest", "binary"}
  BY JobOf, ConstantTypes DEF Maybe, Steps, Written
<1>3. j \in Jobs /\ With(p, j) /\ JobInv(step, j) /\ j.alone = job[p].alone /\ pc[p] # "idle"
  BY <1>1, <1>2, JobOf DEF JobInv
<1>4. TypeOK'
  BY <1>2, <1>3, CountsTyped, JobOf, Types
<1>5. OnlySignedBinaries' /\ FreshInv' /\ ReceiptInv'
  BY <1>2, QuietStep
<1>6. ASSUME Progress(p)
      PROVE  Verified(step, j)' /\ WrittenFiles(step, j)' /\ CopiedTrees(step, j)'
  <2>1. WrittenFiles(step, j)' /\ CopiedTrees(step, j)'
    BY <1>2 DEF WrittenFiles, CopiedTrees, Written
  <2>2. /\ j.key = localKey /\ localKey = KeyOf[source]
        /\ j.manifest = Signed[source] /\ KeyOf[Signed[source]] = localKey
        /\ step = "candidate" => proofs.cage = source /\ proofs.qcage = source
    BY <1>1, <1>6 DEF Progress, Verified
  <2>3. /\ step = "witness" => proofs'.cage = source /\ proofs'.qcage = source
        /\ step = "candidate" => MadeOf(proofs', source)
    BY <2>2, JobOf, MadeTypes DEF InstallInv
  <2>4. Verified(step, j)'
    BY <1>2, <2>2, <2>3 DEF Verified
  <2>5. QED
    BY <2>1, <2>4
<1>7. QED
  BY <1>2, <1>3, <1>4, <1>5, <1>6, RunningStep

LEMMA MakeSteps ==
    ASSUME InstallInv, NEW p \in Procs, MakeAttestations(p) \/ MakeLedger(p)
    PROVE  InstallInv'
<1>1. WithAttestations(proofs) \in ProofType /\ WithLedger(proofs) \in ProofType
  BY JobOf, MadeTypes DEF InstallInv
<1>2. QED
  BY <1>1, MakeStep DEF MakeAttestations, MakeLedger

LEMMA ReadCandidateInv ==
    ASSUME InstallInv, NEW p \in Procs, ReadCandidate(p) PROVE InstallInv'
<1>1. /\ pc[p] = "candidate" /\ pc[p] # "idle"
      /\ UNCHANGED <<checkout, source, built, proofs, localKey, prefix, receipt, counts, mixed,
                     fresh, begun>>
  BY DEF ReadCandidate, Internal, checkout
<1>2. CASE Halt(p)
  BY <1>1, <1>2, CountsTyped, JobOf, HaltInv
<1>3. CASE built = job[p].binary /\ Goto(p, "binary") /\ UNCHANGED job
  <2>1. PICK j : j = job[p]
    OBVIOUS
  <2>2. /\ j \in Jobs /\ With(p, j) /\ JobInv("binary", j) /\ "binary" \in Steps
        /\ j.alone = job[p].alone
    BY <1>1, <1>3, <2>1, JobOf DEF JobInv, Steps
  <2>3. TypeOK'
    BY <1>1, <1>3, <2>2, CountsTyped, JobOf, Types
  <2>4. OnlySignedBinaries' /\ FreshInv' /\ ReceiptInv'
    BY <1>1, <1>3, <2>2, QuietStep DEF Written
  <2>5. Progress(p) => /\ Verified("binary", j)' /\ WrittenFiles("binary", j)'
                       /\ CopiedTrees("binary", j)'
    BY <1>1, <1>3, <2>1 DEF Progress, Verified, WrittenFiles, CopiedTrees, Written
  <2>6. QED
    BY <1>1, <1>3, <2>2, <2>3, <2>4, <2>5, RunningStep
<1>4. QED
  BY <1>2, <1>3 DEF ReadCandidate

LEMMA InstallBinaryInv ==
    ASSUME InstallInv, NEW p \in Procs, InstallBinary(p) PROVE InstallInv'
<1>1. PICK j : j = job[p]
  OBVIOUS
<1>2. /\ pc[p] = "binary" /\ pc[p] # "idle" /\ Goto(p, "manifest") /\ With(p, j)
      /\ prefix' = [prefix EXCEPT !.binary = j.binary] /\ fresh' = FALSE /\ begun' = begun + 1
      /\ UNCHANGED <<source, built, proofs, localKey, receipt, counts, mixed>>
  BY <1>1, JobOf DEF InstallBinary, Copied, checkout
<1>3. /\ j \in Jobs /\ JobInv("manifest", j) /\ "manifest" \in Steps /\ j.alone = job[p].alone
  BY <1>1, <1>2, JobOf DEF JobInv, Steps
<1>4. prefix' \in Prefixes /\ prefix'.binary = j.binary /\ prefix'.manifest = prefix.manifest
  BY <1>2, <1>3, JobOf DEF Prefixes, Jobs
<1>5. TypeOK'
  BY <1>2, <1>3, <1>4, CountsTyped, JobOf, Types
<1>6. OnlySignedBinaries'
  BY <1>3, <1>4 DEF OnlySignedBinaries, JobInv
<1>7. FreshInv'
  BY <1>2 DEF FreshInv
<1>8. ReceiptInv'
  BY <1>2, <1>4, CountsTyped DEF InstallInv, ReceiptInv
<1>9. Progress(p) => /\ Verified("manifest", j)' /\ WrittenFiles("manifest", j)'
                     /\ CopiedTrees("manifest", j)'
  BY <1>1, <1>2, <1>4, CountsTyped
     DEF Progress, Verified, WrittenFiles, CopiedTrees, Written
<1>10. QED
  BY <1>2, <1>3, <1>5, <1>6, <1>7, <1>8, <1>9, RunningStep

(* A step after the binary was installed, that keeps what was verified.    *)
LEMMA WrittenStep ==
    ASSUME InstallInv, NEW p \in Procs, pc[p] \in Written, NEW step \in Written,
           NEW j \in Jobs, Goto(p, step), With(p, j),
           j.key = job[p].key, j.manifest = job[p].manifest, j.binary = job[p].binary,
           j.alone = job[p].alone,
           UNCHANGED <<checkout, localKey, receipt, counts, mixed, fresh, begun>>,
           prefix' \in Prefixes, OnlySignedBinaries', FreshInv', ReceiptInv',
           Progress(p) => WrittenFiles(step, j)' /\ CopiedTrees(step, j)'
    PROVE  InstallInv'
<1>1. /\ pc[p] # "idle" /\ step \in Steps /\ JobInv(step, j)
      /\ UNCHANGED <<source, built, proofs>>
  BY JobOf DEF Written, Steps, JobInv, checkout
<1>2. TypeOK'
  BY <1>1, CountsTyped, JobOf, Types
<1>3. Progress(p) => Verified(step, j)'
  BY <1>1 DEF Progress, Verified, Written
<1>4. QED
  BY <1>1, <1>2, <1>3, RunningStep

LEMMA InstallManifestInv ==
    ASSUME InstallInv, NEW p \in Procs, InstallManifest(p) PROVE InstallInv'
<1>1. PICK j : j = job[p]
  OBVIOUS
<1>2. /\ pc[p] = "manifest" /\ Goto(p, "signature") /\ With(p, j) /\ j \in Jobs
      /\ prefix' = [prefix EXCEPT !.manifest = Signed[source]]
      /\ UNCHANGED <<checkout, localKey, receipt, counts, mixed, fresh, begun>>
  BY <1>1, JobOf DEF InstallManifest, Copied
<1>3. /\ prefix' \in Prefixes /\ prefix'.binary = prefix.binary
      /\ prefix'.manifest = Signed[source]
  BY <1>2, JobOf, ConstantTypes DEF Prefixes, Maybe
<1>4. "manifest" \in Written /\ "signature" \in Written
  BY DEF Written
<1>5. OnlySignedBinaries'
  BY <1>3 DEF InstallInv, OnlySignedBinaries
<1>6. ~fresh'
  BY <1>2, <1>4 DEF InstallInv, FreshInv
<1>7. ~mixed => prefix.binary = BinaryOf[Signed[source]] /\ begun > 0
  <2>1. ~mixed => Progress(p)
    BY <1>2 DEF InstallInv
  <2>2. Progress(p) => /\ prefix.binary = job[p].binary /\ begun > 0
                       /\ job[p].manifest = Signed[source]
    BY <1>2, <1>4 DEF Progress, WrittenFiles, Verified
  <2>3. job[p].binary = BinaryOf[job[p].manifest]
    BY <1>2, JobOf DEF JobInv
  <2>4. QED
    BY <2>1, <2>2, <2>3
<1>8. ReceiptInv'
  BY <1>2, <1>3, <1>7, CountsTyped DEF InstallInv, ReceiptInv
<1>9. Progress(p) => WrittenFiles("signature", j)' /\ CopiedTrees("signature", j)'
  BY <1>1, <1>2, <1>3 DEF Progress, WrittenFiles, CopiedTrees, Written, checkout
<1>10. FreshInv'
  BY <1>6 DEF FreshInv
<1>11. QED
  BY <1>1, <1>2, <1>3, <1>4, <1>5, <1>8, <1>9, <1>10, WrittenStep

LEMMA InstallSignatureInv ==
    ASSUME InstallInv, NEW p \in Procs, InstallSignature(p) PROVE InstallInv'
<1>1. PICK j : j = job[p]
  OBVIOUS
<1>2. /\ pc[p] = "signature" /\ Goto(p, "key") /\ With(p, j) /\ j \in Jobs
      /\ prefix' = [prefix EXCEPT !.signature = Signed[source]]
      /\ UNCHANGED <<checkout, localKey, receipt, counts, mixed, fresh, begun>>
  BY <1>1, JobOf DEF InstallSignature, Copied
<1>3. /\ prefix' \in Prefixes /\ prefix'.signature = Signed[source]
      /\ \A x \in {"binary", "manifest", "signature", "key", "repoKey", "sidecar", "proofs"} :
            x # "signature" => prefix'[x] = prefix[x]
  BY <1>2, JobOf, ConstantTypes DEF Prefixes, Maybe
<1>4. "signature" \in Written /\ "key" \in Written
  BY DEF Written
<1>5. OnlySignedBinaries' /\ FreshInv' /\ ReceiptInv'
  BY <1>2, <1>3, <1>4, WritingStep
<1>6. Progress(p) => WrittenFiles("key", j)' /\ CopiedTrees("key", j)'
  BY <1>1, <1>2, <1>3 DEF Progress, Verified, WrittenFiles, CopiedTrees, Written, checkout
<1>7. QED
  BY <1>1, <1>2, <1>3, <1>4, <1>5, <1>6, WrittenStep

LEMMA InstallKeyInv ==
    ASSUME InstallInv, NEW p \in Procs, InstallKey(p) PROVE InstallInv'
<1>1. PICK j : j = job[p]
  OBVIOUS
<1>2. /\ pc[p] = "key" /\ Goto(p, "repoKey") /\ With(p, j) /\ j \in Jobs
      /\ prefix' = [prefix EXCEPT !.key = localKey]
      /\ UNCHANGED <<checkout, localKey, receipt, counts, mixed, fresh, begun>>
  BY <1>1, JobOf DEF InstallKey, Copied
<1>3. /\ prefix' \in Prefixes /\ prefix'.key = localKey
      /\ \A x \in {"binary", "manifest", "signature", "key", "repoKey", "sidecar", "proofs"} :
            x # "key" => prefix'[x] = prefix[x]
  BY <1>2, JobOf, ConstantTypes DEF Prefixes, Maybe
<1>4. "key" \in Written /\ "repoKey" \in Written
  BY DEF Written
<1>5. OnlySignedBinaries' /\ FreshInv' /\ ReceiptInv'
  BY <1>2, <1>3, <1>4, WritingStep
<1>6. Progress(p) => WrittenFiles("repoKey", j)' /\ CopiedTrees("repoKey", j)'
  BY <1>1, <1>2, <1>3 DEF Progress, Verified, WrittenFiles, CopiedTrees, Written, checkout
<1>7. QED
  BY <1>1, <1>2, <1>3, <1>4, <1>5, <1>6, WrittenStep

LEMMA InstallRepoKeyInv ==
    ASSUME InstallInv, NEW p \in Procs, InstallRepoKey(p) PROVE InstallInv'
<1>1. PICK j : j = job[p]
  OBVIOUS
<1>2. /\ pc[p] = "repoKey" /\ Goto(p, "sidecar") /\ With(p, j) /\ j \in Jobs
      /\ prefix' = [prefix EXCEPT !.repoKey = KeyOf[source]]
      /\ UNCHANGED <<checkout, localKey, receipt, counts, mixed, fresh, begun>>
  BY <1>1, JobOf DEF InstallRepoKey, Copied
<1>3. /\ prefix' \in Prefixes /\ prefix'.repoKey = KeyOf[source]
      /\ \A x \in {"binary", "manifest", "signature", "key", "repoKey", "sidecar", "proofs"} :
            x # "repoKey" => prefix'[x] = prefix[x]
  BY <1>2, JobOf, ConstantTypes DEF Prefixes, Maybe
<1>4. "repoKey" \in Written /\ "sidecar" \in Written
  BY DEF Written
<1>5. OnlySignedBinaries' /\ FreshInv' /\ ReceiptInv'
  BY <1>2, <1>3, <1>4, WritingStep
<1>6. Progress(p) => WrittenFiles("sidecar", j)' /\ CopiedTrees("sidecar", j)'
  BY <1>1, <1>2, <1>3 DEF Progress, Verified, WrittenFiles, CopiedTrees, Written, checkout
<1>7. QED
  BY <1>1, <1>2, <1>3, <1>4, <1>5, <1>6, WrittenStep

LEMMA InstallSidecarInv ==
    ASSUME InstallInv, NEW p \in Procs, InstallSidecar(p) PROVE InstallInv'
<1>1. PICK j : j = job[p]
  OBVIOUS
<1>2. /\ pc[p] = "sidecar" /\ Goto(p, "cage") /\ With(p, j) /\ j \in Jobs
      /\ prefix' = [prefix EXCEPT !.sidecar = KeyOf[source]]
      /\ UNCHANGED <<checkout, localKey, receipt, counts, mixed, fresh, begun>>
  BY <1>1, JobOf DEF InstallSidecar, Copied
<1>3. /\ prefix' \in Prefixes /\ prefix'.sidecar = KeyOf[source]
      /\ \A x \in {"binary", "manifest", "signature", "key", "repoKey", "sidecar", "proofs"} :
            x # "sidecar" => prefix'[x] = prefix[x]
  BY <1>2, JobOf, ConstantTypes DEF Prefixes, Maybe
<1>4. "sidecar" \in Written /\ "cage" \in Written
  BY DEF Written
<1>5. OnlySignedBinaries' /\ FreshInv' /\ ReceiptInv'
  BY <1>2, <1>3, <1>4, WritingStep
<1>6. Progress(p) => WrittenFiles("cage", j)' /\ CopiedTrees("cage", j)'
  BY <1>1, <1>2, <1>3 DEF Progress, Verified, WrittenFiles, CopiedTrees, Written, checkout
<1>7. QED
  BY <1>1, <1>2, <1>3, <1>4, <1>5, <1>6, WrittenStep

(* An attestation is copied, or is not there.                              *)
LEMMA InstallCageInv ==
    ASSUME InstallInv, NEW p \in Procs, InstallCage(p) PROVE InstallInv'
<1>1. /\ pc[p] = "cage" /\ pc[p] # "idle"
      /\ UNCHANGED <<source, built, proofs, localKey, receipt, counts, mixed, fresh, begun>>
  BY DEF InstallCage, Copied, checkout
<1>2. CASE Halt(p) /\ UNCHANGED prefix
  BY <1>1, <1>2, CountsTyped, JobOf, HaltInv
<1>3. CASE /\ prefix' = [prefix EXCEPT !.proofs.cage = proofs.cage]
           /\ Goto(p, "qcage") /\ UNCHANGED job
  <2>1. PICK j : j = job[p]
    OBVIOUS
  <2>2. PICK to : to = [prefix.proofs EXCEPT !.cage = proofs.cage]
    OBVIOUS
  <2>3. With(p, j) /\ j \in Jobs /\ prefix' = [prefix EXCEPT !.proofs = to]
    BY <1>3, <2>1, <2>2, JobOf
  <2>4. to \in ProofType /\ to.cage = proofs.cage
    BY <2>2, JobOf DEF ProofType, Prefixes
  <2>5. /\ prefix' \in Prefixes /\ prefix'.proofs = to
        /\ \A x \in {"binary", "manifest", "signature", "key", "repoKey", "sidecar"} :
              prefix'[x] = prefix[x]
    BY <2>3, <2>4, JobOf DEF Prefixes
  <2>6. "cage" \in Written /\ "qcage" \in Written
    BY DEF Written
  <2>7. OnlySignedBinaries' /\ FreshInv' /\ ReceiptInv'
    BY <1>1, <2>5, <2>6, WritingStep
  <2>8. Progress(p) => WrittenFiles("qcage", j)' /\ CopiedTrees("qcage", j)'
    BY <1>1, <2>1, <2>4, <2>5 DEF Progress, WrittenFiles, CopiedTrees, Written
  <2>9. UNCHANGED <<checkout, localKey, receipt, counts, mixed, fresh, begun>>
    BY <1>1 DEF checkout
  <2>10. QED
    BY <1>1, <1>3, <2>1, <2>3, <2>5, <2>6, <2>7, <2>8, <2>9, WrittenStep
<1>4. QED
  BY <1>2, <1>3 DEF InstallCage

LEMMA InstallQcageInv ==
    ASSUME InstallInv, NEW p \in Procs, InstallQcage(p) PROVE InstallInv'
<1>1. /\ pc[p] = "qcage" /\ pc[p] # "idle"
      /\ UNCHANGED <<source, built, proofs, localKey, receipt, counts, mixed, fresh, begun>>
  BY DEF InstallQcage, Copied, checkout
<1>2. CASE Halt(p) /\ UNCHANGED prefix
  BY <1>1, <1>2, CountsTyped, JobOf, HaltInv
<1>3. CASE /\ prefix' = [prefix EXCEPT !.proofs.qcage = proofs.qcage]
           /\ Goto(p, "bundle")
           /\ With(p, [job[p] EXCEPT !.left = Listing(proofs.trees["bundle"])])
  <2>1. PICK j : j = [job[p] EXCEPT !.left = Listing(proofs.trees["bundle"])]
    OBVIOUS
  <2>2. PICK to : to = [prefix.proofs EXCEPT !.qcage = proofs.qcage]
    OBVIOUS
  <2>3. /\ With(p, j) /\ j \in Jobs /\ prefix' = [prefix EXCEPT !.proofs = to]
        /\ j.key = job[p].key /\ j.manifest = job[p].manifest /\ j.binary = job[p].binary
        /\ j.alone = job[p].alone /\ j.left = Listing(proofs.trees["bundle"])
    BY <1>3, <2>1, <2>2, JobOf DEF Listing, Jobs
  <2>4. to \in ProofType /\ to.qcage = proofs.qcage /\ to.cage = prefix.proofs.cage
    BY <2>2, JobOf DEF ProofType, Prefixes
  <2>5. /\ prefix' \in Prefixes /\ prefix'.proofs = to
        /\ \A x \in {"binary", "manifest", "signature", "key", "repoKey", "sidecar"} :
              prefix'[x] = prefix[x]
    BY <2>3, <2>4, JobOf DEF Prefixes
  <2>6. "qcage" \in Written /\ "bundle" \in Written
    BY DEF Written
  <2>7. OnlySignedBinaries' /\ FreshInv' /\ ReceiptInv'
    BY <1>1, <2>5, <2>6, WritingStep
  <2>8. Progress(p) => WrittenFiles("bundle", j)'
    BY <1>1, <2>3, <2>4, <2>5 DEF Progress, WrittenFiles, Written
  <2>9. CopiedTrees("bundle", j)'
    BY <1>1, <2>3 DEF CopiedTrees, CopiedTree
  <2>10. UNCHANGED <<checkout, localKey, receipt, counts, mixed, fresh, begun>>
    BY <1>1 DEF checkout
  <2>11. QED
    BY <1>1, <1>3, <2>3, <2>5, <2>6, <2>7, <2>8, <2>9, <2>10, WrittenStep
<1>4. QED
  BY <1>2, <1>3 DEF InstallQcage

(* A file of a tree is copied: one fewer is left.                          *)
LEMMA CopyFileInv ==
    ASSUME InstallInv, NEW p \in Procs, NEW t \in Trees, NEW f \in Names, CopyFile(p, t, f)
    PROVE  InstallInv'
<1>1. /\ pc[p] = t /\ pc[p] # "idle" /\ t \in Written /\ f \in job[p].left
      /\ UNCHANGED <<source, built, proofs, localKey, receipt, counts, mixed, fresh, begun>>
  BY DEF CopyFile, Copied, checkout, Trees, Written
<1>2. CASE Halt(p) /\ UNCHANGED prefix
  BY <1>1, <1>2, CountsTyped, JobOf, HaltInv
<1>3. CASE /\ prefix' = [prefix EXCEPT !.proofs.trees[t][f] = proofs.trees[t][f]]
           /\ With(p, [job[p] EXCEPT !.left = @ \ {f}])
           /\ UNCHANGED pc
  <2> DEFINE T == [Names -> Maybe(Releases) \cup {Temp}]
  <2>1. PICK j : j = [job[p] EXCEPT !.left = @ \ {f}]
    OBVIOUS
  <2>2. PICK tree : tree = [prefix.proofs.trees[t] EXCEPT ![f] = proofs.trees[t][f]]
    OBVIOUS
  <2>3. PICK trees : trees = [prefix.proofs.trees EXCEPT ![t] = tree]
    OBVIOUS
  <2>4. PICK to : to = [prefix.proofs EXCEPT !.trees = trees]
    OBVIOUS
  <2>5. /\ With(p, j) /\ j \in Jobs /\ Goto(p, t)
        /\ j.key = job[p].key /\ j.manifest = job[p].manifest /\ j.binary = job[p].binary
        /\ j.alone = job[p].alone /\ j.left = job[p].left \ {f}
    BY <1>1, <1>3, <2>1, JobOf DEF Jobs
  <2>6. /\ prefix.proofs \in ProofType /\ prefix.proofs.trees \in [Trees -> T]
        /\ prefix.proofs.trees[t] \in T /\ proofs.trees[t][f] \in Maybe(Releases) \cup {Temp}
    BY JobOf DEF Prefixes, ProofType
  <2> HIDE DEF T
  <2>7. /\ tree \in T /\ tree[f] = proofs.trees[t][f]
        /\ \A g \in Names \ {f} : tree[g] = prefix.proofs.trees[t][g]
    BY <2>2, <2>6 DEF T
  <2>8. /\ trees \in [Trees -> T] /\ trees[t] = tree
        /\ \A u \in Trees \ {t} : trees[u] = prefix.proofs.trees[u]
    BY <2>3, <2>6, <2>7
  <2>9. /\ to \in ProofType /\ to.cage = prefix.proofs.cage /\ to.qcage = prefix.proofs.qcage
        /\ to.trees = trees
    BY <2>4, <2>6, <2>8 DEF ProofType, T
  <2>10. prefix' = [prefix EXCEPT !.proofs = to]
    BY <1>3, <2>2, <2>3, <2>4
  <2>11. /\ prefix' \in Prefixes /\ prefix'.proofs = to
         /\ \A x \in {"binary", "manifest", "signature", "key", "repoKey", "sidecar"} :
               prefix'[x] = prefix[x]
    BY <2>9, <2>10, JobOf DEF Prefixes
  <2>12. OnlySignedBinaries' /\ FreshInv' /\ ReceiptInv'
    BY <1>1, <2>11, WritingStep
  <2>13. Progress(p) => WrittenFiles(t, j)'
    BY <1>1, <2>5, <2>9, <2>11 DEF Progress, WrittenFiles, Written, Trees
  <2>14. ASSUME Progress(p) PROVE CopiedTrees(t, j)'
    <3>1. \A u \in Trees : Listing(proofs.trees[u]) \subseteq Names
      BY DEF Listing
    <3>2. CopiedTree(prefix.proofs, proofs, t, job[p].left)
      BY <1>1, <2>14 DEF Progress, CopiedTrees, Trees
    <3>3. CopiedTree(to, proofs, t, job[p].left \ {f})
      BY <2>7, <2>8, <2>9, <3>1, <3>2 DEF CopiedTree
    <3>4. t = "ledger" => CopiedTree(prefix.proofs, proofs, "bundle", {})
      BY <1>1, <2>14 DEF Progress, CopiedTrees
    <3>5. t = "ledger" => CopiedTree(to, proofs, "bundle", {})
      BY <2>8, <2>9, <3>4 DEF CopiedTree, Trees
    <3>6. QED
      BY <1>1, <2>5, <2>11, <3>3, <3>5 DEF CopiedTrees, Trees
  <2>15. UNCHANGED <<checkout, localKey, receipt, counts, mixed, fresh, begun>>
    BY <1>1 DEF checkout
  <2>16. QED
    BY <1>1, <2>5, <2>11, <2>12, <2>13, <2>14, <2>15, WrittenStep
<1>4. QED
  BY <1>2, <1>3 DEF CopyFile

LEMMA EndBundleInv ==
    ASSUME InstallInv, NEW p \in Procs, EndBundle(p) PROVE InstallInv'
<1>1. /\ pc[p] = "bundle" /\ pc[p] # "idle" /\ job[p].left = {}
      /\ UNCHANGED <<source, built, proofs, localKey, prefix, receipt, counts, mixed, fresh,
                     begun>>
  BY DEF EndBundle, Copied, checkout
<1>2. CASE Halt(p)
  BY <1>1, <1>2, CountsTyped, JobOf, HaltInv
<1>3. CASE /\ Goto(p, "ledger")
           /\ With(p, [job[p] EXCEPT !.left = Listing(proofs.trees["ledger"])])
  <2>1. PICK j : j = [job[p] EXCEPT !.left = Listing(proofs.trees["ledger"])]
    OBVIOUS
  <2>2. /\ With(p, j) /\ j \in Jobs
        /\ j.key = job[p].key /\ j.manifest = job[p].manifest /\ j.binary = job[p].binary
        /\ j.alone = job[p].alone /\ j.left = Listing(proofs.trees["ledger"])
    BY <1>3, <2>1, JobOf DEF Listing, Jobs
  <2>3. "bundle" \in Written /\ "ledger" \in Written
    BY DEF Written
  <2>4. OnlySignedBinaries' /\ FreshInv' /\ ReceiptInv'
    BY <1>1, <2>3, WritingStep
  <2>5. Progress(p) => WrittenFiles("ledger", j)'
    BY <1>1, <2>2 DEF Progress, WrittenFiles, Written
  <2>6. Progress(p) => CopiedTrees("ledger", j)'
    BY <1>1, <2>2 DEF Progress, CopiedTrees, CopiedTree
  <2>7. UNCHANGED <<checkout, localKey, receipt, counts, mixed, fresh, begun>>
    BY <1>1 DEF checkout
  <2>8. QED
    BY <1>1, <1>3, <2>2, <2>3, <2>4, <2>5, <2>6, <2>7, JobOf, WrittenStep
<1>4. QED
  BY <1>2, <1>3 DEF EndBundle

LEMMA EndLedgerInv ==
    ASSUME InstallInv, NEW p \in Procs, EndLedger(p) PROVE InstallInv'
<1>1. PICK j : j = [job[p] EXCEPT !.hashes = proofs]
  OBVIOUS
<1>2. /\ pc[p] = "ledger" /\ job[p].left = {} /\ Goto(p, "receipt") /\ With(p, j)
      /\ UNCHANGED <<checkout, source, proofs, localKey, prefix, receipt, counts, mixed, fresh,
                     begun>>
  BY <1>1 DEF EndLedger, Internal, checkout
<1>3. /\ j \in Jobs
      /\ j.key = job[p].key /\ j.manifest = job[p].manifest /\ j.binary = job[p].binary
      /\ j.alone = job[p].alone /\ j.hashes = proofs
  BY <1>1, JobOf DEF Jobs
<1>4. "receipt" \in Written /\ "ledger" \in Written
  BY DEF Written
<1>5. OnlySignedBinaries' /\ FreshInv' /\ ReceiptInv'
  BY <1>2, <1>4, WritingStep
<1>6. Progress(p) => WrittenFiles("receipt", j)'
  BY <1>2, <1>3 DEF Progress, WrittenFiles, Written
<1>7. Progress(p) => CopiedTrees("receipt", j)'
  BY <1>2, <1>3 DEF Progress, CopiedTrees, CopiedTree
<1>8. QED
  BY <1>2, <1>3, <1>4, <1>5, <1>6, <1>7, JobOf, WrittenStep

(* The receipt is for what is in the prefix, when nothing came between.    *)
LEMMA WriteReceiptInv ==
    ASSUME InstallInv, NEW p \in Procs, WriteReceipt(p) PROVE InstallInv'
<1>1. /\ pc[p] = "receipt" /\ pc[p] # "idle"
      /\ receipt' = [binary |-> job[p].binary, key |-> job[p].key, proofs |-> job[p].hashes]
      /\ fresh' = job[p].alone /\ begun' = 0
      /\ Goto(p, "idle") /\ With(p, NoJob) /\ NoJob \in Jobs /\ "idle" \in Steps
      /\ UNCHANGED <<source, built, proofs, localKey, prefix, counts, mixed>>
  BY ConstantTypes DEF WriteReceipt, Halt, checkout, Steps
<1>2. /\ job[p].key \in Keys /\ job[p].binary = BinaryOf[job[p].manifest]
      /\ job[p].manifest \in Releases /\ job[p].hashes \in ProofType /\ job[p].alone \in BOOLEAN
  BY <1>1, JobOf, ConstantTypes DEF JobInv, Jobs
<1>3. receipt' \in Receipts /\ receipt' \in Maybe(Receipts)
  BY <1>1, <1>2, ConstantTypes DEF Receipts, Maybe
<1>4. TypeOK'
  <2>1. /\ counts' \in Nat \X Nat \X Nat /\ begun' \in Nat /\ fresh' \in BOOLEAN
        /\ mixed' \in BOOLEAN
    BY <1>1, <1>2, CountsTyped
  <2>2. /\ source' \in Releases /\ built' \in Maybe(Binaries) /\ proofs' \in ProofType
        /\ localKey' \in Maybe(Keys) /\ prefix' \in Prefixes
    BY <1>1, JobOf
  <2>3. QED
    BY <1>1, <1>3, <2>1, <2>2, Types
<1>5. OnlySignedBinaries'
  BY <1>1 DEF InstallInv, OnlySignedBinaries
<1>6. receipt' # None
  BY <1>3, ReceiptAssumption
<1>7. FreshInv'
  <2>1. CASE ~job[p].alone
    BY <1>1, <2>1 DEF FreshInv
  <2>2. CASE job[p].alone
    <3>1. Progress(p)
      BY <1>1, <2>2 DEF InstallInv
    <3>2. \A q \in Procs : pc'[q] \notin Written
      BY <1>1, <3>1, JobOf DEF Goto, Progress, Written
    <3>3. /\ prefix.binary = job[p].binary /\ prefix.key = job[p].key
          /\ prefix.repoKey = prefix.key /\ prefix.sidecar = prefix.key
          /\ prefix.manifest = Signed[source] /\ prefix.signature = Signed[source]
          /\ KeyOf[Signed[source]] = prefix.key
          /\ prefix.proofs.cage = proofs.cage /\ prefix.proofs.qcage = proofs.qcage
          /\ job[p].hashes = proofs
      BY <1>1, <3>1 DEF Progress, Verified, WrittenFiles, CopiedTrees, Written
    <3>4. \A t \in Trees : CopiedTree(prefix.proofs, proofs, t, {})
      BY <1>1, <3>1 DEF Progress, CopiedTrees, Trees
    <3>5. Signed[source] # None
      BY ConstantTypes, JobOf, NoneAssumption
    <3>6. \A t \in Trees : CopiedTree(prefix.proofs, receipt.proofs, t, {})'
      BY <1>1, <3>3, <3>4 DEF CopiedTree
    <3>7. QED
      BY <1>1, <1>6, <3>2, <3>3, <3>5, <3>6 DEF FreshInv
  <2>3. QED
    BY <1>2, <2>1, <2>2
<1>8. ReceiptInv'
  <2>1. SUFFICES ASSUME ~mixed PROVE ReceiptInv'
    BY <1>1 DEF ReceiptInv
  <2>2. Progress(p)
    BY <1>1, <2>1 DEF InstallInv
  <2>3. /\ prefix.binary = job[p].binary /\ job[p].binary = BinaryOf[source]
        /\ prefix.manifest = Signed[source] /\ job[p].manifest = Signed[source]
        /\ job[p].hashes = proofs /\ MadeOf(proofs, source)
    BY <1>1, <2>2 DEF Progress, Verified, WrittenFiles, CopiedTrees, Written
  <2>4. source \in Releases
    BY JobOf
  <2>5. QED
    BY <1>1, <1>2, <2>3, <2>4 DEF ReceiptInv
<1>9. JobInv("idle", NoJob)
  BY DEF JobInv
<1>10. QED
  BY <1>1, <1>4, <1>5, <1>7, <1>8, <1>9, RunningStep

-----------------------------------------------------------------------------
(* What disturbs the installs that run: no install is alone any more.      *)
LEMMA DisturbedJobs ==
    ASSUME InstallInv
    PROVE  /\ Disturbed(job) \in [Procs -> Jobs]
           /\ \A q \in Procs : /\ JobInv(pc[q], Disturbed(job)[q])
                               /\ ~Disturbed(job)[q].alone
<1>1. ASSUME NEW q \in Procs
      PROVE  /\ [job[q] EXCEPT !.alone = FALSE] \in Jobs
             /\ [job[q] EXCEPT !.alone = FALSE].alone = FALSE
             /\ JobInv(pc[q], [job[q] EXCEPT !.alone = FALSE])
  <2>1. PICK j : j = [job[q] EXCEPT !.alone = FALSE]
    OBVIOUS
  <2>2. /\ j \in Jobs /\ j.alone = FALSE /\ j.key = job[q].key
        /\ j.manifest = job[q].manifest /\ j.binary = job[q].binary
    BY <2>1, JobOf DEF Jobs
  <2>3. JobInv(pc[q], j)
    BY <2>2, JobOf DEF JobInv
  <2>4. QED
    BY <2>1, <2>2, <2>3
<1>2. QED
  BY <1>1 DEF Disturbed

LEMMA ChangedInv ==
    ASSUME InstallInv, Changed, source' \in Releases, built' \in Maybe(Binaries),
           proofs' \in ProofType
    PROVE  InstallInv'
<1>1. /\ job' = Disturbed(job) /\ mixed' = (mixed \/ Running # {}) /\ changes' = changes + 1
      /\ UNCHANGED <<localKey, prefix, receipt, pc, installs, stops, fresh, begun>>
  BY DEF Changed
<1>2. TypeOK'
  BY <1>1, DisturbedJobs DEF InstallInv, TypeOK
<1>3. \A q \in Procs : JobInv(pc[q], job[q])'
  BY <1>1, DisturbedJobs
<1>4. \A q \in Procs : ~job'[q].alone
  BY <1>1, DisturbedJobs
<1>5. ~mixed' => ~mixed /\ \A q \in Procs : pc'[q] = "idle"
  BY <1>1 DEF Running, InstallInv, TypeOK
<1>6. OnlySignedBinaries' /\ FreshInv' /\ ReceiptInv'
  BY <1>1, <1>5 DEF InstallInv, OnlySignedBinaries, FreshInv, ReceiptInv
<1>7. QED
  BY <1>2, <1>3, <1>4, <1>5, <1>6 DEF InstallInv

LEMMA CheckoutInv ==
    ASSUME InstallInv, Make \/ Clean \/ \E r \in Releases : Update(r) PROVE InstallInv'
<1>1. CASE Make
  <2>1. WithLedger(WithAttestations(proofs)) \in ProofType
    <3>1. TypeOK /\ proofs \in ProofType
      BY DEF InstallInv, TypeOK
    <3>2. WithAttestations(proofs) \in ProofType
      BY <3>1, MadeTypes
    <3>3. QED
      BY <3>1, <3>2, MadeTypes
  <2>2. BinaryOf[source] \in Maybe(Binaries) /\ source \in Releases
    BY ConstantTypes DEF InstallInv, TypeOK, Maybe
  <2>3. QED
    BY <1>1, <2>1, <2>2, ChangedInv DEF Make
<1>2. CASE Clean
  <2>1. NoProofs \in ProofType /\ None \in Maybe(Binaries) /\ source \in Releases
    BY ConstantTypes DEF InstallInv, TypeOK, Maybe
  <2>2. QED
    BY <1>2, <2>1, ChangedInv DEF Clean
<1>3. ASSUME NEW r \in Releases, Update(r) PROVE InstallInv'
  <2>1. /\ NoProofs \in ProofType /\ None \in Maybe(Binaries)
        /\ built \in Maybe(Binaries) /\ proofs \in ProofType
    BY ConstantTypes DEF InstallInv, TypeOK, Maybe
  <2>2. QED
    BY <1>3, <2>1, ChangedInv DEF Update
<1>4. QED
  BY <1>1, <1>2, <1>3

LEMMA StartedInv ==
    ASSUME InstallInv, NEW p \in Procs, StartInstall(p) \/ StartBootstrap(p)
    PROVE  InstallInv'
<1>1. PICK j : j = [NoJob EXCEPT !.alone = (Running = {})]
  OBVIOUS
<1>2. /\ pc[p] = "idle" /\ Goto(p, "trust") /\ job' = [Disturbed(job) EXCEPT ![p] = j]
      /\ mixed' = (mixed \/ Running # {}) /\ installs' = installs + 1
      /\ localKey' \in {localKey, KeyOf[source]}
      /\ UNCHANGED <<source, built, proofs, prefix, receipt, changes, stops, fresh, begun>>
  BY <1>1 DEF StartInstall, StartBootstrap, Started, checkout
<1>3. /\ j \in Jobs /\ j.alone = (Running = {}) /\ JobInv("trust", j) /\ "trust" \in Steps
  BY <1>1, ConstantTypes DEF NoJob, Jobs, JobInv, Steps
<1>4. localKey' \in Maybe(Keys) /\ pc' \in [Procs -> Steps] /\ job' \in [Procs -> Jobs]
  BY <1>2, <1>3, DisturbedJobs, ConstantTypes, JobOf DEF Goto, Maybe
<1>5. TypeOK'
  BY <1>2, <1>4 DEF InstallInv, TypeOK
<1>6. /\ job'[p] = j /\ pc'[p] = "trust"
      /\ \A q \in Procs \ {p} : pc'[q] = pc[q] /\ job'[q] = Disturbed(job)[q]
  BY <1>2, DisturbedJobs, JobOf DEF Goto
<1>7. \A q \in Procs : JobInv(pc[q], job[q])'
  <2>1. \A q \in Procs : JobInv(pc'[q], job'[q])
    BY <1>3, <1>6, DisturbedJobs
  <2>2. QED
    BY <2>1
<1>8. Running = {} => \A q \in Procs \ {p} : pc'[q] = "idle"
  BY <1>6 DEF Running
<1>9. \A q \in Procs : pc'[q] # "idle" /\ job'[q].alone => Progress(q)'
  <2>1. SUFFICES ASSUME NEW q \in Procs, pc'[q] # "idle", job'[q].alone PROVE Progress(q)'
    OBVIOUS
  <2>2. q = p /\ Running = {}
    BY <1>3, <1>6, <2>1, DisturbedJobs
  <2>3. Verified("trust", j)' /\ WrittenFiles("trust", j)' /\ CopiedTrees("trust", j)'
    BY DEF Verified, WrittenFiles, CopiedTrees, Written
  <2>4. QED
    BY <1>6, <1>8, <2>2, <2>3 DEF Progress
<1>10. ~mixed' => \A q \in Procs : pc'[q] # "idle" => job'[q].alone
  BY <1>2, <1>3, <1>6, <1>8
<1>11. OnlySignedBinaries' /\ FreshInv' /\ ReceiptInv'
  <2>1. \A q \in Procs : pc'[q] \in Written => pc[q] \in Written
    BY <1>6 DEF Written
  <2>2. QED
    BY <1>2, <2>1 DEF InstallInv, OnlySignedBinaries, FreshInv, ReceiptInv
<1>12. QED
  BY <1>5, <1>7, <1>9, <1>10, <1>11 DEF InstallInv

LEMMA InitInstall == Init => InstallInv
<1>1. SUFFICES ASSUME Init PROVE InstallInv
  OBVIOUS
<1>2. TypeOK
  <2>1. First \in Releases /\ KeyOf[First] \in Keys
    BY ReleasesAssumption
  <2>2. localKey \in Maybe(Keys) /\ receipt \in Maybe(Receipts) /\ built \in Maybe(Binaries)
    BY <1>1, <2>1 DEF Init, Maybe
  <2>3. "idle" \in Steps
    BY DEF Steps
  <2>4. pc \in [Procs -> Steps] /\ job \in [Procs -> Jobs]
    BY <1>1, <2>3, ConstantTypes DEF Init
  <2>5. QED
    BY <1>1, <2>1, <2>2, <2>4, ConstantTypes DEF Init, TypeOK
<1>3. prefix.binary = None /\ \A p \in Procs : pc[p] = "idle"
  BY <1>1 DEF Init, NoPrefix
<1>4. fresh = FALSE /\ receipt = None
  BY <1>1 DEF Init
<1>5. OnlySignedBinaries /\ FreshInv /\ ReceiptInv
  BY <1>3, <1>4 DEF OnlySignedBinaries, FreshInv, ReceiptInv
<1>6. \A p \in Procs : JobInv(pc[p], job[p])
  BY <1>3 DEF JobInv
<1>7. QED
  BY <1>2, <1>3, <1>5, <1>6 DEF InstallInv

LEMMA StutterInstall == InstallInv /\ UNCHANGED vars => InstallInv'
BY
   DEF vars, checkout, counts, InstallInv, TypeOK, Progress, Verified, WrittenFiles,
       CopiedTrees,
       CopiedTree, OnlySignedBinaries, FreshInv, ReceiptInv, MadeOf

LEMMA StepInstall == InstallInv /\ [Next]_vars => InstallInv'
<1>1. SUFFICES ASSUME InstallInv, Next PROVE InstallInv'
  BY StutterInstall
<1>2. ASSUME NEW p \in Procs, Install(p) PROVE InstallInv'
  <2>1. CASE StartInstall(p) \/ StartBootstrap(p) \/ VerifyManifest(p) \/ VerifyDigest(p)
    BY <1>1, <2>1, StartedInv, CheckSteps
  <2>2. CASE MakeAttestations(p) \/ MakeLedger(p) \/ ReadCandidate(p) \/ InstallBinary(p)
    BY <1>1, <2>2, MakeSteps, ReadCandidateInv, InstallBinaryInv
  <2>3. CASE InstallManifest(p) \/ InstallSignature(p) \/ InstallKey(p) \/ InstallRepoKey(p)
    BY <1>1, <2>3, InstallManifestInv, InstallSignatureInv, InstallKeyInv, InstallRepoKeyInv
  <2>4. CASE InstallSidecar(p) \/ InstallCage(p) \/ InstallQcage(p)
    BY <1>1, <2>4, InstallSidecarInv, InstallCageInv, InstallQcageInv
  <2>5. CASE \E t \in Trees, f \in Names : CopyFile(p, t, f)
    BY <1>1, <2>5, CopyFileInv
  <2>6. CASE EndBundle(p) \/ EndLedger(p) \/ WriteReceipt(p) \/ Stop(p)
    BY <1>1, <2>6, EndBundleInv, EndLedgerInv, WriteReceiptInv, StoppedInv
  <2>7. QED
    BY <1>2, <2>1, <2>2, <2>3, <2>4, <2>5, <2>6 DEF Install
<1>3. QED
  BY <1>1, <1>2, CheckoutInv DEF Next

(* The invariant that holds the other results together.                    *)
THEOREM InstallIsSound == Spec => []InstallInv
<1>1. QED
  BY InitInstall, StepInstall, PTL DEF Spec

(* The variables of the installer keep their types.                        *)
THEOREM InstallTyped == Spec => []TypeOK
<1>1. InstallInv => TypeOK
  BY DEF InstallInv
<1>2. QED
  BY <1>1, InstallIsSound, PTL

(* Installs that overlap, stop and race changes of the checkout install no *)
(* binary that no signed manifest names (perform_install, install_files).  *)
THEOREM InstallsSigned == Spec => []OnlySignedBinaries
<1>1. InstallInv => OnlySignedBinaries
  BY DEF InstallInv
<1>2. QED
  BY <1>1, InstallIsSound, PTL

LEMMA OneRelease == InstallInv => AuditedIsOneRelease
<1>1. SUFFICES ASSUME InstallInv, AuditPasses, ~mixed
               PROVE  /\ \E r \in Releases :
                           /\ prefix.binary = BinaryOf[r]
                           /\ prefix.proofs.cage = r /\ prefix.proofs.qcage = r
                           /\ \A t \in Trees : \A f \in TreeFiles[t][r] :
                                 prefix.proofs.trees[t][f] = r
                      /\ begun <= 1 => prefix.binary = BinaryOf[prefix.manifest]
  BY DEF AuditedIsOneRelease
<1>2. receipt # None /\ prefix.binary = receipt.binary /\ prefix.proofs = receipt.proofs
  BY <1>1 DEF AuditPasses
<1>3. QED
  BY <1>1, <1>2 DEF InstallInv, ReceiptInv, MadeOf

(* Without overlap, a prefix that passes the audit is of one release, after*)
(* installs that stopped at any step (run_audit, install_files).           *)
THEOREM AuditSound == Spec => []AuditedIsOneRelease
<1>1. QED
  BY OneRelease, InstallIsSound, PTL

LEMMA FreshPasses == InstallInv => FinishedInstallPasses
<1>1. SUFFICES ASSUME InstallInv, fresh
               PROVE  AuditPasses <=>
                         \A t \in Trees : Listing(prefix.proofs.trees[t])
                                          \subseteq Listing(receipt.proofs.trees[t])
  BY DEF FinishedInstallPasses
<1> DEFINE T == [Names -> Maybe(Releases) \cup {Temp}]
<1>2. /\ prefix.proofs \in ProofType /\ receipt \in Receipts /\ receipt.proofs \in ProofType
  BY <1>1 DEF InstallInv, TypeOK, FreshInv, Prefixes, Receipts, Maybe
<1>3. /\ prefix.proofs.trees \in [Trees -> T] /\ receipt.proofs.trees \in [Trees -> T]
  BY <1>2 DEF ProofType
<1>4. /\ prefix.proofs.cage = receipt.proofs.cage /\ prefix.proofs.qcage = receipt.proofs.qcage
      /\ \A t \in Trees : CopiedTree(prefix.proofs, receipt.proofs, t, {})
      /\ AuditPasses <=> prefix.proofs = receipt.proofs
  BY <1>1 DEF InstallInv, FreshInv, AuditPasses
<1>5. ASSUME \A t \in Trees : Listing(prefix.proofs.trees[t])
                              \subseteq Listing(receipt.proofs.trees[t])
      PROVE  prefix.proofs = receipt.proofs
  <2>1. ASSUME NEW t \in Trees PROVE prefix.proofs.trees[t] = receipt.proofs.trees[t]
    <3>1. prefix.proofs.trees[t] \in T /\ receipt.proofs.trees[t] \in T
      BY <1>3
    <3>2. \A f \in Names : prefix.proofs.trees[t][f] = receipt.proofs.trees[t][f]
      BY <1>4, <1>5 DEF CopiedTree, Listing
    <3>3. QED
      BY <3>1, <3>2
  <2>2. prefix.proofs.trees = receipt.proofs.trees
    BY <1>3, <2>1
  <2>3. QED
    BY <1>2, <1>4, <2>2 DEF ProofType
<1>6. QED
  BY <1>4, <1>5

(* An install that finished undisturbed passes the audit exactly when its  *)
(* trees hold nothing more than build/ does (run_audit, hash_tree_sha512). *)
THEOREM FinishedPasses == Spec => []FinishedInstallPasses
<1>1. QED
  BY FreshPasses, InstallIsSound, PTL
=============================================================================
