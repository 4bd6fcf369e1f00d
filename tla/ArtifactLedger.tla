---------------------------- MODULE ArtifactLedger ----------------------------
(***************************************************************************)
(* WUCI-LEDGER (tools/wuci_ledger.py): a directory with one file per entry *)
(* (entries/<n>), one per head (heads/<n>), copies of the latest entry,    *)
(* the latest head and the head before it, and a lock file.                *)
(*                                                                         *)
(* Commands are processes of their own. append holds the lock file, which  *)
(* it creates exclusively and removes when it leaves, by return or by      *)
(* error; a killed append leaves it. init and the readers take no lock,    *)
(* and init --force removes the directory with whatever is in it.          *)
(* A step here is one read, one listing or one write of one file. Files    *)
(* written new may be left torn; replaced files are old or new.            *)
(***************************************************************************)
EXTENDS Integers, Sequences, FiniteSets

CONSTANTS
    Procs,       \* processes, each running one command at a time
    Bundles,     \* witness bundles
    Starts,      \* sequences of bundles already appended when the model starts
    None,        \* no file, no value
    Torn,        \* what is left of a file whose writing was cut short
    MaxSize,     \* bound: entries of the ledger
    MaxCommands, \* bound: commands started
    MaxFaults    \* bound: commands killed, and steps that fail

ASSUME BoundsAssumption == MaxSize \in Nat /\ MaxCommands \in Nat /\ MaxFaults \in Nat
ASSUME StartsAssumption == \A s \in Starts : s \in Seq(Bundles) /\ Len(s) <= MaxSize

VARIABLES
    lock,         \* the lock file exists
    made,         \* the directory holds something else than the lock
    entries,      \* entries[n]: the entry in entries/<n>
    heads,        \* heads[n]: the head in heads/<n>
    latestEntry, latestHead, previousHead, \* the three copies
    pc, job,      \* the command each process runs
    commands, faults,
    proof,        \* the proof written last
    verdict,      \* what verify-history said last
    published,    \* history: every head latestHead has held
    forced,       \* history: init --force has removed a ledger
    disturbed     \* history: readers during whose run a writer ran

files == <<lock, made, entries, heads, latestEntry, latestHead, previousHead>>
outputs == <<proof, verdict>>
history == <<published, forced, disturbed>>
vars == <<files, pc, job, commands, faults, outputs, history>>

-----------------------------------------------------------------------------
(***************************************************************************)
(* Entries, heads and the tree over the entries.                           *)
(***************************************************************************)
Positions == 0 .. MaxSize - 1
Sizes == 0 .. MaxSize
Entry == [sequence : Positions, bundle : Bundles]

INSTANCE MerkleTree WITH Leaves <- Entry

(* The first n entries that are stored, as the sequence the tree is over.  *)
Stored(n) == [i \in 1 .. n |-> entries[i - 1]]
LogOf(s) == [i \in 1 .. Len(s) |-> [sequence |-> i - 1, bundle |-> s[i]]]
Logs == {LogOf(s) : s \in UNION {[1 .. n -> Bundles] : n \in Sizes}}
Roots == {merkle_root[s] : s \in Logs}

(* load_entries_for_size: the listing is exact and every file parses.      *)
Listed(files_, n) == {i \in DOMAIN files_ : files_[i] # None} = 0 .. n - 1
Loads(n) == Listed(entries, n) /\ \A i \in 0 .. n - 1 : entries[i] # Torn

(* root_for_entries *)
RootFor(n) == merkle_root[Stored(n)]

(* The root of no entries is EmptyRoot. *)
init_head ==
    [size |-> 0, root |-> merkle_root[<<>>], prevSize |-> 0, prevRoot |-> None,
     entry |-> None]

(* Mutant: the root is that of the tree before the append. *)
HeadAfterOldRoot(old, entry) ==
    [size |-> old.size + 1, root |-> RootFor(old.size),
     prevSize |-> old.size, prevRoot |-> old.root, entry |-> entry]

HeadAfter(old, entry) ==
    [size |-> old.size + 1, root |-> RootFor(old.size + 1),
     prevSize |-> old.size, prevRoot |-> old.root, entry |-> entry]

Readable(file) == file \notin {None, Torn}

(* load_heads_for_size and the chain of run_verify_history, for the heads  *)
(* now stored and the entries read before.                                 *)
Chained(log, n) ==
    /\ Listed(heads, n + 1)
    /\ \A i \in 0 .. n : heads[i] # Torn
    /\ \A i \in 0 .. n :
        /\ heads[i].size = i
        /\ heads[i].root = merkle_root[SubSeq(log, 1, i)]
        /\ i = 0 => heads[i].prevSize = 0 /\ heads[i].prevRoot = None /\ heads[i].entry = None
        /\ i > 0 => /\ heads[i].prevSize = i - 1
                    /\ heads[i].prevRoot = heads[i - 1].root
                    /\ heads[i].entry = log[i]

-----------------------------------------------------------------------------
(***************************************************************************)
(* Processes. A job holds, for an append: the bundle, the head it read and *)
(* the head it makes. For a reader: the head it read, the entries and the  *)
(* head before it (old) it has loaded, and the sequence asked for.         *)
(***************************************************************************)
LockedSteps == {"head", "list", "entry", "latestEntry", "root", "previous", "latest",
                "numbered", "unlock"}
InitSteps == {"check", "mkdirs", "head0", "numbered0"}
VerifySteps == {"vHead", "vEntries", "vHeads", "vPrevious", "vLatestEntry"}
InclusionSteps == {"iHead", "iEntries"}
Writers == LockedSteps \cup InitSteps
Readers == VerifySteps \cup InclusionSteps

NoJob == [bundle |-> None, head |-> None, new |-> None, log |-> <<>>, old |-> None,
          sequence |-> 0]

Running(steps) == {p \in Procs : pc[p] \in steps}

Goto(p, step, j) ==
    /\ pc' = [pc EXCEPT ![p] = step]
    /\ job' = [job EXCEPT ![p] = j]

Stop(p) == Goto(p, "idle", NoJob)

Counted(p) == pc[p] = "idle" /\ commands < MaxCommands /\ commands' = commands + 1

(* A ledger whose appends have all returned: what s was appended to it.    *)
HeadOf(s, n) ==
    IF n = 0 THEN init_head
    ELSE [size |-> n, root |-> merkle_root[SubSeq(LogOf(s), 1, n)],
          prevSize |-> n - 1, prevRoot |-> merkle_root[SubSeq(LogOf(s), 1, n - 1)],
          entry |-> LogOf(s)[n]]

Init ==
    /\ lock = FALSE
    /\ \/ /\ made = FALSE
          /\ entries = [i \in Positions |-> None]
          /\ heads = [i \in Sizes |-> None]
          /\ latestEntry = None /\ latestHead = None /\ previousHead = None
       \/ \E s \in Starts :
          /\ made = TRUE
          /\ entries = [i \in Positions |-> IF i < Len(s) THEN LogOf(s)[i + 1] ELSE None]
          /\ heads = [i \in Sizes |-> IF i <= Len(s) THEN HeadOf(s, i) ELSE None]
          /\ latestEntry = IF s = <<>> THEN None ELSE LogOf(s)[Len(s)]
          /\ latestHead = HeadOf(s, Len(s))
          /\ previousHead = IF s = <<>> THEN None ELSE HeadOf(s, Len(s) - 1)
    /\ pc = [p \in Procs |-> "idle"]
    /\ job = [p \in Procs |-> NoJob]
    /\ commands = 0 /\ faults = 0
    /\ proof = None /\ verdict = None
    /\ published = {heads[i] : i \in Sizes} \ {None}
    /\ forced = FALSE /\ disturbed = {}

-----------------------------------------------------------------------------
(***************************************************************************)
(* init. Two inits, or an init and an append, may run at once: the files   *)
(* of a new ledger are created exclusively.                                *)
(***************************************************************************)
StartInit(p) ==
    /\ Counted(p)
    /\ Goto(p, "check", NoJob)
    /\ disturbed' = disturbed \cup Running(Readers)
    /\ UNCHANGED <<files, faults, outputs, published, forced>>

(* --force: the directory is removed, a lock and other commands or not.    *)
StartForcedInit(p) ==
    /\ Counted(p)
    /\ Goto(p, "check", NoJob)
    /\ lock' = FALSE /\ made' = FALSE
    /\ entries' = [i \in Positions |-> None]
    /\ heads' = [i \in Sizes |-> None]
    /\ latestEntry' = None /\ latestHead' = None /\ previousHead' = None
    /\ forced' = (forced \/ made \/ lock)
    /\ disturbed' = disturbed \cup Running(Readers)
    /\ UNCHANGED <<faults, outputs, published>>

CheckEmpty(p) ==
    /\ pc[p] = "check"
    /\ IF made \/ lock THEN Stop(p) ELSE Goto(p, "mkdirs", NoJob)
    /\ UNCHANGED <<files, commands, faults, outputs, history>>

MakeDirs(p) ==
    /\ pc[p] = "mkdirs"
    /\ made' = TRUE
    /\ Goto(p, "head0", NoJob)
    /\ UNCHANGED <<lock, entries, heads, latestEntry, latestHead, previousHead, commands,
                   faults, outputs, history>>

(* Mutant: the file is not created exclusively. *)
WriteEmptyHeadOver(p) ==
    /\ pc[p] = "head0"
    /\ latestHead' = init_head
    /\ made' = TRUE
    /\ published' = published \cup {init_head}
    /\ Goto(p, "numbered0", NoJob)
    /\ UNCHANGED <<lock, entries, heads, latestEntry, previousHead, commands, faults,
                   outputs, forced, disturbed>>

WriteEmptyHead(p) ==
    /\ pc[p] = "head0"
    /\ \/ /\ latestHead # None
          /\ Stop(p)
          /\ UNCHANGED <<latestHead, made, published>>
       \/ /\ latestHead = None
          /\ latestHead' = init_head
          /\ made' = TRUE
          /\ published' = published \cup {init_head}
          /\ Goto(p, "numbered0", NoJob)
    /\ UNCHANGED <<lock, entries, heads, latestEntry, previousHead, commands, faults,
                   outputs, forced, disturbed>>

WriteNumberedEmptyHead(p) ==
    /\ pc[p] = "numbered0"
    /\ heads' = IF heads[0] = None THEN [heads EXCEPT ![0] = init_head] ELSE heads
    /\ made' = TRUE
    /\ Stop(p)
    /\ UNCHANGED <<lock, entries, latestEntry, latestHead, previousHead, commands, faults,
                   outputs, history>>

-----------------------------------------------------------------------------
(***************************************************************************)
(* append. A bundle that is None is one that derive_entry_from_bundle      *)
(* refuses. Every refusal leaves through the lock's exit.                  *)
(***************************************************************************)
TakeLock(p) ==
    /\ Counted(p)
    /\ ~lock
    /\ lock' = TRUE
    /\ \E b \in Bundles \cup {None} : Goto(p, "head", [NoJob EXCEPT !.bundle = b])
    /\ disturbed' = disturbed \cup Running(Readers)
    /\ UNCHANGED <<made, entries, heads, latestEntry, latestHead, previousHead, faults,
                   outputs, published, forced>>

ReadHead(p) ==
    /\ pc[p] = "head"
    /\ IF Readable(latestHead)
       THEN Goto(p, "list", [job[p] EXCEPT !.head = latestHead])
       ELSE Goto(p, "unlock", job[p])
    /\ UNCHANGED <<files, commands, faults, outputs, history>>

ListEntries(p) ==
    /\ pc[p] = "list"
    /\ Goto(p, IF Loads(job[p].head.size) /\ job[p].bundle # None THEN "entry" ELSE "unlock",
            job[p])
    /\ UNCHANGED <<files, commands, faults, outputs, history>>

(* Mutant: entries are numbered from one. *)
NewEntryFromOne(p) == [sequence |-> job[p].head.size + 1, bundle |-> job[p].bundle]

NewEntry(p) == [sequence |-> job[p].head.size, bundle |-> job[p].bundle]

WriteEntry(p) ==
    /\ pc[p] = "entry"
    /\ job[p].head.size < MaxSize
    /\ IF entries[job[p].head.size] = None
       THEN /\ entries' = [entries EXCEPT ![job[p].head.size] = NewEntry(p)]
            /\ made' = TRUE
            /\ Goto(p, "latestEntry", job[p])
       ELSE /\ Goto(p, "unlock", job[p])
            /\ UNCHANGED <<entries, made>>
    /\ UNCHANGED <<lock, heads, latestEntry, latestHead, previousHead, commands, faults,
                   outputs, history>>

ReplaceLatestEntry(p) ==
    /\ pc[p] = "latestEntry"
    /\ latestEntry' = NewEntry(p)
    /\ made' = TRUE
    /\ Goto(p, "root", job[p])
    /\ UNCHANGED <<lock, entries, heads, latestHead, previousHead, commands, faults,
                   outputs, history>>

ComputeRoot(p) ==
    /\ pc[p] = "root"
    /\ IF Loads(job[p].head.size + 1)
       THEN Goto(p, "previous", [job[p] EXCEPT !.new = HeadAfter(job[p].head, NewEntry(p))])
       ELSE Goto(p, "unlock", job[p])
    /\ UNCHANGED <<files, commands, faults, outputs, history>>

(* Mutant: the head before is left for later. *)
ReplacePreviousNot(p) ==
    /\ pc[p] = "previous"
    /\ Goto(p, "latest", job[p])
    /\ UNCHANGED <<files, commands, faults, outputs, history>>

ReplacePrevious(p) ==
    /\ pc[p] = "previous"
    /\ previousHead' = job[p].head
    /\ made' = TRUE
    /\ Goto(p, "latest", job[p])
    /\ UNCHANGED <<lock, entries, heads, latestEntry, latestHead, commands, faults,
                   outputs, history>>

ReplaceLatest(p) ==
    /\ pc[p] = "latest"
    /\ latestHead' = job[p].new
    /\ made' = TRUE
    /\ published' = published \cup {job[p].new}
    /\ Goto(p, "numbered", job[p])
    /\ UNCHANGED <<lock, entries, heads, latestEntry, previousHead, commands, faults,
                   outputs, forced, disturbed>>

WriteNumbered(p) ==
    /\ pc[p] = "numbered"
    /\ LET n == job[p].new.size
       IN  heads' = IF heads[n] = None THEN [heads EXCEPT ![n] = job[p].new] ELSE heads
    /\ made' = TRUE
    /\ Goto(p, "unlock", job[p])
    /\ UNCHANGED <<lock, entries, latestEntry, latestHead, previousHead, commands, faults,
                   outputs, history>>

(* Whatever lock file is there is removed. *)
Unlock(p) ==
    /\ pc[p] = "unlock"
    /\ lock' = FALSE
    /\ Stop(p)
    /\ UNCHANGED <<made, entries, heads, latestEntry, latestHead, previousHead, commands,
                   faults, outputs, history>>

-----------------------------------------------------------------------------
(***************************************************************************)
(* The readers: verify-history, prove-inclusion and prove-consistency.     *)
(***************************************************************************)
Disturb(p) == disturbed' = IF Running(Writers) = {} THEN disturbed \ {p} ELSE disturbed \cup {p}

Say(p, accepted) ==
    /\ verdict' = [accepted |-> accepted, head |-> job[p].head,
                   disturbed |-> p \in disturbed, faulty |-> faults > 0]
    /\ Stop(p)

StartVerify(p) ==
    /\ Counted(p)
    /\ latestHead # None
    /\ Goto(p, "vHead", NoJob)
    /\ Disturb(p)
    /\ UNCHANGED <<files, faults, outputs, published, forced>>

VerifyHead(p) ==
    /\ pc[p] = "vHead"
    /\ \/ /\ Readable(latestHead)
          /\ Goto(p, "vEntries", [job[p] EXCEPT !.head = latestHead])
          /\ UNCHANGED verdict
       \/ ~Readable(latestHead) /\ Say(p, FALSE)
    /\ UNCHANGED <<files, commands, faults, proof, history>>

VerifyEntries(p) ==
    /\ pc[p] = "vEntries"
    /\ LET n == job[p].head.size
       IN  \/ /\ Loads(n)
              /\ Goto(p, "vHeads", [job[p] EXCEPT !.log = Stored(n)])
              /\ UNCHANGED verdict
           \/ ~Loads(n) /\ Say(p, FALSE)
    /\ UNCHANGED <<files, commands, faults, proof, history>>

VerifyHeads(p) ==
    /\ pc[p] = "vHeads"
    /\ LET n == job[p].head.size
           valid == Chained(job[p].log, n) /\ heads[n] = job[p].head
       IN  \/ /\ valid /\ n > 0
              /\ Goto(p, "vPrevious", [job[p] EXCEPT !.old = heads[n - 1]])
              /\ UNCHANGED verdict
           \/ valid /\ n = 0 /\ Say(p, TRUE)
           \/ ~valid /\ Say(p, FALSE)
    /\ UNCHANGED <<files, commands, faults, proof, history>>

VerifyPrevious(p) ==
    /\ pc[p] = "vPrevious"
    /\ \/ /\ previousHead = job[p].old
          /\ Goto(p, "vLatestEntry", job[p])
          /\ UNCHANGED verdict
       \/ previousHead # job[p].old /\ Say(p, FALSE)
    /\ UNCHANGED <<files, commands, faults, proof, history>>

VerifyLatestEntry(p) ==
    /\ pc[p] = "vLatestEntry"
    /\ Say(p, latestEntry = job[p].log[job[p].head.size])
    /\ UNCHANGED <<files, commands, faults, proof, history>>

StartProveInclusion(p) ==
    /\ Counted(p)
    /\ Readable(latestHead)
    /\ \E i \in Positions : Goto(p, "iHead", [NoJob EXCEPT !.sequence = i])
    /\ Disturb(p)
    /\ UNCHANGED <<files, faults, outputs, published, forced>>

InclusionHead(p) ==
    /\ pc[p] = "iHead"
    /\ IF Readable(latestHead)
       THEN Goto(p, "iEntries", [job[p] EXCEPT !.head = latestHead])
       ELSE Stop(p)
    /\ UNCHANGED <<files, commands, faults, outputs, history>>

InclusionProof(i, n) ==
    [kind |-> "inclusion", size |-> n, index |-> i, leaf |-> Leaf(entries[i]),
     root |-> RootFor(n), path |-> inclusion_path[Stored(n)][i]]

ProveInclusion(p) ==
    /\ pc[p] = "iEntries"
    /\ LET n == job[p].head.size
           i == job[p].sequence
       IN  proof' = IF Loads(n) /\ i < n /\ RootFor(n) = job[p].head.root
                    THEN InclusionProof(i, n) ELSE proof
    /\ Stop(p)
    /\ UNCHANGED <<files, commands, faults, verdict, history>>

ConsistencyProof(a, b) ==
    [kind |-> "consistency", first |-> a.size, firstRoot |-> a.root,
     second |-> b.size, secondRoot |-> b.root,
     path |-> consistency_path[Stored(b.size)][a.size][TRUE]]

(* The two heads are files of the user's: heads that were published. They  *)
(* do not change, so that the only step is the loading of the entries.     *)
ProveConsistency(p) ==
    /\ Counted(p)
    /\ \E a, b \in published :
        /\ a.size <= b.size
        /\ Loads(b.size)
        /\ RootFor(a.size) = a.root
        /\ RootFor(b.size) = b.root
        /\ proof' = ConsistencyProof(a, b)
    /\ UNCHANGED <<files, pc, job, faults, verdict, history>>

-----------------------------------------------------------------------------
(***************************************************************************)
(* Faults. A step that fails leaves nothing or, where a new file is being  *)
(* written, a torn one; the command reports an error, and an append takes  *)
(* its lock away. A killed command leaves the lock.                        *)
(***************************************************************************)
TornFiles(p) ==
    \/ UNCHANGED files
    \/ /\ pc[p] = "entry" /\ job[p].head.size < MaxSize /\ entries[job[p].head.size] = None
       /\ entries' = [entries EXCEPT ![job[p].head.size] = Torn]
       /\ made' = TRUE
       /\ UNCHANGED <<lock, heads, latestEntry, latestHead, previousHead>>
    \/ /\ pc[p] = "numbered" /\ heads[job[p].new.size] = None
       /\ heads' = [heads EXCEPT ![job[p].new.size] = Torn]
       /\ made' = TRUE
       /\ UNCHANGED <<lock, entries, latestEntry, latestHead, previousHead>>
    \/ /\ pc[p] = "head0" /\ latestHead = None
       /\ latestHead' = Torn
       /\ made' = TRUE
       /\ UNCHANGED <<lock, entries, heads, latestEntry, previousHead>>
    \/ /\ pc[p] = "numbered0" /\ heads[0] = None
       /\ heads' = [heads EXCEPT ![0] = Torn]
       /\ made' = TRUE
       /\ UNCHANGED <<lock, entries, latestEntry, latestHead, previousHead>>

Fault == faults < MaxFaults /\ faults' = faults + 1

Fail(p) ==
    /\ pc[p] \in Writers \ {"unlock"}
    /\ Fault
    /\ TornFiles(p)
    /\ IF pc[p] \in LockedSteps THEN Goto(p, "unlock", job[p]) ELSE Stop(p)
    /\ UNCHANGED <<commands, outputs, history>>

(* Mutant: the latest head is written in place. *)
DieInPlace(p) ==
    /\ pc[p] \in Writers
    /\ Fault
    /\ \/ TornFiles(p)
       \/ /\ pc[p] = "latest" /\ latestHead' = Torn /\ made' = TRUE
          /\ UNCHANGED <<lock, entries, heads, latestEntry, previousHead>>
    /\ Stop(p)
    /\ UNCHANGED <<commands, outputs, history>>

Die(p) ==
    /\ pc[p] \in Writers
    /\ Fault
    /\ TornFiles(p)
    /\ Stop(p)
    /\ UNCHANGED <<commands, outputs, history>>

-----------------------------------------------------------------------------
InitCommand(p) ==
    \/ StartInit(p) \/ StartForcedInit(p) \/ CheckEmpty(p) \/ MakeDirs(p)
    \/ WriteEmptyHead(p) \/ WriteNumberedEmptyHead(p)

AppendCommand(p) ==
    \/ TakeLock(p) \/ ReadHead(p) \/ ListEntries(p) \/ WriteEntry(p)
    \/ ReplaceLatestEntry(p) \/ ComputeRoot(p) \/ ReplacePrevious(p) \/ ReplaceLatest(p)
    \/ WriteNumbered(p) \/ Unlock(p)

ReadCommand(p) ==
    \/ StartVerify(p) \/ VerifyHead(p) \/ VerifyEntries(p) \/ VerifyHeads(p)
    \/ VerifyPrevious(p) \/ VerifyLatestEntry(p)
    \/ StartProveInclusion(p) \/ InclusionHead(p) \/ ProveInclusion(p)
    \/ ProveConsistency(p)

Next == \E p \in Procs : InitCommand(p) \/ AppendCommand(p) \/ ReadCommand(p) \/ Fail(p) \/ Die(p)

Spec == Init /\ [][Next]_vars

-----------------------------------------------------------------------------
(***************************************************************************)
(* Properties.                                                             *)
(***************************************************************************)
HeadType == [size : Sizes, root : Roots, prevSize : Sizes, prevRoot : Roots \cup {None},
             entry : Entry \cup {None}]

Steps == Writers \cup Readers \cup {"idle"}
Jobs == [bundle : Bundles \cup {None}, head : HeadType \cup {None}, new : HeadType \cup {None},
         log : Logs, old : HeadType \cup {None}, sequence : Nat]

ASSUME AbsentAssumption ==
    /\ None \notin Bundles \cup Entry \cup HeadType
    /\ Torn \notin {None} \cup Entry \cup HeadType

(* The variables have their types: a head that an append or a reader has   *)
(* read is one over entries of this ledger.                                *)
TypeOK ==
    /\ lock \in BOOLEAN /\ made \in BOOLEAN /\ forced \in BOOLEAN
    /\ entries \in [Positions -> Entry \cup {None, Torn}]
    /\ heads \in [Sizes -> HeadType \cup {None, Torn}]
    /\ latestEntry \in Entry \cup {None}
    /\ latestHead \in HeadType \cup {None, Torn}
    /\ previousHead \in HeadType \cup {None}
    /\ pc \in [Procs -> Steps]
    /\ job \in [Procs -> Jobs]
    /\ published \subseteq HeadType
    /\ commands \in Nat /\ faults \in Nat
    /\ disturbed \subseteq Procs

(* Unless a forced init has removed a ledger, at most one append is past   *)
(* the lock, and the lock file is there as long as it is.                  *)
LockExcludes ==
    ~forced => /\ \A p, q \in Running(LockedSteps) : p = q
               /\ Running(LockedSteps) # {} => lock

(* Append-only: unless a forced init has removed a ledger, every head that *)
(* was ever the latest one stays the root of the first entries on disk,    *)
(* whatever appends died, failed or were refused since.                    *)
PublishedStaysCovered ==
    ~forced => \A h \in published :
                   /\ \A i \in 0 .. h.size - 1 : Readable(entries[i])
                   /\ h.root = RootFor(h.size)

(* What verify-history asks of a ledger at rest, and a free lock: the next *)
(* append is not refused.                                                  *)
Healthy ==
    LET n == latestHead.size
    IN  /\ ~lock
        /\ Loads(n)
        /\ Chained(Stored(n), n)
        /\ heads[n] = latestHead
        /\ n > 0 => previousHead = heads[n - 1] /\ latestEntry = entries[n - 1]

(* Unless something was killed, failed or forced, a ledger that no init or *)
(* append is working on verifies and takes the next append, in whatever    *)
(* way commands overlapped before.                                         *)
QuietLedgerIsHealthy ==
    (~forced /\ faults = 0 /\ Running(Writers) = {} /\ latestHead # None) => Healthy

(* verify-history, which takes no lock and reads the files one after the   *)
(* other: a history it accepted has the accepted head as its numbered head *)
(* from then on, and it refuses a ledger only if a writer ran meanwhile or *)
(* something was killed or failed before.                                  *)
VerdictHolds ==
    (verdict # None /\ ~forced) =>
        /\ verdict.accepted => heads[verdict.head.size] = verdict.head
        /\ verdict.accepted \/ verdict.disturbed \/ verdict.faulty

(* Other paths a proof could have. *)
Altered(path) ==
    LET hashes == {path[j] : j \in 1 .. Len(path)} \cup {EmptyRoot, Leaf(entries[0])}
    IN  ({SubSeq(path, 1, j) : j \in 0 .. Len(path)}
         \cup {SubSeq(path, 2, Len(path))}
         \cup {Append(path, h) : h \in hashes}
         \cup {[path EXCEPT ![j] = h] : j \in 1 .. Len(path), h \in hashes}) \ {path}

(* The log a head stands for. *)
LogUnder(head) == CHOOSE log \in Logs : Len(log) = head.size /\ merkle_root[log] = head.root

(* An inclusion proof the tool has written is accepted for an entry and a  *)
(* head, also an older, newer or replaced one, exactly when the entry is   *)
(* where the proof says in a log of the proof's size and root; and no      *)
(* other path is accepted in its place.                                    *)
InclusionProofsHold ==
    (proof # None /\ proof.kind = "inclusion") =>
        \A h \in published, i \in Positions :
            Readable(entries[i]) =>
            /\ verify_inclusion(entries[i], proof, h)
               <=> /\ h.size = proof.size /\ i = proof.index
                   /\ LogUnder(h) = LogUnder(proof)
                   /\ LogUnder(h)[i + 1] = entries[i]
            /\ \A path \in Altered(proof.path) :
                   ~verify_inclusion(entries[i], [proof EXCEPT !.path = path], h)

(* A consistency proof the tool has written is accepted; with the roots of *)
(* other published heads it is accepted only where the log of the one is a *)
(* prefix of the log of the other, and no other path is accepted in its    *)
(* place. (An empty first tree is a prefix of all and is not looked into.) *)
ConsistencyProofsHold ==
    (proof # None /\ proof.kind = "consistency") =>
        /\ verify_consistency(proof)
        /\ proof.first > 0 =>
            /\ \A a, b \in published :
                /\ a.size = proof.first /\ b.size = proof.second
                /\ verify_consistency([proof EXCEPT !.firstRoot = a.root, !.secondRoot = b.root])
                => LogUnder(a) = SubSeq(LogUnder(b), 1, a.size)
            /\ \A path \in Altered(proof.path) :
                ~verify_consistency([proof EXCEPT !.path = path])

-----------------------------------------------------------------------------
(***************************************************************************)
(* The files implement the log that PublishedLog promises: the log is the  *)
(* one under the latest head, and an append wants its bundle in there      *)
(* until it replaces that head.                                            *)
(***************************************************************************)
UnpublishedSteps == {"head", "list", "entry", "latestEntry", "root", "previous", "latest"}

BundlesUnder(head) == [i \in 1 .. head.size |-> LogUnder(head)[i].bundle]

PublishedBundles == IF Readable(latestHead) THEN BundlesUnder(latestHead) ELSE <<>>

WantedBundles ==
    [p \in Procs |-> IF pc[p] \in UnpublishedSteps THEN job[p].bundle ELSE None]

Published == INSTANCE PublishedLog WITH
    log <- PublishedBundles,
    wanted <- WantedBundles,
    removed <- forced

(* Whatever overlaps, dies or fails: each replacement of the latest head   *)
(* adds one bundle to the log under it, the bundle of the append that      *)
(* replaces it, and an append does so once at most.                        *)
ImplementsLog == Published!Spec
=============================================================================
