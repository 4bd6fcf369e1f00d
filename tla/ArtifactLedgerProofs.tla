------------------------- MODULE ArtifactLedgerProofs -------------------------
(***************************************************************************)
(* Whatever the bundles, the commands that overlap and the faults: the     *)
(* variables keep their types, the lock excludes, the ledger is append-    *)
(* only, and the proofs the tool writes hold.                              *)
(*                                                                         *)
(* LedgerInv is what faults cannot break. HealthInv adds what holds until  *)
(* a command is killed or fails, VerdictInv what a reader knows,           *)
(* EvidenceInv what was published and proved, and PublishInv what makes    *)
(* the ledger an implementation of PublishedLog.                           *)
(***************************************************************************)
EXTENDS ArtifactLedger, SequenceTheorems, TLAPS

Covered(h) ==
    /\ \A i \in 0 .. h.size - 1 : Readable(entries[i])
    /\ h.root = RootFor(h.size)

(* An entry is in the file of its sequence number. *)
InPlace == \A i \in Positions : Readable(entries[i]) => entries[i].sequence = i

(* The directory is empty until something is made. *)
BareInv ==
    /\ ~made => /\ entries = [i \in Positions |-> None] /\ heads = [i \in Sizes |-> None]
                /\ latestEntry = None /\ latestHead = None /\ previousHead = None
    /\ ~made /\ ~forced => published = {}

HasHead == {"list", "entry", "latestEntry", "root", "previous", "latest", "numbered",
            "vEntries", "vHeads", "vPrevious", "vLatestEntry", "iEntries"}

JobInv(step, j) ==
    /\ step \in HasHead => j.head \in HeadType
    /\ step \in {"entry", "latestEntry", "root", "previous", "latest", "numbered"} =>
           j.bundle \in Bundles
    /\ step \in {"latestEntry", "root", "previous", "latest", "numbered"} =>
           j.head.size < MaxSize
    /\ step \in {"previous", "latest", "numbered"} =>
           j.new \in HeadType /\ j.new.size = j.head.size + 1

(* The head an append is about to publish. *)
NewCovered(step, j) == (step \in {"previous", "latest"} /\ ~forced) => Covered(j.new)

LedgerInv ==
    /\ TypeOK /\ InPlace /\ BareInv /\ LockExcludes /\ PublishedStaysCovered
    /\ \A p \in Procs : JobInv(pc[p], job[p]) /\ NewCovered(pc[p], job[p])

-----------------------------------------------------------------------------
LEMMA BoundTypes ==
    /\ MaxSize \in Nat /\ 0 \in Sizes
    /\ \A n \in Sizes : n \in Nat /\ 0 .. n - 1 \subseteq Positions
    /\ \A i \in Positions : i \in Nat /\ i + 1 \in Sizes /\ i \in Sizes
    /\ \A n \in Sizes : n < MaxSize => n \in Positions /\ n + 1 \in Sizes
BY BoundsAssumption DEF Sizes, Positions

(* The stored entries make a log, when they are all there.                 *)
LEMMA StoredTyped ==
    ASSUME TypeOK, InPlace, NEW n \in Sizes, \A i \in 0 .. n - 1 : Readable(entries[i])
    PROVE  Stored(n) \in Logs /\ RootFor(n) \in Roots
<1> DEFINE s == [i \in 1 .. n |-> entries[i - 1].bundle]
<1>1. n \in Nat /\ \A i \in 1 .. n : i - 1 \in Positions /\ i - 1 \in 0 .. n - 1
  BY BoundTypes
<1>2. \A i \in 1 .. n : /\ entries[i - 1] \in Entry
                        /\ entries[i - 1] = [sequence |-> i - 1, bundle |-> s[i]]
                        /\ s[i] \in Bundles
  BY <1>1 DEF TypeOK, InPlace, Readable, Entry
<1>3. s \in [1 .. n -> Bundles]
  BY <1>2
<1>4. s \in Seq(Bundles) /\ Len(s) = n
  BY <1>1, <1>3, SeqDef, LenProperties
<1> HIDE DEF s
<1>5. LogOf(s) = Stored(n)
  BY <1>2, <1>4 DEF LogOf, Stored
<1>6. LogOf(s) \in Logs
  BY <1>3 DEF Logs
<1>7. QED
  BY <1>5, <1>6 DEF Roots, RootFor

LEMMA EmptyTyped ==
    /\ <<>> \in Logs /\ init_head \in HeadType /\ init_head.size = 0
    /\ init_head.root = merkle_root[<<>>] /\ NoJob \in Jobs
<1>1. <<>> \in [1 .. 0 -> Bundles] /\ Len(<<>>) = 0
  OBVIOUS
<1>2. LogOf(<<>>) = <<>>
  BY <1>1 DEF LogOf
<1>3. <<>> \in Logs
  BY <1>1, <1>2, BoundTypes DEF Logs
<1>4. merkle_root[<<>>] \in Roots
  BY <1>3 DEF Roots
<1>5. init_head \in HeadType /\ init_head.size = 0 /\ init_head.root = merkle_root[<<>>]
  BY <1>4, BoundTypes DEF init_head, HeadType
<1>6. NoJob \in Jobs
  BY <1>3 DEF NoJob, Jobs
<1>7. QED
  BY <1>3, <1>5, <1>6

LEMMA EmptyRootFor == RootFor(0) = merkle_root[<<>>]
<1>1. Stored(0) = <<>>
  BY DEF Stored
<1>2. QED
  BY <1>1 DEF RootFor

(* Files are added and replaced, but the entries and numbered heads stay.  *)
Kept ==
    /\ \A i \in Positions : entries[i] # None => entries'[i] = entries[i]
    /\ \A i \in Sizes : heads[i] # None => heads'[i] = heads[i]

LEMMA KeptRoot ==
    ASSUME Kept, NEW n \in Sizes, \A i \in 0 .. n - 1 : Readable(entries[i])
    PROVE  RootFor(n)' = RootFor(n) /\ Stored(n)' = Stored(n)
<1>1. \A i \in 1 .. n : entries'[i - 1] = entries[i - 1]
  BY BoundTypes DEF Kept, Readable
<1>2. Stored(n)' = Stored(n)
  BY <1>1 DEF Stored
<1>3. QED
  BY <1>2 DEF RootFor

LEMMA KeptCovered ==
    ASSUME Kept, NEW h \in HeadType, Covered(h)
    PROVE  Covered(h)'
<1>1. h.size \in Sizes
  BY DEF HeadType
<1>2. \A i \in 0 .. h.size - 1 : Readable(entries[i])
  BY DEF Covered
<1>3. RootFor(h.size)' = RootFor(h.size)
  BY <1>1, <1>2, KeptRoot
<1>4. \A i \in 0 .. h.size - 1 : Readable(entries'[i])
  BY <1>1, <1>2, BoundTypes DEF Kept, Readable
<1>5. QED
  BY <1>3, <1>4 DEF Covered

-----------------------------------------------------------------------------
LEMMA JobOf ==
    ASSUME LedgerInv, NEW p \in Procs
    PROVE  /\ job[p] \in Jobs /\ pc[p] \in Steps
           /\ JobInv(pc[p], job[p]) /\ NewCovered(pc[p], job[p])
BY DEF LedgerInv, TypeOK

LEMMA AfterGoto ==
    ASSUME LedgerInv, NEW p \in Procs, NEW step \in Steps, NEW j \in Jobs, Goto(p, step, j)
    PROVE  /\ pc' \in [Procs -> Steps] /\ job' \in [Procs -> Jobs]
           /\ pc'[p] = step /\ job'[p] = j
           /\ \A q \in Procs \ {p} : pc'[q] = pc[q] /\ job'[q] = job[q]
BY DEF LedgerInv, TypeOK, Goto

(* What a step must show that removes no ledger.                           *)
LEMMA LedgerStep ==
    ASSUME LedgerInv, NEW p \in Procs, NEW step \in Steps, NEW j \in Jobs, Goto(p, step, j),
           JobInv(step, j), (step \in {"previous", "latest"} /\ ~forced) => Covered(j.new)',
           lock' \in BOOLEAN, forced' = forced, Kept, InPlace',
           entries' \in [Positions -> Entry \cup {None, Torn}],
           heads' \in [Sizes -> HeadType \cup {None, Torn}],
           latestEntry' \in Entry \cup {None}, latestHead' \in HeadType \cup {None, Torn},
           previousHead' \in HeadType \cup {None},
           \/ made' = TRUE
           \/ UNCHANGED <<made, entries, heads, latestEntry, latestHead, previousHead, published>>,
           \A h \in published' : \/ h \in published
                                 \/ h \in HeadType /\ (~forced => Covered(h)'),
           commands' \in Nat, faults' \in Nat, disturbed' \subseteq Procs,
           ~forced => \/ lock' = lock /\ (step \in LockedSteps => pc[p] \in LockedSteps)
                      \/ ~lock /\ lock'
                      \/ pc[p] \in LockedSteps /\ step \notin LockedSteps
    PROVE  LedgerInv'
<1>1. /\ pc' \in [Procs -> Steps] /\ job' \in [Procs -> Jobs]
      /\ pc'[p] = step /\ job'[p] = j
      /\ \A q \in Procs \ {p} : pc'[q] = pc[q] /\ job'[q] = job[q]
  BY AfterGoto
<1>2. made' \in BOOLEAN /\ forced' \in BOOLEAN /\ published' \subseteq HeadType
  BY DEF LedgerInv, TypeOK
<1>3. TypeOK'
  BY <1>1, <1>2 DEF TypeOK
<1>4. BareInv'
  BY DEF LedgerInv, BareInv
<1>5. LockExcludes'
  BY <1>1 DEF LedgerInv, LockExcludes, Running
<1>6. PublishedStaysCovered'
  <2>1. SUFFICES ASSUME ~forced, NEW h \in published' PROVE Covered(h)'
    BY DEF PublishedStaysCovered, Covered
  <2>2. CASE h \in published
    <3>1. h \in HeadType /\ Covered(h)
      BY <2>1, <2>2 DEF LedgerInv, TypeOK, PublishedStaysCovered, Covered
    <3>2. QED
      BY <3>1, KeptCovered
  <2>3. QED
    BY <2>1, <2>2
<1>7. ASSUME NEW q \in Procs PROVE (JobInv(pc[q], job[q]) /\ NewCovered(pc[q], job[q]))'
  <2>1. CASE q = p
    BY <1>1, <2>1 DEF JobInv, NewCovered
  <2>2. CASE q # p
    <3>1. PICK k : k = job[q]
      OBVIOUS
    <3>2. JobInv(pc[q], k) /\ NewCovered(pc[q], k) /\ pc'[q] = pc[q] /\ job'[q] = k
      BY <1>1, <2>2, <3>1 DEF LedgerInv
    <3>3. pc[q] \in {"previous", "latest"} /\ ~forced => Covered(k.new)'
      BY <3>2, KeptCovered DEF JobInv, NewCovered
    <3>4. QED
      BY <3>2, <3>3 DEF JobInv, NewCovered
  <2>3. QED
    BY <2>1, <2>2
<1>8. QED
  BY <1>3, <1>4, <1>5, <1>6, <1>7 DEF LedgerInv

LEMMA FilesTyped ==
    ASSUME LedgerInv
    PROVE  /\ lock \in BOOLEAN /\ made \in BOOLEAN
           /\ entries \in [Positions -> Entry \cup {None, Torn}]
           /\ heads \in [Sizes -> HeadType \cup {None, Torn}]
           /\ latestEntry \in Entry \cup {None} /\ latestHead \in HeadType \cup {None, Torn}
           /\ previousHead \in HeadType \cup {None}
           /\ commands \in Nat /\ commands + 1 \in Nat /\ faults \in Nat /\ faults + 1 \in Nat
           /\ disturbed \subseteq Procs /\ disturbed \cup Running(Readers) \subseteq Procs
           /\ published \subseteq HeadType
BY DEF LedgerInv, TypeOK, Running

(* A step that reads, or that takes or leaves the lock.                    *)
LEMMA QuietStep ==
    ASSUME LedgerInv, NEW p \in Procs, NEW step \in Steps, NEW j \in Jobs, Goto(p, step, j),
           JobInv(step, j), (step \in {"previous", "latest"} /\ ~forced) => Covered(j.new),
           UNCHANGED <<made, entries, heads, latestEntry, latestHead, previousHead, published,
                       forced>>,
           lock' \in BOOLEAN, commands' \in Nat, faults' \in Nat, disturbed' \subseteq Procs,
           \/ lock' = lock /\ (step \in LockedSteps => pc[p] \in LockedSteps)
           \/ ~lock /\ lock'
           \/ pc[p] \in LockedSteps /\ step \notin LockedSteps
    PROVE  LedgerInv'
<1>1. Kept
  BY DEF Kept
<1>2. InPlace'
  BY DEF LedgerInv, InPlace
<1>3. (step \in {"previous", "latest"} /\ ~forced) => Covered(j.new)'
  BY DEF Covered, RootFor, Stored
<1>4. QED
  BY <1>1, <1>2, <1>3, FilesTyped, LedgerStep

LEMMA JobUpdates ==
    ASSUME NEW j \in Jobs
    PROVE  /\ \A h \in HeadType : /\ [j EXCEPT !.head = h] \in Jobs
                                  /\ [j EXCEPT !.head = h].head = h
                                  /\ [j EXCEPT !.head = h].bundle = j.bundle
           /\ \A h \in HeadType : /\ [j EXCEPT !.new = h] \in Jobs
                                  /\ [j EXCEPT !.new = h].new = h
                                  /\ [j EXCEPT !.new = h].head = j.head
                                  /\ [j EXCEPT !.new = h].bundle = j.bundle
           /\ \A h \in HeadType : /\ [j EXCEPT !.old = h] \in Jobs
                                  /\ [j EXCEPT !.old = h].old = h
                                  /\ [j EXCEPT !.old = h].head = j.head
                                  /\ [j EXCEPT !.old = h].log = j.log
           /\ \A log \in Logs : /\ [j EXCEPT !.log = log] \in Jobs
                                /\ [j EXCEPT !.log = log].log = log
                                /\ [j EXCEPT !.log = log].head = j.head
BY DEF Jobs

LEMMA NewJobs ==
    /\ \A b \in Bundles \cup {None} : [NoJob EXCEPT !.bundle = b] \in Jobs
    /\ \A i \in Positions : [NoJob EXCEPT !.sequence = i] \in Jobs
BY EmptyTyped, BoundTypes DEF Jobs, NoJob

LEMMA StepNames ==
    /\ LockedSteps \subseteq Steps /\ InitSteps \subseteq Steps /\ VerifySteps \subseteq Steps
    /\ InclusionSteps \subseteq Steps /\ "idle" \in Steps
    /\ LockedSteps \cap HasHead = {"list", "entry", "latestEntry", "root", "previous", "latest",
                                   "numbered"}
    /\ "idle" \notin LockedSteps \cup HasHead
BY DEF Steps, Writers, Readers, LockedSteps, InitSteps, VerifySteps, InclusionSteps, HasHead

(* A command ends. *)
LEMMA StopStep ==
    ASSUME LedgerInv, NEW p \in Procs, Stop(p), Kept, InPlace',
           entries' \in [Positions -> Entry \cup {None, Torn}],
           heads' \in [Sizes -> HeadType \cup {None, Torn}],
           latestHead' \in HeadType \cup {None, Torn},
           \/ made' = TRUE
           \/ UNCHANGED <<made, entries, heads, latestHead>>,
           UNCHANGED <<latestEntry, previousHead, published, forced>>,
           lock' \in BOOLEAN, lock' = lock \/ pc[p] \in LockedSteps,
           commands' \in Nat, faults' \in Nat, disturbed' \subseteq Procs
    PROVE  LedgerInv'
<1>1. Goto(p, "idle", NoJob) /\ NoJob \in Jobs /\ "idle" \in Steps /\ JobInv("idle", NoJob)
  BY EmptyTyped, StepNames DEF Stop, JobInv
<1>3. ~forced => \/ lock' = lock /\ ("idle" \in LockedSteps => pc[p] \in LockedSteps)
                 \/ ~lock /\ lock'
                 \/ pc[p] \in LockedSteps /\ "idle" \notin LockedSteps
  BY StepNames
<1>4. QED
  BY <1>1, <1>3, FilesTyped, LedgerStep

LEMMA StoppedQuietly ==
    ASSUME LedgerInv, NEW p \in Procs, Stop(p),
           UNCHANGED <<made, entries, heads, latestEntry, latestHead, previousHead, published,
                       forced>>,
           lock' \in BOOLEAN, lock' = lock \/ pc[p] \in LockedSteps,
           commands' \in Nat, faults' \in Nat, disturbed' \subseteq Procs
    PROVE  LedgerInv'
<1>1. Kept /\ InPlace'
  BY DEF Kept, LedgerInv, InPlace
<1>2. QED
  BY <1>1, FilesTyped, StopStep

-----------------------------------------------------------------------------
(* init. *)
LEMMA StartInitInv ==
    ASSUME LedgerInv, NEW p \in Procs, StartInit(p) PROVE LedgerInv'
<1>1. /\ Goto(p, "check", NoJob) /\ NoJob \in Jobs /\ "check" \in Steps
      /\ "check" \notin LockedSteps /\ JobInv("check", NoJob)
      /\ UNCHANGED <<lock, made, entries, heads, latestEntry, latestHead, previousHead,
                     published, forced, faults>>
      /\ commands' = commands + 1 /\ disturbed' = disturbed \cup Running(Readers)
  BY EmptyTyped
     DEF StartInit, Counted, files, Steps, Writers, InitSteps, LockedSteps, JobInv,
                    HasHead
<1>2. QED
  BY <1>1, FilesTyped, QuietStep

LEMMA ForcedInv ==
    ASSUME LedgerInv, NEW p \in Procs, StartForcedInit(p) PROVE LedgerInv'
<1>1. /\ Goto(p, "check", NoJob) /\ NoJob \in Jobs /\ "check" \in Steps
      /\ "check" \notin LockedSteps /\ JobInv("check", NoJob)
      /\ lock' = FALSE /\ made' = FALSE /\ forced' = (forced \/ made \/ lock)
      /\ entries' = [i \in Positions |-> None] /\ heads' = [i \in Sizes |-> None]
      /\ latestEntry' = None /\ latestHead' = None /\ previousHead' = None
      /\ commands' = commands + 1 /\ disturbed' = disturbed \cup Running(Readers)
      /\ UNCHANGED <<published, faults>>
  BY EmptyTyped
     DEF StartForcedInit, Counted, Steps, Writers, InitSteps, LockedSteps, JobInv,
                    HasHead
<1>2. /\ pc' \in [Procs -> Steps] /\ job' \in [Procs -> Jobs]
      /\ pc'[p] = "check" /\ job'[p] = NoJob
      /\ \A q \in Procs \ {p} : pc'[q] = pc[q] /\ job'[q] = job[q]
  BY <1>1, AfterGoto
<1>3. CASE ~forced'
  <2>1. UNCHANGED <<made, entries, heads, latestEntry, latestHead, previousHead, published,
                    forced, lock>>
    <3>1. ~made /\ ~lock /\ ~forced /\ lock \in BOOLEAN /\ forced \in BOOLEAN /\ made \in BOOLEAN
      BY <1>1, <1>3 DEF LedgerInv, TypeOK
    <3>2. BareInv
      BY DEF LedgerInv
    <3>3. QED
      BY <1>1, <1>3, <3>1, <3>2 DEF BareInv
  <2>2. QED
    BY <1>1, <2>1, FilesTyped, QuietStep
<1>4. CASE forced'
  <2>1. forced' \in BOOLEAN
    BY <1>1, FilesTyped DEF LedgerInv, TypeOK
  <2>2. TypeOK'
    BY <1>1, <1>2, <2>1, FilesTyped DEF TypeOK
  <2>3. InPlace'
    BY <1>1 DEF InPlace, Readable
  <2>4. BareInv'
    BY <1>1, <1>4 DEF BareInv
  <2>5. LockExcludes' /\ PublishedStaysCovered'
    BY <1>4 DEF LockExcludes, PublishedStaysCovered
  <2>6. ASSUME NEW q \in Procs PROVE JobInv(pc'[q], job'[q])
    BY <1>1, <1>2, <2>6, JobOf
  <2>7. \A q \in Procs : (JobInv(pc[q], job[q]) /\ NewCovered(pc[q], job[q]))'
    BY <1>4, <2>6 DEF NewCovered
  <2>8. QED
    BY <2>2, <2>3, <2>4, <2>5, <2>7 DEF LedgerInv
<1>5. QED
  BY <1>3, <1>4, <1>1, FilesTyped DEF LedgerInv, TypeOK

LEMMA CheckEmptyInv ==
    ASSUME LedgerInv, NEW p \in Procs, CheckEmpty(p) PROVE LedgerInv'
<1>1. /\ UNCHANGED <<lock, made, entries, heads, latestEntry, latestHead, previousHead,
                     published, forced, disturbed, commands, faults>>
      /\ Stop(p) \/ Goto(p, "mkdirs", NoJob)
  BY DEF CheckEmpty, files, history
<1>0. commands' \in Nat /\ faults' \in Nat /\ disturbed' \subseteq Procs /\ lock' \in BOOLEAN
  BY <1>1, FilesTyped
<1>2. /\ "mkdirs" \in Steps /\ "mkdirs" \notin LockedSteps /\ JobInv("mkdirs", NoJob)
      /\ NoJob \in Jobs
  BY EmptyTyped DEF Steps, Writers, InitSteps, LockedSteps, JobInv, HasHead
<1>3. CASE Stop(p)
  BY <1>0, <1>1, <1>3, StoppedQuietly
<1>4. CASE Goto(p, "mkdirs", NoJob)
  BY <1>0, <1>1, <1>2, <1>4, QuietStep
<1>5. QED
  BY <1>1, <1>3, <1>4

LEMMA MakeDirsInv ==
    ASSUME LedgerInv, NEW p \in Procs, MakeDirs(p) PROVE LedgerInv'
<1>1. /\ UNCHANGED <<lock, entries, heads, latestEntry, latestHead, previousHead,
                     published, forced, disturbed, commands, faults>>
      /\ Goto(p, "head0", NoJob) /\ made' = TRUE
  BY DEF MakeDirs, history
<1>2. /\ "head0" \in Steps /\ "head0" \notin LockedSteps /\ JobInv("head0", NoJob)
      /\ NoJob \in Jobs /\ "head0" \notin {"previous", "latest"}
  BY EmptyTyped DEF Steps, Writers, InitSteps, LockedSteps, JobInv, HasHead
<1>3. Kept /\ InPlace'
  BY <1>1 DEF Kept, LedgerInv, InPlace
<1>4. QED
  BY <1>1, <1>2, <1>3, FilesTyped, LedgerStep

LEMMA WriteEmptyHeadInv ==
    ASSUME LedgerInv, NEW p \in Procs, WriteEmptyHead(p) PROVE LedgerInv'
<1>1. /\ UNCHANGED <<lock, entries, heads, latestEntry, previousHead, forced, disturbed,
                     commands, faults>>
      /\ pc[p] = "head0"
  BY DEF WriteEmptyHead
<1>0. commands' \in Nat /\ faults' \in Nat /\ disturbed' \subseteq Procs /\ lock' \in BOOLEAN
  BY <1>1, FilesTyped
<1>2. CASE Stop(p) /\ UNCHANGED <<latestHead, made, published>>
  BY <1>0, <1>1, <1>2, StoppedQuietly
<1>3. CASE /\ latestHead' = init_head /\ made' = TRUE /\ published' = published \cup {init_head}
           /\ Goto(p, "numbered0", NoJob)
  <2>1. /\ "numbered0" \in Steps /\ "numbered0" \notin LockedSteps /\ JobInv("numbered0", NoJob)
        /\ NoJob \in Jobs /\ "numbered0" \notin {"previous", "latest"}
    BY EmptyTyped DEF Steps, Writers, InitSteps, LockedSteps, JobInv, HasHead
  <2>2. Kept /\ InPlace'
    BY <1>1 DEF Kept, LedgerInv, InPlace
  <2>3. Covered(init_head)
    BY EmptyTyped, EmptyRootFor DEF Covered
  <2>4. Covered(init_head)'
    BY <2>2, <2>3, EmptyTyped, KeptCovered
  <2>5. \A h \in published' : \/ h \in published
                              \/ h \in HeadType /\ (~forced => Covered(h)')
    BY <1>3, <2>4, EmptyTyped
  <2>6. QED
    BY <1>1, <1>3, <2>1, <2>2, <2>5, EmptyTyped, FilesTyped, LedgerStep
<1>4. QED
  BY <1>2, <1>3 DEF WriteEmptyHead

LEMMA WriteNumberedEmptyHeadInv ==
    ASSUME LedgerInv, NEW p \in Procs, WriteNumberedEmptyHead(p) PROVE LedgerInv'
<1>1. /\ UNCHANGED <<lock, entries, latestEntry, latestHead, previousHead, published, forced,
                     disturbed, commands, faults>>
      /\ made' = TRUE /\ Stop(p)
      /\ heads' = IF heads[0] = None THEN [heads EXCEPT ![0] = init_head] ELSE heads
  BY DEF WriteNumberedEmptyHead, history
<1>2. Kept /\ InPlace' /\ heads' \in [Sizes -> HeadType \cup {None, Torn}]
  BY <1>1, EmptyTyped, FilesTyped DEF Kept, LedgerInv, InPlace
<1>3. /\ commands' \in Nat /\ faults' \in Nat /\ disturbed' \subseteq Procs /\ lock' \in BOOLEAN
      /\ entries' \in [Positions -> Entry \cup {None, Torn}]
      /\ latestHead' \in HeadType \cup {None, Torn}
  BY <1>1, FilesTyped
<1>4. QED
  BY <1>1, <1>2, <1>3, StopStep

-----------------------------------------------------------------------------
(* append. *)
LEMMA TakeLockInv ==
    ASSUME LedgerInv, NEW p \in Procs, TakeLock(p) PROVE LedgerInv'
<1>1. PICK b \in Bundles \cup {None} : Goto(p, "head", [NoJob EXCEPT !.bundle = b])
  BY DEF TakeLock
<1>2. PICK j : j = [NoJob EXCEPT !.bundle = b]
  OBVIOUS
<1>3. /\ UNCHANGED <<made, entries, heads, latestEntry, latestHead, previousHead, published,
                     forced, faults>>
      /\ Goto(p, "head", j) /\ commands' = commands + 1
      /\ disturbed' = disturbed \cup Running(Readers) /\ ~lock /\ lock'
      /\ lock' \in BOOLEAN
  BY <1>1, <1>2 DEF TakeLock, Counted
<1>4. j \in Jobs /\ "head" \in Steps /\ JobInv("head", j)
  BY <1>2, NewJobs, StepNames DEF JobInv, HasHead, LockedSteps
<1>5. commands' \in Nat /\ faults' \in Nat /\ disturbed' \subseteq Procs
  BY <1>3, FilesTyped
<1>6. QED
  BY <1>3, <1>4, <1>5, QuietStep

(* A step of an append that only reads. *)
LEMMA ReadingStep ==
    ASSUME LedgerInv, NEW p \in Procs, pc[p] \in LockedSteps, NEW step \in LockedSteps,
           NEW j \in Jobs, Goto(p, step, j), JobInv(step, j),
           (step \in {"previous", "latest"} /\ ~forced) => Covered(j.new),
           UNCHANGED <<lock, made, entries, heads, latestEntry, latestHead, previousHead,
                       published, forced, commands, faults, disturbed>>
    PROVE  LedgerInv'
<1>1. /\ commands' \in Nat /\ faults' \in Nat /\ disturbed' \subseteq Procs
      /\ lock' \in BOOLEAN /\ step \in Steps
  BY FilesTyped, StepNames
<1>2. QED
  BY <1>1, QuietStep

LEMMA ReadHeadInv ==
    ASSUME LedgerInv, NEW p \in Procs, ReadHead(p) PROVE LedgerInv'
<1>1. /\ pc[p] = "head" /\ pc[p] \in LockedSteps /\ "list" \in LockedSteps
      /\ "unlock" \in LockedSteps
      /\ UNCHANGED <<lock, made, entries, heads, latestEntry, latestHead, previousHead,
                     published, forced, commands, faults, disturbed>>
  BY DEF ReadHead, files, history, LockedSteps
<1>2. CASE Readable(latestHead) /\ Goto(p, "list", [job[p] EXCEPT !.head = latestHead])
  <2>1. PICK j : j = [job[p] EXCEPT !.head = latestHead]
    OBVIOUS
  <2>2. latestHead \in HeadType
    BY <1>2, FilesTyped DEF Readable
  <2>3. j \in Jobs /\ j.head \in HeadType
    BY <2>1, <2>2, JobOf, JobUpdates
  <2>4. JobInv("list", j) /\ Goto(p, "list", j)
    BY <1>2, <2>1, <2>3 DEF JobInv
  <2>5. QED
    BY <1>1, <2>3, <2>4, ReadingStep
<1>3. CASE Goto(p, "unlock", job[p])
  <2>1. PICK j : j = job[p]
    OBVIOUS
  <2>2. j \in Jobs /\ JobInv("unlock", j) /\ Goto(p, "unlock", j)
    BY <1>3, <2>1, JobOf DEF JobInv, HasHead
  <2>3. QED
    BY <1>1, <2>2, ReadingStep
<1>4. QED
  BY <1>2, <1>3 DEF ReadHead

LEMMA ListEntriesInv ==
    ASSUME LedgerInv, NEW p \in Procs, ListEntries(p) PROVE LedgerInv'
<1>1. PICK j : j = job[p]
  OBVIOUS
<1>2. /\ pc[p] = "list" /\ pc[p] \in LockedSteps /\ "entry" \in LockedSteps
      /\ "unlock" \in LockedSteps
      /\ UNCHANGED <<lock, made, entries, heads, latestEntry, latestHead, previousHead,
                     published, forced, commands, faults, disturbed>>
  BY DEF ListEntries, files, history, LockedSteps
<1>3. j \in Jobs /\ j.head \in HeadType /\ (j.bundle # None => j.bundle \in Bundles)
  BY <1>1, <1>2, JobOf DEF JobInv, HasHead, Jobs
<1>4. CASE Goto(p, "entry", j) /\ j.bundle # None
  <2>1. JobInv("entry", j)
    BY <1>3, <1>4 DEF JobInv
  <2>2. QED
    BY <1>2, <1>3, <1>4, <2>1, ReadingStep
<1>5. CASE Goto(p, "unlock", j)
  <2>1. JobInv("unlock", j)
    BY DEF JobInv, HasHead
  <2>2. QED
    BY <1>2, <1>3, <1>5, <2>1, ReadingStep
<1>6. (Goto(p, "entry", j) /\ j.bundle # None) \/ Goto(p, "unlock", j)
  BY <1>1 DEF ListEntries
<1>7. QED
  BY <1>4, <1>5, <1>6

LEMMA NewEntryTyped ==
    ASSUME LedgerInv, NEW p \in Procs,
           pc[p] \in {"entry", "latestEntry", "root", "previous", "latest", "numbered"},
           job[p].head.size < MaxSize
    PROVE  /\ job[p].head \in HeadType /\ job[p].head.size \in Positions
           /\ job[p].head.size \in Sizes /\ job[p].head.size + 1 \in Sizes
           /\ NewEntry(p) \in Entry /\ NewEntry(p).sequence = job[p].head.size
           /\ Readable(NewEntry(p))
<1>1. job[p].head \in HeadType /\ job[p].bundle \in Bundles
  BY JobOf DEF JobInv, HasHead
<1>2. job[p].head.size \in Sizes
  BY <1>1 DEF HeadType
<1>3. job[p].head.size \in Positions /\ job[p].head.size + 1 \in Sizes
  BY <1>2, BoundTypes
<1>4. NewEntry(p) \in Entry /\ NewEntry(p).sequence = job[p].head.size
  BY <1>1, <1>3 DEF NewEntry, Entry
<1>5. QED
  BY <1>1, <1>2, <1>3, <1>4, AbsentAssumption DEF Readable

LEMMA WriteEntryInv ==
    ASSUME LedgerInv, NEW p \in Procs, WriteEntry(p) PROVE LedgerInv'
<1>1. PICK j : j = job[p]
  OBVIOUS
<1>2. /\ pc[p] = "entry" /\ pc[p] \in LockedSteps /\ "latestEntry" \in LockedSteps
      /\ "unlock" \in LockedSteps /\ j.head.size < MaxSize
      /\ UNCHANGED <<lock, heads, latestEntry, latestHead, previousHead,
                     published, forced, commands, faults, disturbed>>
  BY <1>1 DEF WriteEntry, history, LockedSteps
<1>3. /\ j \in Jobs /\ j.head \in HeadType /\ j.bundle \in Bundles
  BY <1>1, <1>2, JobOf DEF JobInv, HasHead
<1>4. PICK n : n = j.head.size
  OBVIOUS
<1>5. /\ n \in Positions /\ NewEntry(p) \in Entry /\ NewEntry(p).sequence = n
  BY <1>1, <1>2, <1>4, NewEntryTyped
<1>6. PICK e : e = NewEntry(p)
  OBVIOUS
<1>7. CASE /\ entries[n] = None /\ entries' = [entries EXCEPT ![n] = e]
           /\ made' = TRUE /\ Goto(p, "latestEntry", j)
  <2>1. /\ entries' \in [Positions -> Entry \cup {None, Torn}]
        /\ entries'[n] = e /\ \A i \in Positions \ {n} : entries'[i] = entries[i]
    BY <1>5, <1>6, <1>7, FilesTyped
  <2>2. InPlace'
    BY <1>5, <1>6, <2>1 DEF LedgerInv, InPlace
  <2>3. Kept
    BY <1>2, <1>7, <2>1 DEF Kept
  <2>4. JobInv("latestEntry", j) /\ "latestEntry" \in Steps
    BY <1>2, <1>3, StepNames DEF JobInv
  <2>5. commands' \in Nat /\ faults' \in Nat /\ disturbed' \subseteq Procs /\ lock' \in BOOLEAN
    BY <1>2, FilesTyped
  <2>6. /\ heads' \in [Sizes -> HeadType \cup {None, Torn}]
        /\ latestEntry' \in Entry \cup {None} /\ latestHead' \in HeadType \cup {None, Torn}
        /\ previousHead' \in HeadType \cup {None}
    BY <1>2, FilesTyped
  <2>7. QED
    BY <1>2, <1>3, <1>7, <2>1, <2>2, <2>3, <2>4, <2>5, <2>6, LedgerStep
<1>8. CASE Goto(p, "unlock", j) /\ UNCHANGED <<entries, made>>
  <2>1. JobInv("unlock", j)
    BY DEF JobInv, HasHead
  <2>2. QED
    BY <1>2, <1>3, <1>8, <2>1, ReadingStep
<1>9. QED
  BY <1>1, <1>4, <1>6, <1>7, <1>8 DEF WriteEntry

(* A step of an append that replaces one of the copies. *)
LEMMA ReplacingStep ==
    ASSUME LedgerInv, NEW p \in Procs, pc[p] \in LockedSteps, NEW step \in LockedSteps,
           NEW j \in Jobs, Goto(p, step, j), JobInv(step, j),
           (step \in {"previous", "latest"} /\ ~forced) => Covered(j.new),
           made' = TRUE, latestEntry' \in Entry \cup {None},
           latestHead' \in HeadType \cup {None, Torn}, previousHead' \in HeadType \cup {None},
           \A h \in published' : h \in published \/ (h \in HeadType /\ (~forced => Covered(h))),
           UNCHANGED <<lock, entries, heads, forced, commands, faults, disturbed>>
    PROVE  LedgerInv'
<1>1. Kept /\ InPlace'
  BY DEF Kept, LedgerInv, InPlace
<1>2. /\ commands' \in Nat /\ faults' \in Nat /\ disturbed' \subseteq Procs
      /\ lock' \in BOOLEAN /\ step \in Steps
      /\ entries' \in [Positions -> Entry \cup {None, Torn}]
      /\ heads' \in [Sizes -> HeadType \cup {None, Torn}]
  BY FilesTyped, StepNames
<1>3. \A h : Covered(h) => Covered(h)'
  BY DEF Covered, RootFor, Stored
<1>4. QED
  BY <1>1, <1>2, <1>3, LedgerStep

LEMMA ReplaceLatestEntryInv ==
    ASSUME LedgerInv, NEW p \in Procs, ReplaceLatestEntry(p) PROVE LedgerInv'
<1>1. PICK j : j = job[p]
  OBVIOUS
<1>2. /\ pc[p] = "latestEntry" /\ pc[p] \in LockedSteps /\ "root" \in LockedSteps
      /\ Goto(p, "root", j) /\ made' = TRUE /\ latestEntry' = NewEntry(p)
      /\ UNCHANGED <<lock, entries, heads, latestHead, previousHead,
                     published, forced, commands, faults, disturbed>>
  BY <1>1 DEF ReplaceLatestEntry, history, LockedSteps
<1>3. /\ j \in Jobs /\ j.head \in HeadType /\ j.bundle \in Bundles /\ j.head.size < MaxSize
  BY <1>1, <1>2, JobOf DEF JobInv, HasHead
<1>4. JobInv("root", j)
  BY <1>3 DEF JobInv
<1>5. latestEntry' \in Entry \cup {None}
  BY <1>1, <1>2, <1>3, NewEntryTyped
<1>6. latestHead' \in HeadType \cup {None, Torn} /\ previousHead' \in HeadType \cup {None}
  BY <1>2, FilesTyped
<1>7. \A h \in published' : h \in published \/ (h \in HeadType /\ (~forced => Covered(h)))
  BY <1>2
<1>8. ("root" \in {"previous", "latest"} /\ ~forced) => Covered(j.new)
  OBVIOUS
<1>9. QED
  BY <1>2, <1>3, <1>4, <1>5, <1>6, <1>7, <1>8, ReplacingStep

(* The head made of a tree that was loaded whole. *)
LEMMA HeadAfterTyped ==
    ASSUME LedgerInv, NEW p \in Procs, pc[p] = "root", Loads(job[p].head.size + 1)
    PROVE  LET new == HeadAfter(job[p].head, NewEntry(p))
           IN  new \in HeadType /\ new.size = job[p].head.size + 1 /\ Covered(new)
<1>1. PICK old : old = job[p].head
  OBVIOUS
<1>2. PICK n : n = old.size + 1
  OBVIOUS
<1>3. PICK new : new = HeadAfter(old, NewEntry(p))
  OBVIOUS
<1>4. /\ old \in HeadType /\ old.size < MaxSize /\ old.size \in Sizes /\ n \in Sizes
      /\ NewEntry(p) \in Entry /\ old.root \in Roots
  BY <1>1, <1>2, JobOf, NewEntryTyped DEF JobInv, HasHead, HeadType
<1>5. \A i \in 0 .. n - 1 : Readable(entries[i])
  <2>1. 0 .. n - 1 \subseteq {i \in DOMAIN entries : entries[i] # None}
    BY <1>1, <1>2 DEF Loads, Listed
  <2>2. QED
    BY <1>1, <1>2, <2>1 DEF Loads, Readable
<1>6. RootFor(n) \in Roots
  BY <1>4, <1>5, StoredTyped DEF LedgerInv
<1>7. new \in HeadType /\ new.size = n /\ new.root = RootFor(n)
  BY <1>2, <1>3, <1>4, <1>6 DEF HeadAfter, HeadType
<1>8. Covered(new)
  BY <1>5, <1>7 DEF Covered
<1>9. QED
  BY <1>1, <1>2, <1>3, <1>7, <1>8

LEMMA ComputeRootInv ==
    ASSUME LedgerInv, NEW p \in Procs, ComputeRoot(p) PROVE LedgerInv'
<1>1. /\ pc[p] = "root" /\ pc[p] \in LockedSteps /\ "previous" \in LockedSteps
      /\ "unlock" \in LockedSteps
      /\ UNCHANGED <<lock, made, entries, heads, latestEntry, latestHead, previousHead,
                     published, forced, commands, faults, disturbed>>
  BY DEF ComputeRoot, files, history, LockedSteps
<1>2. CASE /\ Loads(job[p].head.size + 1)
           /\ Goto(p, "previous",
                   [job[p] EXCEPT !.new = HeadAfter(job[p].head, NewEntry(p))])
  <2>1. PICK new : new = HeadAfter(job[p].head, NewEntry(p))
    OBVIOUS
  <2>2. PICK j : j = [job[p] EXCEPT !.new = new]
    OBVIOUS
  <2>3. new \in HeadType /\ new.size = job[p].head.size + 1 /\ Covered(new)
    BY <1>1, <1>2, <2>1, HeadAfterTyped
  <2>4. /\ j \in Jobs /\ j.new = new /\ j.head = job[p].head /\ j.bundle = job[p].bundle
    BY <2>2, <2>3, JobOf, JobUpdates
  <2>5. job[p].head \in HeadType /\ job[p].bundle \in Bundles /\ job[p].head.size < MaxSize
    BY <1>1, JobOf DEF JobInv, HasHead
  <2>6. JobInv("previous", j) /\ Goto(p, "previous", j)
    BY <1>2, <2>1, <2>2, <2>3, <2>4, <2>5 DEF JobInv
  <2>7. QED
    BY <1>1, <2>3, <2>4, <2>6, ReadingStep
<1>3. CASE Goto(p, "unlock", job[p])
  <2>1. PICK j : j = job[p]
    OBVIOUS
  <2>2. j \in Jobs /\ JobInv("unlock", j) /\ Goto(p, "unlock", j)
    BY <1>3, <2>1, JobOf DEF JobInv, HasHead
  <2>3. QED
    BY <1>1, <2>2, ReadingStep
<1>4. QED
  BY <1>2, <1>3 DEF ComputeRoot

LEMMA ReplaceHeadsInv ==
    ASSUME LedgerInv, NEW p \in Procs, ReplacePrevious(p) \/ ReplaceLatest(p)
    PROVE  LedgerInv'
<1>1. PICK j : j = job[p]
  OBVIOUS
<1>2. /\ pc[p] \in {"previous", "latest"} /\ pc[p] \in LockedSteps
      /\ made' = TRUE
      /\ UNCHANGED <<lock, entries, heads, latestEntry, forced, commands, faults, disturbed>>
  BY DEF ReplacePrevious, ReplaceLatest, history, LockedSteps
<1>3. /\ j \in Jobs /\ j.head \in HeadType /\ j.bundle \in Bundles /\ j.head.size < MaxSize
      /\ j.new \in HeadType /\ j.new.size = j.head.size + 1 /\ (~forced => Covered(j.new))
  BY <1>1, <1>2, JobOf DEF JobInv, NewCovered, HasHead
<1>4. /\ JobInv("latest", j) /\ "latest" \in LockedSteps
      /\ JobInv("numbered", j) /\ "numbered" \in LockedSteps
  BY <1>3 DEF JobInv, LockedSteps
<1>5. latestEntry' \in Entry \cup {None}
  BY <1>2, FilesTyped
<1>6. CASE ReplacePrevious(p)
  <2>1. /\ Goto(p, "latest", j) /\ previousHead' = j.head /\ UNCHANGED <<latestHead, published>>
    BY <1>1, <1>6 DEF ReplacePrevious, history
  <2>2. latestHead' \in HeadType \cup {None, Torn} /\ previousHead' \in HeadType \cup {None}
    BY <1>3, <2>1, FilesTyped
  <2>3. \A h \in published' : h \in published \/ (h \in HeadType /\ (~forced => Covered(h)))
    BY <1>3, <2>1
  <2>4. QED
    BY <1>2, <1>3, <1>4, <1>5, <2>1, <2>2, <2>3, ReplacingStep
<1>7. CASE ReplaceLatest(p)
  <2>1. /\ Goto(p, "numbered", j) /\ latestHead' = j.new /\ UNCHANGED previousHead
        /\ published' = published \cup {j.new}
    BY <1>1, <1>7 DEF ReplaceLatest
  <2>2. latestHead' \in HeadType \cup {None, Torn} /\ previousHead' \in HeadType \cup {None}
    BY <1>3, <2>1, FilesTyped
  <2>3. \A h \in published' : h \in published \/ (h \in HeadType /\ (~forced => Covered(h)))
    BY <1>3, <2>1
  <2>4. QED
    BY <1>2, <1>3, <1>4, <1>5, <2>1, <2>2, <2>3, ReplacingStep
<1>8. QED
  BY <1>6, <1>7

LEMMA WriteNumberedInv ==
    ASSUME LedgerInv, NEW p \in Procs, WriteNumbered(p) PROVE LedgerInv'
<1>1. PICK j : j = job[p]
  OBVIOUS
<1>2. /\ pc[p] = "numbered" /\ pc[p] \in LockedSteps /\ "unlock" \in LockedSteps
      /\ Goto(p, "unlock", j) /\ made' = TRUE
      /\ heads' = IF heads[j.new.size] = None
                  THEN [heads EXCEPT ![j.new.size] = j.new] ELSE heads
      /\ UNCHANGED <<lock, entries, latestEntry, latestHead, previousHead, published, forced,
                     commands, faults, disturbed>>
  BY <1>1 DEF WriteNumbered, history, LockedSteps
<1>3. j \in Jobs /\ j.new \in HeadType /\ j.new.size \in Sizes
  BY <1>1, <1>2, JobOf DEF JobInv, HeadType
<1>4. /\ heads' \in [Sizes -> HeadType \cup {None, Torn}] /\ Kept /\ InPlace'
  BY <1>2, <1>3, FilesTyped DEF Kept, LedgerInv, InPlace
<1>5. JobInv("unlock", j) /\ "unlock" \in Steps
  BY <1>2, StepNames DEF JobInv, HasHead
<1>6. /\ commands' \in Nat /\ faults' \in Nat /\ disturbed' \subseteq Procs
      /\ lock' \in BOOLEAN
      /\ entries' \in [Positions -> Entry \cup {None, Torn}]
      /\ latestEntry' \in Entry \cup {None} /\ latestHead' \in HeadType \cup {None, Torn}
      /\ previousHead' \in HeadType \cup {None}
  BY <1>2, FilesTyped
<1>7. QED
  BY <1>2, <1>3, <1>4, <1>5, <1>6, LedgerStep

LEMMA UnlockInv ==
    ASSUME LedgerInv, NEW p \in Procs, Unlock(p) PROVE LedgerInv'
<1>1. /\ UNCHANGED <<made, entries, heads, latestEntry, latestHead, previousHead, published,
                     forced, commands, faults, disturbed>>
      /\ Stop(p) /\ pc[p] \in LockedSteps /\ lock' \in BOOLEAN
  BY DEF Unlock, history, LockedSteps
<1>2. commands' \in Nat /\ faults' \in Nat /\ disturbed' \subseteq Procs
  BY <1>1, FilesTyped
<1>3. QED
  BY <1>1, <1>2, StoppedQuietly

-----------------------------------------------------------------------------
(* The readers. *)
LEMMA ReaderStep ==
    ASSUME LedgerInv, NEW p \in Procs, NEW step \in Steps \ LockedSteps,
           NEW j \in Jobs, Goto(p, step, j), JobInv(step, j),
           UNCHANGED <<files, published, forced>>, commands' \in Nat, faults' \in Nat,
           disturbed' \subseteq Procs,
           pc[p] \notin LockedSteps
    PROVE  LedgerInv'
<1>1. /\ lock' \in BOOLEAN
      /\ UNCHANGED <<lock, made, entries, heads, latestEntry, latestHead, previousHead>>
      /\ step \notin {"previous", "latest"}
  BY FilesTyped DEF files, LockedSteps
<1>2. QED
  BY <1>1, QuietStep

LEMMA ReaderNames ==
    /\ {"vHead", "vEntries", "vHeads", "vPrevious", "vLatestEntry", "iHead", "iEntries", "idle"}
       \subseteq Steps \ LockedSteps
    /\ {"vHead", "iHead", "idle"} \cap HasHead = {}
BY DEF Steps, Writers, Readers, LockedSteps, InitSteps, VerifySteps, InclusionSteps, HasHead

LEMMA ReadCommandInv ==
    ASSUME LedgerInv, NEW p \in Procs, ReadCommand(p) PROVE LedgerInv'
<1>1. PICK old : old = job[p]
  OBVIOUS
<1>2. /\ old \in Jobs
      /\ pc[p] \in {"vEntries", "vHeads", "vPrevious", "vLatestEntry", "iEntries"} =>
             old.head \in HeadType /\ old.head.size \in Sizes
  BY <1>1, JobOf DEF JobInv, HasHead, HeadType
<1>3. Readable(latestHead) => latestHead \in HeadType
  BY FilesTyped DEF Readable
<1>4. faults \in Nat /\ disturbed \subseteq Procs /\ commands \in Nat /\ commands + 1 \in Nat
  BY FilesTyped
<1>5. ASSUME Say(p, TRUE) \/ Say(p, FALSE) \/ Stop(p) PROVE Goto(p, "idle", NoJob)
  BY <1>5 DEF Say, Stop
<1>6. NoJob \in Jobs /\ "idle" \in Steps \ LockedSteps /\ JobInv("idle", NoJob)
  BY EmptyTyped, ReaderNames DEF JobInv, HasHead
<1>7. CASE StartVerify(p)
  <2>1. /\ Goto(p, "vHead", NoJob) /\ commands' = commands + 1 /\ UNCHANGED <<faults, files>>
        /\ UNCHANGED <<published, forced>> /\ disturbed' \subseteq disturbed \cup {p}
        /\ pc[p] = "idle"
    BY <1>7 DEF StartVerify, Counted, Disturb
  <2>2. JobInv("vHead", NoJob) /\ "vHead" \in Steps \ LockedSteps /\ pc[p] \notin LockedSteps
    BY <2>1, ReaderNames DEF JobInv, HasHead, LockedSteps
  <2>3. disturbed' \subseteq Procs /\ commands' \in Nat /\ faults' \in Nat
    BY <1>4, <2>1
  <2>4. QED
    BY <1>6, <2>1, <2>2, <2>3, ReaderStep
<1>8. CASE StartProveInclusion(p)
  <2>1. PICK i \in Positions : Goto(p, "iHead", [NoJob EXCEPT !.sequence = i])
    BY <1>8 DEF StartProveInclusion
  <2>2. PICK j : j = [NoJob EXCEPT !.sequence = i]
    OBVIOUS
  <2>3. /\ Goto(p, "iHead", j) /\ commands' = commands + 1 /\ UNCHANGED <<faults, files>>
        /\ UNCHANGED <<published, forced>> /\ disturbed' \subseteq disturbed \cup {p}
        /\ pc[p] = "idle"
    BY <1>8, <2>1, <2>2 DEF StartProveInclusion, Counted, Disturb
  <2>4. JobInv("iHead", j) /\ "iHead" \in Steps \ LockedSteps /\ pc[p] \notin LockedSteps
    BY <2>3, ReaderNames DEF JobInv, HasHead, LockedSteps
  <2>5. disturbed' \subseteq Procs /\ commands' \in Nat /\ faults' \in Nat
    BY <1>4, <2>3
  <2>6. j \in Jobs
    BY <2>2, NewJobs
  <2>7. QED
    BY <2>3, <2>4, <2>5, <2>6, ReaderStep
<1>9. CASE ProveConsistency(p)
  <2>1. /\ UNCHANGED <<pc, job, faults, files, published, forced, disturbed>>
        /\ commands' = commands + 1
        /\ pc[p] = "idle"
    BY <1>9 DEF ProveConsistency, Counted, history
  <2>2. pc \in [Procs -> Steps] /\ job \in [Procs -> Jobs]
    BY DEF LedgerInv, TypeOK
  <2>3. Goto(p, "idle", old)
    BY <1>1, <2>1, <2>2 DEF Goto
  <2>4. JobInv("idle", old) /\ "idle" \in Steps \ LockedSteps /\ pc[p] \notin LockedSteps
    BY <2>1, ReaderNames DEF JobInv, HasHead, LockedSteps
  <2>5. disturbed' \subseteq Procs /\ commands' \in Nat /\ faults' \in Nat
    BY <1>4, <2>1
  <2>6. QED
    BY <1>2, <2>1, <2>3, <2>4, <2>5, ReaderStep
<1>10. CASE /\ pc[p] \notin LockedSteps
            /\ UNCHANGED <<files, commands, faults, published, forced, disturbed>>
            /\ \E step \in Steps \ LockedSteps, j \in Jobs : Goto(p, step, j) /\ JobInv(step, j)
  <2>1. disturbed' \subseteq Procs /\ commands' \in Nat /\ faults' \in Nat
    BY <1>4, <1>10
  <2>2. QED
    BY <1>10, <2>1, ReaderStep
<1>11. ASSUME VerifyHead(p) \/ VerifyEntries(p) \/ VerifyHeads(p) \/ VerifyPrevious(p)
              \/ VerifyLatestEntry(p) \/ InclusionHead(p) \/ ProveInclusion(p)
       PROVE  /\ pc[p] \notin LockedSteps
              /\ UNCHANGED <<files, commands, faults, published, forced, disturbed>>
  BY <1>11 DEF VerifyHead, VerifyEntries, VerifyHeads, VerifyPrevious, VerifyLatestEntry,
               InclusionHead, ProveInclusion, history, LockedSteps
<1>12. ASSUME VerifyHead(p) \/ InclusionHead(p)
       PROVE  \E step \in Steps \ LockedSteps, j \in Jobs : Goto(p, step, j) /\ JobInv(step, j)
  <2>1. CASE Goto(p, "idle", NoJob)
    BY <1>6, <2>1
  <2>2. PICK j : j = [old EXCEPT !.head = latestHead]
    OBVIOUS
  <2>3. Readable(latestHead) => j \in Jobs /\ j.head \in HeadType
    BY <1>2, <1>3, <2>2, JobUpdates
  <2>4. CASE VerifyHead(p) /\ Readable(latestHead) /\ Goto(p, "vEntries", j)
    <3>1. JobInv("vEntries", j)
      BY <2>3, <2>4 DEF JobInv
    <3>2. QED
      BY <2>3, <2>4, <3>1, ReaderNames
  <2>5. CASE InclusionHead(p) /\ Readable(latestHead) /\ Goto(p, "iEntries", j)
    <3>1. JobInv("iEntries", j)
      BY <2>3, <2>5 DEF JobInv
    <3>2. QED
      BY <2>3, <2>5, <3>1, ReaderNames
  <2>6. QED
    BY <1>1, <1>5, <1>12, <2>1, <2>2, <2>4, <2>5 DEF VerifyHead, InclusionHead
<1>13. ASSUME VerifyEntries(p)
       PROVE  \E step \in Steps \ LockedSteps, j \in Jobs : Goto(p, step, j) /\ JobInv(step, j)
  <2>1. CASE Goto(p, "idle", NoJob)
    BY <1>6, <2>1
  <2>2. PICK n : n = old.head.size
    OBVIOUS
  <2>3. PICK j : j = [old EXCEPT !.log = Stored(n)]
    OBVIOUS
  <2>4. CASE Loads(n) /\ Goto(p, "vHeads", j)
    <3>1. old.head \in HeadType /\ n \in Sizes
      BY <1>2, <1>13, <2>2 DEF VerifyEntries
    <3>2. \A i \in 0 .. n - 1 : Readable(entries[i])
      BY <2>4 DEF Loads, Listed, Readable
    <3>3. Stored(n) \in Logs
      BY <3>1, <3>2, StoredTyped DEF LedgerInv
    <3>4. j \in Jobs /\ j.head \in HeadType
      BY <1>2, <2>3, <3>1, <3>3, JobUpdates
    <3>5. JobInv("vHeads", j)
      BY <3>4 DEF JobInv
    <3>6. QED
      BY <2>4, <3>4, <3>5, ReaderNames
  <2>5. QED
    BY <1>1, <1>5, <1>13, <2>1, <2>2, <2>3, <2>4 DEF VerifyEntries
<1>14. ASSUME VerifyHeads(p)
       PROVE  \E step \in Steps \ LockedSteps, j \in Jobs : Goto(p, step, j) /\ JobInv(step, j)
  <2>1. CASE Goto(p, "idle", NoJob)
    BY <1>6, <2>1
  <2>2. PICK n : n = old.head.size
    OBVIOUS
  <2>3. PICK j : j = [old EXCEPT !.old = heads[n - 1]]
    OBVIOUS
  <2>4. CASE Chained(old.log, n) /\ n > 0 /\ Goto(p, "vPrevious", j)
    <3>1. old.head \in HeadType /\ n \in Sizes /\ n - 1 \in Sizes /\ n - 1 \in 0 .. n
      BY <1>2, <1>14, <2>2, <2>4, BoundTypes DEF VerifyHeads, Sizes
    <3>2. heads[n - 1] \in HeadType
      <4>1. n \in Nat /\ n - 1 \in 0 .. (n + 1) - 1
        BY <3>1, BoundTypes
      <4>2. n - 1 \in {i \in DOMAIN heads : heads[i] # None}
        BY <2>4, <4>1 DEF Chained, Listed
      <4>3. heads[n - 1] # Torn
        BY <2>4, <3>1 DEF Chained
      <4>4. QED
        BY <4>2, <4>3, FilesTyped
    <3>3. j \in Jobs /\ j.head \in HeadType
      BY <1>2, <2>3, <3>1, <3>2, JobUpdates
    <3>4. JobInv("vPrevious", j)
      BY <3>3 DEF JobInv
    <3>5. QED
      BY <2>4, <3>3, <3>4, ReaderNames
  <2>5. QED
    BY <1>1, <1>5, <1>14, <2>1, <2>2, <2>3, <2>4 DEF VerifyHeads
<1>15. ASSUME VerifyPrevious(p) \/ VerifyLatestEntry(p) \/ ProveInclusion(p)
       PROVE  \E step \in Steps \ LockedSteps, j \in Jobs : Goto(p, step, j) /\ JobInv(step, j)
  <2>1. CASE Goto(p, "idle", NoJob)
    BY <1>6, <2>1
  <2>2. CASE VerifyPrevious(p) /\ Goto(p, "vLatestEntry", old)
    <3>1. old.head \in HeadType
      BY <1>2, <2>2 DEF VerifyPrevious
    <3>2. JobInv("vLatestEntry", old)
      BY <3>1 DEF JobInv
    <3>3. QED
      BY <1>2, <2>2, <3>2, ReaderNames
  <2>3. QED
    BY <1>1, <1>15, <2>1, <2>2
       DEF VerifyPrevious, VerifyLatestEntry, ProveInclusion, Say, Stop
<1>16. QED
  BY <1>7, <1>8, <1>9, <1>10, <1>11, <1>12, <1>13, <1>14, <1>15 DEF ReadCommand

-----------------------------------------------------------------------------
(* Faults: what a torn file leaves. *)
LEMMA TornInv ==
    ASSUME LedgerInv, NEW p \in Procs, TornFiles(p)
    PROVE  /\ Kept /\ InPlace'
           /\ entries' \in [Positions -> Entry \cup {None, Torn}]
           /\ heads' \in [Sizes -> HeadType \cup {None, Torn}]
           /\ latestHead' \in HeadType \cup {None, Torn}
           /\ made' = TRUE \/ UNCHANGED <<made, entries, heads, latestHead>>
           /\ UNCHANGED <<lock, latestEntry, previousHead>>
<1>1. CASE UNCHANGED files
  BY <1>1, FilesTyped DEF files, Kept, LedgerInv, InPlace
<1>2. CASE /\ pc[p] = "entry" /\ job[p].head.size < MaxSize
           /\ entries[job[p].head.size] = None
           /\ entries' = [entries EXCEPT ![job[p].head.size] = Torn]
           /\ made' = TRUE
           /\ UNCHANGED <<lock, heads, latestEntry, latestHead, previousHead>>
  <2>1. PICK n : n = job[p].head.size
    OBVIOUS
  <2>2. n \in Positions
    BY <1>2, <2>1, NewEntryTyped
  <2>3. /\ entries' \in [Positions -> Entry \cup {None, Torn}]
        /\ entries'[n] = Torn /\ \A i \in Positions \ {n} : entries'[i] = entries[i]
    BY <1>2, <2>1, <2>2, FilesTyped
  <2>4. Kept
    BY <1>2, <2>1, <2>3 DEF Kept
  <2>5. InPlace'
    BY <2>3 DEF LedgerInv, InPlace, Readable
  <2>6. QED
    BY <1>2, <2>3, <2>4, <2>5, FilesTyped
<1>3. CASE /\ pc[p] = "numbered" /\ heads[job[p].new.size] = None
           /\ heads' = [heads EXCEPT ![job[p].new.size] = Torn]
           /\ made' = TRUE
           /\ UNCHANGED <<lock, entries, latestEntry, latestHead, previousHead>>
  BY <1>3, FilesTyped DEF Kept, LedgerInv, InPlace
<1>4. CASE /\ pc[p] = "head0" /\ latestHead = None /\ latestHead' = Torn /\ made' = TRUE
           /\ UNCHANGED <<lock, entries, heads, latestEntry, previousHead>>
  BY <1>4, FilesTyped DEF Kept, LedgerInv, InPlace
<1>5. CASE /\ pc[p] = "numbered0" /\ heads[0] = None /\ heads' = [heads EXCEPT ![0] = Torn]
           /\ made' = TRUE
           /\ UNCHANGED <<lock, entries, latestEntry, latestHead, previousHead>>
  BY <1>5, FilesTyped DEF Kept, LedgerInv, InPlace
<1>6. QED
  BY <1>1, <1>2, <1>3, <1>4, <1>5 DEF TornFiles

LEMMA FaultInv ==
    ASSUME LedgerInv, NEW p \in Procs, Fail(p) \/ Die(p) PROVE LedgerInv'
<1>1. /\ TornFiles(p) /\ faults' = faults + 1
      /\ UNCHANGED <<commands, published, forced, disturbed>>
  BY DEF Fail, Die, Fault, history
<1>2. /\ commands' \in Nat /\ faults' \in Nat /\ disturbed' \subseteq Procs
      /\ lock' \in BOOLEAN /\ lock' = lock
  BY <1>1, TornInv, FilesTyped
<1>3. CASE Stop(p)
  BY <1>1, <1>2, <1>3, TornInv, StopStep
<1>4. CASE pc[p] \in LockedSteps /\ Goto(p, "unlock", job[p])
  <2>1. PICK j : j = job[p]
    OBVIOUS
  <2>2. /\ j \in Jobs /\ JobInv("unlock", j) /\ Goto(p, "unlock", j) /\ "unlock" \in Steps
        /\ "unlock" \in LockedSteps
    BY <1>4, <2>1, JobOf, StepNames DEF JobInv, HasHead, LockedSteps
  <2>3. /\ latestEntry' \in Entry \cup {None} /\ previousHead' \in HeadType \cup {None}
        /\ \/ made' = TRUE
           \/ UNCHANGED <<made, entries, heads, latestEntry, latestHead, previousHead, published>>
    BY <1>1, TornInv, FilesTyped
  <2>4. QED
    BY <1>1, <1>2, <1>4, <2>2, <2>3, TornInv, LedgerStep
<1>5. QED
  BY <1>3, <1>4 DEF Fail, Die

-----------------------------------------------------------------------------
(* The ledgers the model starts with. *)
LEMMA StartTyped ==
    ASSUME NEW s \in Starts
    PROVE  /\ s \in Seq(Bundles) /\ Len(s) \in Sizes /\ Len(LogOf(s)) = Len(s)
           /\ \A i \in 1 .. Len(s) : /\ i - 1 \in Positions /\ s[i] \in Bundles
                                     /\ LogOf(s)[i] = [sequence |-> i - 1, bundle |-> s[i]]
                                     /\ LogOf(s)[i] \in Entry
           /\ \A n \in 0 .. Len(s) :
                 /\ n \in Sizes /\ SubSeq(LogOf(s), 1, n) = [i \in 1 .. n |-> LogOf(s)[i]]
                 /\ merkle_root[SubSeq(LogOf(s), 1, n)] \in Roots
<1>1. s \in Seq(Bundles) /\ Len(s) \in Nat /\ Len(s) <= MaxSize /\ MaxSize \in Nat
  BY StartsAssumption, BoundTypes
<1>2. \A i \in 1 .. Len(s) : /\ i - 1 \in Positions /\ s[i] \in Bundles
                             /\ LogOf(s)[i] = [sequence |-> i - 1, bundle |-> s[i]]
                             /\ LogOf(s)[i] \in Entry
  <2>1. \A i \in 1 .. Len(s) : i - 1 \in Positions /\ s[i] \in Bundles
    BY <1>1 DEF Positions
  <2>2. \A i \in 1 .. Len(s) : LogOf(s)[i] = [sequence |-> i - 1, bundle |-> s[i]]
    BY DEF LogOf
  <2>3. QED
    BY <2>1, <2>2 DEF Entry
<1>3. LogOf(s) = [i \in 1 .. Len(s) |-> LogOf(s)[i]]
  BY DEF LogOf
<1>4. LogOf(s) \in Seq(Entry) /\ Len(LogOf(s)) = Len(s)
  BY <1>1, <1>2, <1>3, SeqDef, LenProperties
<1>5. ASSUME NEW n \in 0 .. Len(s)
      PROVE  /\ n \in Sizes /\ SubSeq(LogOf(s), 1, n) = [i \in 1 .. n |-> LogOf(s)[i]]
             /\ merkle_root[SubSeq(LogOf(s), 1, n)] \in Roots
  <2>1. n \in Sizes /\ n \in Nat /\ 1 .. n \subseteq 1 .. Len(s)
    BY <1>1 DEF Sizes
  <2>2. /\ SubSeq(LogOf(s), 1, n) \in Seq(Entry) /\ Len(SubSeq(LogOf(s), 1, n)) = n
        /\ \A i \in 1 .. n : SubSeq(LogOf(s), 1, n)[i] = LogOf(s)[i]
    BY <1>1, <1>4, <2>1, SubSeqProperties
  <2>3. SubSeq(LogOf(s), 1, n) = [i \in 1 .. n |-> LogOf(s)[i]]
    BY <2>2, LenProperties
  <2> DEFINE t == [i \in 1 .. n |-> s[i]]
  <2>8. /\ t \in [1 .. n -> Bundles]
        /\ \A i \in 1 .. n : [sequence |-> i - 1, bundle |-> t[i]] = LogOf(s)[i]
    BY <1>2, <2>1
  <2> HIDE DEF t
  <2>4. t \in Seq(Bundles) /\ Len(t) = n
    BY <2>1, <2>8, SeqDef, LenProperties
  <2>5. LogOf(t) = [i \in 1 .. n |-> LogOf(s)[i]]
    BY <2>4, <2>8 DEF LogOf
  <2>6. LogOf(t) \in Logs
    BY <2>1, <2>8 DEF Logs
  <2>7. QED
    BY <2>1, <2>3, <2>5, <2>6 DEF Roots
<1>6. Len(s) \in Sizes
  BY <1>1 DEF Sizes
<1>7. QED
  BY <1>1, <1>2, <1>4, <1>5, <1>6

LEMMA HeadOfTyped ==
    ASSUME NEW s \in Starts, NEW n \in 0 .. Len(s)
    PROVE  /\ HeadOf(s, n) \in HeadType /\ HeadOf(s, n).size = n
           /\ HeadOf(s, n).root = merkle_root[SubSeq(LogOf(s), 1, n)]
<1>1. Len(s) \in Nat /\ n \in Nat
  BY StartTyped, BoundTypes
<1>2. CASE n = 0
  <2>1. SubSeq(LogOf(s), 1, 0) = <<>>
    BY <1>1, StartTyped
  <2>2. QED
    BY <1>2, <2>1, EmptyTyped DEF HeadOf
<1>3. CASE n # 0
  <2>1. n - 1 \in 0 .. Len(s) /\ n \in 1 .. Len(s)
    BY <1>1, <1>3
  <2>2. /\ n \in Sizes /\ n - 1 \in Sizes /\ LogOf(s)[n] \in Entry
        /\ merkle_root[SubSeq(LogOf(s), 1, n)] \in Roots
        /\ merkle_root[SubSeq(LogOf(s), 1, n - 1)] \in Roots
    BY <2>1, StartTyped
  <2>3. QED
    BY <1>3, <2>2 DEF HeadOf, HeadType
<1>4. QED
  BY <1>2, <1>3

(* The entries and heads of a ledger that starts with s. *)
LEMMA StartedFiles ==
    ASSUME NEW s \in Starts,
           entries = [i \in Positions |-> IF i < Len(s) THEN LogOf(s)[i + 1] ELSE None],
           heads = [i \in Sizes |-> IF i <= Len(s) THEN HeadOf(s, i) ELSE None]
    PROVE  /\ entries \in [Positions -> Entry \cup {None}] /\ InPlace
           /\ \A i \in 0 .. Len(s) - 1 : entries[i] = LogOf(s)[i + 1] /\ Readable(entries[i])
           /\ \A i \in Positions : i >= Len(s) => entries[i] = None
           /\ heads \in [Sizes -> HeadType \cup {None}]
           /\ \A n \in 0 .. Len(s) : /\ heads[n] = HeadOf(s, n) /\ Covered(heads[n])
                                     /\ RootFor(n) = merkle_root[SubSeq(LogOf(s), 1, n)]
           /\ \A n \in Sizes : n > Len(s) => heads[n] = None
<1>1. /\ Len(s) \in Sizes /\ Len(s) \in Nat
      /\ \A i \in 0 .. Len(s) - 1 : i \in Positions /\ i + 1 \in 1 .. Len(s)
      /\ \A i \in Positions : i \in Nat
      /\ \A n \in Sizes : n \in Nat
      /\ \A n \in 0 .. Len(s) : n \in Sizes /\ n \in Nat
  <2>1. /\ Len(s) \in Sizes /\ Len(s) \in Nat /\ 0 .. Len(s) - 1 \subseteq Positions
        /\ \A i \in Positions : i \in Nat
        /\ \A n \in Sizes : n \in Nat
    BY StartTyped, BoundTypes
  <2>2. \A n \in 0 .. Len(s) : n \in Sizes
    BY StartTyped
  <2>3. QED
    BY <2>1, <2>2
<1>2. \A i \in 0 .. Len(s) - 1 : entries[i] = LogOf(s)[i + 1]
  BY <1>1
<1>3. \A i \in Positions : i >= Len(s) => entries[i] = None
  BY <1>1
<1>4. \A i \in Positions : i < Len(s) => i \in 0 .. Len(s) - 1
  BY <1>1
<1>5. \A i \in 0 .. Len(s) - 1 : /\ entries[i] \in Entry /\ entries[i].sequence = i
                                 /\ Readable(entries[i])
  <2>1. SUFFICES ASSUME NEW i \in 0 .. Len(s) - 1
                 PROVE  /\ entries[i] \in Entry /\ entries[i].sequence = i
                        /\ Readable(entries[i])
    OBVIOUS
  <2>2. /\ LogOf(s)[i + 1] \in Entry
        /\ LogOf(s)[i + 1] = [sequence |-> (i + 1) - 1, bundle |-> s[i + 1]]
    BY <1>1, StartTyped
  <2>3. QED
    BY <1>1, <1>2, <2>2, AbsentAssumption DEF Readable
<1>6. entries \in [Positions -> Entry \cup {None}]
  <2>1. \A i \in Positions : entries[i] \in Entry \cup {None}
    BY <1>1, <1>3, <1>4, <1>5
  <2>2. QED
    BY <2>1
<1>7. InPlace
  BY <1>1, <1>3, <1>4, <1>5 DEF InPlace, Readable
<1>8. /\ \A n \in 0 .. Len(s) : heads[n] = HeadOf(s, n)
      /\ \A n \in Sizes : n > Len(s) => heads[n] = None
      /\ \A n \in Sizes : n <= Len(s) => n \in 0 .. Len(s)
  BY <1>1
<1>9. heads \in [Sizes -> HeadType \cup {None}]
  <2>1. \A n \in Sizes : heads[n] \in HeadType \cup {None}
    BY <1>1, <1>8, HeadOfTyped
  <2>2. QED
    BY <2>1
<1>10. ASSUME NEW n \in 0 .. Len(s)
       PROVE  /\ RootFor(n) = merkle_root[SubSeq(LogOf(s), 1, n)] /\ Covered(heads[n])
  <2>1. Stored(n) = [i \in 1 .. n |-> LogOf(s)[i]]
    <3>1. \A i \in 1 .. n : entries[i - 1] = LogOf(s)[i]
      BY <1>1, <1>2
    <3>2. QED
      BY <3>1 DEF Stored
  <2>2. RootFor(n) = merkle_root[SubSeq(LogOf(s), 1, n)]
    BY <2>1, StartTyped DEF RootFor
  <2>3. \A i \in 0 .. n - 1 : Readable(entries[i])
    <3>1. 0 .. n - 1 \subseteq 0 .. Len(s) - 1
      BY <1>1
    <3>2. QED
      BY <1>5, <3>1
  <2>4. QED
    BY <1>8, <2>2, <2>3, HeadOfTyped DEF Covered
<1>11. QED
  BY <1>2, <1>3, <1>5, <1>6, <1>7, <1>8, <1>9, <1>10

LEMMA InitLedger == Init => LedgerInv
<1>1. SUFFICES ASSUME Init PROVE LedgerInv
  OBVIOUS
<1>2. /\ entries \in [Positions -> Entry \cup {None}] /\ InPlace
      /\ heads \in [Sizes -> HeadType \cup {None}]
      /\ latestEntry \in Entry \cup {None} /\ latestHead \in HeadType \cup {None}
      /\ previousHead \in HeadType \cup {None}
      /\ BareInv
      /\ \A h \in published : h \in HeadType /\ Covered(h)
  <2>1. CASE /\ made = FALSE
             /\ entries = [i \in Positions |-> None] /\ heads = [i \in Sizes |-> None]
             /\ latestEntry = None /\ latestHead = None /\ previousHead = None
    <3>1. published = {}
      BY <1>1, <2>1 DEF Init
    <3>2. InPlace
      BY <2>1 DEF InPlace, Readable
    <3>3. QED
      BY <2>1, <3>1, <3>2 DEF BareInv
  <2>2. ASSUME NEW s \in Starts, made = TRUE,
               entries = [i \in Positions |-> IF i < Len(s) THEN LogOf(s)[i + 1] ELSE None],
               heads = [i \in Sizes |-> IF i <= Len(s) THEN HeadOf(s, i) ELSE None],
               latestEntry = IF s = <<>> THEN None ELSE LogOf(s)[Len(s)],
               latestHead = HeadOf(s, Len(s)),
               previousHead = IF s = <<>> THEN None ELSE HeadOf(s, Len(s) - 1)
        PROVE  /\ entries \in [Positions -> Entry \cup {None}] /\ InPlace
               /\ heads \in [Sizes -> HeadType \cup {None}]
               /\ latestEntry \in Entry \cup {None} /\ latestHead \in HeadType \cup {None}
               /\ previousHead \in HeadType \cup {None}
               /\ BareInv
               /\ \A h \in published : h \in HeadType /\ Covered(h)
    <3>1. Len(s) \in Nat /\ (s # <<>> => Len(s) > 0) /\ s \in Seq(Bundles)
      BY StartTyped, BoundTypes, EmptySeq
    <3>2. latestEntry \in Entry \cup {None}
      BY <2>2, <3>1, StartTyped
    <3>3. latestHead \in HeadType
      BY <2>2, <3>1, HeadOfTyped
    <3>4. previousHead \in HeadType \cup {None}
      BY <2>2, <3>1, HeadOfTyped
    <3>5. BareInv
      BY <2>2 DEF BareInv
    <3>6. \A h \in published : h \in HeadType /\ Covered(h)
      <4>1. \A n \in Sizes : heads[n] # None => n \in 0 .. Len(s)
        BY <2>2, <3>1, StartedFiles, BoundTypes
      <4>2. published = {heads[n] : n \in Sizes} \ {None}
        BY <1>1 DEF Init
      <4>3. \A n \in 0 .. Len(s) : heads[n] \in HeadType /\ Covered(heads[n])
        BY <2>2, StartedFiles, HeadOfTyped
      <4>4. QED
        BY <4>1, <4>2, <4>3
    <3>7. QED
      BY <2>2, <3>2, <3>3, <3>4, <3>5, <3>6, StartedFiles
  <2>3. QED
    BY <1>1, <2>1, <2>2 DEF Init
<1>3. /\ pc = [p \in Procs |-> "idle"] /\ job = [p \in Procs |-> NoJob]
      /\ commands = 0 /\ faults = 0 /\ disturbed = {} /\ lock = FALSE /\ forced = FALSE
      /\ made \in BOOLEAN
  BY <1>1 DEF Init
<1>4. TypeOK
  <2>1. pc \in [Procs -> Steps] /\ job \in [Procs -> Jobs]
    BY <1>3, EmptyTyped, StepNames
  <2>2. /\ entries \in [Positions -> Entry \cup {None, Torn}]
        /\ heads \in [Sizes -> HeadType \cup {None, Torn}]
    BY <1>2
  <2>3. QED
    BY <1>2, <1>3, <2>1, <2>2 DEF TypeOK
<1>5. LockExcludes
  BY <1>3, StepNames DEF LockExcludes, Running
<1>6. PublishedStaysCovered
  BY <1>2 DEF PublishedStaysCovered, Covered
<1>7. \A p \in Procs : JobInv(pc[p], job[p]) /\ NewCovered(pc[p], job[p])
  BY <1>3, StepNames DEF JobInv, NewCovered, HasHead
<1>8. QED
  BY <1>2, <1>4, <1>5, <1>6, <1>7 DEF LedgerInv

LEMMA StutterLedger == LedgerInv /\ UNCHANGED vars => LedgerInv'
<1>1. SUFFICES ASSUME LedgerInv, UNCHANGED vars PROVE LedgerInv'
  OBVIOUS
<1>2. UNCHANGED <<lock, made, entries, heads, latestEntry, latestHead, previousHead, pc, job,
                  commands, faults, published, forced, disturbed>>
  BY <1>1 DEF vars, files, history
<1>3. TypeOK' /\ InPlace' /\ BareInv' /\ LockExcludes'
  BY <1>1, <1>2 DEF LedgerInv, TypeOK, InPlace, BareInv, LockExcludes, Running
<1>4. PublishedStaysCovered'
  BY <1>1, <1>2 DEF LedgerInv, PublishedStaysCovered, RootFor, Stored
<1>5. \A p \in Procs : (JobInv(pc[p], job[p]) /\ NewCovered(pc[p], job[p]))'
  BY <1>1, <1>2 DEF LedgerInv, JobInv, NewCovered, Covered, RootFor, Stored
<1>6. QED
  BY <1>3, <1>4, <1>5 DEF LedgerInv

LEMMA StepLedger == LedgerInv /\ [Next]_vars => LedgerInv'
<1>1. SUFFICES ASSUME LedgerInv, Next PROVE LedgerInv'
  BY StutterLedger
<1>2. PICK p \in Procs : \/ InitCommand(p) \/ AppendCommand(p) \/ ReadCommand(p)
                         \/ Fail(p) \/ Die(p)
  BY <1>1 DEF Next
<1>3. CASE InitCommand(p)
  BY <1>1, <1>3, StartInitInv, ForcedInv, CheckEmptyInv, MakeDirsInv, WriteEmptyHeadInv,
     WriteNumberedEmptyHeadInv DEF InitCommand
<1>4. CASE AppendCommand(p)
  BY <1>1, <1>4, TakeLockInv, ReadHeadInv, ListEntriesInv, WriteEntryInv,
     ReplaceLatestEntryInv, ComputeRootInv, ReplaceHeadsInv, WriteNumberedInv, UnlockInv
     DEF AppendCommand
<1>5. QED
  BY <1>1, <1>2, <1>3, <1>4, ReadCommandInv, FaultInv

THEOREM LedgerIsSound == Spec => []LedgerInv
<1>1. QED
  BY InitLedger, StepLedger, PTL DEF Spec

(* The variables of the ledger keep their types. *)
THEOREM LedgerTyped == Spec => []TypeOK
<1>1. LedgerInv => TypeOK
  BY DEF LedgerInv
<1>2. QED
  BY <1>1, LedgerIsSound, PTL

(* Appends exclude each other (LedgerLock), unless init --force removed    *)
(* the lock.                                                               *)
THEOREM AppendsExclude == Spec => []LockExcludes
<1>1. LedgerInv => LockExcludes
  BY DEF LedgerInv
<1>2. QED
  BY <1>1, LedgerIsSound, PTL

(* No append, failed, killed or overlapping, touches what a published head *)
(* covers (run_append, write_new_bytes).                                   *)
THEOREM LedgerIsAppendOnly == Spec => []PublishedStaysCovered
<1>1. LedgerInv => PublishedStaysCovered
  BY DEF LedgerInv
<1>2. QED
  BY <1>1, LedgerIsSound, PTL

-----------------------------------------------------------------------------
(***************************************************************************)
(* Until a command is killed or fails, a quiet ledger is healthy, however  *)
(* inits, appends and readers overlapped; and what verify-history says     *)
(* holds.                                                                  *)
(***************************************************************************)
(* An append that has written its entry and not yet its head. *)
Pending == {"latestEntry", "root", "previous", "latest"}

Size == IF latestHead = None THEN 0 ELSE latestHead.size

(* The head over the first n entries. *)
Ideal(n) ==
    IF n = 0 THEN init_head
    ELSE [size |-> n, root |-> RootFor(n), prevSize |-> n - 1, prevRoot |-> RootFor(n - 1),
          entry |-> entries[n - 1]]

EntryFor(j) == [sequence |-> j.head.size, bundle |-> j.bundle]

EntriesFull ==
    /\ \A i \in Positions : i < Size => Readable(entries[i])
    /\ \A i \in Positions : i > Size => entries[i] = None
    /\ Size < MaxSize /\ entries[Size] # None => Running(Pending) # {}

HeadsFull ==
    /\ \A n \in Sizes : n <= Size => heads[n] \in {None, Ideal(n)}
    /\ \A n \in Sizes : n > Size => heads[n] = None
    /\ \A n \in Sizes : 0 < n /\ n < Size => heads[n] # None
    /\ Size > 0 /\ heads[Size] = None => Running({"numbered"}) # {}
    /\ latestHead # None /\ heads[0] = None => Running({"numbered0"}) # {}

CopiesFull ==
    /\ Size \in Sizes /\ latestHead \in {None, Ideal(Size)}
    /\ Size > 0 => previousHead = Ideal(Size - 1) \/ Running({"latest"}) # {}
    /\ Size > 0 => \/ latestEntry = entries[Size - 1]
                   \/ Running({"root", "previous", "latest"}) # {}

(* What an append knows that nothing has stopped. *)
AppendInv(step, j) ==
    /\ step \in {"list", "entry"} \cup Pending => latestHead # None /\ j.head = latestHead
    /\ step \in Pending => entries[Size] = EntryFor(j)
    /\ step \in {"root", "previous", "latest"} => latestEntry = EntryFor(j)
    /\ step \in {"previous", "latest"} => j.new = Ideal(Size + 1)
    /\ step = "latest" => previousHead = latestHead
    /\ step = "numbered" => Size > 0 /\ j.new = latestHead

LockHeld == lock => Running(LockedSteps) # {}

Health ==
    /\ EntriesFull /\ HeadsFull /\ CopiesFull /\ LockHeld
    /\ \A p \in Procs : AppendInv(pc[p], job[p])

HealthInv == LedgerInv /\ (faults = 0 /\ ~forced => Health)

-----------------------------------------------------------------------------
LEMMA IdealKept ==
    ASSUME Kept, NEW n \in Sizes, \A i \in 0 .. n - 1 : Readable(entries[i])
    PROVE  Ideal(n)' = Ideal(n)
<1>1. RootFor(n)' = RootFor(n)
  BY KeptRoot
<1>2. CASE n = 0
  BY <1>2 DEF Ideal, init_head
<1>3. CASE n # 0
  <2>1. n - 1 \in Sizes /\ 0 .. (n - 1) - 1 \subseteq 0 .. n - 1 /\ n - 1 \in 0 .. n - 1
        /\ n - 1 \in Positions
    BY <1>3, BoundTypes DEF Sizes, Positions
  <2>2. \A i \in 0 .. (n - 1) - 1 : Readable(entries[i])
    BY <2>1
  <2>3. RootFor(n - 1)' = RootFor(n - 1)
    BY <2>1, <2>2, KeptRoot
  <2>4. entries'[n - 1] = entries[n - 1]
    BY <2>1 DEF Kept, Readable
  <2>5. QED
    BY <1>1, <1>3, <2>3, <2>4 DEF Ideal
<1>4. QED
  BY <1>2, <1>3

LEMMA IdealFacts ==
    ASSUME LedgerInv, NEW n \in Sizes, \A i \in 0 .. n - 1 : Readable(entries[i])
    PROVE  Ideal(n) \in HeadType /\ Ideal(n).size = n /\ Ideal(n).root = RootFor(n)
<1>1. CASE n = 0
  BY <1>1, EmptyTyped, EmptyRootFor DEF Ideal
<1>2. CASE n # 0
  <2>1. n - 1 \in Sizes /\ 0 .. (n - 1) - 1 \subseteq 0 .. n - 1 /\ n - 1 \in 0 .. n - 1
        /\ n - 1 \in Positions
    BY <1>2, BoundTypes DEF Sizes, Positions
  <2>2. \A i \in 0 .. (n - 1) - 1 : Readable(entries[i])
    BY <2>1
  <2>3. RootFor(n) \in Roots /\ RootFor(n - 1) \in Roots
    BY <2>1, <2>2, StoredTyped DEF LedgerInv
  <2>4. entries[n - 1] \in Entry
    BY <2>1, FilesTyped DEF Readable
  <2>5. QED
    BY <1>2, <2>1, <2>3, <2>4 DEF Ideal, HeadType
<1>3. QED
  BY <1>1, <1>2

LEMMA ReadableBelow ==
    ASSUME LedgerInv, Health, NEW n \in Sizes, n <= Size
    PROVE  \A i \in 0 .. n - 1 : i \in Positions /\ Readable(entries[i])
<1>1. Size \in Sizes /\ Size \in Nat /\ n \in Nat /\ 0 .. n - 1 \subseteq Positions
  BY BoundTypes DEF Health, CopiesFull
<1>2. \A i \in 0 .. n - 1 : i < Size
  BY <1>1
<1>3. QED
  BY <1>1, <1>2 DEF Health, EntriesFull

(* A step that changes no file of the ledger. *)
LEMMA HealthStep ==
    ASSUME LedgerInv, Health, NEW p \in Procs, NEW step, NEW j,
           Goto(p, step, j), AppendInv(step, j),
           UNCHANGED <<entries, heads, latestEntry, latestHead, previousHead>>,
           pc[p] \notin Pending \cup {"numbered", "numbered0"},
           \/ lock' = lock /\ (pc[p] \in LockedSteps => step \in LockedSteps)
           \/ ~lock' \/ step \in LockedSteps
    PROVE  Health'
<1>1. /\ pc'[p] = step /\ job'[p] = j
      /\ \A q \in Procs \ {p} : pc'[q] = pc[q] /\ job'[q] = job[q]
  BY DEF LedgerInv, TypeOK, Goto
<1>2. /\ Running(Pending) # {} => Running(Pending)' # {}
      /\ Running({"numbered"}) # {} => Running({"numbered"})' # {}
      /\ Running({"numbered0"}) # {} => Running({"numbered0"})' # {}
      /\ Running({"latest"}) # {} => Running({"latest"})' # {}
      /\ Running({"root", "previous", "latest"}) # {} =>
             Running({"root", "previous", "latest"})' # {}
  BY <1>1 DEF Running, Pending
<1>3. Size' = Size /\ \A n : Ideal(n)' = Ideal(n)
  BY DEF Size, Ideal, RootFor, Stored, init_head
<1>4. EntriesFull' /\ HeadsFull' /\ CopiesFull'
  BY <1>2, <1>3 DEF Health, EntriesFull, HeadsFull, CopiesFull, Readable
<1>5. LockHeld'
  BY <1>1 DEF Health, LockHeld, Running
<1>6. ASSUME NEW q \in Procs PROVE AppendInv(pc[q], job[q])'
  <2>1. PICK k, s : k = job'[q] /\ s = pc'[q]
    OBVIOUS
  <2>2. AppendInv(s, k)
    BY <1>1, <2>1 DEF Health
  <2>3. AppendInv(s, k)'
    BY <1>3, <2>2 DEF AppendInv
  <2>4. QED
    BY <2>1, <2>3
<1>7. QED
  BY <1>4, <1>5, <1>6 DEF Health

Acting == {"list", "entry", "numbered"} \cup Pending

LEMMA NotActing == \A step, j : step \notin Acting => AppendInv(step, j)
BY DEF AppendInv, Acting, Pending

(* Reading the ledger, or starting to. *)
LEMMA ReaderMoves ==
    ASSUME LedgerInv, NEW p \in Procs, ReadCommand(p)
    PROVE  /\ pc[p] \notin Writers
           /\ UNCHANGED <<files, faults, forced, published>>
           /\ \E step \in Readers \cup {"idle"} : \E j : Goto(p, step, j)
<1>1. ASSUME Say(p, TRUE) \/ Say(p, FALSE) \/ Stop(p)
             \/ Say(p, latestEntry = job[p].log[job[p].head.size])
      PROVE  \E step \in Readers \cup {"idle"} : \E j : Goto(p, step, j)
  BY <1>1 DEF Say, Stop
<1>2. {"vHead", "vEntries", "vHeads", "vPrevious", "vLatestEntry", "iHead", "iEntries"}
      \subseteq Readers
  BY DEF Readers, VerifySteps, InclusionSteps
<1>3. CASE StartVerify(p) \/ StartProveInclusion(p)
  <2>1. pc[p] = "idle" /\ UNCHANGED <<files, faults, forced, published>>
    BY <1>3 DEF StartVerify, StartProveInclusion, Counted
  <2>2. \E step \in Readers \cup {"idle"} : \E j : Goto(p, step, j)
    BY <1>2, <1>3 DEF StartVerify, StartProveInclusion
  <2>3. QED
    BY <2>1, <2>2 DEF Writers, LockedSteps, InitSteps
<1>4. CASE ProveConsistency(p)
  <2>1. pc[p] = "idle" /\ UNCHANGED <<pc, job, files, faults, forced, published>>
    BY <1>4 DEF ProveConsistency, Counted, history
  <2>2. pc \in [Procs -> Steps] /\ job \in [Procs -> Jobs]
    BY DEF LedgerInv, TypeOK
  <2>3. Goto(p, "idle", job[p])
    BY <2>1, <2>2 DEF Goto
  <2>4. QED
    BY <2>1, <2>3 DEF Writers, LockedSteps, InitSteps
<1>5. ASSUME VerifyHead(p) \/ VerifyEntries(p) \/ VerifyHeads(p) \/ VerifyPrevious(p)
             \/ VerifyLatestEntry(p) \/ InclusionHead(p) \/ ProveInclusion(p)
      PROVE  pc[p] \notin Writers /\ UNCHANGED <<files, faults, forced, published>>
  BY <1>5 DEF VerifyHead, VerifyEntries, VerifyHeads, VerifyPrevious, VerifyLatestEntry,
              InclusionHead, ProveInclusion, history, Writers, LockedSteps, InitSteps
<1>6. ASSUME VerifyHead(p) \/ VerifyEntries(p) \/ VerifyHeads(p) \/ VerifyPrevious(p)
      PROVE  \E step \in Readers \cup {"idle"} : \E j : Goto(p, step, j)
  BY <1>1, <1>2, <1>6 DEF VerifyHead, VerifyEntries, VerifyHeads, VerifyPrevious
<1>7. ASSUME VerifyLatestEntry(p) \/ InclusionHead(p) \/ ProveInclusion(p)
      PROVE  \E step \in Readers \cup {"idle"} : \E j : Goto(p, step, j)
  BY <1>1, <1>2, <1>7 DEF VerifyLatestEntry, InclusionHead, ProveInclusion
<1>8. QED
  BY <1>3, <1>4, <1>5, <1>6, <1>7 DEF ReadCommand

LEMMA ReadCommandHealth ==
    ASSUME LedgerInv, Health, NEW p \in Procs, ReadCommand(p) PROVE Health'
<1>1. PICK step \in Readers \cup {"idle"} : \E j : Goto(p, step, j)
  BY ReaderMoves
<1>2. PICK j : Goto(p, step, j)
  BY <1>1
<1>3. step \notin Acting
  BY DEF Acting, Pending, Readers, VerifySteps, InclusionSteps
<1>4. /\ pc[p] \notin Pending \cup {"numbered", "numbered0"} /\ pc[p] \notin LockedSteps
      /\ UNCHANGED <<lock, entries, heads, latestEntry, latestHead, previousHead>>
  BY ReaderMoves DEF Writers, LockedSteps, InitSteps, Pending, files
<1>5. QED
  BY <1>2, <1>3, <1>4, NotActing, HealthStep

(* The steps of init and append that leave the files alone. *)
LEMMA QuietHealth ==
    ASSUME LedgerInv, Health, NEW p \in Procs,
           \/ StartInit(p) \/ (StartForcedInit(p) /\ ~forced') \/ CheckEmpty(p) \/ MakeDirs(p)
           \/ TakeLock(p) \/ ReadHead(p) \/ ListEntries(p) \/ Unlock(p)
    PROVE  Health'
<1>1. {"idle", "check", "mkdirs", "head0", "head", "unlock"} \cap Acting = {}
  BY DEF Acting, Pending
<1>2. CASE StartInit(p) \/ CheckEmpty(p) \/ MakeDirs(p)
  <2>1. /\ pc[p] \in {"idle", "check", "mkdirs"}
        /\ UNCHANGED <<lock, entries, heads, latestEntry, latestHead, previousHead>>
        /\ \E step \in {"idle", "check", "mkdirs", "head0"} : Goto(p, step, NoJob)
    BY <1>2 DEF StartInit, CheckEmpty, MakeDirs, Counted, Stop, files
  <2>2. pc[p] \notin Pending \cup {"numbered", "numbered0"} \cup LockedSteps
    BY <2>1 DEF Pending, LockedSteps
  <2>3. QED
    BY <1>1, <2>1, <2>2, NotActing, HealthStep
<1>3. CASE StartForcedInit(p) /\ ~forced'
  <2>1. /\ pc[p] = "idle" /\ Goto(p, "check", NoJob) /\ forced' = (forced \/ made \/ lock)
        /\ lock' = FALSE
        /\ entries' = [i \in Positions |-> None] /\ heads' = [i \in Sizes |-> None]
        /\ latestEntry' = None /\ latestHead' = None /\ previousHead' = None
    BY <1>3 DEF StartForcedInit, Counted
  <2>2. ~made /\ BareInv
    BY <1>3, <2>1 DEF LedgerInv, TypeOK
  <2>3. UNCHANGED <<entries, heads, latestEntry, latestHead, previousHead>>
    BY <2>1, <2>2 DEF BareInv
  <2>4. pc[p] \notin Pending \cup {"numbered", "numbered0"}
    BY <2>1 DEF Pending
  <2>5. QED
    BY <1>1, <2>1, <2>3, <2>4, NotActing, HealthStep
<1>4. CASE TakeLock(p)
  <2>1. /\ pc[p] = "idle" /\ lock' = TRUE /\ \E j : Goto(p, "head", j)
        /\ UNCHANGED <<entries, heads, latestEntry, latestHead, previousHead>>
    BY <1>4 DEF TakeLock, Counted
  <2>2. pc[p] \notin Pending \cup {"numbered", "numbered0"} /\ "head" \in LockedSteps
    BY <2>1 DEF Pending, LockedSteps
  <2>3. QED
    BY <1>1, <2>1, <2>2, NotActing, HealthStep
<1>5. CASE ReadHead(p)
  <2>1. /\ pc[p] = "head"
        /\ UNCHANGED <<lock, entries, heads, latestEntry, latestHead, previousHead>>
    BY <1>5 DEF ReadHead, files
  <2>2. /\ pc[p] \notin Pending \cup {"numbered", "numbered0"}
        /\ {"list", "unlock"} \subseteq LockedSteps
    BY <2>1 DEF Pending, LockedSteps
  <2>3. PICK j : j = [job[p] EXCEPT !.head = latestHead]
    OBVIOUS
  <2>4. CASE Readable(latestHead) /\ Goto(p, "list", j)
    <3>1. latestHead \in HeadType /\ latestHead # None
      BY <2>4, FilesTyped DEF Readable
    <3>2. j.head = latestHead
      BY <2>3, <3>1, JobOf, JobUpdates
    <3>3. AppendInv("list", j)
      BY <3>1, <3>2 DEF AppendInv, Pending
    <3>4. QED
      BY <2>1, <2>2, <2>4, <3>3, HealthStep
  <2>5. CASE Goto(p, "unlock", job[p])
    <3>1. PICK k : k = job[p]
      OBVIOUS
    <3>2. QED
      BY <1>1, <2>1, <2>2, <2>5, <3>1, NotActing, HealthStep
  <2>6. QED
    BY <1>5, <2>3, <2>4, <2>5 DEF ReadHead
<1>6. CASE ListEntries(p)
  <2>1. PICK j : j = job[p]
    OBVIOUS
  <2>2. /\ pc[p] = "list" /\ AppendInv("list", j)
        /\ UNCHANGED <<lock, entries, heads, latestEntry, latestHead, previousHead>>
        /\ \E step \in {"entry", "unlock"} : Goto(p, step, j)
    BY <1>6, <2>1 DEF ListEntries, files, Health
  <2>3. /\ pc[p] \notin Pending \cup {"numbered", "numbered0"}
        /\ {"entry", "unlock"} \subseteq LockedSteps
    BY <2>2 DEF Pending, LockedSteps
  <2>4. AppendInv("entry", j) /\ AppendInv("unlock", j)
    BY <2>2 DEF AppendInv, Pending
  <2>5. QED
    BY <2>2, <2>3, <2>4, HealthStep
<1>7. CASE Unlock(p)
  <2>1. /\ pc[p] = "unlock" /\ ~lock' /\ Goto(p, "idle", NoJob)
        /\ UNCHANGED <<entries, heads, latestEntry, latestHead, previousHead>>
    BY <1>7 DEF Unlock, Stop
  <2>2. pc[p] \notin Pending \cup {"numbered", "numbered0"}
    BY <2>1 DEF Pending
  <2>3. QED
    BY <1>1, <2>1, <2>2, NotActing, HealthStep
<1>8. QED
  BY <1>2, <1>3, <1>4, <1>5, <1>6, <1>7

-----------------------------------------------------------------------------
(* init writes the empty head and its copy. *)
LEMMA WriteEmptyHeadHealth ==
    ASSUME LedgerInv, Health, NEW p \in Procs, WriteEmptyHead(p) PROVE Health'
<1>1. /\ pc[p] = "head0" /\ pc[p] \notin Pending \cup {"numbered", "numbered0"}
      /\ UNCHANGED <<lock, entries, heads, latestEntry, previousHead>>
      /\ pc[p] \notin LockedSteps /\ {"idle", "numbered0"} \cap (Acting \cup LockedSteps) = {}
  BY DEF WriteEmptyHead, Pending, LockedSteps, Acting
<1>2. CASE Stop(p) /\ UNCHANGED latestHead
  BY <1>1, <1>2, NotActing, HealthStep DEF Stop
<1>3. CASE latestHead = None /\ latestHead' = init_head /\ Goto(p, "numbered0", NoJob)
  <2>1. /\ pc'[p] = "numbered0" /\ job'[p] = NoJob
        /\ \A q \in Procs \ {p} : pc'[q] = pc[q] /\ job'[q] = job[q]
    BY <1>3 DEF LedgerInv, TypeOK, Goto
  <2>2. Size = 0 /\ Size' = 0 /\ init_head # None
    BY <1>3, EmptyTyped, AbsentAssumption DEF Size
  <2>3. \A n : Ideal(n)' = Ideal(n)
    BY <1>1 DEF Ideal, RootFor, Stored, init_head
  <2>4. \A q \in Procs : pc[q] \notin Acting
    BY <1>3, <2>2 DEF Health, AppendInv, Acting
  <2>5. Running(Pending) = {}
    BY <2>4 DEF Running, Acting
  <2>6. EntriesFull'
    BY <1>1, <2>2, <2>5 DEF Health, EntriesFull, Readable
  <2>7. Running({"numbered0"})' # {}
    BY <2>1 DEF Running
  <2>8. HeadsFull'
    BY <1>1, <2>2, <2>3, <2>7 DEF Health, HeadsFull
  <2>9. CopiesFull'
    BY <1>3, <2>2, <2>3, BoundTypes DEF CopiesFull, Ideal
  <2>10. LockHeld'
    BY <1>1, <2>1 DEF Health, LockHeld, Running
  <2>11. \A q \in Procs : pc'[q] \notin Acting
    BY <1>1, <2>1, <2>4
  <2>12. \A q \in Procs : AppendInv(pc[q], job[q])'
    BY <2>11 DEF AppendInv, Acting, Pending
  <2>13. QED
    BY <2>6, <2>8, <2>9, <2>10, <2>12 DEF Health
<1>4. QED
  BY <1>2, <1>3 DEF WriteEmptyHead

LEMMA WriteNumberedEmptyHeadHealth ==
    ASSUME LedgerInv, Health, NEW p \in Procs, WriteNumberedEmptyHead(p) PROVE Health'
<1>1. /\ pc[p] = "numbered0" /\ pc[p] \notin LockedSteps
      /\ UNCHANGED <<lock, entries, latestHead, latestEntry, previousHead>>
      /\ heads' = IF heads[0] = None THEN [heads EXCEPT ![0] = init_head] ELSE heads
      /\ Goto(p, "idle", NoJob) /\ "idle" \notin LockedSteps \cup Acting
  BY DEF WriteNumberedEmptyHead, Stop, Pending, LockedSteps, Acting
<1>2. /\ pc'[p] = "idle" /\ job'[p] = NoJob
      /\ \A q \in Procs \ {p} : pc'[q] = pc[q] /\ job'[q] = job[q]
  BY <1>1 DEF LedgerInv, TypeOK, Goto
<1>3. Size' = Size /\ \A n : Ideal(n)' = Ideal(n)
  BY <1>1 DEF Size, Ideal, RootFor, Stored, init_head
<1>4. /\ heads'[0] # None /\ heads'[0] \in {heads[0], init_head}
      /\ heads'[0] = heads[0] \/ heads[0] = None
      /\ \A n \in Sizes \ {0} : heads'[n] = heads[n]
  BY <1>1, FilesTyped, EmptyTyped, BoundTypes, AbsentAssumption
<1>5. /\ Running(Pending)' = Running(Pending) /\ Running({"numbered"})' = Running({"numbered"})
      /\ Running({"latest"})' = Running({"latest"})
      /\ Running({"root", "previous", "latest"})' = Running({"root", "previous", "latest"})
      /\ Running(LockedSteps)' = Running(LockedSteps)
  BY <1>1, <1>2 DEF Running, Pending, LockedSteps
<1>6. EntriesFull' /\ CopiesFull' /\ LockHeld'
  BY <1>1, <1>3, <1>5 DEF Health, EntriesFull, CopiesFull, LockHeld, Readable
<1>7. HeadsFull'
  <2>1. Size \in Sizes /\ Size \in Nat /\ 0 \in Sizes /\ \A n \in Sizes : n \in Nat
    BY BoundTypes DEF Health, CopiesFull
  <2>2. Ideal(0) = init_head
    BY DEF Ideal
  <2>3. \A n \in Sizes : n <= Size => heads'[n] \in {None, Ideal(n)}
    BY <1>4, <2>1, <2>2 DEF Health, HeadsFull
  <2>4. \A n \in Sizes : n > Size => heads'[n] = None
    <3>1. \A n \in Sizes : n > Size => heads[n] = None
      BY DEF Health, HeadsFull
    <3>2. \A n \in Sizes : n > Size => n \in Sizes \ {0}
      BY <2>1 DEF Sizes
    <3>3. QED
      BY <1>4, <3>1, <3>2
  <2>5. \A n \in Sizes : 0 < n /\ n < Size => heads'[n] # None
    BY <1>4, <2>1 DEF Health, HeadsFull
  <2>6. Size > 0 /\ heads'[Size] = None => Running({"numbered"}) # {}
    BY <1>4, <2>1 DEF Health, HeadsFull
  <2>7. QED
    BY <1>3, <1>4, <1>5, <2>3, <2>4, <2>5, <2>6 DEF HeadsFull
<1>8. \A q \in Procs : AppendInv(pc'[q], job'[q])
  BY <1>1, <1>2, NotActing DEF Health
<1>9. ASSUME NEW q \in Procs PROVE AppendInv(pc[q], job[q])'
  <2>1. PICK k, s : k = job'[q] /\ s = pc'[q]
    OBVIOUS
  <2>2. AppendInv(s, k)
    BY <1>8, <2>1
  <2>3. AppendInv(s, k)'
    BY <1>1, <1>3, <2>2 DEF AppendInv
  <2>4. QED
    BY <2>1, <2>3
<1>10. QED
  BY <1>6, <1>7, <1>9 DEF Health

-----------------------------------------------------------------------------
(* append. Only one is past the lock. *)
LEMMA AppendAlone ==
    ASSUME LedgerInv, ~forced, NEW p \in Procs, pc[p] \in LockedSteps,
           NEW step \in LockedSteps, NEW j, Goto(p, step, j), lock' = lock,
           AppendInv(step, j)'
    PROVE  /\ pc'[p] = step /\ job'[p] = j
           /\ \A q \in Procs \ {p} : /\ pc[q] \notin LockedSteps /\ pc'[q] = pc[q]
                                     /\ job'[q] = job[q]
           /\ \A S \in SUBSET LockedSteps : Running(S) # {} <=> pc[p] \in S
           /\ \A S \in SUBSET LockedSteps : Running(S)' # {} <=> step \in S
           /\ Running({"numbered0"})' = Running({"numbered0"})
           /\ LockHeld'
           /\ \A q \in Procs : AppendInv(pc[q], job[q])'
<1>1. /\ pc'[p] = step /\ job'[p] = j
      /\ \A q \in Procs \ {p} : pc'[q] = pc[q] /\ job'[q] = job[q]
  BY DEF LedgerInv, TypeOK, Goto
<1>2. \A q \in Procs \ {p} : pc[q] \notin LockedSteps
  BY DEF LedgerInv, LockExcludes, Running
<1>3. /\ \A S \in SUBSET LockedSteps : Running(S) # {} <=> pc[p] \in S
      /\ \A S \in SUBSET LockedSteps : Running(S)' # {} <=> step \in S
  BY <1>1, <1>2 DEF Running
<1>4. Running({"numbered0"})' = Running({"numbered0"})
  BY <1>1, <1>2 DEF Running, LockedSteps
<1>5. LockHeld'
  BY <1>3 DEF LockHeld
<1>6. Acting \subseteq LockedSteps
  BY DEF Acting, Pending, LockedSteps
<1>7. ASSUME NEW q \in Procs PROVE AppendInv(pc[q], job[q])'
  <2>1. CASE q = p
    BY <1>1, <2>1 DEF AppendInv
  <2>2. CASE q # p
    <3>1. pc'[q] \notin Acting
      BY <1>1, <1>2, <1>6, <2>2
    <3>2. QED
      BY <3>1 DEF AppendInv, Acting, Pending
  <2>3. QED
    BY <2>1, <2>2
<1>8. QED
  BY <1>1, <1>2, <1>3, <1>4, <1>5, <1>7

LEMMA LockedNames ==
    /\ Pending \subseteq LockedSteps /\ {"numbered"} \subseteq LockedSteps
    /\ {"latest"} \subseteq LockedSteps /\ {"root", "previous", "latest"} \subseteq LockedSteps
    /\ Acting \subseteq LockedSteps
BY DEF Pending, Acting, LockedSteps

LEMMA SizeTyped ==
    ASSUME LedgerInv, Health
    PROVE  /\ Size \in Sizes /\ Size \in Nat /\ 0 \in Sizes /\ \A n \in Sizes : n \in Nat
           /\ \A i \in Positions : i \in Nat
           /\ Size < MaxSize => Size \in Positions /\ Size + 1 \in Sizes
           /\ \A n \in Sizes : n <= Size => Ideal(n).size = n /\ Ideal(n) \in HeadType
           /\ \A n \in Sizes : n <= Size => Ideal(n).root = RootFor(n)
<1>1. Size \in Sizes /\ Size \in Nat /\ \A n \in Sizes : n \in Nat
  BY BoundTypes DEF Health, CopiesFull
<1>2. ASSUME NEW n \in Sizes, n <= Size
      PROVE  Ideal(n).size = n /\ Ideal(n) \in HeadType /\ Ideal(n).root = RootFor(n)
  BY <1>2, ReadableBelow, IdealFacts
<1>3. QED
  BY <1>1, <1>2, BoundTypes

LEMMA WriteEntryHealth ==
    ASSUME LedgerInv, Health, ~forced, NEW p \in Procs, WriteEntry(p) PROVE Health'
<1>1. PICK j : j = job[p]
  OBVIOUS
<1>2. /\ pc[p] = "entry" /\ pc[p] \in LockedSteps /\ "latestEntry" \in LockedSteps
      /\ pc[p] \notin Pending /\ j.head.size < MaxSize /\ lock' = lock
      /\ UNCHANGED <<heads, latestHead, latestEntry, previousHead>>
  BY <1>1 DEF WriteEntry, LockedSteps, Pending
<1>3. latestHead # None /\ j.head = latestHead /\ Size = j.head.size
  BY <1>1, <1>2 DEF Health, AppendInv, Size
<1>4. PICK n : n = Size
  OBVIOUS
<1>5. n \in Positions /\ n \in Sizes /\ n \in Nat
  BY <1>2, <1>3, <1>4, SizeTyped
<1>6. Running(Pending) = {}
  <2>1. \A q \in Procs \ {p} : pc[q] \notin LockedSteps
    BY <1>2 DEF LedgerInv, LockExcludes, Running
  <2>2. QED
    BY <1>2, <2>1, LockedNames DEF Running
<1>7. entries[n] = None
  BY <1>2, <1>3, <1>4, <1>6 DEF Health, EntriesFull
<1>8. /\ entries' = [entries EXCEPT ![n] = EntryFor(j)] /\ Goto(p, "latestEntry", j)
  BY <1>1, <1>3, <1>4, <1>7 DEF WriteEntry, NewEntry, EntryFor
<1>9. /\ entries'[n] = EntryFor(j) /\ \A i \in Positions \ {n} : entries'[i] = entries[i]
  BY <1>5, <1>8, FilesTyped
<1>10. Size' = Size
  BY <1>2 DEF Size
<1>11. AppendInv("latestEntry", j)'
  BY <1>2, <1>3, <1>4, <1>9, <1>10 DEF AppendInv, Pending
<1>12. Kept
  BY <1>2, <1>7, <1>9 DEF Kept
<1>13. \A k \in Sizes : k <= Size => Ideal(k)' = Ideal(k)
  BY <1>12, ReadableBelow, IdealKept
<1>14. EntriesFull'
  <2>1. \A i \in Positions : i < Size => Readable(entries'[i])
    BY <1>4, <1>9, SizeTyped DEF Health, EntriesFull
  <2>2. \A i \in Positions : i > Size => entries'[i] = None
    BY <1>4, <1>9, SizeTyped DEF Health, EntriesFull
  <2>3. Running(Pending)' # {}
    BY <1>2, <1>8, <1>11, AppendAlone, LockedNames DEF Pending
  <2>4. QED
    BY <1>10, <2>1, <2>2, <2>3 DEF EntriesFull, Readable
<1>15. HeadsFull'
  <2>1. /\ Running({"numbered"}) = {}
        /\ Running({"numbered0"})' = Running({"numbered0"})
    BY <1>2, <1>8, <1>11, AppendAlone, LockedNames
  <2>2. QED
    BY <1>2, <1>10, <1>13, <2>1, SizeTyped DEF Health, HeadsFull
<1>16. CopiesFull'
  <2>1. Running({"latest"}) = {} /\ Running({"root", "previous", "latest"}) = {}
    BY <1>2, <1>8, <1>11, AppendAlone, LockedNames
  <2>2. latestHead = Ideal(n) /\ Ideal(n)' = Ideal(n)
    BY <1>3, <1>4, <1>13, SizeTyped DEF Health, CopiesFull
  <2>3. PICK m : m = n - 1
    OBVIOUS
  <2>4. ASSUME n > 0 PROVE Ideal(m)' = Ideal(m) /\ entries'[m] = entries[m]
    <3>1. m \in Sizes /\ m \in Positions /\ m <= Size /\ m # n
      BY <1>4, <1>5, <2>3, <2>4, BoundTypes DEF Sizes, Positions
    <3>2. QED
      BY <1>9, <1>13, <3>1
  <2>5. n > 0 => previousHead = Ideal(m) /\ latestEntry = entries[m]
    BY <1>4, <2>1, <2>3 DEF Health, CopiesFull
  <2>6. n > 0 => previousHead' = Ideal(m)' /\ latestEntry' = entries'[m]
    BY <1>2, <2>4, <2>5
  <2>7. QED
    BY <1>2, <1>4, <1>5, <1>10, <2>2, <2>3, <2>6 DEF CopiesFull
<1>17. QED
  BY <1>2, <1>8, <1>11, <1>14, <1>15, <1>16, AppendAlone DEF Health

(* A step of an append that replaces the latest entry or the head before,  *)
(* or that reads.                                                          *)
LEMMA CopyHealth ==
    ASSUME LedgerInv, Health, ~forced, NEW p \in Procs, NEW step \in Pending, NEW j,
           pc[p] \in Pending \ {"latest"}, Goto(p, step, j), AppendInv(step, j)', lock' = lock,
           UNCHANGED <<entries, heads, latestHead>>,
           \/ step = "latest"
           \/ previousHead' = previousHead,
           step \in {"root", "previous", "latest"}
    PROVE  Health'
<1>1. /\ step \in LockedSteps /\ pc[p] \in LockedSteps
      /\ pc[p] \notin {"numbered", "latest"} /\ step # "numbered"
  BY DEF Pending, LockedSteps
<1>2. Size' = Size /\ \A n : Ideal(n)' = Ideal(n)
  BY DEF Size, Ideal, RootFor, Stored, init_head
<1>3. /\ Running(Pending)' # {} /\ Running({"numbered"}) = {}
      /\ Running({"latest"}) = {} /\ (step = "latest" => Running({"latest"})' # {})
      /\ Running({"root", "previous", "latest"})' # {}
      /\ Running({"numbered0"})' = Running({"numbered0"})
  BY <1>1, AppendAlone, LockedNames
<1>4. EntriesFull'
  BY <1>2, <1>3 DEF Health, EntriesFull, Readable
<1>5. HeadsFull'
  BY <1>2, <1>3 DEF Health, HeadsFull
<1>6. CopiesFull'
  BY <1>2, <1>3 DEF Health, CopiesFull
<1>7. QED
  BY <1>1, <1>4, <1>5, <1>6, AppendAlone DEF Health

LEMMA ReplaceLatestEntryHealth ==
    ASSUME LedgerInv, Health, ~forced, NEW p \in Procs, ReplaceLatestEntry(p) PROVE Health'
<1>1. PICK j : j = job[p]
  OBVIOUS
<1>2. /\ pc[p] = "latestEntry" /\ Goto(p, "root", j) /\ lock' = lock
      /\ latestEntry' = EntryFor(j)
      /\ UNCHANGED <<entries, heads, latestHead, previousHead>>
  BY <1>1 DEF ReplaceLatestEntry, NewEntry, EntryFor
<1>3. AppendInv("latestEntry", j)
  BY <1>1, <1>2 DEF Health
<1>4. Size' = Size
  BY <1>2 DEF Size
<1>5. AppendInv("root", j)'
  BY <1>2, <1>3, <1>4 DEF AppendInv, Pending
<1>6. "latestEntry" \in Pending \ {"latest"} /\ "root" \in Pending
  BY DEF Pending
<1>7. QED
  BY <1>2, <1>5, <1>6, CopyHealth

(* The entries are all there when the root is computed. *)
LEMMA ComputedRoot ==
    ASSUME LedgerInv, Health, NEW p \in Procs, pc[p] = "root"
    PROVE  /\ Loads(job[p].head.size + 1) /\ job[p].head.size = Size /\ Size < MaxSize
           /\ HeadAfter(job[p].head, NewEntry(p)) = Ideal(Size + 1)
<1>1. PICK j : j = job[p]
  OBVIOUS
<1>2. PICK n : n = Size
  OBVIOUS
<1>3. /\ latestHead # None /\ j.head = latestHead /\ entries[n] = EntryFor(j)
      /\ j.head.size = n /\ n < MaxSize /\ NewEntry(p) = EntryFor(j)
      /\ Readable(NewEntry(p))
  BY <1>1, <1>2, JobOf, NewEntryTyped
     DEF Health, AppendInv, Pending, Size, JobInv, NewEntry,
                                          EntryFor
<1>4. n \in Positions /\ n \in Nat /\ n \in Sizes /\ n + 1 \in Sizes
      /\ \A i \in Positions : i \in Nat
  BY <1>2, <1>3, SizeTyped
<1>5. \A i \in Positions : Readable(entries[i]) <=> i \in 0 .. (n + 1) - 1
  <2>1. SUFFICES ASSUME NEW i \in Positions
                 PROVE  Readable(entries[i]) <=> i \in 0 .. (n + 1) - 1
    OBVIOUS
  <2>2. CASE i < n
    BY <1>2, <1>4, <2>2 DEF Health, EntriesFull, Positions
  <2>3. CASE i = n
    BY <1>3, <1>4, <2>3 DEF Positions
  <2>4. CASE i > n
    <3>1. entries[i] = None
      BY <1>2, <2>4 DEF Health, EntriesFull
    <3>2. QED
      BY <1>4, <2>4, <3>1 DEF Readable
  <2>5. QED
    BY <1>4, <2>2, <2>3, <2>4
<1>6. \A i \in Positions : entries[i] # None => i \in 0 .. (n + 1) - 1
  <2>1. SUFFICES ASSUME NEW i \in Positions, i > n PROVE entries[i] = None
    BY <1>4
  <2>2. QED
    BY <1>2, <2>1 DEF Health, EntriesFull
<1>7. Loads(n + 1)
  <2>1. DOMAIN entries = Positions /\ 0 .. (n + 1) - 1 \subseteq Positions
    BY <1>4, FilesTyped, BoundTypes
  <2>2. {i \in DOMAIN entries : entries[i] # None} = 0 .. (n + 1) - 1
    BY <1>5, <1>6, <2>1 DEF Readable
  <2>3. QED
    BY <1>5, <2>1, <2>2 DEF Loads, Listed, Readable
<1>8. latestHead = Ideal(n) /\ Ideal(n).root = RootFor(n)
  BY <1>2, <1>3, <1>4, SizeTyped DEF Health, CopiesFull
<1>9. HeadAfter(j.head, NewEntry(p)) = Ideal(n + 1)
  BY <1>3, <1>4, <1>8 DEF HeadAfter, Ideal
<1>10. QED
  BY <1>1, <1>2, <1>3, <1>7, <1>9

LEMMA ComputeRootHealth ==
    ASSUME LedgerInv, Health, ~forced, NEW p \in Procs, ComputeRoot(p) PROVE Health'
<1>1. PICK n : n = Size
  OBVIOUS
<1>2. PICK new : new = HeadAfter(job[p].head, NewEntry(p))
  OBVIOUS
<1>3. PICK j : j = [job[p] EXCEPT !.new = new]
  OBVIOUS
<1>4. /\ pc[p] = "root" /\ lock' = lock
      /\ UNCHANGED <<entries, heads, latestHead, latestEntry, previousHead>>
  BY DEF ComputeRoot, files
<1>5. new = Ideal(n + 1) /\ Loads(job[p].head.size + 1) /\ new \in HeadType
  BY <1>1, <1>2, <1>4, ComputedRoot, HeadAfterTyped
<1>6. Goto(p, "previous", j)
  BY <1>2, <1>3, <1>5 DEF ComputeRoot
<1>7. /\ j.new = new /\ j.head = job[p].head /\ j.bundle = job[p].bundle
  BY <1>3, <1>5, JobOf, JobUpdates
<1>8. AppendInv("root", job[p])
  BY <1>4 DEF Health
<1>9. Size' = n /\ Ideal(n + 1)' = Ideal(n + 1)
  BY <1>1, <1>4 DEF Size, Ideal, RootFor, Stored, init_head
<1>10. AppendInv("previous", j)'
  <2>1. /\ latestHead # None /\ j.head = latestHead /\ entries[n] = EntryFor(j)
        /\ latestEntry = EntryFor(j)
    BY <1>1, <1>7, <1>8 DEF AppendInv, EntryFor, Pending
  <2>2. QED
    BY <1>4, <1>5, <1>7, <1>9, <2>1 DEF AppendInv, Pending
<1>11. "root" \in Pending \ {"latest"} /\ "previous" \in Pending
  BY DEF Pending
<1>12. QED
  BY <1>4, <1>6, <1>10, <1>11, CopyHealth

LEMMA ReplacePreviousHealth ==
    ASSUME LedgerInv, Health, ~forced, NEW p \in Procs, ReplacePrevious(p) PROVE Health'
<1>1. PICK j : j = job[p]
  OBVIOUS
<1>2. PICK n : n = Size
  OBVIOUS
<1>3. /\ pc[p] = "previous" /\ Goto(p, "latest", j) /\ lock' = lock
      /\ previousHead' = j.head
      /\ UNCHANGED <<entries, heads, latestHead, latestEntry>>
  BY <1>1 DEF ReplacePrevious
<1>4. AppendInv("previous", j)
  BY <1>1, <1>3 DEF Health
<1>5. Size' = n /\ Ideal(n + 1)' = Ideal(n + 1)
  BY <1>2, <1>3 DEF Size, Ideal, RootFor, Stored, init_head
<1>6. AppendInv("latest", j)'
  BY <1>2, <1>3, <1>4, <1>5 DEF AppendInv, Pending
<1>7. "previous" \in Pending \ {"latest"} /\ "latest" \in Pending
  BY DEF Pending
<1>8. QED
  BY <1>3, <1>6, <1>7, CopyHealth

LEMMA ReplaceLatestHealth ==
    ASSUME LedgerInv, Health, ~forced, NEW p \in Procs, ReplaceLatest(p) PROVE Health'
<1>1. PICK j : j = job[p]
  OBVIOUS
<1>2. PICK n : n = Size
  OBVIOUS
<1>3. /\ pc[p] = "latest" /\ Goto(p, "numbered", j) /\ lock' = lock
      /\ latestHead' = j.new
      /\ UNCHANGED <<entries, heads, previousHead, latestEntry>>
      /\ pc[p] \in LockedSteps /\ "numbered" \in LockedSteps
  BY <1>1 DEF ReplaceLatest, LockedSteps
<1>4. /\ latestHead # None /\ j.head = latestHead /\ entries[n] = EntryFor(j)
      /\ latestEntry = EntryFor(j) /\ j.new = Ideal(n + 1) /\ previousHead = latestHead
  BY <1>1, <1>2, <1>3 DEF Health, AppendInv, Pending
<1>5. /\ j.new \in HeadType /\ j.new.size = n + 1 /\ n < MaxSize /\ j.new # None
  BY <1>1, <1>2, <1>3, <1>4, JobOf, AbsentAssumption DEF JobInv, Size
<1>6. Size' = n + 1
  BY <1>3, <1>5 DEF Size
<1>7. /\ n \in Positions /\ n \in Nat /\ n \in Sizes /\ n + 1 \in Sizes
      /\ \A i \in Positions : i \in Nat /\ \A m \in Sizes : m \in Nat
  BY <1>2, <1>5, SizeTyped
<1>8. \A m : Ideal(m)' = Ideal(m)
  BY <1>3 DEF Ideal, RootFor, Stored, init_head
<1>9. AppendInv("numbered", j)'
  BY <1>3, <1>6, <1>7 DEF AppendInv, Pending
<1>10. /\ Running({"numbered"}) = {} /\ Running({"numbered"})' # {}
       /\ Running({"numbered0"})' = Running({"numbered0"})
       /\ LockHeld' /\ \A q \in Procs : AppendInv(pc[q], job[q])'
  BY <1>3, <1>9, AppendAlone, LockedNames
<1>11. EntriesFull'
  <2>1. Readable(entries[n])
    <3>1. entries[n] = NewEntry(p)
      BY <1>1, <1>4 DEF EntryFor, NewEntry
    <3>2. QED
      BY <1>3, <3>1, JobOf, NewEntryTyped DEF JobInv
  <2>2. \A i \in Positions : i < n + 1 => Readable(entries[i])
    <3>1. \A i \in Positions : i < n => Readable(entries[i])
      BY <1>2 DEF Health, EntriesFull
    <3>2. \A i \in Positions : i < n + 1 => i < n \/ i = n
      BY <1>7
    <3>3. QED
      BY <2>1, <3>1, <3>2
  <2>3. \A i \in Positions : i >= n + 1 => entries[i] = None
    <3>1. \A i \in Positions : i > n => entries[i] = None
      BY <1>2 DEF Health, EntriesFull
    <3>2. \A i \in Positions : i >= n + 1 => i > n
      BY <1>7
    <3>3. QED
      BY <3>1, <3>2
  <2>4. n + 1 < MaxSize => entries[n + 1] = None
    BY <1>7, <2>3, BoundTypes
  <2>5. QED
    BY <1>3, <1>6, <1>7, <2>2, <2>3, <2>4 DEF EntriesFull, Readable
<1>12. HeadsFull'
  <2>1. \A m \in Sizes : m > n => heads[m] = None
    BY <1>2 DEF Health, HeadsFull
  <2>2. \A m \in Sizes : m <= n => heads[m] \in {None, Ideal(m)}
    BY <1>2 DEF Health, HeadsFull
  <2>3. \A m \in Sizes : 0 < m /\ m <= n => heads[m] # None
    <3>1. n > 0 => heads[n] # None
      BY <1>2, <1>10 DEF Health, HeadsFull
    <3>2. \A m \in Sizes : 0 < m /\ m < n => heads[m] # None
      BY <1>2 DEF Health, HeadsFull
    <3>3. QED
      BY <1>7, <3>1, <3>2
  <2>4. heads[0] = None => Running({"numbered0"}) # {}
    BY <1>4 DEF Health, HeadsFull
  <2>5. \A m \in Sizes : m <= n + 1 => heads'[m] \in {None, Ideal(m)'}
    BY <1>3, <1>7, <1>8, <2>1, <2>2
  <2>6. \A m \in Sizes : m > n + 1 => heads'[m] = None
    BY <1>3, <1>7, <2>1
  <2>7. \A m \in Sizes : 0 < m /\ m < n + 1 => heads'[m] # None
    BY <1>3, <1>7, <2>3
  <2>8. QED
    BY <1>3, <1>6, <1>10, <2>4, <2>5, <2>6, <2>7 DEF HeadsFull
<1>13. CopiesFull'
  <2>1. latestHead = Ideal(n)
    BY <1>2, <1>4 DEF Health, CopiesFull
  <2>2. PICK m : m = n + 1
    OBVIOUS
  <2>3. /\ latestHead' = Ideal(m)' /\ previousHead' = Ideal(n)' /\ latestEntry' = entries'[n]
        /\ Size' = m /\ m - 1 = n /\ m \in Sizes
    BY <1>3, <1>4, <1>6, <1>7, <1>8, <2>1, <2>2
  <2>4. QED
    BY <2>3 DEF CopiesFull
<1>14. QED
  BY <1>10, <1>11, <1>12, <1>13 DEF Health

LEMMA WriteNumberedHealth ==
    ASSUME LedgerInv, Health, ~forced, NEW p \in Procs, WriteNumbered(p) PROVE Health'
<1>1. PICK j : j = job[p]
  OBVIOUS
<1>2. PICK n : n = Size
  OBVIOUS
<1>3. /\ pc[p] = "numbered" /\ Goto(p, "unlock", j) /\ lock' = lock
      /\ heads' = IF heads[j.new.size] = None
                  THEN [heads EXCEPT ![j.new.size] = j.new] ELSE heads
      /\ UNCHANGED <<entries, latestHead, previousHead, latestEntry>>
      /\ pc[p] \in LockedSteps /\ "unlock" \in LockedSteps
  BY <1>1 DEF WriteNumbered, LockedSteps
<1>4. n > 0 /\ j.new = latestHead /\ j.new \in HeadType
  BY <1>1, <1>2, <1>3, JobOf DEF Health, AppendInv, JobInv
<1>5. /\ latestHead # None /\ j.new.size = n /\ j.new = Ideal(n)
  BY <1>2, <1>4, AbsentAssumption DEF Health, CopiesFull, Size
<1>6. /\ n \in Nat /\ n \in Sizes /\ \A m \in Sizes : m \in Nat
  BY <1>2, SizeTyped
<1>7. /\ heads'[n] = IF heads[n] = None THEN Ideal(n) ELSE heads[n]
      /\ \A m \in Sizes \ {n} : heads'[m] = heads[m]
  BY <1>3, <1>5, <1>6, FilesTyped
<1>8. Size' = n /\ \A m : Ideal(m)' = Ideal(m)
  BY <1>2, <1>3 DEF Size, Ideal, RootFor, Stored, init_head
<1>9. AppendInv("unlock", j)'
  BY DEF AppendInv, Pending
<1>10. /\ Running(Pending) = {} /\ Running(Pending)' = {} /\ Running({"latest"}) = {}
       /\ Running({"root", "previous", "latest"}) = {}
       /\ Running({"numbered0"})' = Running({"numbered0"})
       /\ LockHeld' /\ \A q \in Procs : AppendInv(pc[q], job[q])'
  BY <1>3, <1>9, AppendAlone, LockedNames DEF Pending
<1>11. EntriesFull' /\ CopiesFull'
  BY <1>2, <1>3, <1>8, <1>10 DEF Health, EntriesFull, CopiesFull, Readable
<1>12. HeadsFull'
  <2>1. /\ \A m \in Sizes : m <= n => heads[m] \in {None, Ideal(m)}
        /\ \A m \in Sizes : m > n => heads[m] = None
        /\ \A m \in Sizes : 0 < m /\ m < n => heads[m] # None
        /\ heads[0] = None => Running({"numbered0"}) # {}
    BY <1>2, <1>5 DEF Health, HeadsFull
  <2>2. heads'[n] = Ideal(n) /\ Ideal(n) # None
    BY <1>2, <1>4, <1>5, <1>6, <1>7, <2>1, AbsentAssumption
  <2>3. \A m \in Sizes : m <= n => heads'[m] \in {None, Ideal(m)'}
    BY <1>6, <1>7, <1>8, <2>1, <2>2
  <2>4. \A m \in Sizes : m > n => heads'[m] = None
    <3>1. \A m \in Sizes : m > n => m # n
      BY <1>6
    <3>2. QED
      BY <1>7, <2>1, <3>1
  <2>5. \A m \in Sizes : 0 < m /\ m < n => heads'[m] # None
    BY <1>6, <1>7, <2>1
  <2>6. heads'[0] = heads[0]
    BY <1>4, <1>7, BoundTypes
  <2>7. QED
    BY <1>8, <1>10, <2>1, <2>2, <2>3, <2>4, <2>5, <2>6 DEF HeadsFull
<1>13. QED
  BY <1>10, <1>11, <1>12 DEF Health

-----------------------------------------------------------------------------
(* Every command but the forced init that removes a ledger.                *)
LEMMA StepHealth ==
    ASSUME LedgerInv, faults = 0 /\ ~forced => Health, Next
    PROVE  faults' = 0 /\ ~forced' => Health'
<1>1. PICK p \in Procs : \/ InitCommand(p) \/ AppendCommand(p) \/ ReadCommand(p)
                         \/ Fail(p) \/ Die(p)
  BY DEF Next
<1>2. CASE Fail(p) \/ Die(p)
  <2>1. faults' = faults + 1 /\ faults \in Nat
    BY <1>2, FilesTyped DEF Fail, Die, Fault
  <2>2. QED
    BY <2>1
<1>3. CASE InitCommand(p) \/ AppendCommand(p) \/ ReadCommand(p)
  <2>1. faults' = faults /\ (forced => forced')
    <3>1. CASE InitCommand(p)
      <4>1. CASE StartForcedInit(p)
        <5>1. forced' = (forced \/ made \/ lock) /\ faults' = faults
          BY <4>1 DEF StartForcedInit
        <5>2. QED
          BY <5>1, Zenon
      <4>2. CASE StartInit(p) \/ CheckEmpty(p) \/ MakeDirs(p)
        BY <4>2 DEF StartInit, CheckEmpty, MakeDirs, history
      <4>3. CASE WriteEmptyHead(p) \/ WriteNumberedEmptyHead(p)
        BY <4>3 DEF WriteEmptyHead, WriteNumberedEmptyHead, history
      <4>4. QED
        BY <3>1, <4>1, <4>2, <4>3 DEF InitCommand
    <3>2. CASE AppendCommand(p)
      BY <3>2 DEF AppendCommand, TakeLock, ReadHead, ListEntries, WriteEntry,
                  ReplaceLatestEntry, ComputeRoot, ReplacePrevious, ReplaceLatest,
                  WriteNumbered, Unlock, history
    <3>3. CASE ReadCommand(p)
      BY <3>3, ReaderMoves
    <3>4. QED
      BY <1>3, <3>1, <3>2, <3>3
  <2>2. SUFFICES ASSUME ~forced, ~forced', Health PROVE Health'
    BY <2>1
  <2>3. CASE InitCommand(p)
    BY <2>2, <2>3, QuietHealth, WriteEmptyHeadHealth, WriteNumberedEmptyHeadHealth
       DEF InitCommand
  <2>4. CASE AppendCommand(p)
    BY <2>2, <2>4, QuietHealth, WriteEntryHealth, ReplaceLatestEntryHealth,
           ComputeRootHealth,
       ReplacePreviousHealth, ReplaceLatestHealth, WriteNumberedHealth DEF AppendCommand
  <2>5. QED
    BY <1>3, <2>2, <2>3, <2>4, ReadCommandHealth
<1>4. QED
  BY <1>1, <1>2, <1>3

LEMMA StutterHealth ==
    ASSUME HealthInv, UNCHANGED vars PROVE faults' = 0 /\ ~forced' => Health'
<1>1. UNCHANGED <<lock, entries, heads, latestEntry, latestHead, previousHead, pc, job, faults,
                  forced>>
  BY DEF vars, files, history
<1>2. Size' = Size /\ \A n : Ideal(n)' = Ideal(n) /\ \A S : Running(S)' = Running(S)
  BY <1>1 DEF Size, Ideal, RootFor, Stored, init_head, Running
<1>3. SUFFICES ASSUME Health PROVE Health'
  BY <1>1 DEF HealthInv
<1>4. EntriesFull' /\ HeadsFull' /\ CopiesFull' /\ LockHeld'
  BY <1>1, <1>2, <1>3 DEF Health, EntriesFull, HeadsFull, CopiesFull, LockHeld, Readable
<1>5. ASSUME NEW q \in Procs PROVE AppendInv(pc[q], job[q])'
  <2>1. PICK k, s : k = job[q] /\ s = pc[q]
    OBVIOUS
  <2>2. AppendInv(s, k)
    BY <1>3, <2>1 DEF Health
  <2>3. AppendInv(s, k)'
    BY <1>1, <1>2, <2>2 DEF AppendInv
  <2>4. QED
    BY <1>1, <2>1, <2>3
<1>6. QED
  BY <1>4, <1>5 DEF Health

LEMMA InitHealth == Init => HealthInv
<1>1. SUFFICES ASSUME Init PROVE HealthInv
  OBVIOUS
<1>2. LedgerInv /\ lock = FALSE /\ pc = [p \in Procs |-> "idle"]
  BY <1>1, InitLedger DEF Init
<1>3. LockHeld /\ \A p \in Procs : AppendInv(pc[p], job[p])
  BY <1>2 DEF LockHeld, AppendInv, Pending
<1>4. EntriesFull /\ HeadsFull /\ CopiesFull
  <2>1. CASE /\ entries = [i \in Positions |-> None] /\ heads = [i \in Sizes |-> None]
             /\ latestEntry = None /\ latestHead = None /\ previousHead = None
    <3>1. Size = 0 /\ 0 \in Sizes /\ \A i \in Positions : i \in Nat /\ entries[i] = None
      BY <2>1, BoundTypes DEF Size
    <3>2. 0 < MaxSize => 0 \in Positions
      BY BoundTypes
    <3>3. EntriesFull
      BY <3>1, <3>2 DEF EntriesFull, Positions
    <3>4. HeadsFull
      BY <2>1, <3>1, BoundTypes DEF HeadsFull
    <3>5. QED
      BY <2>1, <3>1, <3>3, <3>4 DEF CopiesFull
  <2>2. ASSUME NEW s \in Starts,
               entries = [i \in Positions |-> IF i < Len(s) THEN LogOf(s)[i + 1] ELSE None],
               heads = [i \in Sizes |-> IF i <= Len(s) THEN HeadOf(s, i) ELSE None],
               latestEntry = IF s = <<>> THEN None ELSE LogOf(s)[Len(s)],
               latestHead = HeadOf(s, Len(s)),
               previousHead = IF s = <<>> THEN None ELSE HeadOf(s, Len(s) - 1)
        PROVE  EntriesFull /\ HeadsFull /\ CopiesFull
    <3>1. PICK n : n = Len(s)
      OBVIOUS
    <3>2. /\ n \in Nat /\ n \in Sizes /\ (s # <<>> => n > 0) /\ (s = <<>> => n = 0)
          /\ n \in 0 .. n /\ \A m \in 0 .. n : m \in Sizes /\ m \in Nat
          /\ \A m \in Sizes : m \in Nat
      BY <3>1, StartTyped, BoundTypes, EmptySeq
    <3>3. latestHead \in HeadType /\ Size = n
      BY <2>2, <3>1, <3>2, HeadOfTyped, AbsentAssumption DEF Size
    <3>4. /\ \A i \in 0 .. n - 1 : entries[i] = LogOf(s)[i + 1] /\ Readable(entries[i])
          /\ \A i \in Positions : i >= n => entries[i] = None
          /\ \A m \in 0 .. n : heads[m] = HeadOf(s, m)
          /\ \A m \in 0 .. n : RootFor(m) = merkle_root[SubSeq(LogOf(s), 1, m)]
          /\ \A m \in Sizes : m > n => heads[m] = None
      BY <2>2, <3>1, StartedFiles
    <3>5. ASSUME NEW m \in 0 .. n PROVE HeadOf(s, m) = Ideal(m)
      <4>1. CASE m = 0
        BY <4>1 DEF HeadOf, Ideal
      <4>2. CASE m # 0
        <5>1. m - 1 \in 0 .. n /\ m - 1 \in 0 .. n - 1 /\ (m - 1) + 1 = m
          BY <3>2, <4>2
        <5>2. entries[m - 1] = LogOf(s)[m]
          BY <3>4, <5>1
        <5>3. QED
          BY <3>4, <4>2, <5>1, <5>2 DEF HeadOf, Ideal
      <4>3. QED
        BY <4>1, <4>2
    <3>6. EntriesFull
      <4>1. \A i \in Positions : i < n => i \in 0 .. n - 1
        BY <3>2, BoundTypes
      <4>2. \A i \in Positions : i > n => i >= n
        BY <3>2, BoundTypes
      <4>3. n < MaxSize => n \in Positions /\ n >= n
        BY <3>2, BoundTypes
      <4>4. QED
        BY <3>3, <3>4, <4>1, <4>2, <4>3 DEF EntriesFull
    <3>7. HeadsFull
      <4>1. \A m \in Sizes : m <= n => m \in 0 .. n
        BY <3>2
      <4>2. \A m \in Sizes : m <= n => heads[m] = Ideal(m) /\ heads[m] # None
        BY <3>1, <3>4, <3>5, <4>1, HeadOfTyped, AbsentAssumption
      <4>3. \A m \in Sizes : m < n => m <= n
        BY <3>2
      <4>4. QED
        BY <3>2, <3>3, <3>4, <4>2, <4>3 DEF HeadsFull
    <3>8. CopiesFull
      <4>1. latestHead = Ideal(n)
        BY <2>2, <3>1, <3>2, <3>5
      <4>2. n > 0 => s # <<>> /\ n - 1 \in 0 .. n /\ n - 1 \in 0 .. n - 1 /\ (n - 1) + 1 = n
        BY <3>2
      <4>3. n > 0 => previousHead = Ideal(n - 1)
        BY <2>2, <3>1, <3>5, <4>2
      <4>4. n > 0 => latestEntry = entries[n - 1]
        BY <2>2, <3>1, <3>4, <4>2
      <4>5. QED
        BY <3>2, <3>3, <4>1, <4>3, <4>4 DEF CopiesFull
    <3>9. QED
      BY <3>6, <3>7, <3>8
  <2>3. QED
    BY <1>1, <2>1, <2>2 DEF Init
<1>5. QED
  BY <1>2, <1>3, <1>4 DEF HealthInv, Health

(* A healthy ledger that no command is working on.                         *)
LEMMA QuietIsHealthy ==
    ASSUME LedgerInv, Health, Running(Writers) = {}, latestHead # None PROVE Healthy
<1>1. PICK n : n = Size
  OBVIOUS
<1>2. /\ latestHead.size = n /\ n \in Sizes /\ n \in Nat
      /\ \A m \in Sizes : m \in Nat /\ \A i \in Positions : i \in Nat
  BY <1>1, SizeTyped DEF Size
<1>3. /\ Running(Pending) = {} /\ Running({"numbered"}) = {} /\ Running({"numbered0"}) = {}
      /\ Running({"latest"}) = {} /\ Running({"root", "previous", "latest"}) = {}
      /\ Running(LockedSteps) = {}
  BY DEF Running, Writers, Pending, LockedSteps, InitSteps
<1>4. /\ \A i \in 0 .. n - 1 : i \in Positions /\ Readable(entries[i])
      /\ \A i \in Positions : i >= n => entries[i] = None
  <2>1. \A i \in 0 .. n - 1 : i \in Positions /\ Readable(entries[i])
    BY <1>1, <1>2, ReadableBelow
  <2>2. n < MaxSize => entries[n] = None
    BY <1>1, <1>3 DEF Health, EntriesFull
  <2>3. \A i \in Positions : i > n => entries[i] = None
    BY <1>1 DEF Health, EntriesFull
  <2>4. \A i \in Positions : i >= n => i > n \/ (i = n /\ n < MaxSize)
    BY <1>2, BoundTypes DEF Positions
  <2>5. QED
    BY <2>1, <2>2, <2>3, <2>4
<1>5. Loads(n)
  <2>1. \A i \in Positions : i < n => i \in 0 .. n - 1
    BY <1>2
  <2>2. \A i \in Positions : i < n \/ i >= n
    BY <1>2
  <2>3. {i \in DOMAIN entries : entries[i] # None} = 0 .. n - 1
    BY <1>4, <2>1, <2>2, FilesTyped DEF Readable
  <2>4. QED
    BY <1>4, <2>3 DEF Loads, Listed, Readable
<1>6. \A m \in Sizes : m <= n => heads[m] = Ideal(m) /\ Ideal(m) \in HeadType
  <2>1. \A m \in Sizes : m <= n => heads[m] \in {None, Ideal(m)} /\ Ideal(m) \in HeadType
    BY <1>1, SizeTyped DEF Health, HeadsFull
  <2>2. \A m \in Sizes : 0 < m /\ m < n => heads[m] # None
    BY <1>1 DEF Health, HeadsFull
  <2>3. (n > 0 => heads[n] # None) /\ heads[0] # None
    BY <1>1, <1>3 DEF Health, HeadsFull
  <2>4. \A m \in Sizes : m <= n => m = 0 \/ (0 < m /\ m < n) \/ (m = n /\ n > 0)
    BY <1>2
  <2>5. QED
    BY <2>1, <2>2, <2>3, <2>4
<1>7. \A m \in Sizes : m > n => heads[m] = None
  BY <1>1 DEF Health, HeadsFull
<1>8. Chained(Stored(n), n)
  <2>1. \A m \in 0 .. n : m \in Sizes /\ m \in Nat /\ m <= n
    BY <1>2, BoundTypes DEF Sizes
  <2>2. \A m \in 0 .. n : heads[m] = Ideal(m) /\ heads[m] \in HeadType
    BY <1>6, <2>1
  <2>3. Listed(heads, n + 1)
    <3>1. \A m \in Sizes : m <= n => m \in 0 .. n
      BY <1>2
    <3>2. \A m \in Sizes : m <= n \/ m > n
      BY <1>2
    <3>3. {m \in DOMAIN heads : heads[m] # None} = 0 .. n
      BY <1>7, <2>1, <2>2, <3>1, <3>2, FilesTyped, AbsentAssumption
    <3>4. (n + 1) - 1 = n
      BY <1>2
    <3>5. QED
      BY <3>3, <3>4 DEF Listed
  <2>4. \A m \in 0 .. n : heads[m] # Torn
    BY <2>2, AbsentAssumption
  <2>5. ASSUME NEW m \in 0 .. n
        PROVE  /\ heads[m].size = m
               /\ heads[m].root = merkle_root[SubSeq(Stored(n), 1, m)]
               /\ m = 0 => /\ heads[m].prevSize = 0 /\ heads[m].prevRoot = None
                           /\ heads[m].entry = None
               /\ m > 0 => /\ heads[m].prevSize = m - 1
                           /\ heads[m].prevRoot = heads[m - 1].root
                           /\ heads[m].entry = Stored(n)[m]
    <3>1. SubSeq(Stored(n), 1, m) = Stored(m)
      <4>1. \A i \in 1 .. n : i - 1 \in Positions /\ entries[i - 1] \in Entry
        <5>1. \A i \in 1 .. n : i - 1 \in 0 .. n - 1
          BY <1>2
        <5>2. QED
          BY <1>4, <5>1, FilesTyped DEF Readable
      <4>2. Stored(n) \in Seq(Entry) /\ Len(Stored(n)) = n
        BY <1>2, <4>1, SeqDef, LenProperties DEF Stored
      <4>3. 1 .. m \subseteq 1 .. n /\ m <= n /\ m \in Nat
        BY <1>2, <2>1
      <4>4. /\ SubSeq(Stored(n), 1, m) \in Seq(Entry) /\ Len(SubSeq(Stored(n), 1, m)) = m
            /\ \A i \in 1 .. m : SubSeq(Stored(n), 1, m)[i] = Stored(n)[i]
        BY <1>2, <4>2, <4>3, SubSeqProperties
      <4>5. SubSeq(Stored(n), 1, m) = [i \in 1 .. m |-> Stored(n)[i]]
        BY <4>4, LenProperties
      <4>6. QED
        BY <4>3, <4>5 DEF Stored
    <3>2. Ideal(m).size = m /\ Ideal(m).root = RootFor(m)
      BY <1>1, <2>1, SizeTyped
    <3>3. m = 0 => /\ heads[m].prevSize = 0 /\ heads[m].prevRoot = None
                   /\ heads[m].entry = None
      <4>1. m = 0 => heads[m] = init_head
        BY <2>2 DEF Ideal
      <4>2. QED
        BY <4>1 DEF init_head
    <3>4. ASSUME m > 0
          PROVE  /\ heads[m].prevSize = m - 1 /\ heads[m].prevRoot = heads[m - 1].root
                 /\ heads[m].entry = Stored(n)[m]
      <4>1. m - 1 \in 0 .. n /\ m \in 1 .. n /\ m # 0
        BY <1>2, <2>1, <3>4
      <4>2. heads[m - 1].root = RootFor(m - 1)
        BY <1>1, <2>1, <2>2, <4>1, SizeTyped
      <4>3. heads[m] = [size |-> m, root |-> RootFor(m), prevSize |-> m - 1,
                        prevRoot |-> RootFor(m - 1), entry |-> entries[m - 1]]
        BY <2>2, <4>1 DEF Ideal
      <4>4. Stored(n)[m] = entries[m - 1]
        BY <4>1 DEF Stored
      <4>5. QED
        BY <4>2, <4>3, <4>4
    <3>5. QED
      BY <2>2, <3>1, <3>2, <3>3, <3>4 DEF RootFor
  <2>6. QED
    BY <2>3, <2>4, <2>5 DEF Chained
<1>9. latestHead = Ideal(n) /\ heads[n] = latestHead
  BY <1>1, <1>2, <1>6 DEF Health, CopiesFull
<1>10. n > 0 => previousHead = heads[n - 1] /\ latestEntry = entries[n - 1]
  <2>1. n > 0 => n - 1 \in Sizes /\ n - 1 <= n
    BY <1>2, BoundTypes DEF Sizes
  <2>2. QED
    BY <1>1, <1>3, <1>6, <2>1 DEF Health, CopiesFull
<1>11. ~lock
  BY <1>3 DEF Health, LockHeld
<1>12. QED
  BY <1>2, <1>5, <1>8, <1>9, <1>10, <1>11 DEF Healthy

THEOREM HealthIsSound == Spec => []HealthInv
<1>1. HealthInv /\ [Next]_vars => HealthInv'
  <2>1. SUFFICES ASSUME HealthInv, [Next]_vars PROVE HealthInv'
    OBVIOUS
  <2>2. LedgerInv'
    BY <2>1, StepLedger DEF HealthInv
  <2>3. faults' = 0 /\ ~forced' => Health'
    BY <2>1, StepHealth, StutterHealth DEF HealthInv
  <2>4. QED
    BY <2>2, <2>3 DEF HealthInv
<1>2. QED
  BY <1>1, InitHealth, PTL DEF Spec

(* Inits, appends and readers that overlap in whatever way leave a ledger  *)
(* that verifies and takes the next append (run_init, run_append,          *)
(* run_verify_history), unless one was killed, failed or forced.           *)
THEOREM QuietHealthy == Spec => []QuietLedgerIsHealthy
<1>1. HealthInv => QuietLedgerIsHealthy
  BY QuietIsHealthy DEF HealthInv, QuietLedgerIsHealthy
<1>2. QED
  BY <1>1, HealthIsSound, PTL

-----------------------------------------------------------------------------
(***************************************************************************)
(* What a run of verify-history knows. As long as no writer has run since  *)
(* it started, it reads one and the same healthy ledger; and the head it   *)
(* has compared with its numbered file stays there.                        *)
(***************************************************************************)
ReaderInv(q, step, j) ==
    /\ step \in {"vPrevious", "vLatestEntry"} /\ ~forced => heads[j.head.size] = j.head
    /\ step \in VerifySteps /\ q \notin disturbed =>
        /\ Running(Writers) = {} /\ latestHead # None
        /\ faults = 0 /\ ~forced =>
            /\ step # "vHead" => j.head = latestHead
            /\ step \in {"vHeads", "vPrevious", "vLatestEntry"} => j.log = Stored(latestHead.size)
            /\ step \in {"vPrevious", "vLatestEntry"} =>
                   latestHead.size > 0 /\ j.old = heads[latestHead.size - 1]

VerdictInv ==
    /\ HealthInv /\ VerdictHolds
    /\ verdict # None /\ verdict.accepted => verdict.head \in HeadType
    /\ \A q \in Procs : ReaderInv(q, pc[q], job[q])

LEMMA WriterMoves ==
    ASSUME LedgerInv, NEW p \in Procs,
           InitCommand(p) \/ AppendCommand(p) \/ Fail(p) \/ Die(p)
    PROVE  /\ UNCHANGED verdict /\ disturbed \subseteq disturbed'
           /\ pc[p] \in Writers \/ Running(Readers) \subseteq disturbed'
           /\ \E step \in Writers \cup {"idle"} : \E j : Goto(p, step, j)
<1>1. {"check", "mkdirs", "head0", "numbered0", "head", "list", "entry", "latestEntry", "root",
       "previous", "latest", "numbered", "unlock"} \subseteq Writers
  BY DEF Writers, LockedSteps, InitSteps
<1>2. CASE StartInit(p) \/ StartForcedInit(p) \/ TakeLock(p)
  BY <1>1, <1>2 DEF StartInit, StartForcedInit, TakeLock, outputs
<1>3. CASE CheckEmpty(p) \/ MakeDirs(p) \/ WriteEmptyHead(p) \/ WriteNumberedEmptyHead(p)
  BY <1>1, <1>3
     DEF CheckEmpty, MakeDirs, WriteEmptyHead, WriteNumberedEmptyHead, Stop, outputs,
                    history
<1>4. CASE ReadHead(p) \/ ListEntries(p) \/ WriteEntry(p) \/ ReplaceLatestEntry(p)
  <2>1. UNCHANGED <<verdict, disturbed>> /\ pc[p] \in {"head", "list", "entry", "latestEntry"}
    BY <1>4 DEF ReadHead, ListEntries, WriteEntry, ReplaceLatestEntry, outputs, history
  <2>2. \E step \in Writers : \E j : Goto(p, step, j)
    BY <1>1, <1>4 DEF ReadHead, ListEntries, WriteEntry, ReplaceLatestEntry
  <2>3. QED
    BY <1>1, <2>1, <2>2
<1>5. CASE ComputeRoot(p) \/ ReplacePrevious(p) \/ ReplaceLatest(p) \/ WriteNumbered(p)
           \/ Unlock(p)
  <2>1. /\ UNCHANGED <<verdict, disturbed>>
        /\ pc[p] \in {"root", "previous", "latest", "numbered", "unlock"}
    BY <1>5 DEF ComputeRoot, ReplacePrevious, ReplaceLatest, WriteNumbered, Unlock, outputs,
                history
  <2>2. \E step \in Writers \cup {"idle"} : \E j : Goto(p, step, j)
    BY <1>1, <1>5
       DEF ComputeRoot, ReplacePrevious, ReplaceLatest, WriteNumbered, Unlock, Stop
  <2>3. QED
    BY <1>1, <2>1, <2>2
<1>6. CASE Fail(p) \/ Die(p)
  <2>1. UNCHANGED <<verdict, disturbed>> /\ pc[p] \in Writers
    BY <1>6 DEF Fail, Die, outputs, history
  <2>2. \E step \in Writers \cup {"idle"} : \E j : Goto(p, step, j)
    BY <1>1, <1>6 DEF Fail, Die, Stop
  <2>3. QED
    BY <2>1, <2>2
<1>7. QED
  BY <1>2, <1>3, <1>4, <1>5, <1>6 DEF InitCommand, AppendCommand

(* Until a forced init removes a ledger, what is stored stays.             *)
LEMMA FilesStay == ASSUME LedgerInv, Next PROVE (forced => forced') /\ (~forced' => Kept)
<1>1. PICK p \in Procs : \/ InitCommand(p) \/ AppendCommand(p) \/ ReadCommand(p)
                         \/ Fail(p) \/ Die(p)
  BY DEF Next
<1>2. CASE ReadCommand(p)
  BY <1>2, ReaderMoves DEF files, Kept
<1>3. CASE Fail(p) \/ Die(p)
  <2>1. TornFiles(p) /\ forced' = forced
    BY <1>3 DEF Fail, Die, history
  <2>2. QED
    BY <2>1, TornInv
<1>4. CASE StartForcedInit(p)
  <2>1. forced' = (forced \/ made \/ lock)
    BY <1>4 DEF StartForcedInit
  <2>2. forced => forced'
    BY <2>1, Zenon
  <2>3. ASSUME ~forced' PROVE Kept
    <3>1. ~made
      BY <2>1, <2>3, Zenon
    <3>2. \A i \in Positions : entries[i] = None
      BY <3>1 DEF LedgerInv, BareInv
    <3>3. \A i \in Sizes : heads[i] = None
      BY <3>1 DEF LedgerInv, BareInv
    <3>4. QED
      BY <3>2, <3>3 DEF Kept
  <2>4. QED
    BY <2>2, <2>3
<1>5. CASE StartInit(p) \/ CheckEmpty(p) \/ MakeDirs(p) \/ WriteEmptyHead(p)
           \/ TakeLock(p) \/ ReadHead(p) \/ ListEntries(p) \/ ReplaceLatestEntry(p)
           \/ ComputeRoot(p) \/ ReplacePrevious(p) \/ ReplaceLatest(p) \/ Unlock(p)
  <2>1. UNCHANGED <<entries, heads, forced>>
    BY <1>5
       DEF StartInit, CheckEmpty, MakeDirs, WriteEmptyHead, TakeLock, ReadHead, ListEntries,
                ReplaceLatestEntry, ComputeRoot, ReplacePrevious, ReplaceLatest, Unlock, files,
                history
  <2>2. QED
    BY <2>1 DEF Kept
<1>6. CASE WriteNumberedEmptyHead(p)
  <2>1. /\ heads' = IF heads[0] = None THEN [heads EXCEPT ![0] = init_head] ELSE heads
        /\ UNCHANGED <<entries, forced>>
    BY <1>6 DEF WriteNumberedEmptyHead, history
  <2>2. QED
    BY <2>1, FilesTyped DEF Kept
<1>7. CASE WriteNumbered(p)
  <2>1. PICK h : h = job[p].new
    OBVIOUS
  <2>2. /\ heads' = IF heads[h.size] = None THEN [heads EXCEPT ![h.size] = h] ELSE heads
        /\ UNCHANGED <<entries, forced>>
    BY <1>7, <2>1 DEF WriteNumbered, history
  <2>3. QED
    BY <2>2, FilesTyped DEF Kept
<1>8. CASE WriteEntry(p)
  <2>1. PICK n : n = job[p].head.size
    OBVIOUS
  <2>2. /\ UNCHANGED <<heads, forced>>
        /\ \/ entries' = entries
           \/ entries[n] = None /\ entries' = [entries EXCEPT ![n] = NewEntry(p)]
    BY <1>8, <2>1 DEF WriteEntry, history
  <2>3. QED
    BY <2>2, FilesTyped DEF Kept
<1>9. QED
  BY <1>1, <1>2, <1>3, <1>4, <1>5, <1>6, <1>7, <1>8 DEF InitCommand, AppendCommand

(* A verdict that stands, and the readers a step is not of.                *)
LEMMA VerdictStays ==
    ASSUME VerdictInv, Next, UNCHANGED verdict
    PROVE  /\ VerdictHolds'
           /\ (verdict # None /\ verdict.accepted => verdict.head \in HeadType)'
<1>1. (forced => forced') /\ (~forced' => Kept)
  BY FilesStay DEF VerdictInv, HealthInv
<1>2. SUFFICES ASSUME verdict # None, ~forced', verdict.accepted
               PROVE  heads'[verdict.head.size] = verdict.head
  BY <1>1 DEF VerdictInv, VerdictHolds
<1>3. verdict.head \in HeadType /\ heads[verdict.head.size] = verdict.head /\ Kept
  BY <1>1, <1>2 DEF VerdictInv, VerdictHolds
<1>4. verdict.head.size \in Sizes
  BY <1>3 DEF HeadType
<1>5. QED
  BY <1>3, <1>4, AbsentAssumption DEF Kept

LEMMA ReaderStays ==
    ASSUME VerdictInv, Next, NEW p \in Procs, NEW q \in Procs \ {p},
           pc'[q] = pc[q], job'[q] = job[q],
           \/ ReadCommand(p) /\ (q \notin disturbed' => q \notin disturbed)
           \/ InitCommand(p) \/ AppendCommand(p) \/ Fail(p) \/ Die(p)
    PROVE  ReaderInv(q, pc[q], job[q])'
<1>1. PICK j, s : j = job[q] /\ s = pc[q]
  OBVIOUS
<1>2. /\ LedgerInv /\ ReaderInv(q, s, j) /\ (forced => forced') /\ (~forced' => Kept)
      /\ JobInv(s, j) /\ pc \in [Procs -> Steps]
  BY <1>1, FilesStay, JobOf DEF VerdictInv, HealthInv, LedgerInv, TypeOK
<1>3. ASSUME s \in {"vPrevious", "vLatestEntry"}, ~forced'
      PROVE  heads'[j.head.size] = j.head
  <2>1. j.head \in HeadType /\ heads[j.head.size] = j.head
    BY <1>2, <1>3 DEF ReaderInv, JobInv, HasHead
  <2>2. j.head.size \in Sizes
    BY <2>1 DEF HeadType
  <2>3. QED
    BY <1>2, <1>3, <2>1, <2>2, AbsentAssumption DEF Kept
<1>4. ASSUME InitCommand(p) \/ AppendCommand(p) \/ Fail(p) \/ Die(p),
             s \in VerifySteps, q \notin disturbed'
      PROVE  FALSE
  <2>1. q \notin disturbed /\ (pc[p] \in Writers \/ Running(Readers) \subseteq disturbed')
    BY <1>2, <1>4, WriterMoves
  <2>2. Running(Writers) = {}
    BY <1>2, <1>4, <2>1 DEF ReaderInv
  <2>3. q \in Running(Readers)
    BY <1>1, <1>4 DEF Running, Readers
  <2>4. QED
    BY <1>4, <2>1, <2>2, <2>3 DEF Running
<1>5. ASSUME ReadCommand(p), s \in VerifySteps, q \notin disturbed'
      PROVE  /\ q \notin disturbed /\ UNCHANGED <<heads, latestHead, faults, forced>>
             /\ Running(Writers)' = {} /\ Stored(latestHead.size)' = Stored(latestHead.size)
  <2>1. PICK step \in Readers \cup {"idle"} : \E k : Goto(p, step, k)
    BY <1>2, <1>5, ReaderMoves
  <2>2. q \notin disturbed /\ Running(Writers) = {}
    BY <1>2, <1>4, <1>5 DEF ReaderInv
  <2>3. step \notin Writers
    BY DEF Readers, Writers, LockedSteps, InitSteps, VerifySteps, InclusionSteps
  <2>4. pc'[p] = step /\ \A r \in Procs \ {p} : pc'[r] = pc[r]
    BY <1>2, <2>1 DEF Goto
  <2>5. UNCHANGED <<entries, heads, latestHead, faults, forced>>
    BY <1>2, <1>5, ReaderMoves DEF files
  <2>6. Stored(latestHead.size)' = Stored(latestHead.size)
    BY <2>5 DEF Stored
  <2>7. QED
    BY <2>2, <2>3, <2>4, <2>5, <2>6 DEF Running
<1>6. ReaderInv(q, s, j)'
  BY <1>2, <1>3, <1>4, <1>5 DEF ReaderInv
<1>7. QED
  BY <1>1, <1>6

(* What a reader finds that no writer has disturbed.                       *)
LEMMA UndisturbedHealthy ==
    ASSUME VerdictInv, NEW p \in Procs, pc[p] \in VerifySteps, p \notin disturbed,
           faults = 0, ~forced
    PROVE  Healthy /\ latestHead \in HeadType
<1>1. Running(Writers) = {} /\ latestHead # None
  BY DEF VerdictInv, ReaderInv
<1>2. LedgerInv /\ Health
  BY DEF VerdictInv, HealthInv
<1>3. Ideal(Size) \in HeadType /\ latestHead = Ideal(Size)
  BY <1>1, <1>2, SizeTyped DEF Health, CopiesFull
<1>4. QED
  BY <1>1, <1>2, <1>3, QuietIsHealthy

(* A verdict that is spoken. *)
LEMMA SayHolds ==
    ASSUME VerdictInv, NEW p \in Procs, NEW accepted \in BOOLEAN, Say(p, accepted),
           accepted => job[p].head \in HeadType,
           accepted /\ ~forced' => heads'[job[p].head.size] = job[p].head,
           ~accepted /\ p \notin disturbed /\ faults = 0 => forced'
    PROVE  /\ VerdictHolds' /\ (verdict # None /\ verdict.accepted => verdict.head \in HeadType)'
           /\ pc'[p] = "idle"
<1>1. /\ verdict' = [accepted |-> accepted, head |-> job[p].head,
                     disturbed |-> p \in disturbed, faulty |-> faults > 0]
      /\ Goto(p, "idle", NoJob)
  BY DEF Say, Stop
<1>2. /\ verdict'.accepted = accepted /\ verdict'.head = job[p].head
      /\ verdict'.disturbed <=> p \in disturbed
      /\ verdict'.faulty <=> faults > 0
  BY <1>1
<1>3. faults \in Nat /\ pc \in [Procs -> Steps]
  BY DEF VerdictInv, HealthInv, LedgerInv, TypeOK
<1>4. pc'[p] = "idle"
  BY <1>1, <1>3 DEF Goto
<1>5. ASSUME ~forced'
      PROVE  /\ verdict'.accepted => heads'[verdict'.head.size] = verdict'.head
             /\ verdict'.accepted \/ verdict'.disturbed \/ verdict'.faulty
  BY <1>2, <1>3, <1>5
<1>6. VerdictHolds'
  BY <1>5 DEF VerdictHolds
<1>7. QED
  BY <1>2, <1>4, <1>6

LEMMA FieldUpdates ==
    ASSUME NEW j \in Jobs, NEW v
    PROVE  /\ [j EXCEPT !.head = v].head = v
           /\ [j EXCEPT !.log = v].log = v /\ [j EXCEPT !.log = v].head = j.head
           /\ [j EXCEPT !.old = v].old = v /\ [j EXCEPT !.old = v].head = j.head
           /\ [j EXCEPT !.old = v].log = j.log
BY DEF Jobs

(* The step that verify-history takes itself.                              *)
LEMMA ReaderKnows ==
    ASSUME VerdictInv, Next, NEW p \in Procs, ReadCommand(p)
    PROVE  /\ VerdictHolds' /\ (verdict # None /\ verdict.accepted => verdict.head \in HeadType)'
           /\ ReaderInv(p, pc[p], job[p])'
<1>1. PICK j : j = job[p]
  OBVIOUS
<1>2. /\ j \in Jobs /\ JobInv(pc[p], j) /\ ReaderInv(p, pc[p], j) /\ LedgerInv
      /\ pc \in [Procs -> Steps] /\ job \in [Procs -> Jobs]
  BY <1>1, JobOf DEF VerdictInv, HealthInv, LedgerInv, TypeOK
<1>3. UNCHANGED <<files, faults, forced>> /\ pc[p] \notin Writers
  BY <1>2, ReaderMoves
<1>4. /\ UNCHANGED <<entries, heads, latestHead, previousHead, latestEntry>>
      /\ Healthy' = Healthy
  BY <1>3 DEF files, Healthy, Loads, Listed, Chained, Stored
<1>5. \A step, k : Goto(p, step, k) => pc'[p] = step /\ job'[p] = k
  BY <1>2 DEF Goto
<1>6. \A step, k : Goto(p, step, k) /\ step \notin Writers /\ Running(Writers) = {}
                     => Running(Writers)' = {}
  BY <1>2 DEF Goto, Running
<1>7. \A step \in Readers \cup {"idle"} : step \notin Writers
  BY DEF Readers, Writers, LockedSteps, InitSteps, VerifySteps, InclusionSteps
<1>8. ASSUME NEW step, step \notin VerifySteps, pc'[p] = step
      PROVE  ReaderInv(p, pc[p], job[p])'
  <2>1. step \notin {"vPrevious", "vLatestEntry"}
    BY <1>8 DEF VerifySteps
  <2>2. QED
    BY <1>8, <2>1 DEF ReaderInv
<1>9. {"vHead", "vEntries", "vHeads", "vPrevious", "vLatestEntry"} = VerifySteps
      /\ VerifySteps \subseteq Readers
  BY DEF VerifySteps, Readers
<1>10. ASSUME UNCHANGED verdict
       PROVE  /\ VerdictHolds'
              /\ (verdict # None /\ verdict.accepted => verdict.head \in HeadType)'
  BY <1>10, VerdictStays
<1>11. ASSUME pc[p] \in VerifySteps, p \notin disturbed, faults = 0, ~forced
       PROVE  Healthy /\ latestHead \in HeadType
  BY <1>11, UndisturbedHealthy
<1>12. CASE StartVerify(p)
  <2>1. /\ UNCHANGED verdict /\ latestHead # None /\ Goto(p, "vHead", NoJob)
        /\ p \notin disturbed' => Running(Writers) = {}
    BY <1>12 DEF StartVerify, Disturb, outputs
  <2>2. pc'[p] = "vHead" /\ Running(Writers) = {} => Running(Writers)' = {}
    BY <1>6, <1>7, <1>9, <2>1
  <2>3. pc'[p] = "vHead"
    BY <1>5, <2>1
  <2>4. ReaderInv(p, pc[p], job[p])'
    BY <1>4, <2>1, <2>2, <2>3 DEF ReaderInv
  <2>5. QED
    BY <1>10, <2>1, <2>4
<1>13. CASE VerifyHead(p)
  <2>1. pc[p] = "vHead" /\ disturbed' = disturbed /\ pc[p] \in VerifySteps
    BY <1>9, <1>13 DEF VerifyHead, history
  <2>2. CASE /\ Goto(p, "vEntries", [job[p] EXCEPT !.head = latestHead]) /\ UNCHANGED verdict
    <3>1. pc'[p] = "vEntries" /\ job'[p].head = latestHead
          /\ (Running(Writers) = {} => Running(Writers)' = {})
      <4>1. PICK k : k = [job[p] EXCEPT !.head = latestHead]
        OBVIOUS
      <4>2. Goto(p, "vEntries", k) /\ "vEntries" \notin Writers
        BY <1>7, <1>9, <2>2, <4>1
      <4>3. k.head = latestHead
        BY <1>1, <1>2, <4>1, FieldUpdates
      <4>4. pc'[p] = "vEntries" /\ job'[p] = k
        BY <1>5, <4>2
      <4>5. QED
        BY <1>1, <1>6, <4>2, <4>3, <4>4
    <3>2. ReaderInv(p, pc[p], job[p])'
      BY <1>2, <1>3, <1>4, <2>1, <3>1 DEF ReaderInv
    <3>3. QED
      BY <1>10, <2>2, <3>2
  <2>3. CASE ~Readable(latestHead) /\ Say(p, FALSE)
    <3>1. p \notin disturbed /\ faults = 0 => forced'
      BY <1>3, <1>11, <2>1, <2>3, AbsentAssumption DEF Readable
    <3>2. QED
      BY <1>8, <1>9, <2>3, <3>1, SayHolds
  <2>4. QED
    BY <1>13, <2>2, <2>3 DEF VerifyHead
<1>14. CASE VerifyEntries(p)
  <2>1. pc[p] = "vEntries" /\ disturbed' = disturbed /\ pc[p] \in VerifySteps
    BY <1>9, <1>14 DEF VerifyEntries, history
  <2>2. CASE /\ Goto(p, "vHeads", [job[p] EXCEPT !.log = Stored(job[p].head.size)])
             /\ UNCHANGED verdict
    <3>1. pc'[p] = "vHeads" /\ job'[p].head = j.head /\ job'[p].log = Stored(j.head.size)
          /\ (Running(Writers) = {} => Running(Writers)' = {})
      <4>1. PICK k : k = [job[p] EXCEPT !.log = Stored(job[p].head.size)]
        OBVIOUS
      <4>2. Goto(p, "vHeads", k) /\ "vHeads" \notin Writers
        BY <1>7, <1>9, <2>2, <4>1
      <4>3. k.head = j.head /\ k.log = Stored(j.head.size)
        BY <1>1, <1>2, <4>1, FieldUpdates
      <4>4. pc'[p] = "vHeads" /\ job'[p] = k
        BY <1>5, <4>2
      <4>5. QED
        BY <1>1, <1>6, <4>2, <4>3, <4>4
    <3>2. Stored(latestHead.size)' = Stored(latestHead.size)
      BY <1>4 DEF Stored
    <3>3. ReaderInv(p, pc[p], job[p])'
      BY <1>2, <1>3, <1>4, <2>1, <3>1, <3>2 DEF ReaderInv
    <3>4. QED
      BY <1>10, <2>2, <3>3
  <2>3. CASE ~Loads(job[p].head.size) /\ Say(p, FALSE)
    <3>1. p \notin disturbed /\ faults = 0 => forced'
      BY <1>1, <1>2, <1>3, <1>11, <2>1, <2>3 DEF Healthy, ReaderInv
    <3>2. QED
      BY <1>8, <1>9, <2>3, <3>1, SayHolds
  <2>4. QED
    BY <1>14, <2>2, <2>3 DEF VerifyEntries
<1>15. CASE VerifyHeads(p)
  <2>1. pc[p] = "vHeads" /\ disturbed' = disturbed /\ pc[p] \in VerifySteps
    BY <1>9, <1>15 DEF VerifyHeads, history
  <2>2. PICK n : n = j.head.size
    OBVIOUS
  <2>3. j.head \in HeadType /\ n \in Nat
    BY <1>2, <2>1, <2>2, BoundTypes DEF JobInv, HasHead, HeadType
  <2>4. CASE /\ Chained(j.log, n) /\ heads[n] = j.head /\ n > 0 /\ UNCHANGED verdict
             /\ Goto(p, "vPrevious", [job[p] EXCEPT !.old = heads[n - 1]])
    <3>1. pc'[p] = "vPrevious" /\ job'[p].head = j.head /\ job'[p].log = j.log
          /\ job'[p].old = heads[n - 1]
          /\ (Running(Writers) = {} => Running(Writers)' = {})
      <4>1. PICK k : k = [job[p] EXCEPT !.old = heads[n - 1]]
        OBVIOUS
      <4>2. Goto(p, "vPrevious", k) /\ "vPrevious" \notin Writers
        BY <1>7, <1>9, <2>4, <4>1
      <4>3. k.head = j.head /\ k.log = j.log /\ k.old = heads[n - 1]
        BY <1>1, <1>2, <4>1, FieldUpdates
      <4>4. pc'[p] = "vPrevious" /\ job'[p] = k
        BY <1>5, <4>2
      <4>5. QED
        BY <1>1, <1>6, <4>2, <4>3, <4>4
    <3>2. Stored(latestHead.size)' = Stored(latestHead.size)
      BY <1>4 DEF Stored
    <3>3. ReaderInv(p, pc[p], job[p])'
      BY <1>2, <1>3, <1>4, <2>1, <2>2, <2>4, <3>1, <3>2 DEF ReaderInv
    <3>4. QED
      BY <1>10, <2>4, <3>3
  <2>5. CASE Chained(j.log, n) /\ heads[n] = j.head /\ Say(p, TRUE)
    <3>1. heads'[job[p].head.size] = job[p].head /\ job[p].head \in HeadType
      BY <1>1, <1>4, <2>2, <2>3, <2>5
    <3>2. QED
      BY <1>8, <1>9, <2>5, <3>1, SayHolds
  <2>6. CASE ~(Chained(j.log, n) /\ heads[n] = j.head) /\ Say(p, FALSE)
    <3>1. p \notin disturbed /\ faults = 0 => forced'
      BY <1>2, <1>3, <1>11, <2>1, <2>2, <2>6 DEF Healthy, ReaderInv
    <3>2. QED
      BY <1>8, <1>9, <2>6, <3>1, SayHolds
  <2>7. QED
    BY <1>1, <1>15, <2>2, <2>4, <2>5, <2>6 DEF VerifyHeads
<1>16. CASE VerifyPrevious(p)
  <2>1. pc[p] = "vPrevious" /\ disturbed' = disturbed /\ pc[p] \in VerifySteps
    BY <1>9, <1>16 DEF VerifyPrevious, history
  <2>2. CASE Goto(p, "vLatestEntry", j) /\ UNCHANGED verdict
    <3>1. pc'[p] = "vLatestEntry" /\ job'[p] = j
          /\ (Running(Writers) = {} => Running(Writers)' = {})
      BY <1>5, <1>6, <1>7, <1>9, <2>2
    <3>2. Stored(latestHead.size)' = Stored(latestHead.size)
      BY <1>4 DEF Stored
    <3>3. ReaderInv(p, pc[p], job[p])'
      BY <1>2, <1>3, <1>4, <2>1, <3>1, <3>2 DEF ReaderInv
    <3>4. QED
      BY <1>10, <2>2, <3>3
  <2>3. CASE previousHead # j.old /\ Say(p, FALSE)
    <3>1. p \notin disturbed /\ faults = 0 => forced'
      BY <1>2, <1>3, <1>11, <2>1, <2>3 DEF Healthy, ReaderInv
    <3>2. QED
      BY <1>8, <1>9, <2>3, <3>1, SayHolds
  <2>4. QED
    BY <1>1, <1>16, <2>2, <2>3 DEF VerifyPrevious
<1>17. CASE VerifyLatestEntry(p)
  <2>1. pc[p] = "vLatestEntry" /\ disturbed' = disturbed /\ pc[p] \in VerifySteps
    BY <1>9, <1>17 DEF VerifyLatestEntry, history
  <2>2. PICK accepted \in BOOLEAN : accepted <=> latestEntry = j.log[j.head.size]
    OBVIOUS
  <2>3. Say(p, latestEntry = j.log[j.head.size])
    BY <1>1, <1>17 DEF VerifyLatestEntry
  <2>4. PICK n : n = latestHead.size
    OBVIOUS
  <2>5. p \notin disturbed /\ faults = 0 /\ ~forced => latestEntry = j.log[j.head.size]
    <3>1. SUFFICES ASSUME p \notin disturbed, faults = 0, ~forced
                   PROVE  latestEntry = j.log[j.head.size]
      OBVIOUS
    <3>2. /\ j.log = Stored(n) /\ j.head.size = n /\ n > 0 /\ latestEntry = entries[n - 1]
          /\ latestHead \in HeadType
      BY <1>2, <1>11, <2>1, <2>4, <3>1 DEF Healthy, ReaderInv
    <3>3. n \in Nat /\ n \in 1 .. n
      BY <2>4, <3>2, BoundTypes DEF HeadType
    <3>4. QED
      BY <3>2, <3>3 DEF Stored
  <2>6. job[p].head \in HeadType /\ (~forced' => heads'[job[p].head.size] = job[p].head)
    BY <1>1, <1>2, <1>3, <1>4, <2>1 DEF JobInv, HasHead, ReaderInv
  <2>7. (latestEntry = j.log[j.head.size]) \in BOOLEAN
    OBVIOUS
  <2>8. QED
    BY <1>3, <1>8, <1>9, <2>3, <2>5, <2>6, <2>7, SayHolds
<1>18. CASE StartProveInclusion(p) \/ InclusionHead(p) \/ ProveInclusion(p)
  <2>1. UNCHANGED verdict /\ \E step \in {"iHead", "iEntries", "idle"} : \E k : Goto(p, step, k)
    BY <1>18 DEF StartProveInclusion, InclusionHead, ProveInclusion, Stop, outputs
  <2>2. {"iHead", "iEntries", "idle"} \cap VerifySteps = {}
    BY DEF VerifySteps
  <2>3. QED
    BY <1>5, <1>8, <1>10, <2>1, <2>2
<1>19. CASE ProveConsistency(p)
  <2>1. UNCHANGED <<verdict, pc>> /\ pc[p] = "idle"
    BY <1>19 DEF ProveConsistency, Counted
  <2>2. QED
    BY <1>8, <1>9, <1>10, <2>1
<1>20. QED
  BY <1>12, <1>13, <1>14, <1>15, <1>16, <1>17, <1>18, <1>19 DEF ReadCommand

LEMMA StepVerdict ==
    ASSUME VerdictInv, Next, HealthInv' PROVE VerdictInv'
<1>1. PICK p \in Procs : \/ InitCommand(p) \/ AppendCommand(p) \/ ReadCommand(p)
                         \/ Fail(p) \/ Die(p)
  BY DEF Next
<1>2. LedgerInv /\ pc \in [Procs -> Steps] /\ job \in [Procs -> Jobs]
  BY DEF VerdictInv, HealthInv, LedgerInv, TypeOK
<1>3. CASE ReadCommand(p)
  <2>1. PICK step \in Readers \cup {"idle"} : \E k : Goto(p, step, k)
    BY <1>2, <1>3, ReaderMoves
  <2>2. \A q \in Procs \ {p} : pc'[q] = pc[q] /\ job'[q] = job[q]
    BY <1>2, <2>1 DEF Goto
  <2>3. \A q \in Procs \ {p} : q \notin disturbed' => q \notin disturbed
    BY <1>3
       DEF ReadCommand, StartVerify, VerifyHead, VerifyEntries, VerifyHeads, VerifyPrevious,
                VerifyLatestEntry, StartProveInclusion, InclusionHead, ProveInclusion,
                ProveConsistency, Disturb, history
  <2>4. \A q \in Procs \ {p} : ReaderInv(q, pc[q], job[q])'
    BY <1>3, <2>2, <2>3, ReaderStays
  <2>5. QED
    BY <1>3, <2>4, ReaderKnows DEF VerdictInv
<1>4. CASE InitCommand(p) \/ AppendCommand(p) \/ Fail(p) \/ Die(p)
  <2>1. UNCHANGED verdict /\ \E step \in Writers \cup {"idle"} : \E k : Goto(p, step, k)
    BY <1>2, <1>4, WriterMoves
  <2>2. PICK step \in Writers \cup {"idle"} : \E k : Goto(p, step, k)
    BY <2>1
  <2>3. pc'[p] = step /\ \A q \in Procs \ {p} : pc'[q] = pc[q] /\ job'[q] = job[q]
    BY <1>2, <2>2 DEF Goto
  <2>4. step \notin VerifySteps /\ step \notin {"vPrevious", "vLatestEntry"}
    BY DEF Writers, LockedSteps, InitSteps, VerifySteps
  <2>5. ReaderInv(p, pc[p], job[p])'
    BY <2>3, <2>4 DEF ReaderInv
  <2>6. \A q \in Procs \ {p} : ReaderInv(q, pc[q], job[q])'
    BY <1>4, <2>3, ReaderStays
  <2>7. QED
    BY <2>1, <2>5, <2>6, VerdictStays DEF VerdictInv
<1>5. QED
  BY <1>1, <1>3, <1>4

LEMMA StutterVerdict ==
    ASSUME VerdictInv, UNCHANGED vars, HealthInv' PROVE VerdictInv'
<1>1. UNCHANGED <<entries, heads, latestHead, pc, job, faults, verdict, forced, disturbed>>
  BY DEF vars, files, history, outputs
<1>2. Running(Writers)' = Running(Writers) /\ \A n : Stored(n)' = Stored(n)
  BY <1>1 DEF Running, Stored
<1>3. VerdictHolds'
  BY <1>1 DEF VerdictInv, VerdictHolds
<1>4. ASSUME NEW q \in Procs PROVE ReaderInv(q, pc[q], job[q])'
  <2>1. PICK k, s : k = job[q] /\ s = pc[q]
    OBVIOUS
  <2>2. ReaderInv(q, s, k)
    BY <2>1 DEF VerdictInv
  <2>3. ReaderInv(q, s, k)'
    BY <1>1, <1>2, <2>2 DEF ReaderInv
  <2>4. QED
    BY <1>1, <2>1, <2>3
<1>5. QED
  BY <1>1, <1>3, <1>4 DEF VerdictInv

THEOREM VerdictIsSound == Spec => []VerdictInv
<1>1. Init => VerdictInv
  <2>1. SUFFICES ASSUME Init PROVE VerdictInv
    OBVIOUS
  <2>2. verdict = None /\ \A q \in Procs : pc[q] = "idle"
    BY <2>1 DEF Init
  <2>3. \A q \in Procs : ReaderInv(q, pc[q], job[q])
    BY <2>2 DEF ReaderInv, VerifySteps
  <2>4. QED
    BY <2>1, <2>2, <2>3, InitHealth DEF VerdictInv, VerdictHolds
<1>2. VerdictInv /\ [Next]_vars /\ HealthInv' => VerdictInv'
  BY StepVerdict, StutterVerdict
<1>3. QED
  BY <1>1, <1>2, HealthIsSound, PTL DEF Spec

(* verify-history without a lock (run_verify_history): it accepts only a   *)
(* head that stays in its numbered file, and it refuses only a ledger that *)
(* a writer was at, or that a killed or failed command left.               *)
THEOREM VerdictsHold == Spec => []VerdictHolds
<1>1. VerdictInv => VerdictHolds
  BY DEF VerdictInv
<1>2. QED
  BY <1>1, VerdictIsSound, PTL

-----------------------------------------------------------------------------
(***************************************************************************)
(* The proofs of inclusion and consistency that the tool writes hold: for  *)
(* every log, of every length up to MaxSize, and every head published.     *)
(*                                                                         *)
(* A head that was ever published has the root of a log, also one that a   *)
(* forced init has removed, and a proof that was written is that of a leaf *)
(* or a prefix of a log (EvidenceInv). What such a proof is worth is what  *)
(* MerkleTreeProofs says of roots and paths.                               *)
(***************************************************************************)
(* The theorems about the tree. *)
M == INSTANCE MerkleTreeProofs WITH Leaves <- Entry

(* A head has the root of a log. *)
HasLog(h) == \E log \in Logs : h.size = Len(log) /\ h.root = merkle_root[log]

PublishedHaveLogs == \A h \in published : HasLog(h)

NewHasLog(step, j) == step \in {"previous", "latest"} => HasLog(j.new)

InclusionOf(log, i) ==
    [kind |-> "inclusion", size |-> Len(log), index |-> i, leaf |-> Leaf(log[i + 1]),
     root |-> merkle_root[log], path |-> inclusion_path[log][i]]

ConsistencyOf(log, m) ==
    [kind |-> "consistency", first |-> m, firstRoot |-> merkle_root[Before(log, m)],
     second |-> Len(log), secondRoot |-> merkle_root[log],
     path |-> consistency_path[log][m][TRUE]]

(* A proof that was written is that of a leaf or a prefix of some log.     *)
ProofOfLog ==
    \/ proof = None
    \/ \E log \in Logs :
        \/ \E i \in 0 .. Len(log) - 1 : proof = InclusionOf(log, i)
        \/ \E m \in 0 .. Len(log) : proof = ConsistencyOf(log, m)

EvidenceInv ==
    /\ LedgerInv /\ PublishedHaveLogs /\ ProofOfLog
    /\ \A p \in Procs : NewHasLog(pc[p], job[p])

-----------------------------------------------------------------------------
(* The tree of this module and that of the theorems about it are one.      *)
LEMMA SameTree ==
    /\ M!merkle_root = merkle_root
    /\ M!inclusion_path = inclusion_path
    /\ M!consistency_path = consistency_path
    /\ \A leaf, i, n, path :
           M!root_from_inclusion(leaf, i, n, path) = root_from_inclusion(leaf, i, n, path)
    /\ \A m, n, root, path :
           M!consistency_roots_from_proof(m, n, root, path) =
               consistency_roots_from_proof(m, n, root, path)
    /\ \A e : M!Leaf(e) = Leaf(e)
    /\ \A s, k : M!Before(s, k) = Before(s, k)
BY DEF M!merkle_root, merkle_root, M!inclusion_path, inclusion_path, M!consistency_path,
       consistency_path, M!root_from_inclusion, root_from_inclusion, M!inclusion_roots,
       inclusion_roots, M!consistency_roots_from_proof, consistency_roots_from_proof,
       M!consistency_roots, consistency_roots, M!TooShort, TooShort, M!Node, Node,
       M!NoHash, NoHash, M!Leaf, Leaf, M!EmptyRoot, EmptyRoot, M!Before, Before, M!From, From,
       M!split_power, split_power, M!highest_bit, highest_bit

LEMMA LogsAreTyped ==
    \A log \in Logs : log \in Seq(Entry) /\ Len(log) \in Sizes /\ Len(log) \in Nat
<1>1. SUFFICES ASSUME NEW n \in Sizes, NEW s \in [1 .. n -> Bundles]
               PROVE  /\ LogOf(s) \in Seq(Entry) /\ Len(LogOf(s)) \in Sizes
                      /\ Len(LogOf(s)) \in Nat
  BY DEF Logs
<1>2. n \in Nat /\ s \in Seq(Bundles) /\ Len(s) = n /\ \A i \in 1 .. n : i - 1 \in Positions
  <2>1. n \in Nat /\ \A i \in 1 .. n : i - 1 \in Positions
    BY BoundTypes
  <2> QED BY <2>1, SeqDef, LenProperties
<1>3. LogOf(s) = [i \in 1 .. n |-> [sequence |-> i - 1, bundle |-> s[i]]]
  BY <1>2 DEF LogOf
<1>4. LogOf(s) \in [1 .. n -> Entry]
  BY <1>2, <1>3 DEF Entry
<1> QED BY <1>2, <1>4, SeqDef, LenProperties

(* Two logs with one root are one. *)
LEMMA OneLog == \A s, t \in Logs : merkle_root[s] = merkle_root[t] => s = t
BY LogsAreTyped, SameTree, M!RootFixesLog

LEMMA LogUnderIs ==
    ASSUME NEW h, NEW log \in Logs, h.size = Len(log), h.root = merkle_root[log]
    PROVE  LogUnder(h) = log
<1>1. \E l \in Logs : Len(l) = h.size /\ merkle_root[l] = h.root
  OBVIOUS
<1>2. LogUnder(h) \in Logs /\ merkle_root[LogUnder(h)] = h.root
  BY <1>1 DEF LogUnder
<1> QED BY <1>2, OneLog

LEMMA CoveredHasLog ==
    ASSUME LedgerInv, NEW h \in HeadType, Covered(h) PROVE HasLog(h)
<1>1. PICK n \in Sizes : n = h.size
  BY DEF HeadType
<1>2. n \in Nat /\ Stored(n) \in Logs
  BY <1>1, BoundTypes, StoredTyped DEF LedgerInv, Covered
<1>3. Len(Stored(n)) = n
  BY <1>2, LenProperties DEF Stored
<1> QED BY <1>1, <1>2, <1>3 DEF HasLog, Covered, RootFor

LEMMA InclusionUnique ==
    ASSUME NEW log \in Logs, NEW i \in Nat, NEW leaf, NEW H, NEW path \in Seq(H)
    PROVE  root_from_inclusion(leaf, i, Len(log), path) = merkle_root[log] <=>
               i < Len(log) /\ leaf = Leaf(log[i + 1]) /\ path = inclusion_path[log][i]
<1>1. log \in Seq(Entry)
  BY LogsAreTyped
<1>2. M!root_from_inclusion(leaf, i, Len(log), path) = M!merkle_root[log] <=>
          i < Len(log) /\ leaf = M!Leaf(log[i + 1]) /\ path = M!inclusion_path[log][i]
  BY <1>1, M!InclusionPathUnique
<1> QED BY <1>2, SameTree

LEMMA ConsistencyUnique ==
    ASSUME NEW log \in Logs, NEW m \in Nat, 0 < m, m <= Len(log),
           NEW root, NEW H, NEW path \in Seq(H)
    PROVE  M!RootsAgree(m, Len(log), root, merkle_root[log], path) <=>
               M!ProvesPrefix(log, m, root, path)
<1>1. PICK s \in Seq(Entry) : s = log
  BY LogsAreTyped
<1>2. 0 < m /\ m <= Len(s)
  BY <1>1
<1>3. M!RootsAgree(m, Len(s), root, M!merkle_root[s], path) <=> M!ProvesPrefix(s, m, root, path)
  BY <1>2, M!ConsistencyPathUnique
<1> QED BY <1>1, <1>3, SameTree

LEMMA ProvingPrefix ==
    \A log, m, root, path :
        M!ProvesPrefix(log, m, root, path) <=>
            root = merkle_root[Before(log, m)] /\ path = consistency_path[log][m][TRUE]
BY SameTree DEF M!ProvesPrefix

(* The paths of the proofs are sequences, and so is what they are altered  *)
(* into.                                                                   *)
LEMMA PathsAreTyped ==
    \A log \in Logs :
        /\ \A i \in Nat : i < Len(log) => inclusion_path[log][i] \in Seq(M!Hashes)
        /\ \A m \in Nat : 0 < m /\ m <= Len(log) => consistency_path[log][m][TRUE] \in Seq(M!Hashes)
<1>1. TRUE \in BOOLEAN
  OBVIOUS
<1> QED BY <1>1, LogsAreTyped, SameTree, M!InclusionPathTyped, M!ConsistencyPathTyped

Alters(path, hashes, other) ==
    \/ \E j \in 0 .. Len(path) : other = SubSeq(path, 1, j)
    \/ other = SubSeq(path, 2, Len(path))
    \/ \E h \in hashes : other = Append(path, h)
    \/ \E j \in 1 .. Len(path), h \in hashes : other = [path EXCEPT ![j] = h]

LEMMA AlteredPath ==
    ASSUME NEW path, NEW other \in Altered(path), NEW hashes,
           hashes = {path[j] : j \in 1 .. Len(path)} \cup {EmptyRoot, Leaf(entries[0])}
    PROVE  other # path /\ Alters(path, hashes, other)
<1>1. PICK A : A = {SubSeq(path, 1, j) : j \in 0 .. Len(path)}
  OBVIOUS
<1>2. PICK B : B = {Append(path, h) : h \in hashes}
  OBVIOUS
<1> DEFINE C == {[path EXCEPT ![j] = h] : j \in 1 .. Len(path), h \in hashes}
<1>4. Altered(path) = (A \cup {SubSeq(path, 2, Len(path))} \cup B \cup C) \ {path}
  BY <1>1, <1>2 DEF Altered
<1>5. \A x \in A : \E j \in 0 .. Len(path) : x = SubSeq(path, 1, j)
  BY <1>1
<1>6. \A x \in B : \E h \in hashes : x = Append(path, h)
  BY <1>2
<1>7. \A x \in C : \E j \in 1 .. Len(path), h \in hashes : x = [path EXCEPT ![j] = h]
  OBVIOUS
<1> HIDE DEF C
<1>8. /\ other # path
      /\ other \in A \/ other = SubSeq(path, 2, Len(path)) \/ other \in B \/ other \in C
  BY <1>4
<1> QED BY <1>5, <1>6, <1>7, <1>8 DEF Alters

LEMMA AlteredIsTyped ==
    ASSUME NEW H, NEW path \in Seq(H)
    PROVE  \E K : path \in Seq(K) /\ \A other \in Altered(path) : other \in Seq(K) /\ other # path
<1> DEFINE K == H \cup {EmptyRoot, Leaf(entries[0])}
<1>1. path \in Seq(K) /\ Len(path) \in Nat /\ \A j \in 1 .. Len(path) : path[j] \in K
  BY SeqMonotonic, LenProperties, ElementOfSeq
<1>2. {path[j] : j \in 1 .. Len(path)} \cup {EmptyRoot, Leaf(entries[0])} \subseteq K
  BY <1>1
<1> HIDE DEF K
<1>3. ASSUME NEW j \in 0 .. Len(path) PROVE SubSeq(path, 1, j) \in Seq(K)
  <2>1. \A i \in 1 .. j : path[i] \in K
    BY <1>1
  <2> QED BY <2>1, SubSeqProperties
<1>4. SubSeq(path, 2, Len(path)) \in Seq(K)
  <2>1. \A i \in 2 .. Len(path) : path[i] \in K
    BY <1>1
  <2>2. 2 \in Int /\ Len(path) \in Int
    BY <1>1
  <2> QED BY <2>1, <2>2, SubSeqProperties
<1>5. ASSUME NEW h \in K PROVE Append(path, h) \in Seq(K)
  BY <1>1, AppendProperties
<1>6. ASSUME NEW h \in K, NEW j \in 1 .. Len(path) PROVE [path EXCEPT ![j] = h] \in Seq(K)
  BY <1>1, ExceptSeq
<1>7. ASSUME NEW other \in Altered(path) PROVE other \in Seq(K) /\ other # path
  <2>1. PICK hashes : hashes = {path[j] : j \in 1 .. Len(path)} \cup {EmptyRoot, Leaf(entries[0])}
    OBVIOUS
  <2>2. other # path /\ Alters(path, hashes, other)
    BY <1>7, <2>1, AlteredPath
  <2>3. hashes \subseteq K
    BY <1>2, <2>1
  <2> QED BY <1>3, <1>4, <1>5, <1>6, <2>2, <2>3 DEF Alters
<1> QED BY <1>1, <1>7

-----------------------------------------------------------------------------
(* What the checks come to on the proofs that are written. *)
LEMMA Agreeing ==
    \A first, second, firstRoot, secondRoot, path :
        M!RootsAgree(first, second, firstRoot, secondRoot, path) <=>
            LET result == consistency_roots_from_proof(first, second, firstRoot, path)
            IN  result.old = firstRoot /\ result.new = secondRoot
BY SameTree DEF M!RootsAgree

LEMMA VerifyingConsistency ==
    ASSUME NEW q, q.first \in Nat, q.first > 0
    PROVE  verify_consistency(q) <=>
               /\ q.first <= q.second
               /\ q.first = q.second => q.path = <<>> /\ q.secondRoot = q.firstRoot
               /\ M!RootsAgree(q.first, q.second, q.firstRoot, q.secondRoot, q.path)
BY Agreeing DEF verify_consistency

LEMMA InclusionHolds ==
    ASSUME EvidenceInv PROVE InclusionProofsHold
<1>1. SUFFICES ASSUME proof # None, proof.kind = "inclusion",
                      NEW h \in published, NEW i \in Positions, Readable(entries[i])
               PROVE  /\ verify_inclusion(entries[i], proof, h)
                         <=> /\ h.size = proof.size /\ i = proof.index
                             /\ LogUnder(h) = LogUnder(proof)
                             /\ LogUnder(h)[i + 1] = entries[i]
                      /\ \A path \in Altered(proof.path) :
                             ~verify_inclusion(entries[i], [proof EXCEPT !.path = path], h)
  BY DEF InclusionProofsHold
<1>2. PICK log \in Logs : \/ \E k \in 0 .. Len(log) - 1 : proof = InclusionOf(log, k)
                          \/ \E m \in 0 .. Len(log) : proof = ConsistencyOf(log, m)
  BY <1>1 DEF EvidenceInv, ProofOfLog
<1>3. PICK k \in 0 .. Len(log) - 1 : proof = InclusionOf(log, k)
  <2>1. \A m : ConsistencyOf(log, m).kind = "consistency"
    BY DEF ConsistencyOf
  <2> QED BY <1>1, <1>2, <2>1
<1>4. /\ proof.size = Len(log) /\ proof.index = k /\ proof.leaf = Leaf(log[k + 1])
      /\ proof.root = merkle_root[log] /\ proof.path = inclusion_path[log][k]
  BY <1>3 DEF InclusionOf
<1>5. k \in Nat /\ k < Len(log) /\ Len(log) \in Nat
  BY LogsAreTyped
<1>6. PICK lh \in Logs : h.size = Len(lh) /\ h.root = merkle_root[lh]
  BY <1>1 DEF EvidenceInv, PublishedHaveLogs, HasLog
<1>7. LogUnder(h) = lh /\ LogUnder(proof) = log
  BY <1>4, <1>6, LogUnderIs
<1>8. h.root = merkle_root[log] <=> lh = log
  BY <1>6, OneLog
<1>9. PICK e : e = entries[i]
  OBVIOUS
<1>10. e.sequence = i
  BY <1>1, <1>9 DEF EvidenceInv, LedgerInv, InPlace
<1>11. PICK good \in Seq(M!Hashes) : good = inclusion_path[log][k]
  BY <1>5, PathsAreTyped
<1>12. root_from_inclusion(Leaf(e), k, Len(log), good) = merkle_root[log] <=>
           Leaf(e) = Leaf(log[k + 1])
  BY <1>5, <1>11, InclusionUnique
<1>13. Leaf(e) = Leaf(log[k + 1]) <=> e = log[k + 1]
  BY DEF Leaf
<1>14. verify_inclusion(e, proof, h) <=> i = k /\ h.size = Len(log) /\ lh = log /\ e = log[k + 1]
  BY <1>4, <1>8, <1>10, <1>11, <1>12, <1>13 DEF verify_inclusion
<1>15. ASSUME NEW path \in Altered(good) PROVE ~verify_inclusion(e, [proof EXCEPT !.path = path], h)
  <2>1. PICK K : path \in Seq(K) /\ path # good
    BY AlteredIsTyped
  <2>2. root_from_inclusion(Leaf(e), k, Len(log), path) # merkle_root[log]
    BY <1>5, <1>11, <2>1, InclusionUnique
  <2>3. PICK q : q = [proof EXCEPT !.path = path]
    OBVIOUS
  <2>4. q.index = k /\ q.size = Len(log) /\ q.root = merkle_root[log] /\ q.path = path
    BY <1>3, <2>3 DEF InclusionOf
  <2> QED BY <2>2, <2>3, <2>4 DEF verify_inclusion
<1> QED BY <1>4, <1>6, <1>7, <1>9, <1>11, <1>14, <1>15

(* An empty first tree, and a first tree that is the second. *)
LEMMA ConsistencyEnds ==
    ASSUME NEW log \in Logs
    PROVE  /\ consistency_path[log][0][TRUE] = <<>> /\ merkle_root[Before(log, 0)] = EmptyRoot
           /\ Len(log) = 0 => merkle_root[log] = EmptyRoot
           /\ Len(log) > 0 => consistency_path[log][Len(log)][TRUE] = <<>>
           /\ Before(log, Len(log)) = log
<1>1. PICK s \in Seq(Entry) : s = log
  BY LogsAreTyped
<1>2. M!consistency_path[s] = M!ConsistencyBody(M!consistency_path, s, 0, 0)
  BY M!ConsistencyUnfolds
<1>3. Len(s) \in Nat /\ 0 \in 0 .. Len(s) /\ TRUE \in BOOLEAN
  BY LenProperties
<1>4. M!consistency_path[s][0][TRUE] = <<>>
  BY <1>2, <1>3 DEF M!ConsistencyBody
<1>5. M!merkle_root[<<>>] = M!EmptyRoot /\ <<>> \in Seq(Entry)
  <2>1. <<>> \in Seq(Entry)
    BY EmptySeq
  <2>2. M!merkle_root[<<>>] = M!RootBody(M!merkle_root, <<>>, 0, 0)
    BY <2>1, M!RootUnfolds
  <2> QED BY <2>1, <2>2 DEF M!RootBody
<1>6. Before(s, 0) = <<>> /\ Before(s, Len(s)) = s /\ (Len(s) = 0 => s = <<>>)
  BY <1>3, SubSeqFull, EmptySeq DEF Before
<1>7. ASSUME Len(s) > 0 PROVE M!consistency_path[s][Len(s)][TRUE] = <<>>
  <2>1. PICK m \in Nat : m = Len(s) /\ 0 < m /\ m <= Len(s)
    BY <1>3, <1>7
  <2>2. m = Len(s) => M!consistency_path[s][m][TRUE] =
                          IF TRUE THEN <<>> ELSE <<M!merkle_root[s]>>
    BY <1>3, <2>1, M!ConsistencySteps
  <2> QED BY <2>1, <2>2
<1> QED BY <1>1, <1>4, <1>5, <1>6, <1>7, SameTree DEF EmptyRoot, M!EmptyRoot

LEMMA ConsistencyHolds ==
    ASSUME EvidenceInv PROVE ConsistencyProofsHold
<1>1. SUFFICES ASSUME proof # None, proof.kind = "consistency"
               PROVE  /\ verify_consistency(proof)
                      /\ proof.first > 0 =>
                          /\ \A a, b \in published :
                              /\ a.size = proof.first /\ b.size = proof.second
                              /\ verify_consistency([proof EXCEPT !.firstRoot = a.root,
                                                                  !.secondRoot = b.root])
                              => LogUnder(a) = SubSeq(LogUnder(b), 1, a.size)
                          /\ \A path \in Altered(proof.path) :
                              ~verify_consistency([proof EXCEPT !.path = path])
  BY DEF ConsistencyProofsHold
<1>2. PICK log \in Logs : \/ \E k \in 0 .. Len(log) - 1 : proof = InclusionOf(log, k)
                          \/ \E m \in 0 .. Len(log) : proof = ConsistencyOf(log, m)
  BY <1>1 DEF EvidenceInv, ProofOfLog
<1>3. PICK m \in 0 .. Len(log) : proof = ConsistencyOf(log, m)
  <2>1. \A k : InclusionOf(log, k).kind = "inclusion"
    BY DEF InclusionOf
  <2> QED BY <1>1, <1>2, <2>1
<1>4. /\ proof.first = m /\ proof.firstRoot = merkle_root[Before(log, m)]
      /\ proof.second = Len(log) /\ proof.secondRoot = merkle_root[log]
      /\ proof.path = consistency_path[log][m][TRUE]
  BY <1>3 DEF ConsistencyOf
<1>5. m \in Nat /\ m <= Len(log) /\ Len(log) \in Nat
  BY LogsAreTyped
<1>6. CASE m = 0
  <2>1. verify_consistency(proof)
    BY <1>4, <1>6, ConsistencyEnds DEF verify_consistency
  <2> QED BY <1>4, <1>6, <2>1
<1>7. CASE m > 0
  <2>0. PICK r : r = merkle_root[Before(log, m)]
    OBVIOUS
  <2>1. PICK good \in Seq(M!Hashes) : good = consistency_path[log][m][TRUE]
    BY <1>5, <1>7, PathsAreTyped
  <2>2. verify_consistency(proof)
    <3>1. M!RootsAgree(m, Len(log), r, merkle_root[log], good)
      <4>1. M!ProvesPrefix(log, m, r, good)
        BY <2>0, <2>1, ProvingPrefix
      <4> QED BY <1>5, <1>7, <2>1, <4>1, ConsistencyUnique
    <3>2. m = Len(log) => good = <<>> /\ Before(log, m) = log
      BY <1>7, <2>1, ConsistencyEnds
    <3> QED BY <1>4, <1>5, <1>7, <2>0, <2>1, <3>1, <3>2, VerifyingConsistency
  <2>3. ASSUME NEW a \in published, NEW b \in published, a.size = m, b.size = Len(log),
               verify_consistency([proof EXCEPT !.firstRoot = a.root, !.secondRoot = b.root])
        PROVE  LogUnder(a) = SubSeq(LogUnder(b), 1, a.size)
    <3>1. PICK la \in Logs : a.size = Len(la) /\ a.root = merkle_root[la]
      BY DEF EvidenceInv, PublishedHaveLogs, HasLog
    <3>2. PICK lb \in Logs : b.size = Len(lb) /\ b.root = merkle_root[lb]
      BY DEF EvidenceInv, PublishedHaveLogs, HasLog
    <3>3. PICK q : q = [proof EXCEPT !.firstRoot = a.root, !.secondRoot = b.root]
      OBVIOUS
    <3>4. /\ q.first = m /\ q.second = Len(log) /\ q.firstRoot = a.root
          /\ q.secondRoot = b.root /\ q.path = good
      BY <1>3, <2>1, <3>3 DEF ConsistencyOf
    <3>5. M!RootsAgree(m, Len(lb), merkle_root[la], merkle_root[lb], good)
      BY <1>5, <1>7, <2>3, <3>1, <3>2, <3>3, <3>4, VerifyingConsistency
    <3>6. merkle_root[la] = merkle_root[Before(lb, m)]
      <4>1. PICK ra : ra = merkle_root[la]
        OBVIOUS
      <4>2. M!ProvesPrefix(lb, m, ra, good)
        BY <1>5, <1>7, <2>1, <2>3, <3>2, <3>5, <4>1, ConsistencyUnique
      <4> QED BY <4>1, <4>2, ProvingPrefix
    <3>7. la = Before(lb, m)
      <4>1. Before(lb, m) \in Seq(Entry) /\ la \in Seq(Entry)
        <5>1. lb \in Seq(Entry) /\ la \in Seq(Entry) /\ m <= Len(lb)
          BY <1>5, <2>3, <3>2, LogsAreTyped
        <5>2. \A j \in 1 .. m : lb[j] \in Entry
          BY <1>5, <5>1, ElementOfSeq
        <5> QED BY <1>5, <5>1, <5>2, SubSeqProperties DEF Before
      <4> QED BY <3>6, <4>1, SameTree, M!RootFixesLog
    <3>8. LogUnder(a) = la /\ LogUnder(b) = lb
      BY <3>1, <3>2, LogUnderIs
    <3> QED BY <2>3, <3>7, <3>8 DEF Before
  <2>4. ASSUME NEW path \in Altered(good) PROVE ~verify_consistency([proof EXCEPT !.path = path])
    <3>1. PICK K : path \in Seq(K) /\ path # good
      BY AlteredIsTyped
    <3>2. ~M!RootsAgree(m, Len(log), r, merkle_root[log], path)
      <4>1. ~M!ProvesPrefix(log, m, r, path)
        BY <2>1, <3>1, ProvingPrefix
      <4> QED BY <1>5, <1>7, <3>1, <4>1, ConsistencyUnique
    <3>3. PICK q : q = [proof EXCEPT !.path = path]
      OBVIOUS
    <3>4. /\ q.first = m /\ q.second = Len(log) /\ q.firstRoot = r
          /\ q.secondRoot = merkle_root[log] /\ q.path = path
      BY <1>3, <2>0, <3>3 DEF ConsistencyOf
    <3> QED BY <1>5, <1>7, <3>2, <3>3, <3>4, VerifyingConsistency
  <2> QED BY <1>4, <2>1, <2>2, <2>3, <2>4
<1>8. m = 0 \/ m > 0
  BY <1>5
<1> QED BY <1>6, <1>7, <1>8, Zenon

-----------------------------------------------------------------------------
(* The invariant is one of every step. *)
LEMMA InitEvidence == Init => EvidenceInv
<1>1. SUFFICES ASSUME Init PROVE EvidenceInv
  OBVIOUS
<1>2. LedgerInv
  BY <1>1, InitLedger
<1>3. ~forced /\ proof = None /\ pc = [p \in Procs |-> "idle"]
  BY <1>1 DEF Init
<1>4. ASSUME NEW h \in published PROVE HasLog(h)
  <2>1. h \in HeadType
    BY <1>2 DEF LedgerInv, TypeOK
  <2>2. Covered(h)
    BY <1>2, <1>3 DEF LedgerInv, PublishedStaysCovered, Covered
  <2> QED BY <1>2, <2>1, <2>2, CoveredHasLog
<1>5. \A p \in Procs : NewHasLog(pc[p], job[p])
  BY <1>3 DEF NewHasLog
<1> QED BY <1>2, <1>3, <1>4, <1>5 DEF EvidenceInv, PublishedHaveLogs, ProofOfLog

LEMMA EmptyHasLog == HasLog(init_head)
<1>1. Len(<<>>) = 0
  OBVIOUS
<1> QED BY <1>1, EmptyTyped DEF HasLog

LEMMA EvidenceStep ==
    ASSUME EvidenceInv, LedgerInv', NEW p \in Procs, NEW step, NEW j, Goto(p, step, j),
           NewHasLog(step, j), \A h \in published' : h \in published \/ HasLog(h), ProofOfLog'
    PROVE  EvidenceInv'
<1>1. pc \in [Procs -> Steps] /\ job \in [Procs -> Jobs]
  BY DEF EvidenceInv, LedgerInv, TypeOK
<1>2. /\ pc'[p] = step /\ job'[p] = j
      /\ \A q \in Procs \ {p} : pc'[q] = pc[q] /\ job'[q] = job[q]
  BY <1>1 DEF Goto
<1>3. \A q \in Procs : NewHasLog(pc'[q], job'[q])
  BY <1>2 DEF EvidenceInv
<1>4. \A h \in published' : HasLog(h)
  BY DEF EvidenceInv, PublishedHaveLogs
<1>5. (\A q \in Procs : NewHasLog(pc[q], job[q]))' /\ PublishedHaveLogs'
  BY <1>3, <1>4 DEF NewHasLog, HasLog, PublishedHaveLogs
<1> QED BY <1>5 DEF EvidenceInv

LEMMA SameProof == ASSUME EvidenceInv, UNCHANGED proof PROVE ProofOfLog'
BY DEF EvidenceInv, ProofOfLog, InclusionOf, ConsistencyOf

(* A step that makes no head and no proof. *)
LEMMA PlainStep ==
    ASSUME EvidenceInv, LedgerInv', NEW p \in Procs, NEW step, NEW j, Goto(p, step, j),
           step \notin {"previous", "latest"}, published' \subseteq published \cup {init_head},
           UNCHANGED proof
    PROVE  EvidenceInv'
<1>1. NewHasLog(step, j)
  BY DEF NewHasLog
<1>2. \A h \in published' : h \in published \/ HasLog(h)
  BY EmptyHasLog
<1> QED BY <1>1, <1>2, SameProof, EvidenceStep

PlainlyGoes(p) ==
    /\ \E step, j : Goto(p, step, j) /\ step \notin {"previous", "latest"}
    /\ published' \subseteq published \cup {init_head} /\ UNCHANGED proof

LEMMA PlainCommands ==
    ASSUME NEW p \in Procs,
           \/ InitCommand(p)
           \/ TakeLock(p) \/ ReadHead(p) \/ ListEntries(p) \/ WriteEntry(p)
           \/ ReplaceLatestEntry(p) \/ WriteNumbered(p) \/ Unlock(p) \/ Fail(p) \/ Die(p)
           \/ StartVerify(p) \/ VerifyHead(p) \/ VerifyEntries(p) \/ VerifyHeads(p)
           \/ VerifyPrevious(p) \/ VerifyLatestEntry(p)
           \/ StartProveInclusion(p) \/ InclusionHead(p)
    PROVE  PlainlyGoes(p)
<1> USE DEF PlainlyGoes, Stop, outputs, history
<1>1. InitCommand(p) => PlainlyGoes(p)
  BY DEF InitCommand, StartInit, StartForcedInit, CheckEmpty, MakeDirs, WriteEmptyHead,
         WriteNumberedEmptyHead
<1>2. ReadHead(p) \/ ListEntries(p) => PlainlyGoes(p)
  BY DEF ReadHead, ListEntries
<1>3. ASSUME TakeLock(p) PROVE PlainlyGoes(p)
  <2>1. PICK b : Goto(p, "head", [NoJob EXCEPT !.bundle = b])
    BY <1>3 DEF TakeLock
  <2>2. UNCHANGED <<published, proof>>
    BY <1>3 DEF TakeLock
  <2>3. PICK j : Goto(p, "head", j)
    BY <2>1
  <2> QED BY <2>2, <2>3
<1>4. WriteEntry(p) \/ ReplaceLatestEntry(p) \/ WriteNumbered(p) \/ Unlock(p) => PlainlyGoes(p)
  BY DEF WriteEntry, ReplaceLatestEntry, WriteNumbered, Unlock
<1>5. Fail(p) \/ Die(p) => PlainlyGoes(p)
  BY DEF Fail, Die
<1>6. StartVerify(p) \/ InclusionHead(p) => PlainlyGoes(p)
  BY DEF StartVerify, InclusionHead
<1>7. ASSUME StartProveInclusion(p) PROVE PlainlyGoes(p)
  <2>1. PICK i : Goto(p, "iHead", [NoJob EXCEPT !.sequence = i])
    BY <1>7 DEF StartProveInclusion
  <2>2. UNCHANGED <<published, proof>>
    BY <1>7 DEF StartProveInclusion
  <2>3. PICK j : Goto(p, "iHead", j)
    BY <2>1
  <2> QED BY <2>2, <2>3
<1>8. VerifyHead(p) \/ VerifyEntries(p) => PlainlyGoes(p)
  BY DEF VerifyHead, VerifyEntries, Say
<1>9. VerifyHeads(p) => PlainlyGoes(p)
  BY DEF VerifyHeads, Say
<1>10. VerifyPrevious(p) \/ VerifyLatestEntry(p) => PlainlyGoes(p)
  BY DEF VerifyPrevious, VerifyLatestEntry, Say
<1> HIDE DEF PlainlyGoes, Stop, outputs, history
<1> QED BY <1>1, <1>2, <1>3, <1>4, <1>5, <1>6, <1>7, <1>8, <1>9, <1>10

LEMMA LoadedLog ==
    ASSUME LedgerInv, NEW n \in Sizes, Loads(n)
    PROVE  Stored(n) \in Logs /\ Len(Stored(n)) = n /\ RootFor(n) = merkle_root[Stored(n)]
<1>1. \A i \in 0 .. n - 1 : Readable(entries[i])
  <2>1. 0 .. n - 1 \subseteq {i \in DOMAIN entries : entries[i] # None}
    BY DEF Loads, Listed
  <2> QED BY <2>1 DEF Loads, Readable
<1>2. n \in Nat
  BY BoundTypes
<1>3. Len(Stored(n)) = n
  BY <1>2, LenProperties DEF Stored
<1> QED BY <1>1, <1>3, StoredTyped DEF LedgerInv, RootFor

LEMMA ComputeRootEvidence ==
    ASSUME EvidenceInv, LedgerInv', NEW p \in Procs, ComputeRoot(p) PROVE EvidenceInv'
<1>1. UNCHANGED <<published, proof>> /\ pc[p] = "root" /\ LedgerInv
  BY DEF ComputeRoot, outputs, history, EvidenceInv
<1>2. CASE /\ Loads(job[p].head.size + 1)
           /\ Goto(p, "previous",
                   [job[p] EXCEPT !.new = HeadAfter(job[p].head, NewEntry(p))])
  <2>1. PICK new : new = HeadAfter(job[p].head, NewEntry(p))
    OBVIOUS
  <2>2. PICK j : j = [job[p] EXCEPT !.new = new]
    OBVIOUS
  <2>3. new \in HeadType /\ Covered(new)
    BY <1>1, <1>2, <2>1, HeadAfterTyped
  <2>4. HasLog(new)
    BY <1>1, <2>3, CoveredHasLog
  <2>5. j.new = new
    BY <1>1, <2>2, <2>3, JobOf, JobUpdates
  <2>6. NewHasLog("previous", j) /\ Goto(p, "previous", j)
    BY <1>2, <2>1, <2>2, <2>4, <2>5 DEF NewHasLog
  <2>7. \A h \in published' : h \in published \/ HasLog(h)
    BY <1>1
  <2> QED BY <1>1, <2>6, <2>7, SameProof, EvidenceStep
<1>3. CASE Goto(p, "unlock", job[p])
  BY <1>1, <1>3, PlainStep
<1> QED BY <1>2, <1>3 DEF ComputeRoot

LEMMA ReplaceHeadsEvidence ==
    ASSUME EvidenceInv, LedgerInv', NEW p \in Procs, ReplacePrevious(p) \/ ReplaceLatest(p)
    PROVE  EvidenceInv'
<1>1. PICK j : j = job[p]
  OBVIOUS
<1>2. HasLog(j.new) /\ UNCHANGED proof
  BY <1>1 DEF EvidenceInv, NewHasLog, ReplacePrevious, ReplaceLatest, outputs
<1>3. CASE ReplacePrevious(p)
  <2>1. Goto(p, "latest", j) /\ UNCHANGED published
    BY <1>1, <1>3 DEF ReplacePrevious, history
  <2>2. NewHasLog("latest", j) /\ \A h \in published' : h \in published \/ HasLog(h)
    BY <1>2, <2>1 DEF NewHasLog
  <2> QED BY <1>2, <2>1, <2>2, SameProof, EvidenceStep
<1>4. CASE ReplaceLatest(p)
  <2>1. Goto(p, "numbered", j) /\ published' = published \cup {j.new}
    BY <1>1, <1>4 DEF ReplaceLatest
  <2>2. NewHasLog("numbered", j) /\ \A h \in published' : h \in published \/ HasLog(h)
    BY <1>2, <2>1 DEF NewHasLog
  <2> QED BY <1>2, <2>1, <2>2, SameProof, EvidenceStep
<1> QED BY <1>3, <1>4

LEMMA ProveInclusionEvidence ==
    ASSUME EvidenceInv, LedgerInv', NEW p \in Procs, ProveInclusion(p) PROVE EvidenceInv'
<1>1. /\ UNCHANGED published /\ pc[p] = "iEntries" /\ LedgerInv
      /\ Goto(p, "idle", NoJob)
  BY DEF ProveInclusion, history, EvidenceInv, Stop
<1>2. PICK n : n = job[p].head.size
  OBVIOUS
<1>3. PICK i : i = job[p].sequence
  OBVIOUS
<1>4. n \in Sizes /\ n \in Nat /\ i \in Nat
  BY <1>1, <1>2, <1>3, JobOf, BoundTypes DEF JobInv, HasHead, HeadType, Jobs
<1>5. ASSUME UNCHANGED proof PROVE ProofOfLog'
  BY <1>5, SameProof
<1>6. ASSUME Loads(n), i < n, proof' = InclusionProof(i, n) PROVE ProofOfLog'
  <2>1. PICK log \in Logs : log = Stored(n) /\ Len(log) = n /\ RootFor(n) = merkle_root[log]
    BY <1>1, <1>4, <1>6, LoadedLog
  <2>2. log[i + 1] = entries[i] /\ i \in 0 .. Len(log) - 1
    BY <1>4, <1>6, <2>1 DEF Stored
  <2>3. InclusionProof(i, n) = InclusionOf(log, i)
    BY <2>1, <2>2 DEF InclusionProof, InclusionOf
  <2> QED BY <1>6, <2>2, <2>3 DEF ProofOfLog, InclusionOf
<1>7. ProofOfLog'
  BY <1>2, <1>3, <1>5, <1>6 DEF ProveInclusion
<1>8. NewHasLog("idle", NoJob) /\ \A h \in published' : h \in published \/ HasLog(h)
  BY <1>1 DEF NewHasLog
<1> QED BY <1>1, <1>7, <1>8, EvidenceStep

LEMMA ProveConsistencyEvidence ==
    ASSUME EvidenceInv, LedgerInv', NEW p \in Procs, ProveConsistency(p) PROVE EvidenceInv'
<1>1. UNCHANGED <<pc, job, published>> /\ LedgerInv
  BY DEF ProveConsistency, history, EvidenceInv
<1>2. PICK a \in published, b \in published :
          /\ a.size <= b.size /\ Loads(b.size)
          /\ RootFor(a.size) = a.root /\ RootFor(b.size) = b.root
          /\ proof' = ConsistencyProof(a, b)
  BY DEF ProveConsistency
<1>3. PICK m \in Sizes : m = a.size
  BY <1>1 DEF LedgerInv, TypeOK, HeadType
<1>4. PICK n \in Sizes : n = b.size
  BY <1>1 DEF LedgerInv, TypeOK, HeadType
<1>5. m \in Nat /\ n \in Nat /\ m <= n
  BY <1>2, <1>3, <1>4, BoundTypes
<1>6. PICK log \in Logs : log = Stored(n) /\ Len(log) = n /\ RootFor(n) = merkle_root[log]
  BY <1>1, <1>2, <1>4, LoadedLog
<1>7. Stored(m) = Before(log, m)
  <2>1. log \in Seq(Entry) /\ \A i \in 1 .. n : log[i] = entries[i - 1]
    BY <1>6, LogsAreTyped DEF Stored
  <2>2. /\ SubSeq(log, 1, m) \in Seq(Entry) /\ Len(SubSeq(log, 1, m)) = m
        /\ \A i \in 1 .. m : SubSeq(log, 1, m)[i] = log[i]
    <3>1. \A i \in 1 .. m : log[i] \in Entry
      BY <1>5, <1>6, <2>1, ElementOfSeq
    <3> QED BY <1>5, <1>6, <2>1, <3>1, SubSeqProperties
  <2>3. SubSeq(log, 1, m) = [i \in 1 .. m |-> entries[i - 1]]
    BY <1>5, <2>1, <2>2, LenProperties
  <2> QED BY <2>3 DEF Stored, Before
<1>8. ConsistencyProof(a, b) = ConsistencyOf(log, m)
  BY <1>2, <1>3, <1>4, <1>6, <1>7 DEF ConsistencyProof, ConsistencyOf, RootFor
<1>9. ProofOfLog'
  <2>1. m \in 0 .. Len(log)
    BY <1>5, <1>6
  <2> QED BY <1>2, <1>8, <2>1 DEF ProofOfLog, ConsistencyOf
<1>10. PublishedHaveLogs' /\ (\A q \in Procs : NewHasLog(pc[q], job[q]))'
  BY <1>1 DEF EvidenceInv, PublishedHaveLogs, HasLog, NewHasLog
<1> QED BY <1>9, <1>10 DEF EvidenceInv

LEMMA StutterEvidence == ASSUME EvidenceInv, LedgerInv', UNCHANGED vars PROVE EvidenceInv'
<1>1. UNCHANGED <<pc, job, published, proof>>
  BY DEF vars, outputs, history
<1>2. PublishedHaveLogs' /\ (\A q \in Procs : NewHasLog(pc[q], job[q]))'
  BY <1>1 DEF EvidenceInv, PublishedHaveLogs, HasLog, NewHasLog
<1> QED BY <1>1, <1>2, SameProof DEF EvidenceInv

LEMMA StepEvidence == EvidenceInv /\ [Next]_vars => EvidenceInv'
<1>1. SUFFICES ASSUME EvidenceInv, [Next]_vars PROVE EvidenceInv'
  OBVIOUS
<1>2. LedgerInv'
  BY <1>1, StepLedger DEF EvidenceInv
<1>3. CASE UNCHANGED vars
  BY <1>1, <1>2, <1>3, StutterEvidence
<1>4. CASE Next
  <2>1. PICK p \in Procs : \/ InitCommand(p) \/ AppendCommand(p) \/ ReadCommand(p)
                           \/ Fail(p) \/ Die(p)
    BY <1>4 DEF Next
  <2>2. CASE PlainlyGoes(p)
    BY <1>1, <1>2, <2>2, PlainStep DEF PlainlyGoes
  <2>3. CASE InitCommand(p)
    BY <2>2, <2>3, PlainCommands
  <2>4. CASE AppendCommand(p)
    BY <1>1, <1>2, <2>2, <2>4, PlainCommands, ComputeRootEvidence, ReplaceHeadsEvidence
       DEF AppendCommand
  <2>5. CASE ReadCommand(p)
    BY <1>1, <1>2, <2>2, <2>5, PlainCommands, ProveInclusionEvidence,
           ProveConsistencyEvidence
       DEF ReadCommand
  <2>6. CASE Fail(p) \/ Die(p)
    BY <2>2, <2>6, PlainCommands
  <2> QED BY <2>1, <2>3, <2>4, <2>5, <2>6
<1> QED BY <1>1, <1>3, <1>4

(* Every head that was ever published has the root of a log, and a proof   *)
(* that was written is that of a leaf or a prefix of a log.                *)
THEOREM EvidenceIsSound == Spec => []EvidenceInv
<1> QED BY InitEvidence, StepEvidence, PTL DEF Spec

(* An inclusion proof is accepted for the entry and the log it was made    *)
(* for and for no other, with its own path and no other                    *)
(* (run_prove_inclusion, run_verify_inclusion): for every published head.  *)
THEOREM InclusionProofsAreSound == Spec => []InclusionProofsHold
<1>1. EvidenceInv => InclusionProofsHold
  BY InclusionHolds
<1> QED BY <1>1, EvidenceIsSound, PTL

(* A consistency proof is accepted, with its own path and no other, and    *)
(* with other published heads only where the log of the first is a prefix  *)
(* of that of the second (run_prove_consistency, run_verify_consistency).  *)
THEOREM ConsistencyProofsAreSound == Spec => []ConsistencyProofsHold
<1>1. EvidenceInv => ConsistencyProofsHold
  BY ConsistencyHolds
<1> QED BY <1>1, EvidenceIsSound, PTL
-----------------------------------------------------------------------------
(***************************************************************************)
(* The ledger implements PublishedLog. What the refinement needs besides:  *)
(* the latest head is a published one, an append that has read it still    *)
(* holds the latest, and the entry it has written is the one after that    *)
(* head's (PublishInv). Faults do not break this: what they leave behind   *)
(* makes the next append refuse before it holds anything.                  *)
(***************************************************************************)
Held == {"list", "entry"} \cup Pending

HeldInv(step, j) ==
    /\ step \in Held => Readable(latestHead) /\ j.head = latestHead
    /\ step \in Pending => entries[j.head.size] = EntryFor(j)

HeadPublished == Readable(latestHead) => latestHead \in published

PublishInv ==
    /\ EvidenceInv /\ HeadPublished
    /\ ~forced => \A p \in Procs : HeldInv(pc[p], job[p])

LEMMA HeldNames ==
    /\ Pending \subseteq Held /\ Held \subseteq LockedSteps /\ Held \subseteq UnpublishedSteps
    /\ UnpublishedSteps \subseteq LockedSteps
    /\ UnpublishedSteps \cap (Readers \cup InitSteps \cup {"idle", "numbered", "unlock"}) = {}
    /\ "head" \notin Held
BY DEF Held, Pending, LockedSteps, Readers, VerifySteps, InclusionSteps, InitSteps,
       UnpublishedSteps

LEMMA InitPublish == Init => PublishInv
<1>1. SUFFICES ASSUME Init PROVE PublishInv
  OBVIOUS
<1>2. EvidenceInv /\ pc = [p \in Procs |-> "idle"]
  BY <1>1, InitEvidence DEF Init
<1>3. \A p \in Procs : HeldInv(pc[p], job[p])
  BY <1>2, HeldNames DEF HeldInv
<1>4. HeadPublished
  <2>1. CASE latestHead = None
    BY <2>1 DEF HeadPublished, Readable
  <2>2. ASSUME NEW s \in Starts, latestHead = HeadOf(s, Len(s)),
               heads = [i \in Sizes |-> IF i <= Len(s) THEN HeadOf(s, i) ELSE None]
        PROVE  HeadPublished
    <3>1. Len(s) \in Sizes /\ Len(s) \in Nat /\ HeadOf(s, Len(s)) \in HeadType
      BY StartTyped, HeadOfTyped, BoundTypes
    <3>2. heads[Len(s)] = latestHead /\ latestHead # None
      BY <2>2, <3>1, AbsentAssumption
    <3>3. published = {heads[i] : i \in Sizes} \ {None}
      BY <1>1 DEF Init
    <3> QED BY <3>1, <3>2, <3>3 DEF HeadPublished
  <2> QED BY <1>1, <2>1, <2>2 DEF Init
<1> QED BY <1>2, <1>3, <1>4 DEF PublishInv

LEMMA EntryForTyped ==
    ASSUME LedgerInv, NEW p \in Procs, pc[p] \in Pending
    PROVE  /\ job[p].head.size \in Positions /\ EntryFor(job[p]) \in Entry
           /\ EntryFor(job[p]) = NewEntry(p)
<1>1. /\ job[p].head.size < MaxSize
      /\ pc[p] \in {"entry", "latestEntry", "root", "previous", "latest", "numbered"}
  BY JobOf DEF JobInv, Pending
<1>2. EntryFor(job[p]) = NewEntry(p)
  BY DEF EntryFor, NewEntry
<1> QED BY <1>1, <1>2, NewEntryTyped

(* What a step must show, of the process whose step it is.                 *)
LEMMA PublishStep ==
    ASSUME PublishInv, Next, EvidenceInv', NEW p \in Procs, NEW step, NEW j, Goto(p, step, j),
           HeadPublished', ~forced' => HeldInv(step, j)',
           ~forced' => \/ latestHead' = latestHead \/ ~Readable(latestHead)
                       \/ pc[p] \in LockedSteps
    PROVE  PublishInv'
<1>1. LedgerInv /\ (forced => forced') /\ (~forced' => Kept)
  BY FilesStay DEF PublishInv, EvidenceInv
<1>2. pc \in [Procs -> Steps] /\ job \in [Procs -> Jobs]
  BY <1>1 DEF LedgerInv, TypeOK
<1>3. /\ pc'[p] = step /\ job'[p] = j
      /\ \A q \in Procs \ {p} : pc'[q] = pc[q] /\ job'[q] = job[q]
  BY <1>2 DEF Goto
<1>4. ASSUME ~forced', NEW q \in Procs PROVE HeldInv(pc[q], job[q])'
  <2>1. CASE q = p
    BY <1>3, <1>4, <2>1 DEF HeldInv, EntryFor
  <2>2. CASE q # p /\ pc[q] \in Held
    <3>1. PICK s, k : s = pc[q] /\ k = job[q]
      OBVIOUS
    <3>2. HeldInv(s, k) /\ s \in Held /\ Kept /\ ~forced
      BY <1>1, <1>4, <2>2, <3>1 DEF PublishInv
    <3>3. pc[p] \notin LockedSteps
      BY <1>1, <2>2, <3>2, HeldNames DEF LedgerInv, LockExcludes, Running
    <3>4. latestHead' = latestHead
      BY <1>4, <3>2, <3>3 DEF HeldInv
    <3>5. s \in Pending => entries'[k.head.size] = EntryFor(k)
      <4>1. ASSUME s \in Pending
            PROVE  k.head.size \in Positions /\ entries[k.head.size] = EntryFor(k)
                   /\ EntryFor(k) # None
        BY <1>1, <3>1, <3>2, <4>1, EntryForTyped, AbsentAssumption DEF HeldInv
      <4> QED BY <3>2, <4>1 DEF Kept
    <3>6. HeldInv(s, k)'
      BY <3>2, <3>4, <3>5 DEF HeldInv, EntryFor
    <3> QED BY <1>3, <2>2, <3>1, <3>6 DEF HeldInv, EntryFor
  <2>3. CASE q # p /\ pc[q] \notin Held
    BY <1>3, <2>3, HeldNames DEF HeldInv
  <2> QED BY <2>1, <2>2, <2>3
<1> QED BY <1>4 DEF PublishInv

(* A step after which the process has nothing to publish, and that leaves  *)
(* what is published as it is.                                             *)
LetsGo(p) ==
    /\ \E step, j : Goto(p, step, j) /\ step \notin UnpublishedSteps
    /\ published \subseteq published'
    /\ \/ latestHead' \in {latestHead, None, Torn}
       \/ latestHead' = init_head /\ init_head \in published'
    /\ ~forced' => latestHead' = latestHead \/ latestHead = None

LEMMA LetGo ==
    ASSUME PublishInv, Next, EvidenceInv', NEW p \in Procs, LetsGo(p) PROVE PublishInv'
<1>1. PICK step, j : Goto(p, step, j) /\ step \notin UnpublishedSteps
  BY DEF LetsGo
<1>2. HeldInv(step, j)'
  BY <1>1, HeldNames DEF HeldInv
<1>3. HeadPublished'
  BY DEF LetsGo, PublishInv, HeadPublished, Readable
<1>4. ~forced' => \/ latestHead' = latestHead \/ ~Readable(latestHead)
                  \/ pc[p] \in LockedSteps
  BY DEF LetsGo, Readable
<1> QED BY <1>1, <1>2, <1>3, <1>4, PublishStep

(* A step of an append that goes on with the head it holds.                *)
HoldsOn(p) ==
    /\ pc[p] \in Held
    /\ \E step \in Held : \E j :
        /\ Goto(p, step, j)
        /\ step \in Pending => pc[p] \in Pending
        /\ j.head = job[p].head /\ j.bundle = job[p].bundle
    /\ UNCHANGED <<entries, latestHead, published, forced>>

LEMMA HoldOn ==
    ASSUME PublishInv, Next, EvidenceInv', NEW p \in Procs, HoldsOn(p) PROVE PublishInv'
<1>1. PICK k : k = job[p]
  OBVIOUS
<1>2. PICK step, j : /\ Goto(p, step, j) /\ step \in Held
                     /\ step \in Pending => pc[p] \in Pending
                     /\ j.head = k.head /\ j.bundle = k.bundle
  BY <1>1 DEF HoldsOn
<1>3. pc[p] \in Held /\ UNCHANGED <<entries, latestHead, published, forced>>
  BY DEF HoldsOn
<1>4. HeadPublished'
  BY <1>3 DEF PublishInv, HeadPublished, Readable
<1>5. ASSUME ~forced' PROVE HeldInv(step, j)'
  <2>1. HeldInv(pc[p], k)
    BY <1>1, <1>3, <1>5 DEF PublishInv
  <2>2. HeldInv(step, j)
    BY <1>2, <1>3, <2>1 DEF HeldInv, EntryFor
  <2> QED BY <1>3, <2>2 DEF HeldInv, EntryFor, Readable
<1> QED BY <1>2, <1>3, <1>4, <1>5, PublishStep

LEMMA ReadHeadPublish ==
    ASSUME PublishInv, Next, EvidenceInv', NEW p \in Procs, ReadHead(p) PROVE PublishInv'
<1>1. UNCHANGED <<entries, latestHead, published, forced>> /\ LedgerInv
  BY DEF ReadHead, files, history, PublishInv, EvidenceInv
<1>2. CASE Readable(latestHead) /\ Goto(p, "list", [job[p] EXCEPT !.head = latestHead])
  <2>1. PICK j : j = [job[p] EXCEPT !.head = latestHead]
    OBVIOUS
  <2>2. latestHead \in HeadType
    BY <1>1, <1>2, FilesTyped DEF Readable
  <2>3. j.head = latestHead
    BY <1>1, <2>1, <2>2, JobOf, JobUpdates
  <2>4. Goto(p, "list", j) /\ "list" \notin Pending
    BY <1>2, <2>1 DEF Pending
  <2>5. HeldInv("list", j)' /\ HeadPublished'
    BY <1>1, <1>2, <2>3, <2>4 DEF HeldInv, Readable, HeadPublished, PublishInv
  <2> QED BY <1>1, <2>4, <2>5, PublishStep
<1>3. CASE Goto(p, "unlock", job[p])
  <2>1. LetsGo(p)
    BY <1>1, <1>3, HeldNames DEF LetsGo
  <2> QED BY <2>1, LetGo
<1> QED BY <1>2, <1>3 DEF ReadHead

LEMMA WriteEntryPublish ==
    ASSUME PublishInv, Next, EvidenceInv', NEW p \in Procs, WriteEntry(p) PROVE PublishInv'
<1>1. /\ UNCHANGED <<latestHead, published, forced>> /\ LedgerInv /\ pc[p] = "entry"
      /\ job[p].head.size < MaxSize
  BY DEF WriteEntry, history, PublishInv, EvidenceInv
<1>2. PICK j : j = job[p]
  OBVIOUS
<1>3. PICK n : n = j.head.size
  OBVIOUS
<1>4. CASE /\ entries' = [entries EXCEPT ![n] = NewEntry(p)]
           /\ Goto(p, "latestEntry", j)
  <2>1. n \in Positions /\ NewEntry(p) = EntryFor(j)
    BY <1>1, <1>2, <1>3, NewEntryTyped DEF NewEntry, EntryFor
  <2>2. entries'[n] = EntryFor(j)
    BY <1>1, <1>4, <2>1, FilesTyped
  <2>3. ASSUME ~forced' PROVE HeldInv("latestEntry", j)'
    <3>1. Readable(latestHead) /\ j.head = latestHead
      BY <1>1, <1>2, <2>3 DEF PublishInv, HeldInv, Held
    <3> QED BY <1>1, <1>3, <2>2, <3>1 DEF HeldInv, EntryFor, Readable
  <2>4. HeadPublished'
    BY <1>1 DEF HeadPublished, PublishInv, Readable
  <2> QED BY <1>1, <1>4, <2>3, <2>4, PublishStep
<1>5. CASE Goto(p, "unlock", j)
  <2>1. LetsGo(p)
    BY <1>1, <1>5, HeldNames DEF LetsGo
  <2> QED BY <2>1, LetGo
<1> QED BY <1>2, <1>3, <1>4, <1>5 DEF WriteEntry

(* The steps that keep the head they hold, or refuse.                      *)
LEMMA HoldingSteps ==
    ASSUME PublishInv, NEW p \in Procs,
           ListEntries(p) \/ ReplaceLatestEntry(p) \/ ComputeRoot(p) \/ ReplacePrevious(p)
    PROVE  HoldsOn(p) \/ LetsGo(p)
<1>1. LedgerInv /\ UNCHANGED <<entries, latestHead, published, forced>>
  BY DEF ListEntries, ReplaceLatestEntry, ComputeRoot, ReplacePrevious, files, history,
         PublishInv, EvidenceInv
<1>2. PICK j : j = job[p]
  OBVIOUS
<1>3. ASSUME Goto(p, "unlock", j) PROVE LetsGo(p)
  BY <1>1, <1>3, HeldNames DEF LetsGo
<1>4. ASSUME NEW step, NEW k, Goto(p, step, k), k.head = j.head, k.bundle = j.bundle,
             \/ step = "entry" /\ pc[p] = "list"
             \/ step \in Pending /\ pc[p] \in Pending
      PROVE  HoldsOn(p)
  BY <1>1, <1>2, <1>4 DEF HoldsOn, Held, Pending
<1>5. CASE ListEntries(p)
  BY <1>2, <1>3, <1>4, <1>5 DEF ListEntries
<1>6. CASE ReplaceLatestEntry(p)
  <2>1. Goto(p, "root", j) /\ pc[p] = "latestEntry"
    BY <1>2, <1>6 DEF ReplaceLatestEntry
  <2> QED BY <1>4, <2>1 DEF Pending
<1>7. CASE ReplacePrevious(p)
  <2>1. Goto(p, "latest", j) /\ pc[p] = "previous"
    BY <1>2, <1>7 DEF ReplacePrevious
  <2> QED BY <1>4, <2>1 DEF Pending
<1>8. CASE ComputeRoot(p)
  <2>1. pc[p] = "root"
    BY <1>8 DEF ComputeRoot
  <2>2. CASE /\ Loads(job[p].head.size + 1)
             /\ Goto(p, "previous",
                     [job[p] EXCEPT !.new = HeadAfter(job[p].head, NewEntry(p))])
    <3>1. PICK new : new = HeadAfter(job[p].head, NewEntry(p))
      OBVIOUS
    <3>2. PICK k : k = [j EXCEPT !.new = new]
      OBVIOUS
    <3>3. new \in HeadType
      BY <1>1, <2>1, <2>2, <3>1, HeadAfterTyped
    <3>4. k.head = j.head /\ k.bundle = j.bundle
      BY <1>1, <1>2, <3>2, <3>3, JobOf, JobUpdates
    <3>5. Goto(p, "previous", k)
      BY <1>2, <2>2, <3>1, <3>2
    <3> QED BY <1>4, <2>1, <3>4, <3>5 DEF Pending
  <2>3. CASE Goto(p, "unlock", job[p])
    BY <1>2, <1>3, <2>3
  <2> QED BY <1>8, <2>2, <2>3 DEF ComputeRoot
<1> QED BY <1>1, <1>5, <1>6, <1>7, <1>8

(* The steps of init, of a fault, of a reader, and the last of an append.  *)
LEMMA LeavingSteps ==
    ASSUME PublishInv, NEW p \in Procs,
           \/ InitCommand(p) \/ WriteNumbered(p) \/ Unlock(p) \/ ReadCommand(p)
           \/ Fail(p) \/ Die(p)
    PROVE  LetsGo(p)
<1>1. LedgerInv /\ "idle" \notin UnpublishedSteps /\ "unlock" \notin UnpublishedSteps
      /\ {"check", "mkdirs", "head0", "numbered0"} \cap UnpublishedSteps = {}
  BY HeldNames DEF PublishInv, EvidenceInv, InitSteps
<1>2. CASE StartInit(p) \/ CheckEmpty(p) \/ MakeDirs(p) \/ WriteNumberedEmptyHead(p)
  BY <1>1, <1>2 DEF StartInit, CheckEmpty, MakeDirs, WriteNumberedEmptyHead, files, history,
                    Stop, LetsGo
<1>3. CASE StartForcedInit(p)
  <2>1. /\ Goto(p, "check", NoJob) /\ latestHead' = None /\ UNCHANGED published
        /\ forced' = (forced \/ made \/ lock)
    BY <1>3 DEF StartForcedInit
  <2>2. ~forced' => ~made
    BY <2>1, Zenon
  <2>3. ~forced' => latestHead = None
    BY <1>1, <2>2 DEF LedgerInv, BareInv
  <2> QED BY <1>1, <2>1, <2>3 DEF LetsGo
<1>4. CASE WriteEmptyHead(p)
  BY <1>1, <1>4 DEF WriteEmptyHead, Stop, LetsGo
<1>5. CASE WriteNumbered(p) \/ Unlock(p)
  BY <1>1, <1>5 DEF WriteNumbered, Unlock, Stop, history, LetsGo
<1>6. CASE ReadCommand(p)
  <2>1. PICK step \in Readers \cup {"idle"} : \E j : Goto(p, step, j)
    BY <1>1, <1>6, ReaderMoves
  <2>2. UNCHANGED <<latestHead, published>>
    BY <1>1, <1>6, ReaderMoves DEF files
  <2> QED BY <2>1, <2>2, HeldNames DEF LetsGo
<1>7. CASE Fail(p) \/ Die(p)
  <2>1. TornFiles(p) /\ UNCHANGED published
    BY <1>7 DEF Fail, Die, history
  <2>2. latestHead' = latestHead \/ (latestHead = None /\ latestHead' = Torn)
    BY <2>1 DEF TornFiles, files
  <2>3. \E step, j : Goto(p, step, j) /\ step \notin UnpublishedSteps
    BY <1>1, <1>7 DEF Fail, Die, Stop
  <2> QED BY <2>1, <2>2, <2>3 DEF LetsGo
<1> QED BY <1>2, <1>3, <1>4, <1>5, <1>6, <1>7 DEF InitCommand

LEMMA TakeLockPublish ==
    ASSUME PublishInv, Next, EvidenceInv', NEW p \in Procs, TakeLock(p) PROVE PublishInv'
<1>1. PICK b : Goto(p, "head", [NoJob EXCEPT !.bundle = b])
  BY DEF TakeLock
<1>2. PICK j : Goto(p, "head", j)
  BY <1>1
<1>3. HeldInv("head", j)' /\ HeadPublished' /\ UNCHANGED latestHead
  BY HeldNames DEF TakeLock, HeldInv, HeadPublished, Readable, PublishInv
<1> QED BY <1>2, <1>3, PublishStep

LEMMA ReplaceLatestPublish ==
    ASSUME PublishInv, Next, EvidenceInv', NEW p \in Procs, ReplaceLatest(p) PROVE PublishInv'
<1>1. PICK j : j = job[p]
  OBVIOUS
<1>2. /\ Goto(p, "numbered", j) /\ latestHead' = j.new /\ j.new \in published'
      /\ pc[p] \in LockedSteps
  BY <1>1 DEF ReplaceLatest, LockedSteps
<1>3. HeldInv("numbered", j)' /\ HeadPublished'
  BY <1>2, HeldNames DEF HeldInv, HeadPublished
<1> QED BY <1>2, <1>3, PublishStep

LEMMA StepPublish == PublishInv /\ [Next]_vars => PublishInv'
<1>1. SUFFICES ASSUME PublishInv, [Next]_vars PROVE PublishInv'
  OBVIOUS
<1>2. EvidenceInv'
  BY <1>1, StepEvidence DEF PublishInv
<1>3. CASE UNCHANGED vars
  BY <1>1, <1>2, <1>3
     DEF vars, files, history, PublishInv, HeadPublished, HeldInv, EntryFor,
                          Readable
<1>4. CASE Next
  <2>1. PICK p \in Procs : \/ InitCommand(p) \/ AppendCommand(p) \/ ReadCommand(p)
                           \/ Fail(p) \/ Die(p)
    BY <1>4 DEF Next
  <2>2. CASE AppendCommand(p)
    BY <1>1, <1>2, <1>4, <2>2, TakeLockPublish, ReadHeadPublish, WriteEntryPublish,
       HoldingSteps, HoldOn, LeavingSteps, LetGo, ReplaceLatestPublish
       DEF AppendCommand
  <2>3. CASE InitCommand(p) \/ ReadCommand(p) \/ Fail(p) \/ Die(p)
    BY <1>1, <1>2, <1>4, <2>3, LeavingSteps, LetGo
  <2> QED BY <2>1, <2>2, <2>3
<1> QED BY <1>1, <1>3, <1>4

(* An append goes on with the latest head only, and publishes after it.    *)
THEOREM PublishIsSound == Spec => []PublishInv
<1> QED BY InitPublish, StepPublish, PTL DEF Spec

-----------------------------------------------------------------------------
(* The log that the files stand for, and what a step makes of it.          *)
LEMMA BundlesOfLog ==
    ASSUME NEW log \in Logs, NEW h, h.size = Len(log), h.root = merkle_root[log]
    PROVE  /\ BundlesUnder(h) = [i \in 1 .. Len(log) |-> log[i].bundle]
           /\ BundlesUnder(h) \in Seq(Bundles)
<1>1. LogUnder(h) = log
  BY LogUnderIs
<1>2. BundlesUnder(h) = [i \in 1 .. Len(log) |-> log[i].bundle]
  BY <1>1 DEF BundlesUnder
<1>3. Len(log) \in Nat /\ \A i \in 1 .. Len(log) : log[i].bundle \in Bundles
  <2>1. log \in Seq(Entry) /\ Len(log) \in Nat
    BY LogsAreTyped
  <2>2. \A i \in 1 .. Len(log) : log[i] \in Entry
    BY <2>1, ElementOfSeq
  <2> QED BY <2>1, <2>2 DEF Entry
<1>4. [i \in 1 .. Len(log) |-> log[i].bundle] \in [1 .. Len(log) -> Bundles]
  BY <1>3
<1> QED BY <1>2, <1>3, <1>4, SeqDef

LEMMA PublishedTyped ==
    PublishInv => /\ PublishedBundles \in Seq(Bundles)
                  /\ WantedBundles \in [Procs -> Bundles \cup {None}]
<1>1. SUFFICES ASSUME PublishInv PROVE /\ PublishedBundles \in Seq(Bundles)
                                       /\ WantedBundles \in [Procs -> Bundles \cup {None}]
  OBVIOUS
<1>2. PublishedBundles \in Seq(Bundles)
  <2>1. ASSUME Readable(latestHead) PROVE BundlesUnder(latestHead) \in Seq(Bundles)
    <3>1. HasLog(latestHead)
      BY <1>1, <2>1 DEF PublishInv, HeadPublished, EvidenceInv, PublishedHaveLogs
    <3> QED BY <3>1, BundlesOfLog DEF HasLog
  <2> QED BY <2>1, EmptySeq DEF PublishedBundles
<1>3. \A p \in Procs : job[p].bundle \in Bundles \cup {None}
  BY <1>1 DEF PublishInv, EvidenceInv, LedgerInv, TypeOK, Jobs
<1> QED BY <1>2, <1>3 DEF WantedBundles

LEMMA TypedAfter ==
    PublishInv' => /\ PublishedBundles' \in Seq(Bundles)
                   /\ WantedBundles' \in [Procs -> Bundles \cup {None}]
<1> DEFINE Typed == /\ PublishedBundles \in Seq(Bundles)
                    /\ WantedBundles \in [Procs -> Bundles \cup {None}]
<1>1. PublishInv => Typed
  BY PublishedTyped
<1>2. PublishInv' => Typed'
  <2> HIDE DEF Typed
  <2> QED BY <1>1, PTL
<1> QED BY <1>2

LEMMA WantedAfter ==
    ASSUME LedgerInv, NEW p \in Procs, NEW step, NEW j, Goto(p, step, j)
    PROVE  WantedBundles' =
               [WantedBundles EXCEPT ![p] = IF step \in UnpublishedSteps THEN j.bundle ELSE None]
<1>1. pc \in [Procs -> Steps] /\ job \in [Procs -> Jobs]
  BY DEF LedgerInv, TypeOK
<1>2. /\ pc'[p] = step /\ job'[p] = j
      /\ \A q \in Procs \ {p} : pc'[q] = pc[q] /\ job'[q] = job[q]
  BY <1>1 DEF Goto
<1> QED BY <1>2 DEF WantedBundles

LEMMA SameHeadSameLog == UNCHANGED latestHead => UNCHANGED PublishedBundles
BY DEF PublishedBundles, BundlesUnder, Readable

(* The heads of logs that are stored: the log under the one that is made   *)
(* has the entry more.                                                     *)
LEMMA CoveredBundles ==
    ASSUME LedgerInv, NEW h \in HeadType, Covered(h)
    PROVE  /\ BundlesUnder(h) = [i \in 1 .. h.size |-> entries[i - 1].bundle]
           /\ BundlesUnder(h) \in Seq(Bundles) /\ h.size \in Nat
<1>1. PICK n \in Sizes : n = h.size
  BY DEF HeadType
<1>2. n \in Nat /\ Stored(n) \in Logs
  BY <1>1, BoundTypes, StoredTyped DEF LedgerInv, Covered
<1>3. PICK log \in Logs : log = Stored(n)
  BY <1>2
<1>4. Len(log) = n
  BY <1>2, <1>3, LenProperties DEF Stored
<1>5. /\ BundlesUnder(h) = [i \in 1 .. Len(log) |-> log[i].bundle]
      /\ BundlesUnder(h) \in Seq(Bundles)
  BY <1>1, <1>3, <1>4, BundlesOfLog DEF Covered, RootFor
<1>6. \A i \in 1 .. n : log[i] = entries[i - 1]
  BY <1>3 DEF Stored
<1> QED BY <1>1, <1>2, <1>4, <1>5, <1>6

LEMMA OneMore ==
    ASSUME LedgerInv, NEW old \in HeadType, NEW new \in HeadType, Covered(old), Covered(new),
           new.size = old.size + 1
    PROVE  BundlesUnder(new) = Append(BundlesUnder(old), entries[old.size].bundle)
<1>1. PICK n \in Nat : n = old.size
  BY CoveredBundles
<1>2. PICK s \in Seq(Bundles) : s = BundlesUnder(old)
  BY CoveredBundles
<1>3. PICK t \in Seq(Bundles) : t = BundlesUnder(new)
  BY CoveredBundles
<1>4. PICK b : b = entries[n].bundle
  OBVIOUS
<1>5. /\ s = [i \in 1 .. n |-> entries[i - 1].bundle]
      /\ t = [i \in 1 .. n + 1 |-> entries[i - 1].bundle]
  BY <1>1, <1>2, <1>3, CoveredBundles
<1>6. Len(s) = n /\ Len(t) = n + 1
  BY <1>1, <1>5, LenProperties
<1>7. t[n + 1] = b /\ b \in Bundles
  BY <1>1, <1>3, <1>4, <1>5, <1>6, ElementOfSeq
<1>8. Append(s, b) \in Seq(Bundles) /\ Len(Append(s, b)) = n + 1
      /\ \A i \in 1 .. n + 1 : Append(s, b)[i] = t[i]
  BY <1>1, <1>5, <1>6, <1>7
<1>9. t = Append(s, b)
  BY <1>6, <1>8, SeqEqual
<1> QED BY <1>1, <1>2, <1>3, <1>4, <1>9

-----------------------------------------------------------------------------
(* Every step is one of the log's, or none.                                *)
Refines == [Published!Next]_(Published!vars)

LEMMA RefinedBy ==
    /\ \A p \in Procs : Published!Ask(p) \/ Published!Publish(p) \/ Published!GiveUp(p) => Refines
    /\ Published!Remove => Refines
    /\ UNCHANGED <<PublishedBundles, WantedBundles, forced>> => Refines
BY DEF Refines, Published!Next, Published!vars

LEMMA RemovedRefines == ASSUME PublishInv', forced' PROVE Refines
<1>1. Published!Remove
  BY TypedAfter DEF Published!Remove
<1> QED BY <1>1, RefinedBy

LEMMA LeavingRefines ==
    ASSUME PublishInv, NEW p \in Procs, LetsGo(p), ~forced', ~forced, forced' = forced
    PROVE  Refines
<1>1. PICK step, j : Goto(p, step, j) /\ step \notin UnpublishedSteps
  BY DEF LetsGo
<1>2. WantedBundles' = [WantedBundles EXCEPT ![p] = None]
  BY <1>1, WantedAfter DEF PublishInv, EvidenceInv
<1>3. PublishedBundles' = PublishedBundles
  <2>1. CASE latestHead' = latestHead
    BY <2>1, SameHeadSameLog
  <2>2. CASE latestHead = None /\ latestHead' \in {None, Torn}
    BY <2>2 DEF PublishedBundles, Readable
  <2>3. CASE latestHead = None /\ latestHead' = init_head
    <3>1. BundlesUnder(init_head) = <<>>
      <4>1. Len(<<>>) = 0 /\ [i \in 1 .. 0 |-> <<>>[i].bundle] = <<>>
        OBVIOUS
      <4> QED BY <4>1, EmptyTyped, BundlesOfLog
    <3> QED BY <2>3, <3>1 DEF PublishedBundles, Readable
  <2> QED BY <2>1, <2>2, <2>3 DEF LetsGo
<1>4. Published!GiveUp(p)
  BY <1>2, <1>3 DEF Published!GiveUp
<1> QED BY <1>4, RefinedBy

(* A step of an append that still wants its bundle.                        *)
KeepsOn(p) ==
    /\ pc[p] \in UnpublishedSteps
    /\ \E step \in UnpublishedSteps : \E j : Goto(p, step, j) /\ j.bundle = job[p].bundle
    /\ UNCHANGED <<latestHead, forced>>

LEMMA KeepingRefines == ASSUME PublishInv, NEW p \in Procs, KeepsOn(p) PROVE Refines
<1>1. PICK step, j : /\ step \in UnpublishedSteps /\ Goto(p, step, j)
                     /\ j.bundle = job[p].bundle
  BY DEF KeepsOn
<1>2. WantedBundles' = [WantedBundles EXCEPT ![p] = j.bundle]
  BY <1>1, WantedAfter DEF PublishInv, EvidenceInv
<1>3. WantedBundles[p] = j.bundle /\ WantedBundles \in [Procs -> Bundles \cup {None}]
  BY <1>1, PublishedTyped DEF KeepsOn, WantedBundles
<1>4. UNCHANGED <<PublishedBundles, WantedBundles, forced>>
  BY <1>2, <1>3, SameHeadSameLog DEF KeepsOn
<1> QED BY <1>4, RefinedBy

LEMMA KeepingSteps ==
    ASSUME PublishInv, NEW p \in Procs, ReadHead(p) \/ WriteEntry(p)
    PROVE  KeepsOn(p) \/ LetsGo(p)
<1>1. /\ LedgerInv /\ UNCHANGED <<latestHead, published, forced>>
      /\ pc[p] \in UnpublishedSteps
  BY DEF ReadHead, WriteEntry, files, history, PublishInv, EvidenceInv, UnpublishedSteps
<1>2. ASSUME Goto(p, "unlock", job[p]) PROVE LetsGo(p)
  BY <1>1, <1>2, HeldNames DEF LetsGo
<1>3. CASE ReadHead(p)
  <2>1. CASE Readable(latestHead) /\ Goto(p, "list", [job[p] EXCEPT !.head = latestHead])
    <3>1. PICK j : j = [job[p] EXCEPT !.head = latestHead]
      OBVIOUS
    <3>2. latestHead \in HeadType
      BY <1>1, <2>1, FilesTyped DEF Readable
    <3>3. j.bundle = job[p].bundle
      BY <1>1, <3>1, <3>2, JobOf, JobUpdates
    <3>4. Goto(p, "list", j) /\ "list" \in UnpublishedSteps
      BY <2>1, <3>1 DEF UnpublishedSteps
    <3> QED BY <1>1, <3>3, <3>4 DEF KeepsOn
  <2> QED BY <1>2, <1>3, <2>1 DEF ReadHead
<1>4. CASE WriteEntry(p)
  <2>1. PICK j : j = job[p]
    OBVIOUS
  <2>2. Goto(p, "latestEntry", j) \/ Goto(p, "unlock", j)
    BY <1>4, <2>1 DEF WriteEntry
  <2>3. "latestEntry" \in UnpublishedSteps
    BY DEF UnpublishedSteps
  <2> QED BY <1>1, <1>2, <2>1, <2>2, <2>3 DEF KeepsOn
<1> QED BY <1>3, <1>4

LEMMA HoldingKeeps == ASSUME NEW p \in Procs, HoldsOn(p) PROVE KeepsOn(p)
BY HeldNames DEF HoldsOn, KeepsOn

LEMMA TakeLockRefines == ASSUME PublishInv, NEW p \in Procs, TakeLock(p) PROVE Refines
<1>1. PICK b \in Bundles \cup {None} : Goto(p, "head", [NoJob EXCEPT !.bundle = b])
  BY DEF TakeLock
<1>2. PICK j : j = [NoJob EXCEPT !.bundle = b]
  OBVIOUS
<1>3. j.bundle = b
  BY <1>2 DEF NoJob
<1>4. Goto(p, "head", j) /\ "head" \in UnpublishedSteps /\ LedgerInv
  BY <1>1, <1>2 DEF UnpublishedSteps, PublishInv, EvidenceInv
<1>5. WantedBundles' = [WantedBundles EXCEPT ![p] = b]
  BY <1>3, <1>4, WantedAfter
<1>6. UNCHANGED <<latestHead, forced>> /\ pc[p] = "idle"
  BY DEF TakeLock, Counted
<1>7. WantedBundles[p] = None
  BY <1>6, HeldNames DEF WantedBundles
<1>8. UNCHANGED <<PublishedBundles, forced>>
  BY <1>6, SameHeadSameLog
<1>9. CASE b \in Bundles
  <2>1. Published!Ask(p)
    BY <1>5, <1>7, <1>8, <1>9 DEF Published!Ask
  <2> QED BY <2>1, RefinedBy
<1>10. CASE b = None
  <2>1. Published!GiveUp(p)
    BY <1>5, <1>8, <1>10 DEF Published!GiveUp
  <2> QED BY <2>1, RefinedBy
<1> QED BY <1>9, <1>10

LEMMA ReplaceLatestRefines ==
    ASSUME PublishInv, NEW p \in Procs, ReplaceLatest(p), ~forced PROVE Refines
<1>1. PICK j : j = job[p]
  OBVIOUS
<1>2. /\ pc[p] = "latest" /\ Goto(p, "numbered", j) /\ latestHead' = j.new
      /\ UNCHANGED forced /\ LedgerInv
  BY <1>1 DEF ReplaceLatest, PublishInv, EvidenceInv
<1>3. /\ j.new \in HeadType /\ j.new.size = j.head.size + 1 /\ Covered(j.new)
      /\ j.head \in HeadType /\ j.bundle \in Bundles
  BY <1>1, <1>2, JobOf DEF JobInv, NewCovered, HasHead
<1>4. /\ Readable(latestHead) /\ j.head = latestHead
      /\ entries[j.head.size] = EntryFor(j)
  BY <1>1, <1>2 DEF PublishInv, HeldInv, Held, Pending
<1>5. Covered(latestHead)
  BY <1>2, <1>4 DEF PublishInv, HeadPublished, LedgerInv, PublishedStaysCovered, Covered
<1>6. BundlesUnder(j.new) = Append(BundlesUnder(latestHead), j.bundle)
  <2>1. EntryFor(j).bundle = j.bundle
    BY DEF EntryFor
  <2> QED BY <1>2, <1>3, <1>4, <1>5, <2>1, OneMore
<1>7. Readable(j.new)
  BY <1>3, AbsentAssumption DEF Readable
<1>8. PublishedBundles' = Append(PublishedBundles, j.bundle)
  <2>1. PICK s : s = BundlesUnder(j.new)
    OBVIOUS
  <2>2. PublishedBundles' = s
    BY <1>2, <1>7, <2>1 DEF PublishedBundles, BundlesUnder, LogUnder, Readable
  <2>3. PublishedBundles = BundlesUnder(latestHead)
    BY <1>4 DEF PublishedBundles
  <2> QED BY <1>6, <2>1, <2>2, <2>3
<1>9. WantedBundles' = [WantedBundles EXCEPT ![p] = None]
  BY <1>2, WantedAfter, HeldNames
<1>10. WantedBundles[p] = j.bundle /\ j.bundle # None
  BY <1>1, <1>2, <1>3, AbsentAssumption DEF WantedBundles, UnpublishedSteps
<1>11. Published!Publish(p)
  BY <1>2, <1>8, <1>9, <1>10 DEF Published!Publish
<1> QED BY <1>11, RefinedBy

LEMMA InitRefines == Init => Published!Init
<1>1. SUFFICES ASSUME Init PROVE Published!Init
  OBVIOUS
<1>2. PublishInv /\ forced = FALSE /\ pc = [p \in Procs |-> "idle"]
  BY <1>1, InitPublish DEF Init
<1>3. WantedBundles = [p \in Procs |-> None]
  BY <1>2, HeldNames DEF WantedBundles
<1> QED BY <1>2, <1>3, PublishedTyped DEF Published!Init

LEMMA StepRefines == PublishInv /\ PublishInv' /\ [Next]_vars => Refines
<1>1. SUFFICES ASSUME PublishInv, PublishInv', [Next]_vars PROVE Refines
  OBVIOUS
<1>2. CASE UNCHANGED vars
  <2>1. UNCHANGED <<latestHead, forced, pc, job>>
    BY <1>2 DEF vars, files, history
  <2>2. UNCHANGED WantedBundles
    BY <2>1 DEF WantedBundles
  <2> QED BY <2>1, <2>2, SameHeadSameLog, RefinedBy
<1>3. CASE Next /\ forced'
  BY <1>1, <1>3, RemovedRefines
<1>4. CASE Next /\ ~forced'
  <2>1. ~forced /\ forced' = forced
    <3>1. LedgerInv /\ LedgerInv' /\ forced \in BOOLEAN /\ forced' \in BOOLEAN
      BY <1>1 DEF PublishInv, EvidenceInv, LedgerInv, TypeOK
    <3>2. forced => forced'
      BY <1>4, <3>1, FilesStay
    <3> QED BY <1>4, <3>1, <3>2
  <2>2. PICK p \in Procs : \/ InitCommand(p) \/ AppendCommand(p) \/ ReadCommand(p)
                           \/ Fail(p) \/ Die(p)
    BY <1>4 DEF Next
  <2>3. LetsGo(p) \/ KeepsOn(p) => Refines
    BY <1>1, <1>4, <2>1, LeavingRefines, KeepingRefines
  <2>4. CASE AppendCommand(p)
    BY <1>1, <2>1, <2>3, <2>4, TakeLockRefines, KeepingSteps, HoldingSteps, HoldingKeeps,
       LeavingSteps, ReplaceLatestRefines
       DEF AppendCommand
  <2>5. CASE InitCommand(p) \/ ReadCommand(p) \/ Fail(p) \/ Die(p)
    BY <1>1, <2>3, <2>5, LeavingSteps
  <2> QED BY <2>2, <2>4, <2>5
<1> QED BY <1>1, <1>2, <1>3, <1>4

(* The ledger implements the log of PublishedLog: whatever overlaps, dies  *)
(* or fails, replacing the latest head adds one bundle to the log under    *)
(* it, that of the append that replaces it, and an append does so once at  *)
(* most (run_append).                                                      *)
THEOREM LedgerImplementsLog == Spec => ImplementsLog
<1>1. Init => Published!Init
  BY InitRefines
<1>2. PublishInv /\ PublishInv' /\ [Next]_vars => [Published!Next]_(Published!vars)
  BY StepRefines DEF Refines
<1> QED BY <1>1, <1>2, PublishIsSound, PTL DEF Spec, ImplementsLog, Published!Spec
=============================================================================
