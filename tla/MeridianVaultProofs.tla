------------------------- MODULE MeridianVaultProofs -------------------------
(***************************************************************************)
(* Theorems about the Meridian vault, for every set of files, names and    *)
(* evidence, every number of concurrent commands and every bound.          *)
(***************************************************************************)
EXTENDS MeridianVault, TLAPS

(***************************************************************************)
(* What a job holds at each step of its command.                           *)
(***************************************************************************)
Steps == SealSteps \cup InitSteps \cup OpenSteps \cup {"idle"}

JobAt(step, j) ==
    /\ j \in Jobs
    /\ step # "idle" => j.config \in Config
    /\ step \in InitSteps => j.ledger \in Ledgers /\ j.corpus \in Corpora
    /\ step \in (SealSteps \cup OpenSteps) \ {"next"} => j.file \in Files /\ j.name \in Names
    /\ step \in {"key", "evidence", "restore"} => j.text \in Contents
    /\ step \in {"evidence", "open"} => j.key \in Keys
    /\ step \in {"store", "load", "save", "wipe", "unlink", "openkey", "open"} =>
          j.envelope \in Envelopes
    /\ step = "save" => j.index \in [Names -> Envelopes \cup {None}]

JobsTyped == \A p \in Procs : JobAt(pc[p], job[p])

Typed == TypeOK /\ JobsTyped

LEMMA NoJobTyped == JobAt("idle", NoJob)
BY DEF JobAt, NoJob, Jobs, SealSteps, InitSteps, OpenSteps

(* A step of p gives p its next step and job, and every other command none. *)
LEMMA GotoFrame ==
    ASSUME Typed, NEW p \in Procs, NEW step, NEW j, Goto(p, step, j)
    PROVE  /\ pc'[p] = step /\ job'[p] = j
           /\ \A q \in Procs \ {p} : pc'[q] = pc[q] /\ job'[q] = job[q]
BY DEF Goto, Typed, TypeOK

LEMMA GotoTyped ==
    ASSUME Typed, NEW p \in Procs, NEW step \in Steps, NEW j,
           Goto(p, step, j), JobAt(step, j)
    PROVE  /\ pc' \in [Procs -> Steps] /\ job' \in [Procs -> Jobs]
           /\ JobsTyped'
<1>1. j \in Jobs
  BY DEF JobAt
<1>2. pc' \in [Procs -> Steps] /\ job' \in [Procs -> Jobs]
  BY <1>1 DEF Goto, Typed, TypeOK, Steps
<1>3. ASSUME NEW q \in Procs PROVE JobAt(pc'[q], job'[q])
  <2>1. CASE q = p
    BY <2>1, GotoFrame
  <2>2. CASE q # p
    BY <2>2, GotoFrame DEF Typed, JobsTyped
  <2>3. QED
    BY <2>1, <2>2
<1>4. JobsTyped'
  BY <1>3 DEF JobsTyped
<1>5. QED
  BY <1>2, <1>4

LEMMA StopTyped ==
    ASSUME Typed, NEW p \in Procs, Stop(p)
    PROVE  /\ pc' \in [Procs -> Steps] /\ job' \in [Procs -> Jobs]
           /\ JobsTyped'
<1>1. Goto(p, "idle", NoJob)
  BY DEF Stop
<1>2. "idle" \in Steps
  BY DEF Steps
<1>3. QED
  BY <1>1, <1>2, NoJobTyped, GotoTyped

LEMMA ContinueTyped ==
    ASSUME Typed, NEW p \in Procs, pc[p] \in {"save", "unlink"}, Continue(p)
    PROVE  /\ pc' \in [Procs -> Steps] /\ job' \in [Procs -> Jobs]
           /\ JobsTyped' /\ clean' \subseteq clean
<1>1. CASE job[p].rest = {}
  BY <1>1, StopTyped DEF Continue
<1>2. CASE job[p].rest # {}
  <2> DEFINE j == [NoJob EXCEPT !.config = job[p].config, !.keep = job[p].keep,
                                !.rest = job[p].rest]
  <2>1. Goto(p, "next", j) /\ clean' = clean
    BY <1>2 DEF Continue
  <2>2. job[p] \in Jobs /\ job[p].config \in Config
    BY DEF Typed, TypeOK, JobsTyped, JobAt
  <2>3. JobAt("next", j) /\ "next" \in Steps
    BY <2>2 DEF JobAt, NoJob, Jobs, Steps, SealSteps, InitSteps, OpenSteps
  <2> HIDE DEF j
  <2>4. QED
    BY <2>1, <2>3, GotoTyped
<1>3. QED
  BY <1>1, <1>2

(***************************************************************************)
(* Types.                                                                  *)
(***************************************************************************)
THEOREM InitTyped == Init => Typed
<1> SUFFICES ASSUME Init PROVE Typed
  OBVIOUS
<1>1. NoJob \in Jobs
  BY NoJobTyped DEF JobAt
<1>2. TypeOK
  <2>1. pc \in [Procs -> SealSteps \cup InitSteps \cup OpenSteps \cup {"idle"}]
    BY DEF Init
  <2>2. content \in [Files -> Contents \cup {None}]
    BY DEF Init, Contents
  <2>3. job \in [Procs -> Jobs]
    BY <1>1 DEF Init
  <2>4. made \in BOOLEAN /\ raced \in BOOLEAN /\ mixed \in BOOLEAN
    BY DEF Init
  <2>5. QED
    BY <2>1, <2>2, <2>3, <2>4, BoundsAssumption DEF Init, TypeOK
<1>3. JobsTyped
  BY NoJobTyped DEF JobsTyped, Init
<1>4. QED
  BY <1>2, <1>3 DEF Typed

THEOREM NextTyped == Typed /\ [Next]_vars => Typed'
<1> SUFFICES ASSUME Typed, [Next]_vars PROVE Typed'
  OBVIOUS
<1>1. ASSUME NEW p \in Procs, MakeDirs(p) PROVE Typed'
  <2>0. job[p] \in Jobs /\ JobAt(pc[p], job[p])
    BY DEF Typed, TypeOK, JobsTyped
  <2> DEFINE j == job[p]
  <2>1. Goto(p, "ledger", j)
    BY <1>1 DEF MakeDirs
  <2>2. JobAt("ledger", j) /\ "ledger" \in Steps
    BY <1>1, <2>0 DEF MakeDirs, JobAt, Jobs, Steps, SealSteps, InitSteps, OpenSteps
  <2> HIDE DEF j
  <2>3. pc' \in [Procs -> Steps] /\ job' \in [Procs -> Jobs] /\ JobsTyped'
    BY <2>1, <2>2, GotoTyped
  <2>4. TypeOK'
    BY <1>1, <2>0, <2>3 DEF Typed, TypeOK, MakeDirs, history, vault, Steps
  <2>5. QED
    BY <2>3, <2>4 DEF Typed
<1>2. ASSUME NEW p \in Procs, CopyLedger(p) PROVE Typed'
  <2>0. job[p] \in Jobs /\ JobAt(pc[p], job[p])
    BY DEF Typed, TypeOK, JobsTyped
  <2> DEFINE j == job[p]
  <2>1. Goto(p, "corpus", j)
    BY <1>2 DEF CopyLedger
  <2>2. JobAt("corpus", j) /\ "corpus" \in Steps
    BY <1>2, <2>0 DEF CopyLedger, JobAt, Jobs, Steps, SealSteps, InitSteps, OpenSteps
  <2> HIDE DEF j
  <2>3. pc' \in [Procs -> Steps] /\ job' \in [Procs -> Jobs] /\ JobsTyped'
    BY <2>1, <2>2, GotoTyped
  <2>4. TypeOK'
    BY <1>2, <2>0, <2>3
       DEF Typed, TypeOK, CopyLedger, history, vault, Steps, JobAt, SealSteps, InitSteps,
           OpenSteps
  <2>5. QED
    BY <2>3, <2>4 DEF Typed
<1>3. ASSUME NEW p \in Procs, CopyCorpus(p) PROVE Typed'
  <2>0. job[p] \in Jobs /\ JobAt(pc[p], job[p])
    BY DEF Typed, TypeOK, JobsTyped
  <2> DEFINE j == job[p]
  <2>1. Goto(p, "vaultkey", j)
    BY <1>3 DEF CopyCorpus
  <2>2. JobAt("vaultkey", j) /\ "vaultkey" \in Steps
    BY <1>3, <2>0 DEF CopyCorpus, JobAt, Jobs, Steps, SealSteps, InitSteps, OpenSteps
  <2> HIDE DEF j
  <2>3. pc' \in [Procs -> Steps] /\ job' \in [Procs -> Jobs] /\ JobsTyped'
    BY <2>1, <2>2, GotoTyped
  <2>4. TypeOK'
    BY <1>3, <2>0, <2>3
       DEF Typed, TypeOK, CopyCorpus, history, vault, Steps, JobAt, SealSteps, InitSteps,
           OpenSteps
  <2>5. QED
    BY <2>3, <2>4 DEF Typed
<1>4. ASSUME NEW p \in Procs, WriteKey(p) PROVE Typed'
  <2>0. job[p] \in Jobs /\ JobAt(pc[p], job[p])
    BY DEF Typed, TypeOK, JobsTyped
  <2> DEFINE j == job[p]
  <2>1. Goto(p, "config", j)
    BY <1>4 DEF WriteKey
  <2>2. JobAt("config", j) /\ "config" \in Steps
    BY <1>4, <2>0 DEF WriteKey, JobAt, Jobs, Steps, SealSteps, InitSteps, OpenSteps
  <2> HIDE DEF j
  <2>3. pc' \in [Procs -> Steps] /\ job' \in [Procs -> Jobs] /\ JobsTyped'
    BY <2>1, <2>2, GotoTyped
  <2>4. TypeOK'
    BY <1>4, <2>0, <2>3
       DEF Typed, TypeOK, WriteKey, history, vault, Steps, JobAt, SealSteps, InitSteps,
           OpenSteps, Config
  <2>5. QED
    BY <2>3, <2>4 DEF Typed
<1>5. ASSUME NEW p \in Procs, ReadSource(p) PROVE Typed'
  <2>0. job[p] \in Jobs /\ JobAt(pc[p], job[p])
    BY DEF Typed, TypeOK, JobsTyped
  <2> DEFINE j == [job[p] EXCEPT !.text = content[job[p].file]]
  <2>1. Goto(p, "key", j)
    BY <1>5 DEF ReadSource
  <2>2. JobAt("key", j) /\ "key" \in Steps
    BY <1>5, <2>0
       DEF ReadSource, JobAt, Jobs, Steps, SealSteps, InitSteps, OpenSteps, Typed, TypeOK
  <2> HIDE DEF j
  <2>3. pc' \in [Procs -> Steps] /\ job' \in [Procs -> Jobs] /\ JobsTyped'
    BY <2>1, <2>2, GotoTyped
  <2>4. TypeOK'
    BY <1>5, <2>0, <2>3 DEF Typed, TypeOK, ReadSource, history, vault, Steps
  <2>5. QED
    BY <2>3, <2>4 DEF Typed
<1>6. ASSUME NEW p \in Procs, ReadKey(p) PROVE Typed'
  <2>0. job[p] \in Jobs /\ JobAt(pc[p], job[p])
    BY DEF Typed, TypeOK, JobsTyped
  <2> DEFINE j == [job[p] EXCEPT !.key = caller_key(job[p].config)]
  <2>1. Goto(p, "evidence", j)
    BY <1>6 DEF ReadKey
  <2>2. caller_key(job[p].config) \in Keys
    BY <1>6, <2>0
       DEF ReadKey, JobAt, Jobs, Steps, SealSteps, InitSteps, OpenSteps, caller_key,
           Readable, Keys, Config, Typed, TypeOK
  <2>3. JobAt("evidence", j) /\ "evidence" \in Steps
    BY <1>6, <2>0, <2>2 DEF ReadKey, JobAt, Jobs, Steps, SealSteps, InitSteps, OpenSteps
  <2> HIDE DEF j
  <2>4. pc' \in [Procs -> Steps] /\ job' \in [Procs -> Jobs] /\ JobsTyped'
    BY <2>1, <2>3, GotoTyped
  <2>5. TypeOK'
    BY <1>6, <2>0, <2>4 DEF Typed, TypeOK, ReadKey, history, vault, Steps
  <2>6. QED
    BY <2>4, <2>5 DEF Typed
<1>7. ASSUME NEW p \in Procs, ReadEvidence(p) PROVE Typed'
  <2>0. job[p] \in Jobs /\ JobAt(pc[p], job[p])
    BY DEF Typed, TypeOK, JobsTyped
  <2> DEFINE j == [job[p] EXCEPT !.envelope = Envelope(job[p].text, job[p].key, job[p].config.policy)]
  <2>1. Goto(p, "store", j)
    BY <1>7 DEF ReadEvidence
  <2>2. JobAt("store", j) /\ "store" \in Steps
    BY <1>7, <2>0
       DEF ReadEvidence, JobAt, Jobs, Steps, SealSteps, InitSteps, OpenSteps, Envelopes,
           Envelope, Tag
  <2> HIDE DEF j
  <2>3. pc' \in [Procs -> Steps] /\ job' \in [Procs -> Jobs] /\ JobsTyped'
    BY <2>1, <2>2, GotoTyped
  <2>4. TypeOK'
    BY <1>7, <2>0, <2>3 DEF Typed, TypeOK, ReadEvidence, history, vault, Steps
  <2>5. QED
    BY <2>3, <2>4 DEF Typed
<1>8. ASSUME NEW p \in Procs, WriteStore(p) PROVE Typed'
  <2>0. job[p] \in Jobs /\ JobAt(pc[p], job[p])
    BY DEF Typed, TypeOK, JobsTyped
  <2> DEFINE j == job[p]
  <2>1. Goto(p, "load", j)
    BY <1>8 DEF WriteStore
  <2>2. JobAt("load", j) /\ "load" \in Steps
    BY <1>8, <2>0 DEF WriteStore, JobAt, Jobs, Steps, SealSteps, InitSteps, OpenSteps
  <2> HIDE DEF j
  <2>3. pc' \in [Procs -> Steps] /\ job' \in [Procs -> Jobs] /\ JobsTyped'
    BY <2>1, <2>2, GotoTyped
  <2>4. TypeOK'
    BY <1>8, <2>0, <2>3
       DEF Typed, TypeOK, WriteStore, history, vault, Steps, JobAt, SealSteps, InitSteps,
           OpenSteps
  <2>5. QED
    BY <2>3, <2>4 DEF Typed
<1>9. ASSUME NEW p \in Procs, LoadIndex(p) PROVE Typed'
  <2>0. job[p] \in Jobs /\ JobAt(pc[p], job[p])
    BY DEF Typed, TypeOK, JobsTyped
  <2> DEFINE j == [job[p] EXCEPT !.index = index]
  <2>1. Goto(p, "save", j)
    BY <1>9 DEF LoadIndex
  <2>2. JobAt("save", j) /\ "save" \in Steps
    BY <1>9, <2>0
       DEF LoadIndex, JobAt, Jobs, Steps, SealSteps, InitSteps, OpenSteps, Typed, TypeOK
  <2> HIDE DEF j
  <2>3. pc' \in [Procs -> Steps] /\ job' \in [Procs -> Jobs] /\ JobsTyped'
    BY <2>1, <2>2, GotoTyped
  <2>4. TypeOK'
    BY <1>9, <2>0, <2>3 DEF Typed, TypeOK, LoadIndex, history, vault, Steps
  <2>5. QED
    BY <2>3, <2>4 DEF Typed
<1>10. ASSUME NEW p \in Procs, Overwrite(p) PROVE Typed'
  <2>0. job[p] \in Jobs /\ JobAt(pc[p], job[p])
    BY DEF Typed, TypeOK, JobsTyped
  <2> DEFINE j == job[p]
  <2>1. Goto(p, "unlink", j)
    BY <1>10 DEF Overwrite
  <2>2. JobAt("unlink", j) /\ "unlink" \in Steps
    BY <1>10, <2>0 DEF Overwrite, JobAt, Jobs, Steps, SealSteps, InitSteps, OpenSteps
  <2> HIDE DEF j
  <2>3. pc' \in [Procs -> Steps] /\ job' \in [Procs -> Jobs] /\ JobsTyped'
    BY <2>1, <2>2, GotoTyped
  <2>4. TypeOK'
    BY <1>10, <2>0, <2>3
       DEF Typed, TypeOK, Overwrite, history, vault, Steps, JobAt, SealSteps, InitSteps,
           OpenSteps, Destroyed, Contents
  <2>5. QED
    BY <2>3, <2>4 DEF Typed
<1>11. ASSUME NEW p \in Procs, ReadEnvelope(p) PROVE Typed'
  <2>0. job[p] \in Jobs /\ JobAt(pc[p], job[p])
    BY DEF Typed, TypeOK, JobsTyped
  <2> DEFINE j == [job[p] EXCEPT !.envelope = store[job[p].name]]
  <2>1. Goto(p, "openkey", j)
    BY <1>11 DEF ReadEnvelope
  <2>2. JobAt("openkey", j) /\ "openkey" \in Steps
    BY <1>11, <2>0
       DEF ReadEnvelope, JobAt, Jobs, Steps, SealSteps, InitSteps, OpenSteps, Typed, TypeOK
  <2> HIDE DEF j
  <2>3. pc' \in [Procs -> Steps] /\ job' \in [Procs -> Jobs] /\ JobsTyped'
    BY <2>1, <2>2, GotoTyped
  <2>4. TypeOK'
    BY <1>11, <2>0, <2>3 DEF Typed, TypeOK, ReadEnvelope, history, vault, Steps
  <2>5. QED
    BY <2>3, <2>4 DEF Typed
<1>12. ASSUME NEW p \in Procs, ReadOpenKey(p) PROVE Typed'
  <2>0. job[p] \in Jobs /\ JobAt(pc[p], job[p])
    BY DEF Typed, TypeOK, JobsTyped
  <2> DEFINE j == [job[p] EXCEPT !.key = caller_key(job[p].config)]
  <2>1. Goto(p, "open", j)
    BY <1>12 DEF ReadOpenKey
  <2>2. caller_key(job[p].config) \in Keys
    BY <1>12, <2>0
       DEF ReadOpenKey, JobAt, Jobs, Steps, SealSteps, InitSteps, OpenSteps, caller_key,
           Readable, Keys, Config, Typed, TypeOK
  <2>3. JobAt("open", j) /\ "open" \in Steps
    BY <1>12, <2>0, <2>2
       DEF ReadOpenKey, JobAt, Jobs, Steps, SealSteps, InitSteps, OpenSteps
  <2> HIDE DEF j
  <2>4. pc' \in [Procs -> Steps] /\ job' \in [Procs -> Jobs] /\ JobsTyped'
    BY <2>1, <2>3, GotoTyped
  <2>5. TypeOK'
    BY <1>12, <2>0, <2>4 DEF Typed, TypeOK, ReadOpenKey, history, vault, Steps
  <2>6. QED
    BY <2>4, <2>5 DEF Typed
<1>13. ASSUME NEW p \in Procs, OpenEnvelope(p) PROVE Typed'
  <2>0. job[p] \in Jobs /\ JobAt(pc[p], job[p])
    BY DEF Typed, TypeOK, JobsTyped
  <2> DEFINE j == [job[p] EXCEPT !.text = job[p].envelope.text]
  <2>1. Goto(p, "restore", j)
    BY <1>13 DEF OpenEnvelope
  <2>2. JobAt("restore", j) /\ "restore" \in Steps
    BY <1>13, <2>0
       DEF OpenEnvelope, JobAt, Jobs, Steps, SealSteps, InitSteps, OpenSteps, Envelopes
  <2> HIDE DEF j
  <2>3. pc' \in [Procs -> Steps] /\ job' \in [Procs -> Jobs] /\ JobsTyped'
    BY <2>1, <2>2, GotoTyped
  <2>4. TypeOK'
    BY <1>13, <2>0, <2>3 DEF Typed, TypeOK, OpenEnvelope, history, vault, Steps
  <2>5. QED
    BY <2>3, <2>4 DEF Typed
<1>14. ASSUME NEW p \in Procs, StartInit(p) PROVE Typed'
  <2>0. job[p] \in Jobs /\ JobAt(pc[p], job[p])
    BY DEF Typed, TypeOK, JobsTyped
  <2>1. PICK l \in Ledgers, c \in Corpora, policy \in Policies,
               mode \in {"passphrase", "keyfile"} :
          Goto(p, "mkdirs", [NoJob EXCEPT
             !.ledger = l, !.corpus = c,
             !.config = [policy |-> policy, mode |-> mode, serial |-> inits]])
    BY <1>14 DEF StartInit
  <2> DEFINE j == [NoJob EXCEPT !.ledger = l, !.corpus = c,
                       !.config = [policy |-> policy, mode |-> mode, serial |-> inits]]
  <2>2. JobAt("mkdirs", j) /\ "mkdirs" \in Steps
    <3>1. [policy |-> policy, mode |-> mode, serial |-> inits] \in Config
      BY DEF Config, Typed, TypeOK
    <3>2. QED
      BY <3>1, NoJobTyped DEF JobAt, Jobs, Steps, SealSteps, InitSteps, OpenSteps, NoJob
  <2>3. Goto(p, "mkdirs", j)
    BY <2>1
  <2> HIDE DEF j
  <2>4. pc' \in [Procs -> Steps] /\ job' \in [Procs -> Jobs] /\ JobsTyped'
    BY <2>2, <2>3, GotoTyped
  <2>5. clean' \subseteq Procs
    BY <1>14, <2>1 DEF Typed, TypeOK, StartInit, Running
  <2>6. TypeOK'
    BY <1>14, <2>4, <2>5, BoundsAssumption
       DEF Typed, TypeOK, StartInit, Counted, history, vault, Steps
  <2>7. QED
    BY <2>4, <2>6 DEF Typed
<1>15. ASSUME NEW p \in Procs, StartSeal(p) PROVE Typed'
  <2>0. job[p] \in Jobs /\ JobAt(pc[p], job[p])
    BY DEF Typed, TypeOK, JobsTyped
  <2>1. PICK f \in Files, n \in Names, keep \in BOOLEAN :
          /\ Goto(p, "read", [NoJob EXCEPT !.config = config, !.file = f, !.name = n,
                                           !.keep = keep])
          /\ clean' = IF Rivals(p, f, n) \cup Running(InitSteps) = {}
                      THEN clean \cup {p}
                      ELSE clean \ Rivals(p, f, n)
    BY <1>15 DEF StartSeal
  <2> DEFINE j == [NoJob EXCEPT !.config = config, !.file = f, !.name = n, !.keep = keep]
  <2>2. JobAt("read", j) /\ "read" \in Steps
    <3>1. config \in Config
      BY <1>15 DEF StartSeal, Typed, TypeOK
    <3>2. QED
      BY <3>1, NoJobTyped DEF JobAt, Jobs, Steps, SealSteps, InitSteps, OpenSteps, NoJob
  <2>3. Goto(p, "read", j)
    BY <2>1
  <2> HIDE DEF j
  <2>4. pc' \in [Procs -> Steps] /\ job' \in [Procs -> Jobs] /\ JobsTyped'
    BY <2>2, <2>3, GotoTyped
  <2>5. clean' \subseteq Procs
    BY <1>15, <2>1 DEF Typed, TypeOK, StartSeal, Running
  <2>6. TypeOK'
    BY <1>15, <2>4, <2>5, BoundsAssumption
       DEF Typed, TypeOK, StartSeal, Counted, history, vault, Steps
  <2>7. QED
    BY <2>4, <2>6 DEF Typed
<1>16. ASSUME NEW p \in Procs, StartAutoseal(p) PROVE Typed'
  <2>0. job[p] \in Jobs /\ JobAt(pc[p], job[p])
    BY DEF Typed, TypeOK, JobsTyped
  <2>1. PICK targets \in SUBSET Files, keep \in BOOLEAN :
          Goto(p, "next", [NoJob EXCEPT !.config = config, !.keep = keep, !.rest = targets])
    BY <1>16 DEF StartAutoseal
  <2> DEFINE j == [NoJob EXCEPT !.config = config, !.keep = keep, !.rest = targets]
  <2>2. JobAt("next", j) /\ "next" \in Steps
    <3>1. config \in Config
      BY <1>16 DEF StartAutoseal, Typed, TypeOK
    <3>2. QED
      BY <3>1, NoJobTyped DEF JobAt, Jobs, Steps, SealSteps, InitSteps, OpenSteps, NoJob
  <2>3. Goto(p, "next", j)
    BY <2>1
  <2> HIDE DEF j
  <2>4. pc' \in [Procs -> Steps] /\ job' \in [Procs -> Jobs] /\ JobsTyped'
    BY <2>2, <2>3, GotoTyped
  <2>5. clean' \subseteq Procs
    BY <1>16, <2>1 DEF Typed, TypeOK, StartAutoseal, Running
  <2>6. TypeOK'
    BY <1>16, <2>4, <2>5, BoundsAssumption
       DEF Typed, TypeOK, StartAutoseal, Counted, history, vault, Steps
  <2>7. QED
    BY <2>4, <2>6 DEF Typed
<1>17. ASSUME NEW p \in Procs, StartOpen(p) PROVE Typed'
  <2>0. job[p] \in Jobs /\ JobAt(pc[p], job[p])
    BY DEF Typed, TypeOK, JobsTyped
  <2>1. PICK n \in Names, f \in Files :
          Goto(p, "envelope", [NoJob EXCEPT !.config = config, !.name = n, !.file = f])
    BY <1>17 DEF StartOpen
  <2> DEFINE j == [NoJob EXCEPT !.config = config, !.name = n, !.file = f]
  <2>2. JobAt("envelope", j) /\ "envelope" \in Steps
    <3>1. config \in Config
      BY <1>17 DEF StartOpen, Typed, TypeOK
    <3>2. QED
      BY <3>1, NoJobTyped DEF JobAt, Jobs, Steps, SealSteps, InitSteps, OpenSteps, NoJob
  <2>3. Goto(p, "envelope", j)
    BY <2>1
  <2> HIDE DEF j
  <2>4. pc' \in [Procs -> Steps] /\ job' \in [Procs -> Jobs] /\ JobsTyped'
    BY <2>2, <2>3, GotoTyped
  <2>5. clean' \subseteq Procs
    BY <1>17, <2>1 DEF Typed, TypeOK, StartOpen, history
  <2>6. TypeOK'
    BY <1>17, <2>4, <2>5, BoundsAssumption
       DEF Typed, TypeOK, StartOpen, Counted, history, vault, Steps
  <2>7. QED
    BY <2>4, <2>6 DEF Typed
<1>18. ASSUME NEW p \in Procs, WriteConfig(p) PROVE Typed'
  <2>0. job[p] \in Jobs /\ JobAt(pc[p], job[p])
    BY DEF Typed, TypeOK, JobsTyped
  <2>1. Stop(p)
    BY <1>18 DEF WriteConfig
  <2>2. pc' \in [Procs -> Steps] /\ job' \in [Procs -> Jobs] /\ JobsTyped'
    BY <2>1, StopTyped
  <2>3. TypeOK'
    BY <1>18, <2>0, <2>2, BoundsAssumption
   
       DEF Typed, TypeOK, WriteConfig, history, vault, Steps, JobAt, SealSteps, InitSteps,
           OpenSteps
  <2>4. QED
    BY <2>2, <2>3 DEF Typed
<1>19. ASSUME NEW p \in Procs, Restore(p) PROVE Typed'
  <2>0. job[p] \in Jobs /\ JobAt(pc[p], job[p])
    BY DEF Typed, TypeOK, JobsTyped
  <2>1. Stop(p)
    BY <1>19 DEF Restore
  <2>2. pc' \in [Procs -> Steps] /\ job' \in [Procs -> Jobs] /\ JobsTyped'
    BY <2>1, StopTyped
  <2>3. TypeOK'
    BY <1>19, <2>0, <2>2, BoundsAssumption
   
       DEF Typed, TypeOK, Restore, history, vault, Steps, JobAt, SealSteps, InitSteps,
           OpenSteps, Touched
  <2>4. QED
    BY <2>2, <2>3 DEF Typed
<1>20. ASSUME NEW p \in Procs, Refuse(p) PROVE Typed'
  <2>0. job[p] \in Jobs /\ JobAt(pc[p], job[p])
    BY DEF Typed, TypeOK, JobsTyped
  <2>1. Stop(p)
    BY <1>20 DEF Refuse
  <2>2. pc' \in [Procs -> Steps] /\ job' \in [Procs -> Jobs] /\ JobsTyped'
    BY <2>1, StopTyped
  <2>3. TypeOK'
    BY <1>20, <2>0, <2>2, BoundsAssumption
    DEF Typed, TypeOK, Refuse, history, vault, Steps, JobAt, SealSteps, InitSteps, OpenSteps
  <2>4. QED
    BY <2>2, <2>3 DEF Typed
<1>21. ASSUME NEW p \in Procs, Die(p) PROVE Typed'
  <2>0. job[p] \in Jobs /\ JobAt(pc[p], job[p])
    BY DEF Typed, TypeOK, JobsTyped
  <2>1. Stop(p)
    BY <1>21 DEF Die
  <2>2. pc' \in [Procs -> Steps] /\ job' \in [Procs -> Jobs] /\ JobsTyped'
    BY <2>1, StopTyped
  <2>3. TypeOK'
    BY <1>21, <2>0, <2>2, BoundsAssumption
    DEF Typed, TypeOK, Die, history, vault, Steps, JobAt, SealSteps, InitSteps, OpenSteps
  <2>4. QED
    BY <2>2, <2>3 DEF Typed
<1>22. ASSUME NEW p \in Procs, NextFile(p) PROVE Typed'
  <2>0. job[p] \in Jobs /\ JobAt(pc[p], job[p])
    BY DEF Typed, TypeOK, JobsTyped
  <2>1. PICK f \in job[p].rest :
          LET rest == job[p].rest \ {f} IN
          \/ Goto(p, "next", [job[p] EXCEPT !.rest = rest]) /\ UNCHANGED clean
          \/ /\ Goto(p, "read", [job[p] EXCEPT !.file = f, !.name = _safe_name(f),
                                              !.rest = rest])
             /\ clean' \subseteq clean
    BY <1>22 DEF NextFile
  <2> DEFINE j1 == [job[p] EXCEPT !.rest = job[p].rest \ {f}]
             j2 == [job[p] EXCEPT !.file = f, !.name = _safe_name(f),
                                  !.rest = job[p].rest \ {f}]
  <2>2. f \in Files
    BY <2>0 DEF Jobs
  <2>3. /\ JobAt("next", j1) /\ "next" \in Steps
        /\ JobAt("read", j2) /\ "read" \in Steps
    <3>1. pc[p] = "next" /\ f \in Names /\ _safe_name(f) = f
      BY <1>22, <2>2 DEF NextFile, Names, _safe_name
    <3>2. j1 \in Jobs /\ j2 \in Jobs /\ j1.config \in Config /\ j2.config \in Config
      BY <2>0, <2>2, <3>1 DEF JobAt, Jobs
    <3>3. j2.file = f /\ j2.name = f
      BY <2>0, <3>1 DEF Jobs
    <3>4. QED
      BY <2>2, <3>1, <3>2, <3>3 DEF JobAt, Steps, SealSteps, InitSteps, OpenSteps
  <2>4. Goto(p, "next", j1) \/ Goto(p, "read", j2)
    BY <2>1
  <2>5. clean' \subseteq Procs
    BY <2>1 DEF Typed, TypeOK
  <2> HIDE DEF j1, j2
  <2>6. pc' \in [Procs -> Steps] /\ job' \in [Procs -> Jobs] /\ JobsTyped'
    BY <2>3, <2>4, GotoTyped
  <2>7. TypeOK'
    BY <1>22, <2>5, <2>6 DEF Typed, TypeOK, NextFile, history, vault, Steps
  <2>8. QED
    BY <2>6, <2>7 DEF Typed
<1>23. ASSUME NEW p \in Procs, SaveIndex(p) PROVE Typed'
  <2>0. job[p] \in Jobs /\ JobAt(pc[p], job[p])
    BY DEF Typed, TypeOK, JobsTyped
  <2>1. Continue(p) \/ (Goto(p, "wipe", job[p]) /\ clean' = clean)
    BY <1>23 DEF SaveIndex
  <2>2. JobAt("wipe", job[p]) /\ "wipe" \in Steps
    BY <1>23, <2>0 DEF SaveIndex, JobAt, Jobs, Steps, SealSteps, InitSteps, OpenSteps
  <2>3. pc[p] \in {"save", "unlink"}
    BY <1>23 DEF SaveIndex
  <2>4. pc' \in [Procs -> Steps] /\ job' \in [Procs -> Jobs] /\ JobsTyped' /\ clean' \subseteq clean
    BY <2>1, <2>2, <2>3, GotoTyped, ContinueTyped
  <2>5. index' \in [Names -> Envelopes \cup {None}] /\ stale' \subseteq Names
    BY <1>23, <2>0 DEF SaveIndex, JobAt, SealSteps, InitSteps, OpenSteps, Typed, TypeOK
  <2>6. TypeOK'
    BY <1>23, <2>4, <2>5 DEF Typed, TypeOK, SaveIndex, Steps
  <2>7. QED
    BY <2>4, <2>6 DEF Typed
<1>24. ASSUME NEW p \in Procs, Unlink(p) PROVE Typed'
  <2>1. Continue(p) /\ pc[p] \in {"save", "unlink"}
    BY <1>24 DEF Unlink
  <2>2. pc' \in [Procs -> Steps] /\ job' \in [Procs -> Jobs] /\ JobsTyped' /\ clean' \subseteq clean
    BY <2>1, ContinueTyped
  <2>3. TypeOK'
    BY <1>24, <2>2 DEF Typed, TypeOK, Unlink, Destroyed, vault, Steps
  <2>4. QED
    BY <2>2, <2>3 DEF Typed
<1>25. ASSUME NEW f \in Files, Edit(f) PROVE Typed'
  <2>1. JobsTyped'
    BY <1>25 DEF Edit, Typed, JobsTyped
  <2>2. TypeOK'
    BY <1>25, BoundsAssumption DEF Typed, TypeOK, Edit, vault, Contents
  <2>3. QED
    BY <2>1, <2>2 DEF Typed
<1>26. CASE UNCHANGED vars
  BY <1>26 DEF vars, vault, history, Typed, TypeOK, JobsTyped
<1>27. QED
  BY <1>1, <1>2, <1>3, <1>4, <1>5, <1>6, <1>7, <1>8, <1>9, <1>10, <1>11, <1>12, <1>13,
         <1>14,
     <1>15, <1>16, <1>17, <1>18, <1>19, <1>20, <1>21, <1>22, <1>23, <1>24, <1>25, <1>26
  DEF Next, InitVault, Seal, Open

LEMMA AlwaysTyped == Spec => []Typed
BY InitTyped, NextTyped, PTL DEF Spec

(* TypeOK: every variable holds what its type says, and every envelope,    *)
(* stored, indexed or on its way, was sealed under evidence that satisfies *)
(* its policy (envelope.seal).                                             *)
THEOREM TypeCorrect == Spec => []TypeOK
<1>1. Typed => TypeOK
  BY DEF Typed
<1>2. QED
  BY <1>1, AlwaysTyped, PTL

(***************************************************************************)
(* What a step changes, and where it takes a command.                      *)
(***************************************************************************)
(* What each variable is changed by. *)
ChangedBy ==
    /\ config' = config \/ \E p \in Procs : WriteConfig(p)
    /\ keyFile' = keyFile \/ \E p \in Procs : WriteKey(p)
    /\ ledger' = ledger \/ \E p \in Procs : CopyLedger(p)
    /\ corpus' = corpus \/ \E p \in Procs : CopyCorpus(p)
    /\ store' = store \/ \E p \in Procs : WriteStore(p)
    /\ index' = index \/ \E p \in Procs : SaveIndex(p)
    /\ \/ content' = content
       \/ \E p \in Procs : Overwrite(p) \/ Unlink(p) \/ Restore(p)
       \/ \E f \in Files : Edit(f)
    /\ \/ wiped' = wiped
       \/ \E p \in Procs : CopyLedger(p) \/ WriteStore(p) \/ Overwrite(p) \/ Unlink(p)
    /\ raced' = raced \/ \E p \in Procs : WriteStore(p)
    /\ stale' = stale \/ \E p \in Procs : SaveIndex(p) \/ Die(p)
    /\ mixed' = mixed \/ \E p \in Procs : WriteConfig(p) \/ Die(p)

LEMMA Frame == ASSUME [Next]_vars PROVE ChangedBy
<1>1. ASSUME NEW p \in Procs, InitVault(p) PROVE ChangedBy
  BY <1>1
     DEF ChangedBy, InitVault, StartInit, MakeDirs, CopyLedger, CopyCorpus, WriteKey,
         WriteConfig,
              vault, history
<1>2. ASSUME NEW p \in Procs, Seal(p) PROVE ChangedBy
  BY <1>2
     DEF ChangedBy, Seal, StartSeal, StartAutoseal, NextFile, ReadSource, ReadKey,
         ReadEvidence,
              WriteStore, LoadIndex, SaveIndex, Overwrite, Unlink, vault, history
<1>3. ASSUME NEW p \in Procs, Open(p) PROVE ChangedBy
  BY <1>3
     DEF ChangedBy, Open, StartOpen, ReadEnvelope, ReadOpenKey, OpenEnvelope, Restore,
         vault, history
<1>4. ASSUME NEW p \in Procs, Refuse(p) \/ Die(p) PROVE ChangedBy
  BY <1>4 DEF ChangedBy, Refuse, Die, vault
<1>5. ASSUME NEW f \in Files, Edit(f) PROVE ChangedBy
  BY <1>5 DEF ChangedBy, Edit, vault
<1>6. CASE UNCHANGED vars
  BY <1>6 DEF ChangedBy, vars, vault, history
<1>7. QED
  BY <1>1, <1>2, <1>3, <1>4, <1>5, <1>6 DEF Next

(* Where a command q can be after a step, and by which step it came there. *)
Arrived(q) ==
    \/ pc'[q] = pc[q] /\ job'[q] = job[q]
    \/ /\ WriteConfig(q) \/ SaveIndex(q) \/ Unlink(q) \/ Restore(q) \/ Refuse(q) \/ Die(q)
       /\ pc'[q] = "idle" /\ job'[q] = NoJob
    \/ StartInit(q) /\ pc'[q] = "mkdirs"
    \/ MakeDirs(q) /\ pc'[q] = "ledger" /\ job'[q] = job[q]
    \/ CopyLedger(q) /\ pc'[q] = "corpus" /\ job'[q] = job[q]
    \/ CopyCorpus(q) /\ pc'[q] = "vaultkey" /\ job'[q] = job[q]
    \/ WriteKey(q) /\ pc'[q] = "config" /\ job'[q] = job[q]
    \/ StartSeal(q) /\ pc'[q] = "read" /\ job'[q].config = config
    \/ StartAutoseal(q) /\ pc'[q] = "next" /\ job'[q].config = config
    \/ NextFile(q) /\ pc'[q] \in {"next", "read"} /\ job'[q].config = job[q].config
    \/ ReadSource(q) /\ pc'[q] = "key"
       /\ job'[q] = [job[q] EXCEPT !.text = content[job[q].file]]
    \/ ReadKey(q) /\ pc'[q] = "evidence"
       /\ job'[q] = [job[q] EXCEPT !.key = caller_key(job[q].config)]
    \/ ReadEvidence(q) /\ pc'[q] = "store"
       /\ job'[q] = [job[q] EXCEPT
            !.envelope = Envelope(job[q].text, job[q].key, job[q].config.policy)]
    \/ WriteStore(q) /\ pc'[q] = "load" /\ job'[q] = job[q]
    \/ LoadIndex(q) /\ pc'[q] = "save" /\ job'[q] = [job[q] EXCEPT !.index = index]
    \/ SaveIndex(q) /\ pc'[q] = "wipe" /\ job'[q] = job[q]
    \/ (SaveIndex(q) \/ Unlink(q)) /\ pc'[q] = "next" /\ job'[q].config = job[q].config
    \/ Overwrite(q) /\ pc'[q] = "unlink" /\ job'[q] = job[q]
    \/ StartOpen(q) /\ pc'[q] = "envelope"
    \/ ReadEnvelope(q) /\ pc'[q] = "openkey"
    \/ ReadOpenKey(q) /\ pc'[q] = "open"
    \/ OpenEnvelope(q) /\ pc'[q] = "restore"

LEMMA Arrivals ==
    ASSUME Typed, [Next]_vars, NEW q \in Procs
    PROVE  Arrived(q)
<1>1. ASSUME NEW p \in Procs, p # q,
             InitVault(p) \/ Seal(p) \/ Open(p) \/ Refuse(p) \/ Die(p)
      PROVE  pc'[q] = pc[q] /\ job'[q] = job[q]
  <2>1. \E step, j : Goto(p, step, j)
    BY <1>1 DEF InitVault, Seal, Open, Refuse, Die, Stop, Continue,
       StartInit, MakeDirs, CopyLedger, CopyCorpus, WriteKey, WriteConfig,
       StartSeal, StartAutoseal, NextFile, ReadSource, ReadKey, ReadEvidence,
       WriteStore, LoadIndex, SaveIndex, Overwrite, Unlink,
       StartOpen, ReadEnvelope, ReadOpenKey, OpenEnvelope, Restore
  <2>2. QED
    BY <1>1, <2>1, GotoFrame
<1>2. CASE InitVault(q)
  <2>1. CASE StartInit(q)
    BY <2>1, GotoFrame DEF Arrived, StartInit
  <2>2. CASE MakeDirs(q)
    BY <2>2, GotoFrame DEF Arrived, MakeDirs
  <2>3. CASE CopyLedger(q)
    BY <2>3, GotoFrame DEF Arrived, CopyLedger
  <2>4. CASE CopyCorpus(q)
    BY <2>4, GotoFrame DEF Arrived, CopyCorpus
  <2>5. CASE WriteKey(q)
    BY <2>5, GotoFrame DEF Arrived, WriteKey
  <2>6. CASE WriteConfig(q)
    BY <2>6, GotoFrame DEF Arrived, WriteConfig, Stop
  <2>7. QED
    BY <1>2, <2>1, <2>2, <2>3, <2>4, <2>5, <2>6 DEF InitVault
<1>3. CASE Seal(q)
  <2>1. CASE StartSeal(q)
    <3>1. PICK f \in Files, n \in Names, keep \in BOOLEAN :
            Goto(q, "read", [NoJob EXCEPT !.config = config, !.file = f, !.name = n,
                                          !.keep = keep])
      BY <2>1 DEF StartSeal
    <3> DEFINE j == [NoJob EXCEPT !.config = config, !.file = f, !.name = n, !.keep = keep]
    <3>2. j.config = config
      BY DEF NoJob
    <3> HIDE DEF j
    <3>3. Goto(q, "read", j)
      BY <3>1 DEF j
    <3>4. QED
      BY <2>1, <3>2, <3>3, GotoFrame DEF Arrived
  <2>2. CASE StartAutoseal(q)
    <3>1. PICK targets \in SUBSET Files, keep \in BOOLEAN :
            Goto(q, "next", [NoJob EXCEPT !.config = config, !.keep = keep, !.rest = targets])
      BY <2>2 DEF StartAutoseal
    <3> DEFINE j == [NoJob EXCEPT !.config = config, !.keep = keep, !.rest = targets]
    <3>2. j.config = config
      BY DEF NoJob
    <3> HIDE DEF j
    <3>3. Goto(q, "next", j)
      BY <3>1 DEF j
    <3>4. QED
      BY <2>2, <3>2, <3>3, GotoFrame DEF Arrived
  <2>3. CASE NextFile(q)
    <3>1. PICK f \in job[q].rest :
            \/ Goto(q, "next", [job[q] EXCEPT !.rest = job[q].rest \ {f}])
            \/ Goto(q, "read", [job[q] EXCEPT !.file = f, !.name = _safe_name(f),
                                              !.rest = job[q].rest \ {f}])
      BY <2>3 DEF NextFile
    <3> DEFINE j1 == [job[q] EXCEPT !.rest = job[q].rest \ {f}]
               j2 == [job[q] EXCEPT !.file = f, !.name = _safe_name(f),
                                    !.rest = job[q].rest \ {f}]
    <3>2. j1.config = job[q].config /\ j2.config = job[q].config
      BY DEF Typed, TypeOK, Jobs
    <3>3. Goto(q, "next", j1) \/ Goto(q, "read", j2)
      BY <3>1
    <3> HIDE DEF j1, j2
    <3>4. QED
      BY <2>3, <3>2, <3>3, GotoFrame DEF Arrived
  <2>4. CASE ReadSource(q)
    BY <2>4, GotoFrame DEF Arrived, ReadSource
  <2>5. CASE ReadKey(q)
    BY <2>5, GotoFrame DEF Arrived, ReadKey
  <2>6. CASE ReadEvidence(q)
    BY <2>6, GotoFrame DEF Arrived, ReadEvidence
  <2>7. CASE WriteStore(q)
    BY <2>7, GotoFrame DEF Arrived, WriteStore
  <2>8. CASE LoadIndex(q)
    BY <2>8, GotoFrame DEF Arrived, LoadIndex
  <2>9. CASE SaveIndex(q)
    <3> DEFINE j == [NoJob EXCEPT !.config = job[q].config, !.keep = job[q].keep,
                                  !.rest = job[q].rest]
    <3>1. j.config = job[q].config
      BY DEF NoJob
    <3>2. Stop(q) \/ Goto(q, "next", j) \/ Goto(q, "wipe", job[q])
      BY <2>9 DEF SaveIndex, Continue
    <3> HIDE DEF j
    <3>3. QED
      BY <2>9, <3>1, <3>2, GotoFrame DEF Arrived, Stop
  <2>10. CASE Overwrite(q)
    BY <2>10, GotoFrame DEF Arrived, Overwrite
  <2>11. CASE Unlink(q)
    <3> DEFINE j == [NoJob EXCEPT !.config = job[q].config, !.keep = job[q].keep,
                                  !.rest = job[q].rest]
    <3>1. j.config = job[q].config
      BY DEF NoJob
    <3>2. Stop(q) \/ Goto(q, "next", j) \/ Goto(q, "wipe", job[q])
      BY <2>11 DEF Unlink, Continue
    <3> HIDE DEF j
    <3>3. QED
      BY <2>11, <3>1, <3>2, GotoFrame DEF Arrived, Stop, Unlink, Continue
  <2>12. QED
    BY <1>3, <2>1, <2>2, <2>3, <2>4, <2>5, <2>6, <2>7, <2>8, <2>9, <2>10, <2>11 DEF Seal
<1>4. CASE Open(q)
  BY <1>4, GotoFrame DEF Arrived, Stop, Open,
     StartOpen, ReadEnvelope, ReadOpenKey, OpenEnvelope, Restore
<1>5. CASE Refuse(q) \/ Die(q)
  BY <1>5, GotoFrame DEF Arrived, Stop, Refuse, Die
<1>6. CASE (\E f \in Files : Edit(f)) \/ UNCHANGED vars
  BY <1>6 DEF Arrived, Edit, vars
<1>7. QED
  BY <1>1, <1>2, <1>3, <1>4, <1>5, <1>6 DEF Arrived, Next

(***************************************************************************)
(* The index and the store. A command that is going to save an index has   *)
(* its envelope in the store, and the index it loaded names stored entries *)
(* only: the store never loses one.                                        *)
(***************************************************************************)
IndexInv ==
    /\ IndexedIsStored
    /\ \A p \in Running({"load", "save"}) : store[job[p].name] # None
    /\ \A p \in Running({"save"}), n \in Names : job[p].index[n] # None => store[n] # None

LEMMA StoreGrows ==
    ASSUME Typed, [Next]_vars, NEW n \in Names, store[n] # None
    PROVE  store'[n] # None
<1>1. CASE store' = store
  BY <1>1
<1>2. ASSUME NEW p \in Procs, WriteStore(p) PROVE store'[n] # None
  <2>1. job[p].envelope \in Envelopes
    BY <1>2 DEF WriteStore, Typed, JobsTyped, JobAt
  <2>2. store'[n] = store[n] \/ store'[n] = job[p].envelope
    BY <1>2 DEF WriteStore, Typed, TypeOK
  <2>3. QED
    BY <2>1, <2>2, SentinelsAssumption
<1>3. QED
  BY <1>1, <1>2, Frame DEF ChangedBy

LEMMA IndexInvNext == Typed /\ IndexInv /\ [Next]_vars => IndexInv'
<1> SUFFICES ASSUME Typed, IndexInv, [Next]_vars PROVE IndexInv'
  OBVIOUS
<1>1. ASSUME NEW p \in Procs, pc'[p] \in {"load", "save"}
      PROVE  store'[job'[p].name] # None
  <2>1. CASE pc'[p] = pc[p] /\ job'[p] = job[p]
    <3>1. store[job[p].name] # None /\ job[p].name \in Names
      BY <1>1, <2>1 DEF IndexInv, Running, Typed, JobsTyped, JobAt, SealSteps, OpenSteps
    <3>2. QED
      BY <2>1, <3>1, StoreGrows
  <2>2. CASE WriteStore(p) /\ job'[p] = job[p]
    <3>1. job[p].envelope \in Envelopes /\ job[p].name \in Names
      BY <2>2 DEF WriteStore, Typed, JobsTyped, JobAt, SealSteps, OpenSteps
    <3>2. store'[job[p].name] = job[p].envelope
      BY <2>2, <3>1 DEF WriteStore, Typed, TypeOK
    <3>3. QED
      BY <2>2, <3>1, <3>2, SentinelsAssumption
  <2>3. CASE LoadIndex(p) /\ job'[p] = [job[p] EXCEPT !.index = index]
    <3>1. store[job[p].name] # None /\ job[p].name \in Names /\ job[p] \in Jobs
      BY <2>3
         DEF LoadIndex, IndexInv, Running, Typed, JobsTyped, JobAt, SealSteps, OpenSteps
    <3>2. job'[p].name = job[p].name
      BY <2>3, <3>1 DEF Jobs
    <3>3. QED
      BY <3>1, <3>2, StoreGrows
  <2>4. QED
    BY <1>1, <2>1, <2>2, <2>3, Arrivals DEF Arrived
<1>2. ASSUME NEW p \in Procs, pc'[p] = "save", NEW n \in Names, job'[p].index[n] # None
      PROVE  store'[n] # None
  <2>1. CASE pc'[p] = pc[p] /\ job'[p] = job[p]
    BY <1>2, <2>1, StoreGrows DEF IndexInv, Running
  <2>2. CASE LoadIndex(p) /\ job'[p] = [job[p] EXCEPT !.index = index]
    <3>1. job[p] \in Jobs
      BY DEF Typed, TypeOK
    <3>2. job'[p].index = index
      BY <2>2, <3>1 DEF Jobs
    <3>3. QED
      BY <1>2, <3>2, StoreGrows DEF IndexInv, IndexedIsStored
  <2>3. QED
    BY <1>2, <2>1, <2>2, Arrivals DEF Arrived
<1>3. ASSUME NEW n \in Names, index'[n] # None PROVE store'[n] # None
  <2>1. CASE index' = index
    BY <1>3, <2>1, StoreGrows DEF IndexInv, IndexedIsStored
  <2>2. ASSUME NEW p \in Procs, SaveIndex(p) PROVE store[n] # None
    <3>1. job[p].index \in [Names -> Envelopes \cup {None}] /\ pc[p] = "save"
      BY <2>2 DEF SaveIndex, Typed, JobsTyped, JobAt
    <3>2. n = job[p].name \/ job[p].index[n] # None
      BY <1>3, <2>2, <3>1 DEF SaveIndex
    <3>3. QED
      BY <3>1, <3>2 DEF IndexInv, Running
  <2>3. QED
    BY <2>1, <2>2, StoreGrows, Frame DEF ChangedBy
<1>4. QED
  BY <1>1, <1>2, <1>3 DEF IndexInv, IndexedIsStored, Running

(* IndexedIsStored: whatever commands overlap or die, the index names no   *)
(* entry without an envelope (seal_bytes).                                 *)
THEOREM IndexNamesStoredEntries == Spec => []IndexedIsStored
<1>1. Init => IndexInv
  BY DEF Init, IndexInv, IndexedIsStored, Running
<1>2. IndexInv => IndexedIsStored
  BY DEF IndexInv
<1>3. QED
  BY <1>1, <1>2, IndexInvNext, AlwaysTyped, PTL DEF Spec

(***************************************************************************)
(* The files of a vault. An init that is about to write one has written    *)
(* those before it, and no command removes a file.                         *)
(***************************************************************************)
CompleteInv ==
    /\ ConfigIsComplete
    /\ \A p \in Running({"corpus", "vaultkey", "config"}) : ledger # None
    /\ \A p \in Running({"vaultkey", "config"}) : corpus # None
    /\ \A p \in Running({"config"}) : job[p].config.mode = "keyfile" => keyFile # None

LEMMA FilesStay ==
    ASSUME Typed, [Next]_vars
    PROVE  /\ ledger # None => ledger' # None
           /\ corpus # None => corpus' # None
           /\ keyFile # None => keyFile' # None
<1>1. ASSUME NEW p \in Procs, CopyLedger(p) PROVE ledger' # None
  BY <1>1, SentinelsAssumption DEF CopyLedger, Typed, JobsTyped, JobAt, InitSteps
<1>2. ASSUME NEW p \in Procs, CopyCorpus(p) PROVE corpus' # None
  BY <1>2, SentinelsAssumption DEF CopyCorpus, Typed, JobsTyped, JobAt, InitSteps
<1>3. ASSUME NEW p \in Procs, WriteKey(p), keyFile # None PROVE keyFile' # None
  <2>1. job[p].config.serial \in Nat
    BY <1>3 DEF WriteKey, Typed, JobsTyped, JobAt, Config
  <2>2. QED
    BY <1>3, <2>1, SentinelsAssumption DEF WriteKey
<1>4. QED
  BY <1>1, <1>2, <1>3, Frame DEF ChangedBy

LEMMA CompleteInvNext == Typed /\ CompleteInv /\ [Next]_vars => CompleteInv'
<1> SUFFICES ASSUME Typed, CompleteInv, [Next]_vars PROVE CompleteInv'
  OBVIOUS
<1>1. ASSUME NEW p \in Procs, pc'[p] \in {"corpus", "vaultkey", "config"} PROVE ledger' # None
  <2>1. CASE CopyLedger(p)
    BY <2>1, SentinelsAssumption DEF CopyLedger, Typed, JobsTyped, JobAt, InitSteps
  <2>2. CASE pc[p] \in {"corpus", "vaultkey", "config"}
    BY <2>2, FilesStay DEF CompleteInv, Running
  <2>3. QED
    BY <1>1, <2>1, <2>2, Arrivals DEF Arrived, CopyCorpus, WriteKey
<1>2. ASSUME NEW p \in Procs, pc'[p] \in {"vaultkey", "config"} PROVE corpus' # None
  <2>1. CASE CopyCorpus(p)
    BY <2>1, SentinelsAssumption DEF CopyCorpus, Typed, JobsTyped, JobAt, InitSteps
  <2>2. CASE pc[p] \in {"vaultkey", "config"}
    BY <2>2, FilesStay DEF CompleteInv, Running
  <2>3. QED
    BY <1>2, <2>1, <2>2, Arrivals DEF Arrived, WriteKey
<1>3. ASSUME NEW p \in Procs, pc'[p] = "config", job'[p].config.mode = "keyfile"
      PROVE  keyFile' # None
  <2>1. CASE WriteKey(p) /\ job'[p] = job[p]
    <3>1. job[p].config.serial \in Nat
      BY <2>1 DEF WriteKey, Typed, JobsTyped, JobAt, Config
    <3>2. QED
      BY <1>3, <2>1, <3>1, SentinelsAssumption DEF WriteKey
  <2>2. CASE pc[p] = "config" /\ job'[p] = job[p]
    BY <1>3, <2>2, FilesStay DEF CompleteInv, Running
  <2>3. QED
    BY <1>3, <2>1, <2>2, Arrivals DEF Arrived
<1>4. ConfigIsComplete'
  <2>1. CASE config' = config
    BY <2>1, FilesStay DEF CompleteInv, ConfigIsComplete
  <2>2. ASSUME NEW p \in Procs, WriteConfig(p) PROVE ConfigIsComplete'
    BY <2>2 DEF WriteConfig, CompleteInv, ConfigIsComplete, Running
  <2>3. QED
    BY <2>1, <2>2, Frame DEF ChangedBy
<1>5. QED
  BY <1>1, <1>2, <1>3, <1>4 DEF CompleteInv, Running

(* ConfigIsComplete: whatever inits overlap or die, a vault that loads has *)
(* its evidence and, in keyfile mode, a key (init_vault).                  *)
THEOREM LoadedVaultIsComplete == Spec => []ConfigIsComplete
<1>1. Init => CompleteInv
  BY DEF Init, CompleteInv, ConfigIsComplete, Running
<1>2. CompleteInv => ConfigIsComplete
  BY DEF CompleteInv
<1>3. QED
  BY <1>1, <1>2, CompleteInvNext, AlwaysTyped, PTL DEF Spec

(***************************************************************************)
(* Undisturbed commands. An undisturbed init is the only one there is; an  *)
(* undisturbed seal has no init beside it, and its file and its entry to   *)
(* itself.                                                                 *)
(***************************************************************************)
Sealing == Running(SealSteps \ {"next"})

CleanInv ==
    /\ clean \subseteq Running(SealSteps \cup InitSteps)
    /\ \A p \in clean, q \in Running(InitSteps) : q = p
    /\ \A p \in clean \cap Sealing : \A q \in Sealing \ {p} :
          job[q].file # job[p].file /\ job[q].name # job[p].name

LEMMA CleanFrame ==
    ASSUME [Next]_vars
    PROVE  \/ clean' \subseteq clean
           \/ \E p \in Procs : StartInit(p) \/ StartSeal(p) \/ StartAutoseal(p)
<1>1. ASSUME NEW p \in Procs, InitVault(p), ~StartInit(p) PROVE clean' \subseteq clean
  BY <1>1 DEF InitVault, MakeDirs, CopyLedger, CopyCorpus, WriteKey, WriteConfig, history
<1>2. ASSUME NEW p \in Procs, Seal(p), ~StartSeal(p), ~StartAutoseal(p)
      PROVE  clean' \subseteq clean
  BY <1>2 DEF Seal, NextFile, ReadSource, ReadKey, ReadEvidence, WriteStore, LoadIndex,
              SaveIndex, Overwrite, Unlink, Continue, history
<1>3. ASSUME NEW p \in Procs, Open(p) PROVE clean' \subseteq clean
  BY <1>3 DEF Open, StartOpen, ReadEnvelope, ReadOpenKey, OpenEnvelope, Restore, history
<1>4. ASSUME NEW p \in Procs, Refuse(p) \/ Die(p) PROVE clean' \subseteq clean
  BY <1>4 DEF Refuse, Die
<1>5. ASSUME NEW f \in Files, Edit(f) PROVE clean' \subseteq clean
  BY <1>5 DEF Edit
<1>6. CASE UNCHANGED vars
  BY <1>6 DEF vars, history
<1>7. QED
  BY <1>1, <1>2, <1>3, <1>4, <1>5, <1>6 DEF Next

LEMMA StoppedNotClean ==
    ASSUME Typed, [Next]_vars, NEW q \in Procs,
           pc[q] \in SealSteps \cup InitSteps, pc'[q] = "idle"
    PROVE  q \notin clean'
<1>1. /\ WriteConfig(q) \/ SaveIndex(q) \/ Unlink(q) \/ Restore(q) \/ Refuse(q) \/ Die(q)
      /\ pc[q] \notin {"idle", "restore"}
  BY Arrivals DEF Arrived, SealSteps, InitSteps
<1>2. SaveIndex(q) => q \notin clean'
  BY GotoFrame DEF SaveIndex, Continue
<1>3. Unlink(q) => q \notin clean'
  BY GotoFrame DEF Unlink, Continue
<1>4. QED
  BY <1>1, <1>2, <1>3 DEF WriteConfig, Restore, Refuse, Die

(* A command becomes undisturbed when it starts.                           *)
LEMMA Starts ==
    ASSUME Typed, NEW p \in Procs
    PROVE  /\ StartInit(p) => pc'[p] = "mkdirs" /\ clean' \subseteq clean \cup {p}
           /\ StartSeal(p) => pc'[p] = "read" /\ clean' \subseteq clean \cup {p}
           /\ StartAutoseal(p) => pc'[p] = "next" /\ clean' \subseteq clean \cup {p}
<1>1. StartInit(p) => pc'[p] = "mkdirs" /\ clean' \subseteq clean \cup {p}
  BY GotoFrame DEF StartInit
<1>2. StartSeal(p) => pc'[p] = "read" /\ clean' \subseteq clean \cup {p}
  BY GotoFrame DEF StartSeal
<1>3. StartAutoseal(p) => pc'[p] = "next" /\ clean' \subseteq clean \cup {p}
  BY GotoFrame DEF StartAutoseal
<1>4. QED
  BY <1>1, <1>2, <1>3

(* A command that got beyond its start was undisturbed before.             *)
LEMMA CleanStays ==
    ASSUME Typed, [Next]_vars, NEW q \in clean', pc'[q] \notin {"mkdirs", "read", "next"}
    PROVE  q \in clean
BY Starts, CleanFrame

LEMMA CleanInvNext == Typed /\ CleanInv /\ [Next]_vars => CleanInv'
<1> SUFFICES ASSUME Typed, CleanInv, [Next]_vars PROVE CleanInv'
  OBVIOUS
<1>1. CASE \E p \in Procs : StartInit(p)
  <2>1. PICK p \in Procs : StartInit(p)
    BY <1>1
  <2>2. /\ pc[p] = "idle" /\ pc'[p] = "mkdirs"
        /\ \A q \in Procs \ {p} : pc'[q] = pc[q] /\ job'[q] = job[q]
    BY <2>1, GotoFrame DEF StartInit, Counted
  <2>3. p \notin clean
    BY <2>2 DEF CleanInv, Running, SealSteps, InitSteps
  <2>4. CASE Running(InitSteps) = {}
    <3>1. clean' = {p}
      BY <2>1, <2>3, <2>4 DEF StartInit, CleanInv, Running
    <3>2. Running(InitSteps)' = {p}
      BY <2>2, <2>4 DEF Running, InitSteps
    <3>3. p \notin Sealing'
      BY <2>2 DEF Sealing, Running, SealSteps
    <3>4. QED
      BY <3>1, <3>2, <3>3 DEF CleanInv, Running
  <2>5. CASE Running(InitSteps) # {}
    <3>1. clean' = {}
      BY <2>1, <2>5 DEF StartInit, CleanInv, Running
    <3>2. QED
      BY <3>1 DEF CleanInv
  <2>6. QED
    BY <2>4, <2>5
<1>2. CASE \E p \in Procs : StartSeal(p)
  <2>1. PICK p \in Procs : StartSeal(p)
    BY <1>2
  <2>2. PICK f \in Files, n \in Names, keep \in BOOLEAN :
          /\ Goto(p, "read", [NoJob EXCEPT !.config = config, !.file = f, !.name = n,
                                           !.keep = keep])
          /\ clean' = IF Rivals(p, f, n) \cup Running(InitSteps) = {}
                      THEN clean \cup {p}
                      ELSE clean \ Rivals(p, f, n)
    BY <2>1 DEF StartSeal
  <2>3. /\ pc[p] = "idle" /\ pc'[p] = "read"
        /\ job'[p].file = f /\ job'[p].name = n
        /\ \A q \in Procs \ {p} : pc'[q] = pc[q] /\ job'[q] = job[q]
    <3> DEFINE j == [NoJob EXCEPT !.config = config, !.file = f, !.name = n, !.keep = keep]
    <3>1. j.file = f /\ j.name = n
      BY DEF NoJob
    <3>2. Goto(p, "read", j) /\ pc[p] = "idle"
      BY <2>1, <2>2 DEF StartSeal, Counted
    <3> HIDE DEF j
    <3>3. QED
      BY <3>1, <3>2, GotoFrame
  <2>4. p \notin clean
    BY <2>3 DEF CleanInv, Running, SealSteps, InitSteps
  <2>5. /\ Running(InitSteps)' = Running(InitSteps)
        /\ Running(SealSteps \cup InitSteps)' = Running(SealSteps \cup InitSteps) \cup {p}
        /\ Sealing' = Sealing \cup {p}
    BY <2>3 DEF Running, Sealing, SealSteps, InitSteps
  <2>6. CASE p \in clean'
    <3>1. Rivals(p, f, n) = {} /\ Running(InitSteps) = {} /\ clean' = clean \cup {p}
      BY <2>2, <2>4, <2>6
    <3>2. \A q \in Sealing \ {p} : job[q].file # f /\ job[q].name # n
      BY <3>1 DEF Rivals, Sealing, Running
    <3>3. QED
      BY <2>3, <2>4, <2>5, <3>1, <3>2 DEF CleanInv, Sealing, Running
  <2>7. CASE p \notin clean'
    <3>1. clean' = clean \ Rivals(p, f, n)
      BY <2>2, <2>7
    <3>2. \A q \in clean' \cap Sealing : job[q].file # f /\ job[q].name # n
      BY <2>4, <3>1 DEF Rivals, Sealing, Running
    <3>3. QED
      BY <2>3, <2>4, <2>5, <3>1, <3>2 DEF CleanInv, Sealing, Running
  <2>8. QED
    BY <2>6, <2>7
<1>3. CASE \E p \in Procs : StartAutoseal(p)
  <2>1. PICK p \in Procs : StartAutoseal(p)
    BY <1>3
  <2>2. /\ pc[p] = "idle" /\ pc'[p] = "next"
        /\ \A q \in Procs \ {p} : pc'[q] = pc[q] /\ job'[q] = job[q]
    BY <2>1, GotoFrame DEF StartAutoseal, Counted
  <2>3. /\ Running(InitSteps)' = Running(InitSteps)
        /\ Running(SealSteps \cup InitSteps)' = Running(SealSteps \cup InitSteps) \cup {p}
        /\ Sealing' = Sealing /\ p \notin Sealing
    BY <2>2 DEF Running, Sealing, SealSteps, InitSteps
  <2>4. clean' = clean \/ (clean' = clean \cup {p} /\ Running(InitSteps) = {})
    BY <2>1 DEF StartAutoseal
  <2>5. QED
    BY <2>2, <2>3, <2>4 DEF CleanInv, Sealing, Running
<1>4. CASE \E p \in Procs : NextFile(p)
  <2>1. PICK p \in Procs : NextFile(p)
    BY <1>4
  <2>2. pc[p] = "next" /\ job[p] \in Jobs
    BY <2>1 DEF NextFile, Typed, TypeOK
  <2>3. PICK f \in job[p].rest :
          LET rest == job[p].rest \ {f} IN
          \/ Goto(p, "next", [job[p] EXCEPT !.rest = rest]) /\ UNCHANGED clean
          \/ /\ Goto(p, "read", [job[p] EXCEPT !.file = f, !.name = _safe_name(f),
                                              !.rest = rest])
             /\ clean' = IF Rivals(p, f, _safe_name(f)) = {}
                         THEN clean
                         ELSE clean \ (Rivals(p, f, _safe_name(f)) \cup {p})
    BY <2>1 DEF NextFile
  <2>4. \A q \in Procs \ {p} : pc'[q] = pc[q] /\ job'[q] = job[q]
    BY <2>3, GotoFrame
  <2>5. CASE pc'[p] = "next" /\ clean' = clean
    <3>1. /\ Running(InitSteps)' = Running(InitSteps)
          /\ Running(SealSteps \cup InitSteps)' = Running(SealSteps \cup InitSteps)
          /\ Sealing' = Sealing /\ p \notin Sealing
      BY <2>2, <2>4, <2>5 DEF Running, Sealing, SealSteps, InitSteps
    <3>2. QED
      BY <2>4, <2>5, <3>1 DEF CleanInv, Sealing, Running
  <2>6. CASE /\ pc'[p] = "read" /\ job'[p].file = f /\ job'[p].name = f
             /\ clean' = IF Rivals(p, f, f) = {}
                         THEN clean ELSE clean \ (Rivals(p, f, f) \cup {p})
    <3>1. /\ Running(InitSteps)' = Running(InitSteps)
          /\ Running(SealSteps \cup InitSteps)' = Running(SealSteps \cup InitSteps)
          /\ Sealing' = Sealing \cup {p} /\ p \notin Sealing
      BY <2>2, <2>4, <2>6 DEF Running, Sealing, SealSteps, InitSteps
    <3>2. clean' \subseteq clean
      BY <2>6
    <3>3. \A q \in clean' \cap Sealing : job[q].file # f /\ job[q].name # f
      BY <2>6, <3>1 DEF Rivals, Sealing, Running
    <3>4. p \in clean' => \A q \in Sealing : job[q].file # f /\ job[q].name # f
      BY <2>6, <3>1 DEF Rivals, Sealing, Running
    <3>5. QED
      BY <2>4, <2>6, <3>1, <3>2, <3>3, <3>4 DEF CleanInv, Sealing, Running
  <2>7. QED
    <3>1. Goto(p, "next", [job[p] EXCEPT !.rest = job[p].rest \ {f}]) => pc'[p] = "next"
      BY GotoFrame
    <3> DEFINE j == [job[p] EXCEPT !.file = f, !.name = f, !.rest = job[p].rest \ {f}]
    <3>2. Goto(p, "read", j) => pc'[p] = "read" /\ job'[p].file = f /\ job'[p].name = f
      <4>1. j.file = f /\ j.name = f
        BY <2>2 DEF Jobs
      <4> HIDE DEF j
      <4>2. QED
        BY <4>1, GotoFrame
    <3>3. QED
      BY <2>3, <2>5, <2>6, <3>1, <3>2 DEF _safe_name
<1>5. CASE ~(\E p \in Procs : \/ StartInit(p) \/ StartSeal(p)
                              \/ StartAutoseal(p) \/ NextFile(p))
  <2>1. clean' \subseteq clean
    BY <1>5, CleanFrame
  <2>2. ASSUME NEW q \in Procs
        PROVE  /\ pc'[q] \in InitSteps => pc[q] \in InitSteps
               /\ pc'[q] \in SealSteps \ {"next"} =>
                    /\ pc[q] \in SealSteps \ {"next"}
                    /\ job'[q].file = job[q].file /\ job'[q].name = job[q].name
    <3>1. job[q] \in Jobs
      BY DEF Typed, TypeOK
    <3>2. QED
      BY <1>5, <3>1, Arrivals DEF Arrived, InitSteps, SealSteps, MakeDirs, CopyLedger,
         CopyCorpus, WriteKey, ReadSource, ReadKey, ReadEvidence, WriteStore, LoadIndex,
         SaveIndex, Overwrite, Jobs
  <2>3. ASSUME NEW q \in clean' PROVE q \in Running(SealSteps \cup InitSteps)'
    <3>1. q \in Procs /\ pc[q] \in SealSteps \cup InitSteps
      BY <2>1, <2>3 DEF CleanInv, Running
    <3>2. pc'[q] # "idle"
      BY <2>3, <3>1, StoppedNotClean
    <3>3. pc'[q] \in SealSteps \cup InitSteps
      BY <3>1, <3>2, Arrivals DEF Arrived, InitSteps, SealSteps, StartOpen, Counted,
         ReadEnvelope, ReadOpenKey, OpenEnvelope
    <3>4. QED
      BY <3>1, <3>3 DEF Running
  <2>4. QED
    BY <2>1, <2>2, <2>3 DEF CleanInv, Sealing, Running
<1>6. QED
  BY <1>1, <1>2, <1>3, <1>4, <1>5

(***************************************************************************)
(* A vault is born openable.                                               *)
(***************************************************************************)
Writing == Running({"corpus", "vaultkey", "config"})

BornInv ==
    /\ \A p \in Running(InitSteps) :
          <<job[p].ledger, job[p].corpus, job[p].config.policy>> \in Authorized
    /\ \A p \in clean \cap Writing : ledger = job[p].ledger
    /\ \A p \in clean \cap Running({"vaultkey", "config"}) : corpus = job[p].corpus
    /\ config # None /\ Writing = {} /\ ~mixed => Tag(config.policy) \in Authorized

LEMMA BornInvNext == Typed /\ CleanInv /\ BornInv /\ [Next]_vars => BornInv'
<1> SUFFICES ASSUME Typed, CleanInv, BornInv, [Next]_vars PROVE BornInv'
  OBVIOUS
<1>1. ASSUME NEW p \in Procs, pc'[p] \in InitSteps
      PROVE  <<job'[p].ledger, job'[p].corpus, job'[p].config.policy>> \in Authorized
  <2>1. CASE pc[p] \in InitSteps /\ job'[p] = job[p]
    BY <2>1 DEF BornInv, Running
  <2>2. CASE StartInit(p)
    <3>1. PICK l \in Ledgers, c \in Corpora, policy \in Policies,
               mode \in {"passphrase", "keyfile"} :
            /\ <<l, c, policy>> \in Authorized
            /\ Goto(p, "mkdirs", [NoJob EXCEPT
                  !.ledger = l, !.corpus = c,
                  !.config = [policy |-> policy, mode |-> mode, serial |-> inits]])
      BY <2>2 DEF StartInit
    <3> DEFINE j == [NoJob EXCEPT
                       !.ledger = l, !.corpus = c,
                       !.config = [policy |-> policy, mode |-> mode, serial |-> inits]]
    <3>2. j.ledger = l /\ j.corpus = c /\ j.config.policy = policy
      BY DEF NoJob
    <3>3. Goto(p, "mkdirs", j)
      BY <3>1
    <3> HIDE DEF j
    <3>4. job'[p] = j
      BY <3>3, GotoFrame
    <3>5. QED
      BY <3>1, <3>2, <3>4
  <2>3. QED
    BY <1>1, <2>1, <2>2, Arrivals
    DEF Arrived, InitSteps, MakeDirs, CopyLedger, CopyCorpus, WriteKey
<1>2. ASSUME NEW p \in clean', pc'[p] \in {"corpus", "vaultkey", "config"}
      PROVE  ledger' = job'[p].ledger /\ (pc'[p] # "corpus" => corpus' = job'[p].corpus)
  <2>1. p \in clean /\ p \in Procs /\ \A q \in Running(InitSteps) : q = p
    BY <1>2, CleanStays DEF CleanInv, Running
  <2>2. /\ ledger' = ledger \/ CopyLedger(p)
        /\ corpus' = corpus \/ CopyCorpus(p)
    BY <2>1, Frame DEF ChangedBy, CopyLedger, CopyCorpus, Running, InitSteps
  <2>3. CASE CopyLedger(p) /\ job'[p] = job[p] /\ pc'[p] = "corpus"
    BY <2>3 DEF CopyLedger
  <2>4. CASE CopyCorpus(p) /\ job'[p] = job[p] /\ pc'[p] = "vaultkey"
    BY <2>1, <2>4 DEF CopyCorpus, BornInv, Writing, Running
  <2>5. CASE /\ job'[p] = job[p] /\ ~CopyLedger(p) /\ ~CopyCorpus(p)
             /\ pc[p] \in {"corpus", "vaultkey", "config"}
             /\ pc'[p] # "corpus" => pc[p] # "corpus"
    BY <2>1, <2>2, <2>5 DEF BornInv, Writing, Running
  <2>6. QED
    <3>1. CopyLedger(p) => pc'[p] = "corpus" /\ job'[p] = job[p]
      BY <2>1, GotoFrame DEF CopyLedger
    <3>2. CopyCorpus(p) => pc'[p] = "vaultkey" /\ job'[p] = job[p]
      BY <2>1, GotoFrame DEF CopyCorpus
    <3>3. Arrived(p)
      BY <2>1, Arrivals
    <3>4. QED
      BY <1>2, <2>3, <2>4, <2>5, <3>1, <3>2, <3>3 DEF Arrived, WriteKey
<1>3. ASSUME config' # None, Writing' = {}, ~mixed' PROVE Tag(config.policy)' \in Authorized
  <2>1. CASE \E p \in Procs : WriteConfig(p)
    <3>1. PICK p \in Procs : WriteConfig(p)
      BY <2>1
    <3>2. /\ p \in clean /\ pc[p] = "config" /\ config' = job[p].config
          /\ ledger' = ledger /\ corpus' = corpus
      BY <1>3, <3>1 DEF WriteConfig
    <3>3. /\ ledger = job[p].ledger /\ corpus = job[p].corpus
          /\ <<job[p].ledger, job[p].corpus, job[p].config.policy>> \in Authorized
      BY <3>2 DEF BornInv, Writing, Running, InitSteps
    <3>4. QED
      BY <3>2, <3>3 DEF Tag
  <2>2. CASE ~(\E p \in Procs : WriteConfig(p))
    <3>1. ASSUME NEW p \in Writing PROVE FALSE
      <4>1. p \in Procs /\ pc[p] \in {"corpus", "vaultkey", "config"}
        BY <3>1 DEF Writing, Running
      <4>2. pc'[p] \notin {"corpus", "vaultkey", "config"}
        BY <1>3, <4>1 DEF Writing, Running
      <4>3. Refuse(p) \/ Die(p)
        BY <2>2, <4>1, <4>2, Arrivals
           DEF Arrived, StartInit, MakeDirs, CopyLedger, CopyCorpus,
           WriteKey, StartSeal, StartAutoseal, NextFile, ReadSource, ReadKey, ReadEvidence,
           WriteStore, LoadIndex, SaveIndex, Overwrite, Unlink, StartOpen, ReadEnvelope,
           ReadOpenKey, OpenEnvelope, Restore, Counted
      <4>4. ~Refuse(p)
        BY <4>1 DEF Refuse, Refused
      <4>5. QED
        BY <1>3, <4>1, <4>3, <4>4 DEF Die
    <3>2. config' = config /\ (mixed => mixed')
      <4>1. ASSUME NEW p \in Procs, Die(p), mixed PROVE mixed'
        BY <4>1 DEF Die
      <4>2. config' = config
        BY <2>2, Frame DEF ChangedBy
      <4>3. mixed' = mixed \/ \E p \in Procs : Die(p)
        BY <2>2, Frame DEF ChangedBy
      <4>4. QED
        BY <4>1, <4>2, <4>3
    <3>3. ledger' = ledger
      <4>1. ASSUME NEW p \in Procs, CopyLedger(p) PROVE FALSE
        BY <1>3, <4>1, GotoFrame DEF CopyLedger, Writing, Running
      <4>2. QED
        BY <4>1, Frame DEF ChangedBy
    <3>4. corpus' = corpus
      <4>1. ASSUME NEW p \in Procs, CopyCorpus(p) PROVE FALSE
        BY <1>3, <4>1, GotoFrame DEF CopyCorpus, Writing, Running
      <4>2. QED
        BY <4>1, Frame DEF ChangedBy
    <3>5. QED
      BY <1>3, <3>1, <3>2, <3>3, <3>4 DEF BornInv, Tag
  <2>3. QED
    BY <2>1, <2>2
<1>4. QED
  BY <1>1, <1>2, <1>3 DEF BornInv, Writing, Running, Tag

LEMMA AlwaysClean == Spec => [](Typed /\ CleanInv)
<1>1. Init => CleanInv
  BY DEF Init, CleanInv
<1>2. QED
  BY <1>1, CleanInvNext, AlwaysTyped, PTL DEF Spec

(* BornOpenable: a vault whose inits neither overlapped nor died satisfies *)
(* its own policy with its own evidence (init_vault).                      *)
THEOREM VaultsAreBornOpenable == Spec => []BornOpenable
<1>1. Init => BornInv
  BY DEF Init, BornInv, Running, InitSteps, Writing
<1>2. BornInv => BornOpenable
  BY DEF BornInv, BornOpenable, Writing, Running, InitSteps
<1>3. QED
  BY <1>1, <1>2, BornInvNext, AlwaysClean, PTL DEF Spec

(***************************************************************************)
(* What an undisturbed removal leaves can be opened. From reading its file *)
(* on, an undisturbed seal holds the file's text; from reading the         *)
(* evidence on, an envelope of it that opens now; from writing it on, that *)
(* envelope is its entry. No init gets to replace the key or the evidence  *)
(* under an entry whose original is gone: it forgets the entry first.      *)
(***************************************************************************)
HasText == {"key", "evidence", "store", "load", "save", "wipe", "unlink"}
HasEnvelope == {"store", "load", "save", "wipe", "unlink"}
Stored == {"load", "save", "wipe", "unlink"}

WipedInv ==
    /\ WipedCanBeOpened
    /\ \A p \in Running({"corpus", "vaultkey", "config"}), n \in Names : wiped[n] = None
    /\ \A p \in clean \cap Running(SealSteps) : job[p].config = config
    /\ \A p \in clean \cap Running(HasText) :
          content[job[p].file] \in Texts => content[job[p].file] = job[p].text
    /\ \A p \in clean \cap Running({"evidence"}) : job[p].key = caller_key(config)
    /\ \A p \in clean \cap Running(HasEnvelope) :
          /\ Opens(job[p].envelope, caller_key(config))
          /\ job[p].envelope.text = job[p].text
    /\ \A p \in clean \cap Running(Stored) : store[job[p].name] = job[p].envelope

(* No init runs beside an undisturbed seal.                                *)
LEMMA VaultStays ==
    ASSUME CleanInv, [Next]_vars, NEW p \in clean, pc[p] \in SealSteps
    PROVE  config' = config /\ keyFile' = keyFile /\ ledger' = ledger /\ corpus' = corpus
<1>1. ASSUME NEW q \in Procs, pc[q] \in InitSteps PROVE FALSE
  BY <1>1 DEF CleanInv, Running, SealSteps, InitSteps
<1>2. QED
  BY <1>1, Frame
  DEF ChangedBy, WriteConfig, WriteKey, CopyLedger, CopyCorpus, InitSteps

(* An undisturbed seal that is at one of the steps S, which StartSeal and  *)
(* NextFile do not lead to, was undisturbed at its step before.            *)
LEMMA CleanSeal ==
    ASSUME Typed, CleanInv, [Next]_vars, NEW p \in clean', pc'[p] \in HasText
    PROVE  /\ p \in clean /\ p \in Procs
           /\ pc[p] \in SealSteps \ {"next"}
           /\ job[p] \in Jobs /\ JobAt(pc[p], job[p])
           /\ job[p].file \in Files /\ job[p].name \in Names
           /\ job'[p].file = job[p].file /\ job'[p].name = job[p].name
           /\ job'[p].config = job[p].config
<1>1. p \in clean /\ p \in Procs
  BY CleanStays DEF HasText, CleanInv, Running
<1>2. job[p] \in Jobs /\ JobAt(pc[p], job[p])
  BY <1>1 DEF Typed, TypeOK, JobsTyped
<1>3. /\ pc[p] \in SealSteps \ {"next"}
      /\ job'[p].file = job[p].file /\ job'[p].name = job[p].name
      /\ job'[p].config = job[p].config
  BY <1>1, <1>2, Arrivals
     DEF Arrived, HasText, SealSteps, ReadSource, ReadKey, ReadEvidence,
     WriteStore, LoadIndex, SaveIndex, Overwrite, Jobs
<1>4. job[p].file \in Files /\ job[p].name \in Names
  BY <1>2, <1>3 DEF JobAt, SealSteps
<1>5. QED
  BY <1>1, <1>2, <1>3, <1>4

LEMMA CleanConfig ==
    ASSUME Typed, CleanInv, WipedInv, [Next]_vars, NEW p \in clean', pc'[p] \in SealSteps
    PROVE  job'[p].config = config'
<1>1. CASE p \in clean
  <2>1. p \in Procs /\ pc[p] \in SealSteps \cup InitSteps
    BY <1>1 DEF CleanInv, Running
  <2>2. pc[p] \in SealSteps /\ job'[p].config = job[p].config
    <3>1. pc[p] # "idle" /\ pc'[p] # "idle" /\ job[p] \in Jobs
      BY <2>1 DEF SealSteps, InitSteps, Typed, TypeOK
    <3>2. job'[p].config = job[p].config
      BY <2>1, <3>1, Arrivals DEF Arrived, SealSteps, InitSteps, NoJob, Jobs, StartInit,
         StartSeal, StartAutoseal, StartOpen, Counted, ReadEnvelope, ReadOpenKey, OpenEnvelope
    <3>3. pc[p] \in SealSteps
      BY <2>1, <3>1, Arrivals DEF Arrived, SealSteps, InitSteps, StartSeal, StartAutoseal,
         Counted, NextFile, ReadSource, ReadKey, ReadEvidence, WriteStore, LoadIndex,
         SaveIndex, Overwrite, Unlink
    <3>4. QED
      BY <3>2, <3>3
  <2>3. job[p].config = config
    BY <1>1, <2>1, <2>2 DEF WipedInv, Running
  <2>4. QED
    BY <1>1, <2>2, <2>3, VaultStays
<1>2. CASE p \notin clean
  <2>1. PICK q \in Procs : StartInit(q) \/ StartSeal(q) \/ StartAutoseal(q)
    BY <1>2, CleanFrame
  <2>2. q = p
    BY <1>2, <2>1, Starts
  <2>3. ~StartInit(q)
    BY <2>2, Starts DEF SealSteps
  <2>4. config' = config /\ pc[q] = "idle"
    BY <2>1, <2>3 DEF StartSeal, StartAutoseal, vault, Counted
  <2>5. job'[q].config = config
    BY <2>1, <2>2, <2>4, Arrivals DEF Arrived, SealSteps, StartInit, MakeDirs, CopyLedger,
       CopyCorpus, WriteKey, WriteConfig, NextFile, ReadSource, ReadKey, ReadEvidence,
       WriteStore, LoadIndex, SaveIndex, Overwrite, Unlink, StartOpen, ReadEnvelope,
       ReadOpenKey, OpenEnvelope, Restore, Refuse, Refused, Die
  <2>6. QED
    BY <2>2, <2>4, <2>5
<1>3. QED
  BY <1>1, <1>2

LEMMA CleanText ==
    ASSUME Typed, CleanInv, WipedInv, [Next]_vars, NEW p \in clean', pc'[p] \in HasText,
           content'[job'[p].file] \in Texts
    PROVE  content'[job'[p].file] = job'[p].text
<1> DEFINE f == job[p].file
<1>1. /\ p \in clean /\ p \in Procs /\ pc[p] \in SealSteps \ {"next"} /\ job[p] \in Jobs
      /\ f \in Files /\ job'[p].file = f
  BY CleanSeal
<1>2. content'[f] = content[f]
  <2>1. p \in Touched(f)
    BY <1>1 DEF Touched, Running
  <2>2. Noise \notin Texts /\ None \notin Texts
    BY SentinelsAssumption DEF Contents
  <2>3. content'[f] \in Texts /\ content \in [Files -> Contents \cup {None}]
    BY <1>1 DEF Typed, TypeOK
  <2> HIDE DEF f
  <2>4. ASSUME NEW q \in Procs, Overwrite(q) PROVE content'[f] = content[f]
    BY <1>1, <2>2, <2>3, <2>4 DEF Overwrite
  <2>5. ASSUME NEW q \in Procs, Unlink(q) PROVE content'[f] = content[f]
    BY <1>1, <2>2, <2>3, <2>5 DEF Unlink
  <2>6. ASSUME NEW q \in Procs, Restore(q) PROVE content'[f] = content[f]
    BY <1>1, <2>1, <2>3, <2>6 DEF Restore
  <2>7. ASSUME NEW g \in Files, Edit(g) PROVE content'[f] = content[f]
    BY <1>1, <2>1, <2>3, <2>7 DEF Edit
  <2>8. QED
    BY <2>4, <2>5, <2>6, <2>7, Frame DEF ChangedBy
<1>3. CASE ReadSource(p) /\ job'[p] = [job[p] EXCEPT !.text = content[job[p].file]]
  <2>1. job'[p].text = content[f]
    BY <1>1, <1>3 DEF Jobs
  <2>2. QED
    BY <1>1, <1>2, <2>1
<1>4. CASE pc[p] \in HasText /\ job'[p].text = job[p].text
  BY <1>1, <1>2, <1>4 DEF WipedInv, Running
<1>5. QED
  BY <1>1, <1>3, <1>4, Arrivals DEF Arrived, HasText, ReadKey, ReadEvidence, WriteStore,
     LoadIndex, SaveIndex, Overwrite, Jobs

LEMMA CleanKey ==
    ASSUME Typed, CleanInv, WipedInv, [Next]_vars, NEW p \in clean', pc'[p] = "evidence"
    PROVE  job'[p].key = caller_key(config)'
<1>1. /\ p \in clean /\ p \in Procs /\ pc[p] \in SealSteps /\ job[p] \in Jobs
  BY CleanSeal DEF HasText
<1>2. job[p].config = config /\ config' = config /\ keyFile' = keyFile
  BY <1>1, VaultStays DEF WipedInv, Running
<1>3. CASE pc[p] = "evidence" /\ job'[p] = job[p]
  BY <1>1, <1>2, <1>3 DEF WipedInv, Running, caller_key
<1>4. CASE job'[p] = [job[p] EXCEPT !.key = caller_key(job[p].config)]
  <2>1. job'[p].key = caller_key(job[p].config)
    BY <1>1, <1>4 DEF Jobs
  <2>2. QED
    BY <1>2, <2>1 DEF caller_key
<1>5. QED
  BY <1>1, <1>3, <1>4, Arrivals DEF Arrived

LEMMA CleanEnvelope ==
    ASSUME Typed, CleanInv, WipedInv, [Next]_vars, NEW p \in clean', pc'[p] \in HasEnvelope
    PROVE  /\ Opens(job[p].envelope, caller_key(config))'
           /\ job'[p].envelope.text = job'[p].text
<1>1. /\ p \in clean /\ p \in Procs /\ pc[p] \in SealSteps /\ job[p] \in Jobs
      /\ JobAt(pc[p], job[p])
  BY CleanSeal DEF HasText, HasEnvelope
<1>2. /\ job[p].config = config
      /\ config' = config /\ keyFile' = keyFile /\ ledger' = ledger /\ corpus' = corpus
  BY <1>1, VaultStays DEF WipedInv, Running
<1>3. CASE /\ pc[p] \in HasEnvelope
           /\ job'[p].envelope = job[p].envelope /\ job'[p].text = job[p].text
  BY <1>1, <1>2, <1>3 DEF WipedInv, Running, Opens, Tag, caller_key
<1>4. CASE /\ ReadEvidence(p)
           /\ job'[p] = [job[p] EXCEPT
                !.envelope = Envelope(job[p].text, job[p].key, job[p].config.policy)]
  <2> DEFINE policy == job[p].config.policy
  <2>1. /\ job'[p].envelope = Envelope(job[p].text, job[p].key, policy)
        /\ job'[p].text = job[p].text
    BY <1>1, <1>4 DEF Jobs
  <2>2. pc[p] = "evidence" /\ Tag(policy) \in Authorized
    BY <1>4 DEF ReadEvidence
  <2>3. job[p].key = caller_key(config)
    BY <1>1, <2>2 DEF WipedInv, Running
  <2> HIDE DEF policy
  <2>4. /\ job'[p].envelope.key = caller_key(config)
        /\ job'[p].envelope.tag = Tag(policy) /\ job'[p].envelope.tag[3] = policy
        /\ job'[p].envelope.text = job[p].text
    BY <2>1, <2>3 DEF Envelope, Tag
  <2>5. QED
    BY <1>2, <2>1, <2>2, <2>4 DEF Opens, Tag, caller_key
<1>5. QED
  BY <1>1, <1>3, <1>4, Arrivals DEF Arrived, HasEnvelope, WriteStore, LoadIndex, SaveIndex,
     Overwrite, Jobs

LEMMA CleanStored ==
    ASSUME Typed, CleanInv, WipedInv, [Next]_vars, NEW p \in clean', pc'[p] \in Stored
    PROVE  store'[job'[p].name] = job'[p].envelope
<1> DEFINE n == job[p].name
<1>1. /\ p \in clean /\ p \in Procs /\ pc[p] \in SealSteps \ {"next"} /\ job[p] \in Jobs
      /\ n \in Names /\ job'[p].name = n
  BY CleanSeal DEF HasText, Stored
<1>2. store \in [Names -> Envelopes \cup {None}]
  BY DEF Typed, TypeOK
<1>3. CASE WriteStore(p) /\ job'[p] = job[p]
  BY <1>1, <1>2, <1>3 DEF WriteStore
<1>4. CASE ~WriteStore(p) /\ pc[p] \in Stored /\ job'[p].envelope = job[p].envelope
  <2>1. store[n] = job[p].envelope
    BY <1>1, <1>4 DEF WipedInv, Running
  <2>2. ASSUME NEW q \in Procs, WriteStore(q) PROVE store'[n] = store[n]
    <3>1. q # p /\ pc[q] = "store"
      BY <1>4, <2>2 DEF WriteStore
    <3>2. job[q].name # n
      BY <1>1, <3>1 DEF CleanInv, Sealing, Running, SealSteps
    <3>3. QED
      BY <1>1, <1>2, <2>2, <3>2 DEF WriteStore
  <2>3. store'[n] = store[n]
    BY <2>2, Frame DEF ChangedBy
  <2>4. QED
    BY <1>1, <1>4, <2>1, <2>3
<1>5. QED
  <2>1. WriteStore(p) => job'[p] = job[p]
    BY <1>1, GotoFrame DEF WriteStore
  <2>2. QED
    BY <1>1, <1>3, <1>4, <2>1, Arrivals
       DEF Arrived, Stored, LoadIndex, SaveIndex, Overwrite, Jobs

LEMMA WritingForgets ==
    ASSUME Typed, CleanInv, WipedInv, [Next]_vars,
           NEW p \in Procs, pc'[p] \in {"corpus", "vaultkey", "config"}, NEW n \in Names
    PROVE  wiped'[n] = None
<1>1. CASE CopyLedger(p)
  BY <1>1 DEF CopyLedger
<1>2. CASE pc[p] \in {"corpus", "vaultkey", "config"}
  <2>1. wiped \in [Names -> Texts \cup {None}] /\ wiped[n] = None
    BY <1>2 DEF WipedInv, Running, Typed, TypeOK
  <2>2. \A q \in clean : pc[q] \notin {"wipe", "unlink"}
    BY <1>2 DEF CleanInv, Running, InitSteps
  <2>3. ASSUME NEW q \in Procs, CopyLedger(q) PROVE wiped'[n] = None
    BY <2>3 DEF CopyLedger
  <2>4. ASSUME NEW q \in Procs, WriteStore(q) PROVE wiped'[n] = None
    BY <2>1, <2>4 DEF WriteStore
  <2>5. ASSUME NEW q \in Procs, Overwrite(q) \/ Unlink(q) PROVE wiped' = wiped
    BY <2>2, <2>5 DEF Overwrite, Unlink, Destroyed
  <2>6. QED
    BY <2>1, <2>3, <2>4, <2>5, Frame DEF ChangedBy
<1>3. QED
  BY <1>1, <1>2, Arrivals DEF Arrived, CopyCorpus, WriteKey

LEMMA WipedStays ==
    ASSUME Typed, CleanInv, WipedInv, [Next]_vars, NEW n \in Names, wiped'[n] # None
    PROVE  /\ config' # None /\ store'[n] # None
           /\ Opens(store[n], caller_key(config))'
           /\ store'[n].text = wiped'[n]
<1>1. /\ wiped \in [Names -> Texts \cup {None}]
      /\ store \in [Names -> Envelopes \cup {None}]
  BY DEF Typed, TypeOK
<1>2. CASE \E p \in Procs : (Overwrite(p) \/ Unlink(p)) /\ wiped'[n] # wiped[n]
  <2>1. PICK p \in Procs : (Overwrite(p) \/ Unlink(p)) /\ wiped'[n] # wiped[n]
    BY <1>2
  <2>2. /\ p \in clean /\ pc[p] \in {"wipe", "unlink"} /\ n = job[p].name
        /\ content[job[p].file] \in Texts /\ wiped'[n] = content[job[p].file]
        /\ UNCHANGED vault
    BY <1>1, <2>1 DEF Overwrite, Unlink, Destroyed
  <2>3. /\ content[job[p].file] = job[p].text
        /\ Opens(job[p].envelope, caller_key(config))
        /\ job[p].envelope.text = job[p].text
        /\ store[n] = job[p].envelope
        /\ job[p].config = config
    BY <2>2 DEF WipedInv, Running, HasText, HasEnvelope, Stored, SealSteps
  <2>4. job[p].envelope \in Envelopes /\ job[p].config \in Config
    BY <2>2 DEF Typed, JobsTyped, JobAt
  <2>5. QED
    BY <2>2, <2>3, <2>4, SentinelsAssumption DEF vault, Opens, Tag, caller_key
<1>3. CASE wiped'[n] = wiped[n]
  <2>1. /\ config # None /\ store[n] # None
        /\ Opens(store[n], caller_key(config)) /\ store[n].text = wiped[n]
    BY <1>3 DEF WipedInv, WipedCanBeOpened
  <2>2. Running({"corpus", "vaultkey", "config"}) = {}
    BY <1>3 DEF WipedInv
  <2>3. config' = config /\ keyFile' = keyFile /\ corpus' = corpus
    BY <2>2, Frame DEF ChangedBy, WriteConfig, WriteKey, CopyCorpus, Running
  <2>4. ledger' = ledger
    <3>1. ASSUME NEW p \in Procs, CopyLedger(p) PROVE FALSE
      BY <3>1 DEF CopyLedger
    <3>2. QED
      BY <3>1, Frame DEF ChangedBy
  <2>5. store'[n] = store[n]
    <3>1. ASSUME NEW p \in Procs, WriteStore(p) PROVE store'[n] = store[n]
      BY <1>1, <3>1 DEF WriteStore
    <3>2. QED
      BY <3>1, Frame DEF ChangedBy
  <2>6. QED
    BY <1>3, <2>1, <2>3, <2>4, <2>5 DEF Opens, Tag, caller_key
<1>4. QED
  <2>1. ASSUME NEW p \in Procs, CopyLedger(p) \/ WriteStore(p) PROVE wiped'[n] = wiped[n]
    BY <1>1, <2>1 DEF CopyLedger, WriteStore
  <2>2. QED
    BY <1>2, <1>3, <2>1, Frame DEF ChangedBy

LEMMA WipedInvNext == Typed /\ CleanInv /\ WipedInv /\ [Next]_vars => WipedInv'
<1> SUFFICES ASSUME Typed, CleanInv, WipedInv, [Next]_vars PROVE WipedInv'
  OBVIOUS
<1>1. WipedCanBeOpened'
  BY WipedStays DEF WipedCanBeOpened
<1>2. \A p \in Procs : pc'[p] \in {"corpus", "vaultkey", "config"} =>
        \A n \in Names : wiped'[n] = None
  BY WritingForgets
<1>3. \A p \in clean' : pc'[p] \in SealSteps => job'[p].config = config'
  BY CleanConfig
<1>4. \A p \in clean' : pc'[p] \in HasText =>
        (content'[job'[p].file] \in Texts => content'[job'[p].file] = job'[p].text)
  BY CleanText
<1>5. \A p \in clean' : pc'[p] = "evidence" => job'[p].key = caller_key(config)'
  BY CleanKey
<1>6. \A p \in clean' : pc'[p] \in HasEnvelope =>
        /\ Opens(job[p].envelope, caller_key(config))'
        /\ job'[p].envelope.text = job'[p].text
  BY CleanEnvelope
<1>7. \A p \in clean' : pc'[p] \in Stored => store'[job'[p].name] = job'[p].envelope
  BY CleanStored
<1>8. QED
  BY <1>1, <1>2, <1>3, <1>4, <1>5, <1>6, <1>7 DEF WipedInv, Running

(* WipedCanBeOpened: when seal removes an original, whenever it dies, and  *)
(* whatever runs beside it but a command on the same file or name, an edit *)
(* of the file and an init, the text it destroys can be opened (seal_file, *)
(* open_bytes).                                                            *)
THEOREM RemovedOriginalsCanBeOpened == Spec => []WipedCanBeOpened
<1>1. Init => WipedInv
  BY DEF Init, WipedInv, WipedCanBeOpened, Running
<1>2. WipedInv => WipedCanBeOpened
  BY DEF WipedInv
<1>3. QED
  BY <1>1, <1>2, WipedInvNext, AlwaysClean, PTL DEF Spec

(***************************************************************************)
(* The index of a vault whose commands update it one at a time. The one    *)
(* that does has its envelope in the store, and the index it loaded is the *)
(* index: only its own entry may be behind.                                *)
(***************************************************************************)
Updating == Running({"load", "save"})

QuietInv ==
    ~raced =>
        /\ \A p, q \in Updating : p = q
        /\ \A p \in Updating : store[job[p].name] = job[p].envelope
        /\ \A p \in Running({"save"}) : job[p].index = index
        /\ \A n \in Names \ stale :
              index[n] = store[n] \/ \E p \in Updating : job[p].name = n

LEMMA UpdatingBefore ==
    ASSUME Typed, [Next]_vars, NEW p \in Procs, pc'[p] \in {"load", "save"}, ~WriteStore(p)
    PROVE  /\ pc[p] \in {"load", "save"} /\ job[p] \in Jobs
           /\ job'[p].name = job[p].name /\ job'[p].envelope = job[p].envelope
<1>1. job[p] \in Jobs
  BY DEF Typed, TypeOK
<1>2. QED
  BY <1>1, Arrivals DEF Arrived, LoadIndex, Jobs

LEMMA UpdatingEnds ==
    ASSUME Typed, [Next]_vars, NEW p \in Updating, p \notin Updating'
    PROVE  SaveIndex(p) \/ Die(p)
<1>1. p \in Procs /\ pc[p] \in {"load", "save"} /\ pc'[p] \notin {"load", "save"}
  BY DEF Updating, Running
<1>2. ~Refuse(p)
  BY <1>1 DEF Refuse, Refused
<1>3. QED
  BY <1>1, <1>2, Arrivals
     DEF Arrived, StartInit, MakeDirs, CopyLedger, CopyCorpus, WriteKey,
     WriteConfig, StartSeal, StartAutoseal, NextFile, ReadSource, ReadKey, ReadEvidence,
     WriteStore, Overwrite, Unlink, StartOpen, ReadEnvelope, ReadOpenKey, OpenEnvelope,
     Restore, Counted

LEMMA QuietInvNext == Typed /\ QuietInv /\ [Next]_vars => QuietInv'
<1> SUFFICES ASSUME Typed, QuietInv, [Next]_vars, ~raced' PROVE
        /\ \A p, q \in Updating' : p = q
        /\ \A p \in Updating' : store'[job'[p].name] = job'[p].envelope
        /\ \A p \in Running({"save"})' : job'[p].index = index'
        /\ \A n \in Names \ stale' :
              index'[n] = store'[n] \/ \E p \in Updating' : job'[p].name = n
  BY DEF QuietInv
<1>1. ASSUME NEW p \in Procs, WriteStore(p) PROVE ~raced /\ Updating = {}
  BY <1>1 DEF WriteStore, Updating
<1>2. ~raced
  BY <1>1, Frame DEF ChangedBy
<1>3. /\ store \in [Names -> Envelopes \cup {None}]
      /\ \A p \in Procs : JobAt(pc[p], job[p])
  BY DEF Typed, TypeOK, JobsTyped
<1>4. ASSUME NEW p \in Updating', NEW q \in Updating' PROVE p = q
  <2>1. p \in Procs /\ pc'[p] \in {"load", "save"} /\ q \in Procs /\ pc'[q] \in {"load", "save"}
    BY DEF Updating, Running
  <2>2. CASE ~WriteStore(p) /\ ~WriteStore(q)
    <3>1. p \in Updating /\ q \in Updating
      BY <2>1, <2>2, UpdatingBefore DEF Updating, Running
    <3>2. QED
      BY <1>2, <3>1 DEF QuietInv
  <2>3. ASSUME NEW r \in Procs, NEW t \in Procs, WriteStore(r), t # r,
               pc'[t] \in {"load", "save"}
        PROVE  FALSE
    <3>1. pc'[t] = pc[t]
      BY <2>3, GotoFrame DEF WriteStore
    <3>2. QED
      BY <1>1, <2>3, <3>1 DEF Updating, Running
  <2>4. QED
    BY <2>1, <2>2, <2>3
<1>5. ASSUME NEW p \in Updating' PROVE store'[job'[p].name] = job'[p].envelope
  <2>1. p \in Procs /\ pc'[p] \in {"load", "save"}
    BY DEF Updating, Running
  <2>2. CASE WriteStore(p)
    <3>1. job'[p] = job[p] /\ job[p].name \in Names
      BY <1>3, <2>1, <2>2, GotoFrame DEF WriteStore, JobAt, SealSteps
    <3>2. QED
      BY <1>3, <2>2, <3>1 DEF WriteStore
  <2>3. CASE ~WriteStore(p)
    <3>1. /\ p \in Updating
          /\ job'[p].name = job[p].name /\ job'[p].envelope = job[p].envelope
      BY <2>1, <2>3, UpdatingBefore DEF Updating, Running
    <3>2. store[job[p].name] = job[p].envelope /\ store' = store
      BY <1>1, <1>2, <3>1, Frame DEF ChangedBy, QuietInv
    <3>3. QED
      BY <3>1, <3>2
  <2>4. QED
    BY <2>2, <2>3
<1>6. ASSUME NEW p \in Running({"save"})' PROVE job'[p].index = index'
  <2>1. p \in Procs /\ pc'[p] = "save" /\ job[p] \in Jobs
    BY DEF Running, Typed, TypeOK
  <2>2. p \in Updating
    BY <2>1, UpdatingBefore, GotoFrame DEF WriteStore, Updating, Running
  <2>3. index' = index
    <3>1. ASSUME NEW q \in Procs, SaveIndex(q) PROVE FALSE
      <4>1. q \in Updating
        BY <3>1 DEF SaveIndex, Updating, Running
      <4>2. q = p
        BY <1>2, <2>2, <4>1 DEF QuietInv
      <4>3. pc'[q] # "save"
        BY <3>1, GotoFrame DEF SaveIndex, Continue, Stop
      <4>4. QED
        BY <2>1, <4>2, <4>3
    <3>2. QED
      BY <3>1, Frame DEF ChangedBy
  <2>4. CASE pc[p] = "save" /\ job'[p] = job[p]
    BY <1>2, <2>1, <2>3, <2>4 DEF QuietInv, Running
  <2>5. CASE job'[p] = [job[p] EXCEPT !.index = index]
    BY <2>1, <2>3, <2>5 DEF Jobs
  <2>6. QED
    BY <2>1, <2>4, <2>5, Arrivals DEF Arrived
<1>7. ASSUME NEW n \in Names \ stale'
      PROVE  index'[n] = store'[n] \/ \E p \in Updating' : job'[p].name = n
  <2>1. CASE \E q \in Procs : SaveIndex(q)
    <3>1. PICK q \in Procs : SaveIndex(q)
      BY <2>1
    <3>2. /\ pc[q] = "save" /\ q \in Updating /\ q \in Running({"save"})
          /\ store' = store /\ stale' = stale \ {job[q].name}
          /\ index' = [job[q].index EXCEPT ![job[q].name] = job[q].envelope]
      BY <3>1 DEF SaveIndex, Updating, Running
    <3>3. /\ job[q].index = index /\ store[job[q].name] = job[q].envelope
          /\ index \in [Names -> Envelopes \cup {None}]
      BY <1>2, <3>2 DEF QuietInv, Typed, TypeOK
    <3>4. CASE n = job[q].name
      BY <3>2, <3>3, <3>4
    <3>5. CASE n # job[q].name
      <4>1. index'[n] = index[n] /\ n \notin stale
        BY <3>2, <3>3, <3>5
      <4>2. index[n] = store[n]
        BY <1>2, <3>2, <3>5, <4>1 DEF QuietInv
      <4>3. QED
        BY <3>2, <4>1, <4>2
    <3>6. QED
      BY <3>4, <3>5
  <2>2. CASE \E q \in Procs : WriteStore(q)
    <3>1. PICK q \in Procs : WriteStore(q)
      BY <2>2
    <3>2. /\ index' = index /\ stale' = stale /\ Updating = {}
          /\ store' = [store EXCEPT ![job[q].name] = job[q].envelope]
          /\ q \in Updating' /\ job'[q] = job[q]
      BY <1>1, <3>1, GotoFrame DEF WriteStore, Updating, Running
    <3>3. CASE n = job[q].name
      BY <3>2, <3>3
    <3>4. CASE n # job[q].name
      BY <1>2, <1>3, <3>2, <3>4 DEF QuietInv
    <3>5. QED
      BY <3>3, <3>4
  <2>3. CASE ~(\E q \in Procs : SaveIndex(q)) /\ ~(\E q \in Procs : WriteStore(q))
    <3>1. index' = index /\ store' = store
      BY <2>3, Frame DEF ChangedBy
    <3>2. n \notin stale
      <4>1. ASSUME NEW q \in Procs, Die(q) PROVE stale \subseteq stale'
        BY <4>1 DEF Die
      <4>2. QED
        BY <2>3, <4>1, Frame DEF ChangedBy
    <3>3. CASE index[n] = store[n]
      BY <3>1, <3>3
    <3>4. CASE \E p \in Updating : job[p].name = n
      <4>1. PICK p \in Updating : job[p].name = n
        BY <3>4
      <4>2. p \in Procs /\ pc[p] \in {"load", "save"}
        BY DEF Updating, Running
      <4>3. ~Die(p)
        BY <4>1, <4>2 DEF Die
      <4>4. p \in Updating'
        BY <2>3, <4>2, <4>3, UpdatingEnds
      <4>5. job'[p].name = job[p].name
        BY <2>3, <4>2, <4>4, UpdatingBefore DEF Updating, Running
      <4>6. QED
        BY <4>1, <4>4, <4>5
    <3>5. QED
      BY <1>2, <3>2, <3>3, <3>4 DEF QuietInv
  <2>4. QED
    BY <2>1, <2>2, <2>3
<1>8. QED
  BY <1>4, <1>5, <1>6, <1>7

(* QuietIndexNamesEveryEntry: the index is exact when the commands that    *)
(* update it do so one at a time, but for entries whose command died while *)
(* updating it (_save_index).                                              *)
THEOREM QuietIndexIsExact == Spec => []QuietIndexNamesEveryEntry
<1>1. Init => QuietInv
  BY DEF Init, QuietInv, Updating, Running
<1>2. QuietInv => QuietIndexNamesEveryEntry
  BY DEF QuietInv, QuietIndexNamesEveryEntry, Updating
<1>3. QED
  BY <1>1, <1>2, QuietInvNext, AlwaysTyped, PTL DEF Spec
==============================================================================
