---------------------------- MODULE MeridianVault ----------------------------
(***************************************************************************)
(* The Daylight v15 Meridian vault (daylight/v15-meridian/src/vault.py): a *)
(* directory that holds an evidence base, a policy, a key or a salt, one   *)
(* envelope per sealed entry and an index of the entries.                  *)
(*                                                                         *)
(* Commands are processes of their own and take no lock. Each file of the  *)
(* vault is replaced atomically (_write_private), so a step here is one    *)
(* read or one replacement of one file; what a command reads at one step   *)
(* it may use several steps later, when another command has replaced it.   *)
(*                                                                         *)
(* Cryptography is ideal. An envelope opens for the key it was sealed with *)
(* and the authorization tag it was sealed under. The tag covers the       *)
(* scorecard, which the ledger and the corpus determine, and the policy:   *)
(* it is the triple of these. A salt or a random key is the number of the  *)
(* init that drew it. The nonce is abstracted: two envelopes of the same   *)
(* text under the same key and tag are equal.                              *)
(***************************************************************************)
EXTENDS Naturals, FiniteSets

CONSTANTS
    Procs,       \* processes, each running one vault command at a time
    Files,       \* files of the user that are sealed
    GivenNames,  \* entry names the user gives with --name
    Texts,       \* what the user writes in files
    Ledgers, Corpora, \* evidence that init is given
    Policies,
    Authorized,  \* <<ledger, corpus, policy>>: the scorecard verifies and
                 \* satisfies the policy
    Noise,       \* the random bytes a file is overwritten with
    None,        \* a file that does not exist
    MaxCommands, \* bound: commands started, and edits of the user
    MaxDeaths    \* bound: commands that die before they end

ASSUME AuthorizedAssumption == Authorized \subseteq Ledgers \X Corpora \X Policies
ASSUME BoundsAssumption == MaxCommands \in Nat /\ MaxDeaths \in Nat

VARIABLES
    config,   \* vault.json
    keyFile,  \* vault.key
    ledger, corpus, \* evidence/ledger.jsonl and evidence/corpus.jsonl
    made,     \* the vault directory holds something
    store,    \* store[n]: the envelope in store/<n>.mae
    index,    \* index[n]: the envelope whose digest index.json records for n
    content,  \* content[f]: what the user's file f holds
    pc, job,  \* the command each process runs
    commands, deaths, inits,
    clean,    \* history: processes no other command has interfered with
    wiped,    \* history: wiped[n], the text whose only copy is now entry n
    stale,    \* history: entries whose sealing died before the index was saved
    raced,    \* history: two commands have updated the index at once
    mixed     \* history: the vault's files may come from two inits

vault == <<config, keyFile, ledger, corpus, made, store, index>>
history == <<clean, wiped, stale, raced, mixed>>
vars == <<vault, content, pc, job, commands, deaths, inits, history>>

-----------------------------------------------------------------------------
(***************************************************************************)
(* Keys and envelopes.                                                     *)
(***************************************************************************)

(* An entry is called as the user says, or after the path of its file: the *)
(* digest in that name makes it one of its own for each file.              *)
Names == Files \cup GivenNames
_safe_name(f) == f

Contents == Texts \cup {Noise}
Config == [policy : Policies, mode : {"passphrase", "keyfile"}, serial : Nat]
Keys == [mode : {"passphrase", "keyfile"}, serial : Nat]
Envelopes == [text : Contents, key : Keys, tag : Authorized]

ASSUME SentinelsAssumption ==
    /\ None \notin Contents \cup Ledgers \cup Corpora \cup Files \cup Nat
    /\ None \notin Config \cup Envelopes
    /\ Noise \notin Texts

(* The key that a command whose vault.json is c computes now.              *)
caller_key(c) ==
    [mode |-> c.mode, serial |-> IF c.mode = "keyfile" THEN keyFile ELSE c.serial]

Readable(key) == key.serial # None

Tag(policy) == <<ledger, corpus, policy>>

Envelope(text, key, policy) == [text |-> text, key |-> key, tag |-> Tag(policy)]

(* open_envelope: the policy is the one in the envelope's own header, the  *)
(* evidence is the one that is there now.                                  *)
Opens(envelope, key) ==
    /\ Tag(envelope.tag[3]) \in Authorized
    /\ Tag(envelope.tag[3]) = envelope.tag
    /\ key = envelope.key

-----------------------------------------------------------------------------
(***************************************************************************)
(* Processes. A job's fields mean, for a seal: the vault.json it loaded,   *)
(* the file and the entry name, whether the original is kept, the files    *)
(* autoseal has left, the text and the key read, the envelope made, and    *)
(* the index loaded. An init uses config, ledger and corpus for what it is *)
(* going to write; an open uses file for the output path.                  *)
(***************************************************************************)
SealSteps == {"read", "key", "evidence", "store", "load", "save", "wipe", "unlink", "next"}
InitSteps == {"mkdirs", "ledger", "corpus", "vaultkey", "config"}
OpenSteps == {"envelope", "openkey", "open", "restore"}

NoJob == [config |-> None, ledger |-> None, corpus |-> None, file |-> None,
          name |-> None, keep |-> TRUE, rest |-> {}, text |-> None, key |-> None,
          envelope |-> None, index |-> None]

Running(steps) == {p \in Procs : pc[p] \in steps}

Goto(p, step, j) ==
    /\ pc' = [pc EXCEPT ![p] = step]
    /\ job' = [job EXCEPT ![p] = j]

Stop(p) == Goto(p, "idle", NoJob)

Counted(p) == pc[p] = "idle" /\ commands < MaxCommands /\ commands' = commands + 1

Init ==
    /\ config = None /\ keyFile = None /\ ledger = None /\ corpus = None
    /\ made = FALSE
    /\ store = [n \in Names |-> None]
    /\ index = [n \in Names |-> None]
    /\ content \in [Files -> Texts]
    /\ pc = [p \in Procs |-> "idle"]
    /\ job = [p \in Procs |-> NoJob]
    /\ commands = 0 /\ deaths = 0 /\ inits = 0
    /\ clean = {}
    /\ wiped = [n \in Names |-> None]
    /\ stale = {} /\ raced = FALSE /\ mixed = FALSE

-----------------------------------------------------------------------------
(***************************************************************************)
(* vault init. What init is given was verified before the first write; the *)
(* configuration is written last.                                          *)
(***************************************************************************)
StartInit(p) ==
    /\ Counted(p)
    /\ \E l \in Ledgers, c \in Corpora, policy \in Policies,
          mode \in {"passphrase", "keyfile"}, force \in BOOLEAN :
          /\ made => force
          /\ <<l, c, policy>> \in Authorized
          /\ Goto(p, "mkdirs", [NoJob EXCEPT
                !.ledger = l, !.corpus = c,
                !.config = [policy |-> policy, mode |-> mode, serial |-> inits]])
    /\ inits' = inits + 1
    /\ clean' = IF Running(InitSteps) = {}
                THEN (clean \ Running(SealSteps)) \cup {p}
                ELSE clean \ Running(SealSteps \cup InitSteps)
    /\ UNCHANGED <<vault, content, deaths, wiped, stale, raced, mixed>>

(* Mutant: the configuration is written first. *)
MakeDirsConfigFirst(p) ==
    /\ pc[p] = "mkdirs"
    /\ made' = TRUE
    /\ config' = job[p].config
    /\ Goto(p, "ledger", job[p])
    /\ UNCHANGED <<keyFile, ledger, corpus, store, index, content, commands, deaths,
                   inits, history>>

MakeDirs(p) ==
    /\ pc[p] = "mkdirs"
    /\ made' = TRUE
    /\ Goto(p, "ledger", job[p])
    /\ UNCHANGED <<config, keyFile, ledger, corpus, store, index, content, commands, deaths,
                   inits, history>>

CopyLedger(p) ==
    /\ pc[p] = "ledger"
    /\ ledger' = job[p].ledger
    /\ Goto(p, "corpus", job[p])
    /\ wiped' = [n \in Names |-> None]
    /\ UNCHANGED <<config, keyFile, corpus, made, store, index, content, commands, deaths,
                   inits, clean, stale, raced, mixed>>

(* Mutant: a corpus that is there is left as it is. *)
CopyCorpusOnce(p) ==
    /\ pc[p] = "corpus"
    /\ corpus' = IF corpus = None THEN job[p].corpus ELSE corpus
    /\ Goto(p, "vaultkey", job[p])
    /\ UNCHANGED <<config, keyFile, ledger, made, store, index, content, commands, deaths,
                   inits, history>>

CopyCorpus(p) ==
    /\ pc[p] = "corpus"
    /\ corpus' = job[p].corpus
    /\ Goto(p, "vaultkey", job[p])
    /\ UNCHANGED <<config, keyFile, ledger, made, store, index, content, commands, deaths,
                   inits, history>>

(* Passphrase mode writes no key, and leaves one that is there.            *)
WriteKey(p) ==
    /\ pc[p] = "vaultkey"
    /\ keyFile' = IF job[p].config.mode = "keyfile" THEN job[p].config.serial ELSE keyFile
    /\ Goto(p, "config", job[p])
    /\ UNCHANGED <<config, ledger, corpus, made, store, index, content, commands, deaths,
                   inits, history>>

WriteConfig(p) ==
    /\ pc[p] = "config"
    /\ config' = job[p].config
    /\ mixed' = (p \notin clean)
    /\ Stop(p) /\ clean' = clean \ {p}
    /\ UNCHANGED <<keyFile, ledger, corpus, made, store, index, content, commands, deaths,
                   inits, wiped, stale, raced>>

-----------------------------------------------------------------------------
(***************************************************************************)
(* vault seal and vault autoseal. The configuration is loaded once for the *)
(* whole command.                                                          *)
(***************************************************************************)

(* The commands that seal the same file, or under the same name, as p.     *)
Rivals(p, file, name) ==
    {q \in Running(SealSteps) \ {p} : job[q].file = file \/ job[q].name = name}

StartSeal(p) ==
    /\ Counted(p) /\ config # None
    /\ \E f \in Files, n \in Names, keep \in BOOLEAN :
          /\ n \in GivenNames \cup {_safe_name(f)}
          /\ Goto(p, "read", [NoJob EXCEPT !.config = config, !.file = f, !.name = n,
                                           !.keep = keep])
          /\ clean' = IF Rivals(p, f, n) \cup Running(InitSteps) = {}
                      THEN clean \cup {p}
                      ELSE clean \ Rivals(p, f, n)
    /\ UNCHANGED <<vault, content, deaths, inits, wiped, stale, raced, mixed>>

StartAutoseal(p) ==
    /\ Counted(p) /\ config # None
    /\ \E targets \in SUBSET Files, keep \in BOOLEAN :
          Goto(p, "next", [NoJob EXCEPT !.config = config, !.keep = keep, !.rest = targets])
    /\ clean' = IF Running(InitSteps) = {} THEN clean \cup {p} ELSE clean
    /\ UNCHANGED <<vault, content, deaths, inits, wiped, stale, raced, mixed>>

(* Autoseal's next target, skipped if it does not exist.                   *)
NextFile(p) ==
    /\ pc[p] = "next"
    /\ \E f \in job[p].rest :
          LET rest == job[p].rest \ {f} IN
          IF content[f] = None
          THEN Goto(p, "next", [job[p] EXCEPT !.rest = rest]) /\ UNCHANGED clean
          ELSE /\ Goto(p, "read", [job[p] EXCEPT !.file = f, !.name = _safe_name(f),
                                                 !.rest = rest])
               /\ clean' = IF Rivals(p, f, _safe_name(f)) = {}
                           THEN clean
                           ELSE clean \ (Rivals(p, f, _safe_name(f)) \cup {p})
    /\ UNCHANGED <<vault, content, commands, deaths, inits, wiped, stale, raced, mixed>>

ReadSource(p) ==
    /\ pc[p] = "read" /\ content[job[p].file] # None
    /\ Goto(p, "key", [job[p] EXCEPT !.text = content[job[p].file]])
    /\ UNCHANGED <<vault, content, commands, deaths, inits, history>>

ReadKey(p) ==
    /\ pc[p] = "key" /\ Readable(caller_key(job[p].config))
    /\ Goto(p, "evidence", [job[p] EXCEPT !.key = caller_key(job[p].config)])
    /\ UNCHANGED <<vault, content, commands, deaths, inits, history>>

(* Mutant: the scorecard is not held against the policy. *)
ReadEvidenceUnauthorized(p) ==
    /\ pc[p] = "evidence" /\ ledger # None /\ corpus # None
    /\ Goto(p, "store", [job[p] EXCEPT
          !.envelope = Envelope(job[p].text, job[p].key, job[p].config.policy)])
    /\ UNCHANGED <<vault, content, commands, deaths, inits, history>>

(* Mutant: the entry is put in the index before its envelope in the store. *)
ReadEvidenceIndexFirst(p) ==
    LET sealed == Envelope(job[p].text, job[p].key, job[p].config.policy) IN
    /\ pc[p] = "evidence" /\ Tag(job[p].config.policy) \in Authorized
    /\ Goto(p, "store", [job[p] EXCEPT !.envelope = sealed])
    /\ index' = [index EXCEPT ![job[p].name] = sealed]
    /\ UNCHANGED <<config, keyFile, ledger, corpus, made, store, content, commands, deaths,
                   inits, history>>

(* The scorecard is derived twice and the two must agree, so ledger and    *)
(* corpus are read as they are at one moment.                              *)
ReadEvidence(p) ==
    /\ pc[p] = "evidence" /\ Tag(job[p].config.policy) \in Authorized
    /\ Goto(p, "store", [job[p] EXCEPT
          !.envelope = Envelope(job[p].text, job[p].key, job[p].config.policy)])
    /\ UNCHANGED <<vault, content, commands, deaths, inits, history>>

(* Mutant: an entry that is there is not replaced. *)
WriteStoreOnce(p) ==
    /\ pc[p] = "store"
    /\ store' = IF store[job[p].name] = None
                THEN [store EXCEPT ![job[p].name] = job[p].envelope] ELSE store
    /\ wiped' = [wiped EXCEPT ![job[p].name] = None]
    /\ raced' = (raced \/ Running({"load", "save"}) # {})
    /\ Goto(p, "load", job[p])
    /\ UNCHANGED <<config, keyFile, ledger, corpus, made, index, content, commands, deaths,
                   inits, clean, stale, mixed>>

WriteStore(p) ==
    /\ pc[p] = "store"
    /\ store' = [store EXCEPT ![job[p].name] = job[p].envelope]
    /\ wiped' = [wiped EXCEPT ![job[p].name] = None]
    /\ raced' = (raced \/ Running({"load", "save"}) # {})
    /\ Goto(p, "load", job[p])
    /\ UNCHANGED <<config, keyFile, ledger, corpus, made, index, content, commands, deaths,
                   inits, clean, stale, mixed>>

LoadIndex(p) ==
    /\ pc[p] = "load"
    /\ Goto(p, "save", [job[p] EXCEPT !.index = index])
    /\ UNCHANGED <<vault, content, commands, deaths, inits, history>>

(* What a seal does once its file is dealt with: a single seal ends.       *)
Continue(p) ==
    IF job[p].rest = {}
    THEN Stop(p) /\ clean' = clean \ {p}
    ELSE Goto(p, "next", [NoJob EXCEPT !.config = job[p].config, !.keep = job[p].keep,
                                       !.rest = job[p].rest])
         /\ UNCHANGED clean

(* Mutant: the index is written with the new entry only. *)
SaveIndexEntryOnly(p) ==
    /\ pc[p] = "save"
    /\ index' = [n \in Names |-> IF n = job[p].name THEN job[p].envelope ELSE None]
    /\ stale' = stale \ {job[p].name}
    /\ IF job[p].keep THEN Continue(p) ELSE Goto(p, "wipe", job[p]) /\ UNCHANGED clean
    /\ UNCHANGED <<config, keyFile, ledger, corpus, made, store, content, commands, deaths,
                   inits, wiped, raced, mixed>>

SaveIndex(p) ==
    /\ pc[p] = "save"
    /\ index' = [job[p].index EXCEPT ![job[p].name] = job[p].envelope]
    /\ stale' = stale \ {job[p].name}
    /\ IF job[p].keep THEN Continue(p) ELSE Goto(p, "wipe", job[p]) /\ UNCHANGED clean
    /\ UNCHANGED <<config, keyFile, ledger, corpus, made, store, content, commands, deaths,
                   inits, wiped, raced, mixed>>

(* The text that p destroys in its file: entry n is its only copy now.     *)
Destroyed(p) ==
    LET n == job[p].name  text == content[job[p].file] IN
    wiped' = IF p \in clean /\ text \in Texts THEN [wiped EXCEPT ![n] = text] ELSE wiped

(* The overwrite is best effort: an error is passed over.                  *)
Overwrite(p) ==
    /\ pc[p] = "wipe"
    /\ \/ UNCHANGED <<content, wiped>>
       \/ /\ content[job[p].file] # None
          /\ content' = [content EXCEPT ![job[p].file] = Noise]
          /\ Destroyed(p)
    /\ Goto(p, "unlink", job[p])
    /\ UNCHANGED <<vault, commands, deaths, inits, clean, stale, raced, mixed>>

Unlink(p) ==
    /\ pc[p] = "unlink" /\ content[job[p].file] # None
    /\ content' = [content EXCEPT ![job[p].file] = None]
    /\ Destroyed(p)
    /\ Continue(p)
    /\ UNCHANGED <<vault, commands, deaths, inits, stale, raced, mixed>>

-----------------------------------------------------------------------------
(***************************************************************************)
(* vault open --out.                                                       *)
(***************************************************************************)

(* A seal of file f no longer has what it read in f.                       *)
Touched(f) == {q \in Running(SealSteps) : job[q].file = f}

StartOpen(p) ==
    /\ Counted(p) /\ config # None
    /\ \E n \in Names, f \in Files :
          Goto(p, "envelope", [NoJob EXCEPT !.config = config, !.name = n, !.file = f])
    /\ UNCHANGED <<vault, content, deaths, inits, history>>

ReadEnvelope(p) ==
    /\ pc[p] = "envelope" /\ store[job[p].name] # None
    /\ Goto(p, "openkey", [job[p] EXCEPT !.envelope = store[job[p].name]])
    /\ UNCHANGED <<vault, content, commands, deaths, inits, history>>

ReadOpenKey(p) ==
    /\ pc[p] = "openkey" /\ Readable(caller_key(job[p].config))
    /\ Goto(p, "open", [job[p] EXCEPT !.key = caller_key(job[p].config)])
    /\ UNCHANGED <<vault, content, commands, deaths, inits, history>>

OpenEnvelope(p) ==
    /\ pc[p] = "open" /\ Opens(job[p].envelope, job[p].key)
    /\ Goto(p, "restore", [job[p] EXCEPT !.text = job[p].envelope.text])
    /\ UNCHANGED <<vault, content, commands, deaths, inits, history>>

Restore(p) ==
    /\ pc[p] = "restore"
    /\ content' = [content EXCEPT ![job[p].file] = job[p].text]
    /\ clean' = clean \ Touched(job[p].file)
    /\ Stop(p)
    /\ UNCHANGED <<vault, commands, deaths, inits, wiped, stale, raced, mixed>>

-----------------------------------------------------------------------------
(***************************************************************************)
(* Refusals, deaths, the user.                                             *)
(***************************************************************************)

(* The conditions on which a step raises; a seal of more files ends too.   *)
Refused(p) ==
    LET j == job[p] IN
    \/ pc[p] \in {"read", "unlink"} /\ content[j.file] = None
    \/ pc[p] \in {"key", "openkey"} /\ ~Readable(caller_key(j.config))
    \/ pc[p] = "evidence" /\ Tag(j.config.policy) \notin Authorized
    \/ pc[p] = "envelope" /\ store[j.name] = None
    \/ pc[p] = "open" /\ ~Opens(j.envelope, j.key)
    \/ pc[p] = "next" /\ j.rest = {}

Refuse(p) ==
    /\ Refused(p)
    /\ Stop(p) /\ clean' = clean \ {p}
    /\ UNCHANGED <<vault, content, commands, deaths, inits, wiped, stale, raced, mixed>>

Die(p) ==
    /\ pc[p] # "idle" /\ deaths < MaxDeaths
    /\ deaths' = deaths + 1
    /\ stale' = IF pc[p] \in {"load", "save"} THEN stale \cup {job[p].name} ELSE stale
    /\ mixed' = (mixed \/ pc[p] \in {"corpus", "vaultkey", "config"})
    /\ Stop(p) /\ clean' = clean \ {p}
    /\ UNCHANGED <<vault, content, commands, inits, wiped, raced>>

Edit(f) ==
    /\ commands < MaxCommands /\ commands' = commands + 1
    /\ \E text \in Texts \ {content[f]} : content' = [content EXCEPT ![f] = text]
    /\ clean' = clean \ Touched(f)
    /\ UNCHANGED <<vault, pc, job, deaths, inits, wiped, stale, raced, mixed>>

InitVault(p) ==
    \/ StartInit(p) \/ MakeDirs(p) \/ CopyLedger(p) \/ CopyCorpus(p)
    \/ WriteKey(p) \/ WriteConfig(p)

Seal(p) ==
    \/ StartSeal(p) \/ StartAutoseal(p) \/ NextFile(p) \/ ReadSource(p) \/ ReadKey(p)
    \/ ReadEvidence(p) \/ WriteStore(p) \/ LoadIndex(p) \/ SaveIndex(p)
    \/ Overwrite(p) \/ Unlink(p)

Open(p) ==
    StartOpen(p) \/ ReadEnvelope(p) \/ ReadOpenKey(p) \/ OpenEnvelope(p) \/ Restore(p)

Next ==
    \/ \E p \in Procs : InitVault(p) \/ Seal(p) \/ Open(p) \/ Refuse(p) \/ Die(p)
    \/ \E f \in Files : Edit(f)

Spec == Init /\ [][Next]_vars

-----------------------------------------------------------------------------
(***************************************************************************)
(* Properties.                                                             *)
(***************************************************************************)
Jobs ==
    [config : Config \cup {None}, ledger : Ledgers \cup {None}, corpus : Corpora \cup {None},
     file : Files \cup {None}, name : Names \cup {None}, keep : BOOLEAN, rest : SUBSET Files,
     text : Contents \cup {None}, key : Keys \cup {None}, envelope : Envelopes \cup {None},
     index : [Names -> Envelopes \cup {None}] \cup {None}]

(* Every variable holds what its type says; an envelope is sealed under    *)
(* authorized evidence only.                                               *)
TypeOK ==
    /\ config \in Config \cup {None}
    /\ keyFile \in Nat \cup {None}
    /\ ledger \in Ledgers \cup {None} /\ corpus \in Corpora \cup {None}
    /\ made \in BOOLEAN
    /\ store \in [Names -> Envelopes \cup {None}]
    /\ index \in [Names -> Envelopes \cup {None}]
    /\ content \in [Files -> Contents \cup {None}]
    /\ pc \in [Procs -> SealSteps \cup InitSteps \cup OpenSteps \cup {"idle"}]
    /\ job \in [Procs -> Jobs]
    /\ commands \in 0..MaxCommands /\ deaths \in 0..MaxDeaths /\ inits \in 0..commands
    /\ clean \subseteq Procs /\ stale \subseteq Names
    /\ wiped \in [Names -> Texts \cup {None}]
    /\ raced \in BOOLEAN /\ mixed \in BOOLEAN

(* A vault that loads (vault.json is there, Vault.__init__) has its        *)
(* evidence and, in keyfile mode, a key: whatever inits overlap or die,    *)
(* no command finds the rest of it missing.                                *)
ConfigIsComplete ==
    config # None =>
        /\ ledger # None /\ corpus # None
        /\ config.mode = "keyfile" => keyFile # None

(* The index never names an entry that is not in the store, whatever       *)
(* commands overlap or die (seal_bytes writes the envelope first).         *)
IndexedIsStored == \A n \in Names : index[n] # None => store[n] # None

(* A vault is never born unopenable (init_vault): when no init is running, *)
(* and unless inits have overlapped or one died since, the evidence of the *)
(* vault satisfies its policy.                                             *)
BornOpenable ==
    config # None /\ Running(InitSteps) = {} /\ ~mixed => Tag(config.policy) \in Authorized

(* A file whose original seal or autoseal removed can be opened, to the    *)
(* text that was destroyed, until its name is sealed again or the vault is *)
(* made anew: whenever the command dies, and whatever runs beside it,      *)
(* except another command on the same file or name, an edit of the file    *)
(* and an init.                                                            *)
WipedCanBeOpened ==
    \A n \in Names : wiped[n] # None =>
        /\ config # None /\ store[n] # None
        /\ Opens(store[n], caller_key(config))
        /\ store[n].text = wiped[n]

(* The index names every sealed entry (_save_index), with the digest of    *)
(* its envelope, when no command is between writing the one and the other, *)
(* none died there, and no two were there at once.                         *)
QuietIndexNamesEveryEntry ==
    ~raced /\ Running({"load", "save"}) = {} =>
        \A n \in Names \ stale : index[n] = store[n]

(* The index names every sealed entry when no command is running.          *)
IndexNamesEveryEntry ==
    Running(SealSteps) = {} => \A n \in Names : store[n] # None => index[n] # None
=============================================================================
