---------------------------- MODULE BastionLedger ----------------------------
(***************************************************************************)
(* The Daylight v18 Binaric Transition Ledger (daylight/v18-bastion): a    *)
(* file of one genesis line and one line per appended transition, chained  *)
(* by heads, and the checks that read it: transition-ledger-verify and     *)
(* tamper-check here, and the ledger check of a v19 Aperture capsule.      *)
(*                                                                         *)
(* Commands are processes of their own and take no lock: an append reads   *)
(* and verifies the file, truncates it, and writes it whole again.         *)
(*                                                                         *)
(* Digests are collision free, so a digest stands for what it covers: a    *)
(* vector is its vector_digest, a transition without its proof is its      *)
(* transition_digest, and a head is the sequence of the transitions that   *)
(* lead to it.                                                             *)
(***************************************************************************)
EXTENDS Naturals, Sequences, FiniteSets

CONSTANTS
    Vectors,      \* the binaric vectors measured so far
    fields,       \* fields[v]: what v records of its subject
    previous,     \* previous[v]: the previous_vector_digest of v, if it has one
    Overclaiming, \* vectors that claim runtime containment
    Passphrases,
    Submissions,  \* signed transitions that commands are given
    Commands,     \* processes, each running one ledger command at a time
    MaxCommands,  \* bound: ledger commands started
    MaxCrashes    \* bound: commands killed

ASSUME BoundsAssumption == MaxCommands \in Nat /\ MaxCrashes \in Nat

VARIABLES
    file,     \* the lines of the ledger file
    exists,   \* the ledger file exists
    pc,       \* pc[p]: "idle", "loaded", or "opened" with the file truncated
    job,      \* job[p]: "init" or "append", the command p runs
    draft,    \* draft[p]: the lines p is going to write
    started, crashes,
    composed, \* history: the heads that drafts have had
    acked,    \* history: transitions whose append returned since the last init
    disturbed \* history: commands have overlapped, or one died while writing

history == <<composed, acked, disturbed>>
vars == <<file, exists, pc, job, draft, started, crashes, history>>

-----------------------------------------------------------------------------
(***************************************************************************)
(* Transitions: propose, sign, verify.                                     *)
(***************************************************************************)
Fields == {"version", "policy_digest", "file_sha256"}

(* A vector records each of the fields and no others. *)
ASSUME FieldsAssumption ==
    \A v \in Vectors : fields[v] = [f \in Fields |-> fields[v][f]]

DiffFields(before, after) ==
    {f \in Fields : fields[before][f] # fields[after][f]}

Propose(before, after) ==
    LET changed == DiffFields(before, after) IN
    [before |-> before, after |-> after, changed |-> changed, accepted |-> TRUE,
     policy_change_authorized |-> "policy_digest" \in changed,
     allowed_version_transition |-> "version" \in changed]

(* The proof is an HMAC of the body under a key the passphrase gives. *)
Sign(body, passphrase) == [body |-> body, proof |-> passphrase]

VerifyTransition(before, after, t, passphrase) ==
    LET changed == DiffFields(before, after) IN
    /\ t.body.before = before /\ t.body.after = after
    /\ t.body.changed = changed
    /\ previous[after] = before
    /\ "version" \in changed => t.body.allowed_version_transition
    /\ after \notin Overclaiming
    /\ "policy_digest" \in changed => t.body.policy_change_authorized
    /\ t.body.accepted
    /\ t.proof = passphrase

-----------------------------------------------------------------------------
(***************************************************************************)
(* Lines of the file, and the two verifiers.                               *)
(***************************************************************************)
Genesis == [kind |-> "genesis"]
Torn == [kind |-> "torn"]   \* no longer JSON

(* Mutant: the record is stored without its proof. *)
MakeEntryUnproved(t, head, number) ==
    [kind |-> "entry", entry_id |-> number, previous_head |-> head,
     transition_record |-> t.body]

(* Mutant: the entry takes the number of the entry before it. *)
MakeEntryStaleId(t, head, number) ==
    [kind |-> "entry", entry_id |-> number - 1, previous_head |-> head,
     transition_record |-> t]

MakeEntry(t, head, number) ==
    [kind |-> "entry", entry_id |-> number, previous_head |-> head,
     transition_record |-> t]

(* The running head once every line has been read. *)
HeadOf(lines) ==
    [i \in 1 .. Len(lines) - 1 |-> lines[i + 1].transition_record]

WellFormed(lines) ==
    /\ lines # <<>>
    /\ lines[1] = Genesis
    /\ \A i \in 2 .. Len(lines) : lines[i].kind = "entry"

(* Mutant: an entry is checked to extend some head of its length only. *)
LinkedByLength(lines) ==
    \A i \in 2 .. Len(lines) : Len(lines[i].previous_head) = i - 2

Linked(lines) ==
    \A i \in 2 .. Len(lines) :
        lines[i].previous_head = HeadOf(SubSeq(lines, 1, i - 1))

VerifyLedger(lines) ==
    /\ WellFormed(lines)
    /\ Linked(lines)
    /\ \A i, j \in 2 .. Len(lines) :
        i # j => /\ lines[i].entry_id # lines[j].entry_id
                 /\ lines[i].transition_record.body # lines[j].transition_record.body

(* The v19 check recomputes the chain and leaves duplicates to v18. *)
ApertureAccepts(lines) == WellFormed(lines) /\ Linked(lines)

TransitionDigestInLedger(lines, t) ==
    \E i \in 2 .. Len(lines) : lines[i].transition_record.body = t.body

(* Mutant: inclusion in the ledger is not asked for. *)
TamperAcceptedUnlogged(before, after, t, lines, passphrase) ==
    VerifyTransition(before, after, t, passphrase) /\ VerifyLedger(lines)

TamperAccepted(before, after, t, lines, passphrase) ==
    /\ VerifyTransition(before, after, t, passphrase)
    /\ VerifyLedger(lines)
    /\ TransitionDigestInLedger(lines, t)

(* tamper_check with a transition and a ledger: both are needed as soon as *)
(* anything differs, the link from after to before included.               *)
TamperCheck(before, after, t, lines, passphrase) ==
    \/ DiffFields(before, after) = {} /\ previous[after] = before
    \/ TamperAccepted(before, after, t, lines, passphrase)

-----------------------------------------------------------------------------
(***************************************************************************)
(* Commands.                                                               *)
(***************************************************************************)
Init ==
    /\ file = <<>> /\ exists = FALSE
    /\ pc = [p \in Commands |-> "idle"]
    /\ job = [p \in Commands |-> "init"]
    /\ draft = [p \in Commands |-> <<>>]
    /\ started = 0 /\ crashes = 0
    /\ composed = {<<>>} /\ acked = <<>> /\ disturbed = FALSE

Start(p, kind, lines) ==
    /\ pc[p] = "idle"
    /\ started < MaxCommands
    /\ started' = started + 1
    /\ pc' = [pc EXCEPT ![p] = "loaded"]
    /\ job' = [job EXCEPT ![p] = kind]
    /\ draft' = [draft EXCEPT ![p] = lines]
    /\ composed' = composed \cup {HeadOf(lines)}
    /\ disturbed' = (disturbed \/ \E q \in Commands \ {p} : pc[q] # "idle")
    /\ UNCHANGED <<file, exists, crashes, acked>>

(* init_ledger does not look whether there is a ledger already. *)
StartInit(p) == Start(p, "init", <<Genesis>>)

(* Mutant: the ledger that was read is not verified. *)
StartAppendUnverified(p, t) ==
    /\ exists
    /\ ApertureAccepts(file)
    /\ Start(p, "append", Append(file, MakeEntry(t, HeadOf(file), Len(file))))

(* append_transition up to the write; it stops unless the ledger verifies. *)
StartAppend(p, t) ==
    /\ exists
    /\ VerifyLedger(file)
    /\ Start(p, "append", Append(file, MakeEntry(t, HeadOf(file), Len(file))))

(* write_bytes opens the file, which creates or truncates it... *)
Open(p) ==
    /\ pc[p] = "loaded"
    /\ pc' = [pc EXCEPT ![p] = "opened"]
    /\ file' = <<>> /\ exists' = TRUE
    /\ UNCHANGED <<job, draft, started, crashes, history>>

(* ... and writes from its start.  What another command wrote meanwhile    *)
(* shows behind the end: nothing, whole lines, or the rest of a line.      *)
Overlaid(lines) ==
    IF file = <<>> THEN {lines}
    ELSE {lines, Append(lines, Torn),
          lines \o SubSeq(file, Len(lines) + 1, Len(file))}

(* Mutant: the entry is written in place of the ledger, not after it. *)
WriteEntryOnly(p) ==
    /\ pc[p] = "opened"
    /\ pc' = [pc EXCEPT ![p] = "idle"]
    /\ file' = IF job[p] = "init" THEN draft[p] ELSE <<Genesis, draft[p][Len(draft[p])]>>
    /\ acked' = IF job[p] = "init" THEN <<>>
                ELSE Append(acked, draft[p][Len(draft[p])].transition_record)
    /\ draft' = [draft EXCEPT ![p] = <<>>]
    /\ UNCHANGED <<exists, job, started, crashes, composed, disturbed>>

Write(p) ==
    /\ pc[p] = "opened"
    /\ pc' = [pc EXCEPT ![p] = "idle"]
    /\ file' \in Overlaid(draft[p])
    /\ acked' = IF job[p] = "init" THEN <<>>
                ELSE Append(acked, draft[p][Len(draft[p])].transition_record)
    /\ draft' = [draft EXCEPT ![p] = <<>>]
    /\ UNCHANGED <<exists, job, started, crashes, composed, disturbed>>

(* The process dies before it opens the file. *)
DieLoaded(p) ==
    /\ pc[p] = "loaded"
    /\ crashes < MaxCrashes
    /\ crashes' = crashes + 1
    /\ pc' = [pc EXCEPT ![p] = "idle"]
    /\ draft' = [draft EXCEPT ![p] = <<>>]
    /\ UNCHANGED <<file, exists, job, started, history>>

(* It dies after: some of the lines are there, the last perhaps in part. *)
DieOpened(p) ==
    /\ pc[p] = "opened"
    /\ crashes < MaxCrashes
    /\ crashes' = crashes + 1
    /\ pc' = [pc EXCEPT ![p] = "idle"]
    /\ \E n \in 0 .. Len(draft[p]) :
        LET kept == SubSeq(draft[p], 1, n) IN
        file' \in Overlaid(kept) \cup {Append(kept, Torn)}
    /\ draft' = [draft EXCEPT ![p] = <<>>]
    /\ disturbed' = TRUE
    /\ UNCHANGED <<exists, job, started, composed, acked>>

Run(p) ==
    \/ StartInit(p)
    \/ \E t \in Submissions : StartAppend(p, t)
    \/ Open(p) \/ Write(p)
    \/ DieLoaded(p) \/ DieOpened(p)

Next == \E p \in Commands : Run(p)

Spec == Init /\ [][Next]_vars

-----------------------------------------------------------------------------
(***************************************************************************)
(* Correctness.                                                            *)
(***************************************************************************)
Lines ==
    {Genesis, Torn} \cup
    [kind : {"entry"}, entry_id : Nat, previous_head : Seq(Submissions),
     transition_record : Submissions]

TypeOK ==
    /\ file \in Seq(Lines)
    /\ draft \in [Commands -> Seq(Lines)]
    /\ exists \in BOOLEAN
    /\ pc \in [Commands -> {"idle", "loaded", "opened"}]
    /\ job \in [Commands -> {"init", "append"}]
    /\ started \in 0 .. MaxCommands
    /\ crashes \in 0 .. MaxCrashes
    /\ composed \subseteq Seq(Submissions)
    /\ acked \in Seq(Submissions)
    /\ disturbed \in BOOLEAN

(* No two entries of a head are the same transition. *)
Distinct(head) ==
    \A i, j \in DOMAIN head : i # j => head[i].body # head[j].body

(* Every line of the file and of a draft is one some command composed at   *)
(* this place, and what stands below an entry had verified: the inductive  *)
(* form of the next two.                                                   *)
LineOK(line, i) ==
    \/ line = Torn
    \/ i = 1 /\ line = Genesis
    \/ /\ i > 1 /\ line.kind = "entry"
       /\ line.entry_id = i - 1
       /\ Len(line.previous_head) = i - 2
       /\ Distinct(line.previous_head)
       /\ Append(line.previous_head, line.transition_record) \in composed

LinesOK(lines) == \A i \in DOMAIN lines : LineOK(lines[i], i)

DraftOK(p) ==
    LET lines == draft[p] IN
    /\ LinesOK(lines)
    /\ pc[p] # "idle" => /\ ApertureAccepts(lines)
                         /\ job[p] = "init" => lines = <<Genesis>>
                         /\ job[p] = "append" => Len(lines) > 1

LedgerInv ==
    /\ LinesOK(file)
    /\ <<>> \in composed
    /\ \A p \in Commands : DraftOK(p)

(* A ledger whose chain verifies is one a command really composed: neither *)
(* a crash nor two commands writing over each other makes a ledger nobody  *)
(* wrote, so a head bound into an Aperture capsule stands for a history.   *)
VerifiedHeadWasComposed == ApertureAccepts(file) => HeadOf(file) \in composed

(* An append refuses a ledger that does not verify, so a ledger whose      *)
(* chain holds verifies at least without its last entry, whatever commands *)
(* overlapped or died: nothing is ever built on a bad entry.               *)
RepairableAtTip ==
    ApertureAccepts(file) /\ Len(file) > 1
        => VerifyLedger(SubSeq(file, 1, Len(file) - 1))

(* "No user proof -> no transition.  No ledger inclusion -> no transition": *)
(* a tamper check lets a vector that records other contents pass only with *)
(* a transition signed under the passphrase for exactly this change, which *)
(* some append has put in a ledger.                                        *)
NoUnauthorizedTamper ==
    \A before, after \in Vectors, t \in Submissions, passphrase \in Passphrases :
        /\ TamperCheck(before, after, t, file, passphrase)
        /\ fields[before] # fields[after]
        => /\ t.body.before = before /\ t.body.after = after
           /\ t.proof = passphrase
           /\ fields[before]["policy_digest"] # fields[after]["policy_digest"]
                => t.body.policy_change_authorized
           /\ \E head \in composed : \E i \in DOMAIN head : head[i].body = t.body

(* As long as commands run one after the other and none dies while it      *)
(* writes, the ledger is exactly the entries appended since it was made,   *)
(* in order, and its chain verifies.                                       *)
Quiet == ~disturbed /\ \A p \in Commands : pc[p] = "idle"

UndisturbedIsExact ==
    Quiet /\ exists => ApertureAccepts(file) /\ HeadOf(file) = acked

(* specs/daylight-v18-binaric-vector.md: "Ledger validity requires ... no  *)
(* duplicate entry_id or transition_digest", of the ledger an append made. *)
AppendLeavesValidLedger == Quiet /\ exists => VerifyLedger(file)

(* README.md: a transition whose append returned is "present in the        *)
(* append-only transition ledger".                                         *)
AppendedStaysIncluded ==
    crashes = 0 /\ (\A p \in Commands : pc[p] = "idle")
        => \A i \in DOMAIN acked : TransitionDigestInLedger(file, acked[i])

=============================================================================
