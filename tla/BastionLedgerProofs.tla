------------------------- MODULE BastionLedgerProofs -------------------------
(***************************************************************************)
(* Theorems about the transition ledger, for every set of transitions and  *)
(* vectors, every number of concurrent commands and every bound.           *)
(***************************************************************************)
EXTENDS BastionLedger, SequenceTheorems, TLAPS

(***************************************************************************)
(* Heads.                                                                  *)
(***************************************************************************)
LEMMA FunctionIsSeq ==
    ASSUME NEW S, NEW n \in Nat, NEW f \in [1 .. n -> S]
    PROVE  f \in Seq(S) /\ Len(f) = n
<1>1. f \in Seq(S)
  BY SeqDef
<1>2. DOMAIN f = 1 .. Len(f) /\ Len(f) \in Nat /\ DOMAIN f = 1 .. n
  BY <1>1, LenProperties
<1>3. QED
  BY <1>1, <1>2

LEMMA HeadOfSeq ==
    ASSUME NEW lines \in Seq(Lines), WellFormed(lines)
    PROVE  /\ HeadOf(lines) \in Seq(Submissions)
           /\ Len(HeadOf(lines)) = Len(lines) - 1
           /\ \A i \in 1 .. Len(lines) - 1 :
                HeadOf(lines)[i] = lines[i + 1].transition_record
<1>1. Len(lines) \in Nat /\ Len(lines) > 0
  BY DEF WellFormed
<1>2. \A i \in 1 .. Len(lines) - 1 : lines[i + 1].transition_record \in Submissions
  BY <1>1 DEF WellFormed, Lines, Genesis, Torn
<1>3. HeadOf(lines) \in [1 .. Len(lines) - 1 -> Submissions]
  BY <1>2 DEF HeadOf
<1>4. Len(lines) - 1 \in Nat
  BY <1>1
<1>5. HeadOf(lines) \in Seq(Submissions) /\ Len(HeadOf(lines)) = Len(lines) - 1
  BY <1>3, <1>4, FunctionIsSeq, Zenon
<1>6. QED
  BY <1>5 DEF HeadOf

LEMMA HeadOfGenesis == HeadOf(<<Genesis>>) = <<>>
BY DEF HeadOf

LEMMA LongerWellFormed ==
    ASSUME NEW lines \in Seq(Lines), WellFormed(lines),
           NEW line \in Lines, line.kind = "entry"
    PROVE  WellFormed(Append(lines, line))
<1> DEFINE longer == Append(lines, line)
<1>1. longer \in Seq(Lines)
  OBVIOUS
<1>2. /\ Len(longer) = Len(lines) + 1
      /\ \A i \in 1 .. Len(lines) : longer[i] = lines[i]
      /\ longer[Len(lines) + 1] = line
  OBVIOUS
<1> HIDE DEF longer
<1>3. Len(lines) \in Nat /\ Len(lines) > 0
  BY DEF WellFormed
<1>4. longer # <<>> /\ longer[1] = Genesis
  BY <1>2, <1>3 DEF WellFormed
<1>5. ASSUME NEW i \in 2 .. Len(longer) PROVE longer[i].kind = "entry"
  <2>1. CASE i = Len(lines) + 1
    BY <2>1, <1>2
  <2>2. CASE i \in 2 .. Len(lines)
    BY <2>2, <1>2, <1>3 DEF WellFormed
  <2>3. QED
    BY <2>1, <2>2, <1>2, <1>3
<1>6. WellFormed(longer)
  BY <1>4, <1>5 DEF WellFormed
<1>7. QED
  BY <1>6 DEF longer

LEMMA HeadOfAppend ==
    ASSUME NEW lines \in Seq(Lines), WellFormed(lines),
           NEW line \in Lines, line.kind = "entry"
    PROVE  HeadOf(Append(lines, line)) = Append(HeadOf(lines), line.transition_record)
<1> DEFINE longer == Append(lines, line)
<1>1. /\ longer \in Seq(Lines)
      /\ Len(longer) = Len(lines) + 1
      /\ \A i \in 1 .. Len(lines) : longer[i] = lines[i]
      /\ longer[Len(lines) + 1] = line
  OBVIOUS
<1>2. Len(lines) \in Nat /\ Len(lines) > 0
  BY DEF WellFormed
<1>3. WellFormed(longer)
  BY <1>2, LongerWellFormed
<1>4. line.transition_record \in Submissions
  BY DEF Lines, Genesis, Torn
<1> HIDE DEF longer
<1>5. /\ HeadOf(longer) \in Seq(Submissions)
      /\ Len(HeadOf(longer)) = Len(lines)
      /\ \A i \in 1 .. Len(lines) : HeadOf(longer)[i] = longer[i + 1].transition_record
  BY <1>1, <1>2, <1>3, HeadOfSeq
<1>6. /\ Append(HeadOf(lines), line.transition_record) \in Seq(Submissions)
      /\ Len(Append(HeadOf(lines), line.transition_record)) = Len(lines)
  BY <1>2, <1>4, HeadOfSeq
<1>7. ASSUME NEW i \in 1 .. Len(lines)
      PROVE  HeadOf(longer)[i] = Append(HeadOf(lines), line.transition_record)[i]
  <2>1. CASE i = Len(lines)
    BY <2>1, <1>1, <1>2, <1>4, <1>5, HeadOfSeq
  <2>2. CASE i # Len(lines)
    <3>1. i \in 1 .. Len(lines) - 1 /\ i + 1 \in 1 .. Len(lines)
      BY <2>2, <1>1
    <3>2. HeadOf(lines)[i] = lines[i + 1].transition_record
      BY <3>1, HeadOfSeq
    <3>3. HeadOf(longer)[i] = lines[i + 1].transition_record
      <4>1. longer[i + 1] = lines[i + 1]
        BY <3>1, <1>1
      <4>2. QED
        BY <4>1, <1>5, Zenon
    <3>4. HeadOf(lines) \in Seq(Submissions) /\ Len(HeadOf(lines)) = Len(lines) - 1
      BY HeadOfSeq
    <3>5. QED
      BY <3>1, <3>2, <3>3, <3>4, <1>4
  <2>3. QED
    BY <2>1, <2>2
<1>8. HeadOf(longer) = Append(HeadOf(lines), line.transition_record)
  BY <1>5, <1>6, <1>7, SeqEqual
<1>9. QED
  BY <1>8 DEF longer

(* An entry made for a ledger whose chain holds extends that chain. *)
LEMMA EntryExtendsChain ==
    ASSUME NEW lines \in Seq(Lines), ApertureAccepts(lines), NEW t \in Submissions
    PROVE  LET entry == MakeEntry(t, HeadOf(lines), Len(lines)) IN
           /\ entry \in Lines
           /\ Append(lines, entry) \in Seq(Lines)
           /\ ApertureAccepts(Append(lines, entry))
           /\ HeadOf(Append(lines, entry)) = Append(HeadOf(lines), t)
<1> DEFINE entry == MakeEntry(t, HeadOf(lines), Len(lines))
           longer == Append(lines, entry)
<1>1. WellFormed(lines) /\ Linked(lines)
  BY DEF ApertureAccepts
<1>2. Len(lines) \in Nat /\ Len(lines) > 0
  BY <1>1 DEF WellFormed
<1>3. entry \in Lines /\ entry.kind = "entry" /\ entry.transition_record = t
  BY <1>1, <1>2, HeadOfSeq DEF MakeEntry, Lines
<1>4. /\ longer \in Seq(Lines)
      /\ Len(longer) = Len(lines) + 1
      /\ \A i \in 1 .. Len(lines) : longer[i] = lines[i]
      /\ longer[Len(lines) + 1] = entry
  BY <1>3
<1>5. WellFormed(longer) /\ HeadOf(longer) = Append(HeadOf(lines), t)
  BY <1>1, <1>3, LongerWellFormed, HeadOfAppend
<1>5a. entry.previous_head = HeadOf(lines)
  BY DEF MakeEntry
<1> HIDE DEF longer, entry
<1>6. ASSUME NEW i \in 2 .. Len(lines)
      PROVE  longer[i].previous_head = HeadOf(SubSeq(longer, 1, i - 1))
  <2>1. SubSeq(longer, 1, i - 1) = SubSeq(lines, 1, i - 1)
    <3>1. SubSeq(longer, 1, i - 1) \in Seq(Lines) /\ SubSeq(lines, 1, i - 1) \in Seq(Lines)
      BY <1>2, <1>4
    <3>2. QED
      BY <3>1, <1>2, <1>4, SeqEqual
  <2>2. lines[i].previous_head = HeadOf(SubSeq(lines, 1, i - 1))
    BY <1>1, Zenon DEF Linked
  <2>3. longer[i] = lines[i]
    BY <1>2, <1>4
  <2>4. QED
    BY <2>1, <2>2, <2>3, Zenon
<1>7. SubSeq(longer, 1, Len(lines)) = lines
  <2>1. SubSeq(longer, 1, Len(lines)) \in Seq(Lines)
    BY <1>2, <1>4
  <2>2. QED
    BY <2>1, <1>2, <1>4, SeqEqual
<1>8. longer[Len(lines) + 1].previous_head = HeadOf(SubSeq(longer, 1, Len(lines)))
  BY <1>4, <1>7, <1>5a
<1>9. Linked(longer)
  <2>1. ASSUME NEW i \in 2 .. Len(longer)
        PROVE  longer[i].previous_head = HeadOf(SubSeq(longer, 1, i - 1))
    <3>1. CASE i \in 2 .. Len(lines)
      BY <3>1, <1>6
    <3>2. CASE i = Len(lines) + 1
      BY <3>2, <1>2, <1>8
    <3>3. QED
      BY <3>1, <3>2, <1>2, <1>4
  <2>2. QED
    BY <2>1 DEF Linked
<1>10. QED
  BY <1>3, <1>4, <1>5, <1>9 DEF ApertureAccepts, longer, entry

-----------------------------------------------------------------------------
(***************************************************************************)
(* Lines that commands composed stay so, whole or cut, wherever they land. *)
(***************************************************************************)
LEMMA GenesisAlone ==
    /\ <<Genesis>> \in Seq(Lines)
    /\ ApertureAccepts(<<Genesis>>)
    /\ LinesOK(<<Genesis>>)
BY DEF Lines, Genesis, Torn, ApertureAccepts, WellFormed, Linked, LinesOK, LineOK

LEMMA ComposedGrows ==
    ASSUME composed \subseteq composed', NEW lines, LinesOK(lines)
    PROVE  LinesOK(lines)'
BY DEF LinesOK, LineOK

LEMMA PieceOK ==
    ASSUME NEW lines \in Seq(Lines), LinesOK(lines), NEW n \in 0 .. Len(lines)
    PROVE  /\ SubSeq(lines, 1, n) \in Seq(Lines)
           /\ Len(SubSeq(lines, 1, n)) = n
           /\ LinesOK(SubSeq(lines, 1, n))
<1> DEFINE piece == SubSeq(lines, 1, n)
<1>1. /\ piece \in Seq(Lines)
      /\ Len(piece) = n
      /\ \A i \in 1 .. n : piece[i] = lines[i]
  OBVIOUS
<1> HIDE DEF piece
<1>2. \A i \in 1 .. n : LineOK(piece[i], i)
  BY <1>1 DEF LinesOK
<1>3. LinesOK(piece)
  BY <1>1, <1>2 DEF LinesOK
<1>4. QED
  BY <1>1, <1>3 DEF piece

LEMMA TornOK ==
    ASSUME NEW lines \in Seq(Lines), LinesOK(lines)
    PROVE  Append(lines, Torn) \in Seq(Lines) /\ LinesOK(Append(lines, Torn))
<1> DEFINE longer == Append(lines, Torn)
<1>1. /\ longer \in Seq(Lines)
      /\ Len(longer) = Len(lines) + 1
      /\ \A i \in 1 .. Len(lines) : longer[i] = lines[i]
      /\ longer[Len(lines) + 1] = Torn
  BY DEF Lines
<1> HIDE DEF longer
<1>2. \A i \in 1 .. Len(longer) : LineOK(longer[i], i)
  <2>1. ASSUME NEW i \in 1 .. Len(longer) PROVE LineOK(longer[i], i)
    <3>1. CASE i = Len(lines) + 1
      BY <3>1, <1>1 DEF LineOK
    <3>2. CASE i \in 1 .. Len(lines)
      BY <3>2, <1>1 DEF LinesOK
    <3>3. QED
      BY <3>1, <3>2, <1>1
  <2>2. QED
    BY <2>1
<1>3. LinesOK(longer)
  BY <1>1, <1>2 DEF LinesOK
<1>4. QED
  BY <1>1, <1>3 DEF longer

LEMMA OverlaidOK ==
    ASSUME file \in Seq(Lines), LinesOK(file),
           NEW lines \in Seq(Lines), LinesOK(lines),
           NEW mixed \in Overlaid(lines)
    PROVE  mixed \in Seq(Lines) /\ LinesOK(mixed)
<1>1. CASE mixed = lines
  BY <1>1
<1>2. CASE mixed = Append(lines, Torn)
  BY <1>2, TornOK
<1>3. CASE mixed = lines \o SubSeq(file, Len(lines) + 1, Len(file))
  <2> DEFINE rest == SubSeq(file, Len(lines) + 1, Len(file))
  <2>1. /\ rest \in Seq(Lines)
        /\ Len(rest) = IF Len(lines) < Len(file) THEN Len(file) - Len(lines) ELSE 0
        /\ \A i \in 1 .. Len(rest) : rest[i] = file[Len(lines) + i]
    OBVIOUS
  <2>2. mixed = lines \o rest
    BY <1>3
  <2> HIDE DEF rest
  <2>3. /\ mixed \in Seq(Lines)
        /\ Len(mixed) = Len(lines) + Len(rest)
        /\ \A i \in 1 .. Len(lines) + Len(rest) :
             mixed[i] = IF i <= Len(lines) THEN lines[i] ELSE rest[i - Len(lines)]
    BY <2>1, <2>2, ConcatProperties
  <2>4. ASSUME NEW i \in 1 .. Len(mixed) PROVE LineOK(mixed[i], i)
    <3>1. CASE i <= Len(lines)
      <4>1. mixed[i] = lines[i] /\ i \in 1 .. Len(lines)
        BY <3>1, <2>1, <2>3
      <4>2. QED
        BY <4>1 DEF LinesOK
    <3>2. CASE i > Len(lines)
      <4>1. i - Len(lines) \in 1 .. Len(rest)
        BY <3>2, <2>1, <2>3
      <4>2. mixed[i] = rest[i - Len(lines)]
        BY <3>2, <2>1, <2>3
      <4>3. mixed[i] = file[i] /\ i \in 1 .. Len(file)
        <5>1. rest[i - Len(lines)] = file[Len(lines) + (i - Len(lines))]
          BY <4>1, <2>1
        <5>2. Len(lines) + (i - Len(lines)) = i
          OBVIOUS
        <5>3. i \in 1 .. Len(file)
          BY <3>2, <4>1, <2>1
        <5>4. QED
          BY <4>2, <5>1, <5>2, <5>3
      <4>4. QED
        BY <4>3 DEF LinesOK
    <3>3. QED
      BY <3>1, <3>2, <2>3
  <2>5. QED
    BY <2>3, <2>4 DEF LinesOK
<1>4. QED
  BY <1>1, <1>2, <1>3 DEF Overlaid

-----------------------------------------------------------------------------
(***************************************************************************)
(* The inductive invariant.  The types alone are not inductive: an append  *)
(* records the last line it wrote, and that this line is an entry is part  *)
(* of what LedgerInv says of drafts.                                       *)
(***************************************************************************)
Inv == TypeOK /\ LedgerInv

LEMMA InitInv == Init => Inv
<1> SUFFICES ASSUME Init PROVE Inv
  OBVIOUS
<1>1. TypeOK
  <2>1. <<>> \in Seq(Lines) /\ <<>> \in Seq(Submissions)
    BY EmptySeq
  <2>2. started \in 0 .. MaxCommands /\ crashes \in 0 .. MaxCrashes
    BY BoundsAssumption DEF Init
  <2>3. draft \in [Commands -> Seq(Lines)] /\ composed \subseteq Seq(Submissions)
    BY <2>1, Zenon DEF Init
  <2>4. QED
    BY <2>1, <2>2, <2>3 DEF Init, TypeOK
<1>2. LinesOK(<<>>)
  BY DEF LinesOK
<1>3. LedgerInv
  BY <1>2 DEF Init, LedgerInv, DraftOK
<1>4. QED
  BY <1>1, <1>3 DEF Inv

(* A command that starts with lines whose chain holds. *)
LEMMA StartInv ==
    ASSUME Inv, NEW p \in Commands, NEW kind \in {"init", "append"},
           NEW lines \in Seq(Lines), Start(p, kind, lines),
           ApertureAccepts(lines),
           LinesOK(lines)',
           kind = "init" => lines = <<Genesis>>,
           kind = "append" => Len(lines) > 1
    PROVE  Inv'
<1>1. HeadOf(lines) \in Seq(Submissions)
  BY HeadOfSeq DEF ApertureAccepts
<1>2. composed \subseteq composed'
  BY DEF Start
<1>3. TypeOK'
  BY <1>1, BoundsAssumption DEF Inv, TypeOK, Start, history
<1>4. LinesOK(file)' /\ <<>> \in composed'
  BY <1>2, ComposedGrows DEF Inv, LedgerInv, Start, LinesOK, LineOK
<1>5. ASSUME NEW q \in Commands PROVE DraftOK(q)'
  <2>1. CASE q = p
    <3>1. draft'[q] = lines /\ job'[q] = kind
      BY <2>1 DEF Start, Inv, TypeOK
    <3>2. QED
      BY <3>1 DEF DraftOK, LinesOK, LineOK, ApertureAccepts, WellFormed, Linked
  <2>2. CASE q # p
    <3>1. draft'[q] = draft[q] /\ job'[q] = job[q] /\ pc'[q] = pc[q]
      BY <2>2 DEF Start, Inv, TypeOK
    <3>2. DraftOK(q)
      BY DEF Inv, LedgerInv
    <3>3. LinesOK(draft[q])'
      BY <1>2, <3>1, <3>2 DEF DraftOK, LinesOK, LineOK
    <3>4. QED
      BY <3>1, <3>2, <3>3 DEF DraftOK, LinesOK, LineOK
  <2>3. QED
    BY <2>1, <2>2
<1>6. QED
  BY <1>3, <1>4, <1>5 DEF Inv, LedgerInv

(* What a verified ledger says of its head, and of the entry made for it.  *)
LEMMA VerifiedHeadIsDistinct ==
    ASSUME NEW lines \in Seq(Lines), VerifyLedger(lines)
    PROVE  Distinct(HeadOf(lines))
<1>1. /\ HeadOf(lines) \in Seq(Submissions)
      /\ Len(HeadOf(lines)) = Len(lines) - 1
      /\ \A i \in 1 .. Len(lines) - 1 :
           HeadOf(lines)[i] = lines[i + 1].transition_record
  BY HeadOfSeq DEF VerifyLedger
<1>2. ASSUME NEW i \in DOMAIN HeadOf(lines), NEW j \in DOMAIN HeadOf(lines), i # j
      PROVE  HeadOf(lines)[i].body # HeadOf(lines)[j].body
  <2>1. i \in 1 .. Len(lines) - 1 /\ j \in 1 .. Len(lines) - 1
    BY <1>1
  <2>2. /\ i + 1 \in 2 .. Len(lines) /\ j + 1 \in 2 .. Len(lines)
        /\ i + 1 # j + 1
    BY <2>1, <1>2
  <2>3. lines[i + 1].transition_record.body # lines[j + 1].transition_record.body
    BY <2>2, Zenon DEF VerifyLedger
  <2>4. QED
    BY <1>1, <2>1, <2>3
<1>3. QED
  BY <1>2 DEF Distinct

LEMMA AppendInv ==
    ASSUME Inv, NEW p \in Commands, NEW t \in Submissions, StartAppend(p, t)
    PROVE  Inv'
<1>1. file \in Seq(Lines) /\ LinesOK(file)
  BY DEF Inv, TypeOK, LedgerInv
<1>2. VerifyLedger(file) /\ ApertureAccepts(file) /\ Len(file) \in Nat /\ Len(file) > 0
  BY <1>1 DEF StartAppend, VerifyLedger, ApertureAccepts, WellFormed
<1>3. PICK entry : entry = MakeEntry(t, HeadOf(file), Len(file))
  OBVIOUS
<1>4. PICK lines : lines = Append(file, entry)
  OBVIOUS
<1>5. /\ entry \in Lines
      /\ lines \in Seq(Lines)
      /\ ApertureAccepts(lines)
      /\ HeadOf(lines) = Append(HeadOf(file), t)
  BY <1>1, <1>2, <1>3, <1>4, EntryExtendsChain
<1>6. /\ Len(lines) = Len(file) + 1
      /\ \A i \in 1 .. Len(file) : lines[i] = file[i]
      /\ lines[Len(file) + 1] = entry
  BY <1>1, <1>4, <1>5
<1>7. Start(p, "append", lines)
  BY <1>3, <1>4 DEF StartAppend
<1>8. HeadOf(lines) \in composed' /\ composed \subseteq composed'
  BY <1>7 DEF Start
<1>9. Distinct(HeadOf(file)) /\ Len(HeadOf(file)) = Len(file) - 1
  BY <1>1, <1>2, VerifiedHeadIsDistinct, HeadOfSeq DEF ApertureAccepts
<1>10. /\ entry.kind = "entry" /\ entry.entry_id = Len(file)
       /\ entry.previous_head = HeadOf(file) /\ entry.transition_record = t
  BY <1>3 DEF MakeEntry
<1>11. ASSUME NEW i \in 1 .. Len(lines) PROVE LineOK(lines[i], i)'
  <2>1. CASE i = Len(file) + 1
    <3>1. lines[i] = entry
      BY <2>1, <1>6
    <3>2. Append(entry.previous_head, entry.transition_record) \in composed'
      BY <1>5, <1>8, <1>10
    <3>3. /\ i > 1 /\ entry.entry_id = i - 1
          /\ Len(entry.previous_head) = i - 2
      BY <2>1, <1>2, <1>9, <1>10
    <3>4. QED
      BY <3>1, <3>2, <3>3, <1>9, <1>10 DEF LineOK
  <2>2. CASE i \in 1 .. Len(file)
    <3>1. lines[i] = file[i]
      BY <2>2, <1>6
    <3>2. LineOK(lines[i], i)
      BY <3>1, <2>2, <1>1 DEF LinesOK
    <3>3. QED
      BY <3>2, <1>8 DEF LineOK
  <2>3. QED
    BY <2>1, <2>2, <1>2, <1>6
<1>12. LinesOK(lines)'
  BY <1>5, <1>11 DEF LinesOK
<1>13. Len(lines) > 1
  BY <1>2, <1>6
<1>14. QED
  BY <1>5, <1>7, <1>12, <1>13, StartInv

(* A command that opens the file, writes it, or dies. *)
LEMMA OpenInv ==
    ASSUME Inv, NEW p \in Commands, Open(p)
    PROVE  Inv'
<1>1. TypeOK'
  BY EmptySeq DEF Inv, TypeOK, Open, history
<1>2. LinesOK(file)'
  BY DEF Open, LinesOK
<1>3. ASSUME NEW q \in Commands PROVE DraftOK(q)'
  <2>1. DraftOK(q)
    BY DEF Inv, LedgerInv
  <2>2. draft' = draft /\ job' = job /\ composed' = composed
    BY DEF Open, history
  <2>3. pc'[q] # "idle" => pc[q] # "idle"
    BY DEF Open, Inv, TypeOK
  <2>4. LinesOK(draft[q])'
    BY <2>1, <2>2 DEF DraftOK, LinesOK, LineOK
  <2>5. QED
    BY <2>1, <2>2, <2>3, <2>4 DEF DraftOK
<1>4. QED
  BY <1>1, <1>2, <1>3 DEF Inv, LedgerInv, Open, history

(* The drafts when p gives up its own and the heads stay what they are. *)
LEMMA DraftsOfOthers ==
    ASSUME Inv, NEW p \in Commands,
           pc' = [pc EXCEPT ![p] = "idle"], draft' = [draft EXCEPT ![p] = <<>>],
           job' = job, composed' = composed
    PROVE  /\ \A q \in Commands : DraftOK(q)'
           /\ <<>> \in composed'
           /\ draft' \in [Commands -> Seq(Lines)]
           /\ pc' \in [Commands -> {"idle", "loaded", "opened"}]
<1>1. ASSUME NEW q \in Commands PROVE DraftOK(q)'
  <2>1. CASE q = p
    <3>1. draft'[q] = <<>> /\ pc'[q] = "idle"
      BY <2>1 DEF Inv, TypeOK
    <3>2. QED
      BY <3>1 DEF DraftOK, LinesOK
  <2>2. CASE q # p
    <3>1. draft'[q] = draft[q] /\ pc'[q] = pc[q]
      BY <2>2 DEF Inv, TypeOK
    <3>2. DraftOK(q)
      BY DEF Inv, LedgerInv
    <3>3. LinesOK(draft[q])'
      BY <3>1, <3>2 DEF DraftOK, LinesOK, LineOK
    <3>4. QED
      BY <3>1, <3>2, <3>3 DEF DraftOK
  <2>3. QED
    BY <2>1, <2>2
<1>2. QED
  BY <1>1, EmptySeq DEF Inv, TypeOK, LedgerInv

LEMMA WriteInv ==
    ASSUME Inv, NEW p \in Commands, Write(p)
    PROVE  Inv'
<1>1. draft[p] \in Seq(Lines) /\ DraftOK(p) /\ pc[p] = "opened"
  BY DEF Inv, TypeOK, LedgerInv, Write
<1>2. file' \in Seq(Lines) /\ LinesOK(file')
  BY <1>1, OverlaidOK DEF Inv, TypeOK, LedgerInv, DraftOK, Write
<1>3. acked' \in Seq(Submissions)
  <2>1. CASE job[p] = "init"
    BY <2>1, EmptySeq DEF Write
  <2>2. CASE job[p] # "init"
    <3>1. ApertureAccepts(draft[p]) /\ Len(draft[p]) > 1 /\ Len(draft[p]) \in Nat
      BY <2>2, <1>1 DEF DraftOK, Inv, TypeOK
    <3>2. draft[p][Len(draft[p])].kind = "entry" /\ draft[p][Len(draft[p])] \in Lines
      BY <3>1, <1>1 DEF ApertureAccepts, WellFormed
    <3>3. draft[p][Len(draft[p])].transition_record \in Submissions
      BY <3>2 DEF Lines, Genesis, Torn
    <3>4. acked \in Seq(Submissions)
      BY DEF Inv, TypeOK
    <3>5. acked' = Append(acked, draft[p][Len(draft[p])].transition_record)
      BY <2>2 DEF Write
    <3>6. QED
      BY <3>3, <3>4, <3>5
  <2>3. QED
    BY <2>1, <2>2
<1>4. /\ \A q \in Commands : DraftOK(q)'
      /\ <<>> \in composed'
      /\ draft' \in [Commands -> Seq(Lines)]
      /\ pc' \in [Commands -> {"idle", "loaded", "opened"}]
  BY DraftsOfOthers DEF Write
<1>5. LinesOK(file)'
  BY <1>2 DEF Write, LinesOK, LineOK
<1>6. TypeOK'
  BY <1>2, <1>3, <1>4 DEF Inv, TypeOK, Write
<1>7. QED
  BY <1>4, <1>5, <1>6 DEF Inv, LedgerInv

LEMMA DieInv ==
    ASSUME Inv, NEW p \in Commands, DieLoaded(p) \/ DieOpened(p)
    PROVE  Inv'
<1>1. /\ \A q \in Commands : DraftOK(q)'
      /\ <<>> \in composed'
      /\ draft' \in [Commands -> Seq(Lines)]
      /\ pc' \in [Commands -> {"idle", "loaded", "opened"}]
  BY DraftsOfOthers DEF DieLoaded, DieOpened, history
<1>2. crashes' \in 0 .. MaxCrashes
  BY BoundsAssumption DEF Inv, TypeOK, DieLoaded, DieOpened
<1>3. file' \in Seq(Lines) /\ LinesOK(file')
  <2>1. CASE DieLoaded(p)
    BY <2>1 DEF DieLoaded, Inv, TypeOK, LedgerInv
  <2>2. CASE DieOpened(p)
    <3>1. PICK n \in 0 .. Len(draft[p]) :
            file' \in Overlaid(SubSeq(draft[p], 1, n))
                        \cup {Append(SubSeq(draft[p], 1, n), Torn)}
      BY <2>2 DEF DieOpened
    <3>2. draft[p] \in Seq(Lines) /\ LinesOK(draft[p])
      BY DEF Inv, TypeOK, LedgerInv, DraftOK
    <3>3. PICK kept : kept = SubSeq(draft[p], 1, n)
      OBVIOUS
    <3>4. kept \in Seq(Lines) /\ LinesOK(kept)
      BY <3>2, <3>3, PieceOK
    <3>5. CASE file' = Append(kept, Torn)
      BY <3>4, <3>5, TornOK
    <3>6. CASE file' \in Overlaid(kept)
      BY <3>4, <3>6, OverlaidOK DEF Inv, TypeOK, LedgerInv
    <3>7. QED
      BY <3>1, <3>3, <3>5, <3>6
  <2>3. QED
    BY <2>1, <2>2
<1>4. LinesOK(file)'
  BY <1>3 DEF DieLoaded, DieOpened, history, LinesOK, LineOK
<1>5. TypeOK'
  BY <1>1, <1>2, <1>3 DEF Inv, TypeOK, DieLoaded, DieOpened, history
<1>6. QED
  BY <1>1, <1>4, <1>5 DEF Inv, LedgerInv

(* Every line of the file and of a draft is one a command composed at this *)
(* place, above a ledger that verified, and everything has its type.       *)
THEOREM LedgerCorrect == Spec => [](TypeOK /\ LedgerInv)
<1>1. Inv /\ [Next]_vars => Inv'
  <2> SUFFICES ASSUME Inv, [Next]_vars PROVE Inv'
    OBVIOUS
  <2>1. CASE UNCHANGED vars
    BY <2>1 DEF vars, history, Inv, TypeOK, LedgerInv, DraftOK, LinesOK, LineOK
  <2>2. CASE Next
    <3>1. PICK p \in Commands : Run(p)
      BY <2>2 DEF Next
    <3>2. CASE StartInit(p)
      <4>1. Start(p, "init", <<Genesis>>)
        BY <3>2 DEF StartInit
      <4>2. LinesOK(<<Genesis>>)'
        BY GenesisAlone DEF LinesOK, LineOK, Genesis
      <4>3. QED
        BY <4>1, <4>2, GenesisAlone, StartInv
    <3>3. CASE \E t \in Submissions : StartAppend(p, t)
      BY <3>3, AppendInv
    <3>4. CASE Open(p)
      BY <3>4, OpenInv
    <3>5. CASE Write(p)
      BY <3>5, WriteInv
    <3>6. CASE DieLoaded(p) \/ DieOpened(p)
      BY <3>6, DieInv
    <3>7. QED
      BY <3>1, <3>2, <3>3, <3>4, <3>5, <3>6 DEF Run
  <2>3. QED
    BY <2>1, <2>2
<1>2. Spec => []Inv
  BY InitInv, <1>1, PTL DEF Spec
<1>3. QED
  BY <1>2, PTL DEF Inv

(***************************************************************************)
(* A chain that holds, without its last entry.                             *)
(***************************************************************************)
LEMMA ChainBelowTip ==
    ASSUME Inv, ApertureAccepts(file), Len(file) > 1
    PROVE  LET n == Len(file)
               below == SubSeq(file, 1, n - 1)
           IN /\ below \in Seq(Lines) /\ Len(below) = n - 1
              /\ ApertureAccepts(below) /\ LinesOK(below)
              /\ file[n].previous_head = HeadOf(below)
              /\ Distinct(HeadOf(below))
              /\ HeadOf(file) = Append(HeadOf(below), file[n].transition_record)
              /\ HeadOf(file) \in composed
<1> DEFINE n == Len(file)
           below == SubSeq(file, 1, n - 1)
<1>1. file \in Seq(Lines) /\ LinesOK(file) /\ n \in Nat /\ n > 1
  BY DEF Inv, TypeOK, LedgerInv
<1>2. /\ below \in Seq(Lines)
      /\ Len(below) = n - 1
      /\ \A i \in 1 .. n - 1 : below[i] = file[i]
      /\ LinesOK(below)
  BY <1>1, PieceOK
<1>3. WellFormed(file) /\ Linked(file)
  BY DEF ApertureAccepts
<1>4. file[n].kind = "entry" /\ file[n] \in Lines
  BY <1>1, <1>3 DEF WellFormed
<1>5. file[n].previous_head = HeadOf(below)
  BY <1>1, <1>3 DEF Linked
<1>6. file = Append(below, file[n])
  BY <1>1, <1>2, <1>4
<1>7. ASSUME NEW i \in 2 .. n - 1 PROVE SubSeq(below, 1, i - 1) = SubSeq(file, 1, i - 1)
  <2> HIDE DEF n
  <2>1. SubSeq(file, 1, n - 1) \in Seq(Lines)
    BY <1>2
  <2>2. /\ SubSeq(below, 1, i - 1) \in Seq(Lines) /\ Len(SubSeq(below, 1, i - 1)) = i - 1
        /\ \A j \in 1 .. i - 1 : SubSeq(below, 1, i - 1)[j] = below[j]
    <3> HIDE DEF below
    <3>1. QED
      BY <1>1, <1>2
  <2>3. /\ SubSeq(file, 1, i - 1) \in Seq(Lines) /\ Len(SubSeq(file, 1, i - 1)) = i - 1
        /\ \A j \in 1 .. i - 1 : SubSeq(file, 1, i - 1)[j] = file[j]
    BY <1>1 DEF n
  <2>4. \A j \in 1 .. i - 1 : below[j] = file[j]
    BY <1>1, <1>2
  <2> HIDE DEF below
  <2>5. QED
    BY <2>2, <2>3, <2>4, SeqEqual
<1> HIDE DEF n, below
<1>8. WellFormed(below)
  BY <1>1, <1>2, <1>3 DEF WellFormed, n
<1>9. Linked(below)
  <2>1. ASSUME NEW i \in 2 .. Len(below)
        PROVE  below[i].previous_head = HeadOf(SubSeq(below, 1, i - 1))
    <3>1. i \in 2 .. n - 1 /\ i \in 2 .. Len(file) /\ below[i] = file[i]
      BY <1>1, <1>2 DEF n
    <3>2. file[i].previous_head = HeadOf(SubSeq(file, 1, i - 1))
      BY <3>1, <1>3, Zenon DEF Linked
    <3>3. SubSeq(below, 1, i - 1) = SubSeq(file, 1, i - 1)
      BY <3>1, <1>7
    <3>4. QED
      BY <3>1, <3>2, <3>3, Zenon
  <2>2. QED
    BY <2>1 DEF Linked
<1>10. HeadOf(file) = Append(HeadOf(below), file[n].transition_record)
  BY <1>2, <1>4, <1>6, <1>8, HeadOfAppend
<1>11. LineOK(file[n], n)
  BY <1>1 DEF LinesOK, n
<1>12. /\ Distinct(file[n].previous_head)
       /\ Append(file[n].previous_head, file[n].transition_record) \in composed
  BY <1>1, <1>4, <1>11 DEF LineOK, Genesis, Torn
<1>13. QED
  BY <1>2, <1>5, <1>8, <1>9, <1>10, <1>12 DEF ApertureAccepts, n, below

(* A ledger whose chain verifies is one a command composed. *)
THEOREM VerifiedHeadsAreComposed == Spec => []VerifiedHeadWasComposed
<1>1. Inv => VerifiedHeadWasComposed
  <2> SUFFICES ASSUME Inv, ApertureAccepts(file) PROVE HeadOf(file) \in composed
    BY DEF VerifiedHeadWasComposed
  <2>1. file \in Seq(Lines) /\ <<>> \in composed /\ WellFormed(file)
    BY DEF Inv, TypeOK, LedgerInv, ApertureAccepts
  <2>2. Len(file) \in Nat \ {0}
    BY <2>1, EmptySeq DEF WellFormed
  <2>3. CASE Len(file) = 1
    <3>1. HeadOf(file) \in Seq(Submissions) /\ Len(HeadOf(file)) = Len(file) - 1
      BY <2>1, HeadOfSeq, Zenon
    <3>2. HeadOf(file) = <<>>
      BY <2>3, <3>1, EmptySeq
    <3>3. QED
      BY <2>1, <3>2
  <2>4. CASE Len(file) > 1
    BY <2>4, ChainBelowTip
  <2>5. QED
    BY <2>2, <2>3, <2>4
<1>2. QED
  BY <1>1, LedgerCorrect, PTL DEF Inv

(* Nothing is ever built on an entry that does not verify. *)
THEOREM LedgersAreRepairable == Spec => []RepairableAtTip
<1>1. Inv => RepairableAtTip
  <2> SUFFICES ASSUME Inv, ApertureAccepts(file), Len(file) > 1
               PROVE  VerifyLedger(SubSeq(file, 1, Len(file) - 1))
    BY DEF RepairableAtTip
  <2>1. PICK below : below = SubSeq(file, 1, Len(file) - 1)
    OBVIOUS
  <2>2. /\ below \in Seq(Lines) /\ ApertureAccepts(below) /\ LinesOK(below)
        /\ Distinct(HeadOf(below))
    BY <2>1, ChainBelowTip
  <2>3. WellFormed(below) /\ Linked(below) /\ Len(below) \in Nat
    BY <2>2 DEF ApertureAccepts
  <2>4. ASSUME NEW i \in 2 .. Len(below), NEW j \in 2 .. Len(below), i # j
        PROVE  /\ below[i].entry_id # below[j].entry_id
               /\ below[i].transition_record.body # below[j].transition_record.body
    <3>1. below[i].kind = "entry" /\ below[j].kind = "entry"
      BY <2>3 DEF WellFormed
    <3>2. below[i].entry_id = i - 1 /\ below[j].entry_id = j - 1
      BY <2>2, <3>1 DEF LinesOK, LineOK, Genesis, Torn
    <3>3. /\ HeadOf(below)[i - 1] = below[i].transition_record
          /\ HeadOf(below)[j - 1] = below[j].transition_record
          /\ i - 1 \in DOMAIN HeadOf(below) /\ j - 1 \in DOMAIN HeadOf(below)
      BY <2>3 DEF HeadOf
    <3>4. below[i].transition_record.body # below[j].transition_record.body
      BY <3>3, <2>2, <2>4 DEF Distinct
    <3>5. QED
      BY <2>4, <3>2, <3>4
  <2>5. QED
    BY <2>1, <2>3, <2>4 DEF VerifyLedger
<1>2. QED
  BY <1>1, LedgerCorrect, PTL DEF Inv

(* A changed vector passes a tamper check only with its signed transition. *)
THEOREM TampersAreAuthorized == Spec => []NoUnauthorizedTamper
<1>1. Inv /\ VerifiedHeadWasComposed => NoUnauthorizedTamper
  <2> SUFFICES ASSUME Inv, VerifiedHeadWasComposed,
                      NEW before \in Vectors, NEW after \in Vectors,
                      NEW t \in Submissions, NEW passphrase \in Passphrases,
                      TamperCheck(before, after, t, file, passphrase),
                      fields[before] # fields[after]
               PROVE  /\ t.body.before = before /\ t.body.after = after
                      /\ t.proof = passphrase
                      /\ fields[before]["policy_digest"] # fields[after]["policy_digest"]
                           => t.body.policy_change_authorized
                      /\ \E head \in composed : \E i \in DOMAIN head :
                           head[i].body = t.body
    BY DEF NoUnauthorizedTamper
  <2>1. PICK f \in Fields : fields[before][f] # fields[after][f]
    <3>1. CASE \A f \in Fields : fields[before][f] = fields[after][f]
      <4>1. [f \in Fields |-> fields[before][f]] = [f \in Fields |-> fields[after][f]]
        BY <3>1
      <4>2. QED
        BY <4>1, FieldsAssumption
    <3>2. QED
      BY <3>1
  <2>2. f \in DiffFields(before, after)
    BY <2>1 DEF DiffFields
  <2>3. TamperAccepted(before, after, t, file, passphrase)
    BY <2>2 DEF TamperCheck
  <2>4. VerifyTransition(before, after, t, passphrase) /\ VerifyLedger(file)
    BY <2>3 DEF TamperAccepted
  <2>5. PICK i \in 2 .. Len(file) : file[i].transition_record.body = t.body
    BY <2>3 DEF TamperAccepted, TransitionDigestInLedger
  <2>6. HeadOf(file) \in composed
    BY <2>4 DEF VerifiedHeadWasComposed, VerifyLedger, ApertureAccepts
  <2>7. i - 1 \in DOMAIN HeadOf(file) /\ HeadOf(file)[i - 1] = file[i].transition_record
    BY DEF HeadOf, Inv, TypeOK
  <2>8. fields[before]["policy_digest"] # fields[after]["policy_digest"]
          => t.body.policy_change_authorized
    BY <2>4 DEF VerifyTransition, DiffFields, Fields
  <2>9. QED
    BY <2>4, <2>5, <2>6, <2>7, <2>8 DEF VerifyTransition
<1>2. QED
  BY <1>1, LedgerCorrect, VerifiedHeadsAreComposed, PTL DEF Inv

-----------------------------------------------------------------------------
(***************************************************************************)
(* Commands that run one after the other.                                  *)
(***************************************************************************)
LastOf(lines) == lines[Len(lines)].transition_record

(* As long as nothing has been disturbed at most one command is running:   *)
(* it has not opened the file, and the ledger is exactly what was appended *)
(* to it; or it has, and its draft is that, and one entry more.            *)
OrderlyInv ==
    ~disturbed =>
        /\ \A p, q \in Commands : pc[p] # "idle" /\ pc[q] # "idle" => p = q
        /\ exists /\ (\A p \in Commands : pc[p] # "opened")
             => ApertureAccepts(file) /\ HeadOf(file) = acked
        /\ \A p \in Commands :
             /\ pc[p] = "opened" => file = <<>> /\ exists
             /\ pc[p] # "idle" /\ job[p] = "append" =>
                  /\ HeadOf(draft[p]) = Append(acked, LastOf(draft[p]))
                  /\ exists

LEMMA StartOrderly ==
    ASSUME Inv, OrderlyInv, NEW p \in Commands, NEW kind \in {"init", "append"},
           NEW lines, Start(p, kind, lines),
           kind = "append" /\ ~disturbed' =>
             HeadOf(lines) = Append(acked, LastOf(lines)) /\ exists
    PROVE  OrderlyInv'
<1> SUFFICES ASSUME ~disturbed' PROVE OrderlyInv'
  BY DEF OrderlyInv
<1>1. ~disturbed /\ \A q \in Commands : pc[q] = "idle"
  BY DEF Start
<1>2. /\ pc'[p] = "loaded" /\ job'[p] = kind /\ draft'[p] = lines
      /\ \A q \in Commands : q # p => pc'[q] = "idle"
      /\ file' = file /\ exists' = exists /\ acked' = acked
  BY <1>1 DEF Start, Inv, TypeOK
<1>3. exists => ApertureAccepts(file) /\ HeadOf(file) = acked
  BY <1>1 DEF OrderlyInv
<1>4. \A q, r \in Commands : pc'[q] # "idle" /\ pc'[r] # "idle" => q = r
  BY <1>2
<1>5. exists' => ApertureAccepts(file)' /\ (HeadOf(file) = acked)'
  BY <1>2, <1>3 DEF ApertureAccepts, WellFormed, Linked, HeadOf
<1>6. ASSUME NEW q \in Commands
      PROVE  /\ pc'[q] # "opened"
             /\ pc'[q] # "idle" /\ job'[q] = "append" =>
                  /\ HeadOf(draft'[q]) = Append(acked', LastOf(draft'[q]))
                  /\ exists'
  BY <1>2
<1>7. QED
  BY <1>4, <1>5, <1>6 DEF OrderlyInv, HeadOf, LastOf

LEMMA StartAppendOrderly ==
    ASSUME Inv, OrderlyInv, NEW p \in Commands, NEW t \in Submissions,
           StartAppend(p, t)
    PROVE  OrderlyInv'
<1>1. PICK lines : lines = Append(file, MakeEntry(t, HeadOf(file), Len(file)))
  OBVIOUS
<1>2. Start(p, "append", lines) /\ exists /\ ApertureAccepts(file)
  BY <1>1 DEF StartAppend, VerifyLedger, ApertureAccepts
<1>3. ASSUME ~disturbed' PROVE HeadOf(lines) = Append(acked, LastOf(lines))
  <2>1. ~disturbed /\ \A q \in Commands : pc[q] = "idle"
    BY <1>2, <1>3 DEF Start
  <2>2. HeadOf(file) = acked
    BY <1>2, <2>1 DEF OrderlyInv
  <2>3. file \in Seq(Lines)
    BY DEF Inv, TypeOK
  <2>4. HeadOf(lines) = Append(HeadOf(file), t)
    BY <1>1, <1>2, <2>3, EntryExtendsChain
  <2>5. PICK entry \in Lines : /\ entry = MakeEntry(t, HeadOf(file), Len(file))
                              /\ lines = Append(file, entry)
    BY <1>1, <1>2, <2>3, EntryExtendsChain
  <2>6. lines[Len(lines)] = entry
    BY <2>3, <2>5
  <2>7. LastOf(lines) = t
    BY <2>5, <2>6 DEF LastOf, MakeEntry
  <2>8. QED
    BY <2>2, <2>4, <2>7
<1>4. QED
  BY <1>2, <1>3, StartOrderly

LEMMA OpenOrderly ==
    ASSUME Inv, OrderlyInv, NEW p \in Commands, Open(p)
    PROVE  OrderlyInv'
<1> SUFFICES ASSUME ~disturbed' PROVE OrderlyInv'
  BY DEF OrderlyInv
<1>1. ~disturbed /\ disturbed' = disturbed
  BY DEF Open, history
<1>2. /\ pc'[p] = "opened" /\ pc[p] = "loaded"
      /\ \A q \in Commands : q # p => pc'[q] = pc[q]
      /\ file' = <<>> /\ exists' = TRUE /\ acked' = acked /\ job' = job /\ draft' = draft
  BY DEF Open, Inv, TypeOK, history
<1>3. \A q, r \in Commands : pc'[q] # "idle" /\ pc'[r] # "idle" => q = r
  BY <1>1, <1>2 DEF OrderlyInv
<1>4. ASSUME NEW q \in Commands, pc'[q] # "idle", job'[q] = "append"
      PROVE  HeadOf(draft'[q]) = Append(acked', LastOf(draft'[q]))
  BY <1>1, <1>2, <1>4 DEF OrderlyInv
<1>5. QED
  BY <1>2, <1>3, <1>4 DEF OrderlyInv, HeadOf, LastOf

LEMMA WriteOrderly ==
    ASSUME Inv, OrderlyInv, NEW p \in Commands, Write(p)
    PROVE  OrderlyInv'
<1> SUFFICES ASSUME ~disturbed' PROVE OrderlyInv'
  BY DEF OrderlyInv
<1>1. ~disturbed /\ pc[p] = "opened" /\ exists' = exists
  BY DEF Write
<1>2. \A q \in Commands : pc'[q] = "idle"
  BY <1>1 DEF OrderlyInv, Write, Inv, TypeOK
<1>3. file = <<>> /\ exists
  BY <1>1 DEF OrderlyInv
<1>4. file' = draft[p]
  BY <1>3 DEF Write, Overlaid
<1>5. ApertureAccepts(draft[p]) /\ DraftOK(p)
  BY <1>1 DEF Inv, LedgerInv, DraftOK
<1>6. HeadOf(draft[p]) = acked'
  <2>1. CASE job[p] = "init"
    BY <2>1, <1>1, <1>5, HeadOfGenesis DEF DraftOK, Write
  <2>2. CASE job[p] = "append"
    BY <2>2, <1>1 DEF OrderlyInv, Write, LastOf
  <2>3. QED
    BY <2>1, <2>2 DEF Inv, TypeOK
<1>7. PICK lines : lines = draft[p]
  OBVIOUS
<1>8. ApertureAccepts(file)' /\ (HeadOf(file) = acked)'
  <2>1. file' = lines /\ ApertureAccepts(lines) /\ HeadOf(lines) = acked'
    BY <1>4, <1>5, <1>6, <1>7
  <2>2. QED
    BY <2>1 DEF ApertureAccepts, WellFormed, Linked, HeadOf
<1>9. QED
  BY <1>2, <1>8 DEF OrderlyInv

LEMMA DieLoadedOrderly ==
    ASSUME Inv, OrderlyInv, NEW p \in Commands, DieLoaded(p)
    PROVE  OrderlyInv'
<1> SUFFICES ASSUME ~disturbed' PROVE OrderlyInv'
  BY DEF OrderlyInv
<1>1. ~disturbed /\ pc[p] = "loaded"
  BY DEF DieLoaded, history
<1>2. \A q \in Commands : pc'[q] = "idle" /\ pc[q] # "opened"
  BY <1>1 DEF OrderlyInv, DieLoaded, Inv, TypeOK
<1>3. exists => ApertureAccepts(file) /\ HeadOf(file) = acked
  BY <1>1, <1>2 DEF OrderlyInv
<1>4. file' = file /\ exists' = exists /\ acked' = acked
  BY DEF DieLoaded, history
<1>5. exists' => ApertureAccepts(file)' /\ (HeadOf(file) = acked)'
  BY <1>3, <1>4 DEF ApertureAccepts, WellFormed, Linked, HeadOf
<1>6. QED
  BY <1>2, <1>5 DEF OrderlyInv

(* Commands that neither overlap nor die while writing keep the ledger     *)
(* exactly the entries appended since it was made.                         *)
THEOREM UndisturbedLedgerIsExact == Spec => []UndisturbedIsExact
<1>1. Init => OrderlyInv
  BY DEF Init, OrderlyInv
<1>2. Inv /\ OrderlyInv /\ [Next]_vars => OrderlyInv'
  <2> SUFFICES ASSUME Inv, OrderlyInv, [Next]_vars PROVE OrderlyInv'
    OBVIOUS
  <2>1. CASE UNCHANGED vars
    BY <2>1 DEF vars, history, OrderlyInv, ApertureAccepts, WellFormed, Linked,
                HeadOf, LastOf
  <2>2. CASE Next
    <3>1. PICK p \in Commands : Run(p)
      BY <2>2 DEF Next
    <3>2. CASE StartInit(p)
      BY <3>2, StartOrderly DEF StartInit
    <3>3. CASE \E t \in Submissions : StartAppend(p, t)
      BY <3>3, StartAppendOrderly
    <3>4. CASE Open(p)
      BY <3>4, OpenOrderly
    <3>5. CASE Write(p)
      BY <3>5, WriteOrderly
    <3>6. CASE DieLoaded(p)
      BY <3>6, DieLoadedOrderly
    <3>7. CASE DieOpened(p)
      BY <3>7 DEF DieOpened, OrderlyInv
    <3>8. QED
      BY <3>1, <3>2, <3>3, <3>4, <3>5, <3>6, <3>7 DEF Run
  <2>3. QED
    BY <2>1, <2>2
<1>3. OrderlyInv => UndisturbedIsExact
  BY DEF OrderlyInv, UndisturbedIsExact, Quiet
<1>4. QED
  BY <1>1, <1>2, <1>3, LedgerCorrect, PTL DEF Inv, Spec

(* The variables of the ledger and of its commands keep their types.       *)
THEOREM LedgerTyped == Spec => []TypeOK
<1>1. TypeOK /\ LedgerInv => TypeOK
  OBVIOUS
<1>2. QED
  BY <1>1, LedgerCorrect, PTL
=============================================================================
