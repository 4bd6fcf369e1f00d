---------------------------- MODULE BottlePageProofs ----------------------------
(***************************************************************************)
(* The page keeps an identity under its guard, exports only what was       *)
(* checked, says truly when it is busy, and uploads a message again only   *)
(* if no receipt was shown: for any number of views, ceremonies, messages  *)
(* and files.                                                              *)
(***************************************************************************)
EXTENDS BottlePage, TLAPS

(* What is awaited for the ceremony as it is now finds it as it left it;   *)
(* everything else awaited is of an earlier revision.                      *)
Awaited(c, ok) ==
    /\ c \in CeremonyForms
    /\ \A t \in c.gens \cup c.check : t.revision <= c.revision
    /\ \A t \in c.gens : t.revision = c.revision =>
           /\ c.phase = "generating" /\ c.record = None
           /\ t.step = "fingerprint" => c.identity = t.identity
    /\ \A t, u \in c.gens : t.revision = u.revision => t = u
    /\ \A t \in c.check : t.revision = c.revision =>
           c.phase = "verifying-backup" /\ c.record = t.record /\ ~c.backup
    /\ \A t, u \in c.check : t.revision = c.revision /\ u.revision = c.revision => t = u
    /\ c.phase = "verified" => c.record \in ok
    /\ c.record # None => c.identity \in {None, c.record}

GoodCeremony(c, ok) == Awaited(c, ok) /\ (c.unlocked => c.record \in ok)

GoodDrop(f, n) ==
    /\ f \in DropForms
    /\ f.confirmed # None => f.confirmed = f.selected
    /\ f.message # None => f.message <= n
    /\ f.task # None => f.task.key = f.task.confirmed /\ f.task.message = f.message

GoodOpen(f) ==
    /\ f \in OpenForms
    /\ f.task # None /\ (f.importing > 0 \/ f.identity) => f.task.importing

(* A view that was not rendered yet is new; a guard is the shown view's.   *)
ShellInv ==
    /\ hash \in Views /\ view \in [Activations -> Views]
    /\ activation \in Activations /\ ariaBusy \in BOOLEAN
    /\ guard \in {0, activation}
    /\ create \in [Activations -> CeremonyForms]
    /\ drop \in [Activations -> DropForms] /\ open \in [Activations -> OpenForms]
    /\ \A a \in Activations : a > activation =>
           create[a] = NewCeremony /\ drop[a] = NewDrop /\ open[a] = NewOpen

CountInv ==
    /\ ceremonies \in 0 .. MaxIdentities /\ messages \in 0 .. MaxMessages
    /\ uploads \in 0 .. MaxUploads /\ imports \in 0 .. MaxImports
    /\ checked \subseteq Ceremonies
    /\ stored \in [Messages -> Nat] /\ unseen \in [Messages -> Nat]

(* A message is in one form at most, and once a receipt for it was shown,  *)
(* in none.                                                                *)
MessageInv ==
    /\ \A a, b \in Activations :
           drop[a].message = drop[b].message /\ drop[a].message # None => a = b
    /\ \A m \in Messages :
           /\ stored[m] <= 1 + unseen[m]
           /\ (\E a \in Activations : drop[a].message = m) \/ m > messages => stored[m] <= unseen[m]

PageInv ==
    /\ ShellInv /\ CountInv
    /\ \A a \in Activations : GoodCeremony(create[a], checked) /\ GoodDrop(drop[a], messages) /\ GoodOpen(open[a])
    /\ CeremonyIsGuarded /\ BusyUntilRendered /\ MessageInv

-----------------------------------------------------------------------------
(* A ceremony keeps its invariant when its controls follow its phase, and  *)
(* when it is cleared.                                                     *)
LEMMA SyncedGood ==
    ASSUME NEW c, NEW ok, Awaited(c, ok)
    PROVE  /\ GoodCeremony(Synced(c), ok)
           /\ Synced(c).phase = c.phase /\ Synced(c).identity = c.identity
<1>1. c \in CeremonyForms
  BY DEF Awaited
<1>2. Synced(c) \in CeremonyForms
  BY <1>1 DEF Synced, CeremonyForms, Phases
<1>3. /\ Synced(c).phase = c.phase /\ Synced(c).revision = c.revision
      /\ Synced(c).identity = c.identity /\ Synced(c).record = c.record
      /\ Synced(c).unlocked = (c.record # None /\ c.phase = "verified")
      /\ Synced(c).backup = c.backup /\ Synced(c).gens = c.gens /\ Synced(c).check = c.check
  BY <1>1 DEF Synced, CeremonyForms
<1>4. QED
  BY <1>2, <1>3 DEF Awaited, GoodCeremony

LEMMA ClearedGood ==
    ASSUME NEW c, NEW ok, Awaited(c, ok)
    PROVE  /\ Awaited(Cleared(c), ok)
           /\ GoodCeremony(c, ok) => GoodCeremony(Cleared(c), ok)
           /\ Cleared(c).phase = "idle" /\ Cleared(c).identity = None
<1>0. c \in CeremonyForms
  BY DEF Awaited
<1>7. c.revision + 1 \in Nat
  BY <1>0 DEF CeremonyForms
<1>8. \A n \in Nat : [c EXCEPT !.phase = "idle", !.revision = n, !.identity = None] \in CeremonyForms
  BY <1>0 DEF CeremonyForms, Phases
<1>1. Cleared(c) \in CeremonyForms
  BY <1>7, <1>8 DEF Cleared
<1>2. \A t \in c.gens \cup c.check : t.revision < c.revision + 1
  BY DEF Awaited, CeremonyForms, Generations, Checks
<1>3. \A t \in c.gens \cup c.check : t.revision # c.revision + 1 /\ t.revision <= c.revision + 1
  BY <1>0, <1>2 DEF Awaited, CeremonyForms, Generations, Checks
<1>4. /\ Cleared(c).phase = "idle" /\ Cleared(c).revision = c.revision + 1
      /\ Cleared(c).identity = None /\ Cleared(c).record = c.record
      /\ Cleared(c).unlocked = c.unlocked /\ Cleared(c).backup = c.backup
      /\ Cleared(c).gens = c.gens /\ Cleared(c).check = c.check
  BY <1>0 DEF Cleared, CeremonyForms
<1>5. QED
  BY <1>1, <1>3, <1>4 DEF Awaited, GoodCeremony

(* What a ceremony waits for no longer may be dropped.                     *)
LEMMA RestGood ==
    ASSUME NEW c, NEW ok, GoodCeremony(c, ok), NEW t
    PROVE  /\ GoodCeremony([c EXCEPT !.gens = @ \ {t}], ok)
           /\ GoodCeremony([c EXCEPT !.check = @ \ {t}], ok)
BY DEF GoodCeremony, Awaited, CeremonyForms

-----------------------------------------------------------------------------
(* Every handler of a view: a frame for its two kinds of forms.            *)
LEMMA CeremonyStep ==
    ASSUME PageInv, NEW a \in Activations, NEW c, Ceremony(a, c),
           a <= activation, InCeremony, ceremonies' \in 0 .. MaxIdentities,
           checked \subseteq checked', checked' \subseteq Ceremonies,
           GoodCeremony(c, checked'),
           \/ guard' = activation /\ a = activation
           \/ guard' = 0 /\ c.phase = "idle" /\ c.identity = None /\ (guard = 0 \/ a = activation)
           \/ guard' = guard /\ (guard = activation \/ c.phase = "idle") /\ a = activation
              /\ (c.identity = None \/ guard = activation)
           \/ guard' = guard /\ c.phase = "idle" /\ c.identity = None
    PROVE  PageInv'
<1>0. c \in CeremonyForms
  BY DEF GoodCeremony, Awaited
<1>1. ShellInv' /\ CountInv' /\ BusyUntilRendered' /\ MessageInv'
  BY <1>0
     DEF PageInv, ShellInv, CountInv, BusyUntilRendered, MessageInv, Ceremony, InCeremony,
         shell,
         bottles, Form, current, Activations, BoundsAssumption
<1>2. ASSUME NEW b \in Activations
      PROVE  GoodCeremony(create[b], checked)' /\ GoodDrop(drop[b], messages)' /\ GoodOpen(open[b])'
  BY
     DEF PageInv, ShellInv, GoodCeremony, Awaited, GoodDrop, GoodOpen, Ceremony,
         InCeremony, shell, bottles
<1>3. CeremonyIsGuarded'
  BY DEF PageInv, ShellInv, CeremonyIsGuarded, Ceremony, InCeremony, shell, Activations
<1>4. QED
  BY <1>1, <1>2, <1>3 DEF PageInv

LEMMA CeremonyOf ==
    ASSUME PageInv, NEW a \in Activations
    PROVE  /\ GoodCeremony(create[a], checked) /\ create[a] \in CeremonyForms
           /\ create[a].gens \cup create[a].check # {} => a <= activation
           /\ create[a].identity # None \/ create[a].phase # "idle"
                 => a = activation /\ guard = activation
           /\ activation \in Activations /\ ceremonies \in 0 .. MaxIdentities
           /\ checked \subseteq Ceremonies /\ guard \in {0, activation}
BY
   DEF PageInv, ShellInv, CountInv, GoodCeremony, Awaited, CeremonyIsGuarded, NewCeremony,
       Activations

LEMMA GenerateInv ==
    ASSUME PageInv, NEW a \in Activations, Generate(a) PROVE PageInv'
<1> DEFINE begun == [create[a] EXCEPT !.revision = @ + 1, !.phase = "generating",
                                      !.record = None, !.backup = FALSE]
           t == [step |-> "generate", revision |-> begun.revision, identity |-> ceremonies + 1]
           full == [begun EXCEPT !.gens = @ \cup {t}]
<1>1. a = activation /\ guard \in {0, activation} /\ create[a] \in CeremonyForms
      /\ GoodCeremony(create[a], checked)
  BY CeremonyOf DEF Generate, Shown
<1>2. create[a].revision + 1 \in Nat /\ ceremonies + 1 \in Ceremonies
      /\ ceremonies + 1 \in 0 .. MaxIdentities
  BY <1>1, BoundsAssumption DEF CeremonyForms, PageInv, CountInv, Ceremonies, Generate
<1>3. \A n \in Nat : [create[a] EXCEPT !.revision = n, !.phase = "generating",
                                       !.record = None, !.backup = FALSE] \in CeremonyForms
  BY <1>1 DEF CeremonyForms, Phases
<1>4. begun \in CeremonyForms
  BY <1>2, <1>3
<1>5. /\ begun.revision = create[a].revision + 1 /\ begun.phase = "generating"
      /\ begun.record = None /\ begun.gens = create[a].gens /\ begun.check = create[a].check
      /\ begun.unlocked = create[a].unlocked /\ ~begun.backup
  BY <1>1 DEF CeremonyForms
<1>6. \A u \in create[a].gens \cup create[a].check :
          u.revision # begun.revision /\ u.revision <= begun.revision
  BY <1>1, <1>5 DEF CeremonyForms, GoodCeremony, Awaited, Generations, Checks
<1>7. Awaited(begun, checked)
  BY <1>1, <1>4, <1>5, <1>6 DEF Awaited, GoodCeremony
<1>8. t \in Generations /\ t.revision = begun.revision /\ t.step = "generate"
  BY <1>2, <1>5 DEF Generations
<1>9. full \in CeremonyForms
  BY <1>4, <1>8 DEF CeremonyForms
<1>10. /\ full.revision = begun.revision /\ full.phase = "generating"
       /\ full.record = None /\ full.gens = begun.gens \cup {t} /\ full.check = begun.check
       /\ ~full.backup
  BY <1>4, <1>5 DEF CeremonyForms
<1> HIDE DEF begun, t, full
<1>16. begun.revision <= begun.revision
  BY <1>4 DEF CeremonyForms
<1>11. Awaited(full, checked)
  <2>1. \A u \in begun.gens \cup begun.check :
            u.revision # begun.revision /\ u.revision <= begun.revision
    BY <1>5, <1>6
  <2>2. \A u \in full.gens \cup full.check : u.revision <= full.revision
    BY <2>1, <1>8, <1>10, <1>16
  <2>3. \A u \in full.gens \cup full.check : u.revision = full.revision => u = t
    BY <2>1, <1>10
  <2>4. \A u, v \in full.gens : u.revision = v.revision => u = v
    BY <2>1, <1>7, <1>8, <1>10 DEF Awaited
  <2>5. \A u \in full.check : u.revision # full.revision
    BY <2>1, <1>10
  <2>6. QED
    BY <2>2, <2>3, <2>4, <2>5, <1>8, <1>9, <1>10 DEF Awaited
<1>12. ceremonies' \in 0 .. MaxIdentities /\ checked' = checked /\ InCeremony /\ a <= activation
  BY <1>1, <1>2 DEF Generate, Activations
<1>13. CASE Ceremony(a, Synced(full)) /\ guard' = a
  <2> DEFINE c == Synced(full)
  <2>1. GoodCeremony(c, checked')
    BY <1>11, <1>12, SyncedGood
  <2> HIDE DEF c
  <2>2. Ceremony(a, c) /\ guard' = activation /\ a = activation
    BY <1>1, <1>13 DEF c
  <2>3. QED
    BY <1>1, <1>12, <2>1, <2>2, CeremonyStep, CeremonyOf
<1>14. CASE Ceremony(a, Synced(Cleared(begun))) /\ UNCHANGED guard
  <2> DEFINE c == Synced(Cleared(begun))
  <2>1. GoodCeremony(c, checked') /\ c.phase = "idle" /\ c.identity = None
    BY <1>7, <1>12, SyncedGood, ClearedGood
  <2> HIDE DEF c
  <2>2. Ceremony(a, c) /\ guard' = guard
    BY <1>14 DEF c
  <2>3. QED
    BY <1>1, <1>12, <2>1, <2>2, CeremonyStep, CeremonyOf
<1>15. QED
  BY <1>13, <1>14 DEF Generate, begun, t, full

(* What is left when t is no longer awaited, as a ceremony of its own.     *)
LEMMA RestOf ==
    ASSUME NEW c, NEW ok, GoodCeremony(c, ok), NEW t \in c.gens
    PROVE  LET rest == [c EXCEPT !.gens = @ \ {t}]
           IN  /\ GoodCeremony(rest, ok) /\ Awaited(rest, ok)
               /\ rest.phase = c.phase /\ rest.identity = c.identity
               /\ rest.revision = c.revision
               /\ t.revision = c.revision => \A u \in rest.gens : u.revision # c.revision
BY RestGood DEF GoodCeremony, Awaited, CeremonyForms

LEMMA GeneratedInv ==
    ASSUME PageInv, NEW a \in Activations, NEW t, Generated(a, t) PROVE PageInv'
<1> DEFINE rest == [create[a] EXCEPT !.gens = @ \ {t}]
           next == [t EXCEPT !.step = "fingerprint"]
           told == [rest EXCEPT !.identity = t.identity, !.gens = @ \cup {next}]
<1>1. /\ t \in create[a].gens /\ t.step = "generate" /\ t \in Generations
      /\ a \in Activations /\ a <= activation /\ InCeremony
      /\ ceremonies' \in 0 .. MaxIdentities /\ checked' = checked
      /\ checked' \subseteq Ceremonies
  BY CeremonyOf DEF Generated, CeremonyForms
<1>2. GoodCeremony(create[a], checked) /\ create[a] \in CeremonyForms
  BY CeremonyOf
<1>3. /\ GoodCeremony(rest, checked) /\ Awaited(rest, checked)
      /\ rest.phase = create[a].phase /\ rest.identity = create[a].identity
      /\ rest.revision = create[a].revision
      /\ t.revision = rest.revision => \A u \in rest.gens : u.revision # rest.revision
  BY <1>1, <1>2, RestOf
<1>4. \/ rest.phase = "idle" /\ rest.identity = None
      \/ a = activation /\ guard = activation
  BY <1>3, CeremonyOf
<1>5. CASE t.revision # rest.revision
  <2> DEFINE c == Synced(rest)
  <2>1. GoodCeremony(c, checked') /\ c.phase = rest.phase /\ c.identity = rest.identity
    BY <1>1, <1>3, SyncedGood
  <2>2. Ceremony(a, c) /\ guard' = guard
    BY <1>5 DEF Generated
  <2> HIDE DEF c, rest
  <2>3. QED
    BY <1>1, <1>4, <2>1, <2>2, CeremonyStep
<1>6. CASE t.revision = rest.revision
  <2>1. /\ rest.phase = "generating" /\ rest.record = None
        /\ a = activation /\ guard = activation
    BY <1>1, <1>2, <1>3, <1>4, <1>6 DEF GoodCeremony, Awaited, CeremonyForms
  <2>2. CASE Ceremony(a, told) /\ UNCHANGED guard
    <3>1. next \in Generations /\ next.revision = t.revision /\ next.identity = t.identity
      BY <1>1 DEF Generations
    <3>2. rest \in CeremonyForms
      BY <1>3 DEF Awaited
    <3> HIDE DEF rest, next
    <3>3. told \in CeremonyForms
      BY <1>1, <3>1, <3>2 DEF CeremonyForms, Generations
    <3>4. /\ told.phase = rest.phase /\ told.identity = t.identity
          /\ told.revision = rest.revision /\ told.record = None
          /\ told.gens = rest.gens \cup {next} /\ told.check = rest.check
          /\ told.unlocked = rest.unlocked /\ told.backup = rest.backup
      BY <2>1, <3>2 DEF CeremonyForms
    <3> HIDE DEF told
    <3>5. rest.revision <= rest.revision
      BY <3>2 DEF CeremonyForms
    <3>6. /\ \A u \in told.gens \cup told.check : u.revision <= told.revision
          /\ \A u \in told.gens : u.revision = told.revision => u = next
          /\ \A u, v \in told.gens : u.revision = v.revision => u = v
      BY <1>3, <1>6, <3>1, <3>4, <3>5 DEF Awaited
    <3>7. /\ \A u \in told.check : u.revision # told.revision
          /\ told.unlocked => told.record \in checked
      BY <1>3, <2>1, <3>4 DEF Awaited, GoodCeremony
    <3>8. GoodCeremony(told, checked')
      BY <1>1, <2>1, <3>1, <3>3, <3>4, <3>6, <3>7 DEF Awaited, GoodCeremony
    <3>9. QED
      BY <1>1, <2>1, <2>2, <3>8, CeremonyStep
  <2>3. CASE Ceremony(a, Synced(Cleared(rest))) /\ Release(a)
    <3> DEFINE c == Synced(Cleared(rest))
    <3>1. GoodCeremony(c, checked') /\ c.phase = "idle" /\ c.identity = None
      BY <1>1, <1>3, SyncedGood, ClearedGood
    <3> HIDE DEF c
    <3>2. Ceremony(a, c) /\ guard' = 0
      BY <2>1, <2>3 DEF Release, c
    <3>3. QED
      BY <1>1, <2>1, <3>1, <3>2, CeremonyStep
  <2>4. QED
    BY <1>6, <2>2, <2>3 DEF Generated
<1>7. QED
  BY <1>5, <1>6
LEMMA FingerprintedInv ==
    ASSUME PageInv, NEW a \in Activations, NEW t, Fingerprinted(a, t) PROVE PageInv'
<1> DEFINE rest == [create[a] EXCEPT !.gens = @ \ {t}]
           told == [rest EXCEPT !.record = t.identity, !.backup = TRUE,
                                !.phase = "awaiting-backup"]
<1>1. /\ t \in create[a].gens /\ t.step = "fingerprint" /\ t \in Generations
      /\ a \in Activations /\ a <= activation /\ InCeremony
      /\ ceremonies' \in 0 .. MaxIdentities /\ checked' = checked
      /\ checked' \subseteq Ceremonies
  BY CeremonyOf DEF Fingerprinted, CeremonyForms
<1>2. GoodCeremony(create[a], checked) /\ create[a] \in CeremonyForms
  BY CeremonyOf
<1>3. /\ GoodCeremony(rest, checked) /\ Awaited(rest, checked)
      /\ rest.phase = create[a].phase /\ rest.identity = create[a].identity
      /\ rest.revision = create[a].revision
      /\ t.revision = rest.revision => \A u \in rest.gens : u.revision # rest.revision
  BY <1>1, <1>2, RestOf
<1>4. \/ rest.phase = "idle" /\ rest.identity = None
      \/ a = activation /\ guard = activation
  BY <1>3, CeremonyOf
<1>5. CASE t.revision # rest.revision
  <2> DEFINE c == Synced(rest)
  <2>1. GoodCeremony(c, checked') /\ c.phase = rest.phase /\ c.identity = rest.identity
    BY <1>1, <1>3, SyncedGood
  <2>2. Ceremony(a, c) /\ guard' = guard
    BY <1>5 DEF Fingerprinted
  <2> HIDE DEF c, rest
  <2>3. QED
    BY <1>1, <1>4, <2>1, <2>2, CeremonyStep
<1>6. CASE t.revision = rest.revision
  <2>1. /\ rest.phase = "generating" /\ rest.record = None
        /\ a = activation /\ guard = activation /\ rest.identity = t.identity
    BY <1>1, <1>2, <1>3, <1>4, <1>6 DEF GoodCeremony, Awaited, CeremonyForms
  <2>2. CASE Ceremony(a, Synced(told)) /\ UNCHANGED guard
    <3>1. rest \in CeremonyForms /\ t.identity \in Ceremonies
      BY <1>1, <1>3 DEF Awaited, Generations
    <3> HIDE DEF rest
    <3>2. told \in CeremonyForms
      BY <3>1 DEF CeremonyForms, Phases
    <3>3. /\ told.phase = "awaiting-backup" /\ told.identity = rest.identity
          /\ told.revision = rest.revision /\ told.record = t.identity
          /\ told.gens = rest.gens /\ told.check = rest.check
      BY <3>1 DEF CeremonyForms
    <3> DEFINE c == Synced(told)
    <3> HIDE DEF told
    <3>4. \A u \in told.gens \cup told.check : u.revision # told.revision
      BY <1>3, <1>6, <2>1, <3>3 DEF Awaited
    <3>5. Awaited(told, checked')
      BY <1>1, <1>3, <2>1, <3>2, <3>3, <3>4 DEF Awaited
    <3>6. GoodCeremony(c, checked')
      BY <3>5, SyncedGood
    <3> HIDE DEF c
    <3>7. Ceremony(a, c)
      BY <2>2 DEF c
    <3>8. QED
      BY <1>1, <2>1, <2>2, <3>6, <3>7, CeremonyStep
  <2>3. CASE Ceremony(a, Synced(Cleared(rest))) /\ Release(a)
    <3> DEFINE c == Synced(Cleared(rest))
    <3>1. GoodCeremony(c, checked') /\ c.phase = "idle" /\ c.identity = None
      BY <1>1, <1>3, SyncedGood, ClearedGood
    <3> HIDE DEF c
    <3>2. Ceremony(a, c) /\ guard' = 0
      BY <2>1, <2>3 DEF Release, c
    <3>3. QED
      BY <1>1, <2>1, <3>1, <3>2, CeremonyStep
  <2>4. QED
    BY <1>6, <2>2, <2>3 DEF Fingerprinted
<1>7. QED
  BY <1>5, <1>6

LEMMA StartOverInv ==
    ASSUME PageInv, NEW a \in Activations, StartOver(a) PROVE PageInv'
<1> DEFINE bare == [Cleared(create[a]) EXCEPT !.record = None, !.backup = FALSE]
           c == Synced(bare)
<1>1. /\ a = activation /\ InCeremony /\ ceremonies' \in 0 .. MaxIdentities
      /\ checked' = checked /\ checked' \subseteq Ceremonies /\ a <= activation
      /\ Ceremony(a, c) /\ Release(a) /\ guard \in {0, activation} /\ activation \in Activations
  BY CeremonyOf DEF StartOver, Shown, Activations
<1>2. /\ Awaited(Cleared(create[a]), checked) /\ Cleared(create[a]) \in CeremonyForms
      /\ Cleared(create[a]).phase = "idle" /\ Cleared(create[a]).identity = None
  BY CeremonyOf, ClearedGood DEF GoodCeremony, Awaited
<1>3. Awaited(bare, checked) /\ bare.phase = "idle" /\ bare.identity = None
  BY <1>2 DEF Awaited, CeremonyForms
<1>4. GoodCeremony(c, checked') /\ c.phase = "idle" /\ c.identity = None
  BY <1>1, <1>3, SyncedGood
<1>5. guard' = 0 /\ (guard = 0 \/ a = activation)
  BY <1>1 DEF Release
<1> HIDE DEF c
<1>6. QED
  BY <1>1, <1>4, <1>5, CeremonyStep

LEMMA ChooseBackupInv ==
    ASSUME PageInv, NEW a \in Activations, NEW saved \in BOOLEAN, ChooseBackup(a, saved)
    PROVE  PageInv'
<1> DEFINE here == create[a]
           task == [revision |-> here.revision, saved |-> saved, record |-> here.record]
           large == [here EXCEPT !.phase = "awaiting-backup"]
           read == [here EXCEPT !.phase = "verifying-backup", !.backup = FALSE,
                                !.check = @ \cup {task}]
<1>1. /\ a = activation /\ guard = activation /\ InCeremony
      /\ ceremonies' \in 0 .. MaxIdentities /\ a <= activation
      /\ checked' = checked /\ checked' \subseteq Ceremonies /\ guard' = guard
      /\ here.record # None /\ here.backup /\ here.identity # None
      /\ GoodCeremony(here, checked) /\ here \in CeremonyForms
  BY CeremonyOf DEF ChooseBackup, Shown, Activations
<1>2. \A u \in here.gens \cup here.check : u.revision # here.revision
  BY <1>1 DEF GoodCeremony, Awaited
<1>3. here.record \in Ceremonies /\ here.revision \in Nat
  BY <1>1 DEF CeremonyForms
<1>4. task \in Checks /\ task.revision = here.revision /\ task.record = here.record
  BY <1>3 DEF Checks
<1>5. CASE Ceremony(a, Synced(large))
  <2> DEFINE c == Synced(large)
  <2>1. Awaited(large, checked')
    BY <1>1, <1>2 DEF GoodCeremony, Awaited, CeremonyForms, Phases
  <2>2. GoodCeremony(c, checked')
    BY <2>1, SyncedGood
  <2> HIDE DEF c
  <2>3. Ceremony(a, c)
    BY <1>5 DEF c
  <2>4. QED
    BY <1>1, <2>2, <2>3, CeremonyStep
<1>6. CASE Ceremony(a, Synced(read))
  <2> DEFINE c == Synced(read)
  <2> HIDE DEF task, here
  <2>1. read \in CeremonyForms
    BY <1>1, <1>4 DEF CeremonyForms, Phases
  <2>2. /\ read.phase = "verifying-backup" /\ ~read.backup /\ read.revision = here.revision
        /\ read.record = here.record /\ read.identity = here.identity
        /\ read.gens = here.gens /\ read.check = here.check \cup {task}
    BY <1>1 DEF CeremonyForms
  <2> HIDE DEF read
  <2>3. /\ \A u \in read.gens \cup read.check : u.revision <= read.revision
        /\ \A u \in read.check : u.revision = read.revision => u = task
        /\ \A u \in read.gens : u.revision # read.revision
    BY <1>1, <1>2, <1>3, <1>4, <2>2 DEF GoodCeremony, Awaited
  <2>4. Awaited(read, checked')
    BY <1>1, <1>4, <2>1, <2>2, <2>3 DEF GoodCeremony, Awaited
  <2>5. GoodCeremony(c, checked')
    BY <2>4, SyncedGood
  <2> HIDE DEF c
  <2>6. Ceremony(a, c)
    BY <1>6 DEF c, read, task, here
  <2>7. QED
    BY <1>1, <2>5, <2>6, CeremonyStep
<1>7. QED
  BY <1>5, <1>6 DEF ChooseBackup

LEMMA BackupCheckedInv ==
    ASSUME PageInv, NEW a \in Activations, NEW t, BackupChecked(a, t) PROVE PageInv'
<1> DEFINE rest == [create[a] EXCEPT !.check = @ \ {t}]
           done == [rest EXCEPT !.phase = IF t.saved THEN "verified" ELSE "awaiting-backup",
                                !.backup = ~t.saved]
<1>1. /\ t \in create[a].check /\ t \in Checks /\ a <= activation /\ InCeremony
      /\ ceremonies' \in 0 .. MaxIdentities /\ guard' = guard
      /\ checked \subseteq checked' /\ checked' \subseteq Ceremonies
      /\ t.saved => t.record \in checked'
      /\ GoodCeremony(create[a], checked) /\ create[a] \in CeremonyForms
  BY CeremonyOf DEF BackupChecked, CeremonyForms, Checks
<1>2. /\ GoodCeremony(rest, checked) /\ Awaited(rest, checked) /\ rest \in CeremonyForms
      /\ rest.phase = create[a].phase /\ rest.identity = create[a].identity
      /\ rest.revision = create[a].revision /\ rest.record = create[a].record
      /\ t.revision = rest.revision =>
             /\ \A u \in rest.gens \cup rest.check : u.revision # rest.revision
             /\ rest.phase = "verifying-backup" /\ rest.record = t.record
  BY <1>1, RestGood DEF GoodCeremony, Awaited, CeremonyForms
<1>3. GoodCeremony(rest, checked')
  BY <1>1, <1>2 DEF GoodCeremony, Awaited
<1>4. \/ rest.phase = "idle" /\ rest.identity = None
      \/ a = activation /\ guard = activation
  BY <1>2, CeremonyOf
<1>5. CASE t.revision # rest.revision
  <2>1. Ceremony(a, rest)
    BY <1>5 DEF BackupChecked
  <2> HIDE DEF rest
  <2>2. QED
    BY <1>1, <1>3, <1>4, <2>1, CeremonyStep
<1>6. CASE t.revision = rest.revision
  <2> DEFINE c == Synced(done)
  <2>1. Ceremony(a, c) /\ t.saved \in BOOLEAN
    BY <1>1, <1>6 DEF BackupChecked, Checks
  <2> HIDE DEF rest
  <2>2. done \in CeremonyForms
    BY <1>2, <2>1 DEF CeremonyForms, Phases
  <2>3. /\ done.phase = IF t.saved THEN "verified" ELSE "awaiting-backup"
        /\ done.revision = rest.revision /\ done.record = rest.record
        /\ done.identity = rest.identity /\ done.gens = rest.gens /\ done.check = rest.check
    BY <1>2 DEF CeremonyForms
  <2> HIDE DEF done
  <2>4. Awaited(done, checked')
    BY <1>1, <1>2, <1>6, <2>2, <2>3 DEF Awaited
  <2>5. GoodCeremony(c, checked')
    BY <2>4, SyncedGood
  <2> HIDE DEF c
  <2>6. a = activation /\ guard = activation
    BY <1>2, <1>4, <1>6
  <2>7. QED
    BY <1>1, <2>1, <2>5, <2>6, CeremonyStep
<1>7. QED
  BY <1>5, <1>6

-----------------------------------------------------------------------------
LEMMA MayLeaveFrame ==
    ASSUME PageInv, MayLeave
    PROVE  /\ create' \in [Activations -> CeremonyForms] /\ guard' \in {0, guard}
           /\ \A a \in Activations :
                 /\ GoodCeremony(create'[a], checked)
                 /\ create'[a].identity # None \/ create'[a].phase # "idle"
                       => a = activation /\ guard' = activation /\ create'[a] = create[a]
                 /\ create[a] = NewCeremony => create'[a] = NewCeremony
<1> DEFINE clear == Cleared(create[guard])
<1>1. CASE (guard # 0 => create[guard].phase = "idle") /\ UNCHANGED <<guard, create>>
  BY <1>1 DEF PageInv, ShellInv, CeremonyIsGuarded
<1>2. CASE /\ guard # 0 /\ create[guard].phase # "idle"
           /\ Ceremony(guard, clear) /\ guard' = 0
  <2>1. guard = activation /\ activation \in Activations /\ GoodCeremony(create[guard], checked)
    BY <1>2 DEF PageInv, ShellInv
  <2>2. /\ GoodCeremony(clear, checked) /\ clear \in CeremonyForms
        /\ clear.phase = "idle" /\ clear.identity = None
    BY <2>1, ClearedGood DEF GoodCeremony, Awaited
  <2>3. create[guard] # NewCeremony
    BY <1>2 DEF NewCeremony
  <2> HIDE DEF clear
  <2>4. \A a \in Activations \ {guard} : create'[a] = create[a]
    BY <1>2, <2>1 DEF Ceremony, PageInv, ShellInv
  <2>5. create'[guard] = clear /\ create' \in [Activations -> CeremonyForms]
    BY <1>2, <2>1, <2>2 DEF Ceremony, PageInv, ShellInv
  <2>6. QED
    BY <1>2, <2>1, <2>2, <2>3, <2>4, <2>5 DEF PageInv, ShellInv, CeremonyIsGuarded
<1>3. QED
  BY <1>1, <1>2 DEF MayLeave

LEMMA ShellSteps ==
    ASSUME PageInv, NEW v \in Views, ClickLink(v) \/ ChangeHash(v) \/ HashChanged
    PROVE  PageInv'
<1>1. InShell
  BY DEF ClickLink, ChangeHash, HashChanged
<1>2. CountInv' /\ MessageInv'
  BY <1>1 DEF PageInv, CountInv, MessageInv, InShell, bottles
<1>3. ASSUME NEW a \in Activations
      PROVE  GoodDrop(drop[a], messages)' /\ GoodOpen(open[a])'
  BY <1>1 DEF PageInv, GoodDrop, GoodOpen, InShell, bottles
<1>4. CASE ClickLink(v) \/ ChangeHash(v)
  <2>1. /\ hash' \in Views /\ UNCHANGED <<view, activation, ariaBusy>>
        /\ MayLeave \/ UNCHANGED <<guard, create>>
    BY <1>4 DEF ClickLink, ChangeHash, PageInv, ShellInv
  <2>2. /\ create' \in [Activations -> CeremonyForms] /\ guard' \in {0, guard}
        /\ \A a \in Activations :
              /\ GoodCeremony(create'[a], checked)
              /\ create'[a].identity # None \/ create'[a].phase # "idle"
                    => a = activation /\ guard' = activation
              /\ create[a] = NewCeremony => create'[a] = NewCeremony
    <3>1. CASE MayLeave
      BY <3>1, MayLeaveFrame
    <3>2. CASE UNCHANGED <<guard, create>>
      BY <3>2 DEF PageInv, ShellInv, CeremonyIsGuarded
    <3>3. QED
      BY <2>1, <3>1, <3>2
  <2>3. ShellInv' /\ CeremonyIsGuarded' /\ BusyUntilRendered'
    BY <1>1, <2>1, <2>2
       DEF PageInv, ShellInv, CeremonyIsGuarded, BusyUntilRendered, InShell,
                             current, Form
  <2>4. \A a \in Activations : GoodCeremony(create'[a], checked')
    BY <1>1, <2>2 DEF InShell
  <2>5. QED
    BY <1>2, <1>3, <2>3, <2>4 DEF PageInv
<1>5. CASE HashChanged
  <2>1. CASE hash' = current /\ UNCHANGED <<view, activation, ariaBusy, guard, create>>
    <3>1. ShellInv' /\ CeremonyIsGuarded' /\ BusyUntilRendered'
      BY <1>1, <2>1 DEF PageInv, ShellInv, CeremonyIsGuarded, BusyUntilRendered, InShell,
                        current, Form
    <3>2. \A a \in Activations : GoodCeremony(create[a], checked)'
      BY <1>1, <2>1 DEF InShell, PageInv, GoodCeremony, Awaited
    <3>3. QED
      BY <1>2, <1>3, <3>1, <3>2 DEF PageInv
  <2>2. CASE /\ MayLeave /\ guard' = 0 /\ activation' = activation + 1
             /\ view' = [view EXCEPT ![activation + 1] = hash]
             /\ ariaBusy' = (hash \in {"drop", "open"})
             /\ UNCHANGED hash
    <3>1. activation + 1 \in Activations /\ activation \in Activations
      BY <1>5, BoundsAssumption DEF HashChanged, PageInv, ShellInv, Activations
    <3>2. \A a \in Activations :
             /\ GoodCeremony(create'[a], checked')
             /\ create'[a].identity = None /\ create'[a].phase = "idle"
             /\ create[a] = NewCeremony => create'[a] = NewCeremony
      BY <1>1, <2>2, <3>1, MayLeaveFrame DEF InShell, Activations
    <3>3. create' \in [Activations -> CeremonyForms]
      BY <2>2, MayLeaveFrame
    <3>4. ShellInv'
      BY <1>1, <2>2, <3>1, <3>2, <3>3 DEF PageInv, ShellInv, InShell, Activations
    <3>5. CeremonyIsGuarded'
      BY <3>2 DEF CeremonyIsGuarded
    <3>6. /\ drop[activation + 1] = NewDrop /\ open[activation + 1] = NewOpen
          /\ view'[activation + 1] = hash
      BY <2>2, <3>1 DEF PageInv, ShellInv, Activations
    <3>7. BusyUntilRendered'
      <4>1. drop[activation + 1].load = "loading" /\ open[activation + 1].load = "loading"
        BY <3>6 DEF NewDrop, NewOpen
      <4>2. drop'[activation'].load = "loading" /\ open'[activation'].load = "loading"
        BY <1>1, <2>2, <4>1 DEF InShell
      <4>3. current' = hash
        BY <2>2, <3>6 DEF current
      <4>4. QED
        BY <2>2, <4>2, <4>3 DEF BusyUntilRendered, Form
    <3>8. QED
      BY <1>2, <1>3, <3>2, <3>4, <3>5, <3>7 DEF PageInv
  <2>3. QED
    BY <1>5, <2>1, <2>2 DEF HashChanged
<1>6. QED
  BY <1>4, <1>5

-----------------------------------------------------------------------------
LEMMA LoadSteps ==
    ASSUME PageInv, NEW a \in Activations, Loaded(a) \/ Retry(a) PROVE PageInv'
<1>1. /\ InLoad /\ a <= activation /\ view[a] \in {"drop", "open"} /\ activation \in Activations
      /\ \E to \in Loads : SetLoad(a, to)
  <2>1. activation \in Activations /\ activation <= activation
    BY DEF PageInv, ShellInv, Activations
  <2>2. CASE Loaded(a)
    BY <2>1, <2>2 DEF Loaded, Loads
  <2>3. CASE Retry(a)
    BY <2>1, <2>3 DEF Retry, Shown, Loads
  <2>4. QED
    BY <2>2, <2>3
<1>2. PICK to \in Loads : SetLoad(a, to)
  BY <1>1
<1>3. /\ drop' \in [Activations -> DropForms] /\ open' \in [Activations -> OpenForms]
      /\ \A b \in Activations :
            /\ drop'[b].message = drop[b].message /\ drop'[b].task = drop[b].task
            /\ drop'[b].confirmed = drop[b].confirmed /\ drop'[b].selected = drop[b].selected
            /\ open'[b].identity = open[b].identity /\ open'[b].task = open[b].task
            /\ open'[b].importing = open[b].importing
            /\ b # a => drop'[b] = drop[b] /\ open'[b] = open[b]
      /\ IF view[a] = "drop" THEN drop'[a].load = to ELSE open'[a].load = to
  <2>1. CASE view[a] = "drop"
    <3> DEFINE f == [drop[a] EXCEPT !.load = to]
    <3>1. drop' = [drop EXCEPT ![a] = f] /\ open' = open
      BY <1>2, <2>1 DEF SetLoad
    <3>2. /\ drop \in [Activations -> DropForms] /\ drop[a] \in DropForms
          /\ open \in [Activations -> OpenForms]
      BY DEF PageInv, ShellInv
    <3>3. /\ f \in DropForms /\ f.load = to
          /\ \A x \in {"selected", "confirmed", "message", "task"} : f[x] = drop[a][x]
      BY <3>2 DEF DropForms
    <3>4. \A b \in Activations : drop'[b] = IF b = a THEN f ELSE drop[b]
      BY <3>1, <3>2
    <3> HIDE DEF f
    <3>5. QED
      BY <2>1, <3>1, <3>2, <3>3, <3>4
  <2>2. CASE view[a] # "drop"
    <3> DEFINE f == [open[a] EXCEPT !.load = to]
    <3>1. open' = [open EXCEPT ![a] = f] /\ drop' = drop
      BY <1>2, <2>2 DEF SetLoad
    <3>2. /\ open \in [Activations -> OpenForms] /\ open[a] \in OpenForms
          /\ drop \in [Activations -> DropForms]
      BY DEF PageInv, ShellInv
    <3>3. /\ f \in OpenForms /\ f.load = to
          /\ \A x \in {"selected", "identity", "importing", "task"} : f[x] = open[a][x]
      BY <3>2 DEF OpenForms
    <3>4. \A b \in Activations : open'[b] = IF b = a THEN f ELSE open[b]
      BY <3>1, <3>2
    <3> HIDE DEF f
    <3>5. QED
      BY <2>2, <3>1, <3>2, <3>3, <3>4
  <2>3. QED
    BY <2>1, <2>2
<1>4. ASSUME NEW b \in Activations
      PROVE  /\ GoodCeremony(create'[b], checked')
             /\ GoodDrop(drop'[b], messages') /\ GoodOpen(open'[b])
  <2>1. GoodCeremony(create[b], checked) /\ GoodDrop(drop[b], messages) /\ GoodOpen(open[b])
    BY DEF PageInv
  <2>2. create' = create /\ checked' = checked /\ messages' = messages
    BY <1>1 DEF InLoad, bottles
  <2>3. GoodDrop(drop'[b], messages) /\ GoodOpen(open'[b])
    BY <1>3, <2>1 DEF GoodDrop, GoodOpen
  <2>4. QED
    BY <2>1, <2>2, <2>3
<1>5. CountInv' /\ CeremonyIsGuarded' /\ MessageInv'
  <2>1. CountInv' /\ CeremonyIsGuarded'
    BY <1>1 DEF InLoad, bottles, PageInv, CountInv, CeremonyIsGuarded
  <2>2. \A b \in Activations : drop'[b].message = drop[b].message
    BY <1>3
  <2>3. MessageInv'
    BY <1>1, <2>2 DEF InLoad, bottles, PageInv, MessageInv
  <2>4. QED
    BY <2>1, <2>3
<1>6. ariaBusy' \in BOOLEAN
  BY DEF Loaded, Retry, PageInv, ShellInv
<1>7. ShellInv'
  <2>1. \A b \in Activations : b > activation => b # a
    BY <1>1 DEF Activations
  <2>2. QED
    BY <1>1, <1>3, <1>6, <2>1 DEF InLoad, PageInv, ShellInv
<1>8. BusyUntilRendered'
  <2>1. /\ view' = view /\ activation' = activation
        /\ ariaBusy <=> (current \in {"drop", "open"} /\ Form(activation).load = "loading")
    BY <1>1 DEF InLoad, PageInv, BusyUntilRendered
  <2>2. CASE a # activation
    <3>1. ariaBusy' = ariaBusy
      BY <2>2 DEF Loaded, Retry
    <3>2. Form(activation)' = Form(activation)
      BY <1>1, <1>3, <2>1, <2>2 DEF Form
    <3>3. QED
      BY <2>1, <3>1, <3>2 DEF BusyUntilRendered, current
  <2>3. CASE a = activation
    <3>1. PICK now \in Loads \ {"loading"} : SetLoad(a, now)
      BY DEF Loaded, Retry, Loads
    <3>2. Form(activation)'.load = now
      BY <1>1, <2>1, <2>3, <3>1 DEF SetLoad, Form, PageInv, ShellInv, DropForms, OpenForms
    <3>3. ariaBusy' = FALSE
      BY <2>1, <2>3 DEF Loaded, Retry
    <3>4. QED
      BY <2>1, <3>1, <3>2, <3>3 DEF BusyUntilRendered
  <2>4. QED
    BY <2>2, <2>3
<1>9. QED
  BY <1>4, <1>5, <1>7, <1>8 DEF PageInv

(* A handler of the drop view, which changes the form of one activation.   *)
LEMMA DropStep ==
    ASSUME PageInv, NEW a \in Activations, a <= activation, InDrop, CountInv',
           messages <= messages', GoodDrop(drop'[a], messages'), MessageInv',
           drop' = [drop EXCEPT ![a] = drop'[a]], drop'[a].load = drop[a].load
    PROVE  PageInv'
<1>1. \A b \in Activations : /\ b # a => drop'[b] = drop[b]
                             /\ drop'[b] \in DropForms /\ drop'[b].load = drop[b].load
  BY DEF PageInv, ShellInv, GoodDrop
<1>2. drop' \in [Activations -> DropForms]
  BY <1>1 DEF PageInv, ShellInv
<1>3. ASSUME NEW b \in Activations
      PROVE  /\ GoodCeremony(create'[b], checked')
             /\ GoodDrop(drop'[b], messages') /\ GoodOpen(open'[b])
  <2>1. CASE b = a
    BY <2>1 DEF InDrop, PageInv, ShellInv
  <2>2. CASE b # a
    <3>1. GoodDrop(drop[b], messages) /\ drop[b] \in DropForms /\ messages \in Nat /\ messages' \in Nat
      BY DEF PageInv, ShellInv, CountInv
    <3>2. GoodDrop(drop[b], messages')
      BY <3>1, NoneAssumption DEF GoodDrop, DropForms, Messages
    <3>3. QED
      BY <1>1, <2>2, <3>2 DEF InDrop, PageInv, ShellInv
  <2>3. QED
    BY <2>1, <2>2
<1>4. ShellInv' /\ CeremonyIsGuarded'
  BY <1>1, <1>2 DEF InDrop, shell, PageInv, ShellInv, CeremonyIsGuarded, Activations
<1>5. BusyUntilRendered'
  BY <1>1 DEF InDrop, shell, PageInv, ShellInv, BusyUntilRendered, Form, current
<1>6. QED
  BY <1>3, <1>4, <1>5 DEF PageInv

LEMMA DropOf ==
    ASSUME PageInv, NEW a \in Activations
    PROVE  /\ drop[a] \in DropForms /\ GoodDrop(drop[a], messages)
           /\ drop \in [Activations -> DropForms] /\ CountInv /\ MessageInv
           /\ messages \in Nat
           /\ Dropping(a) \/ drop[a].task # None => a <= activation
           /\ drop[a].task # None =>
                  /\ drop[a].task \in DropTasks /\ drop[a].task.message \in Messages
                  /\ drop[a].message = drop[a].task.message
<1>1. Dropping(a) => a <= activation
  BY DEF Dropping, Shown, PageInv, ShellInv, Activations
<1>2. drop[a].task # None => a <= activation
  BY DEF PageInv, ShellInv, NewDrop, Activations
<1>3. QED
  BY <1>1, <1>2 DEF PageInv, ShellInv, CountInv, GoodDrop, DropForms, DropTasks

(* A handler that leaves messages and bottles alone.                       *)
LEMMA QuietDropStep ==
    ASSUME PageInv, NEW a \in Activations, a <= activation, InDrop, NEW f,
           drop' = [drop EXCEPT ![a] = f], f.load = drop[a].load,
           f.message = drop[a].message, GoodDrop(f, messages),
           UNCHANGED <<messages, stored, unseen>>, uploads' \in 0 .. MaxUploads
    PROVE  PageInv'
<1>1. drop'[a] = f /\ drop' = [drop EXCEPT ![a] = drop'[a]]
      /\ \A b \in Activations : drop'[b].message = drop[b].message
  BY DropOf
<1>2. MessageInv'
  BY <1>1 DEF MessageInv, PageInv
<1>3. CountInv'
  BY DEF CountInv, PageInv, InDrop
<1>4. messages <= messages'
  BY DropOf
<1>5. QED
  BY <1>1, <1>2, <1>3, <1>4, DropStep

LEMMA QuietDropSteps ==
    ASSUME PageInv, NEW a \in Activations,
           \/ \E k \in Keys \cup {None} : SelectRecipient(a, k)
           \/ TickConfirmation(a) \/ SubmitDrop(a) \/ Encrypted(a)
    PROVE  PageInv'
<1>1. uploads \in 0 .. MaxUploads /\ messages \in Nat
  BY DropOf DEF CountInv
<1>2. ASSUME NEW k \in Keys \cup {None}, SelectRecipient(a, k) PROVE PageInv'
  <2> DEFINE f == [drop[a] EXCEPT !.selected = k, !.confirmed = None]
  <2>1. GoodDrop(f, messages) /\ f.load = drop[a].load /\ f.message = drop[a].message
    BY <1>2, DropOf DEF GoodDrop, DropForms, SelectRecipient, Dropping
  <2>2. drop' = [drop EXCEPT ![a] = f]
    BY <1>2 DEF SelectRecipient
  <2> HIDE DEF f
  <2>3. QED
    BY <1>1, <1>2, <2>1, <2>2, DropOf, QuietDropStep DEF SelectRecipient, bottles
<1>3. CASE TickConfirmation(a)
  <2> DEFINE f == [drop[a] EXCEPT !.confirmed =
                       IF @ = None THEN drop[a].selected ELSE None]
  <2>1. GoodDrop(f, messages) /\ f.load = drop[a].load /\ f.message = drop[a].message
    BY <1>3, DropOf DEF GoodDrop, DropForms, TickConfirmation, Dropping
  <2>2. drop' = [drop EXCEPT ![a] = f]
    BY <1>3 DEF TickConfirmation
  <2> HIDE DEF f
  <2>3. QED
    BY <1>1, <1>3, <2>1, <2>2, DropOf, QuietDropStep DEF TickConfirmation, bottles
<1>4. CASE SubmitDrop(a)
  <2> DEFINE t == [step |-> "encrypt", key |-> drop[a].selected,
                   confirmed |-> drop[a].confirmed, message |-> drop[a].message]
             f == [drop[a] EXCEPT !.task = t]
  <2>1. t \in DropTasks /\ t.key = t.confirmed /\ t.message = drop[a].message
    BY <1>4, DropOf DEF DropTasks, DropForms, GoodDrop, SubmitDrop
  <2>2. drop' = [drop EXCEPT ![a] = f]
    BY <1>4 DEF SubmitDrop
  <2> HIDE DEF t
  <2>3. GoodDrop(f, messages) /\ f.load = drop[a].load /\ f.message = drop[a].message
    BY <2>1, DropOf DEF GoodDrop, DropForms
  <2> HIDE DEF f
  <2>4. QED
    BY <1>1, <1>4, <2>2, <2>3, DropOf, QuietDropStep DEF SubmitDrop, bottles
<1>5. CASE Encrypted(a)
  <2>1. drop[a].task # None /\ InDrop /\ UNCHANGED <<messages, stored, unseen>> /\ a <= activation
    BY <1>5, DropOf DEF Encrypted
  <2>2. CASE drop' = [drop EXCEPT ![a].task = None] /\ UNCHANGED uploads
    <3> DEFINE f == [drop[a] EXCEPT !.task = None]
    <3>1. GoodDrop(f, messages) /\ f.load = drop[a].load /\ f.message = drop[a].message
      BY DropOf DEF GoodDrop, DropForms
    <3>2. drop' = [drop EXCEPT ![a] = f]
      BY <2>2
    <3> HIDE DEF f
    <3>3. QED
      BY <1>1, <2>1, <2>2, <3>1, <3>2, QuietDropStep
  <2>3. CASE /\ uploads < MaxUploads /\ uploads' = uploads + 1
             /\ drop' = [drop EXCEPT ![a].task.step = "upload"]
    <3> DEFINE t == [drop[a].task EXCEPT !.step = "upload"]
               f == [drop[a] EXCEPT !.task = t]
    <3>1. t \in DropTasks /\ t.key = t.confirmed /\ t.message = drop[a].message
      BY <2>1, DropOf DEF DropTasks, GoodDrop
    <3>2. drop' = [drop EXCEPT ![a] = f]
      BY <2>3
    <3> HIDE DEF t
    <3>3. GoodDrop(f, messages) /\ f.load = drop[a].load /\ f.message = drop[a].message
      BY <3>1, DropOf DEF GoodDrop, DropForms
    <3> HIDE DEF f
    <3>4. uploads' \in 0 .. MaxUploads
      BY <1>1, <2>3, BoundsAssumption
    <3>5. QED
      BY <2>1, <3>2, <3>3, <3>4, QuietDropStep
  <2>4. QED
    BY <1>5, <2>2, <2>3 DEF Encrypted
<1>6. QED
  BY <1>2, <1>3, <1>4, <1>5

LEMMA WriteMessageInv ==
    ASSUME PageInv, NEW a \in Activations, WriteMessage(a) PROVE PageInv'
<1> DEFINE f == [drop[a] EXCEPT !.message = messages + 1]
<1>1. /\ messages < MaxMessages /\ messages' = messages + 1 /\ InDrop /\ a <= activation
      /\ UNCHANGED <<uploads, stored, unseen>> /\ drop[a].task = None
      /\ drop' = [drop EXCEPT ![a] = f]
  BY DropOf DEF WriteMessage, Dropping
<1>2. messages + 1 \in Messages /\ messages \in Nat /\ messages' \in 0 .. MaxMessages
  BY <1>1, DropOf, BoundsAssumption DEF Messages
<1>3. f \in DropForms /\ f.load = drop[a].load /\ f.message = messages + 1
  BY <1>2, DropOf DEF DropForms
<1>4. GoodDrop(f, messages')
  BY <1>1, <1>2, DropOf DEF GoodDrop, DropForms
<1> HIDE DEF f
<1>5. \A b \in Activations : drop'[b] = IF b = a THEN f ELSE drop[b]
  BY <1>1, DropOf
<1>6. \A b \in Activations : drop[b].message # messages + 1
  <2>1. ASSUME NEW b \in Activations PROVE drop[b].message # messages + 1
    <3>1. drop[b].message \in Messages \cup {None}
          /\ (drop[b].message # None => drop[b].message <= messages)
      BY DropOf DEF GoodDrop, DropForms
    <3>2. QED
      BY <3>1, <1>2, NoneAssumption DEF Messages
  <2>2. QED
    BY <2>1
<1>7. MessageInv'
  <2>1. \A b, c \in Activations :
            drop'[b].message = drop'[c].message /\ drop'[b].message # None => b = c
    BY <1>3, <1>5, <1>6, DropOf DEF MessageInv
  <2>2. ASSUME NEW m \in Messages,
               (\E b \in Activations : drop'[b].message = m) \/ m > messages'
        PROVE  stored[m] <= unseen[m]
    <3>1. (\E b \in Activations : drop[b].message = m) \/ m > messages
      BY <1>1, <1>2, <1>3, <1>5, <2>2 DEF Messages
    <3>2. QED
      BY <3>1, DropOf DEF MessageInv
  <2>3. QED
    BY <1>1, <2>1, <2>2, DropOf DEF MessageInv
<1>8. CountInv'
  BY <1>1, <1>2, DropOf DEF CountInv, InDrop
<1>9. /\ drop'[a].load = drop[a].load /\ GoodDrop(drop'[a], messages')
      /\ drop' = [drop EXCEPT ![a] = drop'[a]] /\ messages <= messages'
  <2>1. drop'[a] = f
    BY <1>5
  <2>2. messages <= messages'
    BY <1>1, <1>2
  <2>3. drop' = [drop EXCEPT ![a] = drop'[a]]
    BY <1>1, <2>1
  <2>4. QED
    BY <1>1, <1>3, <1>4, <2>1, <2>2, <2>3
<1>10. QED
  BY <1>1, <1>7, <1>8, <1>9, DropStep

LEMMA ReceivedInv ==
    ASSUME PageInv, NEW a \in Activations, Received(a) PROVE PageInv'
<1> DEFINE m == drop[a].task.message
           f == [drop[a] EXCEPT !.task = None, !.confirmed = None, !.message = None]
<1>1. /\ drop[a].task # None /\ InDrop /\ messages' = messages /\ uploads' = uploads
      /\ stored' = [stored EXCEPT ![m] = @ + 1]
      /\ unseen' = unseen \/ unseen' = [unseen EXCEPT ![m] = @ + 1]
      /\ drop' = [drop EXCEPT ![a] = f]
  BY DEF Received
<1>2. /\ m \in Messages /\ drop[a].message = m /\ m # None /\ messages \in Nat
      /\ a <= activation /\ m <= messages
  BY <1>1, DropOf, NoneAssumption DEF Messages, GoodDrop
<1>3. GoodDrop(f, messages) /\ f.load = drop[a].load /\ f.message = None
  BY DropOf DEF GoodDrop, DropForms
<1> HIDE DEF f, m
<1>4. \A b \in Activations : drop'[b] = IF b = a THEN f ELSE drop[b]
  BY <1>1, DropOf
<1>5. stored \in [Messages -> Nat] /\ unseen \in [Messages -> Nat]
  BY DropOf DEF CountInv
<1>6. /\ stored'[m] = stored[m] + 1 /\ unseen'[m] >= unseen[m] /\ stored[m] <= unseen[m]
      /\ \A n \in Messages \ {m} : stored'[n] = stored[n] /\ unseen'[n] = unseen[n]
      /\ stored' \in [Messages -> Nat] /\ unseen' \in [Messages -> Nat]
  BY <1>1, <1>2, <1>5, DropOf DEF MessageInv
<1>7. \A b \in Activations : drop'[b].message # m
  BY <1>2, <1>3, <1>4, DropOf DEF MessageInv
<1>8. MessageInv'
  <2>1. \A b, c \in Activations :
            drop'[b].message = drop'[c].message /\ drop'[b].message # None => b = c
    BY <1>3, <1>4, DropOf DEF MessageInv
  <2>2. stored'[m] <= 1 + unseen'[m] /\ ~(m > messages)
    BY <1>2, <1>5, <1>6 DEF Messages
  <2>3. ASSUME NEW n \in Messages \ {m}
        PROVE  /\ stored'[n] <= 1 + unseen'[n]
               /\ (\E b \in Activations : drop'[b].message = n) \/ n > messages
                      => stored'[n] <= unseen'[n]
    <3>1. (\E b \in Activations : drop'[b].message = n)
             => (\E b \in Activations : drop[b].message = n)
      BY <1>3, <1>4, NoneAssumption DEF Messages
    <3>2. QED
      BY <1>6, <3>1, DropOf DEF MessageInv
  <2>4. QED
    BY <1>1, <1>7, <2>1, <2>2, <2>3 DEF MessageInv
<1>9. CountInv'
  BY <1>1, <1>6, DropOf DEF CountInv, InDrop
<1>10. /\ drop'[a].load = drop[a].load /\ GoodDrop(drop'[a], messages')
       /\ drop' = [drop EXCEPT ![a] = drop'[a]] /\ messages <= messages'
  <2>1. drop'[a] = f
    BY <1>4
  <2>2. messages <= messages'
    BY <1>1, <1>2
  <2>3. drop' = [drop EXCEPT ![a] = drop'[a]]
    BY <1>1, <2>1
  <2>4. QED
    BY <1>1, <1>3, <2>1, <2>2, <2>3
<1>11. QED
  BY <1>1, <1>2, <1>8, <1>9, <1>10, DropStep

LEMMA NotReceivedInv ==
    ASSUME PageInv, NEW a \in Activations, NotReceived(a) PROVE PageInv'
<1> DEFINE m == drop[a].task.message
           f == [drop[a] EXCEPT !.task = None]
<1>1. /\ drop[a].task # None /\ InDrop /\ messages' = messages /\ uploads' = uploads
      /\ \/ UNCHANGED <<stored, unseen>>
         \/ /\ stored' = [stored EXCEPT ![m] = @ + 1]
            /\ unseen' = [unseen EXCEPT ![m] = @ + 1]
      /\ drop' = [drop EXCEPT ![a] = f]
  BY DEF NotReceived
<1>2. m \in Messages /\ messages \in Nat /\ a <= activation
  BY <1>1, DropOf
<1>3. GoodDrop(f, messages) /\ f.load = drop[a].load /\ f.message = drop[a].message
  BY DropOf DEF GoodDrop, DropForms
<1> HIDE DEF f, m
<1>4. \A b \in Activations : drop'[b] = IF b = a THEN f ELSE drop[b]
  BY <1>1, DropOf
<1>5. stored \in [Messages -> Nat] /\ unseen \in [Messages -> Nat]
  BY DropOf DEF CountInv
<1>6. /\ \A n \in Messages : stored'[n] - unseen'[n] = stored[n] - unseen[n]
      /\ stored' \in [Messages -> Nat] /\ unseen' \in [Messages -> Nat]
  BY <1>1, <1>2, <1>5
<1>7. \A b \in Activations : drop'[b].message = drop[b].message
  BY <1>3, <1>4
<1>8. ASSUME NEW n \in Messages
      PROVE  /\ stored'[n] <= unseen'[n] <=> stored[n] <= unseen[n]
             /\ stored'[n] <= 1 + unseen'[n] <=> stored[n] <= 1 + unseen[n]
  BY <1>5, <1>6
<1>9. MessageInv'
  BY <1>1, <1>7, <1>8, DropOf DEF MessageInv
<1>10. CountInv'
  BY <1>1, <1>6, DropOf DEF CountInv, InDrop
<1>11. /\ drop'[a].load = drop[a].load /\ GoodDrop(drop'[a], messages')
       /\ drop' = [drop EXCEPT ![a] = drop'[a]] /\ messages <= messages'
  <2>1. drop'[a] = f
    BY <1>4
  <2>2. messages <= messages'
    BY <1>1, <1>2
  <2>3. drop' = [drop EXCEPT ![a] = drop'[a]]
    BY <1>1, <2>1
  <2>4. QED
    BY <1>1, <1>3, <2>1, <2>2, <2>3
<1>12. QED
  BY <1>1, <1>2, <1>9, <1>10, <1>11, DropStep

-----------------------------------------------------------------------------
(* A handler of the open view.                                             *)
LEMMA OpenStep ==
    ASSUME PageInv, NEW a \in Activations, a <= activation, InOpen, NEW f,
           open' = [open EXCEPT ![a] = f], f.load = open[a].load, GoodOpen(f),
           imports' \in 0 .. MaxImports
    PROVE  PageInv'
<1>1. /\ \A b \in Activations : /\ open'[b] = IF b = a THEN f ELSE open[b]
                                /\ open'[b].load = open[b].load
      /\ open' \in [Activations -> OpenForms]
  BY DEF PageInv, ShellInv, GoodOpen
<1>2. ASSUME NEW b \in Activations
      PROVE  /\ GoodCeremony(create'[b], checked')
             /\ GoodDrop(drop'[b], messages') /\ GoodOpen(open'[b])
  BY <1>1 DEF InOpen, bottles, PageInv
<1>3. ShellInv' /\ CeremonyIsGuarded'
  BY <1>1 DEF InOpen, shell, PageInv, ShellInv, CeremonyIsGuarded, Activations
<1>4. CountInv' /\ MessageInv'
  BY DEF InOpen, bottles, PageInv, CountInv, MessageInv
<1>5. BusyUntilRendered'
  BY <1>1 DEF InOpen, shell, PageInv, ShellInv, BusyUntilRendered, Form, current
<1>6. QED
  BY <1>2, <1>3, <1>4, <1>5 DEF PageInv

LEMMA OpenSteps ==
    ASSUME PageInv, NEW a \in Activations, OpenView(a) PROVE PageInv'
<1>1. /\ open[a] \in OpenForms /\ GoodOpen(open[a]) /\ open \in [Activations -> OpenForms]
      /\ imports \in 0 .. MaxImports
      /\ imports < MaxImports => imports + 1 \in 0 .. MaxImports
  BY BoundsAssumption DEF PageInv, ShellInv, CountInv
<1>2. Opening(a) => a <= activation
  BY DEF Opening, Shown, PageInv, ShellInv, Activations
<1>3. open[a] # NewOpen => a <= activation
  BY DEF PageInv, ShellInv, Activations
<1>4. ASSUME NEW k \in Keys \cup {None}, SelectRecord(a, k) PROVE PageInv'
  <2> DEFINE f == [open[a] EXCEPT !.selected = k]
  <2>1. GoodOpen(f) /\ f.load = open[a].load
    BY <1>1, <1>4 DEF GoodOpen, OpenForms
  <2>2. open' = [open EXCEPT ![a] = f] /\ InOpen /\ imports' = imports /\ a <= activation
    BY <1>2, <1>4 DEF SelectRecord
  <2> HIDE DEF f
  <2>3. QED
    BY <1>1, <2>1, <2>2, OpenStep
<1>5. CASE TypeIdentity(a)
  <2> DEFINE f == [open[a] EXCEPT !.identity = TRUE]
  <2>1. GoodOpen(f) /\ f.load = open[a].load
    BY <1>1, <1>5 DEF GoodOpen, OpenForms, TypeIdentity, Opening
  <2>2. /\ open' = [open EXCEPT ![a] = f] /\ InOpen /\ imports' = imports + 1
        /\ imports < MaxImports /\ a <= activation
    BY <1>2, <1>5 DEF TypeIdentity
  <2> HIDE DEF f
  <2>3. QED
    BY <1>1, <2>1, <2>2, OpenStep
<1>6. CASE ChooseIdentityFile(a)
  <2>1. PICK large \in BOOLEAN :
            open' = [open EXCEPT ![a].identity = FALSE,
                                 ![a].importing = IF large THEN @ ELSE @ + 1]
    BY <1>6 DEF ChooseIdentityFile
  <2> DEFINE f == [open[a] EXCEPT !.identity = FALSE,
                                  !.importing = IF large THEN @ ELSE @ + 1]
  <2>7. open[a].task = None /\ open[a].importing \in Nat /\ open[a].importing + 1 \in Nat
    BY <1>1, <1>6 DEF OpenForms, ChooseIdentityFile, Opening
  <2>8. (IF large THEN open[a].importing ELSE open[a].importing + 1) \in Nat
    BY <2>7
  <2>2. f \in OpenForms /\ f.load = open[a].load /\ f.task = None
    BY <1>1, <2>7, <2>8 DEF OpenForms
  <2>3. open' = [open EXCEPT ![a] = f]
    BY <2>1
  <2>4. /\ InOpen /\ imports' = imports + 1
        /\ imports < MaxImports /\ a <= activation
    BY <1>2, <1>6 DEF ChooseIdentityFile
  <2> HIDE DEF f
  <2>5. GoodOpen(f)
    BY <2>2 DEF GoodOpen
  <2>6. QED
    BY <1>1, <2>2, <2>3, <2>4, <2>5, OpenStep
<1>7. CASE IdentityFileRead(a)
  <2>1. PICK valid \in BOOLEAN :
            open' = [open EXCEPT ![a].identity = valid, ![a].importing = @ - 1]
    BY <1>7 DEF IdentityFileRead
  <2> DEFINE f == [open[a] EXCEPT !.identity = valid, !.importing = @ - 1]
  <2>2. open[a].importing > 0 /\ open[a].importing \in Nat
    BY <1>1, <1>7 DEF OpenForms, IdentityFileRead
  <2>3. open[a].importing - 1 \in Nat
    BY <2>2
  <2>4. f \in OpenForms /\ f.load = open[a].load /\ f.task = open[a].task
    BY <1>1, <2>3 DEF OpenForms
  <2>5. open' = [open EXCEPT ![a] = f]
    BY <2>1
  <2>6. InOpen /\ imports' = imports
    BY <1>7 DEF IdentityFileRead
  <2>7. a <= activation
    BY <1>3, <2>2 DEF NewOpen
  <2> HIDE DEF f
  <2>8. GoodOpen(f)
    BY <1>1, <2>2, <2>4 DEF GoodOpen
  <2>9. QED
    BY <1>1, <2>4, <2>5, <2>6, <2>7, <2>8, OpenStep
<1>8. CASE SubmitOpen(a)
  <2> DEFINE t == [importing |-> open[a].importing > 0]
             f == [open[a] EXCEPT !.identity = FALSE, !.task = t]
  <2>1. t \in [importing : BOOLEAN] /\ t.importing = (open[a].importing > 0)
    OBVIOUS
  <2>2. open' = [open EXCEPT ![a] = f] /\ InOpen /\ imports' = imports /\ a <= activation
    BY <1>2, <1>8 DEF SubmitOpen
  <2> HIDE DEF t
  <2>3. /\ f \in OpenForms /\ f.load = open[a].load /\ f.task = t /\ ~f.identity
        /\ f.importing = open[a].importing
    BY <1>1, <2>1 DEF OpenForms
  <2> HIDE DEF f
  <2>4. GoodOpen(f)
    BY <2>1, <2>3 DEF GoodOpen
  <2>5. QED
    BY <1>1, <2>2, <2>3, <2>4, OpenStep
<1>9. CASE OpenEnds(a)
  <2> DEFINE f == [open[a] EXCEPT !.task = None]
  <2>1. GoodOpen(f) /\ f.load = open[a].load
    BY <1>1 DEF GoodOpen, OpenForms
  <2>2. open' = [open EXCEPT ![a] = f] /\ InOpen /\ imports' = imports
    BY <1>9 DEF OpenEnds
  <2>3. a <= activation
    BY <1>3, <1>9 DEF OpenEnds, NewOpen
  <2> HIDE DEF f
  <2>4. QED
    BY <1>1, <2>1, <2>2, <2>3, OpenStep
<1>10. QED
  BY <1>4, <1>5, <1>6, <1>7, <1>8, <1>9 DEF OpenView

-----------------------------------------------------------------------------
LEMMA InitPage == ASSUME Init PROVE PageInv
<1>1. /\ 0 \in Nat /\ 1 \in Activations /\ activation = 1 /\ guard = 0
      /\ NewCeremony \in CeremonyForms /\ NewDrop \in DropForms /\ NewOpen \in OpenForms
  BY BoundsAssumption
    
        DEF Init, Activations, NewCeremony, NewDrop, NewOpen, CeremonyForms, DropForms,
            OpenForms,
         Phases, Loads
<1>2. /\ \A a \in Activations : /\ create[a] = NewCeremony /\ drop[a] = NewDrop
                                /\ open[a] = NewOpen /\ view[a] = hash
      /\ create \in [Activations -> CeremonyForms] /\ drop \in [Activations -> DropForms]
      /\ open \in [Activations -> OpenForms]
  BY <1>1 DEF Init
<1>3. ShellInv
  BY <1>1, <1>2 DEF Init, ShellInv
<1>4. CountInv /\ MessageInv
  BY <1>1, <1>2, BoundsAssumption DEF Init, CountInv, MessageInv, NewDrop
<1>5. GoodCeremony(NewCeremony, checked) /\ GoodDrop(NewDrop, messages) /\ GoodOpen(NewOpen)
  BY <1>1 DEF GoodCeremony, Awaited, GoodDrop, GoodOpen, NewCeremony, NewDrop, NewOpen
<1>6. CeremonyIsGuarded
  BY <1>2 DEF CeremonyIsGuarded, NewCeremony
<1>7. BusyUntilRendered
  BY <1>1, <1>2 DEF Init, BusyUntilRendered, current, Form, NewDrop, NewOpen
<1>8. QED
  BY <1>2, <1>3, <1>4, <1>5, <1>6, <1>7 DEF PageInv

LEMMA StutterPage == ASSUME PageInv, UNCHANGED vars PROVE PageInv'
BY
   DEF PageInv, ShellInv, CountInv, MessageInv, CeremonyIsGuarded, BusyUntilRendered,
       current,
       Form, vars, shell, bottles

(* One case for each handler.                                              *)
LEMMA StepPage == ASSUME PageInv, [Next]_vars PROVE PageInv'
<1>1. ASSUME NEW v \in Views, ClickLink(v) \/ ChangeHash(v) PROVE PageInv'
  BY <1>1, ShellSteps
<1>2. CASE HashChanged
  BY <1>2, ShellSteps DEF Views
<1>3. ASSUME NEW a \in Activations, CreateView(a) PROVE PageInv'
  BY <1>3, GenerateInv, StartOverInv, GeneratedInv, FingerprintedInv, ChooseBackupInv,
     BackupCheckedInv DEF CreateView
<1>4. ASSUME NEW a \in Activations, DropView(a) PROVE PageInv'
  BY <1>4, QuietDropSteps, WriteMessageInv, ReceivedInv, NotReceivedInv DEF DropView
<1>5. CASE UNCHANGED vars
  BY <1>5, StutterPage
<1>6. QED
  BY <1>1, <1>2, <1>3, <1>4, <1>5, LoadSteps, OpenSteps DEF Next

LEMMA PageInvImplies ==
    ASSUME PageInv
    PROVE  /\ TypeOK /\ CeremonyIsGuarded /\ ExportNeedsVerifiedBackup /\ BusyUntilRendered
           /\ NoIdentityWhileOpening /\ UploadsAreConfirmed /\ DuplicatesAreUnseen
<1>1. TypeOK
  BY DEF PageInv, ShellInv, CountInv, TypeOK
<1>2. ExportNeedsVerifiedBackup
  BY DEF PageInv, GoodCeremony, Awaited, ExportNeedsVerifiedBackup
<1>3. NoIdentityWhileOpening /\ UploadsAreConfirmed
  BY DEF PageInv, GoodOpen, GoodDrop, NoIdentityWhileOpening, UploadsAreConfirmed
<1>4. DuplicatesAreUnseen
  BY DEF PageInv, MessageInv, DuplicatesAreUnseen
<1>5. QED
  BY <1>1, <1>2, <1>3, <1>4 DEF PageInv

(* PageInv is inductive, and holds of every behaviour.                     *)
THEOREM PageIsSound == Spec => []PageInv
BY InitPage, StepPage, PTL DEF Spec

(* The page's variables have their types. *)
THEOREM PageTyped == Spec => []TypeOK
BY PageIsSound, PageInvImplies, PTL

(* A private identity the page holds or makes is in the view that is shown, *)
(* and leaving that view asks the user.                                     *)
THEOREM CeremonyGuarded == Spec => []CeremonyIsGuarded
BY PageIsSound, PageInvImplies, PTL

(* A public record is exported only after a file was checked against it.   *)
THEOREM ExportVerified == Spec => []ExportNeedsVerifiedBackup
BY PageIsSound, PageInvImplies, PTL

(* The page is busy exactly while the shown view loads for the first time. *)
THEOREM BusyIsTrue == Spec => []BusyUntilRendered
BY PageIsSound, PageInvImplies, PTL

(* The form holds no identity during a lookup, but for a file still being  *)
(* read at the submit.                                                     *)
THEOREM OpeningHoldsNoIdentity == Spec => []NoIdentityWhileOpening
BY PageIsSound, PageInvImplies, PTL

(* Nothing is encrypted to a key whose fingerprint was not confirmed.      *)
THEOREM UploadsConfirmed == Spec => []UploadsAreConfirmed
BY PageIsSound, PageInvImplies, PTL

(* A message is stored again only if no receipt was shown for it.          *)
THEOREM DuplicatesUnseen == Spec => []DuplicatesAreUnseen
BY PageIsSound, PageInvImplies, PTL
=============================================================================
