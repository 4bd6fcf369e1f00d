------------------------------- MODULE BottlePage -------------------------------
(***************************************************************************)
(* The page of Daylight Bottle (apps/bottle/src): main.ts activates views, *)
(* CreateIdentity.ts holds the ceremony of a new identity, DropBottle.ts   *)
(* encrypts and uploads, OpenBottles.ts takes a private identity in. How a *)
(* view pages through an inbox is in BottleWalk.                           *)
(*                                                                         *)
(* The browser runs one handler at a time. A step is a handler up to its   *)
(* next await, or what follows an await. Each activation renders a view    *)
(* anew; what the view before it awaits goes on, on elements that are no   *)
(* longer shown.                                                           *)
(***************************************************************************)
EXTENDS Integers, FiniteSets

CONSTANTS
    Keys,           \* active records of the keyring
    None,
    MaxActivations, \* bound: views rendered
    MaxIdentities,  \* bound: identity ceremonies begun
    MaxMessages,    \* bound: messages written
    MaxUploads,     \* bound: uploads
    MaxImports      \* bound: identities imported or typed

ASSUME BoundsAssumption ==
    /\ MaxActivations \in Nat \ {0}
    /\ MaxIdentities \in Nat /\ MaxMessages \in Nat /\ MaxUploads \in Nat /\ MaxImports \in Nat

ASSUME NoneAssumption == None \notin Keys \cup 1 .. MaxIdentities \cup 1 .. MaxMessages

Views == {"create", "drop", "open", "threat"}

VARIABLES
    hash,        \* the view the address names
    view,        \* view[a]: the view that activation a renders
    activation,  \* activationId
    ariaBusy,    \* aria-busy of the view's root
    guard,       \* the activation whose navigation guard is set, or 0
    create,      \* create[a]: the ceremony of activation a
    drop,        \* drop[a]: the form of activation a
    open,        \* open[a]: the form of activation a
    ceremonies,  \* how many identity ceremonies have begun
    messages,    \* how many messages have been written
    uploads, imports,
    checked,     \* history: ceremonies whose saved file was checked against the record
    stored,      \* stored[m]: bottles of message m the server has kept
    unseen       \* unseen[m]: of those, the ones no receipt was shown for

shell == <<hash, view, activation, ariaBusy>>
bottles == <<messages, uploads, stored, unseen>>
vars == <<shell, guard, create, drop, open, ceremonies, imports, checked, bottles>>

-----------------------------------------------------------------------------
Activations == 1 .. MaxActivations
Ceremonies == 1 .. MaxIdentities
Messages == 1 .. MaxMessages

current == view[activation]
Shown(v) == {a \in {activation} : view[a] = v}

(* submit, unlocked, startOver and backup: which controls are enabled.     *)
(* gens and check: what is awaited.                                        *)
NewCeremony == [phase |-> "idle", revision |-> 0, identity |-> None, record |-> None,
                submit |-> TRUE, unlocked |-> FALSE, startOver |-> FALSE, backup |-> FALSE,
                gens |-> {}, check |-> {}]
NewDrop == [load |-> "loading", selected |-> None, confirmed |-> None, message |-> None,
            task |-> None]
NewOpen == [load |-> "loading", selected |-> None, identity |-> FALSE, importing |-> 0,
            task |-> None]

Init ==
    /\ hash \in Views
    /\ view = [a \in Activations |-> hash]
    /\ activation = 1
    /\ ariaBusy = (hash \in {"drop", "open"})
    /\ guard = 0
    /\ create = [a \in Activations |-> NewCeremony]
    /\ drop = [a \in Activations |-> NewDrop]
    /\ open = [a \in Activations |-> NewOpen]
    /\ ceremonies = 0 /\ messages = 0 /\ uploads = 0 /\ imports = 0
    /\ checked = {}
    /\ stored = [m \in Messages |-> 0]
    /\ unseen = [m \in Messages |-> 0]

-----------------------------------------------------------------------------
(***************************************************************************)
(* The identity ceremony.                                                  *)
(***************************************************************************)
(* syncCeremony: what the phase enables. *)
Synced(c) == [c EXCEPT !.submit = c.phase = "idle",
                       !.unlocked = c.record # None /\ c.phase = "verified",
                       !.startOver = c.record # None
                                     /\ c.phase \notin {"generating", "verifying-backup"}]

(* clearActiveCeremony, which leaves the controls as they are. *)
Cleared(c) == [c EXCEPT !.phase = "idle", !.revision = @ + 1, !.identity = None]

Ceremony(a, c) == create' = [create EXCEPT ![a] = c]

Release(a) == guard' = IF guard = a THEN 0 ELSE guard

InCeremony == UNCHANGED <<shell, drop, open, imports, bottles>>

(* Submit: the output is emptied, the guard set. A keyname that is not     *)
(* valid ends the ceremony at once.                                        *)
Generate(a) ==
    /\ a \in Shown("create")
    /\ create[a].submit /\ create[a].phase = "idle"
    /\ ceremonies < MaxIdentities
    /\ LET begun == [create[a] EXCEPT !.revision = @ + 1, !.phase = "generating",
                                      !.record = None, !.backup = FALSE]
       IN  \/ /\ Ceremony(a, Synced([begun EXCEPT
                    !.gens = @ \cup {[step |-> "generate", revision |-> begun.revision,
                                      identity |-> ceremonies + 1]}]))
              /\ guard' = a
           \/ /\ Ceremony(a, Synced(Cleared(begun)))
              /\ UNCHANGED guard
    /\ ceremonies' = ceremonies + 1
    /\ UNCHANGED checked /\ InCeremony

(* Mutant: the ceremony is not asked whether it is still the same. *)
GeneratedAnyway(a, t) ==
    /\ t \in create[a].gens /\ t.step = "generate"
    /\ Ceremony(a, [create[a] EXCEPT
                        !.identity = t.identity,
                        !.gens = (@ \ {t}) \cup {[t EXCEPT !.step = "fingerprint"]}])
    /\ UNCHANGED <<guard, ceremonies, checked>> /\ InCeremony

(* generateIdentity has settled, well or not. *)
Generated(a, t) ==
    /\ t \in create[a].gens /\ t.step = "generate"
    /\ LET rest == [create[a] EXCEPT !.gens = @ \ {t}]
       IN  IF t.revision # rest.revision
           THEN Ceremony(a, Synced(rest)) /\ UNCHANGED guard
           ELSE \/ /\ Ceremony(a, [rest EXCEPT
                          !.identity = t.identity,
                          !.gens = @ \cup {[t EXCEPT !.step = "fingerprint"]}])
                   /\ UNCHANGED guard
                \/ Ceremony(a, Synced(Cleared(rest))) /\ Release(a)
    /\ UNCHANGED <<ceremonies, checked>> /\ InCeremony

(* The fingerprint is there: the record is rendered, its actions locked.   *)
Fingerprinted(a, t) ==
    /\ t \in create[a].gens /\ t.step = "fingerprint"
    /\ LET rest == [create[a] EXCEPT !.gens = @ \ {t}]
       IN  IF t.revision # rest.revision
           THEN Ceremony(a, Synced(rest)) /\ UNCHANGED guard
           ELSE \/ /\ Ceremony(a, Synced([rest EXCEPT !.record = t.identity, !.backup = TRUE,
                                                      !.phase = "awaiting-backup"]))
                   /\ UNCHANGED guard
                \/ Ceremony(a, Synced(Cleared(rest))) /\ Release(a)
    /\ UNCHANGED <<ceremonies, checked>> /\ InCeremony

(* A saved file is chosen: too large, or to be read. saved: it is the      *)
(* identity of the record.                                                 *)
ChooseBackup(a, saved) ==
    /\ a \in Shown("create")
    /\ create[a].record # None /\ create[a].backup /\ create[a].identity # None
    /\ \/ Ceremony(a, Synced([create[a] EXCEPT !.phase = "awaiting-backup"]))
       \/ Ceremony(a, Synced([create[a] EXCEPT
              !.phase = "verifying-backup", !.backup = FALSE,
              !.check = @ \cup {[revision |-> create[a].revision, saved |-> saved,
                                 record |-> create[a].record]}]))
    /\ UNCHANGED <<guard, ceremonies, checked>> /\ InCeremony

(* Mutant: a check that fails is taken for one that succeeds. *)
BackupCheckedAnyway(a, t) ==
    /\ t \in create[a].check
    /\ checked' = IF t.saved THEN checked \cup {t.record} ELSE checked
    /\ LET rest == [create[a] EXCEPT !.check = @ \ {t}]
       IN  IF t.revision # rest.revision THEN Ceremony(a, rest)
           ELSE Ceremony(a, Synced([rest EXCEPT !.phase = "verified"]))
    /\ UNCHANGED <<guard, ceremonies>> /\ InCeremony

(* The file is read and checked, between two awaits that ask the same.     *)
BackupChecked(a, t) ==
    /\ t \in create[a].check
    /\ checked' = IF t.saved THEN checked \cup {t.record} ELSE checked
    /\ LET rest == [create[a] EXCEPT !.check = @ \ {t}]
       IN  IF t.revision # rest.revision THEN Ceremony(a, rest)
           ELSE Ceremony(a, Synced([rest EXCEPT
                    !.phase = IF t.saved THEN "verified" ELSE "awaiting-backup",
                    !.backup = ~t.saved]))
    /\ UNCHANGED <<guard, ceremonies>> /\ InCeremony

(* Start Over, and its confirmation, which a running check disables.       *)
StartOver(a) ==
    /\ a \in Shown("create")
    /\ create[a].record # None /\ create[a].startOver
    /\ Ceremony(a, Synced([Cleared(create[a]) EXCEPT !.record = None, !.backup = FALSE]))
    /\ Release(a)
    /\ UNCHANGED <<ceremonies, checked>> /\ InCeremony

-----------------------------------------------------------------------------
(***************************************************************************)
(* The shell: links, the address, activations.                             *)
(***************************************************************************)
(* confirmNavigationAway: nothing to ask, or the user agrees and the       *)
(* ceremony is cleared.                                                    *)
MayLeave ==
    \/ /\ guard # 0 => create[guard].phase = "idle"
       /\ UNCHANGED <<guard, create>>
    \/ /\ guard # 0 /\ create[guard].phase # "idle"
       /\ Ceremony(guard, Cleared(create[guard]))
       /\ guard' = 0

InShell == UNCHANGED <<drop, open, ceremonies, imports, checked, bottles>>

(* A click on a link of another view, that the user confirms if asked. A   *)
(* click with Ctrl opens another page instead and leaves the hash alone.   *)
ClickLink(v) ==
    /\ v # current
    /\ MayLeave
    /\ hash' \in {v, hash}
    /\ UNCHANGED <<view, activation, ariaBusy>> /\ InShell

(* Back, forward, a typed hash, or a link within a view: the address       *)
(* changes without a question.                                             *)
ChangeHash(v) ==
    /\ v # hash
    /\ activation < MaxActivations
    /\ hash' = v
    /\ UNCHANGED <<view, activation, ariaBusy, guard, create>> /\ InShell

(* hashchange: the view is activated, or the address is put back. A view   *)
(* that has nothing to load is rendered in this step.                      *)
HashChanged ==
    /\ hash # current
    /\ activation < MaxActivations
    /\ \/ /\ MayLeave /\ guard' = 0
          /\ activation' = activation + 1
          /\ view' = [view EXCEPT ![activation + 1] = hash]
          /\ ariaBusy' = (hash \in {"drop", "open"})
          /\ UNCHANGED hash
       \/ /\ guard # 0 /\ create[guard].phase # "idle"
          /\ hash' = current
          /\ UNCHANGED <<view, activation, ariaBusy, guard, create>>
    /\ InShell

-----------------------------------------------------------------------------
(***************************************************************************)
(* Loading the keyring, first on rendering, and again on Retry.            *)
(***************************************************************************)
Form(a) == IF view[a] = "drop" THEN drop[a] ELSE open[a]

SetLoad(a, to) ==
    IF view[a] = "drop"
    THEN drop' = [drop EXCEPT ![a].load = to] /\ UNCHANGED open
    ELSE open' = [open EXCEPT ![a].load = to] /\ UNCHANGED drop

InLoad == UNCHANGED <<hash, view, activation, guard, create, ceremonies, imports, checked,
                      bottles>>

(* Mutant: an activation does not ask whether it is the current one. *)
LoadedAnyway(a) ==
    /\ a <= activation /\ view[a] \in {"drop", "open"}
    /\ Form(a).load \in {"loading", "retrying"}
    /\ \E to \in {"ready", "empty", "failed"} : SetLoad(a, to)
    /\ ariaBusy' = IF Form(a).load = "loading" THEN FALSE ELSE ariaBusy
    /\ InLoad

(* The first load ends the rendering, also when it fails. The form stays   *)
(* hidden when there is no key to choose.                                  *)
Loaded(a) ==
    /\ a <= activation /\ view[a] \in {"drop", "open"}
    /\ Form(a).load \in {"loading", "retrying"}
    /\ \E to \in {"ready", "empty", "failed"} : SetLoad(a, to)
    /\ ariaBusy' = IF Form(a).load = "loading" /\ a = activation THEN FALSE ELSE ariaBusy
    /\ InLoad

Retry(a) ==
    /\ a \in Shown("drop") \cup Shown("open")
    /\ Form(a).load = "failed"
    /\ SetLoad(a, "retrying")
    /\ UNCHANGED ariaBusy /\ InLoad

-----------------------------------------------------------------------------
(***************************************************************************)
(* Drop Bottle. The form's controls are disabled while a drop is under     *)
(* way. confirmed: the key whose fingerprint was shown when the box was    *)
(* ticked, as long as it is.                                               *)
(***************************************************************************)
Dropping(a) == a \in Shown("drop") /\ drop[a].load = "ready" /\ drop[a].task = None

InDrop == UNCHANGED <<shell, guard, create, open, ceremonies, imports, checked>>

(* Mutant: the box stays ticked. *)
SelectRecipientKeep(a, k) ==
    /\ Dropping(a)
    /\ k # drop[a].selected
    /\ drop' = [drop EXCEPT ![a].selected = k]
    /\ InDrop /\ UNCHANGED bottles

SelectRecipient(a, k) ==
    /\ Dropping(a)
    /\ k # drop[a].selected
    /\ drop' = [drop EXCEPT ![a].selected = k, ![a].confirmed = None]
    /\ InDrop /\ UNCHANGED bottles

TickConfirmation(a) ==
    /\ Dropping(a)
    /\ drop[a].selected # None
    /\ drop' = [drop EXCEPT ![a].confirmed = IF @ = None THEN drop[a].selected ELSE None]
    /\ InDrop /\ UNCHANGED bottles

WriteMessage(a) ==
    /\ Dropping(a)
    /\ messages < MaxMessages
    /\ messages' = messages + 1
    /\ drop' = [drop EXCEPT ![a].message = messages + 1]
    /\ InDrop /\ UNCHANGED <<uploads, stored, unseen>>

(* Mutant: only the message is looked at. *)
SubmitDropUnchecked(a) ==
    /\ Dropping(a)
    /\ drop[a].message # None
    /\ drop' = [drop EXCEPT ![a].task = [step |-> "encrypt", key |-> drop[a].selected,
                                         confirmed |-> drop[a].confirmed,
                                         message |-> drop[a].message]]
    /\ InDrop /\ UNCHANGED bottles

SubmitDrop(a) ==
    /\ Dropping(a)
    /\ drop[a].selected # None /\ drop[a].confirmed # None /\ drop[a].message # None
    /\ drop' = [drop EXCEPT ![a].task = [step |-> "encrypt", key |-> drop[a].selected,
                                         confirmed |-> drop[a].confirmed,
                                         message |-> drop[a].message]]
    /\ InDrop /\ UNCHANGED bottles

(* Encryption fails, or the request turns out too large: the form is as    *)
(* before. Or the request is sent, from a view that is shown or not.       *)
Encrypted(a) ==
    /\ drop[a].task # None /\ drop[a].task.step = "encrypt"
    /\ \/ drop' = [drop EXCEPT ![a].task = None] /\ UNCHANGED uploads
       \/ /\ uploads < MaxUploads
          /\ uploads' = uploads + 1
          /\ drop' = [drop EXCEPT ![a].task.step = "upload"]
    /\ InDrop /\ UNCHANGED <<messages, stored, unseen>>

(* Mutant: the message is left in the form after a receipt. *)
ReceivedKept(a) ==
    /\ drop[a].task # None /\ drop[a].task.step = "upload"
    /\ stored' = [stored EXCEPT ![drop[a].task.message] = @ + 1]
    /\ drop' = [drop EXCEPT ![a].task = None, ![a].confirmed = None]
    /\ unseen' = IF a = activation THEN unseen
                 ELSE [unseen EXCEPT ![drop[a].task.message] = @ + 1]
    /\ InDrop /\ UNCHANGED <<messages, uploads>>

(* The bottle is stored, and its receipt verified and rendered. *)
Received(a) ==
    /\ drop[a].task # None /\ drop[a].task.step = "upload"
    /\ stored' = [stored EXCEPT ![drop[a].task.message] = @ + 1]
    /\ drop' = [drop EXCEPT ![a].task = None, ![a].confirmed = None, ![a].message = None]
    /\ unseen' = IF a = activation THEN unseen
                 ELSE [unseen EXCEPT ![drop[a].task.message] = @ + 1]
    /\ InDrop /\ UNCHANGED <<messages, uploads>>

(* An error, no answer, or one that does not verify: the bottle may be     *)
(* stored all the same, and the form is as before the submit.              *)
NotReceived(a) ==
    /\ drop[a].task # None /\ drop[a].task.step = "upload"
    /\ drop' = [drop EXCEPT ![a].task = None]
    /\ \/ UNCHANGED <<stored, unseen>>
       \/ LET m == drop[a].task.message
          IN  /\ stored' = [stored EXCEPT ![m] = @ + 1]
              /\ unseen' = [unseen EXCEPT ![m] = @ + 1]
    /\ InDrop /\ UNCHANGED <<messages, uploads>>

-----------------------------------------------------------------------------
(***************************************************************************)
(* Open Bottles. importing counts the files that are being read; task is   *)
(* whether the submit under way found one being read.                      *)
(***************************************************************************)
Opening(a) == a \in Shown("open") /\ open[a].load = "ready" /\ open[a].task = None

InOpen == UNCHANGED <<shell, guard, create, drop, ceremonies, checked, bottles>>

SelectRecord(a, k) ==
    /\ Opening(a)
    /\ k # open[a].selected
    /\ open' = [open EXCEPT ![a].selected = k]
    /\ InOpen /\ UNCHANGED imports

TypeIdentity(a) ==
    /\ Opening(a)
    /\ imports < MaxImports
    /\ imports' = imports + 1
    /\ open' = [open EXCEPT ![a].identity = TRUE]
    /\ InOpen

(* The file input is disabled while a submit is under way, but not while   *)
(* a file is being read.                                                   *)
ChooseIdentityFile(a) ==
    /\ Opening(a)
    /\ imports < MaxImports
    /\ imports' = imports + 1
    /\ \E large \in BOOLEAN :
        open' = [open EXCEPT ![a].identity = FALSE,
                             ![a].importing = IF large THEN @ ELSE @ + 1]
    /\ InOpen

(* The text goes into the form, or the form is emptied, whatever has       *)
(* happened to the form since the file was chosen.                         *)
IdentityFileRead(a) ==
    /\ open[a].importing > 0
    /\ \E valid \in BOOLEAN :
        open' = [open EXCEPT ![a].identity = valid, ![a].importing = @ - 1]
    /\ InOpen /\ UNCHANGED imports

(* Mutant: the identity is not taken out of the form. *)
SubmitOpenKeep(a) ==
    /\ Opening(a)
    /\ open[a].selected # None /\ open[a].identity
    /\ open' = [open EXCEPT ![a].task = [importing |-> open[a].importing > 0]]
    /\ InOpen /\ UNCHANGED imports

SubmitOpen(a) ==
    /\ Opening(a)
    /\ open[a].selected # None /\ open[a].identity
    /\ open' = [open EXCEPT ![a].identity = FALSE,
                            ![a].task = [importing |-> open[a].importing > 0]]
    /\ InOpen /\ UNCHANGED imports

(* Any outcome: no match, an error, a page of bottles. *)
OpenEnds(a) ==
    /\ open[a].task # None
    /\ open' = [open EXCEPT ![a].task = None]
    /\ InOpen /\ UNCHANGED imports

-----------------------------------------------------------------------------
CreateView(a) ==
    \/ Generate(a) \/ StartOver(a)
    \/ \E t \in create[a].gens : Generated(a, t) \/ Fingerprinted(a, t)
    \/ \E saved \in BOOLEAN : ChooseBackup(a, saved)
    \/ \E t \in create[a].check : BackupChecked(a, t)

DropView(a) ==
    \/ \E k \in Keys \cup {None} : SelectRecipient(a, k)
    \/ TickConfirmation(a) \/ WriteMessage(a) \/ SubmitDrop(a)
    \/ Encrypted(a) \/ Received(a) \/ NotReceived(a)

OpenView(a) ==
    \/ \E k \in Keys \cup {None} : SelectRecord(a, k)
    \/ TypeIdentity(a) \/ ChooseIdentityFile(a) \/ IdentityFileRead(a)
    \/ SubmitOpen(a) \/ OpenEnds(a)

Next ==
    \/ \E v \in Views : ClickLink(v) \/ ChangeHash(v)
    \/ HashChanged
    \/ \E a \in Activations : Loaded(a) \/ Retry(a) \/ CreateView(a) \/ DropView(a) \/ OpenView(a)

Spec == Init /\ [][Next]_vars

-----------------------------------------------------------------------------
Phases == {"idle", "generating", "awaiting-backup", "verifying-backup", "verified"}

Generations == [step : {"generate", "fingerprint"}, revision : Nat, identity : Ceremonies]
Checks == [revision : Nat, saved : BOOLEAN, record : Ceremonies]
CeremonyForms ==
    [phase : Phases, revision : Nat, identity : Ceremonies \cup {None},
     record : Ceremonies \cup {None}, submit : BOOLEAN, unlocked : BOOLEAN,
     startOver : BOOLEAN, backup : BOOLEAN, gens : SUBSET Generations, check : SUBSET Checks]

Loads == {"loading", "retrying", "ready", "empty", "failed"}

DropTasks == [step : {"encrypt", "upload"}, key : Keys, confirmed : Keys, message : Messages]
DropForms ==
    [load : Loads, selected : Keys \cup {None}, confirmed : Keys \cup {None},
     message : Messages \cup {None}, task : DropTasks \cup {None}]

OpenForms ==
    [load : Loads, selected : Keys \cup {None}, identity : BOOLEAN, importing : Nat,
     task : [importing : BOOLEAN] \cup {None}]

(* The variables have their types: an upload under way has a key, and one  *)
(* whose fingerprint was confirmed.                                        *)
TypeOK ==
    /\ hash \in Views /\ view \in [Activations -> Views]
    /\ activation \in Activations /\ ariaBusy \in BOOLEAN
    /\ guard \in Activations \cup {0}
    /\ create \in [Activations -> CeremonyForms]
    /\ drop \in [Activations -> DropForms] /\ open \in [Activations -> OpenForms]
    /\ ceremonies \in 0 .. MaxIdentities /\ messages \in 0 .. MaxMessages
    /\ uploads \in 0 .. MaxUploads /\ imports \in 0 .. MaxImports
    /\ checked \subseteq Ceremonies
    /\ stored \in [Messages -> Nat] /\ unseen \in [Messages -> Nat]

(* While the page holds a private identity, or makes one, its view is the  *)
(* one shown and leaving it asks the user (armLeaveGuard, clearActive-     *)
(* Ceremony, activateView): no late result puts an identity into a         *)
(* ceremony that was left or started over.                                 *)
CeremonyIsGuarded ==
    \A a \in Activations :
        create[a].identity # None \/ create[a].phase # "idle" => a = activation /\ guard = a

(* The public record can be exported only when a saved file was checked    *)
(* against that very record, and the identity still held is the record's   *)
(* (syncCeremony and the three revision checks).                           *)
ExportNeedsVerifiedBackup ==
    \A a \in Activations :
        /\ create[a].unlocked => create[a].record \in checked
        /\ create[a].record # None => create[a].identity \in {None, create[a].record}

(* The page says it is busy exactly while the shown view waits for its     *)
(* first keyring, whatever the views left behind still wait for            *)
(* (activateView).                                                         *)
BusyUntilRendered ==
    ariaBusy <=> (current \in {"drop", "open"} /\ Form(activation).load = "loading")

(* While bottles are looked up the form holds no private identity, unless  *)
(* a file was still being read when the form was submitted (OpenBottles'   *)
(* submit and import listeners).                                           *)
NoIdentityWhileOpening ==
    \A a \in Activations :
        open[a].task # None /\ open[a].identity => open[a].task.importing

(* What is encrypted goes to the key whose fingerprint was shown when the  *)
(* user confirmed it (DropBottle's key change and submit listeners).       *)
UploadsAreConfirmed ==
    \A a \in Activations : drop[a].task # None => drop[a].task.key = drop[a].task.confirmed

(* A message is stored twice only if for all but one of its bottles no     *)
(* receipt was shown: after a receipt the form is empty (DropBottle's      *)
(* submit listener).                                                       *)
DuplicatesAreUnseen ==
    \A m \in Messages : stored[m] <= 1 + unseen[m]
=============================================================================
