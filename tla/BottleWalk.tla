----------------------------- MODULE BottleWalk -----------------------------
(***************************************************************************)
(* Recipients paging through their inbox while drops are stored, rolled    *)
(* back and expired: the Open Bottles view and client.listBottlePage in    *)
(* the browser, handleListBottles and listByRecipientFingerprint in the    *)
(* Worker.  A walk is the sequence of page requests a view makes from the  *)
(* first page, without a cursor, to the one that returns no cursor.        *)
(***************************************************************************)
EXTENDS BottleWorker

CONSTANTS
    Views,     \* open browser tabs showing Open Bottles
    PageSize   \* BOTTLE_LIST_PAGE_SIZE

ASSUME PageSizeAssumption == PageSize \in Nat \ {0}

VARIABLES
    vpc,        \* vpc[v]: "idle", or awaiting kv.list ("list"), kv.get ("get")
                \* or, in the browser, the answer ("reply")
    selected,   \* selected[v]: the key record chosen in the view
    nextCursor, \* nextCursor[v]: {} or the last key of the page before
    cursorFor,  \* cursorFor[v]: the recipients nextCursor belongs to ({} or one)
    now,        \* now[v]: when the Worker received the page request
    page,       \* page[v]: the keys kv.list returned, then the bottles answered
    following,  \* following[v]: the cursor that goes with page
    opened,     \* opened[v]: bottles returned so far in this walk
    steady,     \* steady[v]: bottles both copies listed when the walk began
    walked      \* walked[v]: the walk has reached its last page

viewVars == <<vpc, selected, nextCursor, cursorFor, now, page, following,
              opened, steady, walked>>
walkVars == <<vars, viewVars>>

(* A cursor stands for the last key of its page. *)
LastKey(keys) == {b \in keys : \A c \in keys : c = b \/ KeyBefore(c, b)}

WalkInit ==
    /\ Init
    /\ vpc = [v \in Views |-> "idle"]
    /\ selected \in [Views -> Recipients]
    /\ nextCursor = [v \in Views |-> {}]
    /\ cursorFor = [v \in Views |-> {}]
    /\ now = [v \in Views |-> 0]
    /\ page = [v \in Views |-> {}]
    /\ following = [v \in Views |-> {}]
    /\ opened = [v \in Views |-> {}]
    /\ steady = [v \in Views |-> {}]
    /\ walked = [v \in Views |-> FALSE]

(* The key record changes: the cursor and its owner are forgotten. *)
SelectKey(v, r) ==
    /\ vpc[v] = "idle"
    /\ r # selected[v]
    /\ selected' = [selected EXCEPT ![v] = r]
    /\ nextCursor' = [nextCursor EXCEPT ![v] = {}]
    /\ cursorFor' = [cursorFor EXCEPT ![v] = {}]
    /\ opened' = [opened EXCEPT ![v] = {}]
    /\ steady' = [steady EXCEPT ![v] = {}]
    /\ walked' = [walked EXCEPT ![v] = FALSE]
    /\ UNCHANGED <<vpc, now, page, following, vars>>

RequestCursor(v) == IF cursorFor[v] = {selected[v]} THEN nextCursor[v] ELSE {}

(* Submit: the identity matches and the page request reaches the Worker. *)
Submit(v) ==
    /\ vpc[v] = "idle"
    /\ vpc' = [vpc EXCEPT ![v] = "list"]
    /\ now' = [now EXCEPT ![v] = clock]
    /\ IF RequestCursor(v) = {}
       THEN /\ opened' = [opened EXCEPT ![v] = {}]
            /\ steady' = [steady EXCEPT ![v] =
                            {b \in index \cap indexSeen : rcpt[b] = selected[v]}]
            /\ walked' = [walked EXCEPT ![v] = FALSE]
       ELSE UNCHANGED <<opened, steady, walked>>
    /\ UNCHANGED <<selected, nextCursor, cursorFor, page, following, vars>>

(* A page that holds no key and is not the last leaves the walk where it   *)
(* was, as a page that failed does: it is left to PageFails.               *)
ListPage(v) ==
    /\ vpc[v] = "list"
    /\ \E copy \in {index, indexSeen} :
        LET listed == Listed(copy, selected[v], RequestCursor(v)) IN
        \E keys \in Pages(listed, PageSize) :
            /\ keys = {} => listed = {}
            /\ page' = [page EXCEPT ![v] = keys]
            /\ following' = [following EXCEPT ![v] =
                               IF keys = listed THEN {} ELSE LastKey(keys)]
    /\ vpc' = [vpc EXCEPT ![v] = "get"]
    /\ UNCHANGED <<selected, nextCursor, cursorFor, now, opened, steady, walked, vars>>

(* The request is over, and its locals with it. *)
Settled(v) ==
    /\ vpc' = [vpc EXCEPT ![v] = "idle"]
    /\ now' = [now EXCEPT ![v] = 0]
    /\ page' = [page EXCEPT ![v] = {}]
    /\ following' = [following EXCEPT ![v] = {}]

(* One bulk read, key by key from either copy; what has no value, or has   *)
(* expired at the time of the request, is left out of the answer.          *)
GetValues(v) ==
    /\ vpc[v] = "get"
    /\ \E values \in SUBSET (page[v] \cap (index \cup indexSeen)) :
        /\ page[v] \cap index \cap indexSeen \subseteq values
        /\ page' = [page EXCEPT ![v] = {b \in values : ExpiresAt(b) > now[v]}]
    /\ vpc' = [vpc EXCEPT ![v] = "reply"]
    /\ UNCHANGED <<selected, nextCursor, cursorFor, now, following, opened,
                   steady, walked, vars>>

(* Mutant: an empty page is taken for the end of the inbox. *)
ReceivePageEmptyEnds(v) ==
    /\ vpc[v] = "reply"
    /\ opened' = [opened EXCEPT ![v] = @ \cup page[v]]
    /\ nextCursor' = [nextCursor EXCEPT ![v] =
                        IF page[v] = {} THEN {} ELSE following[v]]
    /\ cursorFor' = [cursorFor EXCEPT ![v] = {selected[v]}]
    /\ walked' = [walked EXCEPT ![v] = page[v] = {} \/ following[v] = {}]
    /\ Settled(v)
    /\ UNCHANGED <<selected, steady, vars>>

(* The answer reaches the view, which shows it and keeps its cursor. *)
ReceivePage(v) ==
    /\ vpc[v] = "reply"
    /\ opened' = [opened EXCEPT ![v] = @ \cup page[v]]
    /\ nextCursor' = [nextCursor EXCEPT ![v] = following[v]]
    /\ cursorFor' = [cursorFor EXCEPT ![v] = {selected[v]}]
    /\ walked' = [walked EXCEPT ![v] = following[v] = {}]
    /\ Settled(v)
    /\ UNCHANGED <<selected, steady, vars>>

(* A rate limit, a storage error or a lost answer: the view keeps its      *)
(* cursor, and the next submit asks for the same page again.               *)
PageFails(v) ==
    /\ vpc[v] # "idle"
    /\ Settled(v)
    /\ UNCHANGED <<selected, nextCursor, cursorFor, opened, steady, walked, vars>>

View(v) ==
    \/ \E r \in Recipients : SelectKey(v, r)
    \/ Submit(v) \/ ListPage(v) \/ GetValues(v) \/ ReceivePage(v) \/ PageFails(v)

WalkNext == (Next /\ UNCHANGED viewVars) \/ \E v \in Views : View(v)

WalkSpec == WalkInit /\ [][WalkNext]_walkVars

-----------------------------------------------------------------------------
WalkTypeOK ==
    /\ vpc \in [Views -> {"idle", "list", "get", "reply"}]
    /\ selected \in [Views -> Recipients]
    /\ nextCursor \in [Views -> SUBSET Drops]
    /\ cursorFor \in [Views -> SUBSET Recipients]
    /\ now \in [Views -> 0..MaxClock]
    /\ page \in [Views -> SUBSET Drops]
    /\ following \in [Views -> SUBSET Drops]
    /\ opened \in [Views -> SUBSET Drops]
    /\ steady \in [Views -> SUBSET Drops]
    /\ walked \in [Views -> BOOLEAN]
    /\ \A v \in Views : Cardinality(nextCursor[v]) <= 1 /\ Cardinality(page[v]) <= PageSize

(* A finished walk returned every bottle that was listed everywhere when   *)
(* it began and is still there unexpired, whatever was stored, removed or  *)
(* retried between its pages and whichever copy served them.               *)
WalkComplete ==
    \A v \in Views :
        walked[v] =>
            \A b \in steady[v] \cap index \cap indexSeen : ~Expired(b) => b \in opened[v]

(* A walk never returns a bottle twice, not even after a failed page. *)
NoBottleTwice ==
    \A v \in Views : vpc[v] = "reply" => page[v] \cap opened[v] = {}

=============================================================================
