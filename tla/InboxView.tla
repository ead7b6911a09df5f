----------------------------- MODULE InboxView -----------------------------
(***************************************************************************)
(* How a browser keeps its list of chats: it pages through the list once,  *)
(* newest first, and from then on asks what changed since the server's     *)
(* time of its last question (getConversations, getConversationChanges).   *)
(* Rows are changed by transactions that stamp updated_at with the time    *)
(* they began.  Socket events, filters and the narrower view of an agent   *)
(* are left out: the catch-up has to do without the socket (inbox-sync.md).*)
(***************************************************************************)
EXTENDS Naturals, FiniteSets

CONSTANTS
  N,            \* number of chats; a chat is its id
  Limit,        \* rows of a page
  Cap,          \* rows a catch-up answers at most
  MaxChanges,   \* bound: transactions that change a chat
  MaxAsks       \* bound: lists and catch-ups the browser asks for

Chats == 1..N
NoCursor == <<>>

VARIABLES
  now,       \* the database's clock
  row,       \* the conversations table
  open,      \* transactions that have begun and not committed
  changes,   \* transactions begun so far
  asks,      \* requests made so far
  browser,   \* what the browser is asking
  since,     \* the mark its next catch-up starts from
  view,      \* the version of each chat it shows
  touched,   \* history: chats changed since the list was begun
  listed,    \* history: how often the list has shown a chat
  upto,      \* history: the versions committed when the last answer was read
  late       \* history: chats with a change that began before the mark and
             \* committed after it, not shown since

vars == <<now, row, open, changes, asks, browser, since, view, touched, listed, upto, late>>

Init ==
  /\ now = 2
  /\ \E e \in [Chats -> 0..1], p \in [Chats -> BOOLEAN] :
       row = [c \in Chats |-> [ver |-> 1, updated |-> 1, epoch |-> e[c], pinned |-> p[c]]]
  /\ open = {}
  /\ changes = 0
  /\ asks = 0
  /\ browser = [at |-> "new", cursor |-> NoCursor, mark |-> 0]
  /\ since = 0
  /\ view = [c \in Chats |-> 0]
  /\ touched = {}
  /\ listed = [c \in Chats |-> 0]
  /\ upto = [c \in Chats |-> 0]
  /\ late = {}

-----------------------------------------------------------------------------
(* A transaction begins, and later changes its row and commits: a message  *)
(* moves the chat to the top, a PATCH pins or unpins it.                   *)

Begins(c, what) ==
  /\ changes < MaxChanges
  /\ changes' = changes + 1
  /\ now' = now + 1
  /\ open' = open \cup {[of |-> c, what |-> what, began |-> now]}
  /\ UNCHANGED <<row, asks, browser, since, view, touched, listed, upto, late>>

Commits(t) ==
  /\ t \in open
  /\ open' = open \ {t}
  /\ row' = [row EXCEPT ![t.of] =
       [ver     |-> @.ver + 1,
        updated |-> t.began,
        epoch   |-> IF t.what = "message" /\ t.began > @.epoch THEN t.began ELSE @.epoch,
        pinned  |-> IF t.what = "pin" THEN ~@.pinned ELSE @.pinned]]
  /\ touched' = touched \cup {t.of}
  /\ late' = IF t.began <= since THEN late \cup {t.of} ELSE late
  /\ UNCHANGED <<now, changes, asks, browser, since, view, listed, upto>>

-----------------------------------------------------------------------------
(* The list, a page at a time.                                             *)

After(c, d) == row[c].epoch < row[d].epoch \/ (row[c].epoch = row[d].epoch /\ c < d)

(* Mutant of Beyond: a cursor of the time alone.                           *)
BeyondTime(c, cursor) == cursor = NoCursor \/ row[c].epoch < cursor[1]

(* The compound cursor is the last row of the page before.                 *)
Beyond(c, cursor) ==
  \/ cursor = NoCursor
  \/ row[c].epoch < cursor[1]
  \/ row[c].epoch = cursor[1] /\ c < cursor[2]

Rest(cursor) == {c \in Chats : ~row[c].pinned /\ Beyond(c, cursor)}

(* The first Limit of them, and the last of a page.                        *)
FirstOf(rest) == {c \in rest : Cardinality({d \in rest : After(c, d)}) < Limit}
LastOf(items) == CHOOSE c \in items : \A d \in items \ {c} : After(c, d)

Shows(S) ==
  /\ view' = [c \in Chats |-> IF c \in S THEN row[c].ver ELSE view[c]]
  /\ listed' = [c \in Chats |-> IF c \in S THEN listed[c] + 1 ELSE listed[c]]

ListBegins ==
  /\ browser.at \in {"new", "reload"}
  /\ asks < MaxAsks
  /\ asks' = asks + 1
  /\ now' = now + 1
  /\ since' = now
  /\ browser' = [at |-> "page", cursor |-> NoCursor, mark |-> 0]
  /\ touched' = {}
  /\ listed' = [c \in Chats |-> 0]
  /\ UNCHANGED <<row, open, changes, view, upto, late>>

Page ==
  /\ browser.at = "page"
  /\ LET rest == Rest(browser.cursor)
         items == FirstOf(rest)
         more == Cardinality(rest) > Limit
         last == LastOf(items)
     IN  /\ Shows(items)
         /\ browser' =
              [browser EXCEPT
                 !.at = IF browser.cursor = NoCursor
                        THEN IF more THEN "pinned" ELSE "pinned_only"
                        ELSE IF more THEN "page" ELSE "listed",
                 !.cursor = IF more THEN <<row[last].epoch, last>> ELSE @]
  /\ UNCHANGED <<now, row, open, changes, asks, since, touched, upto, late>>

(* The first page comes with the pinned chats, which a query of their own  *)
(* reads.                                                                  *)
Pinned ==
  /\ browser.at \in {"pinned", "pinned_only"}
  /\ Shows({c \in Chats : row[c].pinned})
  /\ browser' = [browser EXCEPT !.at = IF @ = "pinned" THEN "page" ELSE "listed"]
  /\ UNCHANGED <<now, row, open, changes, asks, since, touched, upto, late>>

-----------------------------------------------------------------------------
(* The catch-up: the server's time, then the rows changed after the mark.  *)

CatchUpBegins ==
  /\ browser.at \in {"listed", "current"}
  /\ asks < MaxAsks
  /\ asks' = asks + 1
  /\ now' = now + 1
  /\ browser' = [browser EXCEPT !.at = "changes", !.mark = now]
  /\ UNCHANGED <<row, open, changes, since, view, touched, listed, upto, late>>

(* "Taken before the read": the time the browser is told.                  *)
ServerTime(mark) == mark

(* Mutant of Changed: the chats with a newer message.                      *)
ChangedActivity == {c \in Chats : row[c].epoch > since}

Changed == {c \in Chats : row[c].updated > since}

CatchUp ==
  /\ browser.at = "changes"
  /\ IF Cardinality(Changed) > Cap
     THEN /\ browser' = [browser EXCEPT !.at = "reload"]
          /\ UNCHANGED <<since, view, upto, late>>
     ELSE /\ view' = [c \in Chats |-> IF c \in Changed THEN row[c].ver ELSE view[c]]
          /\ since' = ServerTime(browser.mark)
          /\ upto' = [c \in Chats |-> row[c].ver]
          /\ late' = late \ Changed
          /\ browser' = [browser EXCEPT !.at = "current"]
  /\ UNCHANGED <<now, row, open, changes, asks, touched, listed>>

Next ==
  \/ \E c \in Chats, what \in {"message", "pin"} : Begins(c, what)
  \/ \E t \in open : Commits(t)
  \/ ListBegins \/ Page \/ Pinned
  \/ CatchUpBegins \/ CatchUp

Spec == Init /\ [][Next]_vars

-----------------------------------------------------------------------------
TypeOK ==
  /\ since < now
  /\ \A c \in Chats : row[c].updated < now /\ view[c] \in 0..row[c].ver /\ upto[c] \in 0..row[c].ver
  /\ browser.cursor = NoCursor \/ (browser.cursor[1] \in 0..now /\ browser.cursor[2] \in Chats)

(* While pages are read chats move to the top, are pinned and unpinned.    *)
(* The chats nobody touched meanwhile are in the list once, also when many *)
(* have the same time (getConversations' compound cursor).                 *)
PagedOnce ==
  browser.at = "listed" => \A c \in Chats \ touched : listed[c] = 1

(* After a catch-up the browser shows every change that was committed when *)
(* it was answered; the one exception is a change whose transaction began  *)
(* before the mark and committed after it ("a change committed while we    *)
(* query is seen again next time").                                        *)
CaughtUp ==
  browser.at = "current" => \A c \in Chats \ late : view[c] >= upto[c]

(* The catch-up has no such exception: it "returns just the conversations  *)
(* changed after the last sync point", and "nothing relies on the socket". *)
NothingIsMissing ==
  browser.at = "current" => \A c \in Chats : view[c] >= upto[c]
=============================================================================
