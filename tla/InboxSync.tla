----------------------------- MODULE InboxSync -----------------------------
(***************************************************************************)
(* How the shared inbox follows the phone: live events of the number, the  *)
(* pass that runs when the phone connects and every few minutes, and the   *)
(* history that is read when a person opens a chat.  All three end in      *)
(* handleIncomingMessage, which stores a message once.                     *)
(*                                                                         *)
(* A message is its place in what the phone has (its time).  `Alias` is a  *)
(* second address of the people in `Chats`: live events may name it, the   *)
(* phone's own list does not.  Unread counts, names and files are left out.*)
(***************************************************************************)
EXTENDS Naturals, FiniteSets, Sequences

CONSTANTS
  Chats,          \* the chats of the phone's list
  Alias,          \* the chat a live event may be filed under instead
  ChatLimit,      \* how many chats one pass reads again
  MessageLimit,   \* how many messages of a chat one pass reads
  MaxMessages,    \* bound: messages the phone has
  MaxDown,        \* bound: times the number goes down
  MaxFails        \* bound: WhatsApp calls that fail

VARIABLES
  phone,     \* the messages WhatsApp has: chat and who wrote
  up,        \* the number is connected and its events are listened to
  events,    \* live events whose handler has not run
  stored,    \* how each stored message came in
  filed,     \* the chat each stored message is filed under
  raised,    \* automation events recorded per message
  chat,      \* last_active_epoch and the time of last_message, per conversation
  pass,      \* syncSession's progress
  reader,    \* a person's request that reads a chat's history
  moved,     \* history: messages adopted from another chat
  downs,     \* times the number went down
  fails      \* WhatsApp calls that failed

vars == <<phone, up, events, stored, filed, raised, chat, pass, reader, moved, downs, fails>>

Conversations == Chats \cup {Alias}
Messages == 1..Len(phone)
NoRow == [exists |-> FALSE, epoch |-> 0, preview |-> 0]
Idle == [at |-> "idle", known |-> [c \in Chats |-> 0], remote |-> [c \in Chats |-> 0],
         todo |-> {}, batch |-> {}]
NoReader == [at |-> "idle", of |-> Alias, batch |-> {}]

Init ==
  /\ phone = <<>>
  /\ up = TRUE
  /\ events = {}
  /\ stored = <<>>
  /\ filed = <<>>
  /\ raised = <<>>
  /\ chat = [c \in Conversations |-> NoRow]
  /\ pass = Idle
  /\ reader = NoReader
  /\ moved = {}
  /\ downs = 0
  /\ fails = 0

(* What the phone answers: the time of a chat's newest message, and its    *)
(* last n messages.  They are stored the oldest first.                     *)
Of(c) == {m \in Messages : phone[m].chat = c}
Newest(c) == IF Of(c) = {} THEN 0 ELSE CHOOSE m \in Of(c) : \A k \in Of(c) : k <= m
History(c, n) == {m \in Of(c) : Cardinality({k \in Of(c) : k > m}) < n}
Oldest(batch) == CHOOSE m \in batch : \A k \in batch : m <= k

(* Mutant of Touched: the last write is the preview, however old.          *)
TouchedAlways(row, epoch) ==
  [exists |-> TRUE, epoch |-> IF epoch > row.epoch THEN epoch ELSE row.epoch, preview |-> epoch]

(* The row of a conversation when a message of time `epoch` is put in it.  *)
Touched(row, epoch) ==
  [exists  |-> TRUE,
   epoch   |-> IF epoch > row.epoch THEN epoch ELSE row.epoch,
   preview |-> IF row.epoch <= epoch THEN epoch ELSE row.preview]

(* Mutant of Known: only an imported message counts as stored.             *)
KnownImported(m) == stored[m] = "history"

(* A message the table has already is not looked at again.                 *)
Known(m) == stored[m] /= "no"

(* handleIncomingMessage, one transaction.                                 *)
Handle(m, c, how) ==
  IF Known(m) THEN UNCHANGED <<stored, filed, raised, chat>>
  ELSE /\ stored' = [stored EXCEPT ![m] = how]
       /\ filed' = [filed EXCEPT ![m] = c]
       /\ raised' = [raised EXCEPT ![m] = @ + IF how = "live" /\ phone[m].from = "customer"
                                             THEN 1 ELSE 0]
       /\ chat' = [chat EXCEPT ![c] = Touched(@, m)]

-----------------------------------------------------------------------------
(* The phone and its live feed.                                            *)

Arrives(c, from) ==
  /\ Len(phone) < MaxMessages
  /\ phone' = Append(phone, [chat |-> c, from |-> from])
  /\ stored' = Append(stored, "no")
  /\ filed' = Append(filed, c)
  /\ raised' = Append(raised, 0)
  /\ events' = IF up THEN events \cup {Len(phone) + 1} ELSE events
  /\ UNCHANGED <<up, chat, pass, reader, moved, downs, fails>>

(* Handlers are promises of their own: they finish in any order.           *)
Live(m) ==
  /\ m \in events
  /\ events' = events \ {m}
  /\ \E c \in {phone[m].chat, Alias} : Handle(m, c, "live")
  /\ UNCHANGED <<phone, up, pass, reader, moved, downs, fails>>

Down ==
  /\ up
  /\ downs < MaxDown
  /\ up' = FALSE
  /\ downs' = downs + 1
  /\ events' = {}
  /\ pass' = Idle
  /\ reader' = NoReader
  /\ UNCHANGED <<phone, stored, filed, raised, chat, moved, fails>>

Up ==
  /\ ~up
  /\ up' = TRUE
  /\ UNCHANGED <<phone, events, stored, filed, raised, chat, pass, reader, moved, downs, fails>>

-----------------------------------------------------------------------------
(* syncSession: what is known, WhatsApp's list, the list stored row by     *)
(* row, then the history of the chats that were newer than known.          *)

PassBegins ==
  /\ up
  /\ pass.at = "idle"
  /\ pass' = [pass EXCEPT !.at = "list",
                          !.known = [c \in Chats |-> IF chat[c].exists THEN chat[c].epoch ELSE 0]]
  /\ UNCHANGED <<phone, up, events, stored, filed, raised, chat, reader, moved, downs, fails>>

Listed ==
  /\ pass.at = "list"
  /\ pass' = [pass EXCEPT !.at = "merge",
                          !.remote = [c \in Chats |-> Newest(c)],
                          !.todo = {c \in Chats : Of(c) /= {}}]
  /\ UNCHANGED <<phone, up, events, stored, filed, raised, chat, reader, moved, downs, fails>>

(* syncConversations' upsert takes over WhatsApp's time and preview.       *)
Merged(row, epoch) == Touched(row, epoch)

(* Row by row, in whatever order WhatsApp lists them.                      *)
Merge ==
  /\ pass.at = "merge"
  /\ \E c \in pass.todo :
       /\ chat' = [chat EXCEPT ![c] = Merged(@, pass.remote[c])]
       /\ pass' = [pass EXCEPT !.todo = @ \ {c}]
  /\ UNCHANGED <<phone, up, events, stored, filed, raised, reader, moved, downs, fails>>

(* The chats that changed since we last looked, so many of the newest; the *)
(* newest comes first.                                                     *)
Pending ==
  LET newer == {c \in Chats : pass.remote[c] > pass.known[c]}
  IN  {c \in newer : Cardinality({d \in newer : pass.remote[d] > pass.remote[c]}) < ChatLimit}
Current == CHOOSE c \in pass.todo : \A d \in pass.todo : pass.remote[d] <= pass.remote[c]

Chosen ==
  /\ pass.at = "merge"
  /\ pass.todo = {}
  /\ pass' = [pass EXCEPT !.at = "chats", !.todo = Pending]
  /\ UNCHANGED <<phone, up, events, stored, filed, raised, chat, reader, moved, downs, fails>>

(* Messages of the chat that an earlier event filed elsewhere move here.   *)
Adopt(c, ids) ==
  LET strays == {m \in ids : Known(m) /\ filed[m] /= c}
  IN  /\ filed' = [m \in DOMAIN filed |-> IF m \in strays THEN c ELSE filed[m]]
      /\ moved' = moved \cup strays

ReadHistory ==
  /\ pass.at = "chats"
  /\ pass.todo /= {}
  /\ LET h == History(Current, MessageLimit)
     IN  /\ Adopt(Current, h)
         /\ pass' = [pass EXCEPT !.at = "store", !.batch = h]
  /\ UNCHANGED <<phone, up, events, stored, raised, chat, reader, downs, fails>>

Store ==
  /\ pass.at = "store"
  /\ pass.batch /= {}
  /\ LET m == Oldest(pass.batch)
     IN  /\ Handle(m, Current, "history")
         /\ pass' = [pass EXCEPT !.batch = @ \ {m}]
  /\ UNCHANGED <<phone, up, events, reader, moved, downs, fails>>

ChatDone ==
  /\ pass.at = "store"
  /\ pass.batch = {}
  /\ pass' = [pass EXCEPT !.at = "chats", !.todo = @ \ {Current}]
  /\ UNCHANGED <<phone, up, events, stored, filed, raised, chat, reader, moved, downs, fails>>

PassEnds ==
  /\ pass.at = "chats"
  /\ pass.todo = {}
  /\ pass' = Idle
  /\ UNCHANGED <<phone, up, events, stored, filed, raised, chat, reader, moved, downs, fails>>

(* A WhatsApp call that fails: the list ends the pass, a history only      *)
(* skips its chat.                                                         *)
CallFails ==
  /\ fails < MaxFails
  /\ fails' = fails + 1
  /\ \/ /\ pass.at = "list"
        /\ pass' = Idle
     \/ /\ pass.at = "chats"
        /\ pass.todo /= {}
        /\ pass' = [pass EXCEPT !.todo = @ \ {Current}]
  /\ UNCHANGED <<phone, up, events, stored, filed, raised, chat, reader, moved, downs>>

Pass == PassBegins \/ Listed \/ Merge \/ Chosen \/ ReadHistory \/ Store \/ ChatDone \/ PassEnds

-----------------------------------------------------------------------------
(* A person opens a chat with its history, or answers from the inbox.      *)

Opens(c) ==
  /\ up
  /\ reader.at = "idle"
  /\ chat[c].exists
  /\ LET h == IF c = Alias THEN {} ELSE History(c, Len(phone))
     IN  /\ Adopt(c, h)
         /\ reader' = [at |-> "store", of |-> c, batch |-> h]
  /\ UNCHANGED <<phone, up, events, stored, raised, chat, pass, downs, fails>>

Reads ==
  /\ reader.at = "store"
  /\ IF reader.batch = {}
     THEN /\ reader' = NoReader
          /\ UNCHANGED <<stored, filed, raised, chat>>
     ELSE LET m == Oldest(reader.batch)
          IN  /\ Handle(m, reader.of, "history")
              /\ reader' = [reader EXCEPT !.batch = @ \ {m}]
  /\ UNCHANGED <<phone, up, events, pass, moved, downs, fails>>

Next ==
  \/ \E c \in Chats, from \in {"customer", "phone"} : Arrives(c, from)
  \/ \E m \in events : Live(m)
  \/ Down \/ Up
  \/ Pass \/ CallFails
  \/ \E c \in Conversations : Opens(c)
  \/ Reads

(* Handlers and the pass go on; the pass is run again every few minutes.   *)
Fairness ==
  /\ \A m \in 1..MaxMessages : WF_vars(Live(m))
  /\ WF_vars(Up)
  /\ WF_vars(Pass)
  /\ WF_vars(Reads)

Spec == Init /\ [][Next]_vars /\ Fairness

-----------------------------------------------------------------------------
(* Every stored message has a chat, and a row is never ahead of the phone. *)
TypeOK ==
  /\ Len(stored) = Len(phone) /\ Len(filed) = Len(phone) /\ Len(raised) = Len(phone)
  /\ \A m \in Messages : stored[m] \in {"no", "live", "history"} /\ filed[m] \in Conversations
  /\ \A m \in Messages : Known(m) => chat[filed[m]].exists
  /\ \A c \in Conversations : chat[c].epoch \in 0..Len(phone) /\ chat[c].preview \in 0..Len(phone)

(* An automation hears of a customer's message once, and never of one that *)
(* was imported, however the live event, the pass and a person who opens   *)
(* the chat race for it (the unique provider id; inbox-sync.md).           *)
RaisedOnce ==
  \A m \in Messages :
    /\ raised[m] <= 1
    /\ raised[m] = 1 => stored[m] = "live" /\ phone[m].from = "customer"

(* The list's preview is never older than a message the chat itself took   *)
(* in, in whatever order events, imports and stale lists are applied       *)
(* (last_active_epoch <= the message's time in the UPDATE).                *)
PreviewIsNewest ==
  \A m \in Messages : Known(m) /\ m \notin moved => m <= chat[filed[m]].preview

(* The pass repairs whatever the live feed missed: a message the phone has *)
(* is stored in the end, also one sent while the number was down           *)
(* (syncService: "repair anything the live feed missed").                  *)
MissedIsRepaired ==
  \A m \in 1..MaxMessages :
    (m \in Messages) ~> (m \in Messages /\ Known(m))
=============================================================================
