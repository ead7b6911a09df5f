----------------------------------- MODULE MCDesk -----------------------------------
(* What agents work with, in one run: the inbox and the waiting list,      *)
(* attachments and live events, leads, follow-ups, viewings, labels and    *)
(* listings.  A behaviour is one of one part, chosen at the start.         *)
EXTENDS Viewings, Sequences

CONSTANTS
  Off, Servers, Nobody,
  SyncedChats, Alias, ChatLimit, MessageLimit,
  InboxRows, PageRows, CatchUpRows,
  OldFiles, NewFiles, BatchFiles,
  Managers, Ttl, MaxEvents,
  Steps, Rota, NewChats, MaxOpen,
  LabelIds, LabelNames, Absent,
  ListingManagers, ListingAgent, Fields,
  LastTime, MaxMessages, MaxActs, MaxChanges, MaxFaults   \* bounds

ASSUME DeskAssumption ==
  /\ Rota \subseteq Nat \ {0}                             \* ids of users
  /\ "waiting" \notin Agents \cup Managers \cup {Nobody}  \* a lookup's state
  /\ Absent \notin LabelNames                             \* not a name
  /\ IsFiniteSet(Servers) /\ IsFiniteSet(Steps)
  /\ Rota # {} /\ IsFiniteSet(NewChats)
  /\ {MaxEvents, MaxMessages, InboxRows, Ttl} \subseteq Nat
  /\ {MaxActs, MaxChanges, MaxFaults} \subseteq Nat
  /\ {PageRows, BatchFiles} \subseteq Nat \ {0}
  /\ OldFiles \cup NewFiles \subseteq Nat /\ OldFiles # {}
  /\ IsFiniteSet(OldFiles \cup NewFiles)                  \* places in a chat

VARIABLES
  part,
  phone, up, events, stored, filed, raised, chat, pass, reader, moved, downs,
  fails,
  now, viewRow, open, viewChanges, viewAsks, browser, since, viewView,
  touched, listed, upto, late,
  said, awaiting, asked, waitingOwned, recent, waitingClock, person,
  waitingActs, log, waitingSent, pilot, undo, answered, waitingCrashes,
  latest, waits, insight, prep, preparationFaults,
  known, files, live, load, lane, chain, opens, mediaFaults,
  owner, realtimeOwned, cache, lookups, realtimeSent, heard, changing,
  realtimeChanges, realtimeFaults, realtimeClock,
  pipeline, leads, assigned, salesDoing, salesAlone, advanced, salesAsks,
  chats, leadOwner, available, enabled, mode, last, teamServer, turns, byTeam,
  teamActs,
  followUpClock, task, leadOpen, followUpServer, version, told,
  followUpReminded, followUpChanges, followUpCrashes,
  name, links, tags, tx, labelAlone, labelChanges,
  listingRow, checks, listingDoing, edits

S == INSTANCE InboxSync WITH
  Chats <- SyncedChats, MaxDown <- MaxFaults, MaxFails <- MaxFaults
V == INSTANCE InboxView WITH
  N <- InboxRows, Limit <- PageRows, Cap <- CatchUpRows,
  MaxAsks <- MaxAsks + 1, row <- viewRow,
  changes <- viewChanges, asks <- viewAsks, view <- viewView
W == INSTANCE WaitingList WITH
  MaxCrashes <- MaxFaults, owned <- waitingOwned, clock <- waitingClock,
  acts <- waitingActs, sent <- waitingSent, crashes <- waitingCrashes
P == INSTANCE Preparation WITH
  MaxMessages <- MaxMessages + 1, faults <- preparationFaults
M == INSTANCE Media WITH
  Stored <- OldFiles, Messages <- NewFiles, Size <- BatchFiles,
  MaxOpens <- MaxActs, faults <- mediaFaults
R == INSTANCE Realtime WITH
  Users <- Agents \cup Managers, NoOne <- Nobody,
  MaxTime <- LastTime, MaxChanges <- MaxFaults,
  owned <- realtimeOwned, sent <- realtimeSent, changes <- realtimeChanges,
  faults <- realtimeFaults, clock <- realtimeClock
D == INSTANCE Leads WITH
  Members <- Agents, MaxAsks <- MaxAsks + 1,
  doing <- salesDoing, alone <- salesAlone, asks <- salesAsks
A == INSTANCE Assignment WITH
  Members <- Rota, Chats <- NewChats,
  server <- teamServer, acts <- teamActs
F == INSTANCE FollowUps WITH
  People <- Agents, MaxTime <- MaxChanges, MaxCrashes <- MaxFaults,
  clock <- followUpClock, server <- followUpServer,
  reminded <- followUpReminded, changes <- followUpChanges,
  crashes <- followUpCrashes
T == INSTANCE Labels WITH
  Writers <- Requests, Contacts <- Prospects, Labels <- LabelIds,
  Names <- LabelNames, MaxChanges <- 2 * MaxChanges,
  alone <- labelAlone, changes <- labelChanges
H == INSTANCE Properties WITH
  People <- Agents, Managers <- ListingManagers, Agent <- ListingAgent,
  MaxEdits <- MaxChanges + 1, row <- listingRow,
  doing <- listingDoing

sync ==
  <<phone, up, events, stored, filed, raised, chat, pass, reader, moved,
    downs, fails>>
view ==
  <<now, viewRow, open, viewChanges, viewAsks, browser, since, viewView,
    touched, listed, upto, late>>
waiting ==
  <<said, awaiting, asked, waitingOwned, recent, waitingClock, person,
    waitingActs, log, waitingSent, pilot, undo, answered, waitingCrashes>>
preparation == <<latest, waits, insight, prep, preparationFaults>>
media == <<known, files, live, load, lane, chain, opens, mediaFaults>>
realtime ==
  <<owner, realtimeOwned, cache, lookups, realtimeSent, heard, changing,
    realtimeChanges, realtimeFaults, realtimeClock>>
sales ==
  <<pipeline, leads, assigned, salesDoing, salesAlone, advanced, salesAsks>>
team ==
  <<chats, leadOwner, available, enabled, mode, last, teamServer, turns,
    byTeam, teamActs>>
followUp ==
  <<followUpClock, task, leadOpen, followUpServer, version, told,
    followUpReminded, followUpChanges, followUpCrashes>>
label == <<name, links, tags, tx, labelAlone, labelChanges>>
listing == <<listingRow, checks, listingDoing, edits>>
viewing == <<clock, viewings, reminders, doing, reminded, warned, asks>>

syncOff ==
  /\ phone = Off /\ up = Off /\ events = Off /\ stored = Off /\ filed = Off
  /\ raised = Off /\ chat = Off /\ pass = Off /\ reader = Off /\ moved = Off
  /\ downs = Off /\ fails = Off
viewOff ==
  /\ now = Off /\ viewRow = Off /\ open = Off /\ viewChanges = Off
  /\ viewAsks = Off /\ browser = Off /\ since = Off /\ viewView = Off
  /\ touched = Off /\ listed = Off /\ upto = Off /\ late = Off
waitingOff ==
  /\ said = Off /\ awaiting = Off /\ asked = Off /\ waitingOwned = Off
  /\ recent = Off /\ waitingClock = Off /\ person = Off /\ waitingActs = Off
  /\ log = Off /\ waitingSent = Off /\ pilot = Off /\ undo = Off
  /\ answered = Off /\ waitingCrashes = Off
preparationOff ==
  /\ latest = Off /\ waits = Off /\ insight = Off /\ prep = Off
  /\ preparationFaults = Off
mediaOff ==
  /\ known = Off /\ files = Off /\ live = Off /\ load = Off /\ lane = Off
  /\ chain = Off /\ opens = Off /\ mediaFaults = Off
realtimeOff ==
  /\ owner = Off /\ realtimeOwned = Off /\ cache = Off /\ lookups = Off
  /\ realtimeSent = Off /\ heard = Off /\ changing = Off
  /\ realtimeChanges = Off /\ realtimeFaults = Off /\ realtimeClock = Off
salesOff ==
  /\ pipeline = Off /\ leads = Off /\ assigned = Off /\ salesDoing = Off
  /\ salesAlone = Off /\ advanced = Off /\ salesAsks = Off
teamOff ==
  /\ chats = Off /\ leadOwner = Off /\ available = Off /\ enabled = Off
  /\ mode = Off /\ last = Off /\ teamServer = Off /\ turns = Off
  /\ byTeam = Off /\ teamActs = Off
followUpOff ==
  /\ followUpClock = Off /\ task = Off /\ leadOpen = Off
  /\ followUpServer = Off /\ version = Off /\ told = Off
  /\ followUpReminded = Off /\ followUpChanges = Off /\ followUpCrashes = Off
labelOff ==
  /\ name = Off /\ links = Off /\ tags = Off /\ tx = Off /\ labelAlone = Off
  /\ labelChanges = Off
listingOff ==
  /\ listingRow = Off /\ checks = Off /\ listingDoing = Off /\ edits = Off

(* The variables of a part that does not run are Off.                      *)
InitMC ==
  /\ part \in {
       "viewing", "sync", "view", "waiting", "preparation", "media",
       "realtime", "sales", "team", "followUp", "label", "listing"}
  /\ Init
  /\ IF part = "sync" THEN S!Init ELSE syncOff
  /\ IF part = "view" THEN V!Init ELSE viewOff
  /\ IF part = "waiting" THEN W!Init ELSE waitingOff
  /\ IF part = "preparation" THEN P!Init ELSE preparationOff
  /\ IF part = "media" THEN M!Init ELSE mediaOff
  /\ IF part = "realtime" THEN R!Init ELSE realtimeOff
  /\ IF part = "sales" THEN D!Init ELSE salesOff
  /\ IF part = "team" THEN A!Init ELSE teamOff
  /\ IF part = "followUp" THEN F!Init ELSE followUpOff
  /\ IF part = "label" THEN T!Init ELSE labelOff
  /\ IF part = "listing" THEN H!Init ELSE listingOff

NextMC ==
  /\ UNCHANGED part
  /\ IF part = "viewing" THEN Next ELSE UNCHANGED viewing
  /\ IF part = "sync" THEN S!Next ELSE UNCHANGED sync
  /\ IF part = "view" THEN V!Next ELSE UNCHANGED view
  /\ IF part = "waiting" THEN W!Next ELSE UNCHANGED waiting
  /\ IF part = "preparation" THEN P!Next ELSE UNCHANGED preparation
  /\ IF part = "media" THEN M!Next ELSE UNCHANGED media
  /\ IF part = "realtime" THEN R!Next ELSE UNCHANGED realtime
  /\ IF part = "sales" THEN D!Next ELSE UNCHANGED sales
  /\ IF part = "team" THEN A!Next ELSE UNCHANGED team
  /\ IF part = "followUp" THEN F!Next ELSE UNCHANGED followUp
  /\ IF part = "label" THEN T!Next ELSE UNCHANGED label
  /\ IF part = "listing" THEN H!Next ELSE UNCHANGED listing

all == <<
  part, viewing, sync, view, waiting, preparation, media, realtime, sales,
  team, followUp, label, listing>>

SpecMC == InitMC /\ [][NextMC]_all

(* The type invariant of the part that runs. *)
TypeOKMC ==
  CASE part = "viewing" -> TypeOK
    [] part = "sync" -> S!TypeOK
    [] part = "view" -> V!TypeOK
    [] part = "waiting" -> W!TypeOK
    [] part = "preparation" -> P!TypeOK
    [] part = "media" -> M!TypeOK
    [] part = "realtime" -> R!TypeOK
    [] part = "sales" -> D!TypeOK
    [] part = "team" -> A!TypeOK
    [] part = "followUp" -> F!TypeOK
    [] part = "label" -> T!TypeOK
    [] part = "listing" -> H!TypeOK

(* A message that came in is announced once, whichever of the live event,  *)
(* the sync and the other server stores it, and a follow-up reminds once   *)
(* for each time it is due (InboxSync.RaisedOnce, FollowUps.RemindedOnce). *)
SaidOnce ==
  /\ part = "sync" => S!RaisedOnce
  /\ part = "followUp" => F!RemindedOnce

(* What is read page by page is complete: an agent's list that caught up   *)
(* holds every change, and no attachment of an opened chat is passed over  *)
(* (InboxView.CaughtUp, Media.ChatIsLoaded).                               *)
PagesMissNothing ==
  /\ part = "view" => V!CaughtUp
  /\ part = "media" => M!ChatIsLoaded

(* What Autopilot sent and a teammate took back is not on the customer's   *)
(* phone, unless its outcome was unknown (WaitingList.TakenBack).          *)
TakenBack == part = "waiting" => W!TakenBack

(* What is kept beside a row follows the row: a prepared reply its         *)
(* message, what may be offered the listing, a contact's tags its labels   *)
(* (Preparation.InsightIsCurrent, Properties.OfferedIsReady,               *)
(* Labels.TagsFollow).                                                     *)
ShownAsItIs ==
  /\ part = "preparation" => P!InsightIsCurrent
  /\ part = "listing" => H!OfferedIsReady
  /\ part = "label" => T!TagsFollow

(* A browser hears the events of a chat in the order they were sent,       *)
(* however long the look for the chat's owner takes                        *)
(* (Realtime.HeardInOrder).                                                *)
HeardInOrder == part = "realtime" => R!HeardInOrder

(* A contact has one open lead at most, whatever is created and reopened   *)
(* at once (Leads.OneOpenLead).                                            *)
OneOpenLead == part = "sales" => D!OneOpenLead

(* New chats go round the team in turn, also when two servers hand out at  *)
(* once (Assignment.TurnsAreEven).                                         *)
TurnsAreEven == part = "team" => A!TurnsAreEven
=============================================================================
