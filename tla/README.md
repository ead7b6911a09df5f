# TLA+ specifications of wppflow-backend

Models, model-checking runs and machine-checked proofs of the parts of this backend whose correctness depends on *when*
things happen: a message accepted by the API and sent by a WhatsApp browser, the receipts that come back, a broadcast, a
payment that three callers may settle at once, a refresh token presented by two tabs, two bookings of one agent, an
assistant that thinks while a person replies. Paths are relative to the repository; `mq` is
`src/services/queue/messageQueue.js`, `ms` is `src/services/messageService.js`, `bs` is `src/services/billingService.js`.

## 1. The system

One Node process (`src/server.js`) serves an HTTP API, holds WebSocket connections, drives one Chromium per WhatsApp
number (WPPConnect), and runs timers. PostgreSQL keeps everything that must survive; Redis holds a BullMQ queue that
may be lost at any time. More than one process may run against the same database (a rolling deployment, a second
worker). Nothing is locked in memory across processes: what coordinates them is row locks, advisory locks, conditional
`UPDATE`s, unique indexes and a lease column, at READ COMMITTED.

| Component | State | Hard behaviours | Module |
|---|---|---|---|
| Outbox dispatcher (`mq`, `ms`) | `messages`, `outbox_events`, BullMQ jobs, each run's memory | crash between any two statements, stalled jobs, lost Redis, failing statements, deletes | `OutboundDispatch`, `MessageLife` |
| Receipts and echoes (`ms`) | `messages.ack/status`, `early_receipts`, the echo's row | out of order, duplicated, before the send has answered | `ReceiptReconciliation` |
| Broadcasts (`campaignService.js`) | `campaigns`, `campaign_recipients`, `consents` | three transactions per person, crash between them | `CampaignPump` |
| Outgoing webhooks (`webhookService.js`) | `webhook_deliveries`, `webhook_endpoints` | processes that stop or overtake each other | `WebhookDelivery` |
| WhatsApp numbers (`sessionService.js`, `WhatsAppProvider.js`) | the lease, timers, browsers | every call asynchronous, events of ended browsers | `SessionLease` |
| Inbox (`syncService.js`, `conversationService.js`) | `conversations`, `messages`; the browser's list | live events against sync, commits out of order | `InboxSync`, `InboxView` |
| Waiting list, Autopilot, preparation (`autopilotService.js`, `aiPrepService.js`) | `autopilot_log`, `ai_insights` | undo against the dispatcher, stale preparation | `WaitingList`, `Preparation` |
| Automatic chats (`automationService.js`, `autoChat.js`, `handoffService.js`) | events, executions, held chats | a model that thinks for seconds, retries | `Assistant` |
| Workflows (`services/workflow/`) | `automation_chats` plan and keys | what failed is done again | `Workflow` |
| Leads, assignment, follow-ups (`leadService.js`, `assignmentService.js`) | leads, stages, turns, tasks | unlocked read-then-write, two servers | `Leads`, `Assignment`, `FollowUps` |
| Real estate (`solutions/real-estate/`) | viewings, listings, leak alerts | bookings at once, two scanners | `Viewings`, `Properties`, `Alerts` |
| AI router (`services/ai/`, `aiService.js`) | allowance, cooldowns in memory | counters read before an await | `AiRouter`, `OpenRouter` |
| Knowledge base (`knowledgeService.js`) | sources, pages, the profile | two servers and the owner at one site and one profile | `Knowledge` |
| Media, avatars | attachments, lanes per number | two fetchers of one file, questions given up | `Media`, `Avatars` |
| Realtime, number health | sockets, owner cache; notices | look-ups that overtake events; two servers tell | `Realtime`, `NumberHealth` |
| Accounts (`authService.js`, `passwordReset.js`, ...) | users, refresh tokens, links | rotation against revocation | `SignIn` |
| Teams (`authRoutes.js`, `server.js`) | members, invitations, sockets | authorised by one query, done by the next | `Team` |
| Billing (`bs`, `razorpay.js`) | orders, payments, autopay, the gateway | three ways to learn of one payment, late events | `PaymentSettlement`, `Autopay`, `Quotes` |
| Website purchases (`websiteCheckout.js`) | orders before there is a company | an account made meanwhile | `WebsiteOrders` |
| Subscriptions and plans (`subscriptionService.js`, `plans.js`) | plan, period, reminders; copies in memory | timers against payments, stale copies | `SubscriptionPeriods`, `PlanEditing` |
| Contacts and labels (`labelService.js`) | labels, links, `contacts.tags` | a copy computed before a lock is had | `Labels` |
| Migrations (`db/migrate.js`) | `schema_migrations`, an advisory lock | overlapping deploys of two releases | `Migrate` |
| Timers, mail, reports, administration, rate limits | | no state of their own beyond a statement | none |

How they interact. The API, automations, Autopilot and broadcasts create messages through `sendTextMessage`, which
writes the message and its outbox row in one transaction; only the dispatcher calls the provider; the provider's events
come back through the callbacks `startTenantSession` registered, and end in `handleIncomingMessage` and
`handleAckEvent`. A message of a customer leaves an automation event that a pump takes up; the rules, the assistant and
the workflow executor answer through the outbox. A receipt records webhooks in its own transaction; the dispatcher's
recovery reads the number's lease; a broadcast's dispatch reads the recipient's link and consent. Payments reach a
company's period through `settleOrder`; a timer ends periods and applies smaller plans.

What makes each correct, in a line: a message leaves once and its outcome is shown; receipts move a message forward only
and none is lost; a broadcast reaches each opted-in person once, and ends; a delivery is posted at most so often, and
settles; a number is open in one browser; the inbox holds each message once; nothing is said over a person; a rule's
steps happen once; a contact has one open lead; an agent is in one place at a time; a token family has one living
token and none outlives a change of password; a payment is recorded once, against captured money; paid time is kept.

## 2. Modules

The granularity is the same everywhere. An action is one database statement, one committed transaction, or one call to
the outside, because an `await` lies between any two of them; a transaction is one action where its locks keep others out
of the rows it reads and writes, and several where READ COMMITTED lets others in. A handler that reads first and writes
later keeps what it read in a program-counter record (`run`, `call`, `req`, `doing`, `server`, ...). Clocks, rests and
cooldowns are actions of their own that may come at any time, except where a property compares times. Texts, names and
payloads are left out or are model values. Counters that only bound a run are named `Max...` and stand in guards.
Definitions carry the names of the code where there is one; `PROJECT.json` maps each to its lines. Operators introduced
by the comment "Mutant" are plausible bugs, used only to show that a property can fail.

| Module | State beyond the obvious | Actions | Left out |
|---|---|---|---|
| `OutboundDispatch` | `aged`: older than two minutes; `job`: the BullMQ job; `pub`, `run[slot]`: program counters; `sends`: what the phone got (history) | accept, `PublishTick/Add/Mark`, `ClaimLock/Commit`, `Send`, `Result`, `Confirm`, `Post`, `FailMsg/Box`, recovery, deletes, upsets (crash, shutdown, fault, stalled job, Redis loss, dropped number) | quoting, typing simulation, upload checks |
| `MessageLife` | the abstract life of a message: what is `shown`, whose `hand` it is in, how many `copies` WhatsApp has | `Accept`, `Take`, `Give`, `PutBack`, `Settle` | how |
| `ReceiptReconciliation` | `rows["own"]`, `rows["echo"]`, `ev[h]`: event handlers; `stored`, `reported`: history | the statements of `handleAckEvent`, `AckUnblocked` (re-check of a row after its lock), echo, revocation, the confirming merge | previews, webhooks raised |
| `CampaignPump` | `rec`, `linked`, `stale`; `recent`, `cooling`: pauses | claim, send, link, tally; dispatch branch with any ack, `Receipt`, breaker; start, pause, stop, consent, renamed person | audience, monthly limit |
| `WebhookDelivery` | `pump[w]`: the batch and the attempts it read; `posts`: history | record, sweep, claim, POST, settle, disable, stop | signing, address checks |
| `SessionLease` | `row`: the lease; `owned`: timers; `entry`: session map; `att`: every browser launched | start, close, renewal, status events, crash, takeover | pairing, removal |
| `InboxSync` | `phone`, `chat`, `pass`, `reader`; `raised`: events announced | live event, sync pass, history of an opened chat, second address merged | names, files, unread |
| `InboxView` | `open`: transactions with their time; `browser`, `since`, `view` | begin/commit with an earlier stamp, pages, catch-up | filters, sockets |
| `WaitingList` | `pilot` per server, `undo`; of each reply `way`: outbox, on the wire, given up, lost, out; `unsure`: its outcome was unknown, `blind`: it was when it was taken back | Autopilot's pass, undo, the dispatcher's outcomes, people | daily limit |
| `Preparation` | `insight`, `prep` per server | claim, ask, keep, crash | wording |
| `Media` | `load`, `lane`, `chain` per server | open one, load a chat, live event's own copy | drivers, thumbnails |
| `Avatars` | `tail`, `waiting`, `kept` | look-up, lane, time-out | |
| `Realtime` | `cache` with age, `lookups`, `sent`, `heard` | raise, look up owner, answer, owner changes | rooms by category |
| `Leads` | `doing[r]`: what a request read | create, owner, step, advance by rule, pipeline | ranks, timeline |
| `Assignment` | `turns`: history | choose (locked), give (later), team changes | hours, coverage |
| `FollowUps` | `version`, `told` | warning, reminder, escalation, edits | daily report |
| `Viewings` | `doing[r]`, `reminders` | lock, check, insert, rewrite, end, confirm | texts |
| `Labels`, `Properties` | the statement's snapshot; the row a request read | add, set, rename, delete, resync; edit, verify, offer | |
| `Assistant` | `pump[p]`, `hold`, `quiet`: answered by a person (history) | event pump, rules, model turn, `personGuard`, hand-off, retry | time limits |
| `Workflow` | first part: drafts, `cleanWorkflow`, `run`, `begin`, `resume` as operators; then `chat` and its written plan | plan, do, count, save, fail, retry | the compiler from a description |
| `AiRouter`, `OpenRouter` | counters in memory, requests under way with the line of providers each goes along | reserve, route, answer, fail, rest; list, rank, pause | prompts |
| `Knowledge` | `job` per server and of the owner's removals, `kept` pages; `latest`: where the newest look at the pages is (history) | add, refresh, remove, claim, read, keep page by page, ready, rebuild, fail at any statement, crash | HTML, three reads at a time, sixty pages |
| `SignIn` | `spared`: tokens that escaped a revocation (history) | sign-up, sign-in, rotation, reuse, logout, links, change, reset: read, revoke, commit | rate limits beyond links an hour |
| `Team` | `call`, `socket` | invite, accept, change, remove, handshake, timer | categories |
| `PaymentSettlement` | `pay`: the gateway, `call`, `age`, `ledger` | checkout, report, webhook, reconciliation, `Settle`, expiry | tax, invoices |
| `Autopay` | `gw`: the gateway's side, `event` | set up, verify, cancel, charge, events | amounts |
| `Quotes` | pure: `quoteFor`, `computeTax`, `addCycle`; a company that renews and upgrades | | yearly cycles |
| `WebsiteOrders` | `settling`: statement by statement | click, order, pay, settle, expire | mails |
| `SubscriptionPeriods` | `pump` per server with its list; `missed`: allowance | job, payments, scheduled changes, trial | suspended companies, typed dates, annual cycle, plan `legacy` |
| `PlanEditing` | copies per server | load in two queries, edit, save whole row, buy | |
| `Alerts`, `NumberHealth` | `scan`/`work` per server | find, tell, close; judge, tell | |
| `Migrate` | `holder`: advisory lock | lock, read, apply, roll back, stop | contents |

Five modules run instances. `MCOutboundDispatch`, `MCDesk`, `MCMoney`, `MCPeople` and `MCSettle` each instantiate several
components side by side: `part`, chosen at the start, says which one runs, the others keep still (their variables are
`Off`, or stay in one initial state). The components of one MC module do not interact in the code's tables, so nothing is
lost by keeping their behaviours apart, and a property about one of them reads `part = ... => M!Property`.

## 3. Runs

Every configuration says `CHECK_DEADLOCK FALSE`: when all bounded counters are spent, everything rests.

| Run | Properties | Shows |
|---|---|---|
| `outbound` | `AtMostOnce` `DispatchExclusive` `ImplementsLife`; `SingleBrowser` | a message is sent once, one at a time per number, and lives as `MessageLife` says; beside it, one browser per number, and every browser is watched |
| `outbound_live` | `EventuallyHanded` | no message waits for ever while its number stays connected |
| `receipts` | `StatusMatchesAck` `EarlyAckApplied` `LevelNeverFalls` | three handlers, statement by statement, against the confirming transaction |
| `campaign` | `SentIsCounted` `CompletedIsHandled` `CampaignFinishes` | what was sent is counted; a broadcast ends, and not too early |
| `desk` | `TypeOKMC` `SaidOnce` `PagesMissNothing` `TakenBack` `ShownAsItIs` `HeardInOrder` `OneOpenLead` `TurnsAreEven` `NeverTwiceAtOnce` | what agents work with, twelve parts |
| `money` | `RecordedOnce` `HandledIsApplied` `ChargedOnce` `StrangersStayOut` `InStep` `PaidTimeKept` | payments, periods, autopay, website purchases, quotes, migrations |
| `people` | `OldSessionsEnd` `OneHeir` `OncePerTurn` `AllowanceKept` `ProfileIsCurrent` `NeverTalkedOver` `AskedInTurn` | sessions, assistant, workflow, router, knowledge |
| `deliveries` | `PostsAreBounded` `EveryDeliverySettles` `AlertsGoAway` | deliveries are bounded and settle; alerts close |
| `settle` | `CapturedSettles` `TroubleIsTold` `CachesCatchUp` `CutOff` | what must happen in the end |
| `outbound_ack_zero`, `credit_lost`, `website_second_company` | `AtMostOnce`, `EveryDayIsCredited`, `NoSecondCompany` | violations: section 4 |

Parts and properties. `desk`: `SaidOnce` (`InboxSync.RaisedOnce`, `FollowUps.RemindedOnce`), `PagesMissNothing`
(`InboxView.CaughtUp`, `Media.ChatIsLoaded`), `TakenBack` (`WaitingList`), `ShownAsItIs`
(`Preparation.InsightIsCurrent`, `Properties.OfferedIsReady`, `Labels.TagsFollow`), `HeardInOrder` (`Realtime`),
`OneOpenLead` (`Leads`), `TurnsAreEven` (`Assignment`), `NeverTwiceAtOnce` (`Viewings`). `money`: `PaidTimeKept`
(`SubscriptionPeriods.KeepsPaidPeriod`, `Quotes.Earned`). `people`: the parts `turns` (one process, two messages) and
`race` (two processes, one message) are both `Assistant`; `AskedInTurn` is `AiRouter.LastOnly` and
`OpenRouter.SpreadsAsks`; `ProfileIsCurrent` runs as `learning` (one website that changes) and `sites` (two that do not). `settle`: `CachesCatchUp` is `PlanEditing.CachesCatchUp` and `Avatars.LookupsEnd`.

Bounds, and why they are enough. Values are in the `.cfg` and, for the parts, in the `INSTANCE`s of the MC module.

- `outbound`: two messages of one number and two slots are the smallest instance in which two jobs of one message, and two
  messages of one number, compete; one upset of any kind can hit any point of a run, and two in a row only restart
  from states one already reaches; two sends are one more than allowed. The browser part has two workers and two
  launches: a start and a takeover, with one crash, drop, close and failed renewal. It runs twice: with calls of a worker that do not
  overlap (one browser), and with overlapping ones (`BrowserIsWatched`).
- `receipts`: three events cover two that race the confirmation with one before it. Acks are -1..3 (4, "played", is shown
  like 3). Handlers run the same code, hence the symmetry.
- `campaign`: three people, one with a text that is refused, batch 2, breaker 2: a batch that ends, a last one, one set
  aside, and "counts" against "trips". One pump, because one process runs one `pumpCampaigns` at a time
  (`domainJobs.js` skips a tick while the last runs); `CompletedIsHandled` needs that, the other properties do not and are
  proved for any number of pumps.
- `deliveries`: two attempts tell a first, a last and a swept-up one apart; two processes, one stop.
- `desk`: two chats, members, leads, requests or servers each, the smallest number that compete; three messages where an
  order matters (`Preparation`, `Realtime`), page size 1 of three rows (`PageRows`, `InboxRows`; `BatchFiles` of `OldFiles`), so that
  a page boundary falls between any two; times up to the longest interval compared; one crash or fault per part. `Leads` runs three requests' worth of
  asks over two steps; `Assignment` two members and two chats, so that a turn can be skipped and made up.
- `money`: two orders, two plans, two payments, one web request against the reconciliation job, one call cut off: the
  smallest pair of callers that settle one order and the smallest set in which periods follow each other. Four days are a
  period, its grace and its reminder. Three releases overlap in `Migrate`. `Quotes` runs over months of 28 to 31 days, a
  leap year's end, prices that do not divide.
- `people`: three requests of one person (one that checks, one that changes, one that rotates), three tokens, two links;
  two providers' worth of refusals; OpenRouter's models of two makers, one of which has two, in a line of three, so that
  a maker comes again; three requests, or two that meet three failures, so that one whose first provider failed meets others at
  rest, and one that found all at rest goes along them; one website that changes once, read by either server, or two that do not, each with
  a server of its own, with one failure, slow read or crash; drafts of two steps, which is every shape the executor distinguishes.
- `settle`: one order that grows old with a payment of a wrong amount beside the right one; two servers; three people.

Symmetry is used for slots in safety runs only.

Fairness. `setInterval` timers fire (publisher, pumps, recovery, renewal, membership timer, plan reload), time passes,
statements and provider calls return (sends are raced against a time-out, POSTs against five seconds), a crashed process
is restarted by its supervisor. Strong fairness is asked of five things only: a row is in the selection of some tick
again and again (`retry_at` is ten seconds ahead of the last attempt, ticks come every two); BullMQ hands out a job that
keeps coming back; an eligible campaign message is claimed when it can be again and again; the reconciliation comes
round to each due order (it takes the twenty oldest, so this assumes no more than twenty are due at once); and
some server takes an alert's scan up again and again. `outbound_live` has one slot: with more, a claim could for ever
meet the try-lock held by the job of a deleted message, which only strong fairness of the lock rules out, and PostgreSQL's
try-lock promises none. Crashes are left out of it because they do block a number (section 4). In the checkout part of
`settle` nothing but the job is relied upon, neither webhooks nor browsers.

Assumptions inside properties. `EarlyAckApplied` speaks of positive receipts since the last one that was not: `LEAST`
lets a late 0 or an error replace a stored level. `CampaignFinishes` excepts a message with an unknown outcome, which keeps
the campaign open by design, a message confirmed with ack 0 as long as no receipt comes for it (`mq:150` leaves it `sending`
with its outbox row done, and `campaignService.js:260` waits for it), and a text that changed after its message was made,
whose retry is a conflict for ever. `TakenBack` excepts a reply whose outcome was unknown when it was taken back. `ProfileIsCurrent`
excepts three ways to lose the newest look at the pages (section 4). `OncePerTurn` excepts a turn that broke off between a step and
its count, and one whose written plan was replaced.
`EveryDeliverySettles` excepts a delivery put back to `retry` by an overtaken process after its attempts were used up.
`CapturedSettles` speaks of payments captured before the order's `expires_at` and not while its last list of payments is
being worked off, within the three days the job looks back. `OldSessionsEnd` excepts `spared` tokens: issued or rotated
while a revocation ran, by a sign-in that had checked the old password, through an access token (`switch-tenant`), or
when the change was cut off before its revocation. `PagesMissNothing` excepts transactions older than the catch-up's
overlap. `SingleBrowser` assumes that a worker finishes one start or close of a number before the next, and that a start waits for
the status events of the previous browser; the code has neither queue, and without them it is false (section 4). A lease of
45 seconds outlives a 10-second renewal, unless its holder stands still.

More properties are stated in the modules than the runs check; they held when their module was checked by itself, and
the ones marked * are proved (section 5):
`RunningBelowBreaker`*, `BatchesRest`*, `AttemptsAreOwned`*, `FailedIsSpent`*, `OutcomeStands`, `RecordedIsCaptured`*,
`SettledStays`*, `NoPeriodLost`*, `PreviewIsNewest`, `PagedOnce`, `LeadsHaveSteps`, `OwnersAgree`, `TeamDecides`, `RemindedAnew`,
`EndedStays`*, `AnnouncedOnce`, `ToldPerServer`, `FormerOwnerIsLeftOut`, `LinkWorksOnce`*, `AdminsByOwner`,
`LapseIsTold`, `OneCharging`, `PartsAddUp`*, `AnsweredOnce`, `PromiseKept`, `CountedOnce`, `NobodyMissed`, `Onward`,
`FirstIsDisclosed`, `LastResortIsTried`, and each module's `TypeOK`.

## 4. What the code does otherwise

Three runs end in a violation of what the repository says; `PROJECT.json` quotes it.

- `outbound_ack_zero` (`AtMostOnce`): a send confirmed with ack 0 returns to `sending`, which the claim takes again.
- `credit_lost` (`EveryDayIsCredited`): after an early renewal `tenants.period_start` lies in the future; a move to a
  dearer plan then credits nothing of the days left of the current period.
- `website_second_company` (`NoSecondCompany`): an account made between the settlement's look and
  `createCompanyIn`'s own one gets a second company.

The following are stated as properties, and TLC finds them false; put the property into a configuration of its module to
see the trace.

| Property | What the repository says | What happens |
|---|---|---|
| `OutboundDispatch.InterruptedDispatchResolves` | "recoverable outbox and receipts" (`docs/implementation-plan.md:9`) | `mq:314`: after a restart the number renews its lease, recovery waits for it to have none, and the interrupted row blocks the number |
| `ReceiptReconciliation.ReportedAckShown` | "early-ACK [...] reconciliation" (`README.md:32`) | `ms:519`: a receipt is stored as early after the early ones were collected |
| `SessionLease.SingleBrowser` with `LateEvents` | "leases prevent a second worker owning the same browser" (`README.md:45`) | `sessionService.js:148`: a late DISCONNECTED gives up the lease of the next browser |
| `SessionLease.SingleBrowser` with `Overlap` and two `Calls` | the same | `sessionService.js:234`: a close that is still writing gives up the lease of a start that came meanwhile |
| `InboxSync.MissedIsRepaired` | "repair anything the live feed missed" (`syncService.js`, `docs/architecture/inbox-sync.md:23`) | `syncService.js:98`: what came while the number was down is skipped when the chat looks up to date |
| `InboxView.NothingIsMissing` | "nothing relies on the socket" | a transaction that began before the overlap commits unseen |
| `WaitingList.NotTalkedOver` | `personGuard.js:3`, `tests/auto-guards.test.js:25` | Autopilot looks before it writes, not after |
| `Leads.NeverBack` | `docs/sales-assistant.md:20` | `leadService.js:389`: a rule writes over a step a person has chosen meanwhile |
| `FollowUps.NewTimeReminds` | `tests/leads.test.js:258` | `leadService.js:536`: a claim in between marks the new time as told |
| `Viewings.WarnedAnew` | `tests/real-estate-viewings.test.js:206` | `viewings.js:258` does not reset `upcoming_notified_at` |
| `Alerts.SilenceIsADay` | `tests/real-estate-leaks.test.js:161` | `leaks.js:154`: two days can pass in silence |
| `Workflow.FollowUpOnce` | `tests/workflow-engine.test.js:305` | a new message replaces the written plan, and the old turn's steps repeat |
| `AiRouter.AllowanceHolds` | `aiService.js:185`, `tests/ai-assistant.test.js:306` | requests given back after midnight raise today's allowance |
| `OpenRouter.PauseStopsRequests`, `WithinTheMinute` | `openRouter.js:7-19` | asks under way go on; requests counted late pass the limit |
| `Labels.OneName`, `TagsAreLabels` | `labelService.js:5`, `tests/labels-and-names.test.js:208` | a copy computed before the row was free |
| `Knowledge.ProfileFollows` | `knowledgeService.js:218` | two rebuilds cross, the earlier one stays; or a read breaks off after it has changed pages, and the next one finds them unchanged and writes no profile |
| `Knowledge.OneReader` | "two servers never read the same one" (`knowledgeService.js:45`) | a website added again (`:23`), or read for ten minutes (`:227`), is queued and claimed while it is read |
| `NumberHealth.OncePerCooldown` | `numberHealth.js:158` | each server tells |
| `Avatars.OneRequestAtATime` | `avatarService.js:13` | the lane goes on when a question is given up, the question too |
| `Properties.AvailableIsChecked` | `properties.js:230` | a check of an older row is written over |
| `PlanEditing.PlanIsKept` | `plans.js:87`, `tests/website-checkout.test.js:349` | a renamed plan leaves its companies behind |

Met while modelling, without a property of their own:

- Messages. When the second statement of the `catch` in `dispatchMessage` fails, the outbox row stays `dispatching` and
  nothing offers it again (`mq:204`). `deleteMessage` acts on the row it read before it asked WhatsApp: a message sent
  meanwhile is shown deleted and stays on the phone. A deleted message that was never sent is offered every ten seconds
  for ever. Rows of disconnected numbers fill the 100 rows a tick selects (`mq:251`). An echo inserted between the look
  and the merge makes the confirmation fail, and a sent message is shown "uncertain" (`mq:133`).
- Broadcasts. A message created but not yet linked when the pump stopped is cancelled (`campaignService.js:227`). Pausing
  and starting a completed broadcast revives it; a tripped breaker turns a stopped one into a paused one. A message confirmed
  with ack 0 keeps its broadcast open until a receipt comes, and if none does, for ever (`campaignService.js:260`).
- Inbox. Previews set by `syncConversations` carry no id; a revocation handled before its message is lost until the next
  sync; history that wins against the live event suppresses automations and webhooks; a stale sync snapshot restores a
  cleared badge; an agent's catch-up never learns that a chat left the agent's scope.
- Assistants. A reply of Autopilot that is `uncertain` can be taken back (`autopilotService.js:218`); it has no id, so WhatsApp is not
  asked to delete it (`ms:774`), and it may remain on the phone, shown as taken back: `TakenBack` without its exception; two servers can prepare one
  message twice; Riwo answers after the customer asked for a person; two rules answer one message when the earlier fails;
  a plain hand-off's tasks have no key and repeat with a retry; a crash leaves `ai_insights` in `working`.
- Work. `updateLead` computes a change from a stale row; owners can cross when assign and update race; two concurrent
  `saveStages` leave an open step after Won; `max_open` can be exceeded by two servers; a viewing can be booked with a
  lead closed since the check. A claimed daily report whose process crashes is never sent.
- Files and live events. Two servers, or a server and the live event, can each insert a ready attachment; `fetchMedia` has
  no time-out; after `forgetSessionOwner` a look-up under way restores the former owner for 15 seconds.
- Accounts. `switch-tenant` with an old access token is issued a fresh refresh token after a reset; the revocation of a
  change of password is a statement of its own; a lost refresh answer looks like reuse; two concurrent requests can leave
  two living links; seats are counted when inviting only; a demoted manager whose handshake raced stays in the managers'
  room until the token ends.
- Money. An order for a smaller plan, made when no period ran and paid after a bigger plan was bought, replaces it
  (`bs:99` refuses that at the checkout only). A double click can make two orders (`bs:191`). A payment captured after the
  last check of an expired order, with its webhook lost, is not found (`bs:605`). A late `subscription.activated`
  resurrects a cancelled autopay row (`bs:799`). A crash after a settlement loses the mails and the end of autopay
  (`bs:466`). A retry after a declined card makes a second website order (`websiteCheckout.js:86`).

## 5. Proofs

TLC checks the instances above; TLAPS proves the following for every value of the constants that satisfies the modules'
`ASSUME`s: messages are numbers and every message has a number to leave from; `Early` is not an ordinary handler; limits
are natural numbers, `Workers` is finite; there is a plan to begin with; `NoKey` is no viewing's id; users have positive ids,
servers are finite, and no person or label is named like a state of the model; prices, rates and the lengths of cycle and trial
are natural numbers, first days are dates of the calendar, and `None` is no migration run; the steps of a draft and the messages
of a chat are counted; `Clients` is finite, the first page of a website is one of its pages, and no server is called `owner`; OpenRouter's list is finite, with an id and a place in the ranking
for each model, and one model at least is tried; pages and batches have room for a row, and a chat has files; the team has a
member, a pipeline's steps and a run's new chats are finite, and the bounds counted up to are natural numbers. The code
justifies each (serial ids, a `NOT NULL` session, the order of a sort, configuration constants). A theorem that needs more says so.

A theorem `Spec => ...` is about a component. Four compositions implement the component they extend (`RunsOutboundDispatch`,
`RunsViewings`, `RunsPaymentSettlement`, `RunsSignIn`: `SpecMC => Spec`), so it holds of what TLC runs, too; a theorem
`SpecMC => ...` is about another part of the composition.

`OutboundDispatchProofs`
- `TypeCorrect`, `SendingIsUnsentHolds`, `AtMostOnceHolds`: the last two for `0 \notin ResultAcks`. `AtMostOnce` is not
  inductive: nothing in it forbids a `sending` message that was sent. `SendsInv` adds who *owns* a message, a run past its
  claim: a `none` or `sending` message has no owner and was not sent; two runs never own one message; a run that has not
  called the provider, or was told the number is offline, owns a message nobody sent; a run about to confirm has a positive
  ack. The claim needs the first, the send the third, the return to `sending` in the `catch` the second and third, and
  `Confirm` the fourth: this is where the ack-0 defect sits.
- `DispatchExclusiveHolds`: for any acks. `LockInv` adds that the slot that holds a number's lock is the only one, over a
  number with nothing in flight.
- `ImplementsLifeHolds`: `Spec => ImplementsLife`, under the same assumption. The refinement mapping shows `queued` and
  `sending` as waiting, hands are the owning runs, copies the sends. Initial states map to initial states; each action
  maps to the abstract action of its message, to `Settle` where rows of several messages are marked by recovery, or to a
  stutter. `Take` needs `LockInv`, `Give` and `PutBack` need `SendsInv`.

- `SingleBrowserHolds`: `SessionLease`'s two invariants (below) for the two parts of `MCOutboundDispatch` in which browsers run.
  Launches are positive numbers, and `NoMessage`, which stands for nobody there, is no slot.

`ReceiptReconciliationProofs`
- `TypeCorrect`, `LevelNeverFallsHolds`. The merge deletes a row that carries a level; that is safe because of `MergeInv`:
  one row carries the id, and the echo the confirmation saw is locked at a level it has taken over.
- `StatusMatchesAckHolds`: ticks and level agree in both rows.
- `EarlyAckAppliedHolds`. `EarlyInv` follows a stored receipt through its places: `early_receipts` until the merge, the
  pending call of the run, and then the row.

`CampaignPumpProofs`
- `TypeCorrect`, `RunningBelowBreakerHolds`, `SentIsCountedHolds`: for any number of pumps. The last needs `LinkInv`: a
  call under way is of a linked recipient; the claim checks the link, and no step takes one away.
- `CompletedIsHandledHolds`: for one pump, since completion looks at links, and a message that is not yet linked is known
  only to the pump that made it.
- `BatchesRestHolds`, for a finite list of recipients. `RestInv`: the number of rows claimed, as the code counts them, and
  the batch since the last rest differ by whole batches, and a full batch is cooling unless nobody is left. Everybody is
  enlisted by the first start, because nobody opted out before it; a second start enlists nobody (`StartRests`).

`WebhookDeliveryProofs`
- `TypeCorrect`, `AttemptsAreOwnedHolds`, `FailedIsSpentHolds`: an attempt has one owner, because a claim writes the
  number it read plus one, under the row's lock.
- `PostsAreBoundedHolds`. `BudgetInv`: POSTs made and processes that still hold an unposted claim are together no more
  than the attempts counted, and those are at most `MaxAttempts`. A claim adds one to both sides, a POST turns a
  holder into a post, a stop forgets a holder. The holders are a finite set because `Workers` is.

`DeskProofs`, about the parts of `MCDesk`. Each of its theorems on `SpecMC` says `part = ... => Inv` of every part's inductive
invariant; `PartStep` and `PartInit` take the part out of the composition.
- `TypeCorrect`, `NeverTwiceAtOnceHolds`, `EndedStaysHolds` (`Viewings`). `LockInv`: two requests inside their transactions
  share no agent, property or lead. `MoveInv`: what a move read of its viewing stays true, as nobody rewrites the three.
  `WriteInv`: what was found free is free when it is written. This last needs the other two: any booking that could
  take the time would hold one of the same locks.
- `OneOpenLeadHolds`, by `LeadsInv`: two requests may both have seen no open lead; the one that opens a second is refused by the
  unique index and finishes with the first's.
- `TurnsAreEvenHolds`. `RoundInv`: while everybody is there, those up to the last chosen have had one turn more than those
  after; the next one by number, or the least when nobody is greater, keeps it so.
- `HeardInOrderHolds`. `QueueInv`: the number's events are looked up one at a time, the first that is pending; `EarsInv`: what
  anybody has heard is before all that is pending.
- `PagesMissNothingHolds`. Of the inbox, `ViewTimes`: what is shown is no newer than the row and no stamp is in the future; `ListShown`:
  while pages are read, every chat read and not touched since is shown as it is, and a touched one has changed after the mark, or
  is late; `MarkShown`: with the list read, so is all that has not changed after the mark. A page is the first so many rows that
  are left (`PageIsFirst`), so what lies before its last row was on a page. Of a chat's files, `TriedAbove`: none is tried that
  is not at or above the place the loading has come to, hence none twice; `NonePassed`: what was missing is kept or reported, in the
  batch at hand, or below it while there is more.
- `TakenBackHolds`. `WorkInv`: one server works on a message as long as its log says so, hence none once it is done;
  `ReplyInv`: a thank-you has no reply to take back; `UndoInv`: what the undo has passed is neither in the outbox nor on the wire,
  unless its outcome was unknown.
- `SaidOnceHolds`. `StoreInv`: only the insert of a customer's live message announces it, and `stored` leaves "no" once.
  `RemindInv`: notices sent, servers that have claimed and not yet told, and the claim still to be had are together no more
  than the times that were set. The claim moves one from the third to the second, a new time adds one to both sides.
- `ShownAsItIsHolds`. `PrepInv`: an answer kept was made from a chat that had the message. `ListingInv`: the row read is the row
  written. `TagInv` is the hardest: a label that a change under way names has no bearers but the contacts that change
  rewrites, and no other change names or links it (`HeldInv`); what is linked exists (`LinkedInv`); a change alone with its
  contacts has computed the very copy that it will leave (`AloneInv`, `SeenInv`).
- `TypeOKMCHolds`: each part's type invariant, one lemma a part (`SyncTyped`, `WaitTyped`, `SaleTyped`, ...), from the invariants
  above and what the parts remember between a read and a write. The inbox's pass lists conversations before it reads them:
  while rows are written, a chat WhatsApp named is still to do or exists, hence every chat whose history is read has its
  row (`PassTypes`), and every stored message the row it is filed under (`FiledThere`). Autopilot chooses replies for
  questions only, and an undo restores a wait the customer began (`Piloted`, `Logged`). A request on leads holds a lead, an owner
  and a step there may be, also when the step has gone (`SaleWork`); a saved pipeline places every step it keeps
  (`PlacesAreNats`). Whoever a new chat goes to is of the team, as the least of a non-empty set (`PickIsThere`). The names on
  a contact's copy are names of labels (`CopyIsNames`).

`MoneyProofs`, about `PaymentSettlement` and, like `DeskProofs`, about the parts of `MCMoney`
- `TypeCorrect`, `RecordedOnceHolds`, `RecordedIsCapturedHolds`, `HandledIsAppliedHolds`, `SettledStaysHolds`. `CallsInv` says
  what a call may rely on: an order the gateway does not know yet belongs to one checkout and has no payments; what a
  call saw of a payment stays true of it, because payments only move forward (`Grows`); the event a webhook marks is the
  one it settled. Over it, every step settles no order, or one that was not settled (`NextStep`), with a captured payment
  of that order and amount, and `LedgerInv` keeps rows and paid orders in step.
- `NoPeriodLostHolds`. `PeriodInv`: an order is for a plan for sale, keeps its quote once it is made (`QuotesKept`), and
  a company without a plan has no period, so that a new period never starts before the last day paid for.
- `ChargedOnceHolds`. `ChargeInv`: a charge has been counted once if its order is paid and not at all otherwise; whichever event
  comes first settles the order, and the others find it paid.
- `StrangersStayOutHolds`. `LateInv`: an order that was not in settlement when the address got an account never enters one, since
  `SettleBegin` looks for the account and the account stays.
- `InStepHolds`. `HolderInv`: who reads or applies migrations has the advisory lock; `PassedInv`: a run at work has read and
  applied between them exactly what the schema consists of, though it decides from a list it read before; by `SchemaInv`, that
  is the first so many migrations, hence it applies the next one.
- `PaidTimeKeptHolds`. `DueInv`: a pump about to apply a change that was due on its list still finds it due, since a payment that
  moves the period's end drops the change. `QuoteInv` with `CreditFacts`: the current period has at least a day, so that the division
  is defined; that needs the calendar: the days before a month differ from those before the next by its length
  (`MonthFollows`, by cases on the month), and a cycle ends later than it began (`CycleFacts`).
- `PartsAddUpHolds`. `BillInv`: the last bill is a quote of natural amounts with a credit no greater than the price; `RoundFacts`
  bounds what rounding takes away.

`MCPeople`, about `SignIn` and, like `DeskProofs`, about the parts of the composition (the proofs follow it in the same module)
- `TypeCorrect`, `OneHeirHolds`, `OldSessionsEndHolds`, for any number of requests, tokens and links. `OneHeir` needs
  `RootInv`: a new sign-in's root is larger than every earlier one. `OldSessionsEnd` needs `EndingInv`: a
  revocation that has begun has seen every living token that is not spared, so that when it commits nothing but spared
  tokens is left; and `NobodyInv` with `PurposeInv`, so that a first sign-up, and a reset of a person without a row, do not
  change a password behind living tokens. Most actions touch neither tokens nor passwords nor revocations; they are
  `QuietStep`s and are handled by one lemma.
- `LinkWorksOnceHolds`. `LinkInv`: a request that holds a link is alone with it, the link has set no password, and the
  revocation that is about to commit has that link among those it retires.
- `NeverTalkedOverHolds`. `QuietInv`: no process is about to send for a message in `quiet`, one that a person answered while none was. An
  answer stays an answer (`quiet` is part of `answered`), and every step that leads to a send looks at the answers first (`Moves`).
- `AllowanceKeptHolds`. `SpentInv`: of each day, answers and requests that hold a place (`Holders`) are together no more than what was
  counted and what was given back late; what was counted is within the limit. A reservation adds one to both sides, an answer
  turns a holder into an answer, a request given back before midnight leaves both sides, and one given back after it takes from
  another day than its own, which `late` makes good. Holders are finite because `Clients` is; they are of no day to come
  (`RequestsInv`).
- `AskedInTurnHolds`. The router's half is from `RequestsInv`: whoever a request asked is behind it in its line, and was skipped as
  resting if the request goes along those (`AlongOK`); one that is yet to be routed stands before its line. `ForwardFacts` says what
  one walk along the line does, `OnwardFacts` what two do: hence nobody is asked twice, and a request that is turned away unasked has
  passed everybody twice. OpenRouter's half is about lists: `InOrder` puts finitely many
  places in order (`InOrderFacts`, from how many places are below each), so a list keeps each model once (`PickFacts`) and the ranking
  has every model that can write (`RankedFacts`). The first of each maker has none of its maker before it, and every model's maker has
  a first (`HasLeast`): hence `Spread` comes to a maker again only after all (`SpreadFacts`), also in the part of it a line takes
  (`LineFacts`), and every step makes a line that way or leaves it (`LineMoves`).
- `OncePerTurnHolds`, for any flow, drafts of any size, any number of messages, faults and attempts. It needs the pure half of
  `Workflow`: a walk through a flow is a recursive function, whose existence is shown by a least counterexample
  (`WalkIsWalked`); what comes before its step grows with each step, since no step of an accepted flow is later than itself,
  so the walk stops (`EarlierGrows`, `WalkFacts`); and the plan it leaves tells of each step once, of none that comes after
  where it rests (`RunFacts`, `ResumeFacts`). `TurnInv`, while no turn was cut or overtaken: what is told was told once, is not
  among what is still to be done and comes before where the chat will rest (`ToldInv`); a message done has done its whole
  plan and left its place (`DoneInv`); the first message is done before another is planned (`FirstInv`).
- `ProfileIsCurrentHolds`. `LookInv`: as long as no job owes a profile (it changed pages, or shared a website's pages with another),
  the newest look at the pages, written or in the hand of its writer, is what is kept. A write of an older look over a newer one loses
  it, by definition; every other step keeps it, or leaves a debt. The hard step is a read that changes nothing: `PagesInv` says that a
  read alone at a website's pages which found none other has left them as they were, and that two at once both know of it; `HeldInv`,
  that whoever holds the newest look is about to write it; `RemovedInv`, that a removed website keeps no page, whoever is still
  reading it.

`SessionLease` (likewise), for any workers, launches and calls; launches are positive numbers and `Nobody` is no worker (`Sane`)
- `BrowserIsWatchedHolds`: a browser its worker knows of has its timer, or is being closed. It needs `~LateEvents` only.
  `LastEndIsDone` is the strengthening: while a worker has a browser, all its other attempts are over and handled, so that
  nothing that is still to happen takes that browser's timer.
- `SingleBrowserHolds`: under `~LateEvents`, `~Overlap` and no stall. Inductive is what a lease's holder may rely on: who
  is past the transaction has the lease and no ended browser left to handle (`LaunchIsLeased`), who has a browser has the
  lease (`BrowserIsLeased`), a call past the release of the profile has no browser (`ClosedIsGone`), and a browser the
  session map has lost is about to be released (`ForgottenIsReleased`). A lease runs out when its holder is not `Occupied`:
  `BrowserIsWatched` says that a browser makes it so. Without `~Overlap`, `LaunchIsLeased` is not inductive, and for a
  reason: this is how the row with `Overlap` in section 4 was found.

Each inductive invariant was checked by TLC on a small instance before it was proved, except `BillInv`, which quantifies over all
natural numbers.

Only model-checked: all liveness (`EventuallyHanded`, `CampaignFinishes`, `EveryDeliverySettles`, `AlertsGoAway`, and
`CapturedSettles`, `TroubleIsTold`, `CachesCatchUp`, `CutOff`), since temporal proofs under fairness and `ENABLED` are out of the
prover's reach here. Every invariant of every passing run is a theorem.

## 6. Not modelled, and what is next

Abstracted away everywhere: texts, names, sockets' rooms, logging, audit records, permissions. No component is complete in
every route; `PROJECT.json` says of each what was left out. Without a module: the domain-job timer (it appears as the
modules' job actions and their fairness; that one hanging job holds up the others is not in them), mail, reports,
exports, administration screens, rate limits.

Next: the safety facts under `Team.CutOff` and `NumberHealth.TroubleIsTold`, which promise something in the end.
