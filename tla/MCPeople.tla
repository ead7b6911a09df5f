---------------------------------- MODULE MCPeople ----------------------------------
(* People and what answers for them, in one run: sign-in and teams, and    *)
(* beside them Riwo's chats, workflows, the models it asks and what it     *)
(* knows.  A behaviour is one of one part, chosen at the start.            *)
EXTENDS SignIn, FiniteSetTheorems, WellFoundedInduction, TLAPS

CONSTANTS
  Off, Servers, Second,
  PerHour, Questions, Tries, Clients, Providers, Limit, Sources, OtherSite, Pages, Home,
  Offered, FreeRouter, MaxAttempts, PerMinute, MaxCalls, DraftSteps,
  MaxMsgs, MaxReplies, MaxDay, MaxAsks, MaxOutages, MaxEdits, MaxFaults   \* bounds

(* A free provider with two models, a free one that may learn from what it *)
(* is asked, and a paid one that may not.                                  *)
ThreeProviders == <<
  [free |-> TRUE, own |-> FALSE, private |-> TRUE, counted |-> TRUE, rpm |-> 2, models |-> <<"a", "b">>],
  [free |-> TRUE, own |-> FALSE, private |-> FALSE, counted |-> FALSE, rpm |-> 2, models |-> <<"none">>],
  [free |-> FALSE, own |-> FALSE, private |-> TRUE, counted |-> FALSE, rpm |-> 2, models |-> <<"none">>]>>

(* Models of two makers, one of them no use for text.                      *)
ThreeModels == {
  [id |-> "a1", maker |-> "a", usable |-> TRUE, score |-> 1],
  [id |-> "a2", maker |-> "a", usable |-> TRUE, score |-> 2],
  [id |-> "b1", maker |-> "b", usable |-> TRUE, score |-> 3],
  [id |-> "b2", maker |-> "b", usable |-> FALSE, score |-> 0]}

VARIABLES
  part,
  kind, riwoSaid, riwoAnswered, needs, asking, hold, riwoEvent, riwoExec,
  count, riwoSent, quiet, riwoCut, riwoPump, riwoFaults,
  flow, workflowSaid, workflowAnswered, chat, workflowEvent, workflowExec,
  texts, told, workflowCut, redone, workflowPump, workflowFaults,
  today, used, cooled, gone, routerSent, turn, routerReq, answers, late, asks,
  routerFaults,
  catalogue, unlisted, cooling, paused, recent, ask, calls,
  site, source, kept, profile, job, latest, edits, learningFaults

C == INSTANCE Assistant WITH
  Pumps <- Servers, said <- riwoSaid,
  answered <- riwoAnswered, event <- riwoEvent, exec <- riwoExec,
  sent <- riwoSent, cut <- riwoCut, pump <- riwoPump, faults <- riwoFaults
W == INSTANCE Workflow WITH
  N <- DraftSteps, MaxMsgs <- MaxMsgs + 1, said <- workflowSaid,
  answered <- workflowAnswered, event <- workflowEvent, exec <- workflowExec,
  cut <- workflowCut, pump <- workflowPump, faults <- workflowFaults
A == INSTANCE AiRouter WITH
  Requests <- Clients, MaxFaults <- MaxOutages, sent <- routerSent,
  req <- routerReq, faults <- routerFaults
O == INSTANCE OpenRouter WITH
  Asks <- Clients
K == INSTANCE Knowledge WITH
  faults <- learningFaults

ASSUME PeopleAssumption ==
  /\ IsFiniteSet(Clients) /\ {Limit, MaxDay} \subseteq Nat /\ Home \in Pages
  /\ K!Owner \notin Servers

(* No two models of the list have one id or one place, or are the router.  *)
ASSUME ModelsAssumption ==
  /\ IsFiniteSet(Offered) /\ MaxAttempts \in Nat \ {0}
  /\ \A m, n \in Offered : m.id = n.id \/ m.score = n.score => m = n
  /\ \A m \in Offered : m.score \in Nat /\ m.usable \in BOOLEAN /\ m.id # FreeRouter

ASSUME DraftsAssumption == DraftSteps \in Nat /\ MaxMsgs \in Nat

riwo ==
  <<kind, riwoSaid, riwoAnswered, needs, asking, hold, riwoEvent, riwoExec,
    count, riwoSent, quiet, riwoCut, riwoPump, riwoFaults>>
workflow ==
  <<flow, workflowSaid, workflowAnswered, chat, workflowEvent, workflowExec,
    texts, told, workflowCut, redone, workflowPump, workflowFaults>>
router ==
  <<today, used, cooled, gone, routerSent, turn, routerReq, answers, late,
    asks, routerFaults>>
openRouter == <<catalogue, unlisted, cooling, paused, recent, ask, calls>>
learning == <<site, source, kept, profile, job, latest, edits, learningFaults>>
account == <<user, token, link, req, cuts, spared>>

riwoOff ==
  /\ kind = Off /\ riwoSaid = Off /\ riwoAnswered = Off /\ needs = Off
  /\ asking = Off /\ hold = Off /\ riwoEvent = Off /\ riwoExec = Off
  /\ count = Off /\ riwoSent = Off /\ quiet = Off /\ riwoCut = Off
  /\ riwoPump = Off /\ riwoFaults = Off
workflowOff ==
  /\ flow = Off /\ workflowSaid = Off /\ workflowAnswered = Off /\ chat = Off
  /\ workflowEvent = Off /\ workflowExec = Off /\ texts = Off /\ told = Off
  /\ workflowCut = Off /\ redone = Off /\ workflowPump = Off
  /\ workflowFaults = Off
routerOff ==
  /\ today = Off /\ used = Off /\ cooled = Off /\ gone = Off
  /\ routerSent = Off /\ turn = Off /\ routerReq = Off /\ answers = Off
  /\ late = Off /\ asks = Off /\ routerFaults = Off
openRouterOff ==
  /\ catalogue = Off /\ unlisted = Off /\ cooling = Off /\ paused = Off
  /\ recent = Off /\ ask = Off /\ calls = Off
learningOff ==
  /\ site = Off /\ source = Off /\ kept = Off /\ profile = Off /\ job = Off
  /\ latest = Off /\ edits = Off /\ learningFaults = Off

(* A chat with two messages and one process, or with one message that two  *)
(* processes work on.                                                      *)
Opening == IF part = "turns" THEN {"hello"} ELSE {"keyword", "price"}

Riwo ==
  /\ C!Next
  /\ \A n \in {1} \cap DOMAIN riwoSaid' : riwoSaid'[n] \in Opening
  /\ IF part = "turns" THEN riwoPump'[Second] = riwoPump[Second] ELSE Len(riwoSaid') <= 1

(* One website that changes, or two that do not, with a server for each.   *)
Learns ==
  /\ K!Next
  /\ IF part = "learning" THEN source'[OtherSite] = "none"
     ELSE /\ edits' = 0
          /\ \A w \in Servers, s \in Sources :
               (w = Second) # (s = OtherSite) => job'[w][s].pc = "idle"

(* Three requests, or two that meet three failures.                        *)
Asking == A!Next /\ asks' + routerFaults' < MaxAsks + MaxOutages

(* The variables of a part that does not run are Off.                      *)
InitMC ==
  /\ part \in {
       "account", "turns", "race", "workflow", "router", "openRouter",
       "learning", "sites"}
  /\ Init /\ (part = "account" \/ ~user.exists)
  /\ IF part \in {"turns", "race"} THEN C!Init ELSE riwoOff
  /\ IF part = "workflow" THEN W!Init ELSE workflowOff
  /\ IF part = "router" THEN A!Init ELSE routerOff
  /\ IF part = "openRouter" THEN O!Init ELSE openRouterOff
  /\ IF part \in {"learning", "sites"} THEN K!Init ELSE learningOff

NextMC ==
  /\ UNCHANGED part
  /\ IF part = "account" THEN Next ELSE UNCHANGED account
  /\ IF part \in {"turns", "race"} THEN Riwo ELSE UNCHANGED riwo
  /\ IF part = "workflow" THEN W!Next ELSE UNCHANGED workflow
  /\ IF part = "router" THEN Asking ELSE UNCHANGED router
  /\ IF part = "openRouter" THEN O!Next ELSE UNCHANGED openRouter
  /\ IF part \in {"learning", "sites"} THEN Learns ELSE UNCHANGED learning

all == <<part, account, riwo, workflow, router, openRouter, learning>>

SpecMC == InitMC /\ [][NextMC]_all

(* Nothing is said to a message a person has answered, however long the    *)
(* model thinks (Assistant.NeverTalkedOver).                               *)
NeverTalkedOver == [][(part \in {"turns", "race"}) => C!LeavesQuiet]_all

(* A step of a workflow reaches the team once, however often its turn is   *)
(* tried again (Workflow.OncePerTurn).                                     *)
OncePerTurn == part = "workflow" => W!OncePerTurn

(* A day's answers stay within the allowance however many ask at once      *)
(* (AiRouter.AllowanceKept).                                               *)
AllowanceKept == part = "router" => A!AllowanceKept

(* Who is asked next: nobody twice, those that are set aside only in a     *)
(* round of their own, when nobody else was asked, and all of them before  *)
(* a request is turned away (AiRouter.LastOnly); of OpenRouter's models    *)
(* every maker that is awake before one again (OpenRouter.MakersFirst).    *)
AskedInTurn ==
  [][ /\ part = "router" => A!LastOnly
      /\ part = "openRouter" => O!SpreadsAsks ]_all

(* Riwo answers from the pages that are kept, however reads, refreshes and *)
(* removals overlap (Knowledge.ProfileIsCurrent, which names the three     *)
(* ways in which the newest look at the pages is lost).                    *)
ProfileIsCurrent == part \in {"learning", "sites"} => K!ProfileIsCurrent
-----------------------------------------------------------------------------
(* What is true at every step: each token descends from one of its own     *)
(* sign-in; a revocation under way has seen every living token that it is  *)
(* not known to miss; what a request is for fits its stage; and nobody who *)
(* does not exist has a session or changes a password.                     *)
RootInv == \A t \in Tokens : token[t].root \in 1..Len(token)

EndingInv ==
  \A r \in Requests : req[r].pc = "ending" => LiveTokens \subseteq req[r].tokens \cup spared

PurposeInv ==
  \A r \in Requests :
    /\ req[r].pc \in {"mail", "mailing"} => req[r].for \in LinkUses
    /\ req[r].pc = "link" => req[r].for \in {"reset", "setup"}
    /\ req[r].pc \in {"changing", "changed"} => req[r].for = "change"

NobodyInv ==
  ~user.exists =>
    /\ token = <<>>
    /\ \A r \in Requests :
         /\ req[r].pc \notin {"issue", "changing", "changed"}
         /\ ~(req[r].pc = "ending" /\ req[r].for = "change")

(* The inductive invariant.                                                *)
IInv == TypeOK /\ RootInv /\ EndingInv /\ PurposeInv /\ NobodyInv /\ OneHeir /\ OldSessionsEnd

(* A link that works has set no password.  A request that holds a link is  *)
(* alone with it, and about to use it for the first time; when it commits, *)
(* the link is among those it retires.                                     *)
HeldLinkIsUnused(r) ==
  /\ req[r].link \in Links \cup {0}
  /\ req[r].link # 0 =>
       /\ req[r].pc \in {"link", "ending"} /\ link[req[r].link].sets = 0
       /\ req[r].pc = "ending" => req[r].link \in req[r].links

LinkInv ==
  /\ \A l \in Links : link[l].sets <= 1 /\ (link[l].live => link[l].sets = 0)
  /\ \A r \in Requests : HeldLinkIsUnused(r)
  /\ \A r, q \in Requests : req[r].link = req[q].link /\ req[r].link # 0 => r = q

-----------------------------------------------------------------------------
(* Proofs, for any number of requests, tokens and links.                   *)
TokenType == [live : BOOLEAN, pw : Nat, root : Nat]
LinkType == [use : LinkUses, live : BOOLEAN, recent : BOOLEAN, sets : Nat]
UserType == [exists : BOOLEAN, pw : Nat, verified : BOOLEAN, must : BOOLEAN]
ReqType == [pc : Pcs, for : Purposes, pw : Nat, link : Nat, tokens : SUBSET Nat, links : SUBSET Nat]

(* Sequences as functions on 1..n.                                         *)
LEMMA SeqIsFunction ==
  ASSUME NEW S, NEW s \in Seq(S)
  PROVE  /\ Len(s) \in Nat /\ DOMAIN s = 1..Len(s) /\ \A i \in 1..Len(s) : s[i] \in S
         /\ s = [i \in 1..Len(s) |-> s[i]]
  OBVIOUS

LEMMA FunctionIsSeq ==
  ASSUME NEW S, NEW n \in Nat, NEW f \in [1..n -> S]
  PROVE  f \in Seq(S) /\ Len(f) = n
  OBVIOUS

LEMMA Appended ==
  ASSUME NEW S, NEW s \in Seq(S), NEW x \in S
  PROVE  /\ Append(s, x) \in Seq(S) /\ Len(Append(s, x)) = Len(s) + 1
         /\ \A i \in 1..Len(s) : Append(s, x)[i] = s[i]
         /\ Append(s, x)[Len(s) + 1] = x
  OBVIOUS

LEMMA TypeFacts ==
  ASSUME TypeOK
  PROVE  /\ user \in UserType /\ token \in Seq(TokenType) /\ link \in Seq(LinkType)
         /\ req \in [Requests -> ReqType]
         /\ Len(token) \in Nat /\ Tokens = 1..Len(token) /\ Tokens \subseteq Nat
         /\ Len(link) \in Nat /\ Links = 1..Len(link) /\ Links \subseteq Nat
         /\ \A t \in Tokens : token[t] \in TokenType
         /\ \A l \in Links : link[l] \in LinkType
         /\ \A r \in Requests : req[r] \in ReqType
         /\ LiveTokens \subseteq Tokens /\ LiveTokens \in SUBSET Nat
<1>1. /\ user \in UserType /\ token \in Seq(TokenType) /\ link \in Seq(LinkType)
      /\ req \in [Requests -> ReqType]
  BY DEF TypeOK, UserType, TokenType, LinkType, ReqType
<1>2. /\ Len(token) \in Nat /\ Tokens = 1..Len(token)
      /\ \A t \in Tokens : token[t] \in TokenType
  BY <1>1, SeqIsFunction DEF Tokens
<1>3. /\ Len(link) \in Nat /\ Links = 1..Len(link)
      /\ \A l \in Links : link[l] \in LinkType
  BY <1>1, SeqIsFunction DEF Links
<1> QED BY <1>1, <1>2, <1>3 DEF LiveTokens

LEMMA TypeFromFacts ==
  ASSUME user \in UserType, token \in Seq(TokenType), link \in Seq(LinkType),
         req \in [Requests -> ReqType], cuts \in Nat, spared \subseteq Tokens
  PROVE  TypeOK
  BY DEF TypeOK, UserType, TokenType, LinkType, ReqType

-----------------------------------------------------------------------------
(* What a step does to the request that makes it.                          *)
Becomes(r, x) ==
  /\ req' \in [Requests -> ReqType]
  /\ req'[r] = x /\ \A q \in Requests \ {r} : req'[q] = req[q]

LEMMA SetsRequest ==
  ASSUME TypeOK, NEW r \in Requests, NEW x \in ReqType, req' = [req EXCEPT ![r] = x]
  PROVE  Becomes(r, x)
  BY TypeFacts DEF Becomes

LEMMA Begins ==
  ASSUME TypeOK, NEW r \in Requests, NEW x \in ReqType, Begin(r, x)
  PROVE  req[r].pc = "idle" /\ Becomes(r, x)
  BY SetsRequest DEF Begin

LEMMA Fields ==
  ASSUME NEW x \in ReqType
  PROVE  /\ x.pc \in Pcs /\ x.for \in Purposes /\ x.pw \in Nat /\ x.link \in Nat
         /\ x.tokens \in SUBSET Nat /\ x.links \in SUBSET Nat
  BY DEF ReqType

LEMMA IdleFacts ==
  /\ Idle \in ReqType /\ Idle.pc = "idle" /\ Idle.for = "none"
  /\ Done \in ReqType /\ Done.pc = "done" /\ Done.for = "none"
<1>1. "idle" \in Pcs /\ "done" \in Pcs /\ "none" \in Purposes /\ 0 \in Nat
  BY DEF Pcs, Purposes
<1>2. Idle \in ReqType /\ Idle.pc = "idle" /\ Idle.for = "none"
  BY <1>1 DEF Idle, ReqType
<1>3. Done \in ReqType /\ Done.pc = "done" /\ Done.for = "none"
  BY <1>1, <1>2 DEF Done, ReqType
<1> QED BY <1>2, <1>3

(* The names used below are among those the types allow.                   *)
LEMMA Names ==
  /\ \A pc \in {"idle", "issue", "mail", "mailing", "link", "ending", "changing", "changed",
                "confirm", "done"} : pc \in Pcs
  /\ \A for \in {"reset", "verify", "setup"} : for \in LinkUses
  /\ \A for \in {"none", "change", "reuse"} \cup LinkUses : for \in Purposes
  BY DEF Pcs, Purposes, LinkUses

(* What a request starts out as. *)
AtIssue(pw) == [Idle EXCEPT !.pc = "issue", !.pw = pw]
AtMail(use) == [Idle EXCEPT !.pc = "mail", !.for = use]
AtEnding(ts) == [Idle EXCEPT !.pc = "ending", !.for = "reuse", !.tokens = ts]
AtLink(use, l) == [Idle EXCEPT !.pc = "link", !.for = use, !.link = l]
AtConfirm == [Idle EXCEPT !.pc = "confirm"]
AtChanging == [Idle EXCEPT !.pc = "changing", !.for = "change"]

LEMMA AtIssueFacts ==
  ASSUME NEW pw \in Nat
  PROVE  AtIssue(pw) \in ReqType /\ AtIssue(pw).pc = "issue" /\ AtIssue(pw).for = "none"
<1>1. SUFFICES ASSUME NEW y, y = AtIssue(pw)
               PROVE  y \in ReqType /\ y.pc = "issue" /\ y.for = "none"
  OBVIOUS
<1>2. Idle \in ReqType /\ Idle.for = "none" /\ "issue" \in Pcs
  BY IdleFacts, Names
<1> QED BY <1>1, <1>2 DEF AtIssue, ReqType

LEMMA AtMailFacts ==
  ASSUME NEW use \in LinkUses
  PROVE  AtMail(use) \in ReqType /\ AtMail(use).pc = "mail" /\ AtMail(use).for = use
<1>1. SUFFICES ASSUME NEW y, y = AtMail(use)
               PROVE  y \in ReqType /\ y.pc = "mail" /\ y.for = use
  OBVIOUS
<1>2. Idle \in ReqType /\ "mail" \in Pcs /\ use \in Purposes
  BY IdleFacts, Names
<1> QED BY <1>1, <1>2 DEF AtMail, ReqType

LEMMA AtEndingFacts ==
  ASSUME NEW ts \in SUBSET Nat
  PROVE  /\ AtEnding(ts) \in ReqType /\ AtEnding(ts).pc = "ending"
         /\ AtEnding(ts).for = "reuse" /\ AtEnding(ts).tokens = ts
<1>1. SUFFICES ASSUME NEW y, y = AtEnding(ts)
               PROVE  y \in ReqType /\ y.pc = "ending" /\ y.for = "reuse" /\ y.tokens = ts
  OBVIOUS
<1>2. Idle \in ReqType /\ "ending" \in Pcs /\ "reuse" \in Purposes
  BY IdleFacts, Names
<1> QED BY <1>1, <1>2 DEF AtEnding, ReqType

LEMMA AtLinkFacts ==
  ASSUME NEW use \in LinkUses, NEW l \in Nat
  PROVE  AtLink(use, l) \in ReqType /\ AtLink(use, l).pc = "link" /\ AtLink(use, l).for = use
<1>1. SUFFICES ASSUME NEW y, y = AtLink(use, l)
               PROVE  y \in ReqType /\ y.pc = "link" /\ y.for = use
  OBVIOUS
<1>2. Idle \in ReqType /\ "link" \in Pcs /\ use \in Purposes
  BY IdleFacts, Names
<1> QED BY <1>1, <1>2 DEF AtLink, ReqType

LEMMA AtConfirmFacts == AtConfirm \in ReqType /\ AtConfirm.pc = "confirm"
<1>1. SUFFICES ASSUME NEW y, y = AtConfirm
               PROVE  y \in ReqType /\ y.pc = "confirm"
  OBVIOUS
<1>2. Idle \in ReqType /\ "confirm" \in Pcs
  BY IdleFacts, Names
<1> QED BY <1>1, <1>2 DEF AtConfirm, ReqType

LEMMA AtChangingFacts ==
  AtChanging \in ReqType /\ AtChanging.pc = "changing" /\ AtChanging.for = "change"
<1>1. SUFFICES ASSUME NEW y, y = AtChanging
               PROVE  y \in ReqType /\ y.pc = "changing" /\ y.for = "change"
  OBVIOUS
<1>2. Idle \in ReqType /\ "changing" \in Pcs /\ "change" \in Purposes
  BY IdleFacts, Names
<1> QED BY <1>1, <1>2 DEF AtChanging, ReqType

LEMMA GoesOn ==
  ASSUME TypeOK, NEW r \in Requests, NEW pc \in Pcs, NEW pw \in Nat,
         NEW ts \in SUBSET Nat, NEW ls \in SUBSET Nat
  PROVE  /\ req' = [req EXCEPT ![r].pc = pc, ![r].links = ls] =>
              /\ req' \in [Requests -> ReqType]
              /\ req'[r].pc = pc /\ req'[r].for = req[r].for
              /\ \A q \in Requests \ {r} : req'[q] = req[q]
         /\ req' = [req EXCEPT ![r].pc = pc, ![r].pw = pw] =>
              /\ req' \in [Requests -> ReqType]
              /\ req'[r].pc = pc /\ req'[r].for = req[r].for
              /\ \A q \in Requests \ {r} : req'[q] = req[q]
         /\ req' = [req EXCEPT ![r].pc = pc, ![r].tokens = ts] =>
              /\ req' \in [Requests -> ReqType]
              /\ req'[r].pc = pc /\ req'[r].for = req[r].for /\ req'[r].tokens = ts
              /\ \A q \in Requests \ {r} : req'[q] = req[q]
         /\ req' = [req EXCEPT ![r].pc = pc, ![r].tokens = ts, ![r].links = ls] =>
              /\ req' \in [Requests -> ReqType]
              /\ req'[r].pc = pc /\ req'[r].for = req[r].for /\ req'[r].tokens = ts
              /\ \A q \in Requests \ {r} : req'[q] = req[q]
<1>1. req \in [Requests -> ReqType] /\ req[r] \in ReqType
  BY TypeFacts
<1>2. ASSUME req' = [req EXCEPT ![r].pc = pc, ![r].links = ls]
      PROVE  /\ req' \in [Requests -> ReqType]
             /\ req'[r].pc = pc /\ req'[r].for = req[r].for
             /\ \A q \in Requests \ {r} : req'[q] = req[q]
  BY <1>1, <1>2 DEF ReqType
<1>3. ASSUME req' = [req EXCEPT ![r].pc = pc, ![r].pw = pw]
      PROVE  /\ req' \in [Requests -> ReqType]
             /\ req'[r].pc = pc /\ req'[r].for = req[r].for
             /\ \A q \in Requests \ {r} : req'[q] = req[q]
  BY <1>1, <1>3 DEF ReqType
<1>4. ASSUME req' = [req EXCEPT ![r].pc = pc, ![r].tokens = ts]
      PROVE  /\ req' \in [Requests -> ReqType]
             /\ req'[r].pc = pc /\ req'[r].for = req[r].for /\ req'[r].tokens = ts
             /\ \A q \in Requests \ {r} : req'[q] = req[q]
  BY <1>1, <1>4 DEF ReqType
<1>5. ASSUME req' = [req EXCEPT ![r].pc = pc, ![r].tokens = ts, ![r].links = ls]
      PROVE  /\ req' \in [Requests -> ReqType]
             /\ req'[r].pc = pc /\ req'[r].for = req[r].for /\ req'[r].tokens = ts
             /\ \A q \in Requests \ {r} : req'[q] = req[q]
  BY <1>1, <1>5 DEF ReqType
<1> QED BY <1>2, <1>3, <1>4, <1>5

-----------------------------------------------------------------------------
(* Links.                                                                  *)
LEMMA NewLinkTyped ==
  ASSUME NEW use \in LinkUses
  PROVE  NewLink(use) \in LinkType
  BY DEF NewLink, LinkType

LEMMA RetiredTyped ==
  ASSUME TypeOK, NEW ls
  PROVE  Retired(ls) \in Seq(LinkType)
<1>1. \A l \in Links : [link[l] EXCEPT !.live = @ /\ l \notin ls] \in LinkType
  BY TypeFacts DEF LinkType
<1>2. Retired(ls) \in [1..Len(link) -> LinkType]
  BY <1>1, TypeFacts DEF Retired
<1> QED BY <1>2, FunctionIsSeq, TypeFacts

-----------------------------------------------------------------------------
(* Steps that leave tokens, passwords and revocations alone.               *)
QuietMove(r) ==
  /\ req[r].pc \notin {"changed", "ending"} /\ req'[r].pc \notin {"changed", "ending"}
  /\ req'[r].pc \in {"mail", "mailing"} => req'[r].for \in LinkUses
  /\ req'[r].pc = "link" => req'[r].for \in {"reset", "setup"}
  /\ req'[r].pc = "changing" => req'[r].for = "change"
  /\ req'[r].pc \in {"issue", "changing"} => user'.exists

QuietStep ==
  /\ TypeOK'
  /\ token' = token /\ spared' = spared
  /\ user.exists => user'.exists
  /\ user'.pw # user.pw => token = <<>>
  /\ \A r \in Requests : req'[r] = req[r] \/ QuietMove(r)

LEMMA QuietBegin ==
  ASSUME TypeOK, NEW r \in Requests, NEW x \in ReqType, Begin(r, x),
         user' \in UserType, user.exists => user'.exists,
         user'.pw # user.pw => token = <<>>,
         link' \in Seq(LinkType), UNCHANGED <<token, cuts, spared>>,
         x.pc \notin {"changed", "ending"},
         x.pc \in {"mail", "mailing"} => x.for \in LinkUses,
         x.pc = "link" => x.for \in {"reset", "setup"},
         x.pc = "changing" => x.for = "change",
         x.pc \in {"issue", "changing"} => user'.exists
  PROVE  QuietStep
<1>1. req[r].pc = "idle" /\ Becomes(r, x)
  BY Begins
<1>2. TypeOK'
  BY <1>1 DEF TypeOK, UserType, LinkType, ReqType, TokenType, Becomes, Tokens
<1>3. QuietMove(r)
  BY <1>1 DEF QuietMove, Becomes
<1> QED BY <1>1, <1>2, <1>3 DEF QuietStep, Becomes

LEMMA QuietGoesOn ==
  ASSUME TypeOK, NEW r \in Requests, req' \in [Requests -> ReqType],
         \A q \in Requests \ {r} : req'[q] = req[q],
         req[r].pc \notin {"changed", "ending"}, req'[r].pc \in {"mailing", "done"},
         req'[r].pc = "mailing" => req'[r].for \in LinkUses,
         user' \in UserType, user'.exists = user.exists, user'.pw = user.pw,
         link' \in Seq(LinkType), UNCHANGED <<token, cuts, spared>>
  PROVE  QuietStep
<1>1. TypeOK'
  BY DEF TypeOK, UserType, LinkType, ReqType, TokenType, Tokens
<1>2. QuietMove(r)
  BY DEF QuietMove
<1> QED BY <1>1, <1>2 DEF QuietStep

LEMMA UserTyped ==
  ASSUME TypeOK
  PROVE  /\ user \in UserType
         /\ [user EXCEPT !.verified = TRUE] \in UserType
         /\ [user EXCEPT !.verified = TRUE].exists = user.exists
         /\ [user EXCEPT !.verified = TRUE].pw = user.pw
         /\ \A pw \in Nat : /\ Registered(pw) \in UserType
                            /\ Registered(pw).exists /\ Registered(pw).pw = pw
         /\ \A pw \in Nat : [Registered(pw) EXCEPT !.verified = TRUE] \in UserType
         /\ \A pw \in Nat : [Registered(pw) EXCEPT !.verified = TRUE].exists
  BY TypeFacts DEF UserType, Registered

LEMMA SignupIsQuiet ==
  ASSUME TypeOK, NobodyInv, NEW r \in Requests, NEW r2 \in Requests, Signup(r, r2)
  PROVE  QuietStep
<1> DEFINE x == AtIssue(1)
           y == AtMail("verify")
<1>1. x \in ReqType /\ x.pc = "issue"
  BY AtIssueFacts, 1 \in Nat
<1>2. y \in ReqType /\ y.pc = "mail" /\ y.for = "verify" /\ y.for \in LinkUses
  BY AtMailFacts, Names
<1> HIDE DEF x, y
<1>3. /\ req' = [req EXCEPT ![r] = x, ![r2] = y] /\ r # r2
      /\ req[r].pc = "idle" /\ req[r2].pc = "idle"
      /\ user' = Registered(1) /\ token = <<>>
      /\ UNCHANGED <<token, link, cuts, spared>>
  BY DEF Signup, NobodyInv, AtIssue, AtMail, x, y
<1>4. /\ req' \in [Requests -> ReqType] /\ req'[r] = x /\ req'[r2] = y
      /\ \A q \in Requests \ {r, r2} : req'[q] = req[q]
  BY <1>1, <1>2, <1>3, TypeFacts
<1>5. user' \in UserType /\ user'.exists
  BY <1>3, UserTyped
<1>6. TypeOK'
  BY <1>3, <1>4, <1>5 DEF TypeOK, UserType, ReqType, Tokens
<1>7. QuietMove(r) /\ QuietMove(r2)
  BY <1>1, <1>2, <1>3, <1>4, <1>5 DEF QuietMove
<1> QED BY <1>3, <1>4, <1>5, <1>6, <1>7 DEF QuietStep

LEMMA IssuesNext ==
  ASSUME TypeOK, NEW r \in Requests, NEW pw \in Nat,
         Begin(r, [Idle EXCEPT !.pc = "issue", !.pw = pw]),
         user' \in UserType, user'.exists, user'.pw # user.pw => token = <<>>,
         UNCHANGED <<token, link, cuts, spared>>
  PROVE  QuietStep
<1>1. AtIssue(pw) \in ReqType /\ AtIssue(pw).pc = "issue"
  BY AtIssueFacts
<1>2. Begin(r, AtIssue(pw))
  BY DEF AtIssue
<1>3. link' \in Seq(LinkType)
  BY TypeFacts
<1> QED BY <1>1, <1>2, <1>3, QuietBegin

LEMMA LoginIsQuiet ==
  ASSUME TypeOK, NEW r \in Requests, Login(r)
  PROVE  QuietStep
<1>1. user.pw \in Nat /\ user \in UserType
  BY TypeFacts DEF UserType
<1> QED BY <1>1, IssuesNext DEF Login

LEMMA GoogleIsQuiet ==
  ASSUME TypeOK, NobodyInv, NEW r \in Requests, GoogleCallback(r)
  PROVE  QuietStep
<1>1. user.pw \in Nat /\ user \in UserType
  BY TypeFacts DEF UserType
<1>2. user' \in UserType /\ user'.exists /\ (user'.pw # user.pw => token = <<>>)
  <2>1. CASE user.exists
    <3>1. user' = [user EXCEPT !.verified = TRUE]
      BY <2>1 DEF GoogleCallback, PersonFor
    <3> QED BY <2>1, <3>1, UserTyped
  <2>2. CASE ~user.exists
    <3>1. user' = [Registered(0) EXCEPT !.verified = TRUE] /\ token = <<>>
      BY <2>2 DEF GoogleCallback, PersonFor, NobodyInv
    <3> QED BY <3>1, UserTyped, 0 \in Nat
  <2> QED BY <2>1, <2>2
<1> QED BY <1>1, <1>2, IssuesNext DEF GoogleCallback

LEMMA SwitchIsQuiet ==
  ASSUME TypeOK, NobodyInv, NEW r \in Requests, NEW t \in Tokens, SwitchTenant(r, t)
  PROVE  QuietStep
<1>1. user.exists /\ user \in UserType /\ token[t].pw \in Nat
  BY TypeFacts DEF NobodyInv, TokenType, Tokens
<1> QED BY <1>1, IssuesNext DEF SwitchTenant

LEMMA AskIsQuiet ==
  ASSUME TypeOK, NEW r \in Requests, NEW use \in LinkUses, AskFor(r, use)
  PROVE  QuietStep
<1> DEFINE x == AtMail(use)
<1>1. x \in ReqType /\ x.pc = "mail" /\ x.for = use
  BY AtMailFacts
<1>2. Begin(r, x) /\ UNCHANGED <<user, token, link, cuts, spared>>
  BY DEF AskFor, AtMail
<1>3. link' \in Seq(LinkType) /\ user' \in UserType
  BY <1>2, TypeFacts
<1> HIDE DEF x
<1> QED BY <1>1, <1>2, <1>3, QuietBegin

LEMMA RetireIsQuiet ==
  ASSUME TypeOK, PurposeInv, NEW r \in Requests, RetireLinks(r)
  PROVE  QuietStep
<1>1. "mailing" \in Pcs /\ LiveLinks(req[r].for) \in SUBSET Nat
  BY Names, TypeFacts DEF LiveLinks
<1>2. /\ req' \in [Requests -> ReqType]
      /\ req'[r].pc = "mailing" /\ req'[r].for = req[r].for
      /\ \A q \in Requests \ {r} : req'[q] = req[q]
  BY <1>1, GoesOn, {} \in SUBSET Nat, 0 \in Nat DEF RetireLinks
<1>3. req[r].pc = "mail" /\ req[r].for \in LinkUses
  BY DEF RetireLinks, PurposeInv
<1> QED BY <1>2, <1>3, QuietGoesOn, TypeFacts DEF RetireLinks

LEMMA MailIsQuiet ==
  ASSUME TypeOK, PurposeInv, NEW r \in Requests, MailLink(r)
  PROVE  QuietStep
<1>1. Becomes(r, Done) /\ Done.pc = "done"
  BY SetsRequest, IdleFacts DEF MailLink
<1>2. req[r].pc = "mailing" /\ req[r].for \in LinkUses
  BY DEF MailLink, PurposeInv
<1>3. link' \in Seq(LinkType)
  BY <1>2, RetiredTyped, NewLinkTyped, Appended DEF MailLink
<1> QED BY <1>1, <1>2, <1>3, QuietGoesOn, TypeFacts DEF MailLink, Becomes

LEMMA CreateIsQuiet ==
  ASSUME TypeOK, NEW r \in Requests, CreateCompany(r)
  PROVE  QuietStep
<1>1. user' \in UserType /\ user'.exists /\ user'.pw = user.pw
  BY TypeFacts DEF CreateCompany, UserType
<1>2. link' \in Seq(LinkType)
  BY NewLinkTyped, Appended, TypeFacts, Names DEF CreateCompany
<1> QED BY <1>1, <1>2, QuietBegin, IdleFacts DEF CreateCompany

LEMMA HourIsQuiet ==
  ASSUME TypeOK, NEW l \in Links, AnHourPasses(l)
  PROVE  QuietStep
<1>1. link \in [1..Len(link) -> LinkType]
  BY TypeFacts, SeqIsFunction
<1>2. link' \in [1..Len(link) -> LinkType]
  <2> DEFINE older == [link[l] EXCEPT !.recent = FALSE, !.live = @ /\ link[l].use # "reset"]
  <2>1. l \in 1..Len(link) /\ link' = [link EXCEPT ![l] = older]
    BY TypeFacts DEF AnHourPasses
  <2>2. older \in LinkType
    <3>1. link[l] \in LinkType
      BY <1>1, <2>1
    <3> QED BY <3>1 DEF LinkType
  <2> HIDE DEF older
  <2> QED BY <1>1, <2>1, <2>2
<1>3. link' \in Seq(LinkType)
  BY <1>2, FunctionIsSeq, TypeFacts
<1>4. TypeOK'
  BY <1>3 DEF AnHourPasses, TypeOK, LinkType, Tokens
<1> QED BY <1>4 DEF QuietStep, AnHourPasses

LEMMA OpenIsQuiet ==
  ASSUME TypeOK, NEW r \in Requests, NEW l \in Links, NEW use \in {"reset", "setup"},
         OpenLink(r, l, use)
  PROVE  QuietStep
<1> DEFINE x == AtLink(use, l)
<1>1. l \in Nat /\ use \in LinkUses
  BY TypeFacts DEF LinkUses
<1>2. x \in ReqType /\ x.pc = "link" /\ x.for = use
  BY <1>1, AtLinkFacts
<1>3. Begin(r, x) /\ UNCHANGED <<user, token, link, cuts, spared>>
  BY DEF OpenLink, AtLink
<1>4. link' \in Seq(LinkType) /\ user' \in UserType
  BY <1>3, TypeFacts
<1> HIDE DEF x
<1> QED BY <1>2, <1>3, <1>4, QuietBegin

LEMMA VerifyIsQuiet ==
  ASSUME TypeOK, NEW r \in Requests, NEW l \in Links, VerifyEmail(r, l)
  PROVE  QuietStep
<1> DEFINE x == AtConfirm
<1>1. x \in ReqType /\ x.pc = "confirm"
  BY AtConfirmFacts
<1>2. Begin(r, x) /\ UNCHANGED <<user, token, cuts, spared>> /\ link' \in Seq(LinkType)
  BY RetiredTyped DEF VerifyEmail, AtConfirm
<1>3. user' \in UserType
  BY <1>2, TypeFacts
<1> HIDE DEF x
<1> QED BY <1>1, <1>2, <1>3, QuietBegin

LEMMA MarkIsQuiet ==
  ASSUME TypeOK, NEW r \in Requests, MarkVerified(r)
  PROVE  QuietStep
<1>1. Becomes(r, Done) /\ Done.pc = "done"
  BY SetsRequest, IdleFacts DEF MarkVerified
<1>2. user' \in UserType /\ user'.exists = user.exists /\ user'.pw = user.pw
  BY UserTyped DEF MarkVerified
<1> QED BY <1>1, <1>2, QuietGoesOn, TypeFacts DEF MarkVerified, Becomes

LEMMA ChangeIsQuiet ==
  ASSUME TypeOK, NobodyInv, NEW r \in Requests, NEW t \in Tokens, ChangePassword(r, t)
  PROVE  QuietStep
<1> DEFINE x == AtChanging
<1>1. x \in ReqType /\ x.pc = "changing" /\ x.for = "change"
  BY AtChangingFacts
<1>2. Begin(r, x) /\ UNCHANGED <<user, token, link, cuts, spared>>
  BY DEF ChangePassword, AtChanging
<1>3. link' \in Seq(LinkType) /\ user' \in UserType /\ user.exists
  BY <1>2, TypeFacts DEF NobodyInv, Tokens
<1> HIDE DEF x
<1> QED BY <1>1, <1>2, <1>3, QuietBegin

-----------------------------------------------------------------------------
(* Steps that begin a revocation.                                          *)
EndingStep(r) ==
  /\ TypeOK'
  /\ UNCHANGED <<user, token, spared>>
  /\ \A q \in Requests \ {r} : req'[q] = req[q]
  /\ req'[r].pc = "ending" /\ req'[r].tokens = LiveTokens
  /\ req[r].pc \in {"idle", "link", "changed"}
  /\ req'[r].for = "change" <=> req[r].pc = "changed"

LEMMA ReuseEnds ==
  ASSUME TypeOK, NEW r \in Requests, NEW t \in Tokens, RefreshReused(r, t)
  PROVE  EndingStep(r)
<1> DEFINE x == AtEnding(LiveTokens)
<1>1. x \in ReqType /\ x.pc = "ending" /\ x.for = "reuse" /\ x.tokens = LiveTokens
  BY AtEndingFacts, TypeFacts
<1>2. Begin(r, x) /\ UNCHANGED <<user, token, link, cuts, spared>>
  BY DEF RefreshReused, AtEnding
<1> HIDE DEF x
<1>3. req[r].pc = "idle" /\ Becomes(r, x)
  BY <1>1, <1>2, Begins
<1>4. TypeOK'
  BY <1>2, <1>3 DEF TypeOK, ReqType, Becomes, Tokens
<1> QED BY <1>1, <1>2, <1>3, <1>4 DEF EndingStep, Becomes

LEMMA LinkEnds ==
  ASSUME TypeOK, PurposeInv, NEW r \in Requests, EndSessions(r)
  PROVE  EndingStep(r)
<1> DEFINE ls == {req[r].link} \cup IF req[r].for = "reset" THEN LiveLinks("reset") ELSE {}
<1>1. ls \in SUBSET Nat /\ LiveTokens \in SUBSET Nat /\ "ending" \in Pcs
  <2>1. req[r].link \in Nat
    BY TypeFacts, Fields
  <2>2. LiveLinks("reset") \subseteq Nat
    BY TypeFacts DEF LiveLinks
  <2> QED BY <2>1, <2>2, TypeFacts, Names
<1>2. /\ req[r].pc = "link"
      /\ req' = [req EXCEPT ![r].pc = "ending", ![r].tokens = LiveTokens, ![r].links = ls]
      /\ UNCHANGED <<user, token, link, cuts, spared>>
  BY DEF EndSessions
<1> HIDE DEF ls
<1>3. /\ req' \in [Requests -> ReqType]
      /\ req'[r].pc = "ending" /\ req'[r].for = req[r].for /\ req'[r].tokens = LiveTokens
      /\ \A q \in Requests \ {r} : req'[q] = req[q]
  BY <1>1, <1>2, GoesOn, 0 \in Nat
<1>4. TypeOK'
  BY <1>2, <1>3 DEF TypeOK, ReqType, Tokens
<1> QED BY <1>2, <1>3, <1>4 DEF EndingStep, PurposeInv

LEMMA ChangeEnds ==
  ASSUME TypeOK, PurposeInv, NEW r \in Requests, RevokeAll(r)
  PROVE  EndingStep(r)
<1>1. LiveTokens \in SUBSET Nat /\ "ending" \in Pcs
  BY TypeFacts, Names
<1>2. /\ req[r].pc = "changed"
      /\ req' = [req EXCEPT ![r].pc = "ending", ![r].tokens = LiveTokens]
      /\ UNCHANGED <<user, token, link, cuts, spared>>
  BY DEF RevokeAll
<1>3. /\ req' \in [Requests -> ReqType]
      /\ req'[r].pc = "ending" /\ req'[r].for = req[r].for /\ req'[r].tokens = LiveTokens
      /\ \A q \in Requests \ {r} : req'[q] = req[q]
  BY <1>1, <1>2, GoesOn, 0 \in Nat
<1>4. TypeOK'
  BY <1>2, <1>3 DEF TypeOK, ReqType, Tokens
<1> QED BY <1>2, <1>3, <1>4 DEF EndingStep, PurposeInv

-----------------------------------------------------------------------------
(* What keeps the invariant.                                               *)
LEMMA QuietKeeps ==
  ASSUME IInv, QuietStep
  PROVE  IInv'
<1> USE DEF IInv, QuietStep
<1>1. Tokens' = Tokens /\ LiveTokens' = LiveTokens
  BY DEF Tokens, LiveTokens
<1>2. RootInv' /\ OneHeir'
  BY <1>1 DEF RootInv, OneHeir
<1>3. EndingInv'
  BY <1>1 DEF EndingInv, QuietMove
<1>4. PurposeInv'
  BY DEF PurposeInv, QuietMove
<1>5. NobodyInv'
  BY DEF NobodyInv, QuietMove
<1>6. OldSessionsEnd'
  <2>1. CASE user'.pw # user.pw
    <3>1. LiveTokens' = {}
      BY <1>1, <2>1, TypeFacts DEF Tokens, LiveTokens
    <3> QED BY <3>1 DEF OldSessionsEnd
  <2>2. CASE user'.pw = user.pw
    <3>1. \A q \in Requests : req[q].pc \in {"changed", "ending"} => req'[q] = req[q]
      BY DEF QuietMove
    <3> QED BY <1>1, <2>2, <3>1 DEF OldSessionsEnd
  <2> QED BY <2>1, <2>2
<1> QED BY <1>2, <1>3, <1>4, <1>5, <1>6

LEMMA EndingKeeps ==
  ASSUME IInv, NEW r \in Requests, EndingStep(r)
  PROVE  IInv'
<1> USE DEF IInv, EndingStep
<1>1. Tokens' = Tokens /\ LiveTokens' = LiveTokens
  BY DEF Tokens, LiveTokens
<1>2. RootInv' /\ OneHeir'
  BY <1>1 DEF RootInv, OneHeir
<1>3. EndingInv'
  BY <1>1 DEF EndingInv
<1>4. PurposeInv'
  BY DEF PurposeInv
<1>5. NobodyInv'
  BY DEF NobodyInv
<1>6. OldSessionsEnd'
  BY <1>1 DEF OldSessionsEnd
<1> QED BY <1>2, <1>3, <1>4, <1>5, <1>6

-----------------------------------------------------------------------------
(* Tokens.                                                                 *)
LEMMA NewTokenFacts ==
  ASSUME TypeOK, NEW pw \in Nat
  PROVE  /\ NewToken(pw) \in TokenType /\ NewToken(pw).live
         /\ NewToken(pw).pw = pw /\ NewToken(pw).root = Len(token) + 1
  BY TypeFacts DEF NewToken, TokenType

Ended(t) == [token EXCEPT ![t].live = FALSE]
Heir(t) == [token[t] EXCEPT !.live = TRUE]

LEMMA EndedFacts ==
  ASSUME TypeOK, NEW t \in Tokens
  PROVE  /\ Ended(t) \in Seq(TokenType) /\ Len(Ended(t)) = Len(token)
         /\ \A u \in Tokens \ {t} : Ended(t)[u] = token[u]
         /\ ~Ended(t)[t].live /\ Ended(t)[t].root = token[t].root
<1>1. token \in [1..Len(token) -> TokenType]
  BY TypeFacts, SeqIsFunction
<1>2. /\ Ended(t) \in [1..Len(token) -> TokenType]
      /\ \A u \in Tokens \ {t} : Ended(t)[u] = token[u]
      /\ ~Ended(t)[t].live /\ Ended(t)[t].root = token[t].root
  BY <1>1, TypeFacts DEF Ended, TokenType
<1> QED BY <1>2, FunctionIsSeq, TypeFacts

LEMMA HeirFacts ==
  ASSUME TypeOK, NEW t \in Tokens
  PROVE  /\ Heir(t) \in TokenType /\ Heir(t).live
         /\ Heir(t).pw = token[t].pw /\ Heir(t).root = token[t].root
  BY TypeFacts DEF Heir, TokenType

LEMMA RevokedFacts ==
  ASSUME TypeOK, NEW ts
  PROVE  /\ Revoked(ts) \in Seq(TokenType) /\ Len(Revoked(ts)) = Len(token)
         /\ \A t \in Tokens : /\ Revoked(ts)[t].root = token[t].root
                              /\ Revoked(ts)[t].pw = token[t].pw
                              /\ Revoked(ts)[t].live <=> token[t].live /\ t \notin ts
<1> DEFINE rest(t) == [token[t] EXCEPT !.live = @ /\ t \notin ts]
<1>1. \A t \in Tokens : /\ rest(t) \in TokenType
                        /\ rest(t).root = token[t].root /\ rest(t).pw = token[t].pw
                        /\ rest(t).live <=> token[t].live /\ t \notin ts
  BY TypeFacts DEF TokenType
<1>2. Revoked(ts) = [t \in Tokens |-> rest(t)]
  BY DEF Revoked
<1> HIDE DEF rest
<1>3. Revoked(ts) \in [1..Len(token) -> TokenType] /\ \A t \in Tokens : Revoked(ts)[t] = rest(t)
  BY <1>1, <1>2, TypeFacts
<1> QED BY <1>1, <1>3, FunctionIsSeq, TypeFacts

-----------------------------------------------------------------------------
LEMMA IssueKeeps ==
  ASSUME IInv, NEW r \in Requests, Issue(r)
  PROVE  IInv'
<1> DEFINE n == Len(token) + 1  new == NewToken(req[r].pw)
<1>1. TypeOK /\ req[r].pw \in Nat
  BY TypeFacts, Fields DEF IInv
<1>2. new \in TokenType /\ new.live /\ new.pw = req[r].pw /\ new.root = n
  BY <1>1, NewTokenFacts
<1>3. /\ token' = Append(token, new) /\ user' = user /\ link' = link /\ cuts' = cuts
      /\ spared \subseteq spared' /\ spared' \subseteq spared \cup {n}
      /\ req[r].pw # user.pw \/ Ending => n \in spared'
      /\ req[r].pc = "issue"
  BY DEF Issue, Escapes
<1>4. Becomes(r, Done) /\ Done.pc = "done"
  BY <1>1, SetsRequest, IdleFacts DEF Issue
<1> HIDE DEF new
<1>5. /\ token' \in Seq(TokenType) /\ Tokens' = Tokens \cup {n} /\ n \notin Tokens
      /\ Tokens = 1..Len(token) /\ Len(token) \in Nat /\ Len(token') = n
      /\ token'[n] = new /\ \A t \in Tokens : token'[t] = token[t]
  BY <1>1, <1>2, <1>3, Appended, TypeFacts, SeqIsFunction DEF Tokens
<1>6. LiveTokens' = LiveTokens \cup {n}
  BY <1>2, <1>5 DEF LiveTokens
<1>7. TypeOK'
  <2>1. spared' \subseteq Tokens'
    BY <1>1, <1>3, <1>5 DEF TypeOK
  <2> QED BY <1>1, <1>3, <1>4, <1>5, <2>1 DEF TypeOK, Becomes, ReqType, TokenType
<1>8. RootInv'
  BY <1>2, <1>5 DEF IInv, RootInv
<1>9. EndingInv'
  BY <1>3, <1>4, <1>6 DEF IInv, EndingInv, Ending, Becomes
<1>10. PurposeInv' /\ NobodyInv'
  BY <1>3, <1>4 DEF IInv, PurposeInv, NobodyInv, Becomes
<1>11. OneHeir'
  <2>1. \A t \in Tokens : token[t].root # n /\ token[t].root \in Nat
    BY <1>5 DEF IInv, RootInv
  <2> QED BY <1>2, <1>5, <1>6, <2>1 DEF IInv, OneHeir, LiveTokens
<1>12. OldSessionsEnd'
  <2>1. token'[n].pw = user'.pw \/ n \in spared'
    BY <1>2, <1>3, <1>5
  <2>2. \A q \in Requests : req[q].pc \in {"changed", "ending"} => req'[q] = req[q]
    BY <1>3, <1>4 DEF Becomes
  <2>3. \A t \in LiveTokens : token'[t] = token[t]
    BY <1>5 DEF LiveTokens
  <2> QED BY <1>3, <1>6, <2>1, <2>2, <2>3 DEF IInv, OldSessionsEnd
<1> QED BY <1>7, <1>8, <1>9, <1>10, <1>11, <1>12 DEF IInv

LEMMA RefreshKeeps ==
  ASSUME IInv, NEW r \in Requests, NEW t \in Tokens, Refresh(r, t)
  PROVE  IInv'
<1> DEFINE n == Len(token) + 1
<1>1. TypeOK /\ token[t].live
  BY DEF IInv, Refresh, Rotatable
<1>2. /\ token' = Append(Ended(t), Heir(t)) /\ user' = user /\ link' = link /\ cuts' = cuts
      /\ spared \subseteq spared' /\ spared' \subseteq spared \cup {n}
      /\ t \in spared \/ Ending => n \in spared'
  BY DEF Refresh, Rotated, Ended, Heir
<1>3. req[r].pc = "idle" /\ Becomes(r, Done) /\ Done.pc = "done"
  BY <1>1, Begins, IdleFacts DEF Refresh
<1>4. Heir(t) \in TokenType /\ Heir(t).live /\ Heir(t).pw = token[t].pw /\ Heir(t).root = token[t].root
  BY <1>1, HeirFacts
<1>5. /\ token' \in Seq(TokenType) /\ Tokens' = Tokens \cup {n} /\ n \notin Tokens
      /\ Tokens = 1..Len(token) /\ Len(token) \in Nat /\ Len(token') = n
      /\ token'[n] = Heir(t) /\ \A u \in Tokens \ {t} : token'[u] = token[u]
      /\ ~token'[t].live /\ token'[t].root = token[t].root
  <2>1. /\ Ended(t) \in Seq(TokenType) /\ Len(Ended(t)) = Len(token)
        /\ \A u \in Tokens \ {t} : Ended(t)[u] = token[u]
        /\ ~Ended(t)[t].live /\ Ended(t)[t].root = token[t].root
    BY <1>1, EndedFacts
  <2>2. Tokens = 1..Len(token) /\ Len(token) \in Nat
    BY <1>1, TypeFacts
  <2>3. /\ token' \in Seq(TokenType) /\ Len(token') = n
        /\ \A u \in Tokens : token'[u] = Ended(t)[u]
        /\ token'[n] = Heir(t)
    BY <1>2, <1>4, <2>1, <2>2, Appended
  <2>4. Tokens' = 1..n
    BY <2>3, SeqIsFunction DEF Tokens
  <2> QED BY <2>1, <2>2, <2>3, <2>4
<1>6. LiveTokens' = (LiveTokens \ {t}) \cup {n}
  BY <1>4, <1>5 DEF LiveTokens
<1>7. TypeOK'
  <2>1. spared' \subseteq Tokens'
    BY <1>1, <1>2, <1>5 DEF TypeOK
  <2> QED BY <1>1, <1>2, <1>3, <1>5, <2>1 DEF TypeOK, Becomes, ReqType, TokenType
<1>8. RootInv'
  <2>1. \A u \in Tokens : token'[u].root = token[u].root
    BY <1>5
  <2>2. token'[n].root = token[t].root
    BY <1>4, <1>5
  <2>3. \A u \in Tokens : token[u].root \in 1..n
    BY <1>5 DEF IInv, RootInv
  <2>4. \A u \in Tokens \cup {n} : token'[u].root \in 1..n
    BY <2>1, <2>2, <2>3
  <2>5. 1..n = 1..Len(token')
    BY <1>5
  <2>6. Tokens' = Tokens \cup {n}
    BY <1>5
  <2> QED BY <2>4, <2>5, <2>6, Zenon DEF RootInv
<1>9. EndingInv'
  BY <1>2, <1>3, <1>6 DEF IInv, EndingInv, Ending, Becomes
<1>10. PurposeInv' /\ NobodyInv'
  <2>1. user.exists
    BY <1>5 DEF IInv, NobodyInv
  <2> QED BY <1>2, <1>3, <2>1 DEF IInv, PurposeInv, NobodyInv, Becomes
<1>11. OneHeir'
  <2>1. \A u \in LiveTokens \ {t} : token'[u] = token[u] /\ token[u].root # token[t].root
    BY <1>1, <1>5 DEF IInv, OneHeir, LiveTokens
  <2> QED BY <1>4, <1>5, <1>6, <2>1 DEF IInv, OneHeir
<1>12. OldSessionsEnd'
  <2>1. \A q \in Requests : req[q].pc \in {"changed", "ending"} => req'[q] = req[q]
    BY <1>3 DEF Becomes
  <2>2. \A u \in LiveTokens \ {t} : token'[u] = token[u]
    BY <1>5 DEF LiveTokens
  <2>3. t \in LiveTokens
    BY <1>1 DEF LiveTokens
  <2>4. \/ token'[n].pw = user'.pw \/ n \in spared'
        \/ \E q \in Requests : req'[q].for = "change" /\ req'[q].pc \in {"changed", "ending"}
    BY <1>2, <1>4, <1>5, <2>1, <2>3 DEF IInv, OldSessionsEnd
  <2> QED BY <1>2, <1>6, <2>1, <2>2, <2>4 DEF IInv, OldSessionsEnd
<1> QED BY <1>7, <1>8, <1>9, <1>10, <1>11, <1>12 DEF IInv

LEMMA LogoutKeeps ==
  ASSUME IInv, NEW r \in Requests, NEW t \in Tokens, Logout(r, t)
  PROVE  IInv'
<1>1. TypeOK
  BY DEF IInv
<1>2. /\ token' = Ended(t)
      /\ UNCHANGED <<user, link, cuts, spared>>
  BY DEF Logout, Ended
<1>3. req[r].pc = "idle" /\ Becomes(r, Done) /\ Done.pc = "done"
  BY <1>1, Begins, IdleFacts DEF Logout
<1>4. /\ token' \in Seq(TokenType) /\ Len(token') = Len(token) /\ Tokens' = Tokens
      /\ Tokens = 1..Len(token)
      /\ \A u \in Tokens \ {t} : token'[u] = token[u]
      /\ ~token'[t].live /\ token'[t].root = token[t].root
  BY <1>1, <1>2, EndedFacts, TypeFacts, SeqIsFunction DEF Tokens
<1>5. LiveTokens' \subseteq LiveTokens /\ \A u \in LiveTokens' : token'[u] = token[u]
  BY <1>4 DEF LiveTokens
<1>6. TypeOK'
  BY <1>1, <1>2, <1>3, <1>4 DEF TypeOK, Becomes, ReqType, TokenType
<1>7. RootInv'
  <2>1. \A u \in Tokens : token'[u].root = token[u].root
    BY <1>4
  <2> QED BY <1>4, <2>1 DEF IInv, RootInv
<1>8. EndingInv'
  BY <1>2, <1>3, <1>5 DEF IInv, EndingInv, Becomes
<1>9. PurposeInv' /\ NobodyInv'
  <2>1. user.exists
    BY <1>4 DEF IInv, NobodyInv
  <2> QED BY <1>2, <1>3, <2>1 DEF IInv, PurposeInv, NobodyInv, Becomes
<1>10. OneHeir' /\ OldSessionsEnd'
  <2>1. \A q \in Requests : req[q].pc \in {"changed", "ending"} => req'[q] = req[q]
    BY <1>3 DEF Becomes
  <2>2. OneHeir'
    BY <1>5 DEF IInv, OneHeir
  <2>3. OldSessionsEnd'
    BY <1>2, <1>5, <2>1 DEF IInv, OldSessionsEnd
  <2> QED BY <2>2, <2>3
<1> QED BY <1>6, <1>7, <1>8, <1>9, <1>10 DEF IInv

LEMMA WriteKeeps ==
  ASSUME IInv, NEW r \in Requests, WritePassword(r)
  PROVE  IInv'
<1>1. TypeOK /\ user \in UserType /\ "changed" \in Pcs /\ user.pw + 1 \in Nat
  BY TypeFacts, Names DEF IInv, UserType
<1>2. req[r].pc = "changing" /\ UNCHANGED <<token, link, cuts, spared>>
  BY DEF WritePassword
<1>3. /\ req' \in [Requests -> ReqType]
      /\ req'[r].pc = "changed" /\ req'[r].for = req[r].for
      /\ \A q \in Requests \ {r} : req'[q] = req[q]
  BY <1>1, GoesOn, {} \in SUBSET Nat DEF WritePassword
<1>4. user' \in UserType /\ user'.exists = user.exists
  BY <1>1 DEF WritePassword, UserType
<1>5. Tokens' = Tokens /\ LiveTokens' = LiveTokens
  BY <1>2 DEF Tokens, LiveTokens
<1>6. TypeOK'
  BY <1>1, <1>2, <1>3, <1>4, <1>5 DEF TypeOK, ReqType, UserType
<1>7. RootInv' /\ OneHeir'
  BY <1>2, <1>5 DEF IInv, RootInv, OneHeir
<1>8. EndingInv'
  BY <1>2, <1>3, <1>5 DEF IInv, EndingInv
<1>9. PurposeInv' /\ NobodyInv'
  BY <1>2, <1>3, <1>4 DEF IInv, PurposeInv, NobodyInv
<1>10. OldSessionsEnd'
  BY <1>2, <1>3 DEF IInv, PurposeInv, OldSessionsEnd
<1> QED BY <1>6, <1>7, <1>8, <1>9, <1>10 DEF IInv

(* Once the revocation has taken effect, only spared tokens are left.      *)
LEMMA CommittedKeeps ==
  ASSUME IInv, NEW r \in Requests, Committed(r)
  PROVE  IInv'
<1> DEFINE x == IF req[r].for = "change" THEN AtIssue(req[r].pw) ELSE Done
<1>1. TypeOK /\ req[r].pc = "ending" /\ req[r] \in ReqType /\ UNCHANGED <<cuts, spared>>
  BY TypeFacts DEF IInv, Committed
<1>2. /\ x \in ReqType /\ x.pc \in {"issue", "done"}
      /\ x.pc = "issue" => req[r].for = "change"
  BY <1>1, IdleFacts, AtIssueFacts, Fields
<1>3. req' = [req EXCEPT ![r] = x] /\ token' = Revoked(req[r].tokens)
  BY DEF Committed, AtIssue
<1> HIDE DEF x
<1>4. Becomes(r, x)
  BY <1>1, <1>2, <1>3, SetsRequest
<1>5. /\ token' \in Seq(TokenType) /\ Len(token') = Len(token) /\ Tokens' = Tokens
      /\ Tokens = 1..Len(token)
      /\ \A t \in Tokens : /\ token'[t].root = token[t].root
                           /\ token'[t].live <=> token[t].live /\ t \notin req[r].tokens
  BY <1>1, <1>3, RevokedFacts, TypeFacts, SeqIsFunction DEF Tokens
<1>6. LiveTokens' \subseteq LiveTokens /\ LiveTokens' \subseteq spared'
  BY <1>1, <1>5 DEF IInv, EndingInv, LiveTokens
<1>7. user' \in UserType /\ user'.exists = user.exists
  <2> DEFINE changed == [user EXCEPT !.pw = @ + 1, !.must = FALSE, !.verified = TRUE]
  <2>1. user \in UserType
    BY <1>1, TypeFacts
  <2>2. changed \in UserType /\ changed.exists = user.exists
    <3>1. SUFFICES ASSUME NEW y, y = changed
                   PROVE  y \in UserType /\ y.exists = user.exists
      OBVIOUS
    <3>2. user.pw \in Nat /\ user.pw + 1 \in Nat /\ user.exists \in BOOLEAN
      BY <2>1 DEF UserType
    <3> QED BY <2>1, <3>1, <3>2 DEF UserType
  <2>3. user' = changed \/ user' = user
    BY Zenon DEF Committed
  <2> HIDE DEF changed
  <2> QED BY <2>1, <2>2, <2>3
<1>8. link' \in Seq(LinkType)
  <2> DEFINE old == Retired(req[r].links)
             spent(l) == [old[l] EXCEPT !.sets = IF l = req[r].link THEN @ + 1 ELSE @]
  <2>1. \A l \in Links : old[l] \in LinkType
    <3>1. old \in Seq(LinkType) /\ DOMAIN old = Links
      BY <1>1, RetiredTyped DEF Retired
    <3> HIDE DEF old
    <3> QED BY <3>1, SeqIsFunction
  <2>2. link' = [l \in Links |-> spent(l)]
    BY DEF Committed
  <2> HIDE DEF old
  <2>3. \A l \in Links : spent(l) \in LinkType
    BY <2>1 DEF LinkType
  <2> HIDE DEF spent
  <2>4. link' \in [1..Len(link) -> LinkType]
    BY <1>1, <2>2, <2>3, TypeFacts
  <2> QED BY <1>1, <2>4, FunctionIsSeq, TypeFacts
<1>9. TypeOK'
  BY <1>1, <1>4, <1>5, <1>7, <1>8 DEF TypeOK, Becomes, ReqType, TokenType, UserType, LinkType
<1>10. RootInv'
  BY <1>5 DEF IInv, RootInv
<1>11. EndingInv'
  BY <1>1, <1>2, <1>4, <1>6 DEF IInv, EndingInv, Becomes
<1>12. PurposeInv'
  BY <1>2, <1>4 DEF IInv, PurposeInv, Becomes
<1>13. NobodyInv'
  <2>1. token = <<>> => token' = <<>>
    BY <1>5, SeqIsFunction, TypeFacts
  <2> QED BY <1>1, <1>2, <1>4, <1>7, <2>1 DEF IInv, NobodyInv, Becomes
<1>14. OneHeir'
  BY <1>5, <1>6 DEF IInv, OneHeir, LiveTokens
<1>15. OldSessionsEnd'
  BY <1>6 DEF OldSessionsEnd
<1> QED BY <1>9, <1>10, <1>11, <1>12, <1>13, <1>14, <1>15 DEF IInv

LEMMA CutKeeps ==
  ASSUME IInv, NEW r \in Requests, Cut(r)
  PROVE  IInv'
<1>1. /\ TypeOK /\ UNCHANGED <<user, token, link>> /\ cuts' = cuts + 1
      /\ spared \subseteq spared' /\ spared' \subseteq spared \cup LiveTokens
      /\ req[r].pc = "changed" \/ (req[r].pc = "ending" /\ req[r].for = "change")
         => LiveTokens \subseteq spared'
  BY DEF IInv, Cut
<1>2. Becomes(r, Done) /\ Done.pc = "done"
  BY <1>1, SetsRequest, IdleFacts DEF Cut
<1>3. Tokens' = Tokens /\ LiveTokens' = LiveTokens /\ LiveTokens \subseteq Tokens
  BY <1>1 DEF Tokens, LiveTokens
<1>4. TypeOK'
  BY <1>1, <1>2, <1>3 DEF TypeOK, Becomes, ReqType
<1>5. RootInv' /\ OneHeir'
  BY <1>1, <1>3 DEF IInv, RootInv, OneHeir
<1>6. EndingInv'
  BY <1>1, <1>2, <1>3 DEF IInv, EndingInv, Becomes
<1>7. PurposeInv' /\ NobodyInv'
  BY <1>1, <1>2 DEF IInv, PurposeInv, NobodyInv, Becomes
<1>8. OldSessionsEnd'
  <2>1. CASE req[r].pc = "changed" \/ (req[r].pc = "ending" /\ req[r].for = "change")
    BY <1>1, <1>3, <2>1 DEF OldSessionsEnd
  <2>2. CASE ~(req[r].pc = "changed" \/ (req[r].pc = "ending" /\ req[r].for = "change"))
    <3>1. \A q \in Requests :
            req[q].for = "change" /\ req[q].pc \in {"changed", "ending"} => req'[q] = req[q]
      BY <1>2, <2>2 DEF Becomes
    <3> QED BY <1>1, <1>3, <3>1 DEF IInv, OldSessionsEnd
  <2> QED BY <2>1, <2>2
<1> QED BY <1>4, <1>5, <1>6, <1>7, <1>8 DEF IInv

-----------------------------------------------------------------------------
LEMMA InitHolds == Init => IInv
<1> SUFFICES ASSUME Init PROVE IInv
  OBVIOUS
<1> DEFINE one == [live |-> TRUE, pw |-> 1, root |-> 1]
<1>1. /\ link = <<>> /\ cuts = 0 /\ spared = {} /\ req = [r \in Requests |-> Idle]
      /\ \A r \in Requests : req[r].pc = "idle"
  BY IdleFacts DEF Init
<1>2. req \in [Requests -> ReqType] /\ link \in Seq(LinkType)
  BY <1>1, IdleFacts
<1>3. NoUser \in UserType /\ [NoUser EXCEPT !.exists = TRUE, !.pw = 1] \in UserType
  <2>1. NoUser \in UserType
    BY DEF NoUser, UserType
  <2> QED BY <2>1 DEF UserType
<1>4. one \in TokenType
  BY DEF TokenType
<1>5. \/ user \in UserType /\ token = <<>>
      \/ user \in UserType /\ user.exists /\ user.pw = 1 /\ token = <<one>>
  <2>1. [NoUser EXCEPT !.exists = TRUE, !.pw = 1].exists
    BY DEF NoUser
  <2>2. [NoUser EXCEPT !.exists = TRUE, !.pw = 1].pw = 1
    BY DEF NoUser
  <2> QED BY <1>3, <2>1, <2>2 DEF Init
<1>6. CASE token = <<>>
  <2>1. user \in UserType /\ token \in Seq(TokenType) /\ Tokens = {} /\ LiveTokens = {}
    BY <1>5, <1>6 DEF Tokens, LiveTokens
  <2>2. TypeOK
    BY <1>1, <1>2, <2>1 DEF TypeOK, UserType, TokenType, LinkType, ReqType
  <2> QED BY <1>1, <1>6, <2>1, <2>2
       DEF IInv, RootInv, EndingInv, PurposeInv, NobodyInv, OneHeir, OldSessionsEnd
<1>7. CASE user.exists /\ user.pw = 1 /\ token = <<one>>
  <2>1. token \in Seq(TokenType) /\ Tokens = {1} /\ Len(token) = 1 /\ token[1] = one
    BY <1>4, <1>7 DEF Tokens
  <2>2. one.pw = 1 /\ one.root = 1
    OBVIOUS
  <2> HIDE DEF one
  <2>3. TypeOK
    BY <1>1, <1>2, <1>5, <1>7, <2>1 DEF TypeOK, UserType, TokenType, LinkType, ReqType
  <2> QED BY <1>1, <1>7, <2>1, <2>2, <2>3
       DEF IInv, RootInv, EndingInv, PurposeInv, NobodyInv, OneHeir, OldSessionsEnd, LiveTokens
<1> QED BY <1>5, <1>6, <1>7

LEMMA StutterKeeps ==
  ASSUME IInv, UNCHANGED vars
  PROVE  IInv'
<1>1. QuietStep
  BY DEF IInv, vars, QuietStep, TypeOK, Tokens
<1> QED BY <1>1, QuietKeeps

LEMMA NextKeeps ==
  ASSUME IInv, [Next]_vars
  PROVE  IInv'
<1>1. TypeOK /\ PurposeInv /\ NobodyInv
  BY DEF IInv
<1>2. ASSUME NEW r \in Requests, NEW r2 \in Requests, Signup(r, r2) PROVE IInv'
  BY <1>1, <1>2, SignupIsQuiet, QuietKeeps
<1>3. ASSUME NEW r \in Requests, NEW t \in Tokens, SwitchTenant(r, t) PROVE IInv'
  BY <1>1, <1>3, SwitchIsQuiet, QuietKeeps
<1>4. ASSUME NEW r \in Requests, NEW t \in Tokens, Refresh(r, t) PROVE IInv'
  BY <1>4, RefreshKeeps
<1>5. ASSUME NEW r \in Requests, NEW t \in Tokens, RefreshReused(r, t) PROVE IInv'
  BY <1>1, <1>5, ReuseEnds, EndingKeeps
<1>6. ASSUME NEW r \in Requests, NEW t \in Tokens, Logout(r, t) PROVE IInv'
  BY <1>6, LogoutKeeps
<1>7. ASSUME NEW r \in Requests, NEW t \in Tokens, ChangePassword(r, t) PROVE IInv'
  BY <1>1, <1>7, ChangeIsQuiet, QuietKeeps
<1>8. ASSUME NEW r \in Requests, NEW l \in Links, ResetPassword(r, l) \/ AcceptSetup(r, l)
      PROVE  IInv'
  BY <1>1, <1>8, OpenIsQuiet, QuietKeeps DEF ResetPassword, AcceptSetup
<1>9. ASSUME NEW r \in Requests, NEW l \in Links, VerifyEmail(r, l) PROVE IInv'
  BY <1>1, <1>9, VerifyIsQuiet, QuietKeeps
<1>10. ASSUME NEW l \in Links, AnHourPasses(l) PROVE IInv'
  BY <1>1, <1>10, HourIsQuiet, QuietKeeps
<1>11. ASSUME NEW r \in Requests, Login(r) \/ GoogleCallback(r) PROVE IInv'
  BY <1>1, <1>11, LoginIsQuiet, GoogleIsQuiet, QuietKeeps
<1>12. ASSUME NEW r \in Requests, Issue(r) PROVE IInv'
  BY <1>12, IssueKeeps
<1>13. ASSUME NEW r \in Requests, CreateCompany(r) PROVE IInv'
  BY <1>1, <1>13, CreateIsQuiet, QuietKeeps
<1>14. ASSUME NEW r \in Requests,
              ForgotPassword(r) \/ ResendVerification(r) \/ ResendOwnerSetup(r)
       PROVE  IInv'
  <2>1. \E use \in LinkUses : AskFor(r, use)
    BY <1>14 DEF ForgotPassword, ResendVerification, ResendOwnerSetup, LinkUses
  <2> QED BY <1>1, <2>1, AskIsQuiet, QuietKeeps
<1>15. ASSUME NEW r \in Requests, RetireLinks(r) \/ MailLink(r) \/ MarkVerified(r) PROVE IInv'
  BY <1>1, <1>15, RetireIsQuiet, MailIsQuiet, MarkIsQuiet, QuietKeeps
<1>16. ASSUME NEW r \in Requests, EndSessions(r) \/ RevokeAll(r) PROVE IInv'
  BY <1>1, <1>16, LinkEnds, ChangeEnds, EndingKeeps
<1>17. ASSUME NEW r \in Requests, WritePassword(r) PROVE IInv'
  BY <1>17, WriteKeeps
<1>18. ASSUME NEW r \in Requests, Committed(r) PROVE IInv'
  BY <1>18, CommittedKeeps
<1>19. ASSUME NEW r \in Requests, Cut(r) PROVE IInv'
  BY <1>19, CutKeeps
<1> QED BY <1>2, <1>3, <1>4, <1>5, <1>6, <1>7, <1>8, <1>9, <1>10, <1>11, <1>12, <1>13, <1>14,
           <1>15, <1>16, <1>17, <1>18, <1>19, StutterKeeps DEF Next

THEOREM Inductive == Spec => []IInv
<1>1. IInv /\ [Next]_vars => IInv'
  BY NextKeeps
<1> QED BY <1>1, InitHolds, PTL DEF Spec

(* Type correctness of people, tokens, links and the requests about them.  *)
THEOREM TypeCorrect == Spec => []TypeOK
<1>1. IInv => TypeOK
  BY DEF IInv
<1> QED BY <1>1, Inductive, PTL

(* However often tokens are presented, at once and again, one sign-in has  *)
(* one living token (rotateRefreshToken).                                  *)
THEOREM OneHeirHolds == Spec => []OneHeir
<1>1. IInv => OneHeir
  BY DEF IInv
<1> QED BY <1>1, Inductive, PTL

(* No session outlives a change of password, except those that were being  *)
(* issued while it took effect (resetPassword, change-password).           *)
THEOREM OldSessionsEndHolds == Spec => []OldSessionsEnd
<1>1. IInv => OldSessionsEnd
  BY DEF IInv
<1> QED BY <1>1, Inductive, PTL
-----------------------------------------------------------------------------
(* Links, on top of the types.  LinkFrame: a step uses no link, and makes  *)
(* none work again.  KeepsHold: a request lets its link go, or holds it on.*)
LinkFrame ==
  /\ Links \subseteq Links' /\ 0 \notin Links'
  /\ \A l \in Links : link'[l].sets = link[l].sets /\ (link'[l].live => link[l].live)
  /\ \A l \in Links' \ Links : link'[l].sets = 0

KeepsHold(r) ==
  \/ req'[r].link = 0
  \/ /\ req'[r].link = req[r].link /\ req'[r].pc \in {"link", "ending"}
     /\ req'[r].pc = "ending" => req'[r].link \in req'[r].links

LinkStep ==
  \A l \in Links : link'[l].sets <= 1 /\ (~link[l].live => ~link'[l].live)

LEMMA FrameKeeps ==
  ASSUME TypeOK, LinkInv, LinkFrame, \A r \in Requests : KeepsHold(r)
  PROVE  LinkInv' /\ LinkStep
<1>1. 0 \notin Links /\ \A l \in Links : link[l].sets \in Nat
  BY TypeFacts DEF LinkType
<1>2. \A l \in Links' : link'[l].sets <= 1 /\ (link'[l].live => link'[l].sets = 0)
  BY <1>1 DEF LinkInv, LinkFrame
<1>3. ASSUME NEW r \in Requests PROVE HeldLinkIsUnused(r)'
  <2>1. KeepsHold(r) /\ HeldLinkIsUnused(r)
    BY DEF LinkInv
  <2> QED BY <2>1 DEF HeldLinkIsUnused, KeepsHold, LinkFrame
<1>4. \A r, q \in Requests : req'[r].link = req'[q].link /\ req'[r].link # 0 => r = q
  BY DEF LinkInv, KeepsHold
<1>5. LinkStep
  BY <1>2 DEF LinkStep, LinkFrame
<1> QED BY <1>2, <1>3, <1>4, <1>5 DEF LinkInv

(* Requests that do not move hold what they held.                          *)
LEMMA OthersHold ==
  ASSUME LinkInv, NEW r \in Requests, KeepsHold(r),
         \A q \in Requests \ {r} : req'[q] = req[q]
  PROVE  \A q \in Requests : KeepsHold(q)
BY DEF LinkInv, HeldLinkIsUnused, KeepsHold

LEMMA SameLinks ==
  ASSUME TypeOK, UNCHANGED link
  PROVE  LinkFrame
BY TypeFacts DEF LinkFrame, Links

LEMMA RetiredFacts ==
  ASSUME TypeOK, NEW ls
  PROVE  /\ Retired(ls) \in Seq(LinkType) /\ Len(Retired(ls)) = Len(link)
         /\ \A l \in Links : /\ Retired(ls)[l].sets = link[l].sets
                             /\ Retired(ls)[l].live <=> link[l].live /\ l \notin ls
<1>1. Retired(ls) \in Seq(LinkType)
  BY RetiredTyped
<1>2. Len(Retired(ls)) = Len(link)
  BY <1>1, TypeFacts, SeqIsFunction DEF Retired
<1>3. ASSUME NEW l \in Links
      PROVE  /\ Retired(ls)[l].sets = link[l].sets
             /\ Retired(ls)[l].live <=> link[l].live /\ l \notin ls
  BY TypeFacts DEF Retired, LinkType
<1> QED BY <1>1, <1>2, <1>3

LEMMA RetiresLinks ==
  ASSUME TypeOK, NEW ls, link' = Retired(ls)
  PROVE  LinkFrame
<1>1. Links' = Links /\ 0 \notin Links'
  BY TypeFacts, RetiredFacts, SeqIsFunction DEF Links
<1> QED BY <1>1, RetiredFacts DEF LinkFrame

LEMMA MailsLink ==
  ASSUME TypeOK, NEW ls, NEW use \in LinkUses, link' = Append(Retired(ls), NewLink(use))
  PROVE  LinkFrame
<1> DEFINE n == Len(link)
<1>1. n \in Nat /\ Links = 1..n
  BY TypeFacts
<1>2. NewLink(use) \in LinkType /\ NewLink(use).sets = 0
  BY NewLinkTyped DEF NewLink
<1>3. /\ link' \in Seq(LinkType) /\ Len(link') = n + 1 /\ link'[n + 1] = NewLink(use)
      /\ \A l \in 1..n : link'[l] = Retired(ls)[l]
  BY <1>2, RetiredFacts, Appended
<1>4. Links' = 1..(n + 1)
  BY <1>3, SeqIsFunction DEF Links
<1> QED BY <1>1, <1>2, <1>3, <1>4, RetiredFacts DEF LinkFrame

LEMMA AddsLink ==
  ASSUME TypeOK, NEW use \in LinkUses, link' = Append(link, NewLink(use))
  PROVE  LinkFrame
<1> DEFINE n == Len(link)
<1>1. n \in Nat /\ Links = 1..n /\ link \in Seq(LinkType)
  BY TypeFacts
<1>2. NewLink(use) \in LinkType /\ NewLink(use).sets = 0
  BY NewLinkTyped DEF NewLink
<1>3. /\ link' \in Seq(LinkType) /\ Len(link') = n + 1 /\ link'[n + 1] = NewLink(use)
      /\ \A l \in 1..n : link'[l] = link[l]
  BY <1>1, <1>2, Appended
<1>4. Links' = 1..(n + 1)
  BY <1>3, SeqIsFunction DEF Links
<1> QED BY <1>1, <1>2, <1>3, <1>4 DEF LinkFrame

(* A request that begins without a link, goes on without one, or ends.     *)
LEMMA BeginsFree ==
  ASSUME TypeOK, LinkInv, LinkFrame, NEW r \in Requests, NEW x \in ReqType, Begin(r, x), x.link = 0
  PROVE  LinkInv' /\ LinkStep
<1>1. Becomes(r, x)
  BY Begins
<1>2. KeepsHold(r)
  BY <1>1 DEF Becomes, KeepsHold
<1> QED BY <1>1, <1>2, OthersHold, FrameKeeps DEF Becomes

LEMMA LetsGo ==
  ASSUME TypeOK, LinkInv, LinkFrame, NEW r \in Requests, req' = [req EXCEPT ![r] = Done]
  PROVE  LinkInv' /\ LinkStep
<1>1. Done \in ReqType /\ Done.link = 0
  BY IdleFacts DEF Done, Idle
<1>2. Becomes(r, Done)
  BY <1>1, SetsRequest
<1>3. KeepsHold(r)
  BY <1>1, <1>2 DEF Becomes, KeepsHold
<1> QED BY <1>2, <1>3, OthersHold, FrameKeeps DEF Becomes

LEMMA GoesOnFree ==
  ASSUME TypeOK, LinkInv, LinkFrame, NEW r \in Requests,
         req[r].pc \notin {"link", "ending"}, req'[r].link = req[r].link,
         \A q \in Requests \ {r} : req'[q] = req[q]
  PROVE  LinkInv' /\ LinkStep
<1>1. KeepsHold(r)
  BY DEF LinkInv, HeldLinkIsUnused, KeepsHold
<1> QED BY <1>1, OthersHold, FrameKeeps

LEMMA Linkless ==
  /\ Done.link = 0 /\ AtConfirm.link = 0 /\ AtChanging.link = 0
  /\ \A pw : AtIssue(pw).link = 0
  /\ \A use : AtMail(use).link = 0
  /\ \A ts : AtEnding(ts).link = 0
<1>1. Idle.link = 0
  BY DEF Idle
<1> QED BY <1>1 DEF Done, AtConfirm, AtChanging, AtIssue, AtMail, AtEnding, Idle

LEMMA EndSessionsHolds ==
  ASSUME TypeOK, LinkInv, NEW r \in Requests, EndSessions(r)
  PROVE  LinkInv' /\ LinkStep
<1>1. req \in [Requests -> ReqType]
  BY TypeFacts
<1>2. req'[r].link = req[r].link /\ req'[r].pc = "ending" /\ req'[r].link \in req'[r].links
  BY <1>1 DEF EndSessions, ReqType
<1>3. \A q \in Requests \ {r} : req'[q] = req[q]
  BY <1>1 DEF EndSessions
<1>4. LinkFrame
  BY SameLinks DEF EndSessions
<1>5. KeepsHold(r)
  BY <1>2 DEF KeepsHold
<1> QED BY <1>3, <1>4, <1>5, OthersHold, FrameKeeps

(* The lock: nobody else holds the link that is opened.                    *)
LEMMA OpenLinkHolds ==
  ASSUME TypeOK, LinkInv, NEW r \in Requests, NEW l \in Links,
         NEW use \in {"reset", "setup"}, OpenLink(r, l, use)
  PROVE  LinkInv' /\ LinkStep
<1>1. l \in Nat /\ l # 0
  BY TypeFacts
<1>2. AtLink(use, l) \in ReqType /\ AtLink(use, l).pc = "link"
  BY <1>1, AtLinkFacts, Names
<1>3. AtLink(use, l).link = l
  BY DEF AtLink, Idle
<1>4. Becomes(r, AtLink(use, l))
  BY <1>2, Begins DEF OpenLink, AtLink
<1>5. req'[r].link = l /\ req'[r].pc = "link" /\ \A q \in Requests \ {r} : req'[q] = req[q]
  BY <1>2, <1>3, <1>4 DEF Becomes
<1>6. link' = link /\ Links' = Links /\ link[l].sets = 0
  BY DEF OpenLink, LinkInv, Links
<1>7. \A q \in Requests : req[q].link # l
  BY <1>1 DEF OpenLink, Locked, LinkInv, HeldLinkIsUnused
<1>8. HeldLinkIsUnused(r)'
  BY <1>5, <1>6 DEF HeldLinkIsUnused
<1>9. ASSUME NEW q \in Requests \ {r} PROVE HeldLinkIsUnused(q)'
  BY <1>5, <1>6 DEF LinkInv, HeldLinkIsUnused
<1>10. \A p, q \in Requests : req'[p].link = req'[q].link /\ req'[p].link # 0 => p = q
  BY <1>5, <1>7 DEF LinkInv
<1> QED BY <1>6, <1>8, <1>9, <1>10 DEF LinkInv, LinkStep

LEMMA CommittedHolds ==
  ASSUME TypeOK, LinkInv, NEW r \in Requests, Committed(r)
  PROVE  LinkInv' /\ LinkStep
<1> DEFINE old == Retired(req[r].links)
           y == IF req[r].for = "change" THEN AtIssue(req[r].pw) ELSE Done
<1>1. 0 \notin Links /\ Links = 1..Len(link) /\ Len(link) \in Nat
  BY TypeFacts
<1>2. /\ old \in Seq(LinkType)
      /\ \A l \in Links : old[l].sets = link[l].sets /\ (old[l].live <=> link[l].live /\ l \notin req[r].links)
      /\ \A l \in Links : old[l] \in LinkType
  BY <1>1, RetiredFacts, SeqIsFunction
<1>3. Links' = Links
  BY DEF Committed, Links
<1>4. ASSUME NEW l \in Links
      PROVE  /\ link'[l].sets = IF l = req[r].link THEN link[l].sets + 1 ELSE link[l].sets
             /\ link'[l].live <=> link[l].live /\ l \notin req[r].links
  <2>1. link'[l] = [old[l] EXCEPT !.sets = IF l = req[r].link THEN @ + 1 ELSE @]
    BY DEF Committed
  <2> QED BY <1>2, <2>1 DEF LinkType
<1>5. y \in ReqType /\ y.link = 0
  BY TypeFacts, Fields, AtIssueFacts, IdleFacts, Linkless
<1>6. Becomes(r, y)
  BY <1>5, SetsRequest DEF Committed, AtIssue
<1> HIDE DEF old, y
<1>7. req'[r].link = 0 /\ \A q \in Requests \ {r} : req'[q] = req[q]
  BY <1>5, <1>6 DEF Becomes
<1>8. req[r].link # 0 => link[req[r].link].sets = 0 /\ req[r].link \in req[r].links
  BY DEF LinkInv, HeldLinkIsUnused, Committed
<1>9. \A l \in Links : link[l].sets \in Nat /\ link[l].sets <= 1 /\ (link[l].live => link[l].sets = 0)
  BY TypeFacts DEF LinkInv, LinkType
<1>10. ASSUME NEW l \in Links
       PROVE  /\ link'[l].sets <= 1 /\ (link'[l].live => link'[l].sets = 0)
              /\ ~link[l].live => ~link'[l].live
  BY <1>1, <1>4, <1>8, <1>9
<1>11. ASSUME NEW q \in Requests \ {r}, req[q].link # 0
       PROVE  req[q].link \in Links /\ link'[req[q].link].sets = 0
  BY <1>4, <1>11 DEF LinkInv, HeldLinkIsUnused
<1>12. ASSUME NEW q \in Requests PROVE HeldLinkIsUnused(q)'
  BY <1>3, <1>7, <1>11 DEF LinkInv, HeldLinkIsUnused
<1>13. \A p, q \in Requests : req'[p].link = req'[q].link /\ req'[p].link # 0 => p = q
  BY <1>7 DEF LinkInv
<1> QED BY <1>3, <1>10, <1>12, <1>13 DEF LinkInv, LinkStep

LEMMA InitLinks ==
  ASSUME Init
  PROVE  LinkInv
<1>1. Links = {} /\ \A r \in Requests : req[r].link = 0
  BY DEF Init, Links, Idle
<1> QED BY <1>1 DEF LinkInv, HeldLinkIsUnused

LEMMA SignupLinks ==
  ASSUME TypeOK, LinkInv, NEW r \in Requests, NEW r2 \in Requests, Signup(r, r2)
  PROVE  LinkInv' /\ LinkStep
<1>1. req \in [Requests -> ReqType]
  BY TypeFacts
<1>2. /\ req'[r] = AtIssue(1) /\ req'[r2] = AtMail("verify")
      /\ \A q \in Requests \ {r, r2} : req'[q] = req[q]
  BY <1>1 DEF Signup, AtIssue, AtMail
<1>3. LinkFrame
  BY SameLinks DEF Signup
<1>4. \A q \in Requests \ {r, r2} : KeepsHold(q)
  BY <1>2 DEF LinkInv, HeldLinkIsUnused, KeepsHold
<1>5. KeepsHold(r) /\ KeepsHold(r2)
  BY <1>2, Linkless DEF KeepsHold
<1> QED BY <1>3, <1>4, <1>5, FrameKeeps

LEMMA NextLinks ==
  ASSUME TypeOK, PurposeInv, LinkInv, [Next]_vars
  PROVE  LinkInv' /\ LinkStep
<1> DEFINE Goal == LinkInv' /\ LinkStep
<1>1. req \in [Requests -> ReqType] /\ \A t \in Tokens : token[t].pw \in Nat
  BY TypeFacts DEF TokenType
<1>2. ASSUME NEW r \in Requests, NEW t \in Tokens, SwitchTenant(r, t) PROVE Goal
  BY <1>1, <1>2, AtIssueFacts, Linkless, SameLinks, BeginsFree DEF SwitchTenant, AtIssue
<1>3. ASSUME NEW r \in Requests, NEW t \in Tokens, Refresh(r, t) \/ Logout(r, t) PROVE Goal
  BY <1>3, IdleFacts, Linkless, SameLinks, BeginsFree DEF Refresh, Logout
<1>4. ASSUME NEW r \in Requests, NEW t \in Tokens, RefreshReused(r, t) PROVE Goal
  BY <1>4, TypeFacts, AtEndingFacts, Linkless, SameLinks, BeginsFree DEF RefreshReused, AtEnding
<1>5. ASSUME NEW r \in Requests, NEW t \in Tokens, ChangePassword(r, t) PROVE Goal
  BY <1>5, AtChangingFacts, Linkless, SameLinks, BeginsFree DEF ChangePassword, AtChanging
<1>6. ASSUME NEW r \in Requests, NEW l \in Links, ResetPassword(r, l) \/ AcceptSetup(r, l)
      PROVE  Goal
  BY <1>6, OpenLinkHolds DEF ResetPassword, AcceptSetup
<1>7. ASSUME NEW r \in Requests, NEW l \in Links, VerifyEmail(r, l) PROVE Goal
  BY <1>7, AtConfirmFacts, Linkless, RetiresLinks, BeginsFree DEF VerifyEmail, AtConfirm
<1>8. ASSUME NEW l \in Links, AnHourPasses(l) PROVE Goal
  <2>1. LinkFrame
    BY <1>8, TypeFacts DEF AnHourPasses, LinkFrame, Links, LinkType
  <2>2. \A r \in Requests : KeepsHold(r)
    BY <1>8 DEF AnHourPasses, LinkInv, HeldLinkIsUnused, KeepsHold
  <2> QED BY <2>1, <2>2, FrameKeeps
<1>9. ASSUME NEW r \in Requests, Login(r) \/ GoogleCallback(r) PROVE Goal
  <2>1. user.pw \in Nat
    BY TypeFacts DEF UserType
  <2> QED BY <1>9, <2>1, AtIssueFacts, Linkless, SameLinks, BeginsFree
          DEF Login, GoogleCallback, AtIssue
<1>10. ASSUME NEW r \in Requests, Issue(r) PROVE Goal
  BY <1>10, SameLinks, LetsGo DEF Issue
<1>11. ASSUME NEW r \in Requests, CreateCompany(r) PROVE Goal
  BY <1>11, Names, IdleFacts, Linkless, AddsLink, BeginsFree DEF CreateCompany
<1>12. ASSUME NEW r \in Requests, ForgotPassword(r) \/ ResendVerification(r) \/ ResendOwnerSetup(r)
       PROVE  Goal
  <2>1. PICK use \in LinkUses : AskFor(r, use)
    BY <1>12 DEF ForgotPassword, ResendVerification, ResendOwnerSetup, LinkUses
  <2> QED BY <2>1, AtMailFacts, Linkless, SameLinks, BeginsFree DEF AskFor, AtMail
<1>13. ASSUME NEW r \in Requests, RetireLinks(r) \/ WritePassword(r) \/ RevokeAll(r) PROVE Goal
  <2>1. LinkFrame /\ req[r].pc \notin {"link", "ending"}
    BY <1>13, SameLinks DEF RetireLinks, WritePassword, RevokeAll
  <2>2. req'[r].link = req[r].link /\ \A q \in Requests \ {r} : req'[q] = req[q]
    BY <1>1, <1>13 DEF RetireLinks, WritePassword, RevokeAll, ReqType
  <2> QED BY <2>1, <2>2, GoesOnFree
<1>14. ASSUME NEW r \in Requests, MailLink(r) PROVE Goal
  <2>1. req[r].for \in LinkUses
    BY <1>14 DEF MailLink, PurposeInv
  <2>2. LinkFrame
    BY <1>14, <2>1, MailsLink DEF MailLink
  <2> QED BY <1>14, <2>2, LetsGo DEF MailLink
<1>15. ASSUME NEW r \in Requests, MarkVerified(r) \/ Cut(r) PROVE Goal
  BY <1>15, SameLinks, LetsGo DEF MarkVerified, Cut
<1>16. ASSUME NEW r \in Requests, EndSessions(r) \/ Committed(r) PROVE Goal
  BY <1>16, EndSessionsHolds, CommittedHolds
<1>17. ASSUME UNCHANGED vars PROVE Goal
  <2>1. LinkFrame
    BY <1>17, SameLinks DEF vars
  <2>2. \A r \in Requests : KeepsHold(r)
    BY <1>17 DEF vars, LinkInv, HeldLinkIsUnused, KeepsHold
  <2> QED BY <2>1, <2>2, FrameKeeps
<1> QED BY <1>2, <1>3, <1>4, <1>5, <1>6, <1>7, <1>8, <1>9, <1>10, <1>11, <1>12, <1>13, <1>14,
           <1>15, <1>16, <1>17, SignupLinks DEF Next

(* A link out of an e-mail sets at most one password, however often and    *)
(* from however many devices it is opened, and one that was retired, used  *)
(* or is too old never works again (resetPassword, accept-invite).         *)
THEOREM LinkWorksOnceHolds == Spec => LinkWorksOnce
<1> DEFINE Step == (\A l \in Links : link'[l].sets <= 1)
                   /\ (\A l \in Links : ~link[l].live => ~link'[l].live)
<1>1. Init => LinkInv
  BY InitLinks
<1>2. IInv /\ LinkInv /\ [Next]_vars => LinkInv' /\ [Step]_vars
  <2>1. SUFFICES ASSUME IInv, LinkInv, [Next]_vars PROVE LinkInv' /\ Step
    OBVIOUS
  <2> QED BY <2>1, NextLinks DEF IInv, LinkStep
<1> QED BY <1>1, <1>2, Inductive, PTL DEF Spec, LinkWorksOnce

-----------------------------------------------------------------------------
(* A behaviour of MCPeople is one of the part that runs.                   *)

(* Of sign-ins, MCPeople does what SignIn does, or nothing: what is proved *)
(* of that holds of it.                                                    *)
THEOREM RunsSignIn == SpecMC => Spec
<1>1. InitMC => Init
  BY DEF InitMC
<1>2. [NextMC]_all => [Next]_vars
  BY DEF NextMC, all, account, vars
<1> QED BY <1>1, <1>2, PTL DEF SpecMC, Spec

LEMMA PartStep ==
  ASSUME [NextMC]_all
  PROVE  /\ part' = part
         /\ part \in {"turns", "race"} => [C!Next]_(C!vars)
         /\ part = "workflow" => [W!Next]_(W!vars)
         /\ part = "router" => [A!Next]_(A!vars)
         /\ part = "openRouter" => [O!Next]_(O!vars)
         /\ part \in {"learning", "sites"} => [K!Next]_(K!vars)
<1>1. CASE NextMC
  BY <1>1 DEF NextMC, Riwo, Learns, Asking
<1>2. CASE UNCHANGED all
  BY <1>2 DEF all, riwo, C!vars, C!people, C!rows, C!texts, workflow, W!vars, W!history,
       router, A!vars, openRouter, O!vars, learning, K!vars
<1> QED BY <1>1, <1>2

LEMMA PartInit ==
  ASSUME InitMC
  PROVE  /\ part \in {"turns", "race"} => C!Init
         /\ part = "workflow" => W!Init
         /\ part = "router" => A!Init
         /\ part = "openRouter" => O!Init
         /\ part \in {"learning", "sites"} => K!Init
  BY DEF InitMC

-----------------------------------------------------------------------------
(* Riwo's chats.                                                           *)

(* No text is on its way for a message that is to be left alone: who looks *)
(* before it sends finds the answer.                                       *)
Leaving(w, n) == riwoPump[w].re = n /\ riwoPump[w].pc \in {"send", "formal"}
QuietInv ==
  /\ kind \in C!Kinds /\ riwoSaid \in Seq(C!Words)
  /\ riwoAnswered \subseteq C!Here /\ quiet \subseteq riwoAnswered
  /\ DOMAIN riwoPump = Servers
  /\ \A w \in Servers : {"pc", "re"} \subseteq DOMAIN riwoPump[w]
  /\ \A n \in quiet, w \in Servers : ~Leaving(w, n)

LEMMA QuietInit == ASSUME C!Init PROVE QuietInv
  BY DEF C!Init, C!Rest, QuietInv, Leaving

(* A step of process w: a text it is about to send is for a message nobody *)
(* has answered.                                                           *)
Moves(w) ==
  /\ UNCHANGED <<riwoAnswered, quiet, riwoSaid, kind>>
  /\ DOMAIN riwoPump' = Servers
  /\ \A v \in Servers \ {w} : riwoPump'[v] = riwoPump[v]
  /\ {"pc", "re"} \subseteq DOMAIN riwoPump'[w]
  /\ riwoPump'[w].pc \notin {"send", "formal"} \/ riwoPump'[w].re \notin riwoAnswered

LEMMA MovesKeeps == ASSUME QuietInv, NEW w \in Servers, Moves(w) PROVE QuietInv'
  BY DEF QuietInv, Leaving, Moves, C!Here

LEMMA AfterMoves ==
  ASSUME QuietInv, NEW w \in Servers, UNCHANGED <<riwoAnswered, quiet, riwoSaid, kind>>,
         NEW p, {"pc", "re"} \subseteq DOMAIN p, C!After(w, p)
  PROVE  Moves(w)
  BY DEF QuietInv, Moves, C!After, C!Rest

LEMMA GotoMoves ==
  ASSUME QuietInv, NEW w \in Servers, UNCHANGED <<riwoAnswered, quiet, riwoSaid, kind>>,
         NEW pc, C!Goto(w, pc), pc \notin {"send", "formal"} \/ riwoPump[w].re \notin riwoAnswered
  PROVE  Moves(w)
  BY DEF QuietInv, Moves, C!Goto

LEMMA SkipMoves ==
  ASSUME QuietInv, NEW w \in Servers, UNCHANGED <<riwoAnswered, quiet, riwoSaid, kind>>,
         C!Skip(w) \/ C!Fail(w) 
  PROVE  Moves(w)
<1>1. {"pc", "re"} \subseteq DOMAIN riwoPump[w]
  BY DEF QuietInv
<1>2. {"pc", "re"} \subseteq DOMAIN [riwoPump[w] EXCEPT !.failed = TRUE]
  BY <1>1
<1> QED BY <1>1, <1>2, AfterMoves DEF C!Skip, C!Fail

LEMMA ToSayMoves ==
  ASSUME QuietInv, NEW w \in Servers, UNCHANGED <<riwoAnswered, quiet, riwoSaid, kind>>,
         NEW key, NEW then, C!ToSay(w, key, then)
  PROVE  Moves(w)
  BY DEF QuietInv, Moves, C!ToSay

(* What a process does that sends nothing.                                 *)
LEMMA SilentWork ==
  ASSUME QuietInv, NEW w \in Servers,
         \/ \E n \in C!Msgs : C!Take(w, n)
         \/ C!Consider(w) \/ C!Begin(w) \/ C!Turn(w) \/ C!Unavailable(w) \/ C!Answer(w) \/ C!AnswerSales(w)
         \/ C!Check(w) \/ C!AfterSending(w) \/ C!Hand(w) \/ C!Mark(w) \/ C!Release(w) \/ C!Finish(w)
         \/ C!Count(w) \/ C!Close(w) \/ C!ModelFails(w) \/ C!Crash(w) \/ C!StatementFails(w)
  PROVE  Moves(w) /\ riwoSent' = riwoSent
<1>0. UNCHANGED <<riwoAnswered, quiet, riwoSaid, riwoSent, kind>>
  BY DEF C!Take, C!Consider, C!Begin, C!Turn, C!Unavailable, C!Answer, C!AnswerSales, C!Check, C!AfterSending,
         C!Hand, C!Mark, C!Release, C!Finish, C!Count, C!Close, C!ModelFails, C!Crash, C!StatementFails,
         C!Quiet, C!people, C!texts
<1>1. ASSUME NEW n \in C!Msgs, C!Take(w, n) PROVE Moves(w)
  BY <1>0, <1>1 DEF C!Take, C!Rest, QuietInv, Moves
<1>2. CASE C!Consider(w)
  <2>1. C!Mode(w) \in {"none", "check", "begin", "turn", "release"}
    BY DEF C!Mode
  <2>2. CASE C!Mode(w) \in {"none", "release"}
    <3>1. C!After(w, riwoPump[w])
      BY <1>2, <2>2 DEF C!Consider
    <3> QED BY <1>0, <3>1, AfterMoves DEF QuietInv
  <2>3. CASE C!Mode(w) \notin {"none", "release"} /\ C!Exec(w) = "completed"
    <3>1. C!After(w, [riwoPump[w] EXCEPT !.replied = TRUE])
      BY <1>2, <2>1, <2>3 DEF C!Consider
    <3> QED BY <1>0, <3>1, AfterMoves DEF QuietInv
  <2>4. CASE C!Mode(w) \notin {"none", "release"} /\ C!Exec(w) = "skipped"
    <3>1. C!After(w, riwoPump[w])
      BY <1>2, <2>1, <2>4 DEF C!Consider
    <3> QED BY <1>0, <3>1, AfterMoves DEF QuietInv
  <2>5. CASE C!Mode(w) \notin {"none", "release"} /\ C!Exec(w) \notin {"completed", "skipped"}
    <3>1. C!Skip(w) \/ C!Perform(w)
      BY <1>2, <2>1, <2>5 DEF C!Consider
    <3>2. ASSUME C!Perform(w) PROVE Moves(w)
      BY <1>0, <2>1, <3>2 DEF C!Perform, QuietInv, Moves
    <3> QED BY <1>0, <3>1, <3>2, SkipMoves
  <2> QED BY <2>2, <2>3, <2>4, <2>5
<1>3. CASE C!Begin(w)
  <2>1. kind \in {"agent", "sales", "riwo"}
    BY DEF QuietInv, C!Kinds
  <2>2. CASE kind = "agent"
    BY <1>0, <1>3, <2>2, SkipMoves, GotoMoves DEF C!Begin
  <2>3. CASE kind = "sales"
    BY <1>0, <1>3, <2>3, SkipMoves, GotoMoves, ToSayMoves DEF C!Begin
  <2>4. CASE kind = "riwo"
    BY <1>0, <1>3, <2>4, SkipMoves, ToSayMoves DEF C!Begin
  <2> QED BY <2>1, <2>2, <2>3, <2>4
<1>4. CASE C!Turn(w)
  <2>1. CASE hold.st # "active"
    BY <1>0, <1>4, <2>1, SkipMoves DEF C!Turn
  <2>2. CASE hold.st = "active" /\ C!Told(riwoPump[w].re)
    BY <1>0, <1>4, <2>2, GotoMoves DEF C!Turn
  <2>3. CASE hold.st = "active" /\ ~C!Told(riwoPump[w].re) /\ riwoPump[w].re \in riwoAnswered
    BY <1>0, <1>4, <2>3, SkipMoves DEF C!Turn
  <2>4. CASE hold.st = "active" /\ ~C!Told(riwoPump[w].re) /\ riwoPump[w].re \notin riwoAnswered
    BY <1>0, <1>4, <2>4, SkipMoves, GotoMoves, ToSayMoves DEF C!Turn, QuietInv, Moves
  <2> QED BY <2>1, <2>2, <2>3, <2>4
<1>5. CASE C!Unavailable(w) \/ C!Answer(w) \/ C!AnswerSales(w)
  BY <1>0, <1>5, SkipMoves, GotoMoves, ToSayMoves DEF C!Unavailable, C!Answer, C!AnswerSales, C!NeedsPerson
<1>6. CASE C!Check(w)
  BY <1>0, <1>6, SkipMoves, GotoMoves DEF C!Check, C!Unanswered
<1>7. CASE C!Hand(w)
  BY <1>0, <1>7, SkipMoves, GotoMoves DEF C!Hand
<1>8. CASE C!Mark(w) \/ C!Release(w)
  BY <1>0, <1>8, GotoMoves DEF C!Mark, C!Release
<1>9. CASE C!Finish(w) \/ C!Count(w)
  <2>1. ASSUME C!After(w, [riwoPump[w] EXCEPT !.replied = TRUE]) PROVE Moves(w)
    BY <1>0, <2>1, AfterMoves DEF QuietInv
  <2> QED BY <1>0, <1>9, <2>1, GotoMoves DEF C!Finish, C!Count
<1>10. CASE C!Close(w) \/ C!Crash(w)
  BY <1>0, <1>10 DEF C!Close, C!Crash, C!Rest, QuietInv, Moves
<1>11. CASE C!ModelFails(w) \/ C!StatementFails(w)
  BY <1>0, <1>11, SkipMoves DEF C!ModelFails, C!StatementFails
<1>12. CASE C!AfterSending(w)
  BY <1>0, <1>12 DEF C!AfterSending, QuietInv, Moves
<1> QED BY <1>0, <1>1, <1>2, <1>3, <1>4, <1>5, <1>6, <1>7, <1>8, <1>9, <1>10, <1>11, <1>12

LEMMA SendWork ==
  ASSUME QuietInv, NEW w \in Servers, C!Send(w) \/ C!Formal(w)
  PROVE  Moves(w) /\ C!LeavesQuiet
<1>1. UNCHANGED <<riwoAnswered, quiet, riwoSaid, kind>>
  BY DEF C!Send, C!Formal, C!Say, C!Quiet, C!people
<1>2. Moves(w)
  BY <1>1, GotoMoves DEF C!Send, C!Formal, C!AfterFormal
<1>3. \A n \in quiet : riwoPump[w].re # n
  BY DEF C!Send, C!Formal, QuietInv, Leaving
<1>4. \E key : riwoSent' = riwoSent \cup {[re |-> riwoPump[w].re, key |-> key]}
  BY DEF C!Send, C!Formal, C!Say
<1> QED BY <1>2, <1>3, <1>4 DEF C!LeavesQuiet

LEMMA QuietNext == ASSUME QuietInv, [C!Next]_(C!vars) PROVE QuietInv' /\ C!LeavesQuiet
<1>1. ASSUME NEW words \in C!Words, C!Receive(words) PROVE QuietInv' /\ C!LeavesQuiet
  <2>1. Len(riwoSaid') = Len(riwoSaid) + 1 /\ riwoSaid' \in Seq(C!Words) /\ Len(riwoSaid) \in Nat
    BY <1>1 DEF C!Receive, QuietInv
  <2>2. UNCHANGED <<riwoAnswered, quiet, riwoPump, riwoSent, kind>>
    BY <1>1 DEF C!Receive, C!texts
  <2>3. C!Here \subseteq C!Here'
    BY <2>1 DEF C!Here
  <2> QED BY <2>1, <2>2, <2>3 DEF QuietInv, Leaving, C!LeavesQuiet
<1>2. CASE C!PersonReplies
  BY <1>2 DEF C!PersonReplies, QuietInv, Leaving, C!Here, C!LeavesQuiet
<1>3. ASSUME NEW n \in C!Msgs, C!MarkAsked(n) \/ C!ReleaseAsked(n) \/ C!AskingEnds(n) PROVE QuietInv' /\ C!LeavesQuiet
  BY <1>3 DEF C!MarkAsked, C!ReleaseAsked, C!AskingEnds, C!texts, QuietInv, Leaving, C!Here, C!LeavesQuiet
<1>4. ASSUME NEW n \in C!Msgs, C!AckAsked(n) PROVE QuietInv' /\ C!LeavesQuiet
  <2>1. UNCHANGED <<riwoAnswered, quiet, riwoSaid, riwoPump, kind>> /\ riwoSent' = riwoSent \cup {[re |-> n, key |-> "ack"]}
    BY <1>4 DEF C!AckAsked, C!Say
  <2> QED BY <2>1 DEF QuietInv, Leaving, C!Here, C!LeavesQuiet
<1>5. ASSUME NEW w \in Servers, C!Work(w) \/ C!ModelFails(w) \/ C!Crash(w) \/ C!StatementFails(w)
      PROVE  QuietInv' /\ C!LeavesQuiet
  BY <1>5, SilentWork, SendWork, MovesKeeps DEF C!Work, C!LeavesQuiet
<1>6. CASE UNCHANGED C!vars
  BY <1>6 DEF C!vars, C!people, C!rows, C!texts, QuietInv, Leaving, C!Here, C!LeavesQuiet
<1> QED BY <1>1, <1>2, <1>3, <1>4, <1>5, <1>6 DEF C!Next

(* Nothing but the acknowledgement of a request for a person is said to a  *)
(* message a person has answered, for any number of messages and processes *)
(* (assertUnanswered, runAutoChatTurn, handOffToExecutive).                *)
THEOREM NeverTalkedOverHolds == SpecMC => NeverTalkedOver
<1> DEFINE Inv == part \in {"turns", "race"} => QuietInv
<1>1. InitMC => Inv
  BY PartInit, QuietInit
<1>2. Inv /\ [NextMC]_all => Inv' /\ [(part \in {"turns", "race"}) => C!LeavesQuiet]_all
  BY PartStep, QuietNext
<1> QED BY <1>1, <1>2, PTL DEF SpecMC, NeverTalkedOver

-----------------------------------------------------------------------------
(* Requests to models.                                                     *)

(* Some numbers have a least one.                                          *)
LEMMA HasLeast ==
  ASSUME NEW some \in SUBSET Nat, some # {}
  PROVE  \E x \in some : \A y \in some : x <= y
<1> DEFINE Less == {p \in Nat \X Nat : p[1] < p[2]}
<1>1. IsWellFoundedOn(Less, Nat)
  BY NatLessThanWellFounded DEF OpToRel
<1>2. \E x \in some : \A y \in some : ~ (<<y, x>> \in Less)
  <2> HIDE DEF Less
  <2> QED BY <1>1, WFMin
<1>3. PICK x \in some : \A y \in some : ~ (<<y, x>> \in Less)
  BY <1>2
<1>4. ASSUME NEW y \in some PROVE x <= y
  <2> DEFINE p == <<y, x>>
  <2>1. p \in Nat \X Nat /\ p[1] = y /\ p[2] = x
    OBVIOUS
  <2>2. ~(p[1] < p[2])
    <3> HIDE DEF p
    <3> QED BY <1>3, <2>1 DEF p
  <2> QED BY <2>1, <2>2
<1> QED BY <1>4

RequestFields ==
  {"pc", "day", "strict", "background", "line", "next", "resting", "asked", "last", "at", "model", "left"}

(* Who was asked is behind a request, and was resting if it goes along     *)
(* those that are.                                                         *)
AlongOK(q) ==
  /\ DOMAIN q = RequestFields
  /\ q.last \in BOOLEAN /\ q.next \in Nat /\ q.resting \in SUBSET Nat /\ q.asked \in Seq(Nat)
  /\ \A k \in 1..Len(q.asked) : q.asked[k] < q.next /\ (q.last => q.asked[k] \in q.resting)

(* A request that calls a provider has asked somebody; one that has not    *)
(* been routed stands before its line.                                     *)
RequestOK(q) ==
  /\ AlongOK(q)
  /\ q.pc \in {"idle", "reserve", "route", "calling", "failed"}
  /\ q.pc = "calling" => q.asked # <<>>
  /\ q.pc \in {"reserve", "route"} => ~q.last /\ q.next = 1 /\ q.asked = <<>>

Spends(q) == q.pc \in {"route", "calling", "failed"}
Holders(d) == {r \in Clients : Spends(routerReq[r]) /\ routerReq[r].day = d}

RequestsInv ==
  /\ DOMAIN routerReq = Clients /\ \A r \in Clients : RequestOK(routerReq[r])
  /\ today \in A!Days
  /\ \A r \in Clients : Spends(routerReq[r]) => routerReq[r].day \in 0..today

(* Every answer, and every request that may still get one, was counted;    *)
(* the count of a day is within the limit, and what was taken from it      *)
(* wrongly is in late.                                                     *)
SpentInv ==
  /\ used \in [A!Days -> Nat] /\ answers \in [A!Days -> Nat] /\ late \in [A!Days -> Nat]
  /\ \A d \in A!Days : used[d] <= Limit /\ answers[d] + Cardinality(Holders(d)) <= used[d] + late[d]

(* Along the line: the request goes to one that takes it, or has passed    *)
(* everybody who is ahead and kept in mind who is resting.                 *)
LEMMA ForwardFacts ==
  ASSUME NEW q, AlongOK(q)
  PROVE  LET one == A!Forward(q) IN
         /\ AlongOK(one) /\ (one.last <=> q.last) /\ one.day = q.day /\ one.line = q.line
         /\ one.background = q.background /\ q.resting \subseteq one.resting
         /\ \/ /\ one.pc = "calling"
               /\ \E i \in A!Ahead(q) :
                    one.asked = Append(q.asked, i) /\ one.at = q.line[i] /\ A!Takes(q.line[i], q)
            \/ /\ one.pc = "failed" /\ one.asked = q.asked
               /\ \A i \in A!Ahead(q) :
                    ~A!Takes(q.line[i], q) /\ (q.line[i] \in cooled => i \in one.resting)
<1> DEFINE ready == {i \in A!Ahead(q) : A!Takes(q.line[i], q)}
           first == CHOOSE i \in ready : \A j \in ready : i <= j
           seen == {i \in A!Ahead(q) : \A j \in ready : i < j}
           rest == q.resting \cup {i \in seen : q.line[i] \in cooled}
           one == A!Forward(q)
<1>1. /\ A!Ahead(q) \in SUBSET Nat
      /\ \A i \in A!Ahead(q) : q.next <= i /\ (q.last => i \in q.resting)
  BY DEF A!Ahead, AlongOK
<1>2. rest \in SUBSET Nat /\ q.resting \subseteq rest
  BY <1>1 DEF AlongOK
<1>3. CASE ready = {}
  <2>1. one = [[q EXCEPT !.resting = rest] EXCEPT !.pc = "failed"]
    BY <1>3 DEF A!Forward
  <2> HIDE DEF one
  <2>2. \A i \in A!Ahead(q) : ~A!Takes(q.line[i], q) /\ (q.line[i] \in cooled => i \in rest)
    BY <1>3
  <2> HIDE DEF rest, ready
  <2>3. /\ DOMAIN one = RequestFields /\ one.pc = "failed" /\ one.resting = rest
        /\ one.last = q.last /\ one.next = q.next /\ one.asked = q.asked /\ one.day = q.day
        /\ one.line = q.line /\ one.background = q.background
    BY <2>1 DEF AlongOK, RequestFields
  <2>4. AlongOK(one)
    BY <1>2, <2>3 DEF AlongOK
  <2> QED BY <1>2, <2>2, <2>3, <2>4 DEF one
<1>4. CASE ready # {}
  <2>1. ready \in SUBSET Nat
    BY <1>1
  <2>2. \E i \in ready : \A j \in ready : i <= j
    <3> HIDE DEF ready
    <3> QED BY <1>4, <2>1, HasLeast
  <2>3. first \in ready
    <3> HIDE DEF ready
    <3> QED BY <2>2
  <2>4. first \in A!Ahead(q) /\ A!Takes(q.line[first], q)
    BY <2>3
  <2>5. \E model, left : one = [[q EXCEPT !.resting = rest] EXCEPT
           !.pc = "calling", !.next = first + 1, !.asked = Append(@, first),
           !.at = q.line[first], !.model = model, !.left = left]
    BY <1>4 DEF A!Forward
  <2> HIDE DEF one, rest, ready, first
  <2>6. /\ DOMAIN one = RequestFields /\ one.pc = "calling" /\ one.resting = rest
        /\ one.last = q.last /\ one.next = first + 1 /\ one.asked = Append(q.asked, first) /\ one.day = q.day
        /\ one.line = q.line /\ one.background = q.background /\ one.at = q.line[first]
    BY <2>5 DEF AlongOK, RequestFields
  <2>7. AlongOK(one)
    <3>1. first \in Nat /\ q.next \in Nat /\ q.next <= first /\ (q.last => first \in rest)
      BY <1>1, <1>2, <2>4 DEF AlongOK
    <3>2. /\ one.asked \in Seq(Nat) /\ Len(one.asked) = Len(q.asked) + 1
          /\ \A k \in 1..Len(one.asked) : one.asked[k] = first \/ \E l \in 1..Len(q.asked) : one.asked[k] = q.asked[l]
      BY <2>6, <3>1 DEF AlongOK
    <3>3. \A l \in 1..Len(q.asked) : q.asked[l] \in Nat /\ q.asked[l] < first + 1 /\ (q.last => q.asked[l] \in rest)
      BY <1>2, <3>1 DEF AlongOK
    <3>4. \A k \in 1..Len(one.asked) : one.asked[k] < first + 1 /\ (q.last => one.asked[k] \in rest)
      BY <3>1, <3>2, <3>3
    <3> QED BY <1>2, <2>6, <3>1, <3>2, <3>4 DEF AlongOK
  <2> QED BY <1>2, <2>4, <2>6, <2>7 DEF one
<1> QED BY <1>3, <1>4

(* Who is asked next was not asked before, and if it is set aside nobody   *)
(* was who was not.                                                        *)
Fresh(q, one) ==
  \E i \in Nat : /\ one.asked = Append(q.asked, i)
                 /\ i \notin A!ToSet(q.asked)
                 /\ one.at \in cooled => A!ToSet(q.asked) \cup {i} \subseteq one.resting

Refuses(p, q) == A!Open(p) = <<>> \/ (p \notin cooled /\ A!Full(p, q))

LEMMA OnwardFacts ==
  ASSUME NEW q, AlongOK(q)
  PROVE  LET one == A!Onward(q) IN
         /\ RequestOK(one) /\ one.day = q.day
         /\ \/ one.pc = "calling" /\ Fresh(q, one)
            \/ /\ one.pc = "failed" /\ one.asked = q.asked
               /\ ~q.last /\ q.next = 1 /\ q.asked = <<>> =>
                    \A i \in 1..Len(one.line) : Refuses(one.line[i], one)
<1> DEFINE one == A!Forward(q)
           again == [one EXCEPT !.last = TRUE, !.next = 1]
           two == A!Forward(again)
<1>1. /\ AlongOK(one) /\ (one.last <=> q.last) /\ one.day = q.day /\ one.line = q.line
      /\ one.background = q.background /\ q.resting \subseteq one.resting
      /\ \/ /\ one.pc = "calling"
            /\ \E i \in A!Ahead(q) :
                 one.asked = Append(q.asked, i) /\ one.at = q.line[i] /\ A!Takes(q.line[i], q)
         \/ /\ one.pc = "failed" /\ one.asked = q.asked
            /\ \A i \in A!Ahead(q) :
                 ~A!Takes(q.line[i], q) /\ (q.line[i] \in cooled => i \in one.resting)
  BY ForwardFacts
<1> HIDE DEF one
<1>2. \A p : A!Full(p, one) <=> A!Full(p, q)
  BY <1>1 DEF A!Full, A!Share
<1>3. \A i \in A!Ahead(q) : i \in Nat /\ q.next <= i /\ (q.last => i \in q.resting)
  BY DEF A!Ahead, AlongOK
<1>4. A!ToSet(q.asked) = {q.asked[k] : k \in 1..Len(q.asked)}
  BY DEF A!ToSet, AlongOK
<1>5. CASE one.pc = "calling"
  <2>1. A!Onward(q) = one
    BY <1>5 DEF A!Onward, one
  <2>2. PICK i \in A!Ahead(q) : one.asked = Append(q.asked, i) /\ one.at = q.line[i] /\ A!Takes(q.line[i], q)
    BY <1>1, <1>5
  <2>3. i \notin A!ToSet(q.asked)
    BY <1>3, <1>4 DEF AlongOK
  <2>4. one.at \in cooled => q.last
    BY <2>2 DEF A!Takes
  <2>5. q.last => A!ToSet(q.asked) \cup {i} \subseteq one.resting
    BY <1>1, <1>3, <1>4 DEF AlongOK
  <2>6. Fresh(q, one)
    BY <1>3, <2>2, <2>3, <2>4, <2>5 DEF Fresh
  <2>7. one.asked # <<>>
    BY <2>2 DEF AlongOK
  <2> QED BY <1>1, <1>5, <2>1, <2>6, <2>7 DEF RequestOK
<1>6. CASE one.pc = "failed" /\ ~(~one.last /\ A!LastResort(one))
  <2>1. A!Onward(q) = one
    BY <1>6 DEF A!Onward, one
  <2>2. ASSUME ~q.last, q.next = 1, q.asked = <<>>, NEW i \in 1..Len(one.line)
        PROVE  Refuses(one.line[i], one)
    <3>1. one.resting = {} /\ one.asked = <<>>
      BY <1>1, <1>6, <2>2 DEF A!LastResort
    <3>2. i \in A!Ahead(q)
      BY <1>1, <2>2 DEF A!Ahead
    <3>3. ~A!Takes(one.line[i], q) /\ one.line[i] \notin cooled
      BY <1>1, <1>6, <3>1, <3>2
    <3> QED BY <1>2, <2>2, <3>3 DEF A!Takes, Refuses
  <2> QED BY <1>1, <1>6, <2>1, <2>2 DEF RequestOK
<1>7. CASE one.pc = "failed" /\ ~one.last /\ A!LastResort(one)
  <2>1. A!Onward(q) = two
    BY <1>7 DEF A!Onward, one, again, two
  <2>2. one.asked = <<>> /\ q.asked = <<>>
    BY <1>1, <1>7 DEF A!LastResort
  <2>3. /\ DOMAIN again = RequestFields /\ again.last = TRUE /\ again.next = 1 /\ again.asked = <<>>
        /\ again.resting = one.resting /\ again.line = one.line /\ again.day = one.day
        /\ again.background = one.background
    BY <1>1, <2>2 DEF AlongOK, RequestFields
  <2> HIDE DEF again
  <2>4. AlongOK(again)
    <3>1. one.resting \in SUBSET Nat
      BY <1>1 DEF AlongOK
    <3>2. again.asked \in Seq(Nat) /\ 1..Len(again.asked) = {}
      BY <2>3
    <3>3. again.last \in BOOLEAN
      BY <2>3
    <3>4. again.next \in Nat /\ again.resting \in SUBSET Nat /\ DOMAIN again = RequestFields
      BY <2>3, <3>1
    <3> QED BY <3>2, <3>3, <3>4, Zenon DEF AlongOK
  <2>5. /\ AlongOK(two) /\ two.day = again.day /\ two.line = again.line
        /\ two.background = again.background /\ again.resting \subseteq two.resting
        /\ \/ /\ two.pc = "calling"
              /\ \E i \in A!Ahead(again) : two.asked = Append(again.asked, i)
           \/ /\ two.pc = "failed" /\ two.asked = again.asked
              /\ \A i \in A!Ahead(again) : ~A!Takes(again.line[i], again)
    BY <2>4, ForwardFacts
  <2> HIDE DEF two
  <2>6. CASE two.pc = "calling"
    <3>1. PICK i \in A!Ahead(again) : two.asked = Append(again.asked, i)
      BY <2>5, <2>6
    <3>2. i \in Nat /\ i \in two.resting
      BY <2>3, <2>5 DEF A!Ahead
    <3>3. A!ToSet(q.asked) = {} /\ two.asked # <<>>
      BY <1>4, <2>2, <2>3, <3>1, <3>2
    <3>4. Fresh(q, two)
      BY <2>2, <2>3, <3>1, <3>2, <3>3 DEF Fresh
    <3> QED BY <1>1, <2>1, <2>3, <2>5, <2>6, <3>3, <3>4 DEF RequestOK
  <2>7. CASE two.pc = "failed" /\ \A i \in A!Ahead(again) : ~A!Takes(again.line[i], again)
    <3>1. ASSUME ~q.last, q.next = 1, NEW i \in 1..Len(two.line) PROVE Refuses(two.line[i], two)
      <4>1. i \in A!Ahead(q)
        BY <1>1, <2>3, <2>5, <3>1 DEF A!Ahead
      <4>2. \A p : A!Full(p, two) <=> A!Full(p, q)
        BY <1>1, <2>3, <2>5 DEF A!Full, A!Share
      <4>3. CASE i \in one.resting
        <5>1. i \in A!Ahead(again)
          BY <1>1, <2>3, <2>5, <3>1, <4>3 DEF A!Ahead
        <5>2. A!Open(two.line[i]) = <<>>
          BY <2>3, <2>5, <2>7, <5>1 DEF A!Takes
        <5> QED BY <5>2 DEF Refuses
      <4>4. CASE i \notin one.resting
        <5>1. two.line[i] \notin cooled /\ ~A!Takes(two.line[i], q)
          BY <1>1, <1>7, <2>3, <2>5, <4>1, <4>4
        <5> QED BY <4>2, <5>1 DEF A!Takes, Refuses
      <4> QED BY <4>3, <4>4
    <3>2. two.asked = q.asked
      BY <2>2, <2>3, <2>5, <2>7
    <3> QED BY <1>1, <2>1, <2>3, <2>5, <2>7, <3>1, <3>2 DEF RequestOK
  <2> QED BY <2>5, <2>6, <2>7
<1> QED BY <1>1, <1>5, <1>6, <1>7

LEMMA HoldersFinite == ASSUME NEW d PROVE IsFiniteSet(Holders(d)) /\ Cardinality(Holders(d)) \in Nat
  BY PeopleAssumption, FS_Subset, FS_CardinalityType DEF Holders

(* One request changes.                                                    *)
LEMMA HoldersOf ==
  ASSUME NEW r \in Clients, NEW q, RequestsInv, routerReq' = [routerReq EXCEPT ![r] = q], NEW d
  PROVE  Holders(d)' = IF Spends(q) /\ q.day = d THEN Holders(d) \cup {r} ELSE Holders(d) \ {r}
  BY DEF Holders, RequestsInv, Spends

LEMMA HoldersCount ==
  ASSUME NEW r \in Clients, NEW d
  PROVE  /\ Cardinality(Holders(d) \cup {r}) = IF r \in Holders(d) THEN Cardinality(Holders(d)) ELSE Cardinality(Holders(d)) + 1
         /\ Cardinality(Holders(d) \ {r}) = IF r \in Holders(d) THEN Cardinality(Holders(d)) - 1 ELSE Cardinality(Holders(d))
  BY HoldersFinite, FS_AddElement, FS_RemoveElement

LEMMA RequestChanges ==
  ASSUME RequestsInv, NEW r \in Clients, NEW q, RequestOK(q), routerReq' = [routerReq EXCEPT ![r] = q],
         today' \in A!Days, today <= today', Spends(q) => q.day \in 0..today'
  PROVE  RequestsInv'
  BY DEF RequestsInv, A!Days

(* A request that goes on, or that never took anything.                    *)
LEMMA GoesOnSpends ==
  ASSUME RequestsInv, SpentInv, NEW r \in Clients, NEW q, RequestOK(q), routerReq' = [routerReq EXCEPT ![r] = q],
         Spends(q) <=> Spends(routerReq[r]), Spends(q) => q.day = routerReq[r].day,
         UNCHANGED <<today, used, answers, late>>
  PROVE  RequestsInv' /\ SpentInv'
<1>1. RequestsInv'
  BY RequestChanges DEF RequestsInv, A!Days
<1>2. \A d \in A!Days : Holders(d)' = Holders(d)
  BY HoldersOf DEF Holders
<1> QED BY <1>1, <1>2 DEF SpentInv

LEMMA FreshRequest == RequestOK(A!NoReq) /\ ~Spends(A!NoReq)
<1> DEFINE q == A!NoReq
<1>1. /\ DOMAIN q = RequestFields /\ q.pc = "idle" /\ q.last = FALSE /\ q.next = 1
      /\ q.resting = {} /\ q.asked = <<>>
  BY DEF A!NoReq, RequestFields
<1> HIDE DEF q
<1>2. q.asked \in Seq(Nat) /\ 1..Len(q.asked) = {}
  <2> SUFFICES ASSUME NEW x, x = <<>> PROVE x \in Seq(Nat) /\ 1..Len(x) = {}
    BY <1>1
  <2> QED OBVIOUS
<1>3. /\ q.next \in Nat /\ q.resting \in SUBSET Nat
      /\ q.last \in BOOLEAN
  <2>1. q.last \in BOOLEAN
    BY <1>1, Zenon
  <2> QED BY <1>1, <2>1
<1>4. AlongOK(q)
  BY <1>1, <1>2, <1>3 DEF AlongOK
<1>5. RequestOK(q) /\ ~Spends(q)
  BY <1>1, <1>4 DEF RequestOK, Spends
<1> QED BY <1>5 DEF q

LEMMA ReserveSpends ==
  ASSUME RequestsInv, SpentInv, NEW r \in Clients, A!Reserve(r)
  PROVE  RequestsInv' /\ SpentInv'
<1>1. CASE ~A!Allowed(used[today])
  BY <1>1, GoesOnSpends, FreshRequest DEF A!Reserve, Spends
<1>2. CASE A!Allowed(used[today])
  <2> DEFINE q == [routerReq[r] EXCEPT !.pc = "route", !.day = today]
  <2>1. /\ routerReq[r].pc = "reserve" /\ routerReq' = [routerReq EXCEPT ![r] = q]
        /\ used' = [used EXCEPT ![today] = @ + 1] /\ UNCHANGED <<today, answers, late>>
    <3>1. routerReq[r].pc = "reserve" /\ used' = [used EXCEPT ![today] = @ + 1] /\ UNCHANGED <<today, answers, late>>
      BY <1>2 DEF A!Reserve
    <3>2. routerReq' = [routerReq EXCEPT ![r].pc = "route", ![r].day = today]
      BY <1>2 DEF A!Reserve
    <3> QED BY <3>1, <3>2 DEF RequestsInv
  <2>2. RequestOK(routerReq[r])
    BY DEF RequestsInv
  <2>3. RequestOK(q) /\ Spends(q) /\ q.day = today /\ ~Spends(routerReq[r])
    BY <2>1, <2>2 DEF RequestOK, AlongOK, RequestFields, Spends
  <2> HIDE DEF q
  <2>4. RequestsInv'
    BY <2>1, <2>3, RequestChanges DEF RequestsInv, A!Days
  <2>5. \A d \in A!Days : r \notin Holders(d) /\ Holders(d)' = IF d = today THEN Holders(d) \cup {r} ELSE Holders(d)
    <3> TAKE d \in A!Days
    <3>1. r \notin Holders(d)
      BY <2>3 DEF Holders
    <3>2. Holders(d)' = IF Spends(q) /\ q.day = d THEN Holders(d) \cup {r} ELSE Holders(d) \ {r}
      BY <2>1, HoldersOf
    <3>3. Holders(d) \ {r} = Holders(d)
      BY <3>1
    <3> QED BY <2>3, <3>1, <3>2, <3>3
  <2>6. used[today] + 1 <= Limit /\ used[today] \in Nat /\ today \in A!Days
    BY <1>2, PeopleAssumption DEF A!Allowed, SpentInv, RequestsInv
  <2>7. used' \in [A!Days -> Nat] /\ \A d \in A!Days : used'[d] = IF d = today THEN used[d] + 1 ELSE used[d]
    BY <2>1, <2>6 DEF SpentInv
  <2>8. ASSUME NEW d \in A!Days PROVE used'[d] <= Limit /\ answers'[d] + Cardinality(Holders(d)') <= used'[d] + late'[d]
    <3>1. Cardinality(Holders(d)') = IF d = today THEN Cardinality(Holders(d)) + 1 ELSE Cardinality(Holders(d))
      BY <2>5, HoldersCount
    <3>2. /\ Cardinality(Holders(d)) \in Nat /\ used[d] \in Nat /\ answers[d] \in Nat /\ late[d] \in Nat
          /\ used[d] <= Limit /\ answers[d] + Cardinality(Holders(d)) <= used[d] + late[d]
      BY HoldersFinite DEF SpentInv
    <3> QED BY <2>1, <2>6, <2>7, <3>1, <3>2, PeopleAssumption
  <2> QED BY <2>1, <2>4, <2>7, <2>8 DEF SpentInv
<1> QED BY <1>1, <1>2

(* A request is over: its place is free, and what else changes is told.    *)
LEMMA RequestOver ==
  ASSUME RequestsInv, SpentInv, NEW r \in Clients, Spends(routerReq[r]), routerReq' = [routerReq EXCEPT ![r] = A!NoReq]
  PROVE  /\ routerReq[r].day \in A!Days /\ routerReq[r].day \in 0..today
         /\ \A d \in A!Days : /\ Cardinality(Holders(d)) \in Nat
                              /\ Cardinality(Holders(d)') =
                                   IF d = routerReq[r].day THEN Cardinality(Holders(d)) - 1 ELSE Cardinality(Holders(d))
<1>1. routerReq[r].day \in A!Days /\ routerReq[r].day \in 0..today
  BY PeopleAssumption DEF RequestsInv, A!Days
<1>2. ASSUME NEW d \in A!Days
      PROVE  /\ Cardinality(Holders(d)) \in Nat
             /\ Cardinality(Holders(d)') =
                  IF d = routerReq[r].day THEN Cardinality(Holders(d)) - 1 ELSE Cardinality(Holders(d))
  <2>1. Holders(d)' = Holders(d) \ {r}
    BY FreshRequest, HoldersOf
  <2>2. r \in Holders(d) <=> d = routerReq[r].day
    BY DEF Holders
  <2> QED BY <2>1, <2>2, HoldersCount, HoldersFinite
<1> QED BY <1>1, <1>2

LEMMA AnswersSpends ==
  ASSUME RequestsInv, SpentInv, NEW r \in Clients, A!Answers(r)
  PROVE  RequestsInv' /\ SpentInv'
<1> DEFINE day == routerReq[r].day
<1>1. /\ Spends(routerReq[r]) /\ routerReq' = [routerReq EXCEPT ![r] = A!NoReq]
      /\ answers' = [answers EXCEPT ![day] = @ + 1] /\ UNCHANGED <<today, used, late>>
  BY DEF A!Answers, Spends
<1>2. RequestsInv'
  BY <1>1, FreshRequest, RequestChanges DEF RequestsInv, A!Days
<1>3. /\ day \in A!Days
      /\ \A d \in A!Days : /\ Cardinality(Holders(d)) \in Nat
                           /\ Cardinality(Holders(d)') =
                                IF d = day THEN Cardinality(Holders(d)) - 1 ELSE Cardinality(Holders(d))
  BY <1>1, RequestOver
<1> HIDE DEF day
<1> QED BY <1>1, <1>2, <1>3 DEF SpentInv

LEMMA GiveBackSpends ==
  ASSUME RequestsInv, SpentInv, NEW r \in Clients, A!GiveBack(r)
  PROVE  RequestsInv' /\ SpentInv'
<1> DEFINE day == routerReq[r].day
<1>1. /\ Spends(routerReq[r]) /\ routerReq' = [routerReq EXCEPT ![r] = A!NoReq]
      /\ used' = [used EXCEPT ![today] = IF @ > 0 THEN @ - 1 ELSE 0]
      /\ late' = IF day < today THEN [late EXCEPT ![today] = @ + 1] ELSE late
      /\ UNCHANGED <<today, answers>>
  BY DEF A!GiveBack, Spends
<1>2. RequestsInv'
  BY <1>1, FreshRequest, RequestChanges DEF RequestsInv, A!Days
<1>3. /\ day \in A!Days /\ day \in 0..today
      /\ \A d \in A!Days : /\ Cardinality(Holders(d)) \in Nat
                           /\ Cardinality(Holders(d)') =
                                IF d = day THEN Cardinality(Holders(d)) - 1 ELSE Cardinality(Holders(d))
  BY <1>1, RequestOver
<1> HIDE DEF day
<1>4. /\ today \in A!Days /\ today \in Nat /\ day \in Nat
      /\ used \in [A!Days -> Nat] /\ late \in [A!Days -> Nat] /\ answers \in [A!Days -> Nat]
  BY <1>3 DEF SpentInv, RequestsInv, A!Days
<1>5. /\ used' \in [A!Days -> Nat] /\ late' \in [A!Days -> Nat]
      /\ \A d \in A!Days : /\ used'[d] = IF d = today /\ used[d] > 0 THEN used[d] - 1 ELSE used[d]
                           /\ late'[d] = IF d = today /\ day < today THEN late[d] + 1 ELSE late[d]
  BY <1>1, <1>4
<1>6. ASSUME NEW d \in A!Days PROVE used'[d] <= Limit /\ answers'[d] + Cardinality(Holders(d)') <= used'[d] + late'[d]
  <2>1. /\ Cardinality(Holders(d)) \in Nat /\ used[d] \in Nat /\ answers[d] \in Nat /\ late[d] \in Nat
        /\ used[d] <= Limit /\ answers[d] + Cardinality(Holders(d)) <= used[d] + late[d]
    BY <1>3, <1>4 DEF SpentInv
  <2> QED BY <1>1, <1>3, <1>4, <1>5, <2>1, PeopleAssumption
<1> QED BY <1>1, <1>2, <1>4, <1>5, <1>6 DEF SpentInv

(* The router looks for the next provider.                                 *)
LEMMA RouterGoes ==
  ASSUME RequestsInv, SpentInv, NEW r \in Clients, NEW q, AlongOK(q),
         Spends(routerReq[r]), q.day = routerReq[r].day, UNCHANGED <<today, used, answers, late>>,
         A!Goto(r, A!Onward(q))
  PROVE  RequestsInv' /\ SpentInv'
<1> DEFINE one == A!Onward(q)
<1>1. RequestOK(one) /\ Spends(one) /\ one.day = q.day
  BY OnwardFacts DEF Spends
<1>2. routerReq' = [routerReq EXCEPT ![r] = one]
  BY DEF A!Goto
<1> HIDE DEF one
<1> QED BY <1>1, <1>2, GoesOnSpends

(* Nobody but r goes on; and r stays with whom it asked, is over, or goes  *)
(* to somebody who is next in turn.                                        *)
LEMMA OneGoesAlong ==
  ASSUME RequestsInv, NEW r \in Clients, NEW q, routerReq' = [routerReq EXCEPT ![r] = q],
         q.asked \in {routerReq[r].asked, <<>>} \/ Fresh(routerReq[r], q),
         routerReq[r].pc = "route" /\ q.pc = "failed" => \A i \in 1..Len(q.line) : Refuses(q.line[i], q)
  PROVE  A!LastOnly
<1>1. /\ routerReq'[r] = q /\ routerReq[r].asked \in Seq(Nat)
      /\ \A x \in Clients \ {r} : routerReq'[x] = routerReq[x]
  BY DEF RequestsInv, RequestOK, AlongOK
<1>2. ASSUME NEW x \in Clients PROVE A!GoesAlong(x)
  <2>1. CASE x # r
    BY <1>1, <2>1 DEF A!GoesAlong, A!SentOn
  <2>2. CASE x = r /\ q.asked \in {routerReq[r].asked, <<>>}
    BY <1>1, <2>2 DEF A!GoesAlong, A!SentOn
  <2>3. CASE x = r /\ Fresh(routerReq[r], q)
    <3>1. PICK i \in Nat : /\ q.asked = Append(routerReq[r].asked, i)
                           /\ i \notin A!ToSet(routerReq[r].asked)
                           /\ q.at \in cooled => A!ToSet(routerReq[r].asked) \cup {i} \subseteq q.resting
      BY <2>3 DEF Fresh
    <3>2. q.asked[Len(q.asked)] = i
      BY <1>1, <3>1
    <3> QED BY <1>1, <2>3, <3>1, <3>2 DEF A!GoesAlong
  <2> QED BY <2>1, <2>2, <2>3
<1>3. ASSUME NEW x \in Clients PROVE A!TurnedAway(x)
  BY <1>1 DEF A!TurnedAway, Refuses
<1> QED BY <1>2, <1>3 DEF A!LastOnly

LEMMA RouterNext ==
  ASSUME RequestsInv, SpentInv, [A!Next]_(A!vars)
  PROVE  RequestsInv' /\ SpentInv' /\ A!LastOnly
<1>0. /\ \A r \in Clients : RequestOK(routerReq[r])
      /\ today \in A!Days /\ today \in Nat
  BY PeopleAssumption DEF RequestsInv, A!Days
<1>1. ASSUME routerReq' = routerReq PROVE A!LastOnly
  <2>1. \A r \in Clients : routerReq[r].pc = "route" => routerReq'[r].pc # "failed"
    BY <1>1
  <2> QED BY <1>1, <2>1 DEF A!LastOnly, A!GoesAlong, A!SentOn, A!TurnedAway
<1>2. ASSUME UNCHANGED <<routerReq, used, answers, late>>, today' \in A!Days, today <= today'
      PROVE  RequestsInv' /\ SpentInv' /\ A!LastOnly
  <2>1. RequestsInv'
    BY <1>0, <1>2, PeopleAssumption DEF RequestsInv, A!Days
  <2>2. \A d \in A!Days : Holders(d)' = Holders(d)
    BY <1>2 DEF Holders
  <2> QED BY <1>1, <1>2, <2>1, <2>2 DEF SpentInv
<1>3. ASSUME NEW r \in Clients, A!Ask(r) PROVE RequestsInv' /\ SpentInv' /\ A!LastOnly
  <2> PICK strict \in BOOLEAN, background \in BOOLEAN :
        routerReq' = [routerReq EXCEPT ![r] = [A!NoReq EXCEPT !.pc = "reserve", !.strict = strict,
                                                              !.background = background]]
    BY <1>3 DEF A!Ask
  <2> DEFINE q == [A!NoReq EXCEPT !.pc = "reserve", !.strict = strict, !.background = background]
  <2>1. RequestOK(q) /\ ~Spends(q) /\ q.pc = "reserve" /\ q.asked = <<>>
    BY FreshRequest DEF A!NoReq, RequestOK, AlongOK, RequestFields, Spends
  <2>2. routerReq' = [routerReq EXCEPT ![r] = q]
    OBVIOUS
  <2> HIDE DEF q
  <2>3. ~Spends(routerReq[r]) /\ UNCHANGED <<today, used, answers, late>>
    BY <1>3 DEF A!Ask, Spends
  <2>4. RequestsInv' /\ SpentInv'
    BY <2>1, <2>2, <2>3, GoesOnSpends
  <2>5. A!LastOnly
    BY <2>1, <2>2, OneGoesAlong
  <2> QED BY <2>4, <2>5
<1>4. ASSUME NEW r \in Clients, A!Reserve(r) PROVE RequestsInv' /\ SpentInv' /\ A!LastOnly
  <2>1. ASSUME A!Allowed(used[today]) PROVE A!LastOnly
    <3> DEFINE q == [routerReq[r] EXCEPT !.pc = "route", !.day = today]
    <3>1. routerReq' = [routerReq EXCEPT ![r].pc = "route", ![r].day = today]
      BY <1>4, <2>1 DEF A!Reserve
    <3>2. routerReq' = [routerReq EXCEPT ![r] = q]
      BY <3>1 DEF RequestsInv
    <3>3. q.asked = routerReq[r].asked /\ q.pc = "route"
      BY <1>0 DEF RequestOK, AlongOK, RequestFields
    <3> HIDE DEF q
    <3> QED BY <3>2, <3>3, OneGoesAlong
  <2>2. ASSUME ~A!Allowed(used[today]) PROVE A!LastOnly
    <3>1. routerReq' = [routerReq EXCEPT ![r] = A!NoReq] /\ A!NoReq.pc = "idle" /\ A!NoReq.asked = <<>>
      BY <1>4, <2>2 DEF A!Reserve, A!NoReq
    <3> QED BY <3>1, OneGoesAlong
  <2> QED BY <1>4, <2>1, <2>2, ReserveSpends
<1>5. ASSUME NEW r \in Clients, A!Route(r) PROVE RequestsInv' /\ SpentInv' /\ A!LastOnly
  <2> DEFINE q == [routerReq[r] EXCEPT !.line = A!Eligible(routerReq[r].strict)]
             one == A!Onward(q)
  <2>1. /\ AlongOK(q) /\ ~q.last /\ q.next = 1 /\ q.asked = <<>> /\ q.day = routerReq[r].day
        /\ q.asked = routerReq[r].asked
    BY <1>0, <1>5 DEF A!Route, RequestOK, AlongOK, RequestFields
  <2>2. Spends(routerReq[r]) /\ UNCHANGED <<today, used, answers, late>> /\ A!Goto(r, one)
    BY <1>5 DEF A!Route, Spends
  <2> HIDE DEF q
  <2>3. RequestsInv' /\ SpentInv'
    BY <2>1, <2>2, RouterGoes
  <2>4. \/ one.pc = "calling" /\ Fresh(q, one)
        \/ one.pc = "failed" /\ one.asked = q.asked /\ \A i \in 1..Len(one.line) : Refuses(one.line[i], one)
    BY <2>1, OnwardFacts
  <2>5. routerReq' = [routerReq EXCEPT ![r] = one]
    BY <2>2 DEF A!Goto
  <2> HIDE DEF one
  <2>6. Fresh(q, one) => Fresh(routerReq[r], one)
    BY <2>1 DEF Fresh
  <2>7. A!LastOnly
    BY <2>1, <2>4, <2>5, <2>6, OneGoesAlong
  <2> QED BY <2>3, <2>7
<1>6. ASSUME NEW r \in Clients, A!Answers(r) PROVE RequestsInv' /\ SpentInv' /\ A!LastOnly
  <2>1. routerReq' = [routerReq EXCEPT ![r] = A!NoReq] /\ A!NoReq.pc = "idle" /\ A!NoReq.asked = <<>>
    BY <1>6 DEF A!Answers, A!NoReq
  <2> QED BY <1>6, <2>1, AnswersSpends, OneGoesAlong
<1>7. ASSUME NEW r \in Clients, A!Declines(r) PROVE RequestsInv' /\ SpentInv' /\ A!LastOnly
  <2> DEFINE q == [routerReq[r] EXCEPT !.pc = "failed"]
  <2>1. /\ routerReq[r].pc = "calling" /\ routerReq' = [routerReq EXCEPT ![r] = q]
        /\ UNCHANGED <<today, used, answers, late>>
    BY <1>7 DEF A!Declines, RequestsInv
  <2>2. RequestOK(q) /\ Spends(q) /\ Spends(routerReq[r]) /\ q.day = routerReq[r].day
        /\ q.asked = routerReq[r].asked
    BY <1>0, <2>1 DEF RequestOK, AlongOK, RequestFields, Spends
  <2> HIDE DEF q
  <2> QED BY <2>1, <2>2, GoesOnSpends, OneGoesAlong
<1>8. ASSUME NEW r \in Clients, routerReq[r].pc = "calling", UNCHANGED <<today, used, answers, late>>,
             A!Goto(r, A!Onward(routerReq[r]))
      PROVE  RequestsInv' /\ SpentInv' /\ A!LastOnly
  <2> DEFINE q == routerReq[r]
             one == A!Onward(q)
  <2>1. AlongOK(q) /\ Spends(q)
    BY <1>0, <1>8 DEF RequestOK, Spends
  <2>2. Fresh(q, one) \/ one.asked = q.asked
    BY <2>1, OnwardFacts
  <2>3. RequestsInv' /\ SpentInv'
    BY <1>8, <2>1, RouterGoes
  <2>4. routerReq' = [routerReq EXCEPT ![r] = one]
    BY <1>8 DEF A!Goto
  <2> HIDE DEF one
  <2>5. A!LastOnly
    BY <1>8, <2>2, <2>4, OneGoesAlong
  <2> QED BY <2>3, <2>5
<1>9. ASSUME NEW r \in Clients, A!ModelFails(r) PROVE RequestsInv' /\ SpentInv' /\ A!LastOnly
  <2>1. routerReq[r].pc = "calling" /\ UNCHANGED <<today, used, answers, late>>
    BY <1>9 DEF A!ModelFails
  <2>2. CASE routerReq[r].left = <<>>
    BY <1>8, <1>9, <2>1, <2>2 DEF A!ModelFails
  <2>3. CASE routerReq[r].left /= <<>>
    <3> DEFINE q == [routerReq[r] EXCEPT !.model = Head(routerReq[r].left), !.left = Tail(routerReq[r].left)]
    <3>1. routerReq' = [routerReq EXCEPT ![r] = q]
      BY <1>9, <2>3 DEF A!ModelFails, A!Goto
    <3>2. RequestOK(q) /\ Spends(q) /\ Spends(routerReq[r]) /\ q.day = routerReq[r].day
          /\ q.asked = routerReq[r].asked
      BY <1>0, <2>1 DEF RequestOK, AlongOK, RequestFields, Spends
    <3> HIDE DEF q
    <3> QED BY <2>1, <3>1, <3>2, GoesOnSpends, OneGoesAlong
  <2> QED BY <2>2, <2>3
<1>10. ASSUME NEW r \in Clients, A!ProviderFails(r) PROVE RequestsInv' /\ SpentInv' /\ A!LastOnly
  BY <1>8, <1>10 DEF A!ProviderFails
<1>11. ASSUME NEW r \in Clients, A!GiveBack(r) PROVE RequestsInv' /\ SpentInv' /\ A!LastOnly
  <2>1. routerReq' = [routerReq EXCEPT ![r] = A!NoReq] /\ A!NoReq.pc = "idle" /\ A!NoReq.asked = <<>>
    BY <1>11 DEF A!GiveBack, A!NoReq
  <2> QED BY <1>11, <2>1, GiveBackSpends, OneGoesAlong
<1>12. ASSUME NEW p \in A!Ps, A!Ages(p) \/ A!Rested(p) \/ A!Returns(p)
       PROVE  RequestsInv' /\ SpentInv' /\ A!LastOnly
  BY <1>0, <1>2, <1>12 DEF A!Ages, A!Rested, A!Returns
<1>13. CASE A!Midnight
  BY <1>0, <1>2, <1>13, PeopleAssumption DEF A!Midnight, A!Days
<1>14. CASE UNCHANGED A!vars
  BY <1>0, <1>2, <1>14 DEF A!vars
<1> QED BY <1>3, <1>4, <1>5, <1>6, <1>7, <1>9, <1>10, <1>11, <1>12, <1>13, <1>14 DEF A!Next

LEMMA RouterInit == ASSUME A!Init PROVE RequestsInv /\ SpentInv
<1>1. \A r \in Clients : routerReq[r] = A!NoReq
  BY DEF A!Init
<1>2. RequestsInv
  BY <1>1, FreshRequest, PeopleAssumption DEF A!Init, RequestsInv, A!Days
<1>3. \A d : Holders(d) = {}
  BY <1>1, FreshRequest DEF Holders
<1> QED BY <1>2, <1>3, FS_EmptySet, PeopleAssumption DEF A!Init, SpentInv

RouterInv == part = "router" => RequestsInv /\ SpentInv

(* The part of the run that the router is.                                 *)
LEMMA RouterInvHolds == SpecMC => []RouterInv
<1>1. InitMC => RouterInv
  BY PartInit, RouterInit DEF RouterInv
<1>2. RouterInv /\ [NextMC]_all => RouterInv'
  BY PartStep, RouterNext DEF RouterInv
<1> QED BY <1>1, <1>2, PTL DEF SpecMC

(* A day's answers stay within the allowance, however many requests take   *)
(* from it at once, except for what is given back after midnight.          *)
THEOREM AllowanceKeptHolds == SpecMC => []AllowanceKept
<1>1. RouterInv => AllowanceKept
  <2> SUFFICES ASSUME RequestsInv, SpentInv, NEW d \in A!Days
               PROVE  answers[d] + A!Holding(d) <= Limit + late[d]
    BY DEF RouterInv, AllowanceKept, A!AllowanceKept
  <2>1. A!Holding(d) = Cardinality(Holders(d))
    BY DEF A!Holding, Holders, Spends, A!Cardinality, Cardinality
  <2> QED BY <2>1, HoldersFinite, PeopleAssumption DEF SpentInv
<1> QED BY <1>1, RouterInvHolds, PTL

-----------------------------------------------------------------------------
(* OpenRouter's models.                                                    *)

LEMMA CountIsCount == ASSUME NEW group PROVE O!Cardinality(group) = Cardinality(group)
  BY DEF O!Cardinality, Cardinality

(* Places in order: each place once.                                       *)
LEMMA InOrderFacts ==
  ASSUME NEW places \in SUBSET Nat, IsFiniteSet(places)
  PROVE  LET n == Cardinality(places)
             at == O!InOrder(places)
         IN  /\ n \in Nat /\ at \in [1..n -> places]
             /\ \A i, j \in 1..n : at[i] = at[j] => i = j
             /\ \A p \in places : \E i \in 1..n : at[i] = p
<1> DEFINE n == Cardinality(places)
           at == O!InOrder(places)
           Under(p) == {k \in places : k < p}
           Rank(p) == Cardinality(Under(p))
           rank == [p \in places |-> Rank(p)]
<1>1. n \in Nat
  BY FS_CardinalityType
<1>2. ASSUME NEW p \in places PROVE IsFiniteSet(Under(p)) /\ Rank(p) \in 0..(n - 1)
  <2>1. Under(p) \in SUBSET places /\ p \notin Under(p) /\ Under(p) # places
    OBVIOUS
  <2>2. /\ IsFiniteSet(Under(p)) /\ Rank(p) <= n
        /\ Rank(p) = n => Under(p) = places
    <3> HIDE DEF Under
    <3> QED BY <2>1, FS_Subset
  <2>3. Rank(p) \in Nat
    <3> HIDE DEF Under
    <3> QED BY <2>2, FS_CardinalityType
  <2> QED BY <1>1, <2>1, <2>2, <2>3
<1>3. ASSUME NEW p \in places, NEW q \in places, p < q PROVE Rank(p) < Rank(q)
  <2>0. p \in Nat /\ q \in Nat /\ \A k \in places : k \in Nat
    OBVIOUS
  <2>4. p < q /\ ~(p < p) /\ \A k \in places : k < p => k < q
    BY <1>3, <2>0
  <2>1. Under(p) \in SUBSET Under(q) /\ p \in Under(q) /\ p \notin Under(p)
    BY <2>4
  <2>2. Rank(p) <= Rank(q) /\ (Rank(p) = Rank(q) => Under(p) = Under(q))
    <3>1. IsFiniteSet(Under(q))
      BY <1>2
    <3> HIDE DEF Under
    <3> QED BY <2>1, <3>1, FS_Subset
  <2>3. Rank(p) \in 0..(n - 1) /\ Rank(q) \in 0..(n - 1)
    BY <1>2
  <2> QED BY <1>1, <2>1, <2>2, <2>3
<1>4. \A p, q \in places : Rank(p) = Rank(q) => p = q
  <2> SUFFICES ASSUME NEW p \in places, NEW q \in places, Rank(p) = Rank(q), p # q PROVE FALSE
    OBVIOUS
  <2>1. Rank(p) \in 0..(n - 1) /\ Rank(q) \in 0..(n - 1)
    BY <1>2
  <2>2. p < q \/ q < p
    OBVIOUS
  <2>3. Rank(p) < Rank(q) \/ Rank(q) < Rank(p)
    BY <1>3, <2>2
  <2> HIDE DEF Rank
  <2> QED BY <1>1, <2>1, <2>3
<1>5. rank \in Injection(places, 0..(n - 1))
  <2>1. rank \in [places -> 0..(n - 1)]
    BY <1>2
  <2>2. \A p, q \in places : rank[p] = rank[q] => p = q
    BY <1>4
  <2> HIDE DEF rank
  <2> QED BY <2>1, <2>2 DEF Injection, IsInjective
<1>6. rank \in Surjection(places, 0..(n - 1))
  <2>1. IsFiniteSet(0..(n - 1)) /\ Cardinality(0..(n - 1)) = n
    <3> HIDE DEF n
    <3>1. 0 \in Int /\ n - 1 \in Int /\ (IF 0 > n - 1 THEN 0 ELSE (n - 1) - 0 + 1) = n
      BY <1>1
    <3> QED BY <3>1, FS_Interval
  <2> HIDE DEF rank
  <2> QED BY <1>5, <2>1, FS_Injection
<1>7. \A r \in 0..(n - 1) : \E p \in places : rank[p] = r
  <2> HIDE DEF rank
  <2> QED BY <1>6 DEF Surjection
<1>8. at = [i \in 1..n |-> CHOOSE p \in places : Rank(p) = i - 1]
  BY DEF O!InOrder, O!Cardinality, Cardinality
<1>9. ASSUME NEW i \in 1..n PROVE at[i] \in places /\ Rank(at[i]) = i - 1
  <2>1. i - 1 \in 0..(n - 1)
    BY <1>1
  <2>2. \E p \in places : Rank(p) = i - 1
    BY <1>7, <2>1
  <2> HIDE DEF Rank
  <2>3. at[i] = CHOOSE p \in places : Rank(p) = i - 1
    BY <1>8
  <2> QED BY <2>2, <2>3
<1>10. at \in [1..n -> places]
  <2> HIDE DEF Rank
  <2>1. DOMAIN at = 1..n /\ at = [i \in 1..n |-> at[i]]
    BY <1>8
  <2> QED BY <1>9, <2>1
<1>11. \A i, j \in 1..n : at[i] = at[j] => i = j
  <2> SUFFICES ASSUME NEW i \in 1..n, NEW j \in 1..n, at[i] = at[j] PROVE i = j
    OBVIOUS
  <2>1. i - 1 = j - 1
    <3> HIDE DEF at, Rank
    <3> QED BY <1>9
  <2> QED BY <1>1, <2>1
<1>12. ASSUME NEW p \in places PROVE \E i \in 1..n : at[i] = p
  <2> DEFINE i == Rank(p) + 1
  <2>1. i \in 1..n /\ i - 1 = Rank(p)
    BY <1>1, <1>2
  <2>2. at[i] \in places /\ Rank(at[i]) = Rank(p)
    <3> HIDE DEF Rank, at, i
    <3> QED BY <1>9, <2>1
  <2>3. at[i] = p
    <3> HIDE DEF Rank, at, i
    <3> QED BY <1>4, <2>2
  <2> QED BY <2>1, <2>3
<1> QED BY <1>1, <1>10, <1>11, <1>12

(* What a list has at some places: each of them once.                      *)
LEMMA PickFacts ==
  ASSUME NEW ids \in Seq(O!Models), NEW places \in SUBSET DOMAIN ids
  PROVE  LET picked == O!Pick(ids, places)
         IN  /\ picked \in Seq(O!Models)
             /\ \A i \in DOMAIN picked : \E p \in places : picked[i] = ids[p]
             /\ \A p \in places : \E i \in DOMAIN picked : picked[i] = ids[p]
             /\ \A i, j \in DOMAIN picked : i # j => \E p, q \in places :
                  p # q /\ picked[i] = ids[p] /\ picked[j] = ids[q]
<1> DEFINE n == Cardinality(places)
           at == O!InOrder(places)
           picked == O!Pick(ids, places)
<1>1. DOMAIN ids = 1..Len(ids) /\ Len(ids) \in Nat /\ \A i \in DOMAIN ids : ids[i] \in O!Models
  BY SeqIsFunction
<1>2. places \in SUBSET Nat /\ IsFiniteSet(places)
  <2>1. IsFiniteSet(1..Len(ids))
    BY <1>1, FS_Interval
  <2> QED BY <1>1, <2>1, FS_Subset
<1>3. /\ n \in Nat /\ at \in [1..n -> places]
      /\ \A i, j \in 1..n : at[i] = at[j] => i = j
      /\ \A p \in places : \E i \in 1..n : at[i] = p
  BY <1>2, InOrderFacts
<1>4. picked = [k \in DOMAIN at |-> ids[at[k]]]
  BY DEF O!Pick
<1> HIDE DEF at, picked, n
<1>5. DOMAIN picked = 1..n /\ picked \in [1..n -> O!Models] /\ \A k \in 1..n : picked[k] = ids[at[k]]
  BY <1>1, <1>3, <1>4
<1>6. picked \in Seq(O!Models)
  BY <1>3, <1>5, FunctionIsSeq
<1>7. \A i \in DOMAIN picked : at[i] \in places /\ picked[i] = ids[at[i]]
  BY <1>3, <1>5
<1>8. \A i, j \in DOMAIN picked : i # j => at[i] # at[j]
  BY <1>3, <1>5
<1>9. \A p \in places : \E i \in DOMAIN picked : picked[i] = ids[p]
  BY <1>3, <1>5
<1> USE DEF picked
<1> QED BY <1>6, <1>7, <1>8, <1>9

LEMMA ModelFacts ==
  /\ O!Models = {m.id : m \in Offered} /\ IsFiniteSet(Offered) /\ FreeRouter \notin O!Models
  /\ \A m \in Offered : m.id \in O!Models /\ O!MakerOf(m.id) = m.maker
<1>1. ASSUME NEW m \in Offered PROVE O!MakerOf(m.id) = m.maker
  <2>1. \A n \in Offered : n.id = m.id => n = m
    BY ModelsAssumption
  <2> QED BY <2>1 DEF O!MakerOf
<1> QED BY <1>1, ModelsAssumption DEF O!Models

(* The ranked list: every model that can write.                            *)
LEMMA RankedFacts ==
  /\ O!Ranked \in Seq(O!Models)
  /\ \A m \in Offered : m.usable => \E i \in DOMAIN O!Ranked : O!Ranked[i] = m.id
<1> DEFINE usable == {m \in Offered : m.usable}
           places == {m.score : m \in usable}
           ranks == O!InOrder(places)
           n == Cardinality(places)
<1>1. places \in SUBSET Nat /\ IsFiniteSet(places)
  <2>1. IsFiniteSet(usable)
    BY ModelFacts, FS_Subset
  <2>2. [m \in usable |-> m.score] \in Surjection(usable, places)
    BY DEF Surjection
  <2> HIDE DEF usable
  <2>3. IsFiniteSet(places)
    <3> HIDE DEF places
    <3> QED BY <2>1, <2>2, FS_Surjection
  <2> QED BY <2>3, ModelsAssumption DEF usable
<1>2. /\ n \in Nat /\ ranks \in [1..n -> places]
      /\ \A p \in places : \E i \in 1..n : ranks[i] = p
  BY <1>1, InOrderFacts
<1>3. O!Ranked = [i \in DOMAIN ranks |-> (CHOOSE m \in usable : m.score = ranks[i]).id]
  BY DEF O!Ranked
<1> HIDE DEF ranks, n
<1>4. ASSUME NEW i \in 1..n, NEW m \in usable, m.score = ranks[i]
      PROVE  (CHOOSE x \in usable : x.score = ranks[i]) = m
  <2>1. \A x \in usable : x.score = ranks[i] => x = m
    BY <1>4, ModelsAssumption
  <2> QED BY <1>4, <2>1
<1>5. \A i \in 1..n : \E m \in usable : m.score = ranks[i]
  BY <1>2
<1>6. DOMAIN O!Ranked = 1..n
      /\ \A i \in 1..n : \A m \in usable : m.score = ranks[i] => O!Ranked[i] = m.id
  BY <1>2, <1>3, <1>4
<1>7. O!Ranked \in [1..n -> O!Models]
  <2>1. \A i \in 1..n : O!Ranked[i] \in O!Models
    BY <1>5, <1>6, ModelFacts
  <2>2. O!Ranked = [i \in 1..n |-> O!Ranked[i]]
    BY <1>3, <1>6
  <2> QED BY <2>1, <2>2
<1>8. O!Ranked \in Seq(O!Models)
  BY <1>2, <1>7, FunctionIsSeq
<1>9. \A m \in Offered : m.usable => \E i \in DOMAIN O!Ranked : O!Ranked[i] = m.id
  BY <1>2, <1>6
<1> QED BY <1>8, <1>9

(* A maker comes again once all makers have come.                          *)
MakersFirst(list, ids) ==
  \A i, j \in DOMAIN list : i < j /\ O!MakerOf(list[i]) = O!MakerOf(list[j]) =>
    \A k \in DOMAIN ids : \E h \in DOMAIN list : h < j /\ O!MakerOf(list[h]) = O!MakerOf(ids[k])

LEMMA SpreadFacts ==
  ASSUME NEW ids \in Seq(O!Models)
  PROVE  O!Spread(ids) \in Seq(O!Models) /\ MakersFirst(O!Spread(ids), ids)
<1> DEFINE again == {i \in DOMAIN ids : \E j \in 1..(i - 1) : O!MakerOf(ids[j]) = O!MakerOf(ids[i])}
           first == O!Pick(ids, DOMAIN ids \ again)
           others == O!Pick(ids, again)
           list == O!Spread(ids)
<1>1. DOMAIN ids = 1..Len(ids) /\ Len(ids) \in Nat /\ DOMAIN ids \subseteq Nat
  BY SeqIsFunction
<1>2. list = first \o others
  BY DEF O!Spread
<1>3. \A i \in DOMAIN ids \ again : \A j \in DOMAIN ids : j < i => O!MakerOf(ids[j]) # O!MakerOf(ids[i])
  BY <1>1
<1>4. \A k \in DOMAIN ids : \E l \in DOMAIN ids \ again : O!MakerOf(ids[l]) = O!MakerOf(ids[k])
  <2> SUFFICES ASSUME NEW k \in DOMAIN ids
               PROVE  \E l \in DOMAIN ids \ again : O!MakerOf(ids[l]) = O!MakerOf(ids[k])
    OBVIOUS
  <2> DEFINE same == {l \in DOMAIN ids : O!MakerOf(ids[l]) = O!MakerOf(ids[k])}
  <2>1. same \in SUBSET Nat /\ same # {}
    BY <1>1
  <2>2. PICK l \in same : \A y \in same : l <= y
    <3> HIDE DEF same
    <3> QED BY <2>1, HasLeast
  <2>3. l \notin again
    BY <1>1, <2>2
  <2> QED BY <2>2, <2>3
<1>5. /\ first \in Seq(O!Models)
      /\ \A l \in DOMAIN ids \ again : \E i \in DOMAIN first : first[i] = ids[l]
      /\ \A i, j \in DOMAIN first : i # j => \E p, q \in DOMAIN ids \ again :
           p # q /\ first[i] = ids[p] /\ first[j] = ids[q]
  <2>1. DOMAIN ids \ again \in SUBSET DOMAIN ids
    OBVIOUS
  <2> HIDE DEF again
  <2> QED BY <2>1, PickFacts
<1>6. others \in Seq(O!Models)
  <2>1. again \in SUBSET DOMAIN ids
    OBVIOUS
  <2> HIDE DEF again
  <2> QED BY <2>1, PickFacts
<1> HIDE DEF again, first, others, list
<1>7. /\ list \in Seq(O!Models) /\ Len(list) = Len(first) + Len(others)
      /\ DOMAIN list = 1..Len(list) /\ DOMAIN first = 1..Len(first) /\ Len(first) \in Nat /\ Len(others) \in Nat
      /\ \A i \in 1..Len(first) : list[i] = first[i]
  BY <1>2, <1>5, <1>6
<1>8. ASSUME NEW i \in DOMAIN first, NEW j \in DOMAIN first, i # j
      PROVE  O!MakerOf(first[i]) # O!MakerOf(first[j])
  <2>1. PICK p \in DOMAIN ids \ again, q \in DOMAIN ids \ again : p # q /\ first[i] = ids[p] /\ first[j] = ids[q]
    BY <1>5, <1>8
  <2>2. p \in Nat /\ q \in Nat /\ (p < q \/ q < p)
    BY <1>1, <2>1
  <2> QED BY <1>3, <2>1, <2>2
<1>9. ASSUME NEW i \in DOMAIN list, NEW j \in DOMAIN list, i < j, O!MakerOf(list[i]) = O!MakerOf(list[j]),
             NEW k \in DOMAIN ids
      PROVE  \E h \in DOMAIN list : h < j /\ O!MakerOf(list[h]) = O!MakerOf(ids[k])
  <2>1. j > Len(first)
    <3> SUFFICES ASSUME j <= Len(first) PROVE FALSE
      BY <1>7
    <3>1. i \in DOMAIN first /\ j \in DOMAIN first /\ i # j
      BY <1>7, <1>9
    <3> QED BY <1>7, <1>8, <1>9, <3>1
  <2>2. PICK l \in DOMAIN ids \ again : O!MakerOf(ids[l]) = O!MakerOf(ids[k])
    BY <1>4
  <2>3. PICK h \in DOMAIN first : first[h] = ids[l]
    BY <1>5
  <2> QED BY <1>7, <2>1, <2>2, <2>3
<1>10. MakersFirst(list, ids)
  BY <1>9 DEF MakersFirst
<1> USE DEF list
<1> QED BY <1>7, <1>10

(* The models of an ask: a maker comes again when all that are awake have. *)
InTurn(line) ==
  LET ours  == {i \in DOMAIN line : line[i] \in O!Models}
      awake == {m \in Offered : m.usable /\ ~O!Resting(m.id)}
  IN  \A i, j \in ours : i < j /\ O!MakerOf(line[i]) = O!MakerOf(line[j]) =>
        {m.maker : m \in awake} \subseteq {O!MakerOf(line[k]) : k \in {k \in ours : k < j}}

LEMMA LineFacts ==
  ASSUME NEW ids \in Seq(O!Models),
         \A m \in Offered : m.usable => \E i \in DOMAIN ids : ids[i] = m.id
  PROVE  InTurn(O!Line(ids))
<1> DEFINE at == {i \in DOMAIN ids : ~O!Resting(ids[i])}
           up == O!Pick(ids, at)
           list == O!Spread(up)
           n == IF Len(list) < MaxAttempts THEN Len(list) ELSE MaxAttempts - 1
           line == O!Line(ids)
           ours == {i \in DOMAIN line : line[i] \in O!Models}
           awake == {m \in Offered : m.usable /\ ~O!Resting(m.id)}
<1>1. line = Append(SubSeq(list, 1, n), FreeRouter)
  BY DEF O!Line
<1>2. up \in Seq(O!Models) /\ \A p \in at : \E i \in DOMAIN up : up[i] = ids[p]
  <2>1. at \in SUBSET DOMAIN ids
    OBVIOUS
  <2> HIDE DEF at
  <2> QED BY <2>1, PickFacts
<1>3. ASSUME NEW m \in awake PROVE \E i \in DOMAIN up : O!MakerOf(up[i]) = m.maker
  <2>1. PICK p \in DOMAIN ids : ids[p] = m.id
    OBVIOUS
  <2>2. p \in at
    BY <2>1
  <2>3. PICK i \in DOMAIN up : up[i] = m.id
    <3> HIDE DEF at, up
    <3> QED BY <1>2, <2>1, <2>2
  <2>4. O!MakerOf(m.id) = m.maker
    BY ModelFacts
  <2> HIDE DEF up
  <2> QED BY <2>3, <2>4
<1>4. list \in Seq(O!Models) /\ MakersFirst(list, up)
  <2> HIDE DEF up
  <2> QED BY <1>2, SpreadFacts
<1> HIDE DEF at, up, list, line
<1>5. Len(list) \in Nat /\ DOMAIN list = 1..Len(list) /\ n \in 0..Len(list)
      /\ \A i \in 1..Len(list) : list[i] \in O!Models
  BY <1>4, SeqIsFunction, ModelsAssumption
<1> HIDE DEF n
<1>6. /\ DOMAIN line = 1..(n + 1) /\ line[n + 1] = FreeRouter
      /\ \A i \in 1..n : line[i] = list[i]
  <2>1. SubSeq(list, 1, n) \in Seq(O!Models) /\ Len(SubSeq(list, 1, n)) = n
        /\ \A i \in 1..n : SubSeq(list, 1, n)[i] = list[i]
    BY <1>4, <1>5
  <2> QED BY <1>1, <1>5, <2>1
<1>7. ours = 1..n
  BY <1>5, <1>6, ModelFacts
<1>8. ASSUME NEW i \in ours, NEW j \in ours, i < j, O!MakerOf(line[i]) = O!MakerOf(line[j]), NEW m \in awake
      PROVE  \E k \in ours : k < j /\ O!MakerOf(line[k]) = m.maker
  <2>1. i \in DOMAIN list /\ j \in DOMAIN list /\ line[i] = list[i] /\ line[j] = list[j]
    BY <1>5, <1>6, <1>7
  <2>2. PICK k \in DOMAIN up : O!MakerOf(up[k]) = m.maker
    BY <1>3
  <2>3. PICK h \in DOMAIN list : h < j /\ O!MakerOf(list[h]) = O!MakerOf(up[k])
    BY <1>4, <1>8, <2>1 DEF MakersFirst
  <2>4. h \in 1..n
    BY <1>5, <1>7, <2>3
  <2> QED BY <1>6, <1>7, <2>2, <2>3, <2>4
<1> HIDE DEF ours, awake
<1>9. \A i, j \in ours : i < j /\ O!MakerOf(line[i]) = O!MakerOf(line[j]) =>
        {m.maker : m \in awake} \subseteq {O!MakerOf(line[k]) : k \in {k \in ours : k < j}}
  BY <1>8
<1> USE DEF line, ours, awake
<1> QED BY <1>9 DEF InTurn

LEMMA NoLine == O!Line(<<>>) = <<FreeRouter>>
<1> DEFINE none == <<>>
           at == {i \in DOMAIN none : ~O!Resting(none[i])}
           again == {i \in DOMAIN none : \E j \in 1..(i - 1) : O!MakerOf(none[j]) = O!MakerOf(none[i])}
           list == O!Spread(O!Pick(none, at))
<1>1. none \in Seq(O!Models) /\ DOMAIN none = {}
  OBVIOUS
<1>2. at = {} /\ again = {} /\ DOMAIN none \ again = {}
  BY <1>1
<1> HIDE DEF none, at, again
<1>3. O!Pick(none, {}) = <<>>
  <2> DEFINE picked == O!Pick(none, {})
  <2>1. {} \in SUBSET DOMAIN none
    OBVIOUS
  <2>2. picked \in Seq(O!Models) /\ \A i \in DOMAIN picked : \E p \in {} : picked[i] = none[p]
    BY <1>1, <2>1, PickFacts
  <2> HIDE DEF picked
  <2>3. picked \in Seq(O!Models) /\ DOMAIN picked = {}
    BY <2>2
  <2>4. Len(picked) = 0
    BY <2>3
  <2>5. picked = <<>>
    BY <2>3, <2>4
  <2> QED BY <2>5 DEF picked
<1>4. O!Spread(none) = <<>>
  <2>1. O!Spread(none) = O!Pick(none, DOMAIN none \ again) \o O!Pick(none, again)
    BY DEF O!Spread, again
  <2> QED BY <1>2, <1>3, <2>1
<1>5. list = <<>>
  BY <1>2, <1>3, <1>4 DEF none
<1>6. O!Line(none) = Append(SubSeq(list, 1, IF Len(list) < MaxAttempts THEN Len(list) ELSE MaxAttempts - 1), FreeRouter)
  BY DEF O!Line, at
<1> HIDE DEF list
<1>8. Len(list) < MaxAttempts /\ Len(list) = 0
  BY <1>5, ModelsAssumption
<1>9. SubSeq(list, 1, 0) = <<>>
  BY <1>5
<1>10. O!Line(none) = Append(<<>>, FreeRouter)
  BY <1>6, <1>8, <1>9
<1> QED BY <1>10 DEF none

LEMMA NoneInTurn == InTurn(O!Line(<<>>))
  BY NoLine, ModelFacts DEF InTurn

(* A line is made by Line, of all models or of none, or is what it was.    *)
LineOf(q, new) ==
  /\ {"pc", "line"} \subseteq DOMAIN new
  /\ new.line \in {q.line, <<>>, O!Line(<<>>), O!Line(O!Ranked)}

LEMMA LineOfNoAsk == ASSUME NEW q PROVE LineOf(q, O!NoAsk)
  BY DEF LineOf, O!NoAsk

LEMMA LineOnward ==
  ASSUME NEW q, {"pc", "line"} \subseteq DOMAIN q, NEW up
  PROVE  {"pc", "line"} \subseteq DOMAIN O!Onward(q, up) /\ O!Onward(q, up).line = q.line
<1> DEFINE left == {i \in (q.at + 1)..Len(q.line) : q.line[i] \in up}
           next == CHOOSE i \in left : \A j \in left : i <= j
           over == [q EXCEPT !.pc = "over"]
           further == [q EXCEPT !.pc = "calling", !.at = next, !.folded = FALSE, !.tried = @ \union {q.line[next]}]
<1>1. O!Onward(q, up) = IF left = {} THEN over ELSE further
  BY DEF O!Onward
<1>2. DOMAIN over = DOMAIN q /\ over.line = q.line
  OBVIOUS
<1>3. DOMAIN further = DOMAIN q /\ further.line = q.line
  <2> HIDE DEF left, next
  <2> QED OBVIOUS
<1> HIDE DEF left, over, further
<1> QED BY <1>1, <1>2, <1>3

LineTypes == DOMAIN ask = Clients /\ \A a \in Clients : {"pc", "line"} \subseteq DOMAIN ask[a]

LEMMA LineMoves ==
  ASSUME LineTypes, NEW a \in Clients, NEW q, LineOf(ask[a], q), ask' = [ask EXCEPT ![a] = q]
  PROVE  LineTypes' /\ O!SpreadsAsks
<1>1. DOMAIN ask' = Clients /\ \A b \in Clients : ask'[b] = IF b = a THEN q ELSE ask[b]
  BY DEF LineTypes
<1>2. LineTypes'
  BY <1>1 DEF LineTypes, LineOf
<1>3. InTurn(<<>>) /\ InTurn(O!Line(<<>>)) /\ InTurn(O!Line(O!Ranked))
  <2>1. InTurn(<<>>)
    BY DEF InTurn
  <2> QED BY <2>1, NoneInTurn, RankedFacts, LineFacts
<1>4. \A b \in Clients : ask'[b].line /= ask[b].line => InTurn(ask'[b].line)
  BY <1>1, <1>3 DEF LineOf
<1> QED BY <1>2, <1>4 DEF O!SpreadsAsks, InTurn

LEMMA LineGoes ==
  ASSUME LineTypes, NEW a \in Clients, NEW q, LineOf(ask[a], q), O!Goto(a, q)
  PROVE  LineTypes' /\ O!SpreadsAsks
<1>1. ask' = [ask EXCEPT ![a] = q]
  BY DEF O!Goto
<1> QED BY <1>1, LineMoves

LEMMA LineStarts ==
  ASSUME LineTypes, NEW a \in Clients, NEW ids, ids = <<>> \/ ids = O!Ranked, O!Start(a, ids)
  PROVE  LineTypes' /\ O!SpreadsAsks
<1> DEFINE new == [O!NoAsk EXCEPT !.line = O!Line(ids)]
<1>1. {"pc", "line"} \subseteq DOMAIN new /\ new.line = O!Line(ids)
  BY DEF O!NoAsk
<1>2. O!Goto(a, O!Onward(new, O!Awake))
  BY DEF O!Start
<1> HIDE DEF new
<1>3. LineOf(ask[a], O!Onward(new, O!Awake))
  BY <1>1, LineOnward DEF LineOf
<1> QED BY <1>2, <1>3, LineGoes

LEMMA KnownFacts == O!Known = <<>> \/ O!Known = O!Ranked
  BY DEF O!Known

LEMMA OpenRouterNext ==
  ASSUME LineTypes, [O!Next]_(O!vars)
  PROVE  LineTypes' /\ O!SpreadsAsks
<1>1. ASSUME UNCHANGED ask PROVE LineTypes' /\ O!SpreadsAsks
  BY <1>1 DEF LineTypes, O!SpreadsAsks
<1>2. ASSUME NEW a \in Clients, O!Begin(a) PROVE LineTypes' /\ O!SpreadsAsks
  <2>1. CASE O!MustList
    <3> DEFINE q == [ask[a] EXCEPT !.pc = "listing"]
    <3>1. ask' = [ask EXCEPT ![a] = q]
      BY <1>2, <2>1 DEF O!Begin
    <3>2. LineOf(ask[a], q)
      BY DEF LineOf, LineTypes
    <3> HIDE DEF q
    <3> QED BY <3>1, <3>2, LineMoves
  <2>2. CASE ~O!MustList
    BY <1>2, <2>2, KnownFacts, LineStarts DEF O!Begin
  <2> QED BY <2>1, <2>2
<1>3. ASSUME NEW a \in Clients, O!Listed(a) \/ O!NotListed(a) PROVE LineTypes' /\ O!SpreadsAsks
  BY <1>3, KnownFacts, LineStarts DEF O!Listed, O!NotListed
<1>4. ASSUME NEW a \in Clients, O!Answered(a) \/ O!KeyRefused(a) \/ O!AccountLimit(a) \/ O!Over(a)
      PROVE  LineTypes' /\ O!SpreadsAsks
  BY <1>4, LineOfNoAsk, LineMoves DEF O!Answered, O!KeyRefused, O!AccountLimit, O!Over
<1>5. ASSUME NEW a \in Clients, O!Folds(a) PROVE LineTypes' /\ O!SpreadsAsks
  <2> DEFINE q == [ask[a] EXCEPT !.folded = TRUE]
  <2>1. O!Goto(a, q)
    BY <1>5 DEF O!Folds
  <2>2. LineOf(ask[a], q)
    BY DEF LineOf, LineTypes
  <2> HIDE DEF q
  <2> QED BY <2>1, <2>2, LineGoes
<1>6. ASSUME NEW a \in Clients, NEW why, O!Fails(a, why) PROVE LineTypes' /\ O!SpreadsAsks
  <2>1. PICK up : O!Goto(a, O!Onward(ask[a], up))
    BY <1>6 DEF O!Fails
  <2>2. LineOf(ask[a], O!Onward(ask[a], up))
    BY LineOnward DEF LineOf, LineTypes
  <2> QED BY <2>1, <2>2, LineGoes
<1>7. ASSUME NEW m, O!Wakes(m) PROVE LineTypes' /\ O!SpreadsAsks
  BY <1>1, <1>7 DEF O!Wakes
<1>8. CASE O!Diagnose \/ O!Resumes \/ O!Ages \/ O!ListAges \/ UNCHANGED O!vars
  BY <1>1, <1>8 DEF O!Diagnose, O!Resumes, O!Ages, O!ListAges, O!vars
<1> QED BY <1>2, <1>3, <1>4, <1>5, <1>6, <1>7, <1>8 DEF O!Next

LineInv == part = "openRouter" => LineTypes

LEMMA OpenRouterInit == ASSUME O!Init PROVE LineTypes
  BY DEF O!Init, O!NoAsk, LineTypes

(* No request asks a provider twice, or one that is set aside unless all   *)
(* it asked were set aside in its first round; it is turned away unasked   *)
(* only by providers that are full and awake, or have no model; and of     *)
(* OpenRouter's models a maker is asked again once every maker with a      *)
(* model that is awake is asked.                                           *)
THEOREM AskedInTurnHolds == SpecMC => AskedInTurn
<1>1. InitMC => LineInv
  BY PartInit, OpenRouterInit DEF LineInv
<1>2. LineInv /\ [NextMC]_all => LineInv'
  BY PartStep, OpenRouterNext DEF LineInv
<1>3. RouterInv /\ LineInv /\ [NextMC]_all =>
        [/\ part = "router" => A!LastOnly
         /\ part = "openRouter" => O!SpreadsAsks]_all
  BY PartStep, RouterNext, OpenRouterNext DEF RouterInv, LineInv
<1> QED BY <1>1, <1>2, <1>3, RouterInvHolds, PTL DEF SpecMC, AskedInTurn

-----------------------------------------------------------------------------
(* Workflows.                                                              *)

(* The walk of a flow, as far as some step.                                 *)
Strolls(f, n, fl, first, way) ==
  /\ DOMAIN f = 0..n
  /\ \A k \in 0..n : f[k] = IF k = 0 THEN first ELSE W!Onto(fl, f[k - 1], way)

LEMMA StrollsOn ==
  ASSUME NEW fl, NEW first, NEW way, NEW n \in Nat
  PROVE  \E f : Strolls(f, n, fl, first, way)
<1> DEFINE none == {m \in Nat : ~ \E f : Strolls(f, m, fl, first, way)}
<1> SUFFICES ASSUME none # {} PROVE FALSE
  OBVIOUS
<1>1. PICK m \in none : \A k \in none : m <= k
  <2>1. none \in SUBSET Nat
    OBVIOUS
  <2> HIDE DEF none
  <2> QED BY <2>1, HasLeast
<1>2. CASE m = 0
  <2>1. Strolls([k \in 0..0 |-> first], 0, fl, first, way)
    BY DEF Strolls
  <2> QED BY <1>2, <2>1
<1>3. CASE m # 0
  <2>1. m \in Nat /\ m - 1 \in Nat /\ m - 1 \notin none
    BY <1>1, <1>3
  <2>2. PICK f : Strolls(f, m - 1, fl, first, way)
    BY <2>1
  <2> DEFINE h == [k \in 0..m |-> IF k < m THEN f[k] ELSE W!Onto(fl, f[m - 1], way)]
  <2>3. DOMAIN h = 0..m /\ (\A k \in 0..(m - 1) : h[k] = f[k]) /\ h[m] = W!Onto(fl, f[m - 1], way)
    BY <2>1
  <2> HIDE DEF h
  <2>4. \A k \in 0..m : h[k] = IF k = 0 THEN first ELSE W!Onto(fl, h[k - 1], way)
    <3> SUFFICES ASSUME NEW k \in 0..m PROVE h[k] = IF k = 0 THEN first ELSE W!Onto(fl, h[k - 1], way)
      OBVIOUS
    <3>1. CASE k = m
      BY <1>3, <2>1, <2>3, <3>1
    <3>2. CASE k < m
      <4>1. k \in 0..(m - 1) /\ (k # 0 => k - 1 \in 0..(m - 1))
        BY <2>1, <3>2
      <4> QED BY <2>2, <2>3, <4>1 DEF Strolls
    <3> QED BY <2>1, <3>1, <3>2
  <2>5. Strolls(h, m, fl, first, way)
    BY <2>3, <2>4 DEF Strolls
  <2> QED BY <2>5
<1> QED BY <1>2, <1>3

LEMMA StrollsSame ==
  ASSUME NEW fl, NEW first, NEW way, NEW m \in Nat, NEW n \in Nat, NEW f, NEW h,
         Strolls(f, m, fl, first, way), Strolls(h, n, fl, first, way), m <= n
  PROVE  \A k \in 0..m : f[k] = h[k]
<1> DEFINE other == {k \in 0..m : f[k] # h[k]}
<1> SUFFICES ASSUME other # {} PROVE FALSE
  OBVIOUS
<1>1. PICK p \in other : \A k \in other : p <= k
  <2>1. other \in SUBSET Nat
    OBVIOUS
  <2> HIDE DEF other
  <2> QED BY <2>1, HasLeast
<1>2. p \in 0..m /\ p \in 0..n /\ f[p] # h[p]
  OBVIOUS
<1>3. p # 0 => p - 1 \in 0..m /\ f[p - 1] = h[p - 1]
  BY <1>1, <1>2
<1> QED BY <1>2, <1>3 DEF Strolls

(* The loop of a walk does what each of its steps does.                    *)
LEMMA WalkIsWalked ==
  ASSUME NEW fl, NEW first, NEW way
  PROVE  \E walk : /\ \A k \in Nat : walk[k] = IF k = 0 THEN first ELSE W!Onto(fl, walk[k - 1], way)
                   /\ W!Walk(fl, first, way) = walk[Cardinality(W!Steps)]
<1> DEFINE Far(n) == CHOOSE f : Strolls(f, n, fl, first, way)
           route == [k \in Nat |-> Far(k)[k]]
           g == CHOOSE f : f = [k \in Nat |-> IF k = 0 THEN first ELSE W!Onto(fl, f[k - 1], way)]
<1>1. \A n \in Nat : Strolls(Far(n), n, fl, first, way)
  BY StrollsOn
<1> HIDE DEF Far
<1>2. \A k \in Nat : route[k] = IF k = 0 THEN first ELSE W!Onto(fl, route[k - 1], way)
  <2> SUFFICES ASSUME NEW k \in Nat PROVE route[k] = IF k = 0 THEN first ELSE W!Onto(fl, route[k - 1], way)
    OBVIOUS
  <2>1. Strolls(Far(k), k, fl, first, way) /\ k \in 0..k /\ route[k] = Far(k)[k]
    BY <1>1
  <2>2. CASE k = 0
    BY <2>1, <2>2 DEF Strolls
  <2>3. CASE k # 0
    <3>1. k - 1 \in Nat /\ k - 1 <= k /\ k - 1 \in 0..(k - 1)
      BY <2>3
    <3>2. Strolls(Far(k - 1), k - 1, fl, first, way)
      BY <1>1, <3>1
    <3>3. Far(k - 1)[k - 1] = Far(k)[k - 1]
      BY <2>1, <3>1, <3>2, StrollsSame
    <3>4. route[k - 1] = Far(k - 1)[k - 1]
      BY <3>1
    <3> QED BY <2>1, <2>3, <3>3, <3>4 DEF Strolls
  <2> QED BY <2>2, <2>3
<1>3. route = [k \in Nat |-> IF k = 0 THEN first ELSE W!Onto(fl, route[k - 1], way)]
  <2> DEFINE other == [k \in Nat |-> IF k = 0 THEN first ELSE W!Onto(fl, route[k - 1], way)]
  <2>1. route = [k \in Nat |-> route[k]]
    OBVIOUS
  <2> HIDE DEF route
  <2> QED BY <1>2, <2>1
<1>4. \E f : f = [k \in Nat |-> IF k = 0 THEN first ELSE W!Onto(fl, f[k - 1], way)]
  <2> HIDE DEF route
  <2> QED BY <1>3
<1>5. g = [k \in Nat |-> IF k = 0 THEN first ELSE W!Onto(fl, g[k - 1], way)]
  <2> HIDE DEF route
  <2> QED BY <1>4
<1>6. W!Walk(fl, first, way) = g[W!Cardinality(W!Steps)]
  BY DEF W!Walk
<1> HIDE DEF g, route
<1>7. \A k \in Nat : g[k] = IF k = 0 THEN first ELSE W!Onto(fl, g[k - 1], way)
  BY <1>5
<1>8. W!Cardinality(W!Steps) = Cardinality(W!Steps)
  BY DEF W!Cardinality, Cardinality
<1> QED BY <1>6, <1>7, <1>8

(* The order of a flow's steps.                                            *)
LEMMA LaterFacts ==
  ASSUME NEW fl, NEW s
  PROVE  /\ W!Later(fl, s) \subseteq W!Steps
         /\ \A t \in W!Edges(fl[s]) \cap W!Steps : t \in W!Later(fl, s)
         /\ \A t \in W!Later(fl, s) : /\ W!Later(fl, t) \subseteq W!Later(fl, s)
                                      /\ W!Edges(fl[t]) \cap W!Steps \subseteq W!Later(fl, s)
  BY DEF W!Later, W!Closed

(* A step has a type and leads to steps, one that does not stop to one at  *)
(* least.                                                                  *)
NodeOK(n) ==
  /\ n.type \in W!Types /\ W!Edges(n) \subseteq W!Steps
  /\ n.type \notin W!Terminal => 1 \in DOMAIN n.go
  /\ n.type \in W!Forks => 2 \in DOMAIN n.go

OnPath(fl) == {1} \cup W!Later(fl, 1)

(* No step on a path from the first one comes again.                       *)
FlowOK(fl) == \A s \in OnPath(fl) : s \in W!Steps /\ NodeOK(fl[s]) /\ s \notin W!Later(fl, s)

LEMMA StepsFacts ==
  /\ DraftSteps \in Nat /\ W!Steps = 1..(DraftSteps + 2) /\ W!EndId = DraftSteps + 1 /\ W!UnclearId = DraftSteps + 2
  /\ 1 \in W!Steps /\ W!Steps \subseteq Nat
  BY DraftsAssumption DEF W!Steps, W!EndId, W!UnclearId

LEMMA EndNode == ASSUME NEW type \in {"end", "handoff"} PROVE NodeOK([type |-> type, go |-> <<>>])
  BY DEF NodeOK, W!Types, W!Edges, W!Terminal, W!Forks

LEMMA FilledFacts == ASSUME NEW n \in W!Nodes PROVE NodeOK(W!Filled(n))
<1> DEFINE filled == W!Filled(n)
           To(v) == IF v # 0 THEN v ELSE IF n.type = "ask" THEN W!UnclearId ELSE W!EndId
<1>1. /\ n.type \in W!Types
      /\ \A i \in DOMAIN n.go : n.go[i] \in 0..DraftSteps
      /\ n.type \notin W!Terminal => 1 \in DOMAIN n.go
      /\ n.type \in W!Forks => 2 \in DOMAIN n.go
      /\ DOMAIN n = {"type", "go"}
  <2>1. CASE n \in [type : W!Forks, go : (0..DraftSteps) \X (0..DraftSteps)]
    <3>1. n.go \in (0..DraftSteps) \X (0..DraftSteps) /\ n.type \in W!Forks /\ DOMAIN n = {"type", "go"}
      BY <2>1
    <3>2. DOMAIN n.go = 1..2 /\ n.go[1] \in 0..DraftSteps /\ n.go[2] \in 0..DraftSteps
      BY <3>1
    <3> QED BY <3>1, <3>2 DEF W!Forks, W!Types, W!Terminal
  <2>2. CASE n \in [type : W!Types \ (W!Terminal \cup W!Forks), go : {<<v>> : v \in 0..DraftSteps}]
    <3>1. n.type \in W!Types \ (W!Terminal \cup W!Forks) /\ n.go \in {<<v>> : v \in 0..DraftSteps} /\ DOMAIN n = {"type", "go"}
      BY <2>2
    <3>2. DOMAIN n.go = 1..1 /\ n.go[1] \in 0..DraftSteps
      BY <3>1
    <3> QED BY <3>1, <3>2
  <2>3. CASE n \in [type : W!Terminal, go : {<<>>}]
    <3>1. n.type \in W!Terminal /\ n.go = <<>> /\ DOMAIN n = {"type", "go"}
      BY <2>3
    <3> QED BY <3>1 DEF W!Forks, W!Types, W!Terminal
  <2> QED BY <2>1, <2>2, <2>3 DEF W!Nodes
<1>2. filled.type = n.type /\ filled.go = [i \in DOMAIN n.go |-> To(n.go[i])]
  BY <1>1 DEF W!Filled
<1>3. \A i \in DOMAIN n.go : To(n.go[i]) \in W!Steps
  BY <1>1, StepsFacts
<1> HIDE DEF filled, To
<1>4. W!Edges(filled) \subseteq W!Steps
  BY <1>2, <1>3 DEF W!Edges
<1> QED BY <1>1, <1>2, <1>4 DEF NodeOK, filled

LEMMA FlowFacts == ASSUME NEW fl \in W!Flows PROVE FlowOK(fl)
<1>1. PICK d \in W!Drafts : fl \in W!Clean(d)
  BY DEF W!Flows
<1> DEFINE f == W!Complete(d)
<1>2. W!Accepted(f) /\ fl = W!Reached(f)
  BY <1>1 DEF W!Clean
<1>3. \A s \in W!Steps : NodeOK(f[s])
  <2> SUFFICES ASSUME NEW s \in W!Steps PROVE NodeOK(f[s])
    OBVIOUS
  <2>1. CASE s \in 1..DraftSteps
    <3>1. d[s] \in W!Nodes
      BY <2>1 DEF W!Drafts
    <3>2. f[s] = W!Filled(d[s])
      BY <2>1, StepsFacts DEF W!Complete
    <3> QED BY <3>1, <3>2, FilledFacts
  <2>2. CASE s = W!EndId
    <3>1. f[s] = [type |-> "end", go |-> <<>>]
      BY <2>2, StepsFacts DEF W!Complete
    <3> QED BY <3>1, EndNode
  <2>3. CASE s = W!UnclearId
    <3>1. f[s] = [type |-> "handoff", go |-> <<>>]
      BY <2>3, StepsFacts DEF W!Complete
    <3> QED BY <3>1, EndNode
  <2> QED BY <2>1, <2>2, <2>3, StepsFacts
<1> HIDE DEF f
<1> DEFINE path == {1} \cup W!Later(f, 1)
<1>4. path \subseteq W!Steps /\ \A s \in path : fl[s] = f[s] /\ W!Later(f, s) \subseteq path
  BY <1>2, LaterFacts, StepsFacts DEF W!Reached
<1>5. ASSUME NEW s \in path PROVE W!Later(fl, s) \subseteq W!Later(f, s)
  <2> DEFINE later == W!Later(f, s)
  <2>1. later \in SUBSET W!Steps
    BY LaterFacts
  <2>2. W!Edges(fl[s]) \subseteq later
    BY <1>3, <1>4, LaterFacts DEF NodeOK
  <2>3. W!Closed(fl, later)
    BY <1>3, <1>4, LaterFacts DEF NodeOK, W!Closed
  <2> HIDE DEF later
  <2>4. W!Later(fl, s) \subseteq later
    BY <2>1, <2>2, <2>3 DEF W!Later
  <2> QED BY <2>4 DEF later
<1>6. \A s \in path : s \notin W!Later(f, s)
  BY <1>2 DEF W!Accepted
<1>7. OnPath(fl) \subseteq path
  BY <1>5 DEF OnPath
<1> QED BY <1>3, <1>4, <1>5, <1>6, <1>7 DEF FlowOK

(* What is to be done.                                                     *)
ActionType == [do : {"say", "label", "tell", "handoff", "end"}, of : SUBSET W!Steps, disclose : BOOLEAN]
TeamDo == {"tell", "handoff"}

Tells(acts, x) == \E i \in DOMAIN acts : acts[i].do \in TeamDo /\ x \in acts[i].of
Apart(acts) ==
  \A i, j \in DOMAIN acts : i # j /\ acts[i].do \in TeamDo /\ acts[j].do \in TeamDo => acts[i].of \cap acts[j].of = {}

(* Nothing that reaches the team is new in it.                             *)
TellsNoMore(new, acts) == \A i \in DOMAIN new : new[i].do \in TeamDo => i \in DOMAIN acts /\ acts[i] = new[i]

LEMMA NoMore ==
  ASSUME NEW acts, NEW new, TellsNoMore(new, acts), Apart(acts)
  PROVE  Apart(new) /\ \A x : Tells(new, x) => Tells(acts, x)
  BY DEF Apart, Tells, TellsNoMore

LEMMA SayFacts ==
  ASSUME NEW acts \in Seq(ActionType), NEW s \in W!Steps, NEW disclose \in BOOLEAN
  PROVE  W!Say(acts, s, disclose) \in Seq(ActionType) /\ TellsNoMore(W!Say(acts, s, disclose), acts)
<1>0. Len(acts) \in Nat /\ DOMAIN acts = 1..Len(acts) /\ \A i \in DOMAIN acts : acts[i] \in ActionType
  BY SeqIsFunction
<1>1. CASE acts # <<>> /\ acts[Len(acts)].do = "say"
  <2> DEFINE final == acts[Len(acts)]
             joined == [final EXCEPT !.of = @ \cup {s}, !.disclose = @ \/ disclose]
             new == [acts EXCEPT ![Len(acts)] = joined]
  <2>1. Len(acts) \in DOMAIN acts
    BY <1>0, <1>1
  <2>2. final \in ActionType /\ final.do = "say"
    BY <1>0, <1>1, <2>1
  <2>3. W!Say(acts, s, disclose) = new
    BY <1>1 DEF W!Say
  <2> HIDE DEF final
  <2>4. joined \in ActionType /\ joined.do = "say"
    BY <2>2 DEF ActionType
  <2> HIDE DEF joined
  <2>5. new \in Seq(ActionType)
    BY <2>1, <2>4
  <2>6. TellsNoMore(new, acts)
    BY <1>0, <2>1, <2>4 DEF TellsNoMore, TeamDo
  <2> QED BY <2>3, <2>5, <2>6
<1>2. CASE ~(acts # <<>> /\ acts[Len(acts)].do = "say")
  <2> DEFINE a == [do |-> "say", of |-> {s}, disclose |-> disclose]
             new == Append(acts, a)
  <2>1. W!Say(acts, s, disclose) = new
    BY <1>2 DEF W!Say
  <2>2. a \in ActionType /\ a.do = "say"
    BY DEF ActionType
  <2> HIDE DEF a
  <2>3. /\ new \in Seq(ActionType) /\ Len(new) = Len(acts) + 1 /\ new[Len(acts) + 1] = a
        /\ \A i \in 1..Len(acts) : new[i] = acts[i]
    BY <2>2, Appended
  <2>4. DOMAIN new = 1..(Len(acts) + 1)
    BY <2>3, SeqIsFunction
  <2> HIDE DEF new
  <2>5. TellsNoMore(new, acts)
    BY <1>0, <2>2, <2>3, <2>4 DEF TellsNoMore, TeamDo
  <2> QED BY <2>1, <2>3, <2>5
<1> QED BY <1>1, <1>2

LEMMA DoFacts ==
  ASSUME NEW acts \in Seq(ActionType), NEW s \in W!Steps, NEW do \in {"label", "tell", "handoff", "end"}
  PROVE  LET new == W!Do(acts, do, s)
         IN  /\ new \in Seq(ActionType)
             /\ do \notin TeamDo => TellsNoMore(new, acts)
             /\ Apart(acts) /\ ~Tells(acts, s) => Apart(new)
             /\ \A x : Tells(new, x) => Tells(acts, x) \/ x = s
             /\ \E i \in DOMAIN new : new[i].do = do
<1> DEFINE a == [do |-> do, of |-> {s}, disclose |-> FALSE]
           new == W!Do(acts, do, s)
<1>1. Len(acts) \in Nat /\ DOMAIN acts = 1..Len(acts) /\ \A i \in DOMAIN acts : acts[i] \in ActionType
  BY SeqIsFunction
<1>2. new = Append(acts, a)
  BY DEF W!Do
<1>3. a \in ActionType /\ a.do = do /\ a.of = {s}
  BY DEF ActionType
<1> HIDE DEF a, new
<1>4. /\ new \in Seq(ActionType) /\ Len(new) = Len(acts) + 1 /\ new[Len(acts) + 1] = a
      /\ \A i \in 1..Len(acts) : new[i] = acts[i]
  BY <1>2, <1>3, Appended
<1>5. DOMAIN new = 1..(Len(acts) + 1)
  BY <1>4, SeqIsFunction
<1>6. do \notin TeamDo => TellsNoMore(new, acts)
  BY <1>1, <1>3, <1>4, <1>5 DEF TellsNoMore
<1>7. Apart(acts) /\ ~Tells(acts, s) => Apart(new)
  <2> SUFFICES ASSUME Apart(acts), ~Tells(acts, s), NEW i \in DOMAIN new, NEW j \in DOMAIN new, i # j,
                      new[i].do \in TeamDo, new[j].do \in TeamDo
               PROVE  new[i].of \cap new[j].of = {}
    BY DEF Apart
  <2>1. CASE i \in DOMAIN acts /\ j \in DOMAIN acts
    BY <1>1, <1>4, <2>1 DEF Apart
  <2>2. CASE i \in DOMAIN acts /\ j = Len(acts) + 1
    BY <1>1, <1>3, <1>4, <2>2 DEF Tells
  <2>3. CASE j \in DOMAIN acts /\ i = Len(acts) + 1
    BY <1>1, <1>3, <1>4, <2>3 DEF Tells
  <2> QED BY <1>1, <1>5, <2>1, <2>2, <2>3
<1>8. \A x : Tells(new, x) => Tells(acts, x) \/ x = s
  BY <1>1, <1>3, <1>4, <1>5 DEF Tells
<1>9. \E i \in DOMAIN new : new[i].do = do
  BY <1>1, <1>3, <1>4, <1>5
<1> USE DEF new
<1> QED BY <1>4, <1>6, <1>7, <1>8, <1>9

(* Where a walk is.                                                        *)
WalkType == [at : W!Steps, actions : Seq(ActionType), said : BOOLEAN, told : BOOLEAN]

EndDo == {"handoff", "end"}

LEMMA VisitFacts ==
  ASSUME NEW fl, NEW w \in WalkType, fl[w.at].type \in W!Types, Apart(w.actions), ~Tells(w.actions, w.at)
  PROVE  LET v == W!Visit(fl, w)
         IN  /\ v \in WalkType /\ v.at = w.at /\ Apart(v.actions)
             /\ \A x : Tells(v.actions, x) => Tells(w.actions, x) \/ x = w.at
             /\ fl[w.at].type \in W!Waits \cup {"agent"} => \A x : Tells(v.actions, x) => Tells(w.actions, x)
             /\ fl[w.at].type \in EndDo => \E i \in DOMAIN v.actions : v.actions[i].do \in EndDo
<1> DEFINE v == W!Visit(fl, w)
           s == w.at
           type == fl[s].type
           Is(acts) == v \in WalkType /\ v.at = s /\ v.actions = acts
           Right ==
             /\ v \in WalkType /\ v.at = s /\ Apart(v.actions)
             /\ \A x : Tells(v.actions, x) => Tells(w.actions, x) \/ x = s
             /\ type \in W!Waits \cup {"agent"} => \A x : Tells(v.actions, x) => Tells(w.actions, x)
             /\ type \in EndDo => \E i \in DOMAIN v.actions : v.actions[i].do \in EndDo
<1>1. /\ s \in W!Steps /\ w.actions \in Seq(ActionType) /\ w.said \in BOOLEAN /\ w.told \in BOOLEAN
      /\ DOMAIN w = {"at", "actions", "said", "told"}
  BY DEF WalkType
<1>2. ASSUME type \in {"say"} \cup W!Waits PROVE Right
  <2> DEFINE acts == W!Say(w.actions, s, ~w.said)
  <2>1. v = [w EXCEPT !.actions = acts, !.said = TRUE]
    BY <1>2 DEF W!Visit, W!Waits, W!Discloses
  <2>2. acts \in Seq(ActionType) /\ TellsNoMore(acts, w.actions)
    BY <1>1, SayFacts
  <2> HIDE DEF acts
  <2>3. Is(acts)
    BY <1>1, <2>1, <2>2 DEF WalkType
  <2>4. type \notin EndDo
    BY <1>2 DEF EndDo, W!Waits
  <2> HIDE DEF v
  <2> QED BY <2>2, <2>3, <2>4, NoMore
<1>3. ASSUME type = "label" PROVE Right
  <2> DEFINE acts == W!Do(w.actions, "label", s)
  <2>1. v = [w EXCEPT !.actions = acts]
    BY <1>3 DEF W!Visit, W!Waits
  <2>2. acts \in Seq(ActionType) /\ TellsNoMore(acts, w.actions)
    BY <1>1, DoFacts DEF TeamDo
  <2> HIDE DEF acts
  <2>3. Is(acts)
    BY <1>1, <2>1, <2>2 DEF WalkType
  <2> HIDE DEF v
  <2> QED BY <1>3, <2>2, <2>3, NoMore DEF EndDo
<1>4. ASSUME type = "tell" PROVE Right
  <2> DEFINE acts == W!Do(w.actions, "tell", s)
  <2>1. v = [w EXCEPT !.actions = acts, !.told = TRUE]
    BY <1>4 DEF W!Visit, W!Waits
  <2>2. acts \in Seq(ActionType) /\ Apart(acts) /\ \A x : Tells(acts, x) => Tells(w.actions, x) \/ x = s
    BY <1>1, DoFacts
  <2> HIDE DEF acts
  <2>3. Is(acts)
    BY <1>1, <2>1, <2>2 DEF WalkType
  <2> HIDE DEF v
  <2> QED BY <1>4, <2>2, <2>3 DEF EndDo, W!Waits
<1>5. ASSUME type = "branch" PROVE Right
  <2>1. v = w
    BY <1>5 DEF W!Visit, W!Waits
  <2> QED BY <1>5, <2>1 DEF EndDo, W!Waits
<1>6. ASSUME type = "agent" PROVE Right
  <2>1. v = [w EXCEPT !.told = TRUE]
    BY <1>6 DEF W!Visit, W!Waits
  <2>2. Is(w.actions)
    BY <1>1, <2>1 DEF WalkType
  <2> HIDE DEF v
  <2> QED BY <1>6, <2>2 DEF EndDo
<1>7. ASSUME type = "handoff" PROVE Right
  <2> DEFINE acts == W!Do(w.actions, "handoff", s)
  <2>1. v = [w EXCEPT !.actions = acts, !.told = TRUE]
    BY <1>7 DEF W!Visit, W!Waits
  <2>2. /\ acts \in Seq(ActionType) /\ Apart(acts) /\ \A x : Tells(acts, x) => Tells(w.actions, x) \/ x = s
        /\ \E i \in DOMAIN acts : acts[i].do = "handoff"
    BY <1>1, DoFacts
  <2> HIDE DEF acts
  <2>3. Is(acts)
    BY <1>1, <2>1, <2>2 DEF WalkType
  <2> HIDE DEF v
  <2> QED BY <1>7, <2>2, <2>3 DEF EndDo, W!Waits
<1>8. ASSUME type = "end" PROVE Right
  <2> DEFINE most == IF w.told THEN w.actions ELSE W!Do(w.actions, "tell", s)
             acts == W!Do(most, "end", s)
  <2>1. v = [w EXCEPT !.actions = acts, !.told = TRUE]
    BY <1>8 DEF W!Visit, W!Waits, W!Closing
  <2>2. most \in Seq(ActionType) /\ Apart(most) /\ \A x : Tells(most, x) => Tells(w.actions, x) \/ x = s
    BY <1>1, DoFacts
  <2> HIDE DEF most
  <2>3. acts \in Seq(ActionType) /\ TellsNoMore(acts, most) /\ \E i \in DOMAIN acts : acts[i].do = "end"
    BY <1>1, <2>2, DoFacts DEF TeamDo
  <2> HIDE DEF acts
  <2>4. Is(acts)
    BY <1>1, <2>1, <2>3 DEF WalkType
  <2> HIDE DEF v
  <2> QED BY <1>8, <2>2, <2>3, <2>4, NoMore DEF EndDo, W!Waits
<1>9. type \in W!Types
  OBVIOUS
<1> HIDE DEF Right
<1>10. Right
  BY <1>2, <1>3, <1>4, <1>5, <1>6, <1>7, <1>8, <1>9 DEF W!Types, W!Waits
<1> QED BY <1>10 DEF Right

(* A walk from a step: nothing reaches the team twice, and what does was   *)
(* passed before where the walk is.                                        *)
WalkOK(fl, from, w, group) ==
  /\ w \in WalkType /\ w.at \in OnPath(fl) /\ w.at \in {from} \cup W!Later(fl, from)
  /\ Apart(w.actions)
  /\ \A x : Tells(w.actions, x) => x \in group /\ w.at \in W!Later(fl, x)

(* One step of a walk.                                                     *)
LEMMA OntoFacts ==
  ASSUME NEW fl, FlowOK(fl), NEW from, NEW group, {from} \cup W!Later(fl, from) \subseteq group,
         NEW w, WalkOK(fl, from, w, group), NEW way \in 1..2
  PROVE  LET next == W!Onto(fl, w, way)
         IN  /\ WalkOK(fl, from, next, group)
             /\ IF fl[w.at].type \in W!Stops THEN next = w ELSE next.at \in W!Later(fl, w.at)
<1> DEFINE next == W!Onto(fl, w, way)
           v == W!Visit(fl, w)
           to == W!After(fl[w.at], way)
<1>1. CASE fl[w.at].type \in W!Stops
  BY <1>1 DEF W!Onto
<1>2. CASE fl[w.at].type \notin W!Stops
  <2>1. w \in WalkType /\ w.at \in W!Steps /\ NodeOK(fl[w.at]) /\ w.at \notin W!Later(fl, w.at)
    BY DEF WalkOK, FlowOK
  <2>2. next = [v EXCEPT !.at = to]
    BY <1>2 DEF W!Onto
  <2>3. to \in W!Edges(fl[w.at]) /\ to \in W!Steps
    BY <1>2, <2>1 DEF NodeOK, W!After, W!Edges, W!Stops, W!Forks
  <2>4. to \in W!Later(fl, w.at)
    BY <2>3, LaterFacts
  <2>5. ~Tells(w.actions, w.at)
    BY <2>1 DEF WalkOK
  <2>6. v \in WalkType /\ Apart(v.actions) /\ \A x : Tells(v.actions, x) => Tells(w.actions, x) \/ x = w.at
    BY <2>1, <2>5, VisitFacts DEF WalkOK, NodeOK
  <2> HIDE DEF next, v, to
  <2>7. next \in WalkType /\ next.at = to /\ next.actions = v.actions
    BY <2>2, <2>3, <2>6 DEF WalkType
  <2>8. to \in OnPath(fl) /\ to \in W!Later(fl, from)
    BY <2>4, LaterFacts DEF WalkOK, OnPath
  <2>9. \A x : Tells(next.actions, x) => x \in group /\ to \in W!Later(fl, x)
    <3> SUFFICES ASSUME NEW x, Tells(v.actions, x) PROVE x \in group /\ to \in W!Later(fl, x)
      BY <2>7
    <3>1. CASE x = w.at
      BY <2>4, <3>1 DEF WalkOK
    <3>2. CASE Tells(w.actions, x)
      BY <2>4, <3>2, LaterFacts DEF WalkOK
    <3> QED BY <2>6, <3>1, <3>2
  <2>10. WalkOK(fl, from, next, group)
    BY <2>6, <2>7, <2>8, <2>9 DEF WalkOK
  <2> QED BY <1>2, <2>4, <2>7, <2>10 DEF next
<1> QED BY <1>1, <1>2

(* What comes before a step grows with every step of a walk, so it stops.  *)
Earlier(fl, s) == {r \in W!Steps : s \in W!Later(fl, r)}

LEMMA EarlierGrows ==
  ASSUME NEW fl, FlowOK(fl), NEW s \in OnPath(fl)
  PROVE  /\ IsFiniteSet(Earlier(fl, s)) /\ Cardinality(Earlier(fl, s)) \in Nat
         /\ Cardinality(Earlier(fl, s)) < Cardinality(W!Steps)
         /\ Cardinality(W!Steps) \in Nat
         /\ \A t \in W!Later(fl, s) \cap OnPath(fl) : Cardinality(Earlier(fl, t)) > Cardinality(Earlier(fl, s))
<1> DEFINE before == Earlier(fl, s)
<1>1. IsFiniteSet(W!Steps) /\ Cardinality(W!Steps) \in Nat
  BY StepsFacts, FS_Interval, FS_CardinalityType
<1>2. \A t : Earlier(fl, t) \in SUBSET W!Steps
  BY DEF Earlier
<1>3. \A t : IsFiniteSet(Earlier(fl, t)) /\ Cardinality(Earlier(fl, t)) \in Nat
             /\ Cardinality(Earlier(fl, t)) <= Cardinality(W!Steps)
  BY <1>1, <1>2, FS_Subset, FS_CardinalityType
<1>4. s \in W!Steps /\ s \notin before
  BY DEF FlowOK, Earlier
<1>5. Cardinality(before) # Cardinality(W!Steps)
  BY <1>1, <1>2, <1>4, FS_Subset
<1>6. ASSUME NEW t \in W!Later(fl, s) PROVE Cardinality(Earlier(fl, t)) > Cardinality(before)
  <2>1. before \cup {s} \in SUBSET Earlier(fl, t)
    BY <1>4, LaterFacts DEF Earlier
  <2> HIDE DEF before
  <2>2. Cardinality(before \cup {s}) = Cardinality(before) + 1
    BY <1>3, <1>4, FS_AddElement DEF before
  <2>3. Cardinality(before \cup {s}) <= Cardinality(Earlier(fl, t))
    BY <1>3, <2>1, FS_Subset
  <2>4. Cardinality(before) \in Nat
    BY <1>3 DEF before
  <2> QED BY <1>3, <2>2, <2>3, <2>4
<1> QED BY <1>1, <1>3, <1>5, <1>6

(* A walk ends at a step to stop at.                                       *)
LEMMA WalkFacts ==
  ASSUME NEW fl, FlowOK(fl), NEW from, NEW group, {from} \cup W!Later(fl, from) \subseteq group,
         NEW first, WalkOK(fl, from, first, group), NEW way \in 1..2
  PROVE  /\ WalkOK(fl, from, W!Walk(fl, first, way), group)
         /\ fl[W!Walk(fl, first, way).at].type \in W!Stops
<1>1. PICK walk : /\ \A k \in Nat : walk[k] = IF k = 0 THEN first ELSE W!Onto(fl, walk[k - 1], way)
                  /\ W!Walk(fl, first, way) = walk[Cardinality(W!Steps)]
  BY WalkIsWalked
<1> DEFINE Fine(k) ==
             /\ WalkOK(fl, from, walk[k], group)
             /\ fl[walk[k].at].type \in W!Stops \/ Cardinality(Earlier(fl, walk[k].at)) >= k
           wrong == {k \in Nat : ~Fine(k)}
<1>2. wrong = {}
  <2> SUFFICES ASSUME wrong # {} PROVE FALSE
    OBVIOUS
  <2>1. PICK m \in wrong : \A k \in wrong : m <= k
    <3>1. wrong \in SUBSET Nat
      OBVIOUS
    <3> HIDE DEF wrong
    <3> QED BY <3>1, HasLeast
  <2>2. m # 0
    <3> SUFFICES ASSUME m = 0 PROVE FALSE
      OBVIOUS
    <3>1. walk[0] = first
      BY <1>1
    <3>2. Cardinality(Earlier(fl, first.at)) \in Nat
      BY EarlierGrows DEF WalkOK
    <3> QED BY <2>1, <3>1, <3>2
  <2>3. m \in Nat /\ m - 1 \in Nat /\ m - 1 \notin wrong
    BY <2>1, <2>2
  <2>4. Fine(m - 1) /\ walk[m] = W!Onto(fl, walk[m - 1], way)
    BY <1>1, <2>2, <2>3
  <2> DEFINE w == walk[m - 1]
             next == walk[m]
  <2>5. /\ WalkOK(fl, from, next, group)
        /\ IF fl[w.at].type \in W!Stops THEN next = w ELSE next.at \in W!Later(fl, w.at)
    BY <2>4, OntoFacts
  <2>6. CASE fl[w.at].type \in W!Stops
    BY <2>1, <2>5, <2>6
  <2>7. CASE fl[w.at].type \notin W!Stops
    <3>1. Cardinality(Earlier(fl, w.at)) >= m - 1 /\ Cardinality(Earlier(fl, w.at)) \in Nat
      BY <2>4, <2>7, EarlierGrows DEF WalkOK
    <3>2. Cardinality(Earlier(fl, next.at)) > Cardinality(Earlier(fl, w.at)) /\ Cardinality(Earlier(fl, next.at)) \in Nat
      BY <2>4, <2>5, <2>7, EarlierGrows DEF WalkOK
    <3>3. Cardinality(Earlier(fl, next.at)) >= m
      BY <2>3, <3>1, <3>2
    <3> QED BY <2>1, <2>5, <3>3
  <2> QED BY <2>6, <2>7
<1>3. Cardinality(W!Steps) \in Nat
  BY StepsFacts, FS_Interval, FS_CardinalityType
<1>4. Fine(Cardinality(W!Steps))
  BY <1>2, <1>3
<1> DEFINE end == walk[Cardinality(W!Steps)]
<1>5. Cardinality(Earlier(fl, end.at)) < Cardinality(W!Steps) /\ Cardinality(Earlier(fl, end.at)) \in Nat
  BY <1>4, EarlierGrows DEF WalkOK
<1> QED BY <1>1, <1>3, <1>4, <1>5
(* A step of the plan of a message, and the plan.                          *)
PlanType == [actions : Seq(ActionType), said : BOOLEAN, told : BOOLEAN, attempts : Nat,
             node : Nat, done : BOOLEAN, agent : BOOLEAN]
RunType == [exec : W!Msgs \cup {0}, plan : PlanType, applied : Nat]
ChatType == [st : W!Kept, start : Nat, node : Nat, attempts : Nat, said : BOOLEAN, told : BOOLEAN, run : RunType]

Rests(fl, s) == s \in OnPath(fl) /\ fl[s].type \in W!Waits \cup {"agent"}

(* A plan is over with a step that lets the chat go, or comes to rest at a *)
(* step after all it tells the team of.                                    *)
PlanOK(fl, plan) ==
  /\ Apart(plan.actions)
  /\ plan.agent => ~plan.done
  /\ IF plan.done THEN \E i \in DOMAIN plan.actions : plan.actions[i].do \in EndDo
     ELSE Rests(fl, plan.node) /\ \A x \in W!Steps : Tells(plan.actions, x) => plan.node \in W!Later(fl, x)

(* A plan that only tells of steps of a group, and rests in it.            *)
PlanWithin(fl, plan, at, group) ==
  /\ plan \in PlanType /\ PlanOK(fl, plan)
  /\ \A x \in W!Steps : Tells(plan.actions, x) => x \in group
  /\ ~plan.done => plan.node \in {at} \cup W!Later(fl, at)

(* How many actions of the plan are done.                                  *)
DoneNow == chat.run.applied + (IF workflowPump.pc = "count" THEN 1 ELSE 0)
Working == {"do", "count", "agent", "finish"}

TurnTypes ==
  /\ FlowOK(flow)
  /\ chat \in ChatType
  /\ DOMAIN workflowPump = {"pc", "re", "tries", "mode", "run"}
  /\ DOMAIN workflowExec = W!Msgs
  /\ told \in [W!Steps -> Nat]

(* A message in hand is not done, and its plan is the one written down.    *)
HandInv ==
  /\ workflowPump.pc # "idle" => workflowPump.re \in W!Msgs
  /\ workflowPump.pc \in {"plan"} \cup Working =>
       /\ workflowExec[workflowPump.re] = "pending"
       /\ workflowPump.mode \in {"start", "continue"}
       /\ workflowPump.mode = "start" => chat.start = workflowPump.re
  /\ workflowPump.pc \in Working => workflowPump.run = chat.run /\ chat.run.exec = workflowPump.re

(* Before the first plan; and the first message is done before the next is *)
(* planned.                                                                *)
FirstInv ==
  /\ chat.st = "none" => chat.run.exec = 0
  /\ chat.run.exec = 0 => chat.node = 0 /\ \A s \in W!Steps : told[s] = 0
  /\ chat.run.exec # 0 /\ chat.run.exec # chat.start =>
       chat.start \in W!Msgs /\ workflowExec[chat.start] = "completed"

(* What is told was told once, and is not among what is still to be done   *)
(* nor after where the chat will rest.                                     *)
ToldInv ==
  chat.run.exec # 0 =>
    /\ PlanOK(flow, chat.run.plan)
    /\ \A s \in W!Steps : told[s] <= 1
    /\ \A i \in DOMAIN chat.run.plan.actions :
         i > DoneNow /\ chat.run.plan.actions[i].do \in TeamDo => \A s \in chat.run.plan.actions[i].of : told[s] = 0
    /\ ~chat.run.plan.done /\ chat.st = "active" =>
         \A s \in W!Steps : told[s] > 0 => chat.run.plan.node \in W!Later(flow, s)

(* How far the plan is.                                                    *)
DoneInv ==
  chat.run.exec # 0 =>
    /\ DoneNow <= Len(chat.run.plan.actions)
    /\ \A i \in DOMAIN chat.run.plan.actions :
         i <= DoneNow /\ chat.run.plan.actions[i].do \in EndDo => chat.st = "handed"
    /\ workflowExec[chat.run.exec] = "completed" \/ workflowPump.pc \in {"agent", "finish"} =>
         /\ DoneNow = Len(chat.run.plan.actions)
         /\ chat.st = "active" => ~chat.run.plan.done /\ chat.node = chat.run.plan.node

TurnInv == TurnTypes /\ HandInv /\ FirstInv /\ ToldInv /\ DoneInv

(* TurnInv, of a workflow whose turns were neither cut nor overtaken.      *)
WorkflowInv == part = "workflow" /\ ~workflowCut /\ ~redone => TurnInv
(* What is to be done from a step on: each step tells the team once, and   *)
(* none that comes after where the chat rests.                             *)
LEMMA RunFacts ==
  ASSUME NEW fl, FlowOK(fl), NEW from \in OnPath(fl), NEW group \in SUBSET W!Steps,
         {from} \cup W!Later(fl, from) \subseteq group,
         NEW acts \in Seq(ActionType), Apart(acts),
         \A x : Tells(acts, x) => x \in group /\ from \in W!Later(fl, x),
         NEW hasSaid \in BOOLEAN, NEW hasTold \in BOOLEAN, NEW way \in 1..2
  PROVE  PlanWithin(fl, W!Run(fl, from, acts, hasSaid, hasTold, way), from, group)
<1> DEFINE first == [at |-> from, actions |-> acts, said |-> hasSaid, told |-> hasTold]
           stop == W!Walk(fl, first, way)
           v == W!Visit(fl, stop)
           type == fl[stop.at].type
           done == type \notin W!Waits \cup {"agent"}
           plan == W!Run(fl, from, acts, hasSaid, hasTold, way)
<1>1. WalkOK(fl, from, first, group)
  BY DEF WalkOK, WalkType, FlowOK
<1>2. plan = [actions |-> v.actions, said |-> v.said, told |-> v.told, attempts |-> 0,
              node |-> IF done THEN 0 ELSE stop.at, done |-> done, agent |-> type = "agent"]
  BY DEF W!Run
<1> HIDE DEF first, plan
<1>3. WalkOK(fl, from, stop, group) /\ type \in W!Stops
  BY <1>1, WalkFacts
<1> HIDE DEF stop
<1>4. stop \in WalkType /\ stop.at \in W!Steps /\ NodeOK(fl[stop.at]) /\ Apart(stop.actions) /\ ~Tells(stop.actions, stop.at)
  BY <1>3 DEF WalkOK, FlowOK
<1>5. /\ v \in WalkType /\ Apart(v.actions)
      /\ \A x : Tells(v.actions, x) => Tells(stop.actions, x) \/ x = stop.at
      /\ type \in W!Waits \cup {"agent"} => \A x : Tells(v.actions, x) => Tells(stop.actions, x)
      /\ type \in EndDo => \E i \in DOMAIN v.actions : v.actions[i].do \in EndDo
  BY <1>4, VisitFacts DEF NodeOK
<1> HIDE DEF v
<1>6. v.actions \in Seq(ActionType) /\ v.said \in BOOLEAN /\ v.told \in BOOLEAN
  BY <1>5 DEF WalkType
<1>7. stop.at \in OnPath(fl) /\ stop.at \in {from} \cup W!Later(fl, from) /\ stop.at \in group /\ stop.at \in Nat
  BY <1>3, StepsFacts DEF WalkOK, FlowOK
<1>8. /\ plan.actions = v.actions /\ plan.done = done /\ plan.agent = (type = "agent")
      /\ plan.node = (IF done THEN 0 ELSE stop.at)
  BY <1>2
<1>9. plan \in PlanType
  BY <1>2, <1>6, <1>7 DEF PlanType
<1>10. \A x \in W!Steps : Tells(plan.actions, x) => x \in group
  BY <1>3, <1>5, <1>7, <1>8 DEF WalkOK
<1>11. PlanOK(fl, plan)
  <2>1. CASE done
    <3>1. type \in EndDo /\ type # "agent"
      BY <1>3, <2>1 DEF W!Stops, W!Terminal, EndDo
    <3> QED BY <1>5, <1>8, <2>1, <3>1 DEF PlanOK
  <2>2. CASE ~done
    <3>1. \A x \in W!Steps : Tells(plan.actions, x) => stop.at \in W!Later(fl, x)
      BY <1>3, <1>5, <1>8, <2>2 DEF WalkOK
    <3> QED BY <1>5, <1>7, <1>8, <2>2, <3>1 DEF PlanOK, Rests
  <2> QED BY <2>1, <2>2
<1>12. ~plan.done => plan.node \in {from} \cup W!Later(fl, from)
  BY <1>7, <1>8
<1> QED BY <1>9, <1>10, <1>11, <1>12 DEF PlanWithin, plan

LEMMA NothingTold == <<>> \in Seq(ActionType) /\ Apart(<<>>) /\ \A x : ~Tells(<<>>, x)
  BY DEF Apart, Tells

(* A run that begins with nothing to tell.                                 *)
LEMMA RunsFrom ==
  ASSUME NEW fl, FlowOK(fl), NEW from \in OnPath(fl), NEW at, NEW group \in SUBSET W!Steps,
         {from} \cup W!Later(fl, from) \subseteq group, from \in {at} \cup W!Later(fl, at),
         NEW hasSaid \in BOOLEAN, NEW hasTold \in BOOLEAN, NEW way \in 1..2
  PROVE  PlanWithin(fl, W!Run(fl, from, <<>>, hasSaid, hasTold, way), at, group)
<1>1. PlanWithin(fl, W!Run(fl, from, <<>>, hasSaid, hasTold, way), from, group)
  BY NothingTold, RunFacts
<1> QED BY <1>1, LaterFacts DEF PlanWithin

LEMMA ResumeFacts ==
  ASSUME NEW fl, FlowOK(fl), NEW place, Rests(fl, place.node), place.attempts \in Nat,
         place.said \in BOOLEAN, place.told \in BOOLEAN, NEW choice \in 1..2, NEW way \in 1..2
  PROVE  PlanWithin(fl, W!Resume(fl, place, choice, way), place.node, {place.node} \cup W!Later(fl, place.node))
<1> DEFINE s == place.node
           n == fl[s]
           group == {s} \cup W!Later(fl, s)
           plan == W!Resume(fl, place, choice, way)
           unsure == n.type = "ask" /\ choice = Len(n.go)
           Right == PlanWithin(fl, plan, s, group)
<1>1. s \in OnPath(fl) /\ s \in W!Steps /\ s \in Nat /\ NodeOK(n) /\ s \notin W!Later(fl, s)
      /\ n.type \in W!Waits \cup {"agent"}
  BY StepsFacts DEF Rests, FlowOK
<1>2. group \in SUBSET W!Steps
  BY <1>1, LaterFacts
<1>3. ASSUME NEW i \in DOMAIN n.go
      PROVE  n.go[i] \in OnPath(fl) /\ n.go[i] \in W!Later(fl, s) /\ {n.go[i]} \cup W!Later(fl, n.go[i]) \subseteq group
  <2>1. n.go[i] \in W!Later(fl, s)
    BY <1>1, LaterFacts DEF NodeOK, W!Edges
  <2> QED BY <1>1, <2>1, LaterFacts DEF OnPath
<1>4. ASSUME NEW i \in DOMAIN n.go PROVE PlanWithin(fl, W!Run(fl, n.go[i], <<>>, place.said, place.told, way), s, group)
  BY <1>2, <1>3, RunsFrom
<1>5. ASSUME unsure, W!AskAgain(place) PROVE Right
  <2> DEFINE a == [do |-> "say", of |-> {s}, disclose |-> FALSE]
  <2>1. plan = [actions |-> <<a>>, said |-> place.said, told |-> place.told, attempts |-> place.attempts + 1,
                node |-> s, done |-> FALSE, agent |-> FALSE]
    BY <1>5 DEF W!Resume
  <2>2. a \in ActionType /\ a.do = "say"
    BY <1>1 DEF ActionType
  <2> HIDE DEF a
  <2>3. <<a>> \in Seq(ActionType) /\ DOMAIN <<a>> = {1} /\ <<a>>[1] = a
    BY <2>2
  <2>4. plan \in PlanType /\ plan.actions = <<a>> /\ plan.node = s /\ ~plan.done /\ ~plan.agent
    BY <1>1, <2>1, <2>3 DEF PlanType
  <2> HIDE DEF plan
  <2>5. Apart(plan.actions) /\ \A x : ~Tells(plan.actions, x)
    BY <2>2, <2>3, <2>4 DEF Apart, Tells, TeamDo
  <2> QED BY <1>1, <2>4, <2>5 DEF PlanWithin, PlanOK, Rests
<1>6. ASSUME n.type = "ask", ~(unsure /\ W!AskAgain(place)) PROVE Right
  <2>1. plan = W!Run(fl, n.go[choice], <<>>, place.said, place.told, way)
    BY <1>6 DEF W!Resume
  <2>2. choice \in DOMAIN n.go
    BY <1>1, <1>6 DEF NodeOK, W!Forks, W!Terminal
  <2> QED BY <1>4, <2>1, <2>2
<1>7. ASSUME n.type = "collect" PROVE Right
  <2>1. plan = W!Run(fl, n.go[1], <<>>, place.said, place.told, way)
    BY <1>7 DEF W!Resume
  <2>2. 1 \in DOMAIN n.go
    BY <1>1, <1>7 DEF NodeOK, W!Terminal
  <2> QED BY <1>4, <2>1, <2>2
<1>8. ASSUME n.type = "meeting" PROVE Right
  <2> DEFINE tell == W!Do(<<>>, "tell", s)
             mine == W!Say(tell, s, FALSE)
  <2>1. plan = W!Run(fl, n.go[1], mine, place.said, TRUE, way)
    BY <1>8 DEF W!Resume, W!Meeting
  <2>2. 1 \in DOMAIN n.go
    BY <1>1, <1>8 DEF NodeOK, W!Terminal
  <2>3. tell \in Seq(ActionType) /\ Apart(tell) /\ \A x : Tells(tell, x) => x = s
    BY <1>1, NothingTold, DoFacts
  <2> HIDE DEF tell
  <2>4. mine \in Seq(ActionType) /\ TellsNoMore(mine, tell)
    BY <1>1, <2>3, SayFacts
  <2> HIDE DEF mine
  <2>5. Apart(mine) /\ \A x : Tells(mine, x) => x = s
    BY <2>3, <2>4, NoMore
  <2>6. \A x : Tells(mine, x) => x \in group /\ n.go[1] \in W!Later(fl, x)
    BY <1>3, <2>2, <2>5
  <2> HIDE DEF plan
  <2>7. PlanWithin(fl, W!Run(fl, n.go[1], mine, place.said, TRUE, way), n.go[1], group)
    BY <1>2, <1>3, <2>2, <2>4, <2>5, <2>6, RunFacts
  <2>8. n.go[1] \in W!Later(fl, s) /\ W!Later(fl, n.go[1]) \subseteq W!Later(fl, s)
    BY <1>3, <2>2, LaterFacts
  <2> QED BY <2>1, <2>7, <2>8 DEF PlanWithin
<1>9. ASSUME n.type = "agent" PROVE Right
  <2>1. plan = [actions |-> <<>>, said |-> place.said, told |-> place.told, attempts |-> place.attempts,
                node |-> s, done |-> FALSE, agent |-> TRUE]
    BY <1>9 DEF W!Resume
  <2>2. plan \in PlanType /\ plan.actions = <<>> /\ plan.node = s /\ ~plan.done
    BY <1>1, <2>1, NothingTold DEF PlanType
  <2> HIDE DEF plan
  <2> QED BY <1>1, <2>2, NothingTold DEF PlanWithin, PlanOK, Rests
<1> HIDE DEF Right
<1>10. Right
  BY <1>1, <1>5, <1>6, <1>7, <1>8, <1>9 DEF W!Waits
<1> QED BY <1>10 DEF Right

LEMMA BeginFacts ==
  ASSUME NEW fl, FlowOK(fl), NEW place, place.said \in BOOLEAN, place.told \in BOOLEAN, NEW way \in 1..2
  PROVE  PlanWithin(fl, W!Begin(fl, place, way), 1, W!Steps)
<1>1. 1 \in OnPath(fl) /\ {1} \cup W!Later(fl, 1) \subseteq W!Steps
  BY LaterFacts, StepsFacts DEF OnPath
<1>2. PlanWithin(fl, W!Run(fl, 1, <<>>, place.said, place.told, way), 1, W!Steps)
  BY <1>1, RunsFrom
<1> QED BY <1>2 DEF W!Begin
(* A step that does nothing for the customer, with the message let go or   *)
(* not yet taken up.                                                       *)
Stays(st) ==
  /\ DOMAIN workflowExec' = W!Msgs
  /\ \A m \in W!Msgs : workflowExec[m] = "completed" => workflowExec'[m] = "completed"
  /\ \A m \in W!Msgs : workflowExec'[m] = "completed" => workflowExec[m] = "completed" \/ (st = "completed" /\ m = workflowPump.re)

Idles ==
  /\ DOMAIN workflowPump' = {"pc", "re", "tries", "mode", "run"}
  /\ workflowPump'.pc \in {"idle", "rule"}
  /\ workflowPump'.pc = "rule" => workflowPump'.re \in W!Msgs

LEMMA HandsOver ==
  ASSUME chat \in ChatType, chat' \in {chat, [chat EXCEPT !.st = "handed"]}
  PROVE  /\ chat' \in ChatType /\ chat'.run = chat.run /\ chat'.node = chat.node /\ chat'.start = chat.start
         /\ chat'.st \in {chat.st, "handed"}
  BY DEF ChatType, W!Kept

LEMMA Goes ==
  ASSUME TurnInv, workflowPump.pc # "count", UNCHANGED <<flow, told>>,
         chat' \in {chat, [chat EXCEPT !.st = "handed"]},
         NEW st, st = "completed" => workflowPump.pc = "finish", Stays(st), Idles
  PROVE  TurnInv'
<1>1. /\ chat' \in ChatType /\ chat'.run = chat.run /\ chat'.node = chat.node /\ chat'.start = chat.start
      /\ chat'.st \in {chat.st, "handed"}
  BY HandsOver DEF TurnInv, TurnTypes
<1>2. DoneNow' = DoneNow
  BY <1>1 DEF DoneNow, Idles
<1>3. TurnTypes'
  BY <1>1 DEF TurnInv, TurnTypes, Stays, Idles
<1>4. HandInv'
  BY DEF HandInv, Idles, Working
<1>5. FirstInv'
  BY <1>1 DEF TurnInv, FirstInv, Stays
<1>6. ToldInv'
  BY <1>1, <1>2 DEF TurnInv, ToldInv
<1>7. chat.run.exec # 0 => chat.run.exec \in W!Msgs
  BY DEF TurnInv, TurnTypes, ChatType, RunType
<1>8. DoneInv'
  <2> SUFFICES ASSUME chat.run.exec # 0 PROVE DoneInv'
    BY <1>1 DEF DoneInv
  <2>1. DoneNow <= Len(chat.run.plan.actions)
    BY DEF TurnInv, DoneInv
  <2>2. \A i \in DOMAIN chat.run.plan.actions :
         i <= DoneNow /\ chat.run.plan.actions[i].do \in EndDo => chat'.st = "handed"
    BY <1>1 DEF TurnInv, DoneInv
  <2>3. ASSUME workflowExec'[chat.run.exec] = "completed"
        PROVE  /\ DoneNow = Len(chat.run.plan.actions)
               /\ chat'.st = "active" => ~chat.run.plan.done /\ chat'.node = chat.run.plan.node
    BY <1>1, <1>7, <2>3 DEF TurnInv, DoneInv, Stays
  <2> QED BY <1>1, <1>2, <2>1, <2>2, <2>3 DEF DoneInv, Idles
<1> QED BY <1>3, <1>4, <1>5, <1>6, <1>8 DEF TurnInv

(* How a message is let go.                                                *)
LEMMA Closes ==
  ASSUME TurnInv, NEW st, NEW failed, W!Close(st, failed), workflowPump.pc # "idle",
         st = "completed" => workflowPump.pc = "finish" \/ workflowExec[workflowPump.re] = "completed"
  PROVE  /\ Stays(IF workflowPump.pc = "finish" THEN st ELSE "none") /\ Idles /\ flow' = flow
<1>1. workflowPump.re \in W!Msgs
  BY DEF TurnInv, HandInv
<1> QED BY <1>1 DEF TurnInv, TurnTypes, W!Close, W!Rest, Stays, Idles

(* It is let go, and the chat with it perhaps.                             *)
LEMMA ClosesChat ==
  ASSUME TurnInv, NEW st, NEW failed, W!Close(st, failed), workflowPump.pc \notin {"idle", "count"},
         st = "completed" => workflowPump.pc = "finish" \/ workflowExec[workflowPump.re] = "completed",
         told' = told, chat' \in {chat, [chat EXCEPT !.st = "handed"]}
  PROVE  TurnInv'
<1>1. Stays(IF workflowPump.pc = "finish" THEN st ELSE "none") /\ Idles /\ flow' = flow
  BY Closes
<1>2. (IF workflowPump.pc = "finish" THEN st ELSE "none") = "completed" => workflowPump.pc = "finish"
  OBVIOUS
<1> QED BY <1>1, <1>2, Goes

LEMMA TakeTurns == ASSUME TurnInv, NEW n \in W!Msgs, W!Take(n) PROVE TurnInv'
<1>1. Idles /\ Stays("none")
  BY DEF TurnInv, TurnTypes, W!Take, W!Quiet, W!Rest, Idles, Stays
<1>2. workflowPump.pc # "count" /\ UNCHANGED <<flow, told, chat>>
  BY DEF W!Take, W!Quiet
<1> QED BY <1>1, <1>2, Goes

(* The message is taken up, and begins the flow perhaps.                   *)
LEMMA TakesUp ==
  ASSUME TurnInv, workflowPump.pc = "rule",
         workflowExec[workflowPump.re] \notin {"completed", "skipped"},
         W!Mode(workflowPump.re) \in {"start", "continue"},
         chat' = IF W!Mode(workflowPump.re) = "start" /\ chat.start # workflowPump.re
                 THEN [chat EXCEPT !.st = "active", !.start = workflowPump.re] ELSE chat,
         workflowExec' = [workflowExec EXCEPT ![workflowPump.re] = "pending"],
         workflowPump' = [workflowPump EXCEPT !.pc = "plan", !.mode = W!Mode(workflowPump.re)],
         UNCHANGED <<flow, told>>
  PROVE  TurnInv'
<1> DEFINE n == workflowPump.re
           mode == W!Mode(n)
<1>1. n \in W!Msgs /\ n \in Nat
  BY DEF TurnInv, HandInv, W!Msgs
<1>2. /\ DOMAIN workflowPump' = {"pc", "re", "tries", "mode", "run"} /\ workflowPump'.pc = "plan"
      /\ workflowPump'.mode = mode /\ workflowPump'.re = n
  BY DEF TurnInv, TurnTypes
<1>3. mode = "start" => chat'.start = n
  BY DEF TurnInv, TurnTypes, ChatType
<1> HIDE DEF mode
<1>4. HandInv'
  BY <1>1, <1>2, <1>3 DEF HandInv, Working, TurnInv, TurnTypes, mode
<1>5. chat' = chat => DoneNow' = DoneNow
  BY <1>2 DEF DoneNow
<1>6. CASE mode = "start" /\ chat.start # n
  <2>1. chat' = [chat EXCEPT !.st = "active", !.start = n]
    BY <1>6 DEF mode
  <2>2. chat' \in ChatType /\ chat'.run = chat.run /\ chat'.node = chat.node
    BY <1>1, <2>1 DEF TurnInv, TurnTypes, ChatType, W!Kept
  <2>3. chat.st = "none"
    BY <1>6 DEF mode, W!Mode, W!Begins
  <2>4. chat.run.exec = 0
    BY <2>3 DEF TurnInv, FirstInv
  <2>5. TurnTypes'
    BY <1>2, <2>2 DEF TurnInv, TurnTypes
  <2>6. FirstInv' /\ ToldInv' /\ DoneInv'
    BY <2>2, <2>4 DEF TurnInv, FirstInv, ToldInv, DoneInv
  <2> QED BY <1>4, <2>5, <2>6 DEF TurnInv
<1>7. CASE ~(mode = "start" /\ chat.start # n)
  <2>1. chat' = chat
    BY <1>7 DEF mode
  <2>2. TurnTypes'
    BY <1>2, <2>1 DEF TurnInv, TurnTypes
  <2>3. \A m \in W!Msgs : m # n => workflowExec'[m] = workflowExec[m]
    BY DEF TurnInv, TurnTypes
  <2>4. workflowExec[n] # "completed" /\ workflowExec'[n] = "pending"
    BY <1>1 DEF TurnInv, TurnTypes
  <2>5. FirstInv'
    BY <2>1, <2>3, <2>4 DEF TurnInv, FirstInv
  <2>6. ToldInv'
    BY <1>5, <2>1 DEF TurnInv, ToldInv
  <2>7. chat.run.exec # 0 => chat.run.exec \in W!Msgs
    BY DEF TurnInv, TurnTypes, ChatType, RunType
  <2>8. DoneInv'
    BY <1>2, <1>5, <2>1, <2>3, <2>4, <2>7 DEF TurnInv, DoneInv
  <2> QED BY <1>4, <2>2, <2>5, <2>6, <2>8 DEF TurnInv
<1> QED BY <1>6, <1>7

LEMMA RuleTurns == ASSUME TurnInv, W!Rule PROVE TurnInv'
<1> DEFINE n == workflowPump.re
<1>1. workflowPump.pc = "rule" /\ told' = told
  BY DEF W!Rule
<1>2. CASE (W!Mode(n) = "none" \/ workflowExec[n] \in {"completed", "skipped"}) /\ W!Close(workflowExec[n], FALSE) /\ UNCHANGED chat
  BY <1>1, <1>2, ClosesChat
<1>3. CASE W!Close(workflowExec[n], FALSE) /\ chat' = [chat EXCEPT !.st = "handed"]
  BY <1>1, <1>3, ClosesChat
<1>4. CASE W!Close("skipped", FALSE) /\ UNCHANGED chat
  BY <1>1, <1>4, ClosesChat
<1>5. CASE /\ W!Mode(n) \in {"start", "continue"} /\ workflowExec[n] \notin {"completed", "skipped"}
           /\ chat' = IF W!Mode(n) = "start" /\ chat.start # n
                      THEN [chat EXCEPT !.st = "active", !.start = n] ELSE chat
           /\ workflowExec' = [workflowExec EXCEPT ![n] = "pending"]
           /\ workflowPump' = [workflowPump EXCEPT !.pc = "plan", !.mode = W!Mode(n)]
           /\ flow' = flow
  BY <1>1, <1>5, TakesUp
<1> QED BY <1>2, <1>3, <1>4, <1>5 DEF W!Rule
(* What is written down for the message is taken up again.                 *)
LEMMA PicksUp ==
  ASSUME TurnInv, workflowPump.pc = "plan", chat.run.exec = workflowPump.re,
         workflowPump' = [workflowPump EXCEPT !.pc = "do", !.run = chat.run],
         UNCHANGED <<flow, told, chat, workflowExec>>
  PROVE  TurnInv'
<1>1. /\ DOMAIN workflowPump' = {"pc", "re", "tries", "mode", "run"} /\ workflowPump'.pc = "do"
      /\ workflowPump'.mode = workflowPump.mode /\ workflowPump'.re = workflowPump.re
      /\ workflowPump'.run = chat.run
  BY DEF TurnInv, TurnTypes
<1>2. DoneNow' = DoneNow
  BY <1>1 DEF DoneNow
<1>3. TurnTypes'
  BY <1>1 DEF TurnInv, TurnTypes
<1>4. HandInv'
  BY <1>1 DEF TurnInv, HandInv, Working
<1>5. FirstInv'
  BY DEF TurnInv, FirstInv
<1>6. ToldInv'
  BY <1>2 DEF TurnInv, ToldInv
<1>7. DoneInv'
  BY <1>1, <1>2 DEF TurnInv, DoneInv
<1> QED BY <1>3, <1>4, <1>5, <1>6, <1>7 DEF TurnInv

(* A plan is made when the one before is done: it tells of nothing that    *)
(* was told, and rests after all that was.                                 *)
LEMMA PlansNew ==
  ASSUME TurnInv, workflowPump.pc = "plan", chat.st = "active", chat.run.exec # workflowPump.re,
         ~W!OutOfTurn(workflowPump.re), NEW plan \in W!Plans(workflowPump.re)
  PROVE  \E at, group : /\ PlanWithin(flow, plan, at, group)
                        /\ \A s \in group : told[s] = 0
                        /\ \A s \in W!Steps : told[s] > 0 => at \in W!Later(flow, s)
<1> DEFINE n == workflowPump.re
           place == [node |-> chat.node, attempts |-> chat.attempts, said |-> chat.said, told |-> chat.told]
<1>1. /\ workflowExec[n] = "pending" /\ workflowPump.mode \in {"start", "continue"}
      /\ workflowPump.mode = "start" => chat.start = n
  BY DEF TurnInv, HandInv
<1>2. FlowOK(flow) /\ chat \in ChatType /\ told \in [W!Steps -> Nat]
  BY DEF TurnInv, TurnTypes
<1>3. chat.said \in BOOLEAN /\ chat.told \in BOOLEAN /\ chat.attempts \in Nat /\ chat.run \in RunType
  BY <1>2 DEF ChatType
<1>4. chat.run.exec = 0 \/ workflowExec[chat.run.exec] = "completed"
  BY DEF W!OutOfTurn
<1>5. workflowPump.mode = "continue" => chat.node # 0
  BY DEF W!OutOfTurn
<1>6. place.node = chat.node /\ place.attempts = chat.attempts /\ place.said = chat.said /\ place.told = chat.told
  OBVIOUS
<1>7. CASE chat.run.exec = 0
  <2>1. chat.node = 0 /\ \A s \in W!Steps : told[s] = 0
    BY <1>7 DEF TurnInv, FirstInv
  <2>2. PICK way \in 1..2 : plan = W!Begin(flow, place, way)
    BY <2>1 DEF W!Plans
  <2> HIDE DEF place
  <2>3. PlanWithin(flow, plan, 1, W!Steps)
    BY <1>2, <1>3, <1>6, <2>2, BeginFacts
  <2> QED BY <2>1, <2>3
<1>8. CASE chat.run.exec # 0
  <2>1. workflowExec[chat.run.exec] = "completed"
    BY <1>4, <1>8
  <2>2. workflowPump.mode = "continue"
    <3> SUFFICES ASSUME workflowPump.mode = "start" PROVE FALSE
      BY <1>1
    <3> QED BY <1>1, <1>8, <2>1 DEF TurnInv, FirstInv
  <2>3. chat.node = chat.run.plan.node /\ ~chat.run.plan.done /\ PlanOK(flow, chat.run.plan)
    BY <1>8, <2>1 DEF TurnInv, DoneInv, ToldInv
  <2>4. Rests(flow, chat.node)
    BY <2>3 DEF PlanOK
  <2>5. PICK choice \in 1..2, way \in 1..2 : plan = W!Resume(flow, place, choice, way)
    BY <1>5, <2>2 DEF W!Plans, W!Readings
  <2> HIDE DEF place
  <2> DEFINE at == chat.node
             group == {at} \cup W!Later(flow, at)
  <2>6. PlanWithin(flow, plan, at, group)
    BY <1>2, <1>3, <1>6, <2>4, <2>5, ResumeFacts
  <2>7. \A s \in W!Steps : told[s] > 0 => at \in W!Later(flow, s)
    BY <1>8, <2>3 DEF TurnInv, ToldInv
  <2>8. at \in W!Steps /\ at \notin W!Later(flow, at)
    BY <1>2, <2>4 DEF Rests, FlowOK
  <2>9. \A s \in group : told[s] = 0
    <3> SUFFICES ASSUME NEW s \in group, told[s] # 0 PROVE FALSE
      OBVIOUS
    <3>1. s \in W!Steps
      BY <2>8, LaterFacts
    <3>2. told[s] > 0
      BY <1>2, <3>1
    <3>3. at \in W!Later(flow, s)
      BY <2>7, <3>1, <3>2
    <3> QED BY <2>8, <3>3, LaterFacts
  <2> QED BY <2>6, <2>7, <2>9
<1> QED BY <1>7, <1>8

LEMMA PlansTurn ==
  ASSUME TurnInv, workflowPump.pc = "plan", chat.st = "active", chat.run.exec # workflowPump.re,
         ~W!OutOfTurn(workflowPump.re), NEW plan \in W!Plans(workflowPump.re),
         chat' = [chat EXCEPT !.run = [exec |-> workflowPump.re, plan |-> plan, applied |-> 0]],
         workflowPump' = [workflowPump EXCEPT !.pc = "do", !.run = [exec |-> workflowPump.re, plan |-> plan, applied |-> 0]],
         UNCHANGED <<flow, told, workflowExec>>
  PROVE  TurnInv'
<1> DEFINE n == workflowPump.re
           run == [exec |-> n, plan |-> plan, applied |-> 0]
<1>1. /\ n \in W!Msgs /\ n # 0 /\ workflowExec[n] = "pending" /\ workflowPump.mode \in {"start", "continue"}
      /\ workflowPump.mode = "start" => chat.start = n
  BY DEF TurnInv, HandInv, W!Msgs
<1>2. PICK at, group : /\ PlanWithin(flow, plan, at, group)
                       /\ \A s \in group : told[s] = 0
                       /\ \A s \in W!Steps : told[s] > 0 => at \in W!Later(flow, s)
  BY PlansNew
<1>3. plan \in PlanType /\ PlanOK(flow, plan) /\ plan.actions \in Seq(ActionType)
  BY <1>2 DEF PlanWithin, PlanType
<1>4. run \in RunType /\ run.exec = n /\ run.plan = plan /\ run.applied = 0
  BY <1>1, <1>3 DEF RunType
<1> HIDE DEF run
<1>5. chat' \in ChatType /\ chat'.run = run /\ chat'.st = "active" /\ chat'.start = chat.start /\ chat'.node = chat.node
  BY <1>4 DEF TurnInv, TurnTypes, ChatType, run
<1>6. /\ DOMAIN workflowPump' = {"pc", "re", "tries", "mode", "run"} /\ workflowPump'.pc = "do"
      /\ workflowPump'.mode = workflowPump.mode /\ workflowPump'.re = n
      /\ workflowPump'.run = run
  BY DEF TurnInv, TurnTypes, run
<1>7. DoneNow' = 0
  BY <1>4, <1>5, <1>6 DEF DoneNow
<1>8. TurnTypes'
  BY <1>5, <1>6 DEF TurnInv, TurnTypes
<1>9. HandInv'
  BY <1>1, <1>4, <1>5, <1>6 DEF HandInv, Working
<1>10. FirstInv'
  <2>1. ASSUME n # chat.start PROVE chat.start \in W!Msgs /\ workflowExec[chat.start] = "completed"
    <3>1. workflowPump.mode = "continue" /\ chat.node # 0
      BY <1>1, <2>1 DEF W!OutOfTurn
    <3>2. chat.run.exec # 0
      BY <3>1 DEF TurnInv, FirstInv
    <3>3. workflowExec[chat.run.exec] = "completed" /\ chat.run.exec \in W!Msgs
      BY <3>2 DEF W!OutOfTurn, TurnInv, TurnTypes, ChatType, RunType
    <3> QED BY <3>2, <3>3 DEF TurnInv, FirstInv
  <2> QED BY <1>1, <1>4, <1>5, <2>1 DEF FirstInv
<1>11. \A s \in W!Steps : told[s] <= 1
  BY DEF TurnInv, FirstInv, ToldInv
<1>12. \A i \in DOMAIN plan.actions : plan.actions[i].do \in TeamDo => \A s \in plan.actions[i].of : told[s] = 0
  <2> SUFFICES ASSUME NEW i \in DOMAIN plan.actions, plan.actions[i].do \in TeamDo, NEW s \in plan.actions[i].of
               PROVE  told[s] = 0
    OBVIOUS
  <2>1. plan.actions[i] \in ActionType
    BY <1>3, SeqIsFunction
  <2>2. s \in W!Steps /\ Tells(plan.actions, s)
    BY <2>1 DEF ActionType, Tells
  <2> QED BY <1>2, <2>2 DEF PlanWithin
<1>13. ~plan.done => \A s \in W!Steps : told[s] > 0 => plan.node \in W!Later(flow, s)
  BY <1>2, LaterFacts DEF PlanWithin
<1>14. ToldInv'
  BY <1>3, <1>4, <1>5, <1>11, <1>12, <1>13 DEF ToldInv
<1>15. DoneInv'
  <2>1. Len(plan.actions) \in Nat /\ DOMAIN plan.actions = 1..Len(plan.actions)
    BY <1>3, SeqIsFunction
  <2> QED BY <1>1, <1>4, <1>5, <1>6, <1>7, <2>1 DEF DoneInv
<1> QED BY <1>8, <1>9, <1>10, <1>14, <1>15 DEF TurnInv

LEMMA PlanTurns == ASSUME TurnInv, W!Plan, ~redone' PROVE TurnInv'
<1> DEFINE n == workflowPump.re
<1>1. workflowPump.pc = "plan" /\ told' = told
  BY DEF W!Plan
<1>2. CASE W!Close("skipped", FALSE) /\ UNCHANGED chat
  BY <1>1, <1>2, ClosesChat
<1>3. CASE /\ W!Written(n) /\ workflowPump' = [workflowPump EXCEPT !.pc = "do", !.run = chat.run]
           /\ UNCHANGED <<chat, workflowExec, flow>>
  BY <1>1, <1>3, PicksUp DEF W!Written
<1>4. CASE /\ chat.st = "active" /\ ~W!Written(n) /\ UNCHANGED <<workflowExec, flow>>
           /\ \E plan \in W!Plans(n) :
                LET run == [exec |-> n, plan |-> plan, applied |-> 0]
                IN  /\ chat' = [chat EXCEPT !.run = run]
                    /\ workflowPump' = [workflowPump EXCEPT !.pc = "do", !.run = run]
           /\ redone' = (redone \/ W!OutOfTurn(n))
  <2>1. ~W!OutOfTurn(n) /\ chat.run.exec # n
    BY <1>4 DEF W!Written
  <2>2. PICK plan \in W!Plans(n) :
          /\ chat' = [chat EXCEPT !.run = [exec |-> n, plan |-> plan, applied |-> 0]]
          /\ workflowPump' = [workflowPump EXCEPT !.pc = "do", !.run = [exec |-> n, plan |-> plan, applied |-> 0]]
    BY <1>4
  <2> QED BY <1>1, <1>4, <2>1, <2>2, PlansTurn
<1> QED BY <1>2, <1>3, <1>4 DEF W!Plan
(* The next action of the plan is done.                                    *)
LEMMA Applied ==
  ASSUME TurnInv, workflowPump.pc = "do",
         workflowPump.run.applied < Len(workflowPump.run.plan.actions),
         UNCHANGED <<flow, workflowExec>>, workflowPump' = [workflowPump EXCEPT !.pc = "count"],
         chat' \in {chat, [chat EXCEPT !.st = "handed"]},
         W!Action.do \in EndDo => chat' = [chat EXCEPT !.st = "handed"],
         \/ told' = told
         \/ W!Action.do \in TeamDo /\ \E s \in W!Action.of : told' = [told EXCEPT ![s] = @ + 1]
  PROVE  TurnInv'
<1> DEFINE plan == chat.run.plan
           acts == plan.actions
           d == chat.run.applied
           action == acts[d + 1]
<1>1. /\ workflowPump.run = chat.run /\ chat.run.exec = workflowPump.re /\ workflowPump.re \in W!Msgs
      /\ workflowPump.re # 0 /\ workflowExec[workflowPump.re] = "pending"
  BY DEF TurnInv, HandInv, Working, W!Msgs
<1>2. W!Action = action /\ d < Len(acts)
  BY <1>1 DEF W!Action
<1>3. /\ chat \in ChatType /\ d \in Nat /\ acts \in Seq(ActionType) /\ told \in [W!Steps -> Nat]
      /\ Len(acts) \in Nat /\ DOMAIN acts = 1..Len(acts) /\ FlowOK(flow)
  <2>1. chat \in ChatType /\ told \in [W!Steps -> Nat] /\ FlowOK(flow)
    BY DEF TurnInv, TurnTypes
  <2>2. d \in Nat /\ acts \in Seq(ActionType)
    BY <2>1 DEF ChatType, RunType, PlanType
  <2> QED BY <2>1, <2>2, SeqIsFunction
<1>4. /\ chat' \in ChatType /\ chat'.run = chat.run /\ chat'.node = chat.node /\ chat'.start = chat.start
      /\ chat'.st \in {chat.st, "handed"}
  BY <1>3, HandsOver
<1>5. /\ DOMAIN workflowPump' = {"pc", "re", "tries", "mode", "run"} /\ workflowPump'.pc = "count"
      /\ workflowPump'.mode = workflowPump.mode /\ workflowPump'.re = workflowPump.re
      /\ workflowPump'.run = workflowPump.run
  BY DEF TurnInv, TurnTypes
<1>6. DoneNow = d /\ DoneNow' = d + 1 /\ d + 1 \in DOMAIN acts
  BY <1>2, <1>3, <1>4, <1>5 DEF DoneNow
<1>7. action.of \subseteq W!Steps
  <2>1. action \in ActionType
    BY <1>3, <1>6, SeqIsFunction
  <2> QED BY <2>1 DEF ActionType
<1>8. /\ PlanOK(flow, plan) /\ \A s \in W!Steps : told[s] <= 1
      /\ \A i \in DOMAIN acts : i > d /\ acts[i].do \in TeamDo => \A s \in acts[i].of : told[s] = 0
      /\ ~plan.done /\ chat.st = "active" => \A s \in W!Steps : told[s] > 0 => plan.node \in W!Later(flow, s)
  BY <1>1, <1>6 DEF TurnInv, ToldInv
<1>9. \A i \in DOMAIN acts : i <= d /\ acts[i].do \in EndDo => chat.st = "handed"
  BY <1>1, <1>6 DEF TurnInv, DoneInv
<1> HIDE DEF action
<1>10. told' \in [W!Steps -> Nat] /\ \A s \in W!Steps : told'[s] # told[s] => action.do \in TeamDo /\ s \in action.of /\ told'[s] = told[s] + 1
  BY <1>2, <1>3, <1>7
<1>11. TurnTypes'
  BY <1>3, <1>4, <1>5, <1>10 DEF TurnInv, TurnTypes
<1>12. HandInv'
  BY <1>1, <1>4, <1>5 DEF TurnInv, HandInv, Working
<1>13. FirstInv'
  <2>1. chat.st # "none"
    BY <1>1 DEF TurnInv, FirstInv
  <2> QED BY <1>1, <1>4, <2>1 DEF TurnInv, FirstInv
<1>14. \A s \in W!Steps : told'[s] <= 1
  <2> SUFFICES ASSUME NEW s \in W!Steps, told'[s] # told[s] PROVE told'[s] <= 1
    BY <1>8, <1>10
  <2>1. action.do \in TeamDo /\ s \in action.of /\ told'[s] = told[s] + 1
    BY <1>10
  <2>2. told[s] = 0
    <3>1. d + 1 > d /\ acts[d + 1].do \in TeamDo /\ s \in acts[d + 1].of
      BY <1>3, <2>1 DEF action
    <3> HIDE DEF acts, d
    <3> QED BY <1>6, <1>8, <3>1
  <2> QED BY <2>1, <2>2
<1>15. ASSUME NEW i \in DOMAIN acts, i > d + 1, acts[i].do \in TeamDo, NEW s \in acts[i].of PROVE told'[s] = 0
  <2>1. told[s] = 0
    BY <1>3, <1>8, <1>15
  <2>2. s \in W!Steps
    <3>1. acts[i] \in ActionType
      BY <1>3, SeqIsFunction
    <3> QED BY <3>1 DEF ActionType
  <2>3. ~(action.do \in TeamDo /\ s \in action.of)
    <3>1. Apart(acts) /\ i # d + 1
      BY <1>3, <1>8, <1>15 DEF PlanOK
    <3> HIDE DEF acts, d
    <3> QED BY <1>6, <1>15, <3>1 DEF Apart, action
  <2> QED BY <1>10, <2>1, <2>2, <2>3
<1>16. ASSUME ~plan.done, chat'.st = "active", NEW s \in W!Steps, told'[s] > 0 PROVE plan.node \in W!Later(flow, s)
  <2>1. chat.st = "active"
    BY <1>16, <1>4
  <2>2. CASE told'[s] = told[s]
    BY <1>8, <1>16, <2>1, <2>2
  <2>3. CASE told'[s] # told[s]
    <3>1. action.do \in TeamDo /\ s \in action.of
      BY <1>10, <2>3
    <3>2. Tells(acts, s)
      BY <1>6, <3>1 DEF Tells, action
    <3> QED BY <1>8, <1>16, <3>2 DEF PlanOK
  <2> QED BY <2>2, <2>3
<1>17. ToldInv'
  <2> HIDE DEF plan, d
  <2>1. \A i \in DOMAIN acts : i > d + 1 /\ acts[i].do \in TeamDo => \A s \in acts[i].of : told'[s] = 0
    BY <1>15
  <2>2. ~plan.done /\ chat'.st = "active" => \A s \in W!Steps : told'[s] > 0 => plan.node \in W!Later(flow, s)
    BY <1>16
  <2> QED BY <1>4, <1>6, <1>8, <1>14, <2>1, <2>2 DEF ToldInv, plan
<1>18. ASSUME NEW i \in DOMAIN acts, i <= d + 1, acts[i].do \in EndDo PROVE chat'.st = "handed"
  <2>1. CASE i = d + 1
    <3>1. chat' = [chat EXCEPT !.st = "handed"]
      BY <1>2, <1>18, <2>1 DEF action
    <3> QED BY <1>3, <3>1 DEF ChatType
  <2>2. CASE i # d + 1
    BY <1>3, <1>4, <1>9, <1>18, <2>2
  <2> QED BY <2>1, <2>2
<1>19. DoneInv'
  <2> HIDE DEF plan, d
  <2>1. \A i \in DOMAIN acts : i <= d + 1 /\ acts[i].do \in EndDo => chat'.st = "handed"
    BY <1>18
  <2>2. d + 1 <= Len(acts)
    BY <1>2, <1>3
  <2> QED BY <1>1, <1>4, <1>5, <1>6, <2>1, <2>2 DEF DoneInv, plan
<1> QED BY <1>11, <1>12, <1>13, <1>17, <1>19 DEF TurnInv

LEMMA ApplyTurns == ASSUME TurnInv, W!Apply PROVE TurnInv'
<1>1. /\ workflowPump.pc = "do" /\ workflowPump.run.applied < Len(workflowPump.run.plan.actions) /\ flow' = flow
  BY DEF W!Apply
<1>2. CASE W!Close("skipped", FALSE) /\ UNCHANGED <<chat, told>>
  BY <1>1, <1>2, ClosesChat
<1>3. CASE W!Action.do \in {"say", "label"} /\ W!Goto("count") /\ UNCHANGED <<chat, told, workflowExec>>
  BY <1>1, <1>3, Applied DEF W!Goto, EndDo
<1>4. CASE /\ W!Action.do = "tell" /\ \E s \in W!Action.of : told' = [told EXCEPT ![s] = @ + 1]
           /\ W!Goto("count") /\ UNCHANGED <<chat, workflowExec>>
  BY <1>1, <1>4, Applied DEF W!Goto, EndDo, TeamDo
<1>5. CASE /\ W!Action.do = "handoff" /\ \E s \in W!Action.of : told' = [told EXCEPT ![s] = @ + 1]
           /\ chat' = [chat EXCEPT !.st = "handed"]
           /\ W!Goto("count") /\ UNCHANGED workflowExec
  BY <1>1, <1>5, Applied DEF W!Goto, EndDo, TeamDo
<1>6. CASE /\ W!Action.do = "end" /\ chat' = [chat EXCEPT !.st = "handed"]
           /\ W!Goto("count") /\ UNCHANGED <<told, workflowExec>>
  BY <1>1, <1>6, Applied DEF W!Goto, EndDo
<1> QED BY <1>2, <1>3, <1>4, <1>5, <1>6 DEF W!Apply

LEMMA CountTurns == ASSUME TurnInv, W!Count PROVE TurnInv'
<1> DEFINE acts == chat.run.plan.actions
           d == chat.run.applied
<1>1. /\ workflowPump.run = chat.run /\ chat.run.exec = workflowPump.re /\ workflowPump.re \in W!Msgs
      /\ workflowPump.re # 0 /\ workflowExec[workflowPump.re] = "pending" /\ workflowPump.pc = "count"
  BY DEF TurnInv, HandInv, Working, W!Msgs, W!Count
<1>2. chat \in ChatType /\ chat.run \in RunType /\ d \in Nat
  BY DEF TurnInv, TurnTypes, ChatType, RunType
<1> DEFINE run == [chat.run EXCEPT !.applied = d + 1]
<1>3. chat' = [chat EXCEPT !.run = run] /\ UNCHANGED <<flow, workflowExec, told>>
  BY <1>1, <1>2 DEF W!Count, W!Counted, W!Quiet, ChatType
<1>4. /\ workflowPump'.run = run /\ workflowPump'.pc = "do" /\ workflowPump'.re = workflowPump.re
      /\ workflowPump'.mode = workflowPump.mode /\ DOMAIN workflowPump' = {"pc", "re", "tries", "mode", "run"}
  <2>1. workflowPump' = [workflowPump EXCEPT !.pc = "do", !.run = [workflowPump.run EXCEPT !.applied = workflowPump.run.applied + 1]]
    BY DEF W!Count, TurnInv, TurnTypes
  <2> QED BY <1>1, <2>1 DEF TurnInv, TurnTypes
<1>5. run \in RunType /\ run.exec = chat.run.exec /\ run.plan = chat.run.plan /\ run.applied = d + 1
  BY <1>2 DEF RunType
<1> HIDE DEF run
<1>6. chat' \in ChatType /\ chat'.run = run /\ chat'.st = chat.st /\ chat'.node = chat.node /\ chat'.start = chat.start
  BY <1>2, <1>3, <1>5 DEF ChatType
<1>7. DoneNow' = DoneNow
  BY <1>1, <1>2, <1>4, <1>5, <1>6 DEF DoneNow
<1>8. TurnTypes'
  BY <1>3, <1>4, <1>6 DEF TurnInv, TurnTypes
<1>9. HandInv'
  BY <1>1, <1>3, <1>4, <1>5, <1>6 DEF TurnInv, HandInv, Working
<1>10. FirstInv'
  BY <1>3, <1>5, <1>6 DEF TurnInv, FirstInv
<1>11. ToldInv'
  BY <1>3, <1>5, <1>6, <1>7 DEF TurnInv, ToldInv
<1>12. DoneInv'
  BY <1>1, <1>3, <1>4, <1>5, <1>6, <1>7 DEF TurnInv, DoneInv
<1> QED BY <1>8, <1>9, <1>10, <1>11, <1>12 DEF TurnInv

LEMMA SavePlaceTurns == ASSUME TurnInv, W!SavePlace PROVE TurnInv'
<1> DEFINE plan == chat.run.plan
<1>1. /\ workflowPump.run = chat.run /\ chat.run.exec = workflowPump.re /\ workflowPump.re \in W!Msgs
      /\ workflowPump.re # 0 /\ workflowExec[workflowPump.re] = "pending" /\ workflowPump.pc = "do"
  BY DEF TurnInv, HandInv, Working, W!Msgs, W!SavePlace
<1>2. chat \in ChatType /\ chat.run \in RunType /\ plan \in PlanType /\ chat.run.applied \in Nat /\ plan.actions \in Seq(ActionType)
  BY DEF TurnInv, TurnTypes, ChatType, RunType, PlanType
<1>3. chat.run.applied = Len(plan.actions) /\ UNCHANGED <<flow, workflowExec, told>>
  BY <1>1 DEF W!SavePlace, W!Quiet
<1>4. /\ chat' \in ChatType /\ chat'.run = chat.run /\ chat'.st = chat.st /\ chat'.start = chat.start
      /\ ~plan.done /\ chat.st = "active" => chat'.node = plan.node
  <2>0. plan.node \in Nat /\ plan.attempts \in Nat /\ plan.said \in BOOLEAN /\ plan.told \in BOOLEAN
    BY <1>2 DEF PlanType
  <2>1. CASE plan.done
    <3>1. chat' = [chat EXCEPT !.run = chat.run, !.said = plan.said, !.told = plan.told]
      BY <1>1, <2>1 DEF W!SavePlace
    <3> QED BY <1>2, <2>0, <2>1, <3>1 DEF ChatType
  <2>2. CASE ~plan.done /\ chat.st = "active"
    <3>1. chat' = [chat EXCEPT !.node = plan.node, !.attempts = plan.attempts,
                               !.run = chat.run, !.said = plan.said, !.told = plan.told]
      BY <1>1, <2>2 DEF W!SavePlace
    <3> QED BY <1>2, <2>0, <2>2, <3>1 DEF ChatType
  <2>3. CASE ~plan.done /\ chat.st # "active"
    <3>1. chat' = chat
      BY <1>1, <2>3 DEF W!SavePlace
    <3> QED BY <1>2, <2>3, <3>1
  <2> QED BY <2>1, <2>2, <2>3
<1>5. /\ workflowPump'.pc \in {"agent", "finish"} /\ workflowPump'.run = chat.run /\ workflowPump'.re = workflowPump.re
      /\ workflowPump'.mode = workflowPump.mode /\ DOMAIN workflowPump' = {"pc", "re", "tries", "mode", "run"}
  BY <1>1 DEF W!SavePlace, W!Goto, TurnInv, TurnTypes
<1>6. DoneNow' = DoneNow /\ DoneNow = Len(plan.actions)
  BY <1>1, <1>2, <1>3, <1>4, <1>5 DEF DoneNow
<1>7. TurnTypes'
  BY <1>3, <1>4, <1>5 DEF TurnInv, TurnTypes
<1>8. HandInv'
  BY <1>1, <1>3, <1>4, <1>5 DEF TurnInv, HandInv, Working
<1>9. FirstInv'
  BY <1>1, <1>3, <1>4 DEF TurnInv, FirstInv
<1>10. ToldInv'
  BY <1>3, <1>4, <1>6 DEF TurnInv, ToldInv
<1>11. chat.st = "active" => ~plan.done
  <2> SUFFICES ASSUME chat.st = "active", plan.done PROVE FALSE
    OBVIOUS
  <2>1. PICK i \in DOMAIN plan.actions : plan.actions[i].do \in EndDo
    BY <1>1 DEF TurnInv, ToldInv, PlanOK
  <2>2. i <= DoneNow
    BY <1>2, <1>6, SeqIsFunction
  <2> QED BY <1>1, <2>1, <2>2 DEF TurnInv, DoneInv
<1>12. DoneInv'
  BY <1>1, <1>3, <1>4, <1>6, <1>11 DEF TurnInv, DoneInv
<1> QED BY <1>7, <1>8, <1>9, <1>10, <1>12 DEF TurnInv

(* Riwo's turn in the chat is over, or a person has it now.                *)
LEMMA TurnOver ==
  ASSUME TurnInv, workflowPump.pc = "agent", UNCHANGED <<flow, workflowExec>>,
         workflowPump' = [workflowPump EXCEPT !.pc = "finish"],
         \/ UNCHANGED <<chat, told>>
         \/ /\ chat.st = "active" /\ chat' = [chat EXCEPT !.st = "handed"]
            /\ told' = [told EXCEPT ![workflowPump.run.plan.node] = @ + 1]
  PROVE  TurnInv'
<1> DEFINE plan == chat.run.plan
<1>1. /\ workflowPump.run = chat.run /\ chat.run.exec = workflowPump.re /\ workflowPump.re \in W!Msgs
      /\ workflowPump.re # 0 /\ workflowExec[workflowPump.re] = "pending"
  BY DEF TurnInv, HandInv, Working, W!Msgs
<1>2. chat \in ChatType /\ told \in [W!Steps -> Nat] /\ FlowOK(flow) /\ plan.actions \in Seq(ActionType) /\ chat.run.applied \in Nat
  BY DEF TurnInv, TurnTypes, ChatType, RunType, PlanType
<1>3. /\ chat' \in ChatType /\ chat'.run = chat.run /\ chat'.node = chat.node /\ chat'.start = chat.start
      /\ chat'.st \in {chat.st, "handed"}
  BY <1>2, HandsOver
<1>4. /\ workflowPump'.pc = "finish" /\ workflowPump'.run = chat.run /\ workflowPump'.re = workflowPump.re
      /\ workflowPump'.mode = workflowPump.mode /\ DOMAIN workflowPump' = {"pc", "re", "tries", "mode", "run"}
  BY <1>1 DEF TurnInv, TurnTypes
<1>5. DoneNow' = DoneNow /\ DoneNow = Len(plan.actions) /\ (chat.st = "active" => ~plan.done /\ chat.node = plan.node)
  BY <1>1, <1>2, <1>3, <1>4 DEF DoneNow, TurnInv, DoneInv
<1>6. /\ told' \in [W!Steps -> Nat] /\ \A s \in W!Steps : told'[s] <= 1
      /\ chat'.st = "active" => told' = told
  <2>1. CASE told' = told /\ chat' = chat
    BY <1>1, <1>2, <2>1 DEF TurnInv, ToldInv
  <2>2. CASE /\ chat.st = "active" /\ chat' = [chat EXCEPT !.st = "handed"]
             /\ told' = [told EXCEPT ![plan.node] = @ + 1]
    <3>1. Rests(flow, plan.node)
      BY <1>1, <1>5, <2>2 DEF TurnInv, ToldInv, PlanOK
    <3>2. plan.node \in W!Steps /\ plan.node \notin W!Later(flow, plan.node)
      BY <1>2, <3>1 DEF Rests, FlowOK
    <3>3. told[plan.node] = 0 /\ \A s \in W!Steps : told[s] <= 1
      BY <1>1, <1>2, <1>5, <2>2, <3>2 DEF TurnInv, ToldInv
    <3>4. chat'.st = "handed"
      BY <1>2, <2>2 DEF ChatType
    <3> QED BY <1>2, <2>2, <3>2, <3>3, <3>4
  <2> QED BY <1>1, <2>1, <2>2
<1>7. TurnTypes'
  BY <1>3, <1>4, <1>6 DEF TurnInv, TurnTypes
<1>8. HandInv'
  BY <1>1, <1>3, <1>4 DEF TurnInv, HandInv, Working
<1>9. FirstInv'
  BY <1>1, <1>3 DEF TurnInv, FirstInv
<1>10. ToldInv'
  <2>1. \A i \in DOMAIN plan.actions : ~(i > DoneNow)
    BY <1>2, <1>5, SeqIsFunction
  <2> QED BY <1>1, <1>3, <1>5, <1>6, <2>1 DEF TurnInv, ToldInv
<1>11. DoneInv'
  BY <1>1, <1>3, <1>4, <1>5 DEF TurnInv, DoneInv
<1> QED BY <1>7, <1>8, <1>9, <1>10, <1>11 DEF TurnInv

LEMMA AgentTurns == ASSUME TurnInv, W!Agent PROVE TurnInv'
<1>1. workflowPump.pc = "agent" /\ flow' = flow
  BY DEF W!Agent
<1>2. CASE chat' = [chat EXCEPT !.st = "handed"] /\ W!Close("skipped", FALSE) /\ told' = told
  BY <1>1, <1>2, ClosesChat
<1>3. CASE W!Goto("finish") /\ UNCHANGED <<chat, told, workflowExec>>
  BY <1>1, <1>3, TurnOver DEF W!Goto
<1>4. CASE /\ chat.st = "active" /\ told' = [told EXCEPT ![workflowPump.run.plan.node] = @ + 1]
           /\ chat' = [chat EXCEPT !.st = "handed"] /\ W!Goto("finish") /\ UNCHANGED workflowExec
  BY <1>1, <1>4, TurnOver DEF W!Goto
<1> QED BY <1>2, <1>3, <1>4 DEF W!Agent

(* What is true while no turn was cut or overtaken.                        *)
LEMMA WorkflowNext ==
  ASSUME ~workflowCut /\ ~redone => TurnInv, [W!Next]_(W!vars), ~workflowCut', ~redone'
  PROVE  TurnInv'
<1>1. CASE UNCHANGED W!vars
  <2>1. UNCHANGED <<flow, chat, told, workflowPump, workflowExec, workflowCut, redone>>
    BY <1>1 DEF W!vars, W!history
  <2> QED BY <2>1 DEF TurnInv, TurnTypes, HandInv, FirstInv, ToldInv, DoneInv, DoneNow
<1>2. CASE W!Receive \/ W!PersonReplies
  <2>1. UNCHANGED <<flow, chat, told, workflowPump, workflowExec, workflowCut, redone>>
    BY <1>2 DEF W!Receive, W!PersonReplies, W!history
  <2> QED BY <2>1 DEF TurnInv, TurnTypes, HandInv, FirstInv, ToldInv, DoneInv, DoneNow
<1>3. ASSUME NEW n \in W!Msgs, W!Take(n) PROVE TurnInv'
  BY <1>3, TakeTurns DEF W!Take, W!history
<1>4. CASE W!Rule
  BY <1>4, RuleTurns DEF W!Rule, W!history
<1>5. CASE W!Plan
  BY <1>5, PlanTurns DEF W!Plan
<1>6. CASE W!Apply
  BY <1>6, ApplyTurns DEF W!Apply, W!history
<1>7. CASE W!Count
  BY <1>7, CountTurns DEF W!Count, W!history
<1>8. CASE W!SavePlace
  BY <1>8, SavePlaceTurns DEF W!SavePlace, W!history
<1>9. CASE W!Agent
  BY <1>9, AgentTurns DEF W!Agent, W!history
<1>10. CASE W!Finish
  BY <1>10, ClosesChat DEF W!Finish, W!history
<1>11. CASE W!StepFails
  <2>1. workflowPump.pc \notin {"idle", "count"} /\ TurnInv
    BY <1>11 DEF W!StepFails
  <2>2. W!Close("failed", TRUE) /\ UNCHANGED <<chat, told>>
    BY <1>11 DEF W!StepFails
  <2> QED BY <2>1, <2>2, ClosesChat
<1>12. CASE W!Crash
  <2>1. workflowPump.pc \notin {"idle", "count"} /\ TurnInv /\ UNCHANGED <<flow, chat, told, workflowExec>> /\ workflowPump' = W!Rest
    BY <1>12 DEF W!Crash
  <2>2. Idles /\ Stays("none")
    BY <2>1 DEF TurnInv, TurnTypes, W!Rest, Idles, Stays
  <2> QED BY <2>1, <2>2, Goes
<1> QED BY <1>1, <1>2, <1>3, <1>4, <1>5, <1>6, <1>7, <1>8, <1>9, <1>10, <1>11, <1>12 DEF W!Next, W!Work

LEMMA WorkflowInit == ASSUME W!Init PROVE TurnInv
<1>1. /\ flow \in W!Flows /\ workflowExec = [n \in W!Msgs |-> "none"] /\ told = [s \in W!Steps |-> 0]
      /\ workflowPump = W!Rest
      /\ chat = [st |-> "none", start |-> 0, node |-> 0, attempts |-> 0, said |-> FALSE, told |-> FALSE, run |-> W!NoRun]
  BY DEF W!Init
<1>2. W!NoRun \in RunType /\ W!NoRun.exec = 0
  BY NothingTold DEF W!NoRun, W!NoPlan, RunType, PlanType
<1>3. chat \in ChatType /\ chat.run.exec = 0 /\ chat.node = 0
  BY <1>1, <1>2 DEF ChatType, W!Kept
<1>4. FlowOK(flow)
  BY <1>1, FlowFacts
<1>5. DOMAIN workflowPump = {"pc", "re", "tries", "mode", "run"} /\ workflowPump.pc = "idle"
  BY <1>1 DEF W!Rest
<1> QED BY <1>1, <1>3, <1>4, <1>5 DEF TurnInv, TurnTypes, HandInv, FirstInv, ToldInv, DoneInv, Working

(* A step of a workflow reaches the team once, for any flow, any number of *)
(* messages, faults and attempts, unless the turn broke off between a step *)
(* and its count or the plan of a later message took its place.            *)
THEOREM OncePerTurnHolds == SpecMC => []OncePerTurn
<1>1. InitMC => WorkflowInv
  BY PartInit, WorkflowInit DEF WorkflowInv
<1>2. WorkflowInv /\ [NextMC]_all => WorkflowInv'
  BY PartStep, WorkflowNext DEF WorkflowInv
<1>3. WorkflowInv => OncePerTurn
  <2> SUFFICES ASSUME TurnInv, NEW s \in W!Steps PROVE told[s] <= 1
    BY DEF WorkflowInv, OncePerTurn, W!OncePerTurn
  <2> QED BY DEF TurnInv, FirstInv, ToldInv
<1> QED BY <1>1, <1>2, <1>3, PTL DEF SpecMC

-----------------------------------------------------------------------------
(* What Riwo knows.                                                        *)

Versions == [Pages -> Nat]
Jobs == [pc : {"idle", "crawl", "before", "pages", "drop", "ready", "profile", "write"},
         got : Versions, before : Versions, todo : SUBSET Pages, changed : BOOLEAN,
         shared : BOOLEAN, of : [Sources -> Versions]]
Statuses == {"none", "queued", "reading", "ready", "failed", "gone"}
Looks == {K!Is("written"), K!Is("lost")} \cup {K!Held(w, s) : w \in K!Actors, s \in Sources}

KnowledgeTypes ==
  /\ site \in [Sources -> Versions] /\ kept \in [Sources -> Versions] /\ profile \in [Sources -> Versions]
  /\ job \in [K!Actors -> [Sources -> Jobs]]
  /\ source \in [Sources -> Statuses] /\ edits \in Nat /\ latest \in Looks

(* Who holds the newest look at the pages is about to write it.            *)
HeldInv == \A w \in K!Actors, s \in Sources : latest = K!Held(w, s) => job[w][s].pc = "write"

(* While no job owes a profile, the newest look is what is kept.           *)
NoDebt == \A w \in K!Actors, s \in Sources : ~K!Owes(job[w][s], s)
LookInv ==
  NoDebt =>
    /\ latest.is = "written" => profile = kept
    /\ \A w \in K!Actors, s \in Sources : latest = K!Held(w, s) => job[w][s].of = kept

(* A read that is alone at the pages of a source and found none other has  *)
(* left them as they were.                                                 *)
Unmoved(w, s) ==
  job[w][s].pc \in K!Paging /\ ~K!Removed(s) /\ ~job[w][s].changed /\ ~job[w][s].shared =>
    kept[s] = job[w][s].before
PagesInv ==
  /\ \A w \in K!Actors, s \in Sources : Unmoved(w, s)
  /\ \A v, w \in K!Actors, s \in Sources :
       v # w /\ job[v][s].pc \in K!Paging /\ job[w][s].pc \in K!Paging => job[w][s].shared

RemovedInv ==
  \A s \in Sources :
    /\ K!Removed(s) => kept[s] = K!None
    /\ ~K!Removed(s) => job[K!Owner][s].pc = "idle"
    /\ job[K!Owner][s].pc \in {"idle", "profile", "write"}

LearnInv == HeldInv /\ LookInv /\ PagesInv /\ RemovedInv

LEMMA NoPages == K!None \in Versions /\ K!Idle \in Jobs /\ K!Idle.pc = "idle" /\ K!Owner \in K!Actors
  BY DEF K!None, K!Idle, Versions, Jobs, K!Actors

LEMMA HeldFacts ==
  /\ \A w \in K!Actors, s \in Sources :
       /\ K!Held(w, s).is = "held"
       /\ \A v, t : K!Held(w, s) = K!Held(v, t) => v = w /\ t = s
  /\ \A x \in {"written", "lost"} : K!Is(x).is = x
  BY DEF K!Held, K!Is

(* One job moves.                                                          *)
Others(w, s) == \A v \in K!Actors, t \in Sources : v # w \/ t # s => job'[v][t] = job[v][t]

LEMMA JobMoves ==
  ASSUME KnowledgeTypes, NEW w \in K!Actors, NEW s \in Sources, NEW j \in Jobs, K!Goto(w, s, j)
  PROVE  job' \in [K!Actors -> [Sources -> Jobs]] /\ job'[w][s] = j /\ Others(w, s)
  BY DEF KnowledgeTypes, K!Goto, Others

(* A job that is neither at its pages nor with the newest look goes on or  *)
(* ends, and no debt of it is forgotten, unless the newest look is lost.   *)
LEMMA Elsewhere ==
  ASSUME KnowledgeTypes, LearnInv, NEW w \in K!Actors, NEW s \in Sources, NEW j \in Jobs,
         job'[w][s] = j, Others(w, s), UNCHANGED <<kept, profile>>,
         \A t \in Sources : K!Removed(t)' <=> K!Removed(t),
         j.pc \notin K!Paging \cup {"write"},
         w = K!Owner => j.pc = "idle",
         \/ latest' = K!Is("lost")
         \/ latest' = latest /\ latest # K!Held(w, s) /\ (K!Owes(job[w][s], s) => K!Owes(j, s))
  PROVE  LearnInv'
<1>1. HeldInv'
  BY HeldFacts DEF LearnInv, HeldInv, Others
<1>2. LookInv'
  <2>1. CASE latest' = K!Is("lost")
    BY <2>1, HeldFacts DEF LookInv
  <2>2. CASE latest' = latest /\ latest # K!Held(w, s) /\ (K!Owes(job[w][s], s) => K!Owes(j, s))
    <3>1. ASSUME NEW v \in K!Actors, NEW t \in Sources, K!Owes(job[v][t], t) PROVE K!Owes(job[v][t], t)'
      <4>1. CASE v = w /\ t = s
        BY <2>2, <3>1, <4>1 DEF K!Owes
      <4>2. CASE v # w \/ t # s
        BY <3>1, <4>2 DEF K!Owes, Others
      <4> QED BY <4>1, <4>2
    <3>2. NoDebt' => NoDebt
      BY <3>1 DEF NoDebt
    <3> QED BY <2>2, <3>2 DEF LearnInv, LookInv, Others
  <2> QED BY <2>1, <2>2
<1>3. \A v \in K!Actors, t \in Sources : job'[v][t].pc \in K!Paging => job'[v][t] = job[v][t]
  BY DEF Others
<1>4. PagesInv'
  BY <1>3 DEF LearnInv, PagesInv, Unmoved
<1>5. RemovedInv'
  BY NoPages DEF LearnInv, RemovedInv, Others
<1> QED BY <1>1, <1>2, <1>4, <1>5 DEF LearnInv

(* Nothing is done to pages, profile or jobs.                              *)
LEMMA Undisturbed ==
  ASSUME LearnInv, UNCHANGED <<kept, profile, job, latest>>,
         \A t \in Sources : K!Removed(t)' <=> K!Removed(t)
  PROVE  LearnInv'
<1>1. NoDebt' <=> NoDebt
  BY DEF NoDebt, K!Owes
<1> QED BY <1>1 DEF LearnInv, HeldInv, LookInv, PagesInv, Unmoved, RemovedInv

(* A status that is told of a source does not remove it.                   *)
LEMMA StaysInList ==
  ASSUME KnowledgeTypes, NEW s \in Sources, NEW x \in Statuses \ {"gone"},
         \/ ~K!Removed(s) /\ source' = [source EXCEPT ![s] = x]
         \/ source' = K!Told(s, x)
         \/ UNCHANGED source
  PROVE  /\ source' \in [Sources -> Statuses]
         /\ \A t \in Sources : K!Removed(t)' <=> K!Removed(t)
<1>1. CASE ~K!Removed(s) /\ source' = [source EXCEPT ![s] = x]
  BY <1>1 DEF K!Removed, KnowledgeTypes
<1>2. CASE source' = K!Told(s, x)
  <2>1. PICK y \in Statuses : /\ y = IF K!Removed(s) THEN source[s] ELSE x
                              /\ source' = [source EXCEPT ![s] = y]
    BY <1>2 DEF K!Told, KnowledgeTypes
  <2>2. y = "gone" <=> K!Removed(s)
    BY <2>1 DEF K!Removed
  <2> QED BY <2>1, <2>2 DEF K!Removed, KnowledgeTypes
<1>3. CASE UNCHANGED source
  BY <1>3 DEF K!Removed, KnowledgeTypes
<1> QED BY <1>1, <1>2, <1>3

(* A read is claimed, the site is read, a removed source refuses its page. *)
LEMMA ClaimLearns ==
  ASSUME KnowledgeTypes, LearnInv, NEW w \in Servers, NEW s \in Sources, K!Claim(w, s)
  PROVE  KnowledgeTypes' /\ LearnInv'
<1>1. w \in K!Actors /\ w # K!Owner /\ job[w][s].pc = "idle"
  BY PeopleAssumption DEF K!Claim, K!At, K!Actors
<1>2. PICK j \in Jobs : j.pc = "crawl" /\ K!Goto(w, s, j)
  <2>1. [K!Idle EXCEPT !.pc = "crawl"] \in Jobs /\ [K!Idle EXCEPT !.pc = "crawl"].pc = "crawl"
    BY NoPages DEF Jobs
  <2> QED BY <2>1 DEF K!Claim
<1>3. /\ ~K!Removed(s) /\ source' = [source EXCEPT ![s] = "reading"]
      /\ UNCHANGED <<site, kept, profile, latest, edits>>
  BY DEF K!Claim, K!Claimable, K!Removed
<1>4. job' \in [K!Actors -> [Sources -> Jobs]] /\ job'[w][s] = j /\ Others(w, s)
  BY <1>1, <1>2, JobMoves
<1>5. source' \in [Sources -> Statuses] /\ \A t \in Sources : K!Removed(t)' <=> K!Removed(t)
  BY <1>3, StaysInList DEF Statuses
<1>6. latest # K!Held(w, s) /\ ~K!Owes(job[w][s], s)
  BY <1>1 DEF LearnInv, HeldInv, K!Owes, K!Paging
<1>7. LearnInv'
  BY <1>1, <1>2, <1>3, <1>4, <1>5, <1>6, Elsewhere DEF K!Paging
<1> QED BY <1>3, <1>4, <1>5, <1>7 DEF KnowledgeTypes, Looks

LEMMA CrawlLearns ==
  ASSUME KnowledgeTypes, LearnInv, NEW w \in K!Actors, NEW s \in Sources, K!Crawl(w, s)
  PROVE  KnowledgeTypes' /\ LearnInv'
<1>1. job[w][s].pc = "crawl" /\ job[w][s] \in Jobs /\ UNCHANGED <<site, source, kept, profile, latest, edits>>
  BY DEF K!Crawl, K!At, KnowledgeTypes
<1>2. PICK j \in Jobs : j.pc = "before" /\ K!Goto(w, s, j)
  <2>1. PICK found \in SUBSET Pages :
          K!Goto(w, s, [job[w][s] EXCEPT !.pc = "before",
                          !.got = [p \in Pages |-> IF p \in found THEN site[s][p] ELSE 0]])
    BY DEF K!Crawl
  <2>2. [p \in Pages |-> IF p \in found THEN site[s][p] ELSE 0] \in Versions
    BY DEF KnowledgeTypes, Versions
  <2> QED BY <1>1, <2>1, <2>2 DEF Jobs
<1>3. job' \in [K!Actors -> [Sources -> Jobs]] /\ job'[w][s] = j /\ Others(w, s)
  BY <1>2, JobMoves
<1>4. latest # K!Held(w, s) /\ ~K!Owes(job[w][s], s) /\ w # K!Owner
  BY <1>1 DEF LearnInv, HeldInv, RemovedInv, K!Owes, K!Paging
<1>5. \A t \in Sources : K!Removed(t)' <=> K!Removed(t)
  BY <1>1 DEF K!Removed
<1>6. LearnInv'
  BY <1>1, <1>2, <1>3, <1>4, <1>5, Elsewhere DEF K!Paging
<1> QED BY <1>1, <1>3, <1>6 DEF KnowledgeTypes, Looks

(* A job ends, with or without a word to its source.                       *)
LEMMA EndLearns ==
  ASSUME KnowledgeTypes, LearnInv, NEW w \in K!Actors, NEW s \in Sources, NEW x \in Statuses \ {"gone"},
         K!Goto(w, s, K!Idle), source' = K!Told(s, x) \/ UNCHANGED source,
         UNCHANGED <<site, kept, profile, edits>>,
         \/ K!EndsUnwritten(w, {s})
         \/ UNCHANGED latest /\ ~K!Owes(job[w][s], s) /\ job[w][s].pc # "write"
  PROVE  KnowledgeTypes' /\ LearnInv'
<1>1. job' \in [K!Actors -> [Sources -> Jobs]] /\ job'[w][s] = K!Idle /\ Others(w, s)
  BY NoPages, JobMoves
<1>2. source' \in [Sources -> Statuses] /\ \A t \in Sources : K!Removed(t)' <=> K!Removed(t)
  BY StaysInList
<1>3. \/ latest' = K!Is("lost")
      \/ latest' = latest /\ latest # K!Held(w, s) /\ ~K!Owes(job[w][s], s)
  BY DEF K!EndsUnwritten, LearnInv, HeldInv
<1>4. latest' \in Looks
  BY <1>3 DEF KnowledgeTypes, Looks
<1>5. LearnInv'
  BY <1>1, <1>2, <1>3, NoPages, Elsewhere DEF K!Paging
<1> QED BY <1>1, <1>2, <1>4, <1>5 DEF KnowledgeTypes, Looks

LEMMA ReadyLearns ==
  ASSUME KnowledgeTypes, LearnInv, NEW w \in K!Actors, NEW s \in Sources, K!Ready(w, s)
  PROVE  KnowledgeTypes' /\ LearnInv'
<1>1. /\ job[w][s].pc = "ready" /\ job[w][s] \in Jobs
      /\ source' = K!Told(s, "ready") /\ UNCHANGED <<site, kept, profile, edits>>
  BY DEF K!Ready, KnowledgeTypes
<1>2. "ready" \in Statuses \ {"gone"}
  BY DEF Statuses
<1>3. CASE ~job[w][s].changed
  <2>1. K!Goto(w, s, K!Idle) /\ K!EndsUnwritten(w, {s})
    BY <1>3 DEF K!Ready
  <2> QED BY <1>1, <1>2, <2>1, EndLearns
<1>4. CASE job[w][s].changed
  <2>1. PICK j \in Jobs : j.pc = "profile" /\ K!Goto(w, s, j)
    <3>1. [K!Idle EXCEPT !.pc = "profile"] \in Jobs /\ [K!Idle EXCEPT !.pc = "profile"].pc = "profile"
      BY NoPages DEF Jobs
    <3> QED BY <1>4, <3>1 DEF K!Ready
  <2>2. UNCHANGED latest
    BY <1>4 DEF K!Ready
  <2>3. job' \in [K!Actors -> [Sources -> Jobs]] /\ job'[w][s] = j /\ Others(w, s)
    BY <2>1, JobMoves
  <2>4. source' \in [Sources -> Statuses] /\ \A t \in Sources : K!Removed(t)' <=> K!Removed(t)
    BY <1>1, <1>2, StaysInList
  <2>5. latest # K!Held(w, s) /\ w # K!Owner /\ K!Owes(j, s)
    BY <1>1, <2>1 DEF LearnInv, HeldInv, RemovedInv, K!Owes
  <2>6. LearnInv'
    BY <1>1, <2>1, <2>2, <2>3, <2>4, <2>5, Elsewhere DEF K!Paging
  <2> QED BY <1>1, <2>2, <2>3, <2>4, <2>6 DEF KnowledgeTypes, Looks
<1> QED BY <1>3, <1>4

(* A read comes to its pages: it and any other that is at them now share   *)
(* the source.                                                             *)
LEMMA BeforeLearns ==
  ASSUME KnowledgeTypes, LearnInv, NEW w \in K!Actors, NEW s \in Sources, K!Before(w, s)
  PROVE  KnowledgeTypes' /\ LearnInv'
<1> DEFINE others == {v \in Servers \ {w} : job[v][s].pc \in K!Paging}
           mine == [job[w][s] EXCEPT !.pc = "pages", !.before = kept[s], !.changed = (kept[s] = K!None),
                                     !.shared = (others # {}), !.todo = {p \in Pages : job[w][s].got[p] # 0}]
<1>1. /\ job[w][s].pc = "before" /\ UNCHANGED <<site, source, kept, profile, latest, edits>>
      /\ job' = [v \in K!Actors |->
                   IF v = w THEN [job[v] EXCEPT ![s] = mine]
                   ELSE IF v \in others THEN [job[v] EXCEPT ![s].shared = TRUE] ELSE job[v]]
  BY DEF K!Before
<1>2. mine \in Jobs /\ mine.pc = "pages" /\ mine.before = kept[s] /\ (mine.shared <=> others # {})
  <2>1. /\ job[w][s] \in Jobs /\ kept[s] \in Versions /\ (kept[s] = K!None) \in BOOLEAN
        /\ (others # {}) \in BOOLEAN
    BY DEF KnowledgeTypes
  <2>2. {p \in Pages : job[w][s].got[p] # 0} \in SUBSET Pages
    OBVIOUS
  <2>3. PICK b \in BOOLEAN, c \in BOOLEAN : b = (kept[s] = K!None) /\ c = (others # {})
    BY <2>1
  <2> HIDE DEF others
  <2>4. mine = [job[w][s] EXCEPT !.pc = "pages", !.before = kept[s], !.changed = b, !.shared = c,
                                 !.todo = {p \in Pages : job[w][s].got[p] # 0}]
    BY <2>3
  <2> HIDE DEF mine
  <2> QED BY <2>1, <2>2, <2>3, <2>4 DEF Jobs
<1> HIDE DEF mine
<1>3. PICK m \in Jobs : m = mine
  BY <1>2
<1>4. job'[w][s] = m /\ \A t \in Sources \ {s} : job'[w][t] = job[w][t]
  BY <1>1, <1>3 DEF KnowledgeTypes
<1>5. ASSUME NEW v \in others
      PROVE  /\ v \in K!Actors /\ v # w /\ job'[v] \in [Sources -> Jobs]
             /\ job'[v][s].pc = job[v][s].pc /\ job'[v][s].shared
             /\ job'[v][s].before = job[v][s].before /\ job'[v][s].of = job[v][s].of
             /\ \A t \in Sources \ {s} : job'[v][t] = job[v][t]
  <2>1. v \in K!Actors /\ v # w /\ job'[v] = [job[v] EXCEPT ![s].shared = TRUE]
    BY <1>1 DEF K!Actors
  <2>2. job[v] \in [Sources -> Jobs]
    BY <2>1 DEF KnowledgeTypes
  <2>3. PICK k \in Jobs : k = [job[v][s] EXCEPT !.shared = TRUE]
    BY <2>2 DEF Jobs
  <2>4. job'[v] = [job[v] EXCEPT ![s] = k]
    BY <2>1, <2>2, <2>3
  <2>5. k.pc = job[v][s].pc /\ k.shared /\ k.before = job[v][s].before /\ k.of = job[v][s].of
    BY <2>2, <2>3 DEF Jobs
  <2> QED BY <2>1, <2>2, <2>4, <2>5
<1>6. \A v \in K!Actors : v # w /\ v \notin others => job'[v] = job[v]
  BY <1>1
<1> HIDE DEF others
<1>7. job' \in [K!Actors -> [Sources -> Jobs]]
  <2>1. \A v \in K!Actors : job'[v] \in [Sources -> Jobs]
    BY <1>1, <1>3, <1>5, <1>6 DEF KnowledgeTypes
  <2> QED BY <1>1, <2>1
<1>8. \A t \in Sources : K!Removed(t)' <=> K!Removed(t)
  BY <1>1 DEF K!Removed
<1>9. w # K!Owner
  BY <1>1 DEF LearnInv, RemovedInv
<1>10. \A v \in K!Actors, t \in Sources : v # w \/ t # s =>
         /\ job'[v][t].pc = job[v][t].pc /\ job'[v][t].before = job[v][t].before
         /\ job'[v][t].of = job[v][t].of
         /\ job'[v][t] = job[v][t] \/ (t = s /\ v \in others /\ job'[v][t].shared)
  BY <1>4, <1>5, <1>6
<1>11. HeldInv'
  BY <1>1, <1>10 DEF LearnInv, HeldInv
<1>12. LookInv'
  <2>1. ASSUME NEW v \in K!Actors, NEW t \in Sources, K!Owes(job[v][t], t) PROVE K!Owes(job[v][t], t)'
    <3>1. v # w \/ t # s
      BY <1>1, <2>1 DEF K!Owes, K!Paging
    <3>2. CASE job'[v][t] = job[v][t]
      BY <1>8, <2>1, <3>2 DEF K!Owes
    <3>3. CASE job'[v][t].pc = job[v][t].pc /\ job'[v][t].shared
      BY <1>8, <2>1, <3>3 DEF K!Owes
    <3> QED BY <1>10, <3>1, <3>2, <3>3
  <2>2. NoDebt' => NoDebt
    BY <2>1 DEF NoDebt
  <2>3. latest # K!Held(w, s)
    BY <1>1 DEF LearnInv, HeldInv
  <2> QED BY <1>1, <1>10, <2>2, <2>3 DEF LearnInv, LookInv
<1>13. PagesInv'
  <2>1. ASSUME NEW v \in K!Actors, NEW t \in Sources PROVE Unmoved(v, t)'
    <3>1. CASE v = w /\ t = s
      BY <1>1, <1>2, <1>3, <1>4, <3>1 DEF Unmoved
    <3>2. CASE (v # w \/ t # s) /\ job'[v][t] = job[v][t]
      BY <1>1, <1>8, <3>2 DEF Unmoved, LearnInv, PagesInv
    <3>3. CASE (v # w \/ t # s) /\ job'[v][t].shared
      BY <3>3 DEF Unmoved
    <3> QED BY <1>10, <3>1, <3>2, <3>3
  <2>2. ASSUME NEW u \in K!Actors, NEW v \in K!Actors, NEW t \in Sources, u # v,
               job'[u][t].pc \in K!Paging, job'[v][t].pc \in K!Paging
        PROVE  job'[v][t].shared
    <3>1. CASE t = s /\ v = w
      <4>1. job[u][s].pc \in K!Paging /\ u # K!Owner
        BY <1>10, <2>2, <3>1 DEF LearnInv, RemovedInv, K!Paging
      <4>2. u \in others
        BY <2>2, <3>1, <4>1 DEF others, K!Actors
      <4> QED BY <1>2, <1>3, <1>4, <3>1, <4>2
    <3>2. CASE t = s /\ v # w
      <4>1. job[v][s].pc \in K!Paging /\ v # K!Owner
        BY <1>10, <2>2, <3>2 DEF LearnInv, RemovedInv, K!Paging
      <4>2. v \in others
        BY <2>2, <3>2, <4>1 DEF others, K!Actors
      <4> QED BY <1>5, <3>2, <4>2
    <3>3. CASE t # s
      BY <1>10, <2>2, <3>3 DEF LearnInv, PagesInv
    <3> QED BY <3>1, <3>2, <3>3
  <2> QED BY <2>1, <2>2 DEF PagesInv
<1>14. RemovedInv'
  BY <1>1, <1>8, <1>9, <1>10, NoPages DEF LearnInv, RemovedInv
<1>15. LearnInv'
  BY <1>11, <1>12, <1>13, <1>14 DEF LearnInv
<1> QED BY <1>1, <1>7, <1>15 DEF KnowledgeTypes, Looks

(* A job at the pages of s keeps or drops some of them.  When it is alone  *)
(* with them and has found none other, it leaves them as they were.        *)
LEMMA PagesMove ==
  ASSUME KnowledgeTypes, LearnInv, NEW w \in K!Actors, NEW s \in Sources, NEW j \in Jobs, NEW q \in Versions,
         job[w][s].pc \in K!Paging, j.pc \in K!Paging \cup {"ready"},
         K!Goto(w, s, j), kept' = [kept EXCEPT ![s] = q],
         UNCHANGED <<site, source, profile, latest, edits>>,
         K!Removed(s) => q = kept[s],
         job[w][s].changed => j.changed,
         j.shared <=> job[w][s].shared,
         j.pc \in K!Paging => j.before = job[w][s].before,
         ~K!Removed(s) /\ ~j.changed /\ ~j.shared => q = kept[s]
  PROVE  KnowledgeTypes' /\ LearnInv'
<1>1. job' \in [K!Actors -> [Sources -> Jobs]] /\ job'[w][s] = j /\ Others(w, s)
  BY JobMoves
<1>2. \A t \in Sources : K!Removed(t)' <=> K!Removed(t)
  BY DEF K!Removed
<1>3. kept' \in [Sources -> Versions] /\ kept'[s] = q /\ \A t \in Sources \ {s} : kept'[t] = kept[t]
  BY DEF KnowledgeTypes
<1>4. w # K!Owner /\ latest # K!Held(w, s)
  BY DEF LearnInv, HeldInv, RemovedInv, K!Paging
<1>5. HeldInv'
  BY <1>1, <1>4 DEF LearnInv, HeldInv, Others
<1>6. LookInv'
  <2>1. ASSUME NEW v \in K!Actors, NEW t \in Sources, K!Owes(job[v][t], t) PROVE K!Owes(job[v][t], t)'
    <3>1. CASE v = w /\ t = s
      <4>1. ~K!Removed(s) /\ (job[w][s].changed \/ job[w][s].shared)
        BY <2>1, <3>1 DEF K!Owes, K!Paging
      <4>2. j.changed \/ j.shared
        BY <4>1
      <4> QED BY <1>1, <1>2, <3>1, <4>1, <4>2 DEF K!Owes
    <3>2. CASE v # w \/ t # s
      BY <1>1, <1>2, <2>1, <3>2 DEF K!Owes, Others
    <3> QED BY <3>1, <3>2
  <2>2. NoDebt' => NoDebt
    BY <2>1 DEF NoDebt
  <2>3. NoDebt' => kept' = kept
    <3>1. SUFFICES ASSUME NoDebt' PROVE q = kept[s]
      BY <1>3 DEF KnowledgeTypes
    <3>2. ~K!Removed(s) => ~j.changed /\ ~j.shared
      BY <1>1, <1>2, <3>1, j.pc \in K!Paging \cup {"ready"} DEF NoDebt, K!Owes
    <3> QED BY <3>2
  <2>4. \A v \in K!Actors, t \in Sources : latest' = K!Held(v, t) => latest = K!Held(v, t) /\ job'[v][t].of = job[v][t].of
    BY <1>1, <1>4 DEF Others
  <2>5. ASSUME NoDebt', latest'.is = "written" PROVE profile' = kept'
    <3>1. NoDebt /\ kept' = kept
      BY <2>2, <2>3, <2>5
    <3>2. latest.is = "written" /\ profile' = profile
      BY <2>5
    <3> QED BY <3>1, <3>2 DEF LearnInv, LookInv
  <2>6. ASSUME NoDebt', NEW v \in K!Actors, NEW t \in Sources, latest' = K!Held(v, t) PROVE job'[v][t].of = kept'
    <3>1. NoDebt /\ kept' = kept
      BY <2>2, <2>3, <2>6
    <3>2. latest = K!Held(v, t) /\ job'[v][t].of = job[v][t].of
      BY <2>4, <2>6
    <3> QED BY <3>1, <3>2 DEF LearnInv, LookInv
  <2> HIDE DEF NoDebt
  <2> QED BY <2>5, <2>6 DEF LookInv
<1>7. PagesInv'
  <2>1. ASSUME NEW v \in K!Actors, NEW t \in Sources PROVE Unmoved(v, t)'
    <3>1. CASE v = w /\ t = s
      <4> SUFFICES ASSUME j.pc \in K!Paging, ~K!Removed(s), ~j.changed, ~j.shared PROVE q = j.before
        BY <1>1, <1>2, <1>3, <3>1 DEF Unmoved
      <4>1. q = kept[s] /\ ~job[w][s].changed /\ ~job[w][s].shared
        OBVIOUS
      <4> QED BY <4>1 DEF LearnInv, PagesInv, Unmoved
    <3>2. CASE v # w /\ t = s
      <4> SUFFICES ASSUME job[v][s].pc \in K!Paging PROVE job[v][s].shared
        BY <1>1, <3>2 DEF Unmoved, Others
      <4> QED BY <3>2 DEF LearnInv, PagesInv
    <3>3. CASE t # s
      BY <1>1, <1>2, <1>3, <3>3 DEF Unmoved, LearnInv, PagesInv, Others
    <3> QED BY <3>1, <3>2, <3>3
  <2>2. ASSUME NEW u \in K!Actors, NEW v \in K!Actors, NEW t \in Sources, u # v,
               job'[u][t].pc \in K!Paging, job'[v][t].pc \in K!Paging
        PROVE  job'[v][t].shared
    <3>1. job[u][t].pc \in K!Paging /\ job[v][t].pc \in K!Paging
      BY <1>1, <2>2 DEF Others
    <3>2. job[v][t].shared
      BY <2>2, <3>1 DEF LearnInv, PagesInv
    <3> QED BY <1>1, <3>2 DEF Others
  <2> QED BY <2>1, <2>2 DEF PagesInv
<1>8. RemovedInv'
  BY <1>1, <1>2, <1>3, <1>4, NoPages DEF LearnInv, RemovedInv, Others
<1>9. LearnInv'
  BY <1>5, <1>6, <1>7, <1>8 DEF LearnInv
<1> QED BY <1>1, <1>3, <1>9 DEF KnowledgeTypes, Looks

LEMMA KeepLearns ==
  ASSUME KnowledgeTypes, LearnInv, NEW w \in K!Actors, NEW s \in Sources, K!Keep(w, s)
  PROVE  KnowledgeTypes' /\ LearnInv'
<1>1. /\ job[w][s].pc = "pages" /\ job[w][s] \in Jobs /\ kept[s] \in Versions
      /\ kept \in [Sources -> Versions] /\ UNCHANGED <<site, source, profile, latest, edits>>
  BY DEF K!Keep, KnowledgeTypes
<1>2. CASE job[w][s].todo = {}
  <2>1. PICK j \in Jobs : /\ j = [job[w][s] EXCEPT !.pc = "drop"] /\ j.pc = "drop"
                          /\ j.before = job[w][s].before
                          /\ (j.changed <=> job[w][s].changed) /\ (j.shared <=> job[w][s].shared)
    <3>1. [job[w][s] EXCEPT !.pc = "drop"] \in Jobs
      BY <1>1 DEF Jobs
    <3> QED BY <1>1, <3>1 DEF Jobs
  <2>2. K!Goto(w, s, j) /\ kept' = [kept EXCEPT ![s] = kept[s]]
    BY <1>1, <1>2, <2>1 DEF K!Keep
  <2>3. ~K!Removed(s) /\ ~j.changed /\ ~j.shared => kept[s] = kept[s]
    OBVIOUS
  <2>4. job[w][s].pc \in K!Paging /\ j.pc \in K!Paging \cup {"ready"}
    BY <1>1, <2>1 DEF K!Paging
  <2> QED BY <1>1, <2>1, <2>2, <2>3, <2>4, PagesMove
<1>3. CASE job[w][s].todo # {}
  <2>1. PICK p \in job[w][s].todo :
          /\ ~K!Removed(s) /\ kept' = [kept EXCEPT ![s][p] = job[w][s].got[p]]
          /\ K!Goto(w, s, [job[w][s] EXCEPT !.todo = @ \ {p},
                             !.changed = @ \/ job[w][s].before[p] # job[w][s].got[p]])
    BY <1>3 DEF K!Keep
  <2>2. p \in Pages /\ job[w][s].got[p] \in Nat /\ job[w][s].todo \ {p} \in SUBSET Pages
    BY <1>1 DEF Jobs, Versions
  <2>3. PICK b \in BOOLEAN : b = (job[w][s].changed \/ job[w][s].before[p] # job[w][s].got[p])
    OBVIOUS
  <2>4. PICK j \in Jobs : /\ j = [job[w][s] EXCEPT !.todo = @ \ {p}, !.changed = b]
                          /\ j.pc = "pages" /\ j.before = job[w][s].before
                          /\ (j.changed <=> b) /\ (j.shared <=> job[w][s].shared)
    <3>1. [job[w][s] EXCEPT !.todo = @ \ {p}, !.changed = b] \in Jobs
      BY <1>1, <2>2 DEF Jobs
    <3> QED BY <1>1, <3>1 DEF Jobs
  <2>5. K!Goto(w, s, j)
    BY <2>1, <2>3, <2>4
  <2>6. PICK q \in Versions : q = [kept[s] EXCEPT ![p] = job[w][s].got[p]]
    BY <1>1, <2>2 DEF Versions
  <2>7. kept' = [kept EXCEPT ![s] = q]
    BY <1>1, <2>1, <2>6
  <2>8. ~j.changed /\ ~j.shared => q = kept[s]
    <3>1. SUFFICES ASSUME ~j.changed, ~j.shared PROVE kept[s][p] = job[w][s].got[p]
      BY <1>1, <2>2, <2>6 DEF Versions
    <3>2. ~job[w][s].changed /\ ~job[w][s].shared /\ job[w][s].before[p] = job[w][s].got[p]
      BY <2>3, <2>4, <3>1
    <3>3. kept[s] = job[w][s].before
      BY <1>1, <2>1, <3>2 DEF LearnInv, PagesInv, Unmoved, K!Paging
    <3> QED BY <3>2, <3>3
  <2>9. job[w][s].changed => j.changed
    BY <2>3, <2>4
  <2>10. job[w][s].pc \in K!Paging /\ j.pc \in K!Paging \cup {"ready"}
    BY <1>1, <2>4 DEF K!Paging
  <2>11. ~K!Removed(s)
    BY <2>1
  <2> QED BY <1>1, <2>4, <2>5, <2>7, <2>8, <2>9, <2>10, <2>11, PagesMove
<1> QED BY <1>2, <1>3

LEMMA DropLearns ==
  ASSUME KnowledgeTypes, LearnInv, NEW w \in K!Actors, NEW s \in Sources, K!Drop(w, s)
  PROVE  KnowledgeTypes' /\ LearnInv'
<1> DEFINE lost == K!Gone(job[w][s])
<1>1. /\ job[w][s].pc = "drop" /\ job[w][s] \in Jobs /\ kept[s] \in Versions
      /\ kept \in [Sources -> Versions] /\ UNCHANGED <<site, source, profile, latest, edits>>
      /\ kept' = [kept EXCEPT ![s] = [p \in Pages |-> IF p \in lost THEN 0 ELSE @[p]]]
  BY DEF K!Drop, KnowledgeTypes
<1>2. PICK q \in Versions : q = [p \in Pages |-> IF p \in lost THEN 0 ELSE kept[s][p]]
  BY <1>1 DEF Versions
<1>3. kept' = [kept EXCEPT ![s] = q]
  BY <1>1, <1>2
<1>4. PICK b \in BOOLEAN : b = K!Changed(job[w][s])
  <2>1. K!Changed(job[w][s]) \in BOOLEAN
    BY DEF K!Changed
  <2> QED BY <2>1
<1>5. PICK c \in BOOLEAN : c = job[w][s].shared
  BY <1>1 DEF Jobs
<1>6. PICK j \in Jobs : /\ j = [K!Idle EXCEPT !.pc = "ready", !.changed = b, !.shared = c]
                        /\ j.pc = "ready" /\ (j.changed <=> b) /\ (j.shared <=> c)
  <2>1. [K!Idle EXCEPT !.pc = "ready", !.changed = b, !.shared = c] \in Jobs
    BY NoPages DEF Jobs
  <2> QED BY <2>1, NoPages DEF Jobs
<1>7. K!Goto(w, s, j)
  BY <1>4, <1>5, <1>6 DEF K!Drop
<1>8. b <=> job[w][s].changed \/ lost # {}
  BY <1>4 DEF K!Changed
<1> HIDE DEF lost
<1>9. K!Removed(s) => q = kept[s]
  <2>1. SUFFICES ASSUME K!Removed(s) PROVE q = kept[s]
    OBVIOUS
  <2>2. kept[s] = [p \in Pages |-> 0]
    BY <2>1 DEF LearnInv, RemovedInv, K!None
  <2> QED BY <1>2, <2>2
<1>10. ~j.changed => q = kept[s]
  BY <1>1, <1>2, <1>6, <1>8 DEF Versions
<1>11. (job[w][s].changed => j.changed) /\ (j.shared <=> job[w][s].shared) /\ j.pc \notin K!Paging
  BY <1>5, <1>6, <1>8 DEF K!Paging
<1>12. job[w][s].pc \in K!Paging /\ j.pc \in K!Paging \cup {"ready"}
  BY <1>1, <1>6 DEF K!Paging
<1> QED BY <1>1, <1>3, <1>7, <1>9, <1>10, <1>11, <1>12, PagesMove

(* A source is removed with its pages: the owner's request owes a profile. *)
LEMMA RemovalLearns ==
  ASSUME KnowledgeTypes, LearnInv, NEW s \in Sources, K!RemoveSource(s)
  PROVE  KnowledgeTypes' /\ LearnInv'
<1>1. /\ source[s] # "gone" /\ source' = [source EXCEPT ![s] = "gone"]
      /\ kept' = [kept EXCEPT ![s] = K!None] /\ UNCHANGED <<site, profile, latest, edits>>
  BY DEF K!RemoveSource
<1>2. PICK j \in Jobs : j.pc = "profile" /\ K!Goto(K!Owner, s, j)
  <2>1. [K!Idle EXCEPT !.pc = "profile"] \in Jobs /\ [K!Idle EXCEPT !.pc = "profile"].pc = "profile"
    BY NoPages DEF Jobs
  <2> QED BY <2>1 DEF K!RemoveSource
<1>3. K!Owner \in K!Actors
  BY NoPages
<1>4. job' \in [K!Actors -> [Sources -> Jobs]] /\ job'[K!Owner][s] = j /\ Others(K!Owner, s)
  BY <1>2, <1>3, JobMoves
<1>5. /\ source' \in [Sources -> Statuses] /\ K!Removed(s)' /\ ~K!Removed(s)
      /\ \A t \in Sources \ {s} : K!Removed(t)' <=> K!Removed(t)
  BY <1>1 DEF KnowledgeTypes, Statuses, K!Removed
<1>6. /\ kept' \in [Sources -> Versions] /\ kept'[s] = K!None
      /\ \A t \in Sources \ {s} : kept'[t] = kept[t]
  BY <1>1, NoPages DEF KnowledgeTypes
<1>7. latest # K!Held(K!Owner, s)
  BY <1>3, <1>5 DEF LearnInv, HeldInv, RemovedInv
<1>8. HeldInv'
  BY <1>1, <1>4, <1>7 DEF LearnInv, HeldInv, Others
<1>9. LookInv'
  <2>1. K!Owes(job[K!Owner][s], s)'
    BY <1>2, <1>4 DEF K!Owes
  <2>2. ~NoDebt'
    BY <1>3, <2>1 DEF NoDebt
  <2> QED BY <2>2 DEF LookInv
<1>10. PagesInv'
  <2>1. \A v \in K!Actors, t \in Sources : job'[v][t].pc \in K!Paging => job'[v][t] = job[v][t]
    BY <1>2, <1>4 DEF Others, K!Paging
  <2> QED BY <1>5, <1>6, <2>1 DEF LearnInv, PagesInv, Unmoved
<1>11. RemovedInv'
  BY <1>2, <1>3, <1>4, <1>5, <1>6 DEF LearnInv, RemovedInv, Others
<1> QED BY <1>1, <1>4, <1>5, <1>6, <1>8, <1>9, <1>10, <1>11 DEF LearnInv, KnowledgeTypes, Looks

(* All pages are looked at: this is the newest look.                       *)
LEMMA RebuildLearns ==
  ASSUME KnowledgeTypes, LearnInv, NEW w \in K!Actors, NEW s \in Sources, K!Rebuild(w, s)
  PROVE  KnowledgeTypes' /\ LearnInv'
<1>1. /\ job[w][s].pc = "profile" /\ latest' = K!Held(w, s) /\ latest'.is = "held"
      /\ UNCHANGED <<site, source, kept, profile, edits>>
  BY HeldFacts DEF K!Rebuild, K!At
<1>2. PICK j \in Jobs : j.pc = "write" /\ j.of = kept /\ K!Goto(w, s, j)
  <2>1. [K!Idle EXCEPT !.pc = "write", !.of = kept] \in Jobs
    BY NoPages DEF Jobs, KnowledgeTypes
  <2>2. [K!Idle EXCEPT !.pc = "write", !.of = kept].pc = "write"
        /\ [K!Idle EXCEPT !.pc = "write", !.of = kept].of = kept
    BY NoPages DEF Jobs
  <2> QED BY <2>1, <2>2 DEF K!Rebuild
<1>3. job' \in [K!Actors -> [Sources -> Jobs]] /\ job'[w][s] = j /\ Others(w, s)
  BY <1>2, JobMoves
<1>4. \A v \in K!Actors, t \in Sources : latest' = K!Held(v, t) => v = w /\ t = s
  BY <1>1 DEF K!Held
<1>5. HeldInv' /\ LookInv'
  BY <1>1, <1>2, <1>3, <1>4 DEF HeldInv, LookInv
<1>6. PagesInv'
  <2>1. \A v \in K!Actors, t \in Sources : job'[v][t].pc \in K!Paging => job'[v][t] = job[v][t]
    BY <1>2, <1>3 DEF Others, K!Paging
  <2> QED BY <1>1, <2>1 DEF LearnInv, PagesInv, Unmoved, K!Removed
<1>7. RemovedInv'
  BY <1>1, <1>2, <1>3, NoPages DEF LearnInv, RemovedInv, Others, K!Removed
<1> QED BY <1>1, <1>3, <1>5, <1>6, <1>7 DEF LearnInv, KnowledgeTypes, Looks

(* The newest look is written, or an older one over whatever is there.     *)
LEMMA WrittenLearns ==
  ASSUME KnowledgeTypes, LearnInv, NEW w \in K!Actors, NEW s \in Sources, K!Written(w, s)
  PROVE  KnowledgeTypes' /\ LearnInv'
<1>1. /\ job[w][s].pc = "write" /\ job[w][s] \in Jobs /\ profile' = job[w][s].of
      /\ K!Goto(w, s, K!Idle) /\ UNCHANGED <<site, source, kept, edits>>
  BY DEF K!Written, K!At, KnowledgeTypes
<1>2. \/ latest = K!Held(w, s) /\ latest' = K!Is("written")
      \/ latest # K!Held(w, s) /\ latest.is = "written" /\ latest' = K!Is("lost")
      \/ latest # K!Held(w, s) /\ latest.is # "written" /\ latest' = latest
  <2>1. CASE latest = K!Held(w, s)
    <3>1. latest.is # "written"
      BY <2>1, HeldFacts
    <3> QED BY <2>1, <3>1 DEF K!Written
  <2>2. CASE latest # K!Held(w, s) /\ latest.is = "written"
    BY <2>2 DEF K!Written
  <2>3. CASE latest # K!Held(w, s) /\ latest.is # "written"
    BY <2>3 DEF K!Written
  <2> QED BY <2>1, <2>2, <2>3
<1>3. /\ job' \in [K!Actors -> [Sources -> Jobs]] /\ job'[w][s].pc = "idle" /\ Others(w, s)
  BY <1>1, NoPages, JobMoves
<1>4. \A v \in K!Actors, t \in Sources :
        latest' = K!Held(v, t) => latest = latest' /\ (v # w \/ t # s)
  BY <1>2, HeldFacts
<1>5. HeldInv'
  BY <1>3, <1>4 DEF LearnInv, HeldInv, Others
<1>6. NoDebt' => NoDebt
  <2>1. ASSUME NEW v \in K!Actors, NEW t \in Sources, K!Owes(job[v][t], t) PROVE K!Owes(job[v][t], t)'
    <3>1. v # w \/ t # s
      BY <1>1, <2>1 DEF K!Owes, K!Paging
    <3> QED BY <1>1, <1>3, <2>1, <3>1 DEF Others, K!Owes, K!Removed
  <2> QED BY <2>1 DEF NoDebt
<1>7. LookInv'
  <2>1. NoDebt' /\ latest'.is = "written" => profile' = kept'
    <3>1. latest'.is = "written" => latest = K!Held(w, s)
      BY <1>2, HeldFacts
    <3> QED BY <1>1, <1>6, <3>1 DEF LearnInv, LookInv
  <2>2. ASSUME NEW v \in K!Actors, NEW t \in Sources, NoDebt', latest' = K!Held(v, t)
        PROVE  job'[v][t].of = kept'
    BY <1>1, <1>3, <1>4, <1>6, <2>2 DEF LearnInv, LookInv, Others
  <2> QED BY <2>1, <2>2 DEF LookInv
<1>8. PagesInv'
  <2>1. \A v \in K!Actors, t \in Sources : job'[v][t].pc \in K!Paging => job'[v][t] = job[v][t]
    BY <1>3 DEF Others, K!Paging
  <2> QED BY <1>1, <2>1 DEF LearnInv, PagesInv, Unmoved, K!Removed
<1>9. RemovedInv'
  BY <1>1, <1>3, NoPages DEF LearnInv, RemovedInv, Others, K!Removed
<1>10. profile' \in [Sources -> Versions] /\ latest' \in Looks
  BY <1>1, <1>2 DEF Jobs, KnowledgeTypes, Looks
<1> QED BY <1>1, <1>3, <1>5, <1>7, <1>8, <1>9, <1>10 DEF LearnInv, KnowledgeTypes

(* A server dies with all its reads.                                       *)
LEMMA CrashLearns ==
  ASSUME KnowledgeTypes, LearnInv, NEW w \in K!Actors, K!Crash(w)
  PROVE  KnowledgeTypes' /\ LearnInv'
<1>1. /\ job' = [job EXCEPT ![w] = [s \in Sources |-> K!Idle]] /\ K!EndsUnwritten(w, Sources)
      /\ UNCHANGED <<site, source, kept, profile, edits>>
  BY DEF K!Crash
<1>2. /\ job' \in [K!Actors -> [Sources -> Jobs]]
      /\ \A s \in Sources : job'[w][s] = K!Idle
      /\ \A v \in K!Actors \ {w}, s \in Sources : job'[v][s] = job[v][s]
  BY <1>1, NoPages DEF KnowledgeTypes
<1>3. \/ latest' = K!Is("lost")
      \/ /\ latest' = latest
         /\ \A s \in Sources : latest # K!Held(w, s) /\ ~K!Owes(job[w][s], s)
  BY <1>1 DEF K!EndsUnwritten
<1>4. HeldInv'
  BY <1>2, <1>3, HeldFacts DEF LearnInv, HeldInv
<1>5. LookInv'
  <2>1. CASE latest' = K!Is("lost")
    BY <2>1, HeldFacts DEF LookInv
  <2>2. CASE latest' = latest /\ \A s \in Sources : latest # K!Held(w, s) /\ ~K!Owes(job[w][s], s)
    <3>1. ASSUME NEW v \in K!Actors, NEW t \in Sources, K!Owes(job[v][t], t) PROVE K!Owes(job[v][t], t)'
      <4>1. v # w
        BY <2>2, <3>1
      <4> QED BY <1>1, <1>2, <3>1, <4>1 DEF K!Owes, K!Removed
    <3>2. NoDebt' => NoDebt
      BY <3>1 DEF NoDebt
    <3>3. \A v \in K!Actors, t \in Sources : latest = K!Held(v, t) => job'[v][t] = job[v][t]
      BY <1>2, <2>2
    <3> QED BY <1>1, <2>2, <3>2, <3>3 DEF LearnInv, LookInv
  <2> QED BY <1>3, <2>1, <2>2
<1>6. PagesInv'
  <2>1. \A v \in K!Actors, t \in Sources : job'[v][t].pc \in K!Paging => job'[v][t] = job[v][t]
    BY <1>2, NoPages DEF K!Paging
  <2> QED BY <1>1, <2>1 DEF LearnInv, PagesInv, Unmoved, K!Removed
<1>7. RemovedInv'
  BY <1>1, <1>2, NoPages DEF LearnInv, RemovedInv, K!Removed
<1>8. latest' \in Looks
  BY <1>3 DEF KnowledgeTypes, Looks
<1> QED BY <1>1, <1>2, <1>4, <1>5, <1>6, <1>7, <1>8 DEF LearnInv, KnowledgeTypes

LEMMA WorkLearns ==
  ASSUME KnowledgeTypes, LearnInv, NEW w \in K!Actors, NEW s \in Sources, K!Work(w, s)
  PROVE  KnowledgeTypes' /\ LearnInv'
<1>1. ASSUME K!Refused(w, s) PROVE KnowledgeTypes' /\ LearnInv'
  <2>1. /\ K!Goto(w, s, K!Idle) /\ UNCHANGED <<site, source, kept, profile, latest, edits>>
        /\ job[w][s].pc # "write" /\ ~K!Owes(job[w][s], s) /\ "ready" \in Statuses \ {"gone"}
    BY <1>1 DEF K!Refused, K!At, K!Owes, Statuses
  <2> QED BY <2>1, EndLearns
<1>2. ASSUME K!Fails(w, s) PROVE KnowledgeTypes' /\ LearnInv'
  <2>1. /\ K!Goto(w, s, K!Idle) /\ K!EndsUnwritten(w, {s}) /\ UNCHANGED <<site, kept, profile, edits>>
        /\ source' = K!Told(s, "failed") \/ UNCHANGED source
        /\ "failed" \in Statuses \ {"gone"}
    BY <1>2 DEF K!Fails, Statuses
  <2> QED BY <2>1, EndLearns
<1> QED BY <1>1, <1>2, CrawlLearns, BeforeLearns, KeepLearns, DropLearns, ReadyLearns, RebuildLearns,
           WrittenLearns DEF K!Work

LEMMA KnowledgeNext ==
  ASSUME KnowledgeTypes, LearnInv, [K!Next]_(K!vars)
  PROVE  KnowledgeTypes' /\ LearnInv'
<1>1. ASSUME NEW s \in Sources, K!Edit(s) PROVE KnowledgeTypes' /\ LearnInv'
  <2>1. PICK p \in Pages, v \in {0, edits + 2} : site' = [site EXCEPT ![s][p] = v]
    BY <1>1 DEF K!Edit
  <2>2. edits \in Nat /\ v \in Nat /\ edits' = edits + 1
    BY <1>1 DEF K!Edit, KnowledgeTypes
  <2>3. site' \in [Sources -> Versions]
    BY <2>1, <2>2 DEF KnowledgeTypes, Versions
  <2>4. UNCHANGED <<source, kept, profile, job, latest>> /\ \A t \in Sources : K!Removed(t)' <=> K!Removed(t)
    BY <1>1 DEF K!Edit, K!Removed
  <2> QED BY <2>2, <2>3, <2>4, Undisturbed DEF KnowledgeTypes, Looks
<1>2. ASSUME NEW s \in Sources, K!Requeue(s) \/ K!AddSource(s) \/ K!QueueRefresh(s)
      PROVE  KnowledgeTypes' /\ LearnInv'
  <2>1. /\ ~K!Removed(s) /\ source' = [source EXCEPT ![s] = "queued"] /\ "queued" \in Statuses \ {"gone"}
        /\ UNCHANGED <<site, kept, profile, job, latest, edits>>
    BY <1>2 DEF K!Requeue, K!AddSource, K!QueueRefresh, K!Removed, Statuses
  <2>2. source' \in [Sources -> Statuses] /\ \A t \in Sources : K!Removed(t)' <=> K!Removed(t)
    BY <2>1, StaysInList
  <2> QED BY <2>1, <2>2, Undisturbed DEF KnowledgeTypes, Looks
<1>3. CASE UNCHANGED K!vars
  <2>1. UNCHANGED <<site, source, kept, profile, job, latest, edits>>
    BY <1>3 DEF K!vars
  <2>2. \A t \in Sources : K!Removed(t)' <=> K!Removed(t)
    BY <2>1 DEF K!Removed
  <2> QED BY <2>1, <2>2, Undisturbed DEF KnowledgeTypes, Looks
<1> QED BY <1>1, <1>2, <1>3, RemovalLearns, ClaimLearns, CrashLearns, WorkLearns DEF K!Next

LEMMA KnowledgeInit == ASSUME K!Init PROVE KnowledgeTypes /\ LearnInv
<1>1. /\ kept = [s \in Sources |-> K!None] /\ profile = [s \in Sources |-> K!None]
      /\ job = [w \in K!Actors |-> [s \in Sources |-> K!Idle]] /\ latest = K!Is("written") /\ edits = 0
      /\ source = [s \in Sources |-> "none"]
      /\ site = [s \in Sources |-> [K!None EXCEPT ![Home] = 1]]
  BY DEF K!Init
<1>2. [K!None EXCEPT ![Home] = 1] \in Versions
  BY NoPages DEF Versions
<1>3. KnowledgeTypes
  BY <1>1, <1>2, NoPages DEF KnowledgeTypes, Statuses, Looks
<1>4. \A w \in K!Actors, s \in Sources : job[w][s].pc = "idle" /\ latest # K!Held(w, s)
  BY <1>1, NoPages, HeldFacts
<1>5. HeldInv /\ LookInv /\ PagesInv
  BY <1>1, <1>4 DEF HeldInv, LookInv, PagesInv, Unmoved, K!Paging
<1>6. RemovedInv
  BY <1>1, <1>4, NoPages DEF RemovedInv, K!Removed
<1> QED BY <1>3, <1>5, <1>6 DEF LearnInv

KnowledgeInv == part \in {"learning", "sites"} => KnowledgeTypes /\ LearnInv

(* Whenever nobody has pages or the profile in hand, what Riwo knows is    *)
(* what is kept of all sites, however reads of one site and of others,     *)
(* removals and failures overlapped, unless the newest look at the pages   *)
(* was lost: broken off, found needless while another read had the site    *)
(* in hand, or written over by an older one.                               *)
THEOREM ProfileIsCurrentHolds == SpecMC => []ProfileIsCurrent
<1>1. InitMC => KnowledgeInv
  BY PartInit, KnowledgeInit DEF KnowledgeInv
<1>2. KnowledgeInv /\ [NextMC]_all => KnowledgeInv'
  BY PartStep, KnowledgeNext DEF KnowledgeInv
<1>3. KnowledgeInv => ProfileIsCurrent
  <2> SUFFICES ASSUME KnowledgeTypes, LearnInv, K!Resting, latest.is # "lost" PROVE profile = kept
    BY DEF KnowledgeInv, ProfileIsCurrent, K!ProfileIsCurrent
  <2>1. NoDebt
    BY DEF K!Resting, K!Halfway, NoDebt, K!Owes
  <2>2. \A w \in K!Actors, s \in Sources : latest # K!Held(w, s)
    BY DEF K!Resting, K!Halfway, LearnInv, HeldInv
  <2>3. latest.is = "written"
    BY <2>2, HeldFacts DEF KnowledgeTypes, Looks
  <2> QED BY <2>1, <2>3 DEF LearnInv, LookInv
<1> QED BY <1>1, <1>2, <1>3, PTL DEF SpecMC
=============================================================================
