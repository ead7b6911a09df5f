------------------------------- MODULE Assistant -------------------------------
(***************************************************************************)
(* Who answers a customer in one chat: a rule that replies to a keyword, a *)
(* rule that lets Riwo hold the conversation (plain, as sales assistant or *)
(* as agent), and the people of the company                                *)
(* (services/automationService.js, autoChat.js, personGuard.js,            *)
(* handoffService.js, handOffToExecutive of salesAssistant.js).            *)
(*                                                                         *)
(* Every message of the customer leaves an event; each process works       *)
(* through the pending events, unlocked, and what failed is tried again.   *)
(* A turn asks a model and takes seconds; people reply meanwhile.          *)
(*                                                                         *)
(* A text is the message it answers and the suffix of its idempotency key. *)
(* Left out: time limits of a held chat (a day, a week), closing, the      *)
(* company's own numbers and groups; the lead, the note and the tasks of a *)
(* hand-off, which nothing here reads.                                     *)
(***************************************************************************)
EXTENDS Naturals, Sequences, FiniteSets

CONSTANTS
  Pumps,      \* processes that run pumpAutomations
  MaxMsgs,    \* bound: messages of the customer
  MaxReplies, \* config.maxReplies: texts of Riwo in a held chat
  PerHour,    \* REPLIES_PER_HOUR: texts of rules
  Questions,  \* questions of the sales assistant
  Tries,      \* attempts of an event before it is given up
  MaxFaults   \* bound: processes that end, statements and models that fail

VARIABLES
  kind,     \* configuration of the rule that holds chats
  said,     \* the customer's messages, in order
  answered, \* messages after which a person has written
  needs,    \* conversations.needs_human_since is set
  asking,   \* noteHumanRequest of each message
  hold,     \* automation_chats
  event,    \* outbox_events, automation.incoming
  exec,     \* automation_executions
  count,    \* automations.executions_count
  sent,     \* texts of Riwo and the rules
  quiet,    \* messages a person answered while no text for them was on its way out
  cut,      \* messages whose turn was cut off after the formal text, or ran twice at once
  pump, faults

people == <<answered, needs, asking>>
rows == <<hold, event, exec, count>>
texts == <<sent, quiet>>
vars == <<kind, said, people, rows, texts, cut, pump, faults>>

Msgs == 1..MaxMsgs
Here == 1..Len(said)
Words == {"hello", "keyword", "price", "person"}
Kinds == {"riwo", "sales", "agent"}
Rules == {"key", "chat"}
Suffixes == {"key", "reply", "ai", "sales", "ack"}
Texts == [re : Msgs, key : Suffixes]
Pcs == {"idle", "rule", "begin", "turn", "model", "check", "send", "sent",
        "hand", "formal", "mark", "release", "finish", "count", "close"}

TypeOK ==
  /\ kind \in Kinds /\ said \in Seq(Words)
  /\ answered \subseteq Here /\ needs \in BOOLEAN /\ cut \subseteq Here
  /\ asking \in [Msgs -> {"no", "due", "hand", "ack"}]
  /\ hold \in [st : {"none", "active", "handed"}, start : 0..MaxMsgs, told : BOOLEAN,
               step : Nat, known : 0..Questions]
  /\ event \in [Msgs -> [st : {"none", "pending", "processed", "failed"}, tries : Nat]]
  /\ exec \in [Rules \X Msgs -> {"none", "pending", "failed", "skipped", "completed"}]
  /\ count \in [Rules -> Nat]
  /\ sent \subseteq Texts /\ quiet \subseteq answered
  /\ pump \in [Pumps -> [pc : Pcs, re : 0..MaxMsgs, rule : Rules, tries : Nat,
                         needs : BOOLEAN, replied : BOOLEAN, failed : BOOLEAN,
                         key : Suffixes, then : {"done", "told", "limit", "ask"}, seen : BOOLEAN]]
  /\ faults \in 0..MaxFaults

Rest == [pc |-> "idle", re |-> 0, rule |-> "key", tries |-> 0, needs |-> FALSE,
         replied |-> FALSE, failed |-> FALSE, key |-> "key", then |-> "done", seen |-> FALSE]

Init ==
  /\ kind \in Kinds /\ said = <<>>
  /\ answered = {} /\ needs = FALSE /\ asking = [n \in Msgs |-> "no"]
  /\ hold = [st |-> "none", start |-> 0, told |-> FALSE, step |-> 0, known |-> 0]
  /\ event = [n \in Msgs |-> [st |-> "none", tries |-> 0]]
  /\ exec = [x \in Rules \X Msgs |-> "none"] /\ count = [r \in Rules |-> 0]
  /\ sent = {} /\ quiet = {} /\ cut = {}
  /\ pump = [w \in Pumps |-> Rest] /\ faults = 0

(* sendTextMessage: a key that was used sends nothing.                     *)
Say(n, key) == sent' = sent \cup {[re |-> n, key |-> key]} /\ UNCHANGED quiet

(* Mutant of HandOff: the status of a workflow is written. *)
HandOffStopped == [hold EXCEPT !.st = IF @ = "active" THEN "stopped" ELSE @]

HandOff == [hold EXCEPT !.st = IF @ = "active" THEN "handed" ELSE @]

-----------------------------------------------------------------------------
(* The customer and the people of the company.                             *)

Receive(words) ==
  /\ Len(said) < MaxMsgs
  /\ said' = Append(said, words)
  /\ event' = [event EXCEPT ![Len(said) + 1].st = "pending"]
  /\ asking' = [asking EXCEPT ![Len(said) + 1] = IF words = "person" THEN "due" ELSE "no"]
  /\ UNCHANGED <<kind, answered, needs, hold, exec, count, texts, cut, pump, faults>>

PersonReplies ==
  /\ answered # Here \/ needs
  /\ answered' = Here /\ needs' = FALSE
  /\ quiet' = quiet \cup {n \in Here : ~\E w \in Pumps : pump[w].re = n /\ pump[w].pc \in {"send", "formal"}}
  /\ UNCHANGED <<kind, said, asking, rows, sent, cut, pump, faults>>

(* noteHumanRequest: the chat is marked once, then released by whatever    *)
(* holds it; a customer who has been talking to a machine is told.         *)
MarkAsked(n) ==
  /\ asking[n] = "due"
  /\ needs' = TRUE
  /\ asking' = [asking EXCEPT ![n] = IF needs THEN "no" ELSE "hand"]
  /\ UNCHANGED <<kind, said, answered, rows, texts, cut, pump, faults>>

ReleaseAsked(n) ==
  /\ asking[n] = "hand"
  /\ hold' = HandOff
  /\ asking' = [asking EXCEPT ![n] = IF sent = {} THEN "no" ELSE "ack"]
  /\ UNCHANGED <<kind, said, answered, needs, event, exec, count, texts, cut, pump, faults>>

AckAsked(n) ==
  /\ asking[n] = "ack"
  /\ Say(n, "ack")
  /\ asking' = [asking EXCEPT ![n] = "no"]
  /\ UNCHANGED <<kind, said, answered, needs, rows, cut, pump, faults>>

(* The process ends before it was done.                                    *)
AskingEnds(n) ==
  /\ asking[n] # "no" /\ faults < MaxFaults
  /\ asking' = [asking EXCEPT ![n] = "no"]
  /\ faults' = faults + 1
  /\ UNCHANGED <<kind, said, answered, needs, rows, texts, cut, pump>>

-----------------------------------------------------------------------------
(* pumpAutomations in process w, message by message, rule by rule.         *)

Quiet == UNCHANGED <<kind, said, people, event, count, cut, faults>>
Goto(w, pc) == pump' = [pump EXCEPT ![w].pc = pc]

Take(w, n) ==
  /\ pump[w].pc = "idle" /\ event[n].st = "pending"
  /\ pump' = [pump EXCEPT ![w] = [Rest EXCEPT !.pc = "rule", !.re = n, !.needs = needs,
                                              !.tries = event[n].tries]]
  /\ cut' = IF \E v \in Pumps : pump[v].re = n THEN cut \cup {n} ELSE cut
  /\ UNCHANGED <<kind, said, people, rows, texts, faults>>

(* The keyword rule comes before the one that holds chats.                 *)
After(w, p) ==
  pump' = [pump EXCEPT ![w] =
             IF p.rule = "key" THEN [p EXCEPT !.pc = "rule", !.rule = "chat"]
             ELSE [Rest EXCEPT !.pc = "close", !.re = p.re, !.tries = p.tries, !.failed = p.failed]]

Exec(w) == exec[<<pump[w].rule, pump[w].re>>]
Becomes(w, st) ==
  exec' = [exec EXCEPT ![<<pump[w].rule, pump[w].re>>] = IF @ = "completed" THEN @ ELSE st]

Skip(w) == Becomes(w, "skipped") /\ After(w, pump[w])
Fail(w) == Becomes(w, "failed") /\ After(w, [pump[w] EXCEPT !.failed = TRUE])

(* stillHolding, with the conversation that was read at the start.         *)
Holding(w) == ~pump[w].needs /\ hold.start \notin answered

(* triggered, autoChatMode                                                 *)
Mode(w) ==
  CASE pump[w].rule = "key"                                -> IF said[pump[w].re] = "keyword" THEN "check" ELSE "none"
    [] pump[w].rule = "chat" /\ hold.start = pump[w].re    -> "begin"
    [] pump[w].rule = "chat" /\ hold.start # pump[w].re /\ hold.st = "active" -> IF Holding(w) THEN "turn" ELSE "release"
    [] OTHER                                               -> IF hold.st = "none" /\ pump[w].re = 1 THEN "begin" ELSE "none"

TooManyReplies == Cardinality({t \in sent : t.key \in {"key", "reply", "ack"}}) >= PerHour

ToSay(w, key, then) ==
  pump' = [pump EXCEPT ![w].pc = "check", ![w].key = key, ![w].then = then, ![w].seen = FALSE]

(* perform; a rule for a keyword only has its text to send.                *)
Perform(w) ==
  pump' = [pump EXCEPT ![w].pc = Mode(w), ![w].needs = FALSE,
                       ![w].replied = FALSE]

Consider(w) ==
  /\ pump[w].pc = "rule"
  /\ hold' = IF Mode(w) = "release" THEN HandOff ELSE hold
  /\ CASE Mode(w) \in {"none", "release"} -> After(w, pump[w]) /\ UNCHANGED exec
       [] Mode(w) \in {"check", "begin", "turn"} /\ Exec(w) = "completed" ->
            After(w, [pump[w] EXCEPT !.replied = TRUE]) /\ UNCHANGED exec
       [] Mode(w) \in {"check", "begin", "turn"} /\ Exec(w) = "skipped" ->
            After(w, pump[w]) /\ UNCHANGED exec
       [] OTHER -> IF pump[w].replied \/ TooManyReplies THEN Skip(w)
                   ELSE Becomes(w, "pending") /\ Perform(w)
  /\ UNCHANGED texts /\ Quiet

(* The first message of a chat: nobody has answered, so the chat is held,  *)
(* unless it is already, or was by this very message (startAutoChat).      *)
Started(n) ==
  IF hold.st # "active" /\ hold.start # n
  THEN [st |-> "active", start |-> n, told |-> FALSE, step |-> 0, known |-> 0] ELSE hold

Begin(w) ==
  LET n == pump[w].re
  IN  /\ pump[w].pc = "begin"
      /\ IF n \in answered THEN Skip(w) /\ UNCHANGED hold
         ELSE /\ hold' = Started(n)
              /\ CASE kind = "agent" -> Goto(w, "turn")
                   [] kind = "sales" -> IF said[n] = "price" THEN Goto(w, "hand") ELSE ToSay(w, "reply", "ask")
                   [] kind = "riwo"  -> ToSay(w, "reply", "done")
              /\ UNCHANGED exec
      /\ UNCHANGED texts /\ Quiet

(* runAutoChatTurn, up to the question to the model.  What the row said of *)
(* the chat is remembered over it.                                         *)
Spoken == Cardinality({t \in sent : t.key \in {"ai", "sales"}})
Hands(w) == kind \in {"sales", "agent"} /\ said[pump[w].re] = "price"
(* Mutant of Told: the text of an earlier attempt is not looked for. *)
ToldNever(n) == FALSE

(* This message was answered by an earlier attempt.                        *)
Told(n) == [re |-> n, key |-> "ai"] \in sent

Enough(w) == kind \in {"riwo", "agent"} /\ Spoken >= MaxReplies

Turn(w) ==
  LET n == pump[w].re
  IN  /\ pump[w].pc = "turn"
      /\ CASE hold.st # "active" -> Skip(w) /\ UNCHANGED hold
           [] hold.st = "active" /\ Told(n) ->
                Goto(w, "finish") /\ UNCHANGED <<hold, exec>>
           [] hold.st = "active" /\ ~Told(n) /\ n \in answered ->
                hold' = HandOff /\ Skip(w)
           [] OTHER ->
                \/ Hands(w) /\ Goto(w, "hand") /\ UNCHANGED <<hold, exec>>
                \/ ~Hands(w) /\ kind = "agent" /\ hold.told /\ Skip(w) /\ UNCHANGED hold
                \/ /\ ~Hands(w) /\ Enough(w) /\ ~(kind = "agent" /\ hold.told)
                   /\ IF kind = "riwo" THEN ToSay(w, "ai", "limit") ELSE Goto(w, "hand")
                   /\ UNCHANGED <<hold, exec>>
                \/ /\ ~Hands(w) /\ ~Enough(w) /\ ~(kind = "agent" /\ hold.told)
                   /\ pump' = [pump EXCEPT ![w].pc = "model", ![w].seen = hold.told]
                   /\ UNCHANGED <<hold, exec>>
      /\ UNCHANGED texts /\ Quiet

(* It cannot be answered: said once; the team is told.                     *)
NeedsPerson(w) == IF pump[w].seen THEN Skip(w) ELSE ToSay(w, "ai", "told") /\ UNCHANGED exec

(* Riwo is off, or the day's allowance is used up.                         *)
Unavailable(w) ==
  /\ pump[w].pc = "model"
  /\ \/ kind = "riwo" /\ hold' = HandOff /\ Skip(w)
     \/ kind = "agent" /\ NeedsPerson(w) /\ UNCHANGED hold
  /\ UNCHANGED texts /\ Quiet

ModelFails(w) ==
  /\ pump[w].pc = "model" /\ kind # "sales" /\ faults < MaxFaults
  /\ Fail(w) /\ faults' = faults + 1
  /\ UNCHANGED <<kind, said, people, hold, event, count, texts, cut>>

(* The model answers, or cannot; the answer is checked.                    *)
Answer(w) ==
  /\ pump[w].pc = "model" /\ kind # "sales"
  /\ \/ ToSay(w, "ai", "done") /\ UNCHANGED exec
     \/ NeedsPerson(w)
     \/ kind = "agent" /\ Goto(w, "hand") /\ UNCHANGED exec
  /\ UNCHANGED <<hold, texts>> /\ Quiet

(* The sales assistant notes what it learnt and asks the next question;    *)
(* without a model the message answers the question that was asked.        *)
AnswerSales(w) ==
  /\ pump[w].pc = "model" /\ kind = "sales"
  /\ \E known \in hold.known..Questions :
       /\ known <= hold.known + 1
       /\ hold' = [hold EXCEPT !.known = known]
       /\ \/ NeedsPerson(w)
          \/ (known = Questions \/ Spoken >= MaxReplies) /\ Goto(w, "hand") /\ UNCHANGED exec
          \/ known < Questions /\ Spoken < MaxReplies /\ ToSay(w, "ai", "ask") /\ UNCHANGED exec
  /\ UNCHANGED texts /\ Quiet

(* Mutant of Unanswered: nobody looks again at the moment of sending. *)
UnansweredEarlier(w) == TRUE

(* assertUnanswered, at the moment of sending                              *)
Unanswered(w) == pump[w].re \notin answered

(* The welcome is a courtesy to a chat that is held: without it the rule   *)
(* has still run.                                                          *)
Check(w) ==
  /\ pump[w].pc = "check"
  /\ IF Unanswered(w) THEN Goto(w, "send") /\ UNCHANGED exec
     ELSE IF kind = "riwo" /\ pump[w].key = "reply" THEN Goto(w, "finish") /\ UNCHANGED exec
     ELSE Skip(w)
  /\ UNCHANGED <<hold, texts>> /\ Quiet

Send(w) ==
  /\ pump[w].pc = "send"
  /\ Say(pump[w].re, pump[w].key)
  /\ Goto(w, IF pump[w].then = "done" THEN "finish" ELSE "sent")
  /\ UNCHANGED <<hold, exec>> /\ Quiet

AfterSending(w) ==
  /\ pump[w].pc = "sent"
  /\ hold' = CASE pump[w].then = "told"  -> [hold EXCEPT !.told = TRUE]
               [] pump[w].then = "limit" -> HandOff
               [] pump[w].then = "ask"   -> [hold EXCEPT !.step = hold.known + 1]
  /\ pump' = [pump EXCEPT ![w].pc = "finish", ![w].key = "key", ![w].then = "done"]
  /\ UNCHANGED <<exec, texts>> /\ Quiet

-----------------------------------------------------------------------------
(* handOffToExecutive: the formal text first, then the mark, then the chat *)
(* is released.                                                            *)

Hand(w) ==
  /\ pump[w].pc = "hand"
  /\ IF pump[w].re \in answered THEN Skip(w) ELSE Goto(w, "formal") /\ UNCHANGED exec
  /\ UNCHANGED <<hold, texts>> /\ Quiet

(* Mutant of AfterFormal: a text that is there already ends the hand-off. *)
AfterFormalOnce(n) == IF [re |-> n, key |-> "sales"] \in sent THEN "finish" ELSE "mark"

AfterFormal(n) == "mark"

Formal(w) ==
  /\ pump[w].pc = "formal"
  /\ Say(pump[w].re, "sales")
  /\ Goto(w, AfterFormal(pump[w].re))
  /\ UNCHANGED <<hold, exec>> /\ Quiet

Mark(w) ==
  /\ pump[w].pc = "mark"
  /\ needs' = TRUE
  /\ Goto(w, "release")
  /\ UNCHANGED <<kind, said, answered, asking, rows, texts, cut, faults>>

Release(w) ==
  /\ pump[w].pc = "release"
  /\ hold' = [hold EXCEPT !.st = "handed"]
  /\ Goto(w, "finish")
  /\ UNCHANGED <<exec, texts>> /\ Quiet

-----------------------------------------------------------------------------

(* Mutant of Counts: the row is counted whatever it said. *)
CountsAlways(w) == TRUE

Counts(w) == Exec(w) # "completed"

Finish(w) ==
  /\ pump[w].pc = "finish"
  /\ Becomes(w, "completed")
  /\ IF Counts(w) THEN Goto(w, "count") ELSE After(w, [pump[w] EXCEPT !.replied = TRUE])
  /\ UNCHANGED <<hold, texts>> /\ Quiet

Count(w) ==
  /\ pump[w].pc = "count"
  /\ count' = [count EXCEPT ![pump[w].rule] = @ + 1]
  /\ After(w, [pump[w] EXCEPT !.replied = TRUE])
  /\ UNCHANGED <<kind, said, people, hold, event, exec, texts, cut, faults>>

Close(w) ==
  LET n == pump[w].re
      st == IF ~pump[w].failed THEN "processed"
            ELSE IF pump[w].tries >= Tries - 1 THEN "failed" ELSE "pending"
  IN  /\ pump[w].pc = "close"
      /\ event' = [event EXCEPT ![n] = [st |-> st, tries |-> @.tries + 1]]
      /\ pump' = [pump EXCEPT ![w] = Rest]
      /\ UNCHANGED <<kind, said, people, hold, exec, count, texts, cut, faults>>

(* The process ends, or a statement fails inside the rule.  Which answer   *)
(* the model would give then is open again.                                *)
CutOff(w) ==
  cut' = IF pump[w].pc \in {"mark", "release"} /\ said[pump[w].re] # "price"
         THEN cut \cup {pump[w].re} ELSE cut

Crash(w) ==
  /\ pump[w].pc # "idle" /\ faults < MaxFaults
  /\ pump' = [pump EXCEPT ![w] = Rest]
  /\ CutOff(w) /\ faults' = faults + 1
  /\ UNCHANGED <<kind, said, people, rows, texts>>

StatementFails(w) ==
  /\ pump[w].pc \notin {"idle", "rule", "close", "count"} /\ faults < MaxFaults
  /\ Fail(w)
  /\ CutOff(w) /\ faults' = faults + 1
  /\ UNCHANGED <<kind, said, people, hold, event, count, texts>>

Work(w) ==
  \/ \E n \in Msgs : Take(w, n)
  \/ Consider(w) \/ Begin(w) \/ Turn(w) \/ Unavailable(w)
  \/ Answer(w) \/ AnswerSales(w) \/ Check(w) \/ Send(w) \/ AfterSending(w)
  \/ Hand(w) \/ Formal(w) \/ Mark(w) \/ Release(w) \/ Finish(w) \/ Count(w) \/ Close(w)

Next ==
  \/ \E words \in Words : Receive(words)
  \/ PersonReplies
  \/ \E n \in Msgs : MarkAsked(n) \/ ReleaseAsked(n) \/ AckAsked(n) \/ AskingEnds(n)
  \/ \E w \in Pumps : Work(w) \/ ModelFails(w) \/ Crash(w) \/ StatementFails(w)

(* The timer fires in every process; models answer or time out.            *)
Fairness == \A w \in Pumps : WF_vars(Work(w))

Spec == Init /\ [][Next]_vars /\ Fairness

-----------------------------------------------------------------------------
(* Once a person has answered a message, the rules and Riwo say nothing    *)
(* more to it, however long a model took to think and whatever is retried: *)
(* only a text that was already on its way to the queue comes after.  (The *)
(* acknowledgement of a request for a person is not held back.)            *)
LeavesQuiet ==
  \A n \in quiet, key \in Suffixes \ {"ack"} :
    [re |-> n, key |-> key] \in sent' => [re |-> n, key |-> key] \in sent
NeverTalkedOver == [][LeavesQuiet]_vars

(* A chat that Riwo holds answers a message once, however often the turn   *)
(* is retried, unless it ran in two processes at once or was cut off       *)
(* between promising an executive and releasing the chat.                  *)
AnsweredOnce ==
  \A n \in Msgs \ cut : Cardinality({t \in sent : t.re = n /\ t.key \in {"reply", "ai", "sales"}}) <= 1

(* A rule is never counted for more messages than it has completed.        *)
CountedOnce ==
  \A r \in Rules : count[r] <= Cardinality({n \in Msgs : exec[<<r, n>>] = "completed"})

(* A customer who asked for a price and was promised an executive is put   *)
(* on the team's list and left alone by Riwo, whatever fails in between,   *)
(* unless a person answers first.                                          *)
PromiseKept ==
  \A n \in Msgs :
    ([re |-> n, key |-> "sales"] \in sent /\ said[n] = "price")
      ~> (n \in answered \/ (needs /\ hold.st = "handed"))

=============================================================================
