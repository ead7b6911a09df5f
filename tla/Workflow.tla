--------------------------------- MODULE Workflow ---------------------------------
(***************************************************************************)
(* A workflow running in one chat (services/workflow/executor.js, with     *)
(* automation_chats of autoChat.js and pumpAutomations).                   *)
(*                                                                         *)
(* For each message of the customer it is worked out once what to do, and  *)
(* written down with the chat; each thing is done and counted; only then   *)
(* is the place in the flow saved.  What failed is tried again, from what  *)
(* is written down, if that is still the plan of the same message.         *)
(*                                                                         *)
(* The first part is the workflow as data, and the pure decisions made     *)
(* about it: what is accepted (cleanWorkflow of workflow/schema.js) and    *)
(* what a chat does next (run, begin and resume of workflow/core.js).  A   *)
(* draft has steps 1..N; a step has a type and the steps it can go to, 0   *)
(* for one that is missing.  An ask goes to one step for each answer and,  *)
(* last, to the one for an answer that is not understood.  What a branch   *)
(* looks at and what a model reads in an answer are inputs here (way,      *)
(* choice), and words are the steps they come from.  "tell" stands for     *)
(* notify, assign, lead and task: steps that reach the team.               *)
(*                                                                         *)
(* One process works on the chat.  Left out: the limit of texts an hour,   *)
(* the look at who has answered between deciding to say something and      *)
(* saying it (see Assistant), time limits of a held chat.                  *)
(***************************************************************************)
EXTENDS Naturals, Sequences, FiniteSets

CONSTANTS
  N,         \* steps of a draft
  MaxMsgs,   \* bound: messages of the customer
  Tries,     \* attempts of an event
  MaxFaults  \* bound: processes that end, steps that fail

Types == {"say", "label", "tell", "branch", "ask", "collect", "meeting", "agent", "handoff", "end"}

EndId == N + 1
UnclearId == N + 2
Steps == 1..UnclearId

Terminal == {"agent", "handoff", "end"}
Forks == {"ask", "branch"}
Nodes == [type : Forks, go : (0..N) \X (0..N)]
         \cup [type : Types \ (Terminal \cup Forks), go : {<<v>> : v \in 0..N}]
         \cup [type : Terminal, go : {<<>>}]

Drafts == [1..N -> Nodes]

-----------------------------------------------------------------------------
(* cleanWorkflow: an answer nobody planned for goes to a person, any other *)
(* step that leads nowhere finishes the chat.                              *)

Filled(n) ==
  [n EXCEPT !.go = [i \in DOMAIN @ |->
     IF @[i] # 0 THEN @[i] ELSE IF n.type = "ask" THEN UnclearId ELSE EndId]]

Complete(d) ==
  [s \in Steps |-> CASE s \in 1..N      -> Filled(d[s])
                     [] s = EndId       -> [type |-> "end", go |-> <<>>]
                     [] s = UnclearId   -> [type |-> "handoff", go |-> <<>>]]

(* Mutant of Edges: the way out of an answer not understood is forgotten. *)
EdgesUnderstood(n) == {n.go[i] : i \in 1..(IF n.type = "ask" THEN 1 ELSE Len(n.go))}

(* edgesOf *)
Edges(n) == {n.go[i] : i \in DOMAIN n.go}

(* The steps that can follow s, after any number of steps: those in every  *)
(* set that holds what follows s, and what follows each of its own.        *)
Closed(flow, S) == \A t \in S : Edges(flow[t]) \subseteq S

Later(flow, s) ==
  {t \in Steps : \A S \in SUBSET Steps : Edges(flow[s]) \subseteq S /\ Closed(flow, S) => t \in S}

(* A flow that goes in a circle is refused.                                *)
Accepted(flow) == \A s \in {1} \cup Later(flow, 1) : s \notin Later(flow, s)

(* Steps nothing leads to are dropped.                                     *)
Reached(flow) == [s \in Steps |-> IF s \in {1} \cup Later(flow, 1) THEN flow[s] ELSE [type |-> "end", go |-> <<>>]]

Clean(d) == LET flow == Complete(d) IN IF Accepted(flow) THEN {Reached(flow)} ELSE {}

Flows == UNION {Clean(d) : d \in Drafts}

-----------------------------------------------------------------------------
(* run: from a step until the chat waits for the customer, hands over or   *)
(* ends.  said and told are the markers kept with the place of the chat.   *)

Waits == {"ask", "collect", "meeting"}
Stops == Waits \cup Terminal

After(n, way) == IF n.type = "branch" THEN n.go[way] ELSE n.go[1]

(* Two messages in a row are one message.                                  *)
Say(actions, s, disclose) ==
  IF actions # <<>> /\ actions[Len(actions)].do = "say"
  THEN [actions EXCEPT ![Len(actions)].of = @ \cup {s}, ![Len(actions)].disclose = @ \/ disclose]
  ELSE Append(actions, [do |-> "say", of |-> {s}, disclose |-> disclose])

Do(actions, do, s) == Append(actions, [do |-> do, of |-> {s}, disclose |-> FALSE])

(* Mutant of Closing: a flow that told nobody ends without a word. *)
ClosingSilently(actions, s, told) == Do(actions, "end", s)

(* The end: a flow that finished without anyone being told is not left     *)
(* silent.                                                                 *)
Closing(actions, s, told) == Do(IF told THEN actions ELSE Do(actions, "tell", s), "end", s)

(* Mutant of Discloses: only a flow that begins says who is writing. *)
DisclosesAtStart(s, said) == s = 1

(* The first thing the flow ever says carries the line that a machine is   *)
(* writing.                                                                *)
Discloses(s, said) == ~said

(* What a step adds to what is to be done.  at is the step it has come to. *)
Visit(flow, walk) ==
  LET s == walk.at
      t == flow[s].type
  IN  CASE t \in {"say"} \cup Waits ->
             [walk EXCEPT !.actions = Say(@, s, Discloses(s, walk.said)), !.said = TRUE]
        [] t = "label"   -> [walk EXCEPT !.actions = Do(@, "label", s)]
        [] t = "tell"    -> [walk EXCEPT !.actions = Do(@, "tell", s), !.told = TRUE]
        [] t = "branch"  -> walk
        [] t = "agent"   -> [walk EXCEPT !.told = TRUE]
        [] t = "handoff" -> [walk EXCEPT !.actions = Do(@, "handoff", s), !.told = TRUE]
        [] t = "end"     -> [walk EXCEPT !.actions = Closing(@, s, walk.told), !.told = TRUE]

(* One step of the loop; at a step to stop at it goes no further.          *)
Onto(flow, walk, way) ==
  IF flow[walk.at].type \in Stops THEN walk
  ELSE [Visit(flow, walk) EXCEPT !.at = After(flow[walk.at], way)]

Walk(flow, first, way) ==
  LET walk[k \in Nat] == IF k = 0 THEN first ELSE Onto(flow, walk[k - 1], way)
  IN  walk[Cardinality(Steps)]

(* actions: what is to be done before.                                     *)
Run(flow, from, actions, said, told, way) ==
  LET first == [at |-> from, actions |-> actions, said |-> said, told |-> told]
      stop == Walk(flow, first, way)
      all == Visit(flow, stop)
      type == flow[stop.at].type
      done == type \notin Waits \cup {"agent"}
  IN  [actions |-> all.actions, said |-> all.said, told |-> all.told, attempts |-> 0,
       node |-> IF done THEN 0 ELSE stop.at, done |-> done, agent |-> type = "agent"]

Begin(flow, place, way) == Run(flow, 1, <<>>, place.said, place.told, way)

(* The customer is thanked and the team told before anything the flow does *)
(* next; a text that follows the confirmation joins it.                    *)
Meeting(flow, place, way) ==
  LET mine == Say(Do(<<>>, "tell", place.node), place.node, FALSE)
  IN  Run(flow, flow[place.node].go[1], mine, place.said, TRUE, way)

(* Mutant of AskAgain: one time more. *)
AskAgainTwice(place) == place.attempts <= 1

(* Not understood: one more try with the answers spelled out.              *)
AskAgain(place) == place.attempts < 1

(* choice: the answer that was understood, or the last way out.            *)
Resume(flow, place, choice, way) ==
  LET n == flow[place.node]
      unsure == n.type = "ask" /\ choice = Len(n.go)
  IN  CASE unsure /\ AskAgain(place) ->
             [actions |-> <<[do |-> "say", of |-> {place.node}, disclose |-> FALSE]>>,
              said |-> place.said, told |-> place.told, attempts |-> place.attempts + 1,
              node |-> place.node, done |-> FALSE, agent |-> FALSE]
        [] n.type = "ask" /\ ~(unsure /\ AskAgain(place)) ->
             Run(flow, n.go[choice], <<>>, place.said, place.told, way)
        [] n.type = "collect" -> Run(flow, n.go[1], <<>>, place.said, place.told, way)
        [] n.type = "meeting" -> Meeting(flow, place, way)
        [] n.type = "agent"   ->
             [actions |-> <<>>, said |-> place.said, told |-> place.told, attempts |-> place.attempts,
              node |-> place.node, done |-> FALSE, agent |-> TRUE]

-----------------------------------------------------------------------------
VARIABLES
  flow,      \* the saved workflow
  said,      \* messages so far
  answered,  \* messages after which a person has written
  chat,      \* automation_chats
  event,     \* outbox_events, automation.incoming
  exec,      \* automation_executions
  texts,     \* what the flow has sent, in order, with the keys
  told,      \* how often each step has reached the team
  cut,       \* a step was done and the turn broke off before it was counted
  redone,    \* a message was planned while an earlier one was still to be tried again
  pump, faults

history == <<cut, redone>>
vars == <<flow, said, answered, chat, event, exec, texts, told, history, pump, faults>>

Msgs == 1..MaxMsgs
NoPlan == [actions |-> <<>>, said |-> FALSE, told |-> FALSE, attempts |-> 0,
           node |-> 0, done |-> FALSE, agent |-> FALSE]
NoRun == [exec |-> 0, plan |-> NoPlan, applied |-> 0]
Rest == [pc |-> "idle", re |-> 0, tries |-> 0, mode |-> "start", run |-> NoRun]

Kept == {"none", "active", "handed"}
Execs == {"none", "pending", "failed", "skipped", "completed"}

TypeOK ==
  /\ said \in 0..MaxMsgs /\ answered \subseteq 1..said
  /\ chat.st \in Kept /\ chat.start \in 0..MaxMsgs
  /\ chat.node \in 0..UnclearId /\ (chat.node # 0 => flow[chat.node].type \in Waits \cup {"agent"})
  /\ chat.attempts \in 0..1 /\ chat.run.exec \in 0..MaxMsgs
  /\ chat.run.applied \in 0..Len(chat.run.plan.actions)
  /\ event \in [Msgs -> [st : {"none", "pending", "processed", "failed"}, tries : 0..Tries]]
  /\ exec \in [Msgs -> Execs]
  /\ told \in [Steps -> Nat] /\ cut \in BOOLEAN /\ redone \in BOOLEAN
  /\ faults \in 0..MaxFaults

Init ==
  /\ flow \in Flows
  /\ said = 0 /\ answered = {}
  /\ chat = [st |-> "none", start |-> 0, node |-> 0, attempts |-> 0,
             said |-> FALSE, told |-> FALSE, run |-> NoRun]
  /\ event = [n \in Msgs |-> [st |-> "none", tries |-> 0]]
  /\ exec = [n \in Msgs |-> "none"]
  /\ texts = <<>> /\ told = [s \in Steps |-> 0] /\ cut = FALSE
  /\ redone = FALSE
  /\ pump = Rest /\ faults = 0

Receive ==
  /\ said < MaxMsgs
  /\ said' = said + 1
  /\ event' = [event EXCEPT ![said + 1].st = "pending"]
  /\ UNCHANGED <<flow, answered, chat, exec, texts, told, history, pump, faults>>

PersonReplies ==
  /\ answered # 1..said
  /\ answered' = 1..said
  /\ UNCHANGED <<flow, said, chat, event, exec, texts, told, history, pump, faults>>

-----------------------------------------------------------------------------
(* pumpAutomations                                                         *)

Quiet == UNCHANGED <<flow, said, answered, event, faults>>
Goto(pc) == pump' = [pump EXCEPT !.pc = pc]

Take(n) ==
  /\ pump.pc = "idle" /\ event[n].st = "pending"
  /\ pump' = [Rest EXCEPT !.pc = "rule", !.re = n, !.tries = event[n].tries]
  /\ UNCHANGED <<chat, exec, texts, told, history>> /\ Quiet

(* workflowBegins: here, with the first message of a customer.             *)
Begins(n) == chat.st = "none" /\ n = 1

(* autoChatMode                                                            *)
Mode(n) ==
  CASE chat.start = n -> "start"
    [] chat.start # n /\ chat.st = "active" -> IF chat.start \in answered THEN "release" ELSE "continue"
    [] chat.start # n /\ chat.st # "active" -> IF Begins(n) THEN "start" ELSE "none"

Close(st, failed) ==
  LET n == pump.re
      over == pump.tries >= Tries - 1
  IN  /\ exec' = [exec EXCEPT ![n] = IF @ = "completed" THEN @ ELSE st]
      /\ event' = [event EXCEPT ![n] =
           [st |-> IF ~failed THEN "processed" ELSE IF over THEN "failed" ELSE "pending",
            tries |-> pump.tries + 1]]
      /\ pump' = Rest
      /\ UNCHANGED <<flow, said, answered>>

Rule ==
  LET n == pump.re
  IN  /\ pump.pc = "rule"
      /\ \/ /\ Mode(n) = "none" \/ exec[n] \in {"completed", "skipped"}
            /\ Close(exec[n], FALSE) /\ UNCHANGED chat
         \/ /\ Mode(n) = "release" /\ exec[n] \notin {"completed", "skipped"}
            /\ chat' = [chat EXCEPT !.st = "handed"]
            /\ Close(exec[n], FALSE)
         \/ /\ Mode(n) = "start" /\ exec[n] \notin {"completed", "skipped"} /\ n \in answered
            /\ Close("skipped", FALSE) /\ UNCHANGED chat
         \/ /\ Mode(n) \in {"start", "continue"} /\ exec[n] \notin {"completed", "skipped"}
            /\ Mode(n) = "start" => n \notin answered
            /\ chat' = IF Mode(n) = "start" /\ chat.start # n
                       THEN [chat EXCEPT !.st = "active", !.start = n] ELSE chat
            /\ exec' = [exec EXCEPT ![n] = "pending"]
            /\ pump' = [pump EXCEPT !.pc = "plan", !.mode = Mode(n)]
            /\ UNCHANGED <<flow, said, answered, event>>
      /\ UNCHANGED <<texts, told, history, faults>>

-----------------------------------------------------------------------------
(* runWorkflow                                                             *)

(* What to do has been written down for this message.                      *)
Written(n) == chat.run.exec = n

(* classifyAnswer: an answer is understood as the first option or not.     *)
Readings == 1..2

Plans(n) ==
  LET place == [node |-> chat.node, attempts |-> chat.attempts, said |-> chat.said, told |-> chat.told]
  IN  IF pump.mode = "start" \/ chat.node = 0 THEN {Begin(flow, place, way) : way \in 1..2}
      ELSE {Resume(flow, place, choice, way) : choice \in Readings, way \in 1..2}

(* What is written down is the plan of a message still being handled, or   *)
(* the flow begins with another message than the first.                    *)
OutOfTurn(n) ==
  \/ chat.run.exec \notin {0, n} /\ exec[chat.run.exec] # "completed"
  \/ pump.mode = "continue" /\ chat.node = 0

Plan ==
  LET n == pump.re
  IN  /\ pump.pc = "plan"
      /\ \/ /\ chat.st # "active"
            /\ Close("skipped", FALSE) /\ UNCHANGED <<chat, redone>>
         \/ /\ chat.st = "active" /\ Written(n)
            /\ pump' = [pump EXCEPT !.pc = "do", !.run = chat.run]
            /\ UNCHANGED <<chat, exec, redone>> /\ UNCHANGED <<flow, said, answered, event>>
         \/ /\ chat.st = "active" /\ ~Written(n) /\ n \in answered
            /\ Close("skipped", FALSE) /\ UNCHANGED <<chat, redone>>
         \/ /\ chat.st = "active" /\ ~Written(n) /\ n \notin answered
            /\ \E plan \in Plans(n) :
                 LET run == [exec |-> n, plan |-> plan, applied |-> 0]
                 IN  /\ chat' = [chat EXCEPT !.run = run]
                     /\ pump' = [pump EXCEPT !.pc = "do", !.run = run]
            /\ redone' = (redone \/ OutOfTurn(n))
            /\ UNCHANGED exec /\ UNCHANGED <<flow, said, answered, event>>
      /\ UNCHANGED <<texts, told, cut, faults>>

Action == pump.run.plan.actions[pump.run.applied + 1]
Key == <<pump.re, pump.run.applied + 1>>
HasKey(key) == \E i \in DOMAIN texts : texts[i].key = key

(* apply.  A text with a key that was used is not sent again; a hand-off   *)
(* and the end release the chat.                                           *)
Apply ==
  /\ pump.pc = "do" /\ pump.run.applied < Len(pump.run.plan.actions)
  /\ \/ /\ Action.do = "say" /\ pump.re \in answered
        /\ Close("skipped", FALSE) /\ UNCHANGED <<chat, texts, told>>
     \/ /\ Action.do = "say" /\ pump.re \notin answered
        /\ texts' = IF HasKey(Key) THEN texts
                    ELSE Append(texts, [key |-> Key, of |-> Action.of, disclose |-> Action.disclose])
        /\ Goto("count") /\ UNCHANGED <<chat, told, exec, event>>
     \/ /\ Action.do = "label"
        /\ Goto("count") /\ UNCHANGED <<chat, texts, told, exec, event>>
     \/ /\ Action.do = "tell"
        /\ \E s \in Action.of : told' = [told EXCEPT ![s] = @ + 1]
        /\ Goto("count") /\ UNCHANGED <<chat, texts, exec, event>>
     \/ /\ Action.do = "handoff" /\ pump.re \in answered
        /\ Close("skipped", FALSE) /\ UNCHANGED <<chat, texts, told>>
     \/ /\ Action.do = "handoff" /\ pump.re \notin answered
        /\ \E s \in Action.of :
             /\ told' = [told EXCEPT ![s] = @ + 1]
             /\ texts' = IF HasKey(<<pump.re, 0>>) THEN texts
                         ELSE Append(texts, [key |-> <<pump.re, 0>>, of |-> {s}, disclose |-> TRUE])
        /\ chat' = [chat EXCEPT !.st = "handed"]
        /\ Goto("count") /\ UNCHANGED <<exec, event>>
     \/ /\ Action.do = "end"
        /\ chat' = [chat EXCEPT !.st = "handed"]
        /\ Goto("count") /\ UNCHANGED <<texts, told, exec, event>>
  /\ UNCHANGED <<flow, said, answered, history, faults>>

(* Mutant of Counted: what has been done is not written down. *)
CountedLater == chat

(* vars._run.applied                                                       *)
Counted == [chat EXCEPT !.run.applied = pump.run.applied + 1]

Count ==
  /\ pump.pc = "count"
  /\ chat' = Counted
  /\ pump' = [pump EXCEPT !.pc = "do", !.run.applied = @ + 1]
  /\ UNCHANGED <<exec, texts, told, history>> /\ Quiet

(* Everything is done: the place is saved, unless the chat has been let    *)
(* go.  At a step where Riwo talks its turn comes next.                    *)
SavePlace ==
  LET plan == pump.run.plan
  IN  /\ pump.pc = "do" /\ pump.run.applied = Len(plan.actions)
      /\ chat' = CASE plan.done -> [chat EXCEPT !.run = pump.run, !.said = plan.said, !.told = plan.told]
                   [] ~plan.done /\ chat.st = "active" ->
                        [chat EXCEPT !.node = plan.node, !.attempts = plan.attempts,
                                     !.run = pump.run, !.said = plan.said, !.told = plan.told]
                   [] ~plan.done /\ chat.st # "active" -> chat
      /\ Goto(IF plan.agent THEN "agent" ELSE "finish")
      /\ UNCHANGED <<exec, texts, told, history>> /\ Quiet

(* runAutoChatTurn: an answer, or a person takes over.                     *)
Agent ==
  LET n == pump.re
      key == <<n, MaxMsgs + 1>>
  IN  /\ pump.pc = "agent"
      /\ \/ /\ chat.st # "active" \/ (n \in answered /\ ~HasKey(key))
            /\ chat' = [chat EXCEPT !.st = "handed"]
            /\ Close("skipped", FALSE) /\ UNCHANGED <<texts, told>>
         \/ /\ chat.st = "active" /\ HasKey(key)
            /\ Goto("finish") /\ UNCHANGED <<chat, texts, told, exec, event>>
         \/ /\ chat.st = "active" /\ n \notin answered /\ ~HasKey(key)
            /\ texts' = Append(texts, [key |-> key, of |-> {pump.run.plan.node}, disclose |-> TRUE])
            /\ Goto("finish") /\ UNCHANGED <<chat, told, exec, event>>
         \/ /\ chat.st = "active" /\ n \notin answered /\ ~HasKey(key)
            /\ texts' = IF HasKey(<<n, 0>>) THEN texts
                        ELSE Append(texts, [key |-> <<n, 0>>, of |-> {pump.run.plan.node}, disclose |-> TRUE])
            /\ told' = [told EXCEPT ![pump.run.plan.node] = @ + 1]
            /\ chat' = [chat EXCEPT !.st = "handed"]
            /\ Goto("finish") /\ UNCHANGED <<exec, event>>
      /\ UNCHANGED <<flow, said, answered, history, faults>>

Finish ==
  /\ pump.pc = "finish"
  /\ Close("completed", FALSE)
  /\ UNCHANGED <<chat, texts, told, history, faults>>

(* A step fails (the network, a teammate who has left), or its count does: *)
(* the turn is tried again.                                                *)
StepFails ==
  /\ pump.pc \in {"plan", "do", "count", "agent", "finish"} /\ faults < MaxFaults
  /\ Close("failed", TRUE) /\ faults' = faults + 1
  /\ cut' = (cut \/ pump.pc = "count")
  /\ UNCHANGED <<chat, texts, told, redone>>

(* The process ends.  The event is still pending.                          *)
Crash ==
  /\ pump.pc # "idle" /\ faults < MaxFaults
  /\ pump' = Rest /\ faults' = faults + 1
  /\ cut' = (cut \/ pump.pc = "count")
  /\ UNCHANGED <<flow, said, answered, chat, event, exec, texts, told, redone>>

Work ==
  \/ \E n \in Msgs : Take(n)
  \/ Rule \/ Plan \/ Apply \/ Count \/ SavePlace \/ Agent \/ Finish

Next == Receive \/ PersonReplies \/ Work \/ StepFails \/ Crash

Spec == Init /\ [][Next]_vars

-----------------------------------------------------------------------------
(* The first thing a customer ever hears from the flow says that a machine *)
(* is writing and how to reach a person, whatever was tried again and      *)
(* whichever path the chat took.                                           *)
FirstIsDisclosed == texts # <<>> => texts[1].disclose

(* A flow that has ended in a chat has reached the team, on every path:    *)
(* nobody who wrote is left with a silent ending.                          *)
NobodyMissed ==
  (chat.st = "handed" /\ chat.run.plan.done /\ chat.run.exec # 0 /\ ~redone
     /\ chat.run.applied = Len(chat.run.plan.actions))
    => \E s \in Steps : told[s] > 0

(* The chat's place only moves forward in the flow when a message is       *)
(* answered: a question is asked again at most once, and a chat cannot be  *)
(* led in a circle.                                                        *)
Onward ==
  [][(pump.pc = "do" /\ pump.mode = "continue" /\ chat.node # 0 /\ chat'.node # chat.node)
       => chat'.node \in Later(flow, chat.node)]_vars

(* A turn that is tried again carries on after what was done: a step       *)
(* reaches the team once, unless the turn broke off between the step and   *)
(* its count (the process ended, or the count failed), or the plan of a    *)
(* later message had taken the place of this one's.                        *)
OncePerTurn == ~cut /\ ~redone => \A s \in Steps : told[s] <= 1

(* The same for a chat in which the customer writes again before the turn  *)
(* is tried again.                                                         *)
FollowUpOnce == ~cut => \A s \in Steps : told[s] <= 1

=============================================================================
