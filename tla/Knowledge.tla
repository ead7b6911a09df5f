------------------------------ MODULE Knowledge ------------------------------
(***************************************************************************)
(* The company's knowledge base (knowledgeService): people add, refresh    *)
(* and remove websites; every server starts the reads that are due; a read *)
(* is claimed, the site is read, its pages are kept one by one, and when   *)
(* something changed the profile is written anew from all pages.  A page   *)
(* is its version, 0 when there is none; wording and choice of pages       *)
(* (websiteReader) are what a read comes home with: the first page, and    *)
(* any of the others.  A source is a row: a site added after its removal   *)
(* is another source.  Left out: a server's three reads at a time, and     *)
(* the sixty pages a profile is written from at most.                      *)
(***************************************************************************)
EXTENDS Naturals, FiniteSets

CONSTANTS
  Servers,
  Sources,   \* rows of the company's websites, added or yet to be
  Pages,     \* pages a website may have
  Home,      \* the first page
  MaxEdits,  \* bound: changes of the websites
  MaxFaults  \* bound: failed statements, slow reads and crashes

VARIABLES
  site,     \* the websites themselves
  source,   \* knowledge_sources.status
  kept,     \* knowledge_pages
  profile,  \* the pages knowledge_profile was written from
  job,      \* the read of each source on each server, and the owner's removals
  latest,   \* history: the newest look at all pages: held by a job, written, or lost
  edits, faults

vars == <<site, source, kept, profile, job, latest, edits, faults>>

Owner == "owner"  \* a request to remove a source; it writes the profile itself
Actors == Servers \cup {Owner}

None == [p \in Pages |-> 0]
Idle == [pc |-> "idle", got |-> None, before |-> None, todo |-> {}, changed |-> FALSE,
         shared |-> FALSE, of |-> [s \in Sources |-> None]]
Held(w, s) == [is |-> "held", by |-> <<w, s>>]
Is(x) == [is |-> x, by |-> <<>>]

Init ==
  /\ site = [s \in Sources |-> [None EXCEPT ![Home] = 1]]
  /\ source = [s \in Sources |-> "none"]
  /\ kept = [s \in Sources |-> None] /\ profile = [s \in Sources |-> None]
  /\ job = [w \in Actors |-> [s \in Sources |-> Idle]]
  /\ latest = Is("written") /\ edits = 0 /\ faults = 0

Goto(w, s, j) == job' = [job EXCEPT ![w][s] = j]
At(w, s, pc) == job[w][s].pc = pc
Fault == faults < MaxFaults /\ faults' = faults + 1
Removed(s) == source[s] = "gone"

Paging == {"pages", "drop"}
Halfway == Paging \union {"ready", "profile", "write"}
Reading == {"crawl", "before"} \union Paging \union {"ready"}

(* Jobs whose end without a profile leaves the profile behind the pages:   *)
(* they changed some, or another read of the site may have under them, or  *)
(* theirs is the newest look at the pages.                                 *)
Owes(j, s) ==
  \/ j.pc = "profile"
  \/ j.pc \in Paging \union {"ready"} /\ ~Removed(s) /\ (j.changed \/ j.shared)

EndsUnwritten(w, ss) ==
  latest' = IF \E s \in ss : Owes(job[w][s], s) \/ latest = Held(w, s) THEN Is("lost") ELSE latest

-----------------------------------------------------------------------------
(* The websites change.                                                    *)
Edit(s) ==
  /\ edits < MaxEdits /\ edits' = edits + 1
  /\ \E p \in Pages, v \in {0, edits + 2} :
       /\ p = Home => v /= 0
       /\ site[s][p] /= v /\ site' = [site EXCEPT ![s][p] = v]
  /\ UNCHANGED <<source, kept, profile, job, latest, faults>>

-----------------------------------------------------------------------------
(* addSource: a website added again is queued again, also while it is read.*)
AddSource(s) ==
  /\ source[s] \notin {"queued", "gone"}
  /\ source' = [source EXCEPT ![s] = "queued"]
  /\ UNCHANGED <<site, kept, profile, job, latest, edits, faults>>

(* queueRefresh: not while it is read.                                     *)
QueueRefresh(s) ==
  /\ source[s] \in {"ready", "failed"}
  /\ source' = [source EXCEPT ![s] = "queued"]
  /\ UNCHANGED <<site, kept, profile, job, latest, edits, faults>>

(* removeSource: its pages go with it, and the profile is written anew.    *)
RemoveSource(s) ==
  /\ source[s] \notin {"none", "gone"}
  /\ source' = [source EXCEPT ![s] = "gone"]
  /\ kept' = [kept EXCEPT ![s] = None]
  /\ Goto(Owner, s, [Idle EXCEPT !.pc = "profile"])
  /\ UNCHANGED <<site, profile, latest, edits, faults>>

-----------------------------------------------------------------------------
(* pumpKnowledge queues a read of ten minutes again, and starts what is    *)
(* queued or was not read for a day, unless this server is at it;          *)
(* readSource claims it, so it looks again at what the list showed.        *)
Requeue(s) ==
  /\ source[s] = "reading" /\ Fault
  /\ source' = [source EXCEPT ![s] = "queued"]
  /\ UNCHANGED <<site, kept, profile, job, latest, edits>>

Claimable(status) == status \in {"queued", "ready", "failed"}

Claim(w, s) ==
  /\ At(w, s, "idle") /\ Claimable(source[s])
  /\ source' = [source EXCEPT ![s] = "reading"]
  /\ Goto(w, s, [Idle EXCEPT !.pc = "crawl"])
  /\ UNCHANGED <<site, kept, profile, latest, edits, faults>>

Crawl(w, s) ==
  /\ At(w, s, "crawl")
  /\ \E found \in SUBSET Pages :
       /\ Home \in found
       /\ Goto(w, s, [job[w][s] EXCEPT !.pc = "before",
                        !.got = [p \in Pages |-> IF p \in found THEN site[s][p] ELSE 0]])
  /\ UNCHANGED <<site, source, kept, profile, latest, edits, faults>>

(* What is kept is read before it is changed.                              *)
Before(w, s) ==
  LET j      == job[w][s]
      others == {v \in Servers \ {w} : job[v][s].pc \in Paging}
      mine   == [j EXCEPT !.pc = "pages", !.before = kept[s], !.changed = (kept[s] = None),
                          !.shared = (others /= {}), !.todo = {p \in Pages : j.got[p] /= 0}]
  IN
  /\ j.pc = "before"
  /\ job' = [v \in Actors |->
               IF v = w THEN [job[v] EXCEPT ![s] = mine]
               ELSE IF v \in others THEN [job[v] EXCEPT ![s].shared = TRUE] ELSE job[v]]
  /\ UNCHANGED <<site, source, kept, profile, latest, edits, faults>>

Keep(w, s) ==
  LET j == job[w][s] IN
  /\ j.pc = "pages"
  /\ IF j.todo = {} THEN Goto(w, s, [j EXCEPT !.pc = "drop"]) /\ UNCHANGED kept
     ELSE \E p \in j.todo :
            /\ ~Removed(s)
            /\ kept' = [kept EXCEPT ![s][p] = j.got[p]]
            /\ Goto(w, s, [j EXCEPT !.todo = @ \ {p}, !.changed = @ \/ j.before[p] /= j.got[p]])
  /\ UNCHANGED <<site, source, profile, latest, edits, faults>>

(* A page of a source that is gone is refused, and the read ends.          *)
Refused(w, s) ==
  /\ At(w, s, "pages") /\ job[w][s].todo /= {} /\ Removed(s)
  /\ Goto(w, s, Idle)
  /\ UNCHANGED <<site, source, kept, profile, latest, edits, faults>>

Gone(j) == {p \in Pages : j.before[p] /= 0 /\ j.got[p] = 0}

(* Mutant of Changed: pages that went do not count.                        *)
ChangedOnlyNew(j) == j.changed

(* The profile is written again when a page is new, other or gone.         *)
Changed(j) == j.changed \/ Gone(j) /= {}

(* Pages that have gone go too.                                            *)
Drop(w, s) ==
  LET j == job[w][s] IN
  /\ j.pc = "drop"
  /\ kept' = [kept EXCEPT ![s] = [p \in Pages |-> IF p \in Gone(j) THEN 0 ELSE @[p]]]
  /\ Goto(w, s, [Idle EXCEPT !.pc = "ready", !.changed = Changed(j), !.shared = j.shared])
  /\ UNCHANGED <<site, source, profile, latest, edits, faults>>

Told(s, status) == [source EXCEPT ![s] = IF Removed(s) THEN @ ELSE status]

(* The source is ready, before the profile is.                             *)
Ready(w, s) ==
  LET j == job[w][s] IN
  /\ j.pc = "ready"
  /\ source' = Told(s, "ready")
  /\ IF j.changed THEN Goto(w, s, [Idle EXCEPT !.pc = "profile"]) /\ UNCHANGED latest
     ELSE Goto(w, s, Idle) /\ EndsUnwritten(w, {s})
  /\ UNCHANGED <<site, kept, profile, edits, faults>>

(* rebuildProfile: the pages of all sources are read, then Riwo writes.    *)
Rebuild(w, s) ==
  /\ At(w, s, "profile")
  /\ Goto(w, s, [Idle EXCEPT !.pc = "write", !.of = kept])
  /\ latest' = Held(w, s)
  /\ UNCHANGED <<site, source, kept, profile, edits, faults>>

Written(w, s) ==
  /\ At(w, s, "write")
  /\ profile' = job[w][s].of
  /\ latest' = CASE latest = Held(w, s) -> Is("written")
                 [] latest.is = "written" -> Is("lost")  \* it was newer
                 [] OTHER -> latest
  /\ Goto(w, s, Idle)
  /\ UNCHANGED <<site, source, kept, edits, faults>>

(* Any statement of a read or of a removal fails.  A read says so, if it   *)
(* can; a removal does not.                                                *)
Fails(w, s) ==
  /\ job[w][s].pc \in Reading \union Halfway /\ Fault
  /\ \/ source' = Told(s, "failed") /\ w /= Owner
     \/ UNCHANGED source
  /\ Goto(w, s, Idle) /\ EndsUnwritten(w, {s})
  /\ UNCHANGED <<site, kept, profile, edits>>

(* A server dies: its reads are lost, whatever they had kept.              *)
Crash(w) ==
  /\ Fault /\ \E s \in Sources : ~At(w, s, "idle")
  /\ job' = [job EXCEPT ![w] = [s \in Sources |-> Idle]]
  /\ EndsUnwritten(w, Sources)
  /\ UNCHANGED <<site, source, kept, profile, edits>>

Work(w, s) ==
  \/ Crawl(w, s) \/ Before(w, s) \/ Keep(w, s) \/ Refused(w, s) \/ Drop(w, s)
  \/ Ready(w, s) \/ Rebuild(w, s) \/ Written(w, s) \/ Fails(w, s)

Next ==
  \/ \E s \in Sources : Edit(s) \/ Requeue(s) \/ AddSource(s) \/ QueueRefresh(s) \/ RemoveSource(s)
  \/ \E w \in Servers, s \in Sources : Claim(w, s)
  \/ \E w \in Actors : Crash(w) \/ \E s \in Sources : Work(w, s)

Spec == Init /\ [][Next]_vars

-----------------------------------------------------------------------------
TypeOK ==
  /\ \A s \in Sources : source[s] \in {"none", "queued", "reading", "ready", "failed", "gone"}
  /\ site \in [Sources -> [Pages -> Nat]] /\ kept \in [Sources -> [Pages -> Nat]]
  /\ profile \in [Sources -> [Pages -> Nat]] /\ latest.is \in {"held", "written", "lost"}
  /\ \A w \in Actors, s \in Sources :
       job[w][s].pc \in {"idle"} \union Reading \union Halfway

Resting == \A w \in Actors, s \in Sources : job[w][s].pc \notin Halfway

(* Riwo answers from the pages that are kept, none that was taken down or  *)
(* removed: whenever nobody has pages or the profile in hand, the profile  *)
(* is written from them, however reads, refreshes and removals overlapped, *)
(* unless since the newest look at all the pages one that had to write the *)
(* profile broke off, a read found nothing new although another had the    *)
(* site in hand, or an older look was written over a newer one.            *)
ProfileIsCurrent == Resting => latest.is = "lost" \/ profile = kept

(* "Claims it first, so two servers never read the same one": not when a   *)
(* read took ten minutes, or the website was added again meanwhile.        *)
OneReader ==
  \A s \in Sources, v, w \in Servers :
    {job[v][s].pc, job[w][s].pc} \subseteq Reading => v = w

(* A changed website changes what Riwo knows without anyone pressing a     *)
(* button; a read that was interrupted is picked up again.                 *)
ProfileFollows ==
  (Resting /\ \A s \in Sources : source[s] = "ready" /\ kept[s] = site[s]) => profile = kept
=============================================================================
