------------------------------- MODULE Media --------------------------------
(***************************************************************************)
(* Files of messages (mediaFetchService): fetched from WhatsApp when one   *)
(* is opened, or for a whole chat batch by batch, and kept by the event of *)
(* a new message (messageService).  Downloads under way and the lane of a  *)
(* number live in each server.  A message is its place in the chat, newest *)
(* highest; one chat on one number.                                        *)
(***************************************************************************)
EXTENDS Naturals, Sequences, FiniteSets

CONSTANTS
  Servers,
  Stored,     \* messages of the chat that have no file yet
  Messages,   \* \union those that may still arrive
  Size,       \* limit of a batch
  MaxOpens,   \* bound: files opened one by one
  MaxFaults   \* bound: files that cannot be loaded

VARIABLES
  known,   \* messages in the database
  files,   \* ready attachments of each message
  live,    \* messages whose event is keeping the file
  load,    \* inflight: where each download is
  lane,    \* lanes: the downloads of the number, first one under way
  chain,   \* a browser that loads batch after batch
  opens, faults

vars == <<known, files, live, load, lane, chain, opens, faults>>

(* The rows of a batch are read newest first.                              *)
Newest(S) == CHOOSE m \in S : \A n \in S : n <= m

All == Stored \union Messages
End == Newest(All) + 1
NoChain == [pc |-> "idle", server |-> "none", before |-> 0, todo |-> {}, more |-> FALSE,
            wanted |-> {}, failed |-> {}, tries |-> [m \in All |-> 0]]

Init ==
  /\ known = Stored
  /\ files = [m \in All |-> 0]
  /\ live = {}
  /\ load = [s \in Servers |-> [m \in All |-> "none"]]
  /\ lane = [s \in Servers |-> <<>>]
  /\ chain = NoChain
  /\ opens = 0 /\ faults = 0

-----------------------------------------------------------------------------
(* handleIncomingMessage: the row is there before its file.                *)
Arrives(m) ==
  /\ m \in Messages \ known /\ known' = known \union {m}
  /\ live' \in {live, live \union {m}}
  /\ UNCHANGED <<files, load, lane, chain, faults, opens>>

LiveKeeps(m) ==
  /\ m \in live /\ live' = live \ {m}
  /\ files' = [files EXCEPT ![m] = @ + 1]
  /\ UNCHANGED <<known, load, lane, chain, faults, opens>>

LiveFails(m) ==
  /\ m \in live /\ live' = live \ {m}
  /\ faults < MaxFaults /\ faults' = faults + 1
  /\ UNCHANGED <<known, files, load, lane, chain, opens>>

-----------------------------------------------------------------------------
(* Where the next batch goes on: below the last file that was tried.       *)
(* Mutant of Below: below the first one left over.                         *)
BelowNext(c, m) == IF c.more THEN m - 1 ELSE m

Below(c, m) == m

(* fetchPendingMedia goes on to its next file, or its answer is given and  *)
(* the browser asks for the next batch.                                    *)
Next1(c, m) ==
  [c EXCEPT !.pc = IF c.todo /= {m} THEN "each" ELSE IF c.more THEN "batch" ELSE "end",
            !.todo = @ \ {m}, !.before = Below(c, m)]

(* run ends, for everybody who waits for it.  A number that is offline     *)
(* stops the batches.                                                      *)
Ends(s, m, how) ==
  /\ load' = [load EXCEPT ![s][m] = "none"]
  /\ chain' = IF chain.pc /= "wait" \/ chain.server /= s \/ Newest(chain.todo) /= m THEN chain
              ELSE CASE how = "ok"   -> Next1(chain, m)
                     [] how = "gone" -> Next1([chain EXCEPT !.failed = @ \union {m}], m)
                     [] OTHER        -> [chain EXCEPT !.pc = "stopped"]

(* fetchMessageMedia: who opens a file that is being loaded shares it.     *)
Open(s, m) ==
  /\ m \in known /\ load[s][m] = "none"
  /\ opens < MaxOpens /\ opens' = opens + 1
  /\ load' = [load EXCEPT ![s][m] = "look"]
  /\ UNCHANGED <<known, files, live, lane, chain, faults>>

Saved(s, m) ==
  /\ load[s][m] = "look" /\ files[m] > 0
  /\ Ends(s, m, "ok")
  /\ UNCHANGED <<known, files, live, lane, faults, opens>>

(* inLane: one download at a time for a number.                            *)
Lines(s, m) ==
  /\ load[s][m] = "look" /\ files[m] = 0
  /\ load' = [load EXCEPT ![s][m] = "lane"]
  /\ lane' = [lane EXCEPT ![s] = Append(@, m)]
  /\ UNCHANGED <<known, files, live, chain, faults, opens>>

Turn(s, m) == load[s][m] = "lane" /\ lane[s] /= <<>> /\ Head(lane[s]) = m

Fetched(s, m) ==
  /\ Turn(s, m) /\ lane' = [lane EXCEPT ![s] = Tail(@)]
  /\ load' = [load EXCEPT ![s][m] = "store"]
  /\ UNCHANGED <<known, files, live, chain, faults, opens>>

(* fetchMedia: the number is offline, or WhatsApp has the file no longer.  *)
FetchFails(s, m) ==
  /\ Turn(s, m) /\ lane' = [lane EXCEPT ![s] = Tail(@)]
  /\ faults < MaxFaults /\ faults' = faults + 1
  /\ \E how \in {"gone", "offline"} : Ends(s, m, how)
  /\ UNCHANGED <<known, files, live, opens>>

(* It is no file of a kind that is kept, or storage does not take it.      *)
StoreFails(s, m) ==
  /\ load[s][m] = "store" /\ faults < MaxFaults /\ faults' = faults + 1
  /\ Ends(s, m, "gone")
  /\ UNCHANGED <<known, files, live, lane, opens>>

(* The row is written unless one is seen: the statement reads, then adds.  *)
Inserts(s, m) ==
  /\ load[s][m] = "store"
  /\ IF files[m] > 0 THEN Ends(s, m, "ok")
     ELSE load' = [load EXCEPT ![s][m] = "insert"] /\ UNCHANGED chain
  /\ UNCHANGED <<known, files, live, lane, faults, opens>>

Inserted(s, m) ==
  /\ load[s][m] = "insert"
  /\ files' = [files EXCEPT ![m] = @ + 1]
  /\ Ends(s, m, "ok")
  /\ UNCHANGED <<known, live, lane, faults, opens>>

-----------------------------------------------------------------------------
Pending == {m \in known : files[m] = 0}

Begins ==
  /\ chain.pc = "idle"
  /\ chain' = [NoChain EXCEPT !.pc = "batch", !.before = End, !.wanted = Pending]
  /\ UNCHANGED <<known, files, live, load, lane, faults, opens>>

(* fetchPendingMedia reads the newest below the cursor, one more than it   *)
(* loads.                                                                  *)
Batch(s) ==
  LET below == {m \in Pending : m < chain.before}
      todo  == {m \in below : Cardinality({n \in below : n > m}) < Size}
  IN  /\ chain.pc = "batch"
      /\ chain' = [chain EXCEPT !.server = s, !.todo = todo, !.more = Cardinality(below) > Size,
                                !.pc = IF todo = {} THEN "end" ELSE "each"]
      /\ UNCHANGED <<known, files, live, load, lane, faults, opens>>

Each ==
  LET m == Newest(chain.todo)
      s == chain.server
  IN  /\ chain.pc = "each"
      /\ chain' = [chain EXCEPT !.pc = "wait", !.tries[m] = @ + 1]
      /\ load' = IF load[s][m] = "none" THEN [load EXCEPT ![s][m] = "look"] ELSE load
      /\ UNCHANGED <<known, files, live, lane, faults, opens>>

Next ==
  \/ \E m \in All : Arrives(m) \/ LiveKeeps(m) \/ LiveFails(m)
  \/ \E s \in Servers, m \in All :
       \/ Open(s, m) \/ Saved(s, m) \/ Lines(s, m) \/ Fetched(s, m) \/ FetchFails(s, m)
       \/ StoreFails(s, m) \/ Inserts(s, m) \/ Inserted(s, m)
  \/ Begins \/ Each \/ \E s \in Servers : Batch(s)

Spec == Init /\ [][Next]_vars

-----------------------------------------------------------------------------
TypeOK ==
  /\ known \subseteq All /\ live \subseteq known
  /\ files \in [All -> Nat]
  /\ load \in [Servers -> [All -> {"none", "look", "lane", "store", "insert"}]]
  /\ \A s \in Servers : lane[s] \in Seq(known)
  /\ chain.pc \in {"idle", "batch", "each", "wait", "end", "stopped"}

(* Loading a chat's files batch after batch asks for none twice, however   *)
(* it failed, and passes over none: each file missing at the start is kept *)
(* or was reported, whatever others loaded and received meanwhile.         *)
ChatIsLoaded ==
  /\ \A m \in All : chain.tries[m] <= 1
  /\ chain.pc = "end" => \A m \in chain.wanted : files[m] > 0 \/ m \in chain.failed
=============================================================================
