--------------------------------- MODULE Team ---------------------------------
(***************************************************************************)
(* Who belongs to a workspace: invitations, roles, and the live            *)
(* connections of the people in it (routes/authRoutes.js, the socket       *)
(* server of server.js, middleware/auth.js).                               *)
(*                                                                         *)
(* A manager's request is authorised by one query and does its work by     *)
(* later ones; a connection is authorised by one query and opened later.   *)
(* Names, categories, mails, audit entries and the proof of a password     *)
(* are left out; seats are counted as the invitation does.                 *)
(***************************************************************************)
EXTENDS Naturals, Sequences, FiniteSets

CONSTANTS
  People, Owner,  \* the people, and the one who owns the workspace
  Calls,          \* requests of managers, each handled once
  Sockets,        \* live connections
  Seats,          \* entitledPlan(tenant).seats
  MaxInvites,     \* bound: invitations
  MaxLinks        \* bound: links of one invitation

VARIABLES
  member,    \* memberships: role and status of each person
  invite,    \* invitations: one to a link, in the order they were made
  call,      \* requests of managers under way
  socket,    \* connections
  appointed  \* the people an owner has invited as, or made, administrators

vars == <<member, invite, call, socket, appointed>>

Roles == {"none", "agent", "admin", "owner"}
Managers == {"admin", "owner"}
Active(p) == member[p].role # "none" /\ member[p].active

TypeOK ==
  /\ member \in [People -> [role : Roles, active : BOOLEAN]]
  /\ invite \in Seq([who : People, role : Roles, key : Nat,
                     state : {"open", "accepted", "deleted"}])
  /\ call \in [Calls -> [pc : {"idle", "invite", "insert", "resend", "cancel",
                               "change", "remove", "kick", "done"},
                         as : Roles, who : People, role : Roles, active : BOOLEAN,
                         links : SUBSET Nat]]
  /\ socket \in [Sockets -> [st : {"off", "checked", "on"}, who : People, role : Roles]]
  /\ appointed \subseteq People

Idle == [pc |-> "idle", as |-> "none", who |-> Owner, role |-> "none", active |-> TRUE,
         links |-> {}]

(* The owner, and a second member who may be an administrator already.     *)
Init ==
  /\ \E second \in People \ {Owner}, role \in {"admin", "agent"} :
       /\ member = [p \in People |-> IF p = Owner THEN [role |-> "owner", active |-> TRUE]
                                     ELSE IF p = second THEN [role |-> role, active |-> TRUE]
                                     ELSE [role |-> "none", active |-> FALSE]]
       /\ appointed = IF role = "admin" THEN {second} ELSE {}
  /\ invite = <<>>
  /\ call = [c \in Calls |-> Idle]
  /\ socket = [s \in Sockets |-> [st |-> "off", who |-> Owner, role |-> "none"]]

Invites == DOMAIN invite
OpenInvites(p) == {i \in Invites : invite[i].who = p /\ invite[i].state = "open"}

-----------------------------------------------------------------------------
(* authenticateToken, requireTenantContext and requireRole: the role is    *)
(* the one the membership had when the request came in.                    *)
Authorised(by) == Active(by) /\ member[by].role \in Managers

Enter(c, by, pc, who, role, links) ==
  /\ call[c].pc = "idle" /\ Authorised(by)
  /\ call' = [call EXCEPT ![c] = [Idle EXCEPT !.pc = pc, !.as = member[by].role,
                                    !.who = who, !.role = role, !.links = links]]

Goto(c, pc) == call' = [call EXCEPT ![c].pc = pc]

(* Mutant of MayManageInvite: every manager may invite administrators. *)
MayManageAny(as, role) == TRUE

MayManageInvite(as, role) == role = "admin" => as = "owner"

Appoint(as, p, role) ==
  appointed' = IF as = "owner" /\ role = "admin" THEN appointed \cup {p} ELSE appointed

(* POST /users: already on the team, seats, then the transaction that      *)
(* removes the earlier invitations it can see and inserts the new one.     *)
Invite(c, by, p, role) ==
  /\ Enter(c, by, "invite", p, role, {})
  /\ MayManageInvite(member[by].role, role)
  /\ member[p].role = "none"
  /\ Cardinality({q \in People : Active(q)}) < Seats
  /\ UNCHANGED <<member, invite, socket, appointed>>

InviteReplaces(c) ==
  /\ call[c].pc = "invite"
  /\ call' = [call EXCEPT ![c].pc = "insert", ![c].links = OpenInvites(call[c].who)]
  /\ UNCHANGED <<member, invite, socket, appointed>>

Without(is) == [i \in Invites |-> IF i \in is /\ invite[i].state = "open"
                                  THEN [invite[i] EXCEPT !.state = "deleted"] ELSE invite[i]]

InviteInsert(c) ==
  /\ call[c].pc = "insert" /\ Len(invite) < MaxInvites
  /\ invite' = Append(Without(call[c].links),
                      [who |-> call[c].who, role |-> call[c].role, key |-> 1, state |-> "open"])
  /\ Appoint(call[c].as, call[c].who, call[c].role)
  /\ Goto(c, "done")
  /\ UNCHANGED <<member, socket>>

(* POST /users/invitations/:id/resend, and DELETE: the row is read, then   *)
(* written by its id, whatever has become of it.                           *)
Pending(c, by, i, pc) ==
  /\ Enter(c, by, pc, invite[i].who, invite[i].role, {i})
  /\ invite[i].state = "open"
  /\ MayManageInvite(member[by].role, invite[i].role)
  /\ UNCHANGED <<member, invite, socket, appointed>>

Resend(c, by, i) == Pending(c, by, i, "resend")
Cancel(c, by, i) == Pending(c, by, i, "cancel")

ResendWrite(c) ==
  /\ call[c].pc = "resend"
  /\ \E i \in call[c].links : /\ invite[i].key < MaxLinks
                              /\ invite' = [invite EXCEPT ![i].key = @ + 1]
  /\ Goto(c, "done")
  /\ UNCHANGED <<member, socket, appointed>>

(* Mutant of Dropped: the row is kept with a status of its own. *)
DroppedMarked == "cancelled"

Dropped == "deleted"

CancelWrite(c) ==
  /\ call[c].pc = "cancel"
  /\ invite' = [i \in Invites |-> [invite[i] EXCEPT
                  !.state = IF i \in call[c].links THEN Dropped ELSE @]]
  /\ Goto(c, "done")
  /\ UNCHANGED <<member, socket, appointed>>

(* POST /accept-invite with the newest link: one transaction that locks    *)
(* the row.  A person who is a member already keeps role and status.       *)
Opens(i, key) == invite[i].state = "open" /\ invite[i].key = key

Accept(i, key) ==
  /\ Opens(i, key)
  /\ member' = [member EXCEPT ![invite[i].who] =
                  IF @.role = "none" THEN [role |-> invite[i].role, active |-> TRUE] ELSE @]
  /\ invite' = [invite EXCEPT ![i].state = "accepted"]
  /\ UNCHANGED <<call, socket, appointed>>

(* PATCH /users/:id of role or status: decided under the row's lock, with  *)
(* the caller's role of before.                                            *)
Change(c, by, p, role, active) ==
  /\ call[c].pc = "idle" /\ Authorised(by)
  /\ call' = [call EXCEPT ![c] = [Idle EXCEPT !.pc = "change", !.as = member[by].role,
                                    !.who = p, !.role = role, !.active = active]]
  /\ UNCHANGED <<member, invite, socket, appointed>>

MayChange(c) ==
  LET p == call[c].who
  IN  /\ member[p].role \in {"agent", "admin"}
      /\ call[c].role # "none" => call[c].as = "owner"

ChangeWrite(c) ==
  LET p == call[c].who
      role == IF call[c].role = "none" THEN member[p].role ELSE call[c].role
  IN  /\ call[c].pc = "change"
      /\ IF MayChange(c)
         THEN /\ member' = [member EXCEPT ![p] = [role |-> role, active |-> call[c].active]]
              /\ Appoint(call[c].as, p, call[c].role)
              /\ Goto(c, "kick")
         ELSE Goto(c, "done") /\ UNCHANGED <<member, appointed>>
      /\ UNCHANGED <<invite, socket>>

(* DELETE /users/:id                                                       *)
Remove(c, by, p) ==
  /\ Enter(c, by, "remove", p, "none", {})
  /\ UNCHANGED <<member, invite, socket, appointed>>

RemoveWrite(c) ==
  LET p == call[c].who
  IN  /\ call[c].pc = "remove"
      /\ IF member[p].role \in {"agent", "admin"}
         THEN member' = [member EXCEPT ![p] = [role |-> "none", active |-> FALSE]] /\ Goto(c, "kick")
         ELSE Goto(c, "done") /\ UNCHANGED member
      /\ UNCHANGED <<invite, socket, appointed>>

(* disconnectSockets reaches the connections that are open.                *)
Kick(c) ==
  /\ call[c].pc = "kick"
  /\ socket' = [s \in Sockets |-> [socket[s] EXCEPT
                  !.st = IF @ = "on" /\ socket[s].who = call[c].who THEN "off" ELSE @]]
  /\ Goto(c, "done")
  /\ UNCHANGED <<member, invite, appointed>>

(* The process ends before the connections are closed; with it, its own.   *)
Crash(c) ==
  /\ call[c].pc = "kick"
  /\ socket' = [s \in Sockets |-> [socket[s] EXCEPT !.st = "off"]]
  /\ Goto(c, "done")
  /\ UNCHANGED <<member, invite, appointed>>

-----------------------------------------------------------------------------
(* The handshake reads the membership; the connection joins its rooms and  *)
(* sets its timers later.                                                  *)
Handshake(s, p) ==
  /\ socket[s].st = "off" /\ Active(p)
  /\ socket' = [socket EXCEPT ![s] = [st |-> "checked", who |-> p, role |-> member[p].role]]
  /\ UNCHANGED <<member, invite, call, appointed>>

Connect(s) ==
  /\ socket[s].st = "checked"
  /\ socket' = [socket EXCEPT ![s].st = "on"]
  /\ UNCHANGED <<member, invite, call, appointed>>

Disconnect(s) ==
  /\ socket' = [socket EXCEPT ![s].st = "off"]
  /\ UNCHANGED <<member, invite, call, appointed>>

(* Mutant of Watched: a suspended membership counts. *)
WatchedRow(s) == member[socket[s].who].role = "none"

(* membershipTimer, every 30 seconds                                       *)
Watched(s) == ~Active(socket[s].who)

MembershipTimer(s) == socket[s].st = "on" /\ Watched(s) /\ Disconnect(s)

(* The access token the connection was opened with runs out.               *)
Expire(s) == socket[s].st = "on" /\ Disconnect(s)

Next ==
  \/ \E c \in Calls, by, p \in People :
       \/ \E role \in {"agent", "admin"} : Invite(c, by, p, role)
       \/ \E role \in {"none", "agent", "admin"}, active \in BOOLEAN :
            Change(c, by, p, role, active)
       \/ Remove(c, by, p)
  \/ \E c \in Calls, by \in People, i \in Invites : Resend(c, by, i) \/ Cancel(c, by, i)
  \/ \E i \in Invites, key \in 1..MaxLinks : Accept(i, key)
  \/ \E c \in Calls : \/ InviteReplaces(c) \/ InviteInsert(c) \/ ResendWrite(c)
                      \/ CancelWrite(c) \/ ChangeWrite(c) \/ RemoveWrite(c)
                      \/ Kick(c) \/ Crash(c)
  \/ \E s \in Sockets, p \in People : Handshake(s, p)
  \/ \E s \in Sockets : Connect(s) \/ MembershipTimer(s) \/ Expire(s)

(* The timer of an open connection fires, and a handshake ends.  That a    *)
(* token runs out in time is not relied upon.                              *)
Fairness == \A s \in Sockets : WF_vars(Connect(s)) /\ WF_vars(MembershipTimer(s))

Spec == Init /\ [][Next]_vars /\ Fairness

-----------------------------------------------------------------------------
(* Only an owner makes administrators, by an invitation or by a change of  *)
(* role, whoever resends, cancels, accepts or changes meanwhile; and the   *)
(* owner stays.                                                            *)
AdminsByOwner ==
  /\ member[Owner] = [role |-> "owner", active |-> TRUE]
  /\ \A p \in People : member[p].role = "admin" => p \in appointed

(* Whoever loses the workspace loses the connection, also one whose        *)
(* handshake was under way when the connections were closed.               *)
CutOff ==
  \A s \in Sockets, p \in People :
    (~Active(p) /\ socket[s].st # "off" /\ socket[s].who = p)
      ~> (Active(p) \/ socket[s].st = "off" \/ socket[s].who # p)

=============================================================================
