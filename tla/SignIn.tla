-------------------------------- MODULE SignIn --------------------------------
(***************************************************************************)
(* How one person signs in and stays signed in: the password, the rotating *)
(* refresh tokens and the links that arrive by e-mail                      *)
(* (routes/authRoutes.js over services/authService.js, passwordReset.js,   *)
(* emailVerification.js, googleAuth.js and adminService.js).               *)
(*                                                                         *)
(* Requests are concurrent and interleave at every statement.  A statement *)
(* that ends all tokens, or all links, of the person sees the rows that    *)
(* were committed when it began (READ COMMITTED) and takes effect when its *)
(* transaction commits: the step in between is what makes this hard.       *)
(*                                                                         *)
(* Access tokens are signed, not stored: whoever signed in once may use    *)
(* one.  Their minutes, a refresh token's days and a setup link's days are *)
(* not counted.  Nothing in the program makes users.status inactive.       *)
(***************************************************************************)
EXTENDS Naturals, Sequences, FiniteSets

CONSTANTS
  Requests,   \* HTTP requests, each handled once
  LinkLimit,  \* RESET_REQUESTS_PER_HOUR, VERIFY_REQUESTS_PER_HOUR
  MaxTokens,  \* bound: refresh tokens issued
  MaxLinks,   \* bound: links mailed
  MaxCuts     \* bound: requests that end half way

VARIABLES
  user,    \* users: is there a row, which password, confirmed, asked to change it
  token,   \* refresh_tokens, in the order they were issued
  link,    \* password_resets, email_verifications and owners' invitations
  req,     \* the requests
  cuts,    \* requests that ended half way
  spared   \* tokens that escaped a revocation: see OldSessionsEnd

vars == <<user, token, link, req, cuts, spared>>

Tokens == DOMAIN token
Links == DOMAIN link
LinkUses == {"reset", "verify", "setup"}
Purposes == LinkUses \cup {"none", "change", "reuse"}
Pcs == {"idle", "issue", "mail", "mailing", "link", "ending", "changing", "changed",
        "confirm", "done"}

TypeOK ==
  /\ user \in [exists : BOOLEAN, pw : Nat, verified : BOOLEAN, must : BOOLEAN]
  /\ token \in Seq([live : BOOLEAN, pw : Nat, root : Nat])
  /\ link \in Seq([use : LinkUses, live : BOOLEAN, recent : BOOLEAN, sets : Nat])
  /\ req \in [Requests -> [pc : Pcs, for : Purposes, pw : Nat, link : Nat,
                           tokens : SUBSET Nat, links : SUBSET Nat]]
  /\ cuts \in Nat /\ spared \subseteq Tokens

Idle == [pc |-> "idle", for |-> "none", pw |-> 0, link |-> 0, tokens |-> {}, links |-> {}]
Done == [Idle EXCEPT !.pc = "done"]
NoUser == [exists |-> FALSE, pw |-> 0, verified |-> FALSE, must |-> FALSE]

(* A new address, or a person who is signed in on one device.              *)
Init ==
  /\ \/ user = NoUser /\ token = <<>>
     \/ user = [NoUser EXCEPT !.exists = TRUE, !.pw = 1]
        /\ token = <<[live |-> TRUE, pw |-> 1, root |-> 1]>>
  /\ link = <<>>
  /\ req = [r \in Requests |-> Idle]
  /\ cuts = 0 /\ spared = {}

Begin(r, for) == req[r].pc = "idle" /\ req' = [req EXCEPT ![r] = for]

LiveTokens == {t \in Tokens : token[t].live}
LiveLinks(use) == {l \in Links : link[l].use = use /\ link[l].live}

(* A revocation whose statement has begun and not yet taken effect.        *)
Ending == \E r \in Requests : req[r].pc = "ending"

(* An issued token escapes when the password it proves was changed since   *)
(* it was checked, or when a revocation under way cannot see it.           *)
Escapes(pw) == pw # user.pw \/ Ending

-----------------------------------------------------------------------------
(* Ways in.  Each ends in respondSession, which inserts the refresh token  *)
(* in a statement of its own, after everything else.                       *)

(* registerTenantAndUser: a row with this password, and a workspace.       *)
Registered(pw) == [user EXCEPT !.exists = TRUE, !.pw = pw]

(* The confirmation mail is under way on its own.                          *)
Signup(r, r2) ==
  /\ ~user.exists
  /\ user' = Registered(1)
  /\ req[r].pc = "idle" /\ req[r2].pc = "idle" /\ r # r2
  /\ req' = [req EXCEPT ![r] = [Idle EXCEPT !.pc = "issue", !.pw = 1],
                        ![r2] = [Idle EXCEPT !.pc = "mail", !.for = "verify"]]
  /\ UNCHANGED <<token, link, cuts, spared>>

(* The password is compared with the row read before; noteFirstLogin and   *)
(* the audit entry follow, then the token.                                 *)
Login(r) ==
  /\ user.exists /\ user.pw > 0
  /\ Begin(r, [Idle EXCEPT !.pc = "issue", !.pw = user.pw])
  /\ UNCHANGED <<user, token, link, cuts, spared>>

(* The person with this address, or a new one whose password nobody knows. *)
PersonFor == IF user.exists THEN user ELSE Registered(0)

(* Google has confirmed the address.                                       *)
GoogleCallback(r) ==
  /\ user' = [PersonFor EXCEPT !.verified = TRUE]
  /\ Begin(r, [Idle EXCEPT !.pc = "issue", !.pw = user.pw])
  /\ UNCHANGED <<token, link, cuts, spared>>

(* An access token is enough to be issued a refresh token for a workspace. *)
SwitchTenant(r, t) ==
  /\ Begin(r, [Idle EXCEPT !.pc = "issue", !.pw = token[t].pw])
  /\ UNCHANGED <<user, token, link, cuts, spared>>

(* generateRefreshToken                                                    *)
NewToken(pw) == [live |-> TRUE, pw |-> pw, root |-> Len(token) + 1]

Issue(r) ==
  /\ req[r].pc = "issue" /\ Len(token) < MaxTokens
  /\ token' = Append(token, NewToken(req[r].pw))
  /\ spared' = IF Escapes(req[r].pw) THEN spared \cup {Len(token) + 1} ELSE spared
  /\ req' = [req EXCEPT ![r] = Done]
  /\ UNCHANGED <<user, link, cuts>>

-----------------------------------------------------------------------------
(* Staying in.                                                             *)

(* Mutant of Rotatable: a token that was rotated before is accepted. *)
RotatableAlways(t) == TRUE

Rotatable(t) == token[t].live

(* rotateRefreshToken locks the row: two of them for one token follow each *)
(* other.                                                                  *)
Rotated(t) == Append([token EXCEPT ![t].live = FALSE], [token[t] EXCEPT !.live = TRUE])

Refresh(r, t) ==
  /\ Rotatable(t) /\ Len(token) < MaxTokens
  /\ token' = Rotated(t)
  /\ spared' = IF t \in spared \/ Ending THEN spared \cup {Len(token) + 1} ELSE spared
  /\ Begin(r, Done)
  /\ UNCHANGED <<user, link, cuts>>

(* A token presented again: everything of the person is revoked.           *)
RefreshReused(r, t) ==
  /\ ~token[t].live
  /\ Begin(r, [Idle EXCEPT !.pc = "ending", !.for = "reuse", !.tokens = LiveTokens])
  /\ UNCHANGED <<user, token, link, cuts, spared>>

Logout(r, t) ==
  /\ token[t].live
  /\ token' = [token EXCEPT ![t].live = FALSE]
  /\ Begin(r, Done)
  /\ UNCHANGED <<user, link, cuts, spared>>

-----------------------------------------------------------------------------
(* Links: forgot-password, resend-verification and the platform's setup    *)
(* link retire the earlier ones and insert a new one in one transaction.   *)

Recent(use) == Cardinality({l \in Links : link[l].use = use /\ link[l].recent})

MayReset == user.exists /\ Recent("reset") < LinkLimit
MayVerify == user.exists /\ ~user.verified /\ Recent("verify") < LinkLimit

AskFor(r, use) ==
  /\ Begin(r, [Idle EXCEPT !.pc = "mail", !.for = use])
  /\ UNCHANGED <<user, token, link, cuts, spared>>

ForgotPassword(r) == MayReset /\ AskFor(r, "reset")
ResendVerification(r) == MayVerify /\ AskFor(r, "verify")
ResendOwnerSetup(r) == user.exists /\ AskFor(r, "setup")

(* The statement that retires them; the earlier links it sees.             *)
RetireLinks(r) ==
  /\ req[r].pc = "mail"
  /\ req' = [req EXCEPT ![r].pc = "mailing", ![r].links = LiveLinks(req[r].for)]
  /\ UNCHANGED <<user, token, link, cuts, spared>>

Retired(ls) == [l \in Links |-> [link[l] EXCEPT !.live = @ /\ l \notin ls]]

NewLink(use) == [use |-> use, live |-> TRUE, recent |-> use # "setup", sets |-> 0]

MailLink(r) ==
  /\ req[r].pc = "mailing" /\ Len(link) < MaxLinks
  /\ link' = Append(Retired(req[r].links), NewLink(req[r].for))
  /\ req' = [req EXCEPT ![r] = Done]
  /\ UNCHANGED <<user, token, cuts, spared>>

(* createCompanyIn: the owner's row, if there is none, with a password     *)
(* nobody knows, and the company's first setup link.                       *)
CreateCompany(r) ==
  /\ Len(link) < MaxLinks /\ \A l \in Links : link[l].use # "setup"
  /\ user' = [user EXCEPT !.exists = TRUE, !.must = @ \/ ~user.exists]
  /\ link' = Append(link, NewLink("setup"))
  /\ Begin(r, Done)
  /\ UNCHANGED <<token, cuts, spared>>

(* An hour passes over a link: a reset link is then too old to be used.    *)
AnHourPasses(l) ==
  /\ link[l].recent
  /\ link' = [link EXCEPT ![l].recent = FALSE, ![l].live = @ /\ link[l].use # "reset"]
  /\ UNCHANGED <<user, token, req, cuts, spared>>

(* Mutant of Locked: the link is read without FOR UPDATE. *)
LockedNever(l) == FALSE

(* FOR UPDATE: no other request is in a transaction with this link.        *)
Locked(l) == \E r \in Requests : req[r].pc \in {"link", "ending"} /\ req[r].link = l

(* resetPassword, and accept-invite with an owner's setup link: the row of *)
(* the link is locked, the new password hashed.                            *)
OpenLink(r, l, use) ==
  /\ link[l].use = use /\ link[l].live /\ ~Locked(l)
  /\ Begin(r, [Idle EXCEPT !.pc = "link", !.for = use, !.link = l])
  /\ UNCHANGED <<user, token, link, cuts, spared>>

ResetPassword(r, l) == OpenLink(r, l, "reset")
AcceptSetup(r, l) == OpenLink(r, l, "setup")

(* A reset ends the other reset links as well; a setup link only itself.   *)
EndSessions(r) ==
  /\ req[r].pc = "link"
  /\ req' = [req EXCEPT ![r].pc = "ending", ![r].tokens = LiveTokens,
                        ![r].links = {req[r].link} \cup
                          IF req[r].for = "reset" THEN LiveLinks("reset") ELSE {}]
  /\ UNCHANGED <<user, token, link, cuts, spared>>

(* verifyEmail takes the link in one statement and marks the address in    *)
(* the next.                                                               *)
VerifyEmail(r, l) ==
  /\ link[l].use = "verify" /\ link[l].live
  /\ link' = Retired({l})
  /\ Begin(r, [Idle EXCEPT !.pc = "confirm"])
  /\ UNCHANGED <<user, token, cuts, spared>>

MarkVerified(r) ==
  /\ req[r].pc = "confirm"
  /\ user' = [user EXCEPT !.verified = TRUE]
  /\ req' = [req EXCEPT ![r] = Done]
  /\ UNCHANGED <<token, link, cuts, spared>>

-----------------------------------------------------------------------------
(* change-password: three statements, then a new session.                  *)

ChangePassword(r, t) ==
  /\ user.pw > 0
  /\ Begin(r, [Idle EXCEPT !.pc = "changing", !.for = "change"])
  /\ UNCHANGED <<user, token, link, cuts, spared>>

WritePassword(r) ==
  /\ req[r].pc = "changing"
  /\ user' = [user EXCEPT !.pw = @ + 1, !.must = FALSE]
  /\ req' = [req EXCEPT ![r].pc = "changed", ![r].pw = user.pw + 1]
  /\ UNCHANGED <<token, link, cuts, spared>>

RevokeAll(r) ==
  /\ req[r].pc = "changed"
  /\ req' = [req EXCEPT ![r].pc = "ending", ![r].tokens = LiveTokens]
  /\ UNCHANGED <<user, token, link, cuts, spared>>

(* Mutant of Revoked: only the oldest session ends. *)
RevokedOldest(ts) ==
  [t \in Tokens |-> [token[t] EXCEPT !.live = @ /\ ~(t \in ts /\ \A u \in ts : t <= u)]]

(* The revocation takes effect: for a reset or setup link with the new     *)
(* password and the used links, for a change on its own.                   *)
Revoked(ts) == [t \in Tokens |-> [token[t] EXCEPT !.live = @ /\ t \notin ts]]

Committed(r) ==
  /\ req[r].pc = "ending"
  /\ token' = Revoked(req[r].tokens)
  /\ link' = [l \in Links |-> [Retired(req[r].links)[l] EXCEPT
                                 !.sets = IF l = req[r].link THEN @ + 1 ELSE @]]
  /\ user' = IF req[r].for \in {"reset", "setup"}
             THEN [user EXCEPT !.pw = @ + 1, !.must = FALSE, !.verified = TRUE] ELSE user
  /\ req' = [req EXCEPT ![r] = IF req[r].for = "change"
                               THEN [Idle EXCEPT !.pc = "issue", !.pw = req[r].pw] ELSE Done]
  /\ UNCHANGED <<cuts, spared>>

(* A process ends or a statement fails: what is not committed is undone.   *)
(* A change of password without its revocation leaves every session alive. *)
Cut(r) ==
  /\ req[r].pc \notin {"idle", "done"} /\ cuts < MaxCuts
  /\ req' = [req EXCEPT ![r] = Done]
  /\ cuts' = cuts + 1
  /\ spared' = IF req[r].pc = "changed" \/ (req[r].pc = "ending" /\ req[r].for = "change")
               THEN spared \cup LiveTokens ELSE spared
  /\ UNCHANGED <<user, token, link>>

Next ==
  \/ \E r, r2 \in Requests : Signup(r, r2)
  \/ \E r \in Requests, t \in Tokens :
       \/ SwitchTenant(r, t) \/ Refresh(r, t) \/ RefreshReused(r, t)
       \/ Logout(r, t) \/ ChangePassword(r, t)
  \/ \E r \in Requests, l \in Links :
       ResetPassword(r, l) \/ AcceptSetup(r, l) \/ VerifyEmail(r, l)
  \/ \E l \in Links : AnHourPasses(l)
  \/ \E r \in Requests :
       \/ Login(r) \/ GoogleCallback(r) \/ Issue(r) \/ CreateCompany(r)
       \/ ForgotPassword(r) \/ ResendVerification(r) \/ ResendOwnerSetup(r)
       \/ RetireLinks(r) \/ MailLink(r) \/ EndSessions(r) \/ MarkVerified(r)
       \/ WritePassword(r) \/ RevokeAll(r) \/ Committed(r) \/ Cut(r)

Spec == Init /\ [][Next]_vars

-----------------------------------------------------------------------------
(* A session from before a change of password does not outlive it, however *)
(* often it is rotated, unless it was issued or rotated while the          *)
(* revocation ran, by a sign-in that had checked the old password, through *)
(* an access token, or the change was cut off before the revocation.       *)
OldSessionsEnd ==
  \A t \in LiveTokens :
    \/ token[t].pw = user.pw
    \/ t \in spared
    \/ \E r \in Requests : req[r].for = "change" /\ req[r].pc \in {"changed", "ending"}

(* However often a token is presented, on one device or on two, a sign-in  *)
(* has at most one token that still works.                                 *)
OneHeir ==
  \A t, u \in LiveTokens : token[t].root = token[u].root => t = u

(* A link out of an e-mail sets at most one password, and one that was     *)
(* retired or used never works again.                                      *)
LinkWorksOnce ==
  [][ /\ \A l \in Links : link'[l].sets <= 1
      /\ \A l \in Links : ~link[l].live => ~link'[l].live ]_vars

=============================================================================
