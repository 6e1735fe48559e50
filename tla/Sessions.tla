------------------------------- MODULE Sessions -------------------------------
(***************************************************************************)
(* Refresh tokens: a login begins a family, every refresh exchanges the    *)
(* presented token for a successor, a token that was exchanged before is   *)
(* refused and takes its family with it, logout revokes one token and      *)
(* logout-all those of a user.                                             *)
(*                                                                         *)
(* A call is a read of the token's row, a read of the user's, and one      *)
(* transaction that writes; calls may overlap between these.  A call that  *)
(* dies before its commit has changed nothing and is one that takes no     *)
(* further step.                                                           *)
(***************************************************************************)
EXTENDS Naturals, FiniteSets, Orm

CONSTANTS
  Calls,      \* HTTP calls; a refresh token is named by the call that issues it
  NoToken,    \* replaced_by of a token that was not exchanged
  Users,
  Overlap     \* bound on the calls in progress at a time

ASSUME CallsAssumption ==
  IsFiniteSet(Calls) /\ NoToken \notin Calls /\ Users # {}

ASSUME OverlapAssumption == Overlap \in Nat \ {0}

VARIABLES
  tokens,     \* table refresh_tokens
  active,     \* per user: users.is_active
  call,       \* per call: where its handler is and what it has read
  overlaps    \* history: per call, the calls that it has overlapped

vars == <<tokens, active, call, overlaps>>

\* revoked and reuse stand for "the timestamp is set", expired for "expires_at
\* has passed".  A family is named by the login that began it.
TokenRows == [issued : BOOLEAN, user : Users, family : Calls, revoked : BOOLEAN,
              replaced_by : Calls \cup {NoToken}, reuse : BOOLEAN,
              expired : BOOLEAN]

Fresh(u, family) == [issued |-> TRUE, user |-> u, family |-> family,
                     revoked |-> FALSE, replaced_by |-> NoToken,
                     reuse |-> FALSE, expired |-> FALSE]

AbsentToken(c) == [Fresh(CHOOSE u \in Users : TRUE, c) EXCEPT !.issued = FALSE]

Issued == {t \in Calls : tokens[t].issued}

Live == {t \in Issued : ~ tokens[t].revoked}

\* token: what the client presented; loaded: its row as read; seen: the rows
\* that the UPDATE of a mass revocation has found.
CallStates == [pc : {"idle", "issue", "expire", "user", "rotate", "logout",
                     "family", "all", "revoke", "refused", "done"},
               token : Calls \cup {NoToken}, user : Users,
               loaded : TokenRows, seen : SUBSET Calls]

IdleCall(c) == [pc |-> "idle", token |-> NoToken, user |-> AbsentToken(c).user,
                loaded |-> AbsentToken(c), seen |-> {}]

Init ==
  /\ tokens = [c \in Calls |-> AbsentToken(c)]
  /\ active = [u \in Users |-> TRUE]
  /\ call = [c \in Calls |-> IdleCall(c)]
  /\ overlaps = [c \in Calls |-> {}]

Ended == {"refused", "done"}

InProgress == {c \in Calls : call[c].pc \notin Ended \cup {"idle"}}

Begins(c) ==
  /\ call[c].pc = "idle"
  /\ Cardinality(InProgress) < Overlap
  /\ overlaps' = [d \in Calls |->
                    IF d = c THEN InProgress
                    ELSE overlaps[d] \cup (IF d \in InProgress THEN {c} ELSE {})]

GoTo(c, step) == call' = [call EXCEPT ![c].pc = step]

\* The call reads the row of the token that the client presents.
Reads(c, t, step) ==
  call' = [call EXCEPT ![c] = [@ EXCEPT !.pc = step, !.token = t,
                                        !.user = tokens[t].user,
                                        !.loaded = tokens[t]]]

-----------------------------------------------------------------------------
(* Login, and what an administrator and time do to an account *)

\* login_user with the right password; LoginRateLimit has the rest of it.
Login(c) ==
  /\ Begins(c)
  /\ \E u \in Users :
       call' = [call EXCEPT ![c] = [@ EXCEPT !.user = u,
                                     !.pc = IF active[u] THEN "issue" ELSE "refused"]]
  /\ UNCHANGED <<tokens, active>>

\* _issue_token_pair and the commit: a new family.
Issue(c) ==
  /\ call[c].pc = "issue"
  /\ tokens' = [tokens EXCEPT ![c] = Fresh(call[c].user, c)]
  /\ GoTo(c, "done")
  /\ UNCHANGED <<active, overlaps>>

\* PATCH /users/{id}/status
SetActive(u) ==
  /\ active' = [active EXCEPT ![u] = ~ @]
  /\ UNCHANGED <<tokens, call, overlaps>>

Expire(t) ==
  /\ tokens[t].issued /\ ~ tokens[t].expired
  /\ tokens' = [tokens EXCEPT ![t].expired = TRUE]
  /\ UNCHANGED <<active, call, overlaps>>

-----------------------------------------------------------------------------
(* POST /auth/refresh and /auth/logout *)

\* Variants of RevokedBy: every column of the copy is written; only the
\* replacement is.
RevokedByWholeRow(row, loaded, successor) ==
  [row EXCEPT !.revoked = TRUE, !.replaced_by = successor]

RevokedByReplacement(row, loaded, successor) ==
  [row EXCEPT !.revoked = @ \/ successor = NoToken,
              !.replaced_by = Column(successor, loaded.replaced_by, @)]

\* revoke_token on a copy of the row: revoked_at is new and always written,
\* the replacement only if it differs from the one that was read.
RevokedBy(row, loaded, successor) ==
  [row EXCEPT !.revoked = TRUE,
              !.replaced_by = Column(successor, loaded.replaced_by, @)]

\* A variant of Refresh: a token is refused only if it was exchanged.
RefreshUnlessExchanged(c) ==
  /\ Begins(c)
  /\ \E t \in Issued :
       Reads(c, t, IF tokens[t].expired THEN "expire"
                   ELSE IF tokens[t].replaced_by # NoToken THEN "family"
                   ELSE "user")
  /\ UNCHANGED <<tokens, active>>

\* refresh_session's look at the record: it is expired, or exchanged before,
\* or revoked, or good.  A token that was expired when it came is refused by its
\* signature, before any row is read, and changes nothing: that call is left out,
\* here and in Logout.  Calls that find an expired row are those whose token
\* expired since; the model lets any token be one of them.
Refresh(c) ==
  /\ Begins(c)
  /\ \E t \in Issued :
       \/ tokens[t].expired /\ Reads(c, t, "expire")
       \/ /\ ~ tokens[t].expired /\ tokens[t].revoked
          /\ Reads(c, t, IF tokens[t].replaced_by = NoToken THEN "refused"
                         ELSE "family")
       \/ ~ tokens[t].expired /\ ~ tokens[t].revoked /\ Reads(c, t, "user")
  /\ UNCHANGED <<tokens, active>>

RevokeExpired(c) ==
  /\ call[c].pc = "expire"
  /\ tokens' = [tokens EXCEPT ![call[c].token] =
                  RevokedBy(@, call[c].loaded, NoToken)]
  /\ GoTo(c, "refused")
  /\ UNCHANGED <<active, overlaps>>

ReadUser(c) ==
  /\ call[c].pc = "user"
  /\ GoTo(c, IF active[call[c].user] THEN "rotate" ELSE "refused")
  /\ UNCHANGED <<tokens, active, overlaps>>

\* A variant of Rotate: the successor is added in a later transaction.
RotateUnissued(c) ==
  /\ call[c].pc = "rotate"
  /\ tokens' = [tokens EXCEPT ![call[c].token] = RevokedBy(@, call[c].loaded, c)]
  /\ GoTo(c, "issue")
  /\ UNCHANGED <<active, overlaps>>

\* The token is revoked and its successor added, in one transaction.
Rotate(c) ==
  /\ call[c].pc = "rotate"
  /\ tokens' = [tokens EXCEPT
                  ![call[c].token] = RevokedBy(@, call[c].loaded, c),
                  ![c] = Fresh(call[c].user, call[c].loaded.family)]
  /\ GoTo(c, "done")
  /\ UNCHANGED <<active, overlaps>>

\* logout's read; a token that is revoked is left as it is.
Logout(c) ==
  /\ Begins(c)
  /\ \E t \in Issued : Reads(c, t, IF tokens[t].revoked THEN "done" ELSE "logout")
  /\ UNCHANGED <<tokens, active>>

RevokePresented(c) ==
  /\ call[c].pc = "logout"
  /\ tokens' = [tokens EXCEPT ![call[c].token] =
                  RevokedBy(@, call[c].loaded, NoToken)]
  /\ GoTo(c, "done")
  /\ UNCHANGED <<active, overlaps>>

-----------------------------------------------------------------------------
(* Mass revocation: one UPDATE, which finds rows and then waits for them *)

\* logout_all, for the user of the access token.
LogoutAll(c) ==
  /\ Begins(c)
  /\ \E u \in Users :
       call' = [call EXCEPT ![c] = [@ EXCEPT !.user = u,
                                     !.pc = IF active[u] THEN "all" ELSE "refused"]]
  /\ UNCHANGED <<tokens, active>>

Finds(c, rows) ==
  /\ call' = [call EXCEPT ![c] = [@ EXCEPT !.pc = "revoke", !.seen = rows]]
  /\ UNCHANGED <<tokens, active, overlaps>>

\* The UPDATE of revoke_family and that of revoke_all_for_user see the rows
\* that were committed when they began, and not a successor added meanwhile.
FindFamily(c) ==
  /\ call[c].pc = "family"
  /\ Finds(c, {t \in Live : tokens[t].family = call[c].loaded.family})

\* A variant of FindAll: only the first token of each family is found.
FindAllLogins(c) ==
  /\ call[c].pc = "all"
  /\ Finds(c, {t \in Live : tokens[t].user = call[c].user /\ tokens[t].family = t})

FindAll(c) ==
  /\ call[c].pc = "all"
  /\ Finds(c, {t \in Live : tokens[t].user = call[c].user})

\* Variants of Revoke: of a family only the successor of the presented token is
\* revoked; the token is recorded where the mark of the reuse belongs.
RevokeSuccessor(c) ==
  /\ call[c].pc = "revoke"
  /\ tokens' = [t \in Calls |->
                  IF /\ t \in call[c].seen \cap Live
                     /\ call[c].token = NoToken \/ t = call[c].loaded.replaced_by
                  THEN [tokens[t] EXCEPT !.revoked = TRUE]
                  ELSE tokens[t]]
  /\ GoTo(c, IF call[c].token = NoToken THEN "done" ELSE "refused")
  /\ UNCHANGED <<active, overlaps>>

RevokeRecordingToken(c) ==
  /\ call[c].pc = "revoke"
  /\ tokens' = [t \in Calls |->
                  IF t \in call[c].seen \cap Live
                  THEN [tokens[t] EXCEPT !.revoked = TRUE, !.reuse = call[c].token]
                  ELSE tokens[t]]
  /\ GoTo(c, IF call[c].token = NoToken THEN "done" ELSE "refused")
  /\ UNCHANGED <<active, overlaps>>

\* It revokes those of them that are not revoked by then; revoke_family marks
\* the reuse on them too.
Revoke(c) ==
  /\ call[c].pc = "revoke"
  /\ tokens' = [t \in Calls |->
                  IF t \in call[c].seen \cap Live
                  THEN [tokens[t] EXCEPT !.revoked = TRUE,
                                         !.reuse = @ \/ call[c].token # NoToken]
                  ELSE tokens[t]]
  /\ GoTo(c, IF call[c].token = NoToken THEN "done" ELSE "refused")
  /\ UNCHANGED <<active, overlaps>>

-----------------------------------------------------------------------------

CallStep(c) ==
  \/ Login(c) \/ Issue(c)
  \/ Refresh(c) \/ RevokeExpired(c) \/ ReadUser(c) \/ Rotate(c)
  \/ Logout(c) \/ RevokePresented(c)
  \/ LogoutAll(c) \/ FindFamily(c) \/ FindAll(c) \/ Revoke(c)

Next ==
  \/ \E c \in Calls : CallStep(c)
  \/ \E u \in Users : SetActive(u)
  \/ \E t \in Calls : Expire(t)

Spec == Init /\ [][Next]_vars

-----------------------------------------------------------------------------
(* Properties *)

TypeOK ==
  /\ tokens \in [Calls -> TokenRows]
  /\ active \in [Users -> BOOLEAN]
  /\ call \in [Calls -> CallStates]
  /\ overlaps \in [Calls -> SUBSET Calls]

\* A token that was exchanged is revoked, and what it was exchanged for is in
\* the table, with its user and its family: also when several refreshes of it,
\* or a refresh and a logout, overlapped.
ReplacementIsIssued ==
  \A t \in Calls : tokens[t].replaced_by # NoToken =>
    LET s == tokens[t].replaced_by
    IN  /\ tokens[t].revoked
        /\ tokens[s].issued
        /\ tokens[s].user = tokens[t].user
        /\ tokens[s].family = tokens[t].family

\* Until a token expires, its row keeps saying that it was exchanged: a logout
\* that overlapped the exchange does not erase it, so reuse is detected.
ReuseStaysDetectable ==
  [][\A t \in Calls :
       tokens[t].replaced_by # NoToken /\ ~ tokens[t].expired
         => tokens'[t].replaced_by # NoToken]_vars

\* When a logout-all ends, no token of the user is live but those issued by calls
\* that overlapped it; and no token that is revoked ever becomes live again,
\* whatever call that had read it before writes to it.
RevocationIsComplete ==
  [][/\ Live' \cap (Issued \ Live) = {}
     /\ \A c \in Calls :
          call[c].pc = "revoke" /\ call[c].token = NoToken /\ call'[c].pc = "done" =>
            \A t \in Live' : tokens'[t].user = call[c].user => t \in overlaps[c]]_vars

LiveIn(family) == {t \in Live : tokens[t].family = family}

\* The tokens of a family that were exchanged for the same token as another one,
\* by refreshes that overlapped.
Forks(family) ==
  {s \in Issued : /\ tokens[s].family = family
                  /\ \E t \in overlaps[s] \cap Issued :
                       call[t].token = call[s].token /\ call[s].token # NoToken}

\* A family has one live token at most, and more only because refreshes of one
\* token overlapped: then no more than the successors those have issued.
LiveTokensAreForks ==
  \A f \in Calls :
    \/ Cardinality(LiveIn(f)) <= 1
    \/ Cardinality(LiveIn(f)) <= Cardinality(Forks(f))

\* The calls that found that their token had been exchanged before and have
\* revoked its family.
HaveDetected == {c \in Calls : call[c].pc = "refused" /\ call[c].loaded.revoked
                                /\ call[c].loaded.replaced_by # NoToken
                                /\ ~ call[c].loaded.expired}

\* When reuse was detected in a family, the family is dead for good, unless a
\* token of it was issued by a call that overlapped the detection: then that
\* token, or those that it was exchanged for, may live on.
ReusedFamilyIsDead ==
  \A d \in HaveDetected :
    LiveIn(call[d].loaded.family) # {} =>
      \E c \in overlaps[d] \cap Issued :
        tokens[c].family = call[d].loaded.family

=============================================================================
