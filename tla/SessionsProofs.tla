---------------------------- MODULE SessionsProofs ----------------------------
(***************************************************************************)
(* Theorems about Sessions, for any number of calls that overlap in any    *)
(* way: what an exchange leaves in the table, what a mass revocation       *)
(* reaches, what may live on in a family whose reuse was detected, and how *)
(* many live tokens a family can have.                                     *)
(***************************************************************************)
EXTENDS Sessions, FiniteSetTheorems, TLAPS

\* The places of a call that still works with the token it was given.
Presenting == {"expire", "user", "rotate", "logout", "family"}

\* The places at which a call has read no row, or one that was not revoked.
Unspent == {"idle", "issue", "user", "rotate", "logout", "all"}

\* A call that has issued a token is over, so it issues no second one.
IssuersAreDone == \A c \in Calls : tokens[c].issued => call[c].pc = "done"

\* What a mass revocation has found was in the table; others have found nothing.
FoundAreIssued ==
  \A c \in Calls :
    /\ call[c].seen \subseteq Issued
    /\ call[c].pc \notin Ended \cup {"revoke"} => call[c].seen = {}

\* What a call has copied of its token's user, family and expiry is still true.
CopyHolds ==
  \A c \in Calls : call[c].pc \in Presenting =>
    /\ call[c].token \in Issued
    /\ call[c].user = tokens[call[c].token].user
    /\ call[c].loaded.family = tokens[call[c].token].family
    /\ call[c].pc = "expire" =>
         tokens[call[c].token].expired /\ call[c].loaded.expired

UnspentCopy ==
  \A c \in Calls : call[c].pc \in Unspent =>
    ~ call[c].loaded.revoked /\ call[c].loaded.replaced_by = NoToken

\* A row that is not in the table says nothing.
AbsentAreBlank ==
  \A t \in Calls : ~ tokens[t].issued =>
    ~ tokens[t].revoked /\ tokens[t].replaced_by = NoToken

SessionInv ==
  TypeOK /\ IssuersAreDone /\ FoundAreIssued /\ CopyHolds /\ UnspentCopy
    /\ AbsentAreBlank /\ ReplacementIsIssued

\* What a step leaves of the row of a token that is in the table.
Ages(t) ==
  /\ tokens'[t].issued
  /\ tokens'[t].user = tokens[t].user
  /\ tokens'[t].family = tokens[t].family
  /\ tokens[t].revoked => tokens'[t].revoked
  /\ tokens[t].expired => tokens'[t].expired

\* What a step does to the other columns: an exchange is recorded where it is
\* made, and forgotten only if the token has expired.
Records(t) ==
  \/ tokens'[t].replaced_by = tokens[t].replaced_by
  \/ tokens'[t].replaced_by = NoToken /\ tokens[t].expired
  \/ \E c \in Calls : /\ Rotate(c) /\ t = call[c].token
                      /\ tokens'[t].replaced_by = c /\ tokens'[t].revoked

-----------------------------------------------------------------------------
(* Steps *)

\* The rows that are absent and those that are added have the type of rows.
LEMMA RowsAreTyped ==
  /\ \A c \in Calls : AbsentToken(c) \in TokenRows
  /\ \A u \in Users, f \in Calls : Fresh(u, f) \in TokenRows
<1>1. (CHOOSE u \in Users : TRUE) \in Users
  BY CallsAssumption
<1> QED
  BY <1>1, CallsAssumption DEF AbsentToken, Fresh, TokenRows

\* What a call presents is read from the table or from its copy of a row.
LEMMA RevokedByIsTyped ==
  ASSUME NEW row \in TokenRows, NEW loaded \in TokenRows,
         NEW successor \in Calls \cup {NoToken}
  PROVE  RevokedBy(row, loaded, successor) \in TokenRows
  BY DEF RevokedBy, TokenRows, Column

\* A mass revocation keeps the type of a row.
LEMMA MarkedIsTyped ==
  ASSUME NEW row \in TokenRows, NEW mark \in BOOLEAN
  PROVE  [row EXCEPT !.revoked = TRUE, !.reuse = mark] \in TokenRows
  BY DEF TokenRows

\* Every step keeps the types.
LEMMA TypeStep ==
  ASSUME TypeOK, [Next]_vars
  PROVE  TypeOK'
<1> USE DEF TypeOK
<1>1. CASE UNCHANGED vars
  BY <1>1 DEF vars
<1>2. ASSUME NEW u \in Users, SetActive(u)
      PROVE  TypeOK'
  BY <1>2 DEF SetActive
<1>3. ASSUME NEW t \in Calls, Expire(t)
      PROVE  TypeOK'
  BY <1>3 DEF Expire, TokenRows
<1>4. ASSUME NEW c \in Calls, CallStep(c)
      PROVE  TypeOK'
  <2>1. active' = active /\ (overlaps' = overlaps \/ Begins(c))
    BY <1>4 DEF CallStep, Login, Issue, Refresh, RevokeExpired, ReadUser, Rotate,
         Logout, RevokePresented, LogoutAll, FindFamily, FindAll, Finds, Revoke
  <2>2. ASSUME Begins(c)
        PROVE  overlaps' \in [Calls -> SUBSET Calls]
    <3>1. InProgress \in SUBSET Calls
      BY DEF InProgress
    <3>2. ASSUME NEW d \in Calls
          PROVE  overlaps'[d] \in SUBSET Calls
      <4>1. \/ overlaps'[d] = InProgress
            \/ overlaps'[d] = overlaps[d] \cup {c}
            \/ overlaps'[d] = overlaps[d] \cup {}
        BY <2>2 DEF Begins
      <4>2. overlaps[d] \in SUBSET Calls
        OBVIOUS
      <4> QED
        BY <3>1, <4>1, <4>2
    <3> QED
      BY <2>2, <3>2 DEF Begins
  <2>3. tokens' \in [Calls -> TokenRows]
    <3>1. CASE Issue(c)
      BY <3>1, RowsAreTyped DEF Issue, CallStates
    <3>2. CASE RevokeExpired(c) \/ RevokePresented(c)
      <4>1. call[c].loaded \in TokenRows
        BY DEF CallStates
      <4>2. tokens' = [tokens EXCEPT ![call[c].token] =
                         RevokedBy(tokens[call[c].token], call[c].loaded, NoToken)]
        BY <3>2 DEF RevokeExpired, RevokePresented
      <4>3. \A t \in Calls : tokens'[t] \in TokenRows
        BY <4>1, <4>2, RevokedByIsTyped
      <4> QED
        BY <4>2, <4>3
    <3>3. CASE Rotate(c)
      <4>1. /\ call[c].user \in Users /\ call[c].loaded \in TokenRows
            /\ call[c].loaded.family \in Calls
        BY DEF CallStates, TokenRows
      <4>2. \A t \in Calls : tokens'[t] \in TokenRows
        BY <3>3, <4>1, RowsAreTyped, RevokedByIsTyped DEF Rotate
      <4> QED
        BY <3>3, <4>2 DEF Rotate
    <3>4. CASE Revoke(c)
      <4> DEFINE Mark(t) == tokens[t].reuse \/ call[c].token # NoToken
      <4>1. \A t \in Calls : Mark(t) \in BOOLEAN /\ tokens[t] \in TokenRows
        BY DEF TokenRows
      <4>2. \A t \in Calls :
              \/ tokens'[t] = tokens[t]
              \/ tokens'[t] = [tokens[t] EXCEPT !.revoked = TRUE, !.reuse = Mark(t)]
        BY <3>4 DEF Revoke
      <4> HIDE DEF Mark
      <4>3. ASSUME NEW t \in Calls
            PROVE  tokens'[t] \in TokenRows
        <5>1. [tokens[t] EXCEPT !.revoked = TRUE, !.reuse = Mark(t)] \in TokenRows
          BY <4>1, MarkedIsTyped
        <5> QED
          BY <4>1, <4>2, <5>1
      <4> QED
        BY <3>4, <4>3 DEF Revoke
    <3>5. CASE tokens' = tokens
      BY <3>5
    <3> QED
      BY <1>4, <3>1, <3>2, <3>3, <3>4, <3>5 DEF CallStep, Login, Refresh, ReadUser,
           Logout, LogoutAll, FindFamily, FindAll, Finds
  <2>4. call' \in [Calls -> CallStates]
    <3>1. ASSUME NEW t \in Calls, NEW step \in {"expire", "user", "family", "refused", "logout", "done"},
                 Reads(c, t, step)
          PROVE  call' \in [Calls -> CallStates]
      <4>1. tokens[t] \in TokenRows /\ tokens[t].user \in Users
        BY DEF TokenRows
      <4>2. call[c] \in CallStates
        OBVIOUS
      <4>3. call'[c] = [call[c] EXCEPT !.pc = step, !.token = t,
                          !.user = tokens[t].user, !.loaded = tokens[t]]
        BY <3>1 DEF Reads
      <4>4. call'[c] \in CallStates
        BY <4>1, <4>2, <4>3 DEF CallStates
      <4> QED
        BY <3>1, <4>4 DEF Reads
    <3>2. CASE Refresh(c) \/ Logout(c)
      BY <3>1, <3>2 DEF Refresh, Logout, Issued
    <3>3. CASE Login(c) \/ LogoutAll(c)
      <4>1. PICK u \in Users, step \in {"issue", "refused", "all"} :
              call' = [call EXCEPT ![c] = [call[c] EXCEPT !.user = u, !.pc = step]]
        BY <3>3 DEF Login, LogoutAll
      <4>2. call[c] \in CallStates
        OBVIOUS
      <4>3. [call[c] EXCEPT !.user = u, !.pc = step] \in CallStates
        BY <4>2 DEF CallStates
      <4> QED
        BY <4>1, <4>3
    <3>4. ASSUME NEW step \in {"rotate", "refused", "done"}, GoTo(c, step)
          PROVE  call' \in [Calls -> CallStates]
      BY <3>4 DEF GoTo, CallStates
    <3>5. CASE FindFamily(c) \/ FindAll(c)
      <4>1. Live \in SUBSET Calls
        BY DEF Live, Issued
      <4>2. \E rows \in SUBSET Calls : Finds(c, rows)
        BY <3>5, <4>1 DEF FindFamily, FindAll
      <4>3. PICK rows \in SUBSET Calls : Finds(c, rows)
        BY <4>2
      <4>4. call[c] \in CallStates
        OBVIOUS
      <4>5. [call[c] EXCEPT !.pc = "revoke", !.seen = rows] \in CallStates
        BY <4>4 DEF CallStates
      <4> QED
        BY <4>3, <4>5 DEF Finds
    <3> QED
      BY <1>4, <3>2, <3>3, <3>4, <3>5 DEF CallStep, Issue, RevokeExpired, ReadUser,
           Rotate, RevokePresented, Revoke
  <2> QED
    BY <2>1, <2>3, <2>4, <2>2
<1> QED
  BY <1>1, <1>2, <1>3, <1>4 DEF Next

-----------------------------------------------------------------------------
(* How the table changes *)

\* A step of one call leaves the others where they are.
LEMMA OthersStand ==
  ASSUME TypeOK, NEW c \in Calls, CallStep(c)
  PROVE  \A d \in Calls \ {c} : call'[d] = call[d]
  BY DEF TypeOK, CallStep, Login, Issue, Refresh, RevokeExpired, ReadUser, Rotate,
       Logout, RevokePresented, LogoutAll, FindFamily, FindAll, Finds, Revoke, Reads,
       GoTo

\* The fields of a call's own record that its step writes.
LEMMA FieldsWritten ==
  ASSUME TypeOK, NEW c \in Calls
  PROVE  /\ \A step : GoTo(c, step) =>
              /\ call'[c].pc = step /\ call'[c].token = call[c].token
              /\ call'[c].user = call[c].user /\ call'[c].loaded = call[c].loaded
              /\ call'[c].seen = call[c].seen
         /\ \A t, step : Reads(c, t, step) =>
              /\ call'[c].pc = step /\ call'[c].token = t
              /\ call'[c].user = tokens[t].user /\ call'[c].loaded = tokens[t]
              /\ call'[c].seen = call[c].seen
         /\ \A rows : Finds(c, rows) =>
              /\ call'[c].pc = "revoke" /\ call'[c].token = call[c].token
              /\ call'[c].user = call[c].user /\ call'[c].loaded = call[c].loaded
              /\ call'[c].seen = rows
         /\ Login(c) \/ LogoutAll(c) =>
              /\ call[c].pc = "idle"
              /\ call'[c].pc \in {"issue", "all", "refused"}
              /\ call'[c].token = call[c].token
              /\ call'[c].loaded = call[c].loaded /\ call'[c].seen = call[c].seen
<1>1. call[c] \in CallStates
  BY DEF TypeOK
<1>2. \A r : call' = [call EXCEPT ![c] = r] => call'[c] = r
  BY DEF TypeOK
<1>3. ASSUME NEW step, GoTo(c, step)
      PROVE  /\ call'[c].pc = step /\ call'[c].token = call[c].token
             /\ call'[c].user = call[c].user /\ call'[c].loaded = call[c].loaded
             /\ call'[c].seen = call[c].seen
  <2>1. call'[c] = [call[c] EXCEPT !.pc = step]
    BY <1>2, <1>3 DEF GoTo
  <2> QED
    BY <1>1, <2>1 DEF CallStates
<1>4. ASSUME NEW t, NEW step, Reads(c, t, step)
      PROVE  /\ call'[c].pc = step /\ call'[c].token = t
             /\ call'[c].user = tokens[t].user /\ call'[c].loaded = tokens[t]
             /\ call'[c].seen = call[c].seen
  <2>1. call'[c] = [call[c] EXCEPT !.pc = step, !.token = t,
                      !.user = tokens[t].user, !.loaded = tokens[t]]
    BY <1>2, <1>4 DEF Reads
  <2> QED
    BY <1>1, <2>1 DEF CallStates
<1>5. ASSUME NEW rows, Finds(c, rows)
      PROVE  /\ call'[c].pc = "revoke" /\ call'[c].token = call[c].token
             /\ call'[c].user = call[c].user /\ call'[c].loaded = call[c].loaded
             /\ call'[c].seen = rows
  <2>1. call'[c] = [call[c] EXCEPT !.pc = "revoke", !.seen = rows]
    BY <1>2, <1>5 DEF Finds
  <2> QED
    BY <1>1, <2>1 DEF CallStates
<1>6. ASSUME Login(c) \/ LogoutAll(c)
      PROVE  /\ call[c].pc = "idle"
             /\ call'[c].pc \in {"issue", "all", "refused"}
             /\ call'[c].token = call[c].token
             /\ call'[c].loaded = call[c].loaded /\ call'[c].seen = call[c].seen
  <2>1. call[c].pc = "idle"
    BY <1>6 DEF Login, LogoutAll, Begins
  <2>2. PICK u \in Users, step \in {"issue", "all", "refused"} :
          call'[c] = [call[c] EXCEPT !.user = u, !.pc = step]
    BY <1>2, <1>6 DEF Login, LogoutAll
  <2> QED
    BY <1>1, <2>1, <2>2 DEF CallStates
<1> QED
  BY <1>3, <1>4, <1>5, <1>6

\* A row that is in the table ages; one that is not stays so or is issued.
LEMMA RowsAge ==
  ASSUME SessionInv, [Next]_vars, NEW t \in Calls
  PROVE  /\ tokens[t].issued => Ages(t) /\ Records(t)
         /\ ~ tokens[t].issued =>
              \/ tokens'[t] = tokens[t]
              \/ /\ Issue(t) \/ Rotate(t)
                 /\ \E u \in Users, f \in Calls : tokens'[t] = Fresh(u, f)
<1> USE DEF SessionInv, TypeOK, Ages, Records
<1>1. CASE tokens' = tokens
  BY <1>1
<1>2. ASSUME NEW s \in Calls, Expire(s)
      PROVE  IF t = s THEN tokens[t].issued /\ Ages(t) /\ Records(t)
             ELSE tokens'[t] = tokens[t]
  BY <1>2 DEF Expire, TokenRows
<1>3. ASSUME NEW c \in Calls, Issue(c)
      PROVE  IF t = c
             THEN ~ tokens[t].issued /\ \E u \in Users, f \in Calls : tokens'[t] = Fresh(u, f)
             ELSE tokens'[t] = tokens[t]
  BY <1>3 DEF Issue, IssuersAreDone, CallStates
<1>4. ASSUME NEW c \in Calls, RevokeExpired(c) \/ RevokePresented(c)
      PROVE  IF t = call[c].token THEN tokens[t].issued /\ Ages(t) /\ Records(t)
             ELSE tokens'[t] = tokens[t]
  <2>1. /\ call[c].token \in Issued
        /\ tokens' = [tokens EXCEPT ![call[c].token] =
                        RevokedBy(tokens[call[c].token], call[c].loaded, NoToken)]
    BY <1>4 DEF RevokeExpired, RevokePresented, CopyHolds, Presenting
  <2>2. tokens[call[c].token].expired \/ call[c].loaded.replaced_by = NoToken
    BY <1>4 DEF RevokeExpired, RevokePresented, CopyHolds, Presenting, UnspentCopy,
         Unspent
  <2> QED
    BY <2>1, <2>2 DEF RevokedBy, Column, TokenRows, Issued
<1>5. ASSUME NEW c \in Calls, Rotate(c)
      PROVE  /\ call[c].token \in Issued /\ ~ tokens[c].issued
             /\ IF t = c THEN \E u \in Users, f \in Calls : tokens'[t] = Fresh(u, f)
                ELSE IF t = call[c].token THEN Ages(t) /\ Records(t)
                ELSE tokens'[t] = tokens[t]
  <2>1. call[c].token \in Issued /\ ~ tokens[c].issued
    BY <1>5 DEF Rotate, CopyHolds, Presenting, IssuersAreDone
  <2>2. CASE t = c
    BY <1>5, <2>1, <2>2 DEF Rotate, CallStates, TokenRows
  <2>3. CASE t # c /\ t = call[c].token
    <3>1. tokens'[t] = RevokedBy(tokens[t], call[c].loaded, c)
      BY <1>5, <2>3 DEF Rotate
    <3>2. tokens'[t] = [tokens[t] EXCEPT !.revoked = TRUE,
                          !.replaced_by = c]
      BY <1>5, <2>1, <3>1, CallsAssumption DEF Rotate, RevokedBy, Column, UnspentCopy, Unspent
    <3> QED
      BY <1>5, <2>1, <2>3, <3>2 DEF TokenRows, Issued
  <2> QED
    BY <1>5, <2>1, <2>2, <2>3 DEF Rotate
<1>6. ASSUME NEW c \in Calls, Revoke(c)
      PROVE  IF t \in Live THEN Ages(t) /\ Records(t) ELSE tokens'[t] = tokens[t]
  BY <1>6 DEF Revoke, TokenRows, Live, Issued
<1> QED
  <2>1. \/ tokens' = tokens
        \/ \E s \in Calls : Expire(s)
        \/ \E c \in Calls : \/ Issue(c) \/ RevokeExpired(c) \/ RevokePresented(c)
                           \/ Rotate(c) \/ Revoke(c)
    BY DEF Next, vars, SetActive, CallStep, Login, Refresh, ReadUser, Logout,
         LogoutAll, FindFamily, FindAll, Finds
  <2> QED
    BY <1>1, <1>2, <1>3, <1>4, <1>5, <1>6, <2>1 DEF Live, Issued

-----------------------------------------------------------------------------
(* The invariant *)

\* No row leaves the table.
LEMMA RowsRemain ==
  ASSUME SessionInv, [Next]_vars
  PROVE  Issued \subseteq Issued' /\ \A t \in Issued : Ages(t)
  BY RowsAge DEF Issued, Ages

\* The invariant holds in the initial states.
LEMMA InitHolds ==
  ASSUME Init
  PROVE  SessionInv
<1>1. TypeOK
  <2>1. \A c \in Calls : IdleCall(c) \in CallStates
    BY RowsAreTyped DEF IdleCall, CallStates, TokenRows
  <2> QED
    BY <2>1, RowsAreTyped DEF Init, TypeOK
<1>2. IssuersAreDone /\ FoundAreIssued /\ CopyHolds /\ UnspentCopy
  BY DEF Init, IssuersAreDone, FoundAreIssued, CopyHolds, UnspentCopy, Presenting,
       Unspent, IdleCall, AbsentToken, Fresh
<1>3. AbsentAreBlank /\ ReplacementIsIssued
  BY DEF Init, AbsentAreBlank, ReplacementIsIssued, AbsentToken, Fresh
<1> QED
  BY <1>1, <1>2, <1>3 DEF SessionInv

\* A call that is done stays so, and a token is issued by its last step.
LEMMA IssuersStep ==
  ASSUME SessionInv, [Next]_vars
  PROVE  IssuersAreDone'
<1> SUFFICES ASSUME NEW c \in Calls, tokens'[c].issued
             PROVE  call'[c].pc = "done"
  BY DEF IssuersAreDone
<1> USE DEF SessionInv
<1>1. CASE tokens[c].issued
  <2>1. call[c].pc = "done"
    BY <1>1 DEF IssuersAreDone
  <2>2. ~ CallStep(c)
    BY <2>1 DEF CallStep, Begins, Login, Issue, Refresh, RevokeExpired, ReadUser, Rotate,
         Logout, RevokePresented, LogoutAll, FindFamily, FindAll, Revoke
  <2> QED
    BY <2>1, <2>2, OthersStand DEF Next, vars, SetActive, Expire
<1>2. CASE ~ tokens[c].issued
  <2>1. Issue(c) \/ Rotate(c)
    BY <1>2, RowsAge
  <2> QED
    BY <2>1 DEF Issue, Rotate, GoTo, TypeOK, CallStates
<1> QED
  BY <1>1, <1>2

\* What was found stays in the table.
LEMMA FoundStep ==
  ASSUME SessionInv, [Next]_vars
  PROVE  FoundAreIssued'
<1> SUFFICES ASSUME NEW c \in Calls
             PROVE  /\ call'[c].seen \subseteq Issued'
                    /\ call'[c].pc \notin Ended \cup {"revoke"} => call'[c].seen = {}
  BY DEF FoundAreIssued
<1> USE DEF SessionInv
<1>1. Issued \subseteq Issued'
  BY RowsRemain
<1>2. CASE call'[c] = call[c]
  BY <1>1, <1>2 DEF FoundAreIssued
<1>3. CASE CallStep(c)
  <2>1. CASE FindFamily(c) \/ FindAll(c)
    BY <1>1, <2>1, FieldsWritten DEF FindFamily, FindAll, Live, Issued, Ended
  <2>2. CASE ~ (FindFamily(c) \/ FindAll(c))
    <3>1. /\ call'[c].seen = call[c].seen
          /\ call[c].pc = "revoke" => call'[c].pc \in Ended
          /\ call[c].pc \notin Ended
      BY <1>3, <2>2, FieldsWritten DEF CallStep, Begins, Issue, Login, LogoutAll, Refresh,
           RevokeExpired, ReadUser, Rotate, Logout, RevokePresented, Revoke, Ended
    <3> QED
      BY <1>1, <3>1 DEF FoundAreIssued
  <2> QED
    BY <2>1, <2>2
<1> QED
  BY <1>2, <1>3, OthersStand DEF Next, vars, SetActive, Expire

\* Where a call copies a row it has just looked at it; afterwards the row keeps
\* what the copy needs.
LEMMA CopyStep ==
  ASSUME SessionInv, [Next]_vars
  PROVE  CopyHolds' /\ UnspentCopy'
<1> SUFFICES ASSUME NEW c \in Calls
             PROVE  /\ call'[c].pc \in Presenting =>
                         /\ call'[c].token \in Issued'
                         /\ call'[c].user = tokens'[call'[c].token].user
                         /\ call'[c].loaded.family = tokens'[call'[c].token].family
                         /\ call'[c].pc = "expire" =>
                              /\ tokens'[call'[c].token].expired
                              /\ call'[c].loaded.expired
                    /\ call'[c].pc \in Unspent =>
                         /\ ~ call'[c].loaded.revoked
                         /\ call'[c].loaded.replaced_by = NoToken
  BY DEF CopyHolds, UnspentCopy
<1> USE DEF SessionInv, Presenting, Unspent
<1>1. \A t \in Issued : t \in Issued' /\ Ages(t)
  BY RowsRemain
<1>2. CASE /\ call'[c].token = call[c].token /\ call'[c].user = call[c].user
           /\ call'[c].loaded = call[c].loaded
           /\ \/ call'[c].pc = call[c].pc
              \/ call'[c].pc \in Ended \cup {"revoke"}
              \/ call[c].pc = "user" /\ call'[c].pc = "rotate"
  BY <1>1, <1>2 DEF CopyHolds, UnspentCopy, Ages, Ended
<1>3. CASE Refresh(c) \/ Logout(c)
  <2>1. PICK t \in Issued :
          /\ call'[c].token = t /\ call'[c].user = tokens[t].user
          /\ call'[c].loaded = tokens[t]
          /\ call'[c].pc = "expire" => tokens[t].expired
          /\ call'[c].pc \in Unspent => ~ tokens[t].revoked
    BY <1>3, FieldsWritten DEF Refresh, Logout
  <2>2. ~ tokens[t].revoked => tokens[t].replaced_by = NoToken
    BY <2>1 DEF ReplacementIsIssued, Issued
  <2> QED
    BY <1>1, <2>1, <2>2 DEF Ages
<1>4. CASE Login(c) \/ LogoutAll(c)
  BY <1>4, FieldsWritten DEF UnspentCopy
<1> QED
  <2>1. CASE CallStep(c)
    <3>1. \/ Login(c) \/ LogoutAll(c) \/ Refresh(c) \/ Logout(c)
          \/ ReadUser(c)
          \/ FindFamily(c) \/ FindAll(c)
          \/ GoTo(c, "done") \/ GoTo(c, "refused")
      BY <2>1 DEF CallStep, Issue, RevokeExpired, Rotate, RevokePresented, Revoke
    <3>2. CASE ReadUser(c)
      BY <1>2, <3>2, FieldsWritten DEF ReadUser, Ended
    <3>3. CASE FindFamily(c) \/ FindAll(c)
      BY <1>2, <3>3, FieldsWritten DEF FindFamily, FindAll
    <3>4. CASE GoTo(c, "done") \/ GoTo(c, "refused")
      BY <1>2, <3>4, FieldsWritten DEF Ended
    <3> QED
      BY <1>3, <1>4, <3>1, <3>2, <3>3, <3>4
  <2>2. CASE call'[c] = call[c]
    BY <1>1, <2>2 DEF CopyHolds, UnspentCopy, Ages
  <2> QED
    BY <2>1, <2>2, OthersStand DEF Next, vars, SetActive, Expire

\* A row that is not in the table is not written.
LEMMA BlankStep ==
  ASSUME SessionInv, [Next]_vars
  PROVE  AbsentAreBlank'
<1> SUFFICES ASSUME NEW t \in Calls, ~ tokens'[t].issued
             PROVE  ~ tokens'[t].revoked /\ tokens'[t].replaced_by = NoToken
  BY DEF AbsentAreBlank
<1>1. ~ tokens[t].issued
  BY RowsAge DEF Ages
<1>2. tokens'[t] = tokens[t]
  <2>1. \A u \in Users, f \in Calls : Fresh(u, f).issued
    BY DEF Fresh
  <2> QED
    BY <1>1, <2>1, RowsAge
<1> QED
  BY <1>1, <1>2 DEF SessionInv, AbsentAreBlank

\* An exchange revokes the token and issues its successor in one step, and both
\* rows keep what they say of each other.
LEMMA ReplacementStep ==
  ASSUME SessionInv, [Next]_vars
  PROVE  ReplacementIsIssued'
<1> SUFFICES ASSUME NEW t \in Calls, tokens'[t].replaced_by # NoToken
             PROVE  LET s == tokens'[t].replaced_by
                    IN  /\ tokens'[t].revoked
                        /\ tokens'[s].issued
                        /\ tokens'[s].user = tokens'[t].user
                        /\ tokens'[s].family = tokens'[t].family
  BY DEF ReplacementIsIssued
<1> USE DEF SessionInv
<1>1. tokens[t].issued /\ Ages(t) /\ Records(t)
  <2>1. ~ tokens[t].issued => tokens[t].replaced_by = NoToken
    BY DEF AbsentAreBlank
  <2>2. \A u \in Users, f \in Calls : Fresh(u, f).replaced_by = NoToken
    BY DEF Fresh
  <2> QED
    BY <2>1, <2>2, RowsAge
<1>2. CASE tokens'[t].replaced_by = tokens[t].replaced_by
  <2>1. tokens[t].replaced_by \in Issued /\ tokens[t].revoked
    BY <1>2 DEF ReplacementIsIssued, Issued, TypeOK, TokenRows
  <2> QED
    BY <1>1, <1>2, <2>1, RowsRemain DEF Ages, ReplacementIsIssued
<1>3. ASSUME NEW c \in Calls, Rotate(c), t = call[c].token,
             tokens'[t].replaced_by = c, tokens'[t].revoked
      PROVE  /\ tokens'[c].issued
             /\ tokens'[c].user = tokens'[t].user
             /\ tokens'[c].family = tokens'[t].family
  <2>1. tokens'[c] = Fresh(call[c].user, call[c].loaded.family)
    BY <1>3 DEF Rotate, TypeOK
  <2> QED
    BY <1>1, <1>3, <2>1 DEF Ages, Fresh, Rotate, CopyHolds, Presenting
<1> QED
  BY <1>1, <1>2, <1>3 DEF Records

\* Every step keeps the invariant.
LEMMA SessionStep ==
  ASSUME SessionInv, [Next]_vars
  PROVE  SessionInv'
  BY TypeStep, IssuersStep, FoundStep, CopyStep, BlankStep, ReplacementStep
  DEF SessionInv

\* The invariant holds of every behaviour.
LEMMA SessionsKeepInv == Spec => []SessionInv
  BY InitHolds, SessionStep, PTL DEF Spec

\* The rows, the calls and the history have their types.
THEOREM TypeCorrect == Spec => []TypeOK
<1>1. SessionInv => TypeOK
  BY DEF SessionInv
<1> QED
  BY <1>1, SessionsKeepInv, PTL

\* What refresh_session has exchanged a token for is in the table, with the user
\* and the family of the token, which is revoked; whatever overlapped it.
THEOREM ExchangesAreRecorded == Spec => []ReplacementIsIssued
<1>1. SessionInv => ReplacementIsIssued
  BY DEF SessionInv
<1> QED
  BY <1>1, SessionsKeepInv, PTL

\* No call erases that a token was exchanged, unless the token has expired: its
\* reuse is detected although a logout or another refresh overlapped the exchange.
THEOREM ReuseIsNotForgotten == Spec => ReuseStaysDetectable
<1>1. ASSUME SessionInv, [Next]_vars
      PROVE  [\A t \in Calls :
                tokens[t].replaced_by # NoToken /\ ~ tokens[t].expired
                  => tokens'[t].replaced_by # NoToken]_vars
  BY <1>1, RowsAge, CallsAssumption DEF SessionInv, AbsentAreBlank, Records
<1> QED
  BY <1>1, SessionsKeepInv, PTL DEF Spec, ReuseStaysDetectable

-----------------------------------------------------------------------------
(* A family whose reuse was detected *)

\* The UPDATE revokes what it has found and is live.
LEMMA RevokedWhenFound ==
  ASSUME SessionInv, NEW c \in Calls, Revoke(c), NEW t \in call[c].seen \cap Live
  PROVE  t \notin Live'
<1>1. t \in Calls /\ tokens[t] \in TokenRows
  BY DEF Live, Issued, SessionInv, TypeOK
<1>2. PICK mark \in BOOLEAN :
        tokens'[t] = [tokens[t] EXCEPT !.revoked = TRUE, !.reuse = mark]
  <2>1. (tokens[t].reuse \/ call[c].token # NoToken) \in BOOLEAN
    OBVIOUS
  <2> QED
    BY <1>1, <2>1 DEF Revoke
<1>3. tokens'[t].revoked = TRUE
  BY <1>1, <1>2 DEF TokenRows
<1> QED
  BY <1>3 DEF Live

Family(c) == call[c].loaded.family

\* The copy of a call says that its token had been exchanged before.
FoundReuse(c) ==
  /\ call[c].loaded.revoked /\ call[c].loaded.replaced_by # NoToken
  /\ ~ call[c].loaded.expired

\* Two calls in progress know of each other.
CallsHaveMet ==
  \A c, d \in InProgress : c # d => c \in overlaps[d]

FamiliesHaveBegun == \A t \in Issued : tokens[t].family \in Issued

\* What lives in the family while the UPDATE waits has been found by it, or is
\* of a call that overlaps it.
DetectionReaches(d) ==
  /\ Family(d) \in Issued
  /\ \A t \in LiveIn(Family(d)) : t \in call[d].seen \cup overlaps[d]

Excused(d) ==
  \E c \in overlaps[d] \cap Issued : tokens[c].family = Family(d)

\* What may still add a token to the family overlapped the detection, or its
\* token did.
DetectionHolds(d) ==
  /\ Family(d) \in Issued
  /\ LiveIn(Family(d)) # {} => Excused(d)
  /\ \A c \in Calls :
       call[c].pc \in {"user", "rotate"} /\ Family(c) = Family(d)
         => c \in overlaps[d] \/ Excused(d)

ReuseInv ==
  /\ SessionInv /\ CallsHaveMet /\ FamiliesHaveBegun
  /\ \A d \in Calls : call[d].pc = "revoke" /\ FoundReuse(d) => DetectionReaches(d)
  /\ \A d \in HaveDetected : DetectionHolds(d)

\* A step begins a call, checks its user, finds rows or ends the call.
LEMMA StepKinds ==
  ASSUME TypeOK, NEW c \in Calls, CallStep(c)
  PROVE  \/ /\ Login(c) \/ LogoutAll(c) \/ Refresh(c) \/ Logout(c)
            /\ Begins(c) /\ call[c].pc = "idle"
            /\ call'[c].pc \notin {"idle", "rotate", "revoke"}
         \/ /\ ReadUser(c)
            /\ overlaps' = overlaps /\ call[c].pc = "user"
            /\ call'[c].pc \in {"rotate", "refused"} /\ call'[c].loaded = call[c].loaded
         \/ /\ FindFamily(c) \/ FindAll(c)
            /\ overlaps' = overlaps /\ call[c].pc \in {"family", "all"}
            /\ call'[c].pc = "revoke" /\ call'[c].loaded = call[c].loaded
         \/ /\ Issue(c) \/ RevokeExpired(c) \/ Rotate(c) \/ RevokePresented(c) \/ Revoke(c)
            /\ overlaps' = overlaps
            /\ call[c].pc \in {"issue", "expire", "rotate", "logout", "revoke"}
            /\ call'[c].pc \in Ended /\ call'[c].loaded = call[c].loaded
<1>1. CASE Login(c) \/ LogoutAll(c) \/ Refresh(c) \/ Logout(c)
  <2>1. Begins(c) /\ call[c].pc = "idle"
    BY <1>1 DEF Login, LogoutAll, Refresh, Logout, Begins
  <2>2. call'[c].pc \notin {"idle", "rotate", "revoke"}
    <3>1. CASE Login(c) \/ LogoutAll(c)
      BY <3>1, FieldsWritten
    <3>2. CASE Refresh(c) \/ Logout(c)
      <4>1. \E t \in Issued, step \in {"expire", "user", "family", "refused", "logout", "done"} :
              Reads(c, t, step)
        BY <3>2 DEF Refresh, Logout
      <4> QED
        BY <4>1, FieldsWritten
    <3> QED
      BY <1>1, <3>1, <3>2
  <2> QED
    BY <1>1, <2>1, <2>2
<1>2. CASE ReadUser(c)
  BY <1>2, FieldsWritten DEF ReadUser
<1>3. CASE FindFamily(c) \/ FindAll(c)
  BY <1>3, FieldsWritten DEF FindFamily, FindAll, Finds
<1>4. CASE Issue(c) \/ RevokeExpired(c) \/ Rotate(c) \/ RevokePresented(c) \/ Revoke(c)
  BY <1>4, FieldsWritten DEF Issue, RevokeExpired, Rotate, RevokePresented, Revoke, Ended
<1> QED
  BY <1>1, <1>2, <1>3, <1>4 DEF CallStep

\* Who a call has met is not forgotten, and calls that are in progress at the
\* same time meet when the later of them begins.
LEMMA MeetingStep ==
  ASSUME ReuseInv, [Next]_vars
  PROVE  /\ CallsHaveMet'
         /\ \A d \in Calls : call[d].pc # "idle" =>
              call'[d].pc # "idle" /\ overlaps[d] \subseteq overlaps'[d]
<1> USE DEF ReuseInv, SessionInv
<1>1. CASE call' = call /\ overlaps' = overlaps
  BY <1>1 DEF CallsHaveMet, InProgress
<1>2. ASSUME NEW c \in Calls, CallStep(c), Begins(c)
      PROVE  /\ CallsHaveMet'
             /\ \A d \in Calls : call[d].pc # "idle" =>
                  call'[d].pc # "idle" /\ overlaps[d] \subseteq overlaps'[d]
  <2>1. \A d \in Calls \ {c} : call'[d] = call[d]
    BY <1>2, OthersStand
  <2>2. /\ overlaps'[c] = InProgress
        /\ \A d \in Calls \ {c} :
             /\ overlaps[d] \subseteq overlaps'[d]
             /\ d \in InProgress => c \in overlaps'[d]
    BY <1>2 DEF Begins
  <2>3. InProgress' \subseteq InProgress \cup {c}
    BY <2>1 DEF InProgress
  <2>4. ASSUME NEW a \in InProgress', NEW b \in InProgress', a # b
        PROVE  a \in overlaps'[b]
    BY <2>2, <2>3, <2>4 DEF CallsHaveMet, InProgress
  <2> QED
    BY <1>2, <2>1, <2>2, <2>4 DEF CallsHaveMet, Begins
<1>3. ASSUME NEW c \in Calls, CallStep(c), ~ Begins(c), overlaps' = overlaps
      PROVE  /\ CallsHaveMet'
             /\ \A d \in Calls : call[d].pc # "idle" =>
                  call'[d].pc # "idle" /\ overlaps[d] \subseteq overlaps'[d]
  <2>1. \A d \in Calls \ {c} : call'[d] = call[d]
    BY <1>3, OthersStand
  <2>2. call[c].pc \notin Ended /\ call'[c].pc # "idle"
    BY <1>3, StepKinds DEF Ended
  <2>3. call[c].pc # "idle"
    BY <1>3, StepKinds
  <2>4. InProgress' \subseteq InProgress
    BY <2>1, <2>2, <2>3 DEF InProgress
  <2> QED
    BY <1>3, <2>1, <2>2, <2>4 DEF CallsHaveMet
<1>4. ASSUME NEW c \in Calls, CallStep(c)
      PROVE  Begins(c) \/ overlaps' = overlaps
  BY <1>4, StepKinds
<1> QED
  BY <1>1, <1>2, <1>3, <1>4 DEF Next, vars, SetActive, Expire

\* A token that is live now was, or has just been issued by a call in progress.
LEMMA LiveTokens ==
  ASSUME SessionInv, [Next]_vars, NEW t \in Live'
  PROVE  \/ t \in Live /\ tokens'[t].family = tokens[t].family
         \/ /\ t \in InProgress /\ ~ tokens[t].issued
            /\ \/ Issue(t) /\ tokens'[t].family = t
               \/ Rotate(t) /\ tokens'[t].family = Family(t)
<1> USE DEF SessionInv
<1>1. CASE tokens[t].issued
  BY <1>1, RowsAge DEF Live, Issued, Ages
<1>2. CASE ~ tokens[t].issued
  <2>1. t \in Calls /\ tokens'[t].issued
    BY DEF Live, Issued
  <2>2. Issue(t) \/ Rotate(t)
    BY <1>2, <2>1, RowsAge
  <2>3. CASE Issue(t)
    BY <1>2, <2>1, <2>3 DEF Issue, Fresh, InProgress, Ended, TypeOK
  <2>4. CASE Rotate(t)
    BY <1>2, <2>1, <2>4 DEF Rotate, Fresh, InProgress, Ended, TypeOK, Family
  <2> QED
    BY <2>2, <2>3, <2>4
<1> QED
  BY <1>1, <1>2

\* The login that began a family has issued its first token.
LEMMA FamiliesStep ==
  ASSUME ReuseInv, [Next]_vars
  PROVE  FamiliesHaveBegun'
<1> SUFFICES ASSUME NEW t \in Issued'
             PROVE  tokens'[t].family \in Issued'
  BY DEF FamiliesHaveBegun
<1> USE DEF ReuseInv
<1>1. Issued \subseteq Issued'
  BY RowsRemain
<1>2. CASE t \in Issued
  BY <1>1, <1>2, RowsRemain DEF FamiliesHaveBegun, Ages
<1>3. CASE t \notin Issued
  <2>1. t \in Calls /\ (Issue(t) \/ Rotate(t))
    BY <1>3, RowsAge DEF Issued
  <2>2. CASE Issue(t)
    BY <2>1, <2>2 DEF Issue, Fresh, SessionInv, TypeOK
  <2>3. CASE Rotate(t)
    <3>1. Family(t) \in Issued
      BY <2>1, <2>3 DEF Rotate, SessionInv, CopyHolds, Presenting, FamiliesHaveBegun, Family
    <3>2. tokens'[t].family = Family(t)
      BY <2>1, <2>3 DEF Rotate, Fresh, SessionInv, TypeOK, Family
    <3> QED
      BY <1>1, <3>1, <3>2
  <2> QED
    BY <2>1, <2>2, <2>3
<1> QED
  BY <1>2, <1>3

\* The UPDATE finds what lives in the family; what is added while it waits is
\* added by a call in progress.
LEMMA DetectionStep ==
  ASSUME ReuseInv, [Next]_vars, NEW d \in Calls, call'[d].pc = "revoke", FoundReuse(d)'
  PROVE  DetectionReaches(d)'
<1> USE DEF ReuseInv
<1>0. SessionInv /\ TypeOK /\ Issued \subseteq Issued' /\ FamiliesHaveBegun
  BY RowsRemain DEF SessionInv
<1>1. CASE call'[d] = call[d]
  <2>1. DetectionReaches(d) /\ Family(d)' = Family(d) /\ d \in InProgress
    BY <1>1 DEF FoundReuse, Family, InProgress, Ended
  <2>2. ASSUME NEW t \in LiveIn(Family(d))'
        PROVE  t \in call[d].seen \cup overlaps'[d]
    <3>1. t \in Live' /\ tokens'[t].family = Family(d)
      BY <2>1 DEF LiveIn
    <3>2. overlaps[d] \subseteq overlaps'[d]
      BY <2>1, MeetingStep DEF InProgress
    <3>3. CASE t \in Live /\ tokens'[t].family = tokens[t].family
      BY <2>1, <3>1, <3>2, <3>3 DEF DetectionReaches, LiveIn
    <3>4. CASE t \in InProgress /\ (Issue(t) \/ Rotate(t))
      <4>1. t # d
        BY <1>1, <3>4 DEF Issue, Rotate
      <4> QED
        BY <2>1, <3>2, <3>4, <4>1 DEF CallsHaveMet
    <3> QED
      BY <1>0, <3>1, <3>3, <3>4, LiveTokens
  <2> QED
    BY <1>0, <1>1, <2>1, <2>2 DEF DetectionReaches
<1>2. CASE FindFamily(d)
  <2>1. /\ Family(d) \in Issued /\ Family(d)' = Family(d) /\ tokens' = tokens
        /\ call'[d].seen = {t \in Live : tokens[t].family = Family(d)}
    <3>1. /\ call[d].pc = "family" /\ tokens' = tokens
          /\ call'[d].loaded = call[d].loaded
          /\ call'[d].seen = {t \in Live : tokens[t].family = call[d].loaded.family}
      <4> DEFINE rows == {t \in Live : tokens[t].family = call[d].loaded.family}
      <4>1. call[d].pc = "family" /\ Finds(d, rows)
        BY <1>2 DEF FindFamily
      <4> HIDE DEF rows
      <4>2. /\ call'[d].loaded = call[d].loaded /\ call'[d].seen = rows
        BY <1>0, <4>1, FieldsWritten
      <4> QED
        BY <4>1, <4>2 DEF Finds, rows
    <3>2. /\ call[d].token \in Issued
          /\ call[d].loaded.family = tokens[call[d].token].family
      BY <3>1 DEF SessionInv, CopyHolds, Presenting
    <3> QED
      BY <1>0, <3>1, <3>2 DEF FamiliesHaveBegun, Family
  <2>2. LiveIn(Family(d))' = LiveIn(Family(d)) /\ Issued' = Issued
    BY <2>1 DEF LiveIn, Live, Issued
  <2> QED
    BY <2>1, <2>2 DEF DetectionReaches, LiveIn
<1>3. CASE CallStep(d) /\ ~ FindFamily(d)
  <2>1. FindAll(d)
    BY <1>0, <1>3, StepKinds DEF Ended
  <2> QED
    BY <1>0, <2>1, FieldsWritten DEF FindAll, SessionInv, UnspentCopy, Unspent, FoundReuse
<1> QED
  BY <1>0, <1>1, <1>2, <1>3, OthersStand DEF Next, vars, SetActive, Expire

\* What excuses a live token goes on doing so.
LEMMA ExcuseStays ==
  ASSUME ReuseInv, [Next]_vars, NEW d \in Calls, call[d].pc # "idle",
         Family(d)' = Family(d), Excused(d)
  PROVE  Excused(d)'
<1>1. PICK c \in overlaps[d] \cap Issued : tokens[c].family = Family(d)
  BY DEF Excused
<1>2. overlaps[d] \subseteq overlaps'[d] /\ c \in Issued' /\ Ages(c)
  BY MeetingStep, RowsRemain DEF ReuseInv
<1> QED
  BY <1>1, <1>2 DEF Excused, Ages

\* A call that looks at a token of the family finds it revoked, or there is an
\* excuse for its being live.
LEMMA DetectedStep ==
  ASSUME ReuseInv, [Next]_vars, NEW d \in HaveDetected'
  PROVE  DetectionHolds(d)'
<1> USE DEF ReuseInv
<1>0. /\ SessionInv /\ TypeOK /\ d \in Calls
      /\ Issued \subseteq Issued' /\ \A t \in Issued : Ages(t)
  BY RowsRemain DEF SessionInv, HaveDetected
<1>1. CASE d \in HaveDetected /\ call'[d] = call[d]
  <2>1. DetectionHolds(d) /\ Family(d)' = Family(d) /\ call[d].pc # "idle"
    BY <1>1 DEF HaveDetected, Family
  <2>2. overlaps[d] \subseteq overlaps'[d] /\ (Excused(d) => Excused(d)')
    BY <1>0, <2>1, MeetingStep, ExcuseStays
  <2>3. ASSUME NEW t \in LiveIn(Family(d))'
        PROVE  Excused(d)'
    <3>1. t \in Live' /\ tokens'[t].family = Family(d)
      BY <2>1, <2>3 DEF LiveIn
    <3>2. CASE t \in Live /\ tokens'[t].family = tokens[t].family
      BY <2>1, <2>2, <3>1, <3>2 DEF DetectionHolds, LiveIn
    <3>3. CASE ~ tokens[t].issued /\ Issue(t) /\ tokens'[t].family = t
      BY <2>1, <3>1, <3>3 DEF DetectionHolds, Issued
    <3>4. CASE Rotate(t) /\ tokens'[t].family = Family(t)
      <4>1. t \in Calls /\ t \in Issued' /\ Family(t) = Family(d)
        BY <3>1, <3>4 DEF Live, Issued
      <4>2. t \in overlaps[d] \/ Excused(d)
        BY <2>1, <3>4, <4>1 DEF DetectionHolds, Rotate
      <4> QED
        BY <2>1, <2>2, <3>1, <4>1, <4>2 DEF Excused
    <3> QED
      BY <1>0, <3>1, <3>2, <3>3, <3>4, LiveTokens
  <2>4. ASSUME NEW c \in Calls, call'[c].pc \in {"user", "rotate"}, Family(c)' = Family(d)'
        PROVE  c \in overlaps'[d] \/ Excused(d)'
    <3>1. CASE call[c].pc \in {"user", "rotate"} /\ call'[c].loaded = call[c].loaded
      BY <2>1, <2>2, <2>4, <3>1 DEF DetectionHolds, Family
    <3>2. CASE Refresh(c)
      <4>1. PICK t \in Issued : /\ ~ tokens[t].revoked
                                /\ call'[c].loaded = tokens[t]
        BY <1>0, <2>4, <3>2, FieldsWritten DEF Refresh
      <4>2. t \in LiveIn(Family(d))
        BY <2>1, <2>4, <4>1 DEF LiveIn, Live, Family
      <4> QED
        BY <2>1, <2>2, <4>2 DEF DetectionHolds
    <3>3. CASE Login(c) \/ LogoutAll(c)
      BY <1>0, <2>4, <3>3, FieldsWritten
    <3>4. CASE Logout(c)
      BY <1>0, <2>4, <3>4, FieldsWritten DEF Logout
    <3>5. CASE call'[c] = call[c]
      BY <2>4, <3>1, <3>5
    <3>6. CASE CallStep(c)
      BY <1>0, <2>4, <3>1, <3>2, <3>3, <3>4, <3>6, StepKinds DEF Ended
    <3> QED
      BY <1>0, <3>5, <3>6, OthersStand DEF Next, vars, SetActive, Expire
  <2> QED
    BY <1>0, <2>1, <2>3, <2>4 DEF DetectionHolds
<1>2. CASE Revoke(d)
  <2>1. /\ call[d].pc = "revoke" /\ FoundReuse(d) /\ Family(d)' = Family(d)
        /\ overlaps' = overlaps /\ d \in InProgress
    BY <1>0, <1>2, FieldsWritten DEF Revoke, HaveDetected, FoundReuse, Family, InProgress,
         Ended
  <2>2. DetectionReaches(d)
    BY <1>0, <2>1
  <2>3. \A c \in Calls \ {d} : call'[c] = call[c]
    BY <1>0, <1>2, OthersStand DEF CallStep
  <2>4. call'[d].pc \in Ended
    BY <1>0, <1>2, FieldsWritten DEF Revoke, Ended
  <2>5. ASSUME NEW t \in LiveIn(Family(d))'
        PROVE  Excused(d)'
    <3>1. t \in Live' /\ tokens'[t].family = Family(d)
      BY <2>1, <2>5 DEF LiveIn
    <3>2. t \in Live /\ tokens'[t].family = tokens[t].family
      <4>1. ~ Issue(t) /\ ~ Rotate(t)
        <5>1. t \in Calls /\ (t = d \/ call'[t] = call[t])
          BY <2>3, <3>1 DEF Live, Issued
        <5>2. Issue(t) \/ Rotate(t) =>
                call[t].pc \in {"issue", "rotate"} /\ call'[t].pc = "done"
          BY <1>0, <5>1, FieldsWritten DEF Issue, Rotate
        <5> QED
          BY <2>1, <5>1, <5>2
      <4> QED
        BY <1>0, <3>1, <4>1, LiveTokens
    <3>3. t \in call[d].seen \cup overlaps[d]
      BY <2>2, <3>1, <3>2 DEF DetectionReaches, LiveIn
    <3>4. t \notin call[d].seen
      BY <1>0, <1>2, <3>1, <3>2, RevokedWhenFound
    <3> QED
      BY <2>1, <3>1, <3>3, <3>4 DEF Excused, Live
  <2>6. ASSUME NEW c \in Calls, call'[c].pc \in {"user", "rotate"}
        PROVE  c \in overlaps'[d]
    <3>1. c # d /\ call'[c] = call[c]
      BY <2>6, <2>3, <2>4 DEF Ended
    <3> QED
      BY <2>1, <2>6, <3>1 DEF CallsHaveMet, InProgress, Ended
  <2> QED
    BY <1>0, <2>1, <2>2, <2>5, <2>6 DEF DetectionHolds, DetectionReaches
<1>3. CASE CallStep(d) /\ ~ Revoke(d)
  <2>1. call'[d].pc = "refused" /\ FoundReuse(d)'
    BY DEF HaveDetected, FoundReuse
  <2>2. CASE Refresh(d)
    BY <1>0, <2>1, <2>2, FieldsWritten DEF Refresh, FoundReuse, SessionInv
  <2>3. CASE RevokeExpired(d)
    BY <1>0, <2>1, <2>3, FieldsWritten DEF RevokeExpired, FoundReuse, SessionInv, CopyHolds,
         Presenting
  <2>4. CASE Login(d) \/ LogoutAll(d) \/ ReadUser(d)
    BY <1>0, <2>1, <2>4, FieldsWritten DEF ReadUser, FoundReuse, SessionInv, UnspentCopy,
         Unspent
  <2>5. CASE Logout(d) \/ Issue(d) \/ Rotate(d) \/ RevokePresented(d)
    BY <1>0, <2>1, <2>5, FieldsWritten DEF Logout, Issue, Rotate, RevokePresented
  <2> QED
    BY <1>0, <1>3, <2>1, <2>2, <2>3, <2>4, <2>5, StepKinds
<1> QED
  <2>1. CASE call'[d] = call[d]
    BY <1>0, <1>1, <2>1 DEF HaveDetected
  <2> QED
    BY <1>0, <1>2, <1>3, <2>1, OthersStand DEF Next, vars, SetActive, Expire

LEMMA ReuseBegins ==
  ASSUME Init
  PROVE  ReuseInv
  BY InitHolds DEF Init, ReuseInv, CallsHaveMet, FamiliesHaveBegun, HaveDetected,
     InProgress, Issued, IdleCall, AbsentToken, Fresh

LEMMA ReuseStep ==
  ASSUME ReuseInv, [Next]_vars
  PROVE  ReuseInv'
  BY SessionStep, MeetingStep, FamiliesStep, DetectionStep, DetectedStep DEF ReuseInv

\* When reuse was detected, the family has no live token, unless a call that
\* overlapped the detection issued a token of it.
THEOREM ReuseKillsTheFamily == Spec => []ReusedFamilyIsDead
<1>1. ReuseInv => ReusedFamilyIsDead
  BY DEF ReuseInv, ReusedFamilyIsDead, DetectionHolds, Excused, Family
<1> QED
  BY <1>1, ReuseBegins, ReuseStep, PTL DEF Spec

-----------------------------------------------------------------------------
(* Logout-all *)

IsLogoutAll(d) == call[d].pc = "revoke" /\ call[d].token = NoToken

\* What lives of the user while the UPDATE waits has been found by it, or is of a
\* call that overlaps it.
UserIsReached(d) ==
  \A t \in Live : tokens[t].user = call[d].user => t \in call[d].seen \cup overlaps[d]

LogoutInv == ReuseInv /\ \A d \in Calls : IsLogoutAll(d) => UserIsReached(d)

\* The UPDATE finds what is live; what is added while it waits is added by a call
\* in progress.
LEMMA LogoutStep ==
  ASSUME LogoutInv, [Next]_vars, NEW d \in Calls, IsLogoutAll(d)'
  PROVE  UserIsReached(d)'
<1> USE DEF IsLogoutAll
<1>0. ReuseInv /\ SessionInv /\ TypeOK /\ CallsHaveMet
  BY DEF LogoutInv, ReuseInv, SessionInv
<1>1. CASE call'[d] = call[d]
  <2>1. UserIsReached(d) /\ d \in InProgress
    BY <1>1 DEF LogoutInv, InProgress, Ended
  <2>2. overlaps[d] \subseteq overlaps'[d]
    BY <1>0, <2>1, MeetingStep DEF InProgress
  <2>3. ASSUME NEW t \in Live', tokens'[t].user = call[d].user
        PROVE  t \in call[d].seen \cup overlaps'[d]
    <3>1. CASE t \in Live
      <4>1. tokens'[t].user = tokens[t].user
        BY <1>0, <3>1, RowsRemain DEF Live, Ages
      <4> QED
        BY <2>1, <2>2, <2>3, <3>1, <4>1 DEF UserIsReached
    <3>2. CASE t \in InProgress /\ (Issue(t) \/ Rotate(t))
      <4>1. t # d
        BY <1>1, <3>2 DEF Issue, Rotate
      <4> QED
        BY <1>0, <2>1, <2>2, <3>2, <4>1 DEF CallsHaveMet
    <3> QED
      BY <1>0, <3>1, <3>2, LiveTokens
  <2> QED
    BY <1>1, <2>3 DEF UserIsReached
<1>2. CASE FindAll(d)
  <2>. DEFINE found == {t \in Live : tokens[t].user = call[d].user}
  <2>1. Finds(d, found)
    BY <1>2 DEF FindAll
  <2>. HIDE DEF found
  <2>2. call'[d].user = call[d].user /\ call'[d].seen = found
    BY <1>0, <2>1, FieldsWritten
  <2>3. tokens' = tokens
    BY <2>1 DEF Finds
  <2> QED
    BY <2>2, <2>3 DEF UserIsReached, Live, Issued, found
<1>3. CASE CallStep(d) /\ ~ FindAll(d)
  <2>1. FindFamily(d)
    BY <1>0, <1>3, StepKinds DEF Ended
  <2>2. call[d].token \in Calls
    BY <1>0, <2>1 DEF FindFamily, SessionInv, CopyHolds, Presenting, Issued
  <2>3. call'[d].token = call[d].token
    BY <1>0, <2>1, FieldsWritten DEF FindFamily
  <2> QED
    BY <2>2, <2>3, CallsAssumption
<1> QED
  BY <1>0, <1>1, <1>2, <1>3, OthersStand DEF Next, vars, SetActive, Expire

\* Only the call's own last step ends a mass revocation; nobody issues a token in
\* that step.
LEMMA LogoutEnds ==
  ASSUME LogoutInv, [Next]_vars, NEW c \in Calls, IsLogoutAll(c), call'[c].pc = "done",
         NEW t \in Live', tokens'[t].user = call[c].user
  PROVE  t \in overlaps[c]
<1>0. ReuseInv /\ SessionInv /\ TypeOK /\ UserIsReached(c)
  BY DEF LogoutInv, ReuseInv, SessionInv
<1>1. CallStep(c)
  BY <1>0, OthersStand DEF Next, vars, SetActive, Expire, IsLogoutAll
<1>2. Revoke(c)
  BY <1>0, <1>1, StepKinds DEF IsLogoutAll, Issue, RevokeExpired, Rotate, RevokePresented
<1>3. t \in Calls /\ ~ Issue(t) /\ ~ Rotate(t)
  <2>1. t \in Calls /\ (t = c \/ call'[t] = call[t])
    BY <1>0, <1>1, OthersStand DEF Live, Issued
  <2>2. Issue(t) \/ Rotate(t) =>
          call[t].pc \in {"issue", "rotate"} /\ call'[t].pc = "done"
    BY <1>0, <2>1, FieldsWritten DEF Issue, Rotate
  <2> QED
    BY <2>1, <2>2 DEF IsLogoutAll
<1>4. t \in Live
  BY <1>0, <1>3, LiveTokens
<1>5. tokens'[t].user = tokens[t].user
  BY <1>0, <1>4, RowsRemain DEF Live, Ages
<1>6. t \in call[c].seen \cup overlaps[c]
  BY <1>0, <1>4, <1>5 DEF UserIsReached
<1>7. t \notin call[c].seen
  BY <1>0, <1>2, <1>4, RevokedWhenFound
<1> QED
  BY <1>6, <1>7

\* A logout-all leaves no token of its user live but those issued by calls that
\* overlapped it, and what is revoked stays so, whatever overlaps.
THEOREM MassRevocationIsComplete == Spec => RevocationIsComplete
<1>1. Init => LogoutInv
  BY ReuseBegins DEF Init, LogoutInv, IsLogoutAll, IdleCall
<1>2. LogoutInv /\ [Next]_vars => LogoutInv'
  BY ReuseStep, LogoutStep DEF LogoutInv
<1>3. ASSUME LogoutInv, [Next]_vars
      PROVE  [/\ Live' \cap (Issued \ Live) = {}
              /\ \A c \in Calls :
                   call[c].pc = "revoke" /\ call[c].token = NoToken /\ call'[c].pc = "done" =>
                     \A t \in Live' : tokens'[t].user = call[c].user => t \in overlaps[c]]_vars
  <2>1. Live' \cap (Issued \ Live) = {}
    <3>1. \A t \in Issued : Ages(t)
      BY <1>3, RowsRemain DEF LogoutInv, ReuseInv
    <3> QED
      BY <3>1 DEF Live, Issued, Ages
  <2>2. \A c \in Calls :
          call[c].pc = "revoke" /\ call[c].token = NoToken /\ call'[c].pc = "done" =>
            \A t \in Live' : tokens'[t].user = call[c].user => t \in overlaps[c]
    BY <1>3, LogoutEnds DEF IsLogoutAll
  <2> QED
    BY <2>1, <2>2
<1> QED
  BY <1>1, <1>2, <1>3, PTL DEF Spec, RevocationIsComplete

-----------------------------------------------------------------------------
(* The tokens of a family form a tree: that of a login is its root, a token *)
(* that was exchanged has the tokens that were issued for it below it.      *)

\* Logins present no token, and a token that another one was issued for is
\* revoked and of the same family.
FamilyTree ==
  /\ \A c \in Calls : call[c].pc \in {"idle", "issue"} => call[c].token = NoToken
  /\ \A s \in Issued : call[s].token # NoToken =>
       /\ call[s].token \in Issued
       /\ tokens[call[s].token].revoked
       /\ tokens[call[s].token].family = tokens[s].family

\* A refresh that is under way has met those that have exchanged its token.
SiblingsHaveMet ==
  \A c \in Calls, s \in Issued :
    call[c].pc \in {"user", "rotate"} /\ call[s].token = call[c].token
      => s \in overlaps[c] /\ c \in overlaps[s]

\* The tokens of the family that no other one was issued for.
Leaves(f) == {t \in Issued : tokens[t].family = f /\ \A s \in Issued : call[s].token # t}

LeavesAreForks ==
  \A f \in Calls :
    \/ Cardinality(Leaves(f)) <= 1
    \/ Cardinality(Leaves(f)) <= Cardinality(Forks(f))

ForkInv == ReuseInv /\ FamilyTree /\ SiblingsHaveMet /\ LeavesAreForks

\* A call that has issued a token is over, and stays as it is.
LEMMA IssuersStand ==
  ASSUME SessionInv, [Next]_vars, NEW s \in Issued
  PROVE  call'[s] = call[s]
<1>1. TypeOK /\ s \in Calls /\ call[s].pc = "done"
  BY DEF SessionInv, IssuersAreDone, Issued
<1>2. ~CallStep(s)
  BY <1>1, StepKinds
<1> QED
  BY <1>1, <1>2, OthersStand DEF Next, vars, SetActive, Expire

\* Only a call that issues a token of its own adds one.
LEMMA OneIssuer ==
  ASSUME SessionInv, [Next]_vars, NEW t \in Issued' \ Issued
  PROVE  /\ t \in Calls /\ ~ tokens[t].issued
         /\ Issued' = Issued \cup {t}
         /\ overlaps' = overlaps
         /\ call'[t].pc = "done" /\ call'[t].token = call[t].token
         /\ \A c \in Calls \ {t} : call'[c] = call[c]
         /\ Issue(t) \/ Rotate(t)
<1>1. TypeOK
  BY DEF SessionInv
<1>2. \A s \in Issued' \ Issued : s \in Calls /\ (Issue(s) \/ Rotate(s))
  BY RowsAge DEF Issued
<1>3. \A s \in Calls : Issue(s) \/ Rotate(s) =>
        /\ CallStep(s) /\ overlaps' = overlaps
        /\ call[s].pc # "done" /\ call'[s].pc = "done"
        /\ call'[s].token = call[s].token
  BY <1>1, FieldsWritten DEF Issue, Rotate, CallStep
<1>4. \A s \in Calls \ {t} : call'[s] = call[s]
  BY <1>1, <1>2, <1>3, OthersStand
<1>5. \A s \in Issued' \ Issued : s = t
  BY <1>2, <1>3, <1>4
<1>6. Issued \subseteq Issued'
  BY RowsRemain
<1> QED
  BY <1>2, <1>3, <1>4, <1>5, <1>6 DEF Issued

\* A login adds a tree, a refresh adds a token below the one that was presented.
LEMMA TreeGrows ==
  ASSUME ForkInv, [Next]_vars, NEW t \in Issued' \ Issued
  PROVE  \/ /\ call'[t].token = NoToken /\ tokens'[t].family = t
         \/ /\ call[t].pc = "rotate" /\ call'[t].token \in Issued
            /\ tokens'[call'[t].token].revoked
            /\ tokens'[t].family = tokens[call'[t].token].family
<1>1. SessionInv /\ TypeOK /\ FamilyTree
  BY DEF ForkInv, ReuseInv, SessionInv
<1>2. /\ t \in Calls /\ call'[t].token = call[t].token
      /\ Issue(t) \/ Rotate(t)
  BY <1>1, OneIssuer
<1>3. CASE Issue(t)
  <2>1. call[t].token = NoToken
    BY <1>1, <1>2, <1>3 DEF Issue, FamilyTree
  <2>2. tokens'[t].family = t
    BY <1>1, <1>2, <1>3 DEF Issue, Fresh, TypeOK
  <2> QED
    BY <1>2, <2>1, <2>2
<1>4. CASE Rotate(t)
  <2>1. /\ call[t].pc = "rotate" /\ call[t].token \in Issued
        /\ call[t].loaded.family = tokens[call[t].token].family
    BY <1>1, <1>2, <1>4 DEF Rotate, SessionInv, CopyHolds, Presenting
  <2>2. tokens'[t].family = call[t].loaded.family
    BY <1>1, <1>2, <1>4 DEF Rotate, Fresh, TypeOK
  <2>3. call[t].token # t /\ call[t].token \in Calls
    BY <2>1 DEF Issued
  <2>4. tokens'[call[t].token] = RevokedBy(tokens[call[t].token], call[t].loaded, t)
    BY <1>1, <1>2, <1>4, <2>3 DEF Rotate, TypeOK
  <2>5. tokens[call[t].token] \in TokenRows
    BY <1>1, <2>3 DEF TypeOK
  <2>6. tokens'[call[t].token].revoked
    BY <2>4, <2>5 DEF RevokedBy, TokenRows
  <2> QED
    BY <1>2, <2>1, <2>2, <2>6
<1> QED
  BY <1>2, <1>3, <1>4

\* The tree keeps its shape.
LEMMA FamilyTreeStep ==
  ASSUME ForkInv, [Next]_vars
  PROVE  FamilyTree'
<1>1. SessionInv /\ TypeOK /\ FamilyTree
  BY DEF ForkInv, ReuseInv, SessionInv
<1>2. ASSUME NEW c \in Calls, call'[c].pc \in {"idle", "issue"}
      PROVE  call'[c].token = NoToken
  <2>1. CASE call'[c] = call[c]
    BY <1>1, <1>2, <2>1 DEF FamilyTree
  <2>2. CASE Login(c) \/ LogoutAll(c)
    BY <1>1, <2>2, FieldsWritten DEF FamilyTree
  <2>3. CASE Refresh(c)
    <3>1. \E t \in Issued, step \in {"expire", "user", "family", "refused"} :
            Reads(c, t, step)
      BY <2>3 DEF Refresh
    <3> QED
      BY <1>1, <1>2, <3>1, FieldsWritten
  <2>4. CASE Logout(c)
    BY <1>1, <1>2, <2>4, FieldsWritten DEF Logout
  <2>5. CASE CallStep(c)
    BY <1>1, <1>2, <2>2, <2>3, <2>4, <2>5, StepKinds DEF Ended
  <2> QED
    BY <1>1, <2>1, <2>5, OthersStand DEF Next, vars, SetActive, Expire
<1>3. ASSUME NEW s \in Issued', call'[s].token # NoToken
      PROVE  /\ call'[s].token \in Issued'
             /\ tokens'[call'[s].token].revoked
             /\ tokens'[call'[s].token].family = tokens'[s].family
  <2>1. /\ Issued \subseteq Issued'
        /\ \A t \in Issued : /\ tokens'[t].family = tokens[t].family
                             /\ tokens[t].revoked => tokens'[t].revoked
    BY <1>1, RowsRemain DEF Ages
  <2>2. CASE s \in Issued
    BY <1>1, <1>3, <2>1, <2>2, IssuersStand DEF FamilyTree
  <2>3. CASE s \notin Issued
    BY <1>3, <2>1, <2>3, TreeGrows
  <2> QED
    BY <2>2, <2>3
<1> QED
  BY <1>2, <1>3 DEF FamilyTree

\* A refresh reads a token that nothing was issued for; whoever exchanges it
\* from then on meets the refresh.
LEMMA SiblingsStep ==
  ASSUME ForkInv, [Next]_vars
  PROVE  SiblingsHaveMet'
<1>1. ReuseInv /\ SessionInv /\ TypeOK /\ FamilyTree /\ SiblingsHaveMet
  BY DEF ForkInv, ReuseInv, SessionInv
<1> SUFFICES ASSUME NEW c \in Calls, NEW s \in Issued',
                    call'[c].pc \in {"user", "rotate"},
                    call'[s].token = call'[c].token
             PROVE  s \in overlaps'[c] /\ c \in overlaps'[s]
  BY DEF SiblingsHaveMet
<1>2. call'[c].token \in Calls
  <2>1. CopyHolds'
    BY <1>1, SessionStep DEF SessionInv
  <2> QED
    BY <2>1 DEF CopyHolds, Presenting, Issued
<1>3. \/ call[c].pc \in {"user", "rotate"} /\ call'[c].token = call[c].token
      \/ ~ tokens[call'[c].token].revoked
  <2>1. CASE call'[c] = call[c]
    BY <2>1
  <2>2. CASE ReadUser(c)
    BY <1>1, <2>2, FieldsWritten DEF ReadUser
  <2>3. CASE Refresh(c)
    BY <1>1, <2>3, FieldsWritten DEF Refresh
  <2>4. CASE Login(c) \/ LogoutAll(c)
    BY <1>1, <2>4, FieldsWritten
  <2>5. CASE Logout(c)
    BY <1>1, <2>5, FieldsWritten DEF Logout
  <2>6. CASE CallStep(c)
    BY <1>1, <2>2, <2>3, <2>4, <2>5, <2>6, StepKinds DEF Ended
  <2> QED
    BY <1>1, <2>1, <2>6, OthersStand DEF Next, vars, SetActive, Expire
<1>4. CASE s \in Issued
  <2>1. call'[s] = call[s] /\ s \in Calls /\ call[s].pc = "done"
    BY <1>1, <1>4, IssuersStand DEF SessionInv, IssuersAreDone, Issued
  <2>2. tokens[call'[c].token].revoked
    BY <1>1, <1>2, <1>4, <2>1, CallsAssumption DEF FamilyTree
  <2>3. call[c].pc \in {"user", "rotate"} /\ call[s].token = call[c].token
    BY <1>3, <2>1, <2>2
  <2>4. s \in overlaps[c] /\ c \in overlaps[s]
    BY <1>1, <1>4, <2>3 DEF SiblingsHaveMet
  <2>5. overlaps[c] \subseteq overlaps'[c] /\ overlaps[s] \subseteq overlaps'[s]
    BY <1>1, <2>1, <2>3, MeetingStep
  <2> QED
    BY <2>4, <2>5
<1>5. CASE s \notin Issued
  <2>1. /\ s \in Calls /\ overlaps' = overlaps /\ call'[s].pc = "done"
        /\ \A d \in Calls \ {s} : call'[d] = call[d]
    BY <1>1, <1>5, OneIssuer
  <2>2. call[s].pc = "rotate"
    BY <1>2, <1>5, CallsAssumption, TreeGrows
  <2>3. s # c /\ call'[c] = call[c]
    BY <2>1
  <2>4. s \in InProgress /\ c \in InProgress
    BY <2>1, <2>2, <2>3 DEF InProgress, Ended
  <2> QED
    BY <1>1, <2>1, <2>3, <2>4 DEF ReuseInv, CallsHaveMet
<1> QED
  BY <1>4, <1>5

\* Forks stay forks.
LEMMA ForksRemain ==
  ASSUME ForkInv, [Next]_vars, NEW f
  PROVE  Forks(f) \subseteq Forks(f)'
<1>1. ReuseInv /\ SessionInv
  BY DEF ForkInv, ReuseInv
<1> SUFFICES ASSUME NEW s \in Forks(f)
             PROVE  s \in Forks(f)'
  OBVIOUS
<1>2. s \in Issued /\ tokens[s].family = f /\ call[s].token # NoToken
  BY DEF Forks
<1>3. PICK t \in overlaps[s] \cap Issued : call[t].token = call[s].token
  BY DEF Forks
<1>4. call'[s] = call[s] /\ call'[t] = call[t]
  BY <1>1, <1>2, <1>3, IssuersStand
<1>5. /\ s \in Issued' /\ t \in Issued'
      /\ tokens'[s].family = f
  BY <1>1, <1>2, <1>3, RowsRemain DEF Ages
<1>6. overlaps[s] \subseteq overlaps'[s]
  <2>1. s \in Calls /\ call[s].pc = "done"
    BY <1>1, <1>2 DEF SessionInv, IssuersAreDone, Issued
  <2> QED
    BY <1>1, <2>1, MeetingStep
<1> QED
  BY <1>2, <1>3, <1>4, <1>5, <1>6 DEF Forks

\* Sets of calls, of tokens among them, are finite.
LEMMA FamiliesAreFinite ==
  ASSUME NEW f
  PROVE  /\ IsFiniteSet(Leaves(f)) /\ Cardinality(Leaves(f)) \in Nat
         /\ IsFiniteSet(Forks(f)) /\ Cardinality(Forks(f)) \in Nat
         /\ IsFiniteSet(LiveIn(f)) /\ Cardinality(LiveIn(f)) \in Nat
<1>1. ASSUME NEW S, S \subseteq Calls
      PROVE  IsFiniteSet(S) /\ Cardinality(S) \in Nat
  BY <1>1, CallsAssumption, FS_Subset, FS_CardinalityType
<1>2. Leaves(f) \subseteq Calls /\ Forks(f) \subseteq Calls /\ LiveIn(f) \subseteq Calls
  BY DEF Leaves, Forks, LiveIn, Live, Issued
<1> QED
  BY <1>1, <1>2

\* The same of the next state.
LEMMA FamiliesAreFiniteNext ==
  ASSUME NEW f
  PROVE  /\ IsFiniteSet(Leaves(f)') /\ Cardinality(Leaves(f)') \in Nat
         /\ IsFiniteSet(Forks(f)') /\ Cardinality(Forks(f)') \in Nat
<1>1. ASSUME NEW S, S \subseteq Calls
      PROVE  IsFiniteSet(S) /\ Cardinality(S) \in Nat
  BY <1>1, CallsAssumption, FS_Subset, FS_CardinalityType
<1>2. Leaves(f)' \subseteq Calls /\ Forks(f)' \subseteq Calls
  BY DEF Leaves, Forks, Issued
<1> QED
  BY <1>1, <1>2

\* No step gives a family a leaf, unless it issues a token of that family.
LEMMA OtherLeaves ==
  ASSUME ForkInv, [Next]_vars, NEW f, NEW t \in Leaves(f)'
  PROVE  t \in Leaves(f) \/ t \notin Issued
<1>1. SessionInv
  BY DEF ForkInv, ReuseInv
<1>2. CASE t \in Issued
  <2>1. tokens[t].family = f
    BY <1>1, <1>2, RowsRemain DEF Ages, Leaves
  <2>2. \A s \in Issued : s \in Issued' /\ call'[s] = call[s]
    BY <1>1, RowsRemain, IssuersStand
  <2> QED
    BY <1>2, <2>1, <2>2 DEF Leaves
<1> QED
  BY <1>2

\* Exchanging a leaf puts its successor in its place.  Exchanging a token once
\* more adds a leaf, and makes a fork of it and of its sibling.
LEMMA LeavesOfPresented ==
  ASSUME ForkInv, [Next]_vars, NEW c \in Issued' \ Issued,
         call[c].pc = "rotate", call'[c].token \in Issued, NEW f,
         tokens[call'[c].token].family = f, tokens'[c].family = f
  PROVE  \/ Cardinality(Leaves(f)') <= 1
         \/ Cardinality(Leaves(f)') <= Cardinality(Forks(f)')
<1>1. ReuseInv /\ SessionInv /\ FamilyTree /\ SiblingsHaveMet
  BY DEF ForkInv, ReuseInv
<1>2. /\ c \in Calls /\ overlaps' = overlaps /\ call'[c].token = call[c].token
      /\ Issued' = Issued \cup {c}
  BY <1>1, OneIssuer
<1>3. PICK p \in Issued : p = call[c].token
  BY <1>2
<1>4. \A t \in Leaves(f)' : t \in Leaves(f) \cup {c} /\ t # p
  <2>1. \A t \in Leaves(f)' : t \in Issued' /\ t # p
    BY <1>2, <1>3 DEF Leaves
  <2> QED
    BY <1>2, <2>1, OtherLeaves
<1>. DEFINE L == Leaves(f)  L1 == Leaves(f)'  F == Forks(f)  F1 == Forks(f)'
<1>5. /\ IsFiniteSet(L) /\ Cardinality(L) \in Nat
      /\ IsFiniteSet(F) /\ Cardinality(F) \in Nat
      /\ IsFiniteSet(L1) /\ Cardinality(L1) \in Nat
      /\ IsFiniteSet(F1) /\ Cardinality(F1) \in Nat
  BY FamiliesAreFinite, FamiliesAreFiniteNext
<1>6. F \subseteq F1 /\ c \notin L /\ c \notin F
  BY ForksRemain DEF Leaves, Forks
<1>7. Cardinality(L) <= 1 \/ Cardinality(L) <= Cardinality(F)
  <2>1. f \in Calls
    BY <1>1, <1>3, <1>2 DEF ReuseInv, FamiliesHaveBegun, Issued
  <2> QED
    BY <2>1 DEF ForkInv, LeavesAreForks
<1>8. Cardinality(F) <= Cardinality(F1)
  BY <1>5, <1>6, FS_Subset
<1>9. CASE \A s \in Issued : call[s].token # p
  <2>1. p \in L
    BY <1>2, <1>3, <1>9 DEF Leaves
  <2>. HIDE DEF L, L1, F, F1
  <2>. DEFINE M == L \ {p}
  <2>2. Cardinality(M) = Cardinality(L) - 1 /\ IsFiniteSet(M) /\ c \notin M
    BY <1>5, <1>6, <2>1, FS_RemoveElement
  <2>4. L1 \subseteq M \cup {c}
    BY <1>4 DEF L, L1
  <2>. HIDE DEF M
  <2>3. IsFiniteSet(M \cup {c}) /\ Cardinality(M \cup {c}) = Cardinality(M) + 1
    BY <2>2, FS_AddElement
  <2>5. Cardinality(L1) <= Cardinality(L)
    BY <1>5, <2>2, <2>3, <2>4, FS_Subset
  <2>. QED
    BY <1>5, <1>7, <1>8, <2>5 DEF L, L1, F, F1
<1>10. ASSUME NEW s \in Issued, call[s].token = p
       PROVE  \/ Cardinality(L1) <= 1
              \/ Cardinality(L1) <= Cardinality(F1)
  <2>1. s \in overlaps[c] /\ c \in overlaps[s]
    BY <1>1, <1>2, <1>3, <1>10 DEF SiblingsHaveMet
  <2>2. /\ call'[s] = call[s] /\ s \in Issued' /\ p # NoToken
        /\ tokens'[s].family = f
    <3>1. call'[s] = call[s] /\ s \in Issued' /\ tokens'[s].family = tokens[s].family
      BY <1>1, IssuersStand, RowsRemain DEF Ages
    <3>2. p # NoToken
      BY CallsAssumption DEF Issued
    <3>3. tokens[s].family = f
      BY <1>1, <1>2, <1>3, <1>10, <3>2 DEF FamilyTree
    <3>. QED
      BY <3>1, <3>2, <3>3
  <2>3. c \in F1 /\ s \in F1
    BY <1>2, <1>3, <1>10, <2>1, <2>2 DEF Forks
  <2>4. L1 \subseteq L \cup {c} /\ s # c
    BY <1>4
  <2>. HIDE DEF L, L1, F, F1
  <2>5. /\ Cardinality(L \cup {c}) = Cardinality(L) + 1 /\ IsFiniteSet(L \cup {c})
        /\ Cardinality(F \cup {c}) = Cardinality(F) + 1 /\ IsFiniteSet(F \cup {c})
    BY <1>5, <1>6, FS_AddElement
  <2>6. Cardinality(L1) <= Cardinality(L) + 1
    BY <2>4, <2>5, FS_Subset
  <2>7. Cardinality(F) + 1 <= Cardinality(F1)
    BY <1>5, <1>6, <2>3, <2>5, FS_Subset
  <2>8. 2 <= Cardinality(F1)
    <3>. DEFINE One == {c}
    <3>1. IsFiniteSet(One) /\ Cardinality(One) = 1 /\ s \notin One
      BY <2>4, FS_Singleton
    <3>2. One \cup {s} \in SUBSET F1
      BY <2>3
    <3>. HIDE DEF One
    <3>3. Cardinality(One \cup {s}) = Cardinality(One) + 1
      BY <3>1, FS_AddElement
    <3>4. Cardinality(One \cup {s}) <= Cardinality(F1)
      BY <1>5, <3>2, FS_Subset
    <3>. QED
      BY <3>1, <3>3, <3>4
  <2>. QED
    BY <1>5, <1>7, <2>6, <2>7, <2>8
<1> QED
  BY <1>9, <1>10

\* No family has more leaves than forks, unless it has one leaf.
LEMMA LeavesStep ==
  ASSUME ForkInv, [Next]_vars
  PROVE  LeavesAreForks'
<1>1. ReuseInv /\ SessionInv /\ TypeOK /\ FamilyTree
  BY DEF ForkInv, ReuseInv, SessionInv
<1> SUFFICES ASSUME NEW f \in Calls
             PROVE  \/ Cardinality(Leaves(f)') <= 1
                    \/ Cardinality(Leaves(f)') <= Cardinality(Forks(f)')
  BY DEF LeavesAreForks
<1>2. CASE Leaves(f)' \subseteq Leaves(f)
  <2>1. /\ Cardinality(Leaves(f)') <= Cardinality(Leaves(f))
        /\ Cardinality(Forks(f)) <= Cardinality(Forks(f)')
    BY <1>2, ForksRemain, FamiliesAreFinite, FamiliesAreFiniteNext, FS_Subset
  <2>2. \/ Cardinality(Leaves(f)) <= 1
        \/ Cardinality(Leaves(f)) <= Cardinality(Forks(f))
    BY DEF ForkInv, LeavesAreForks
  <2> QED
    BY <2>1, <2>2, FamiliesAreFinite, FamiliesAreFiniteNext
<1>3. ASSUME NEW c \in Leaves(f)', c \notin Leaves(f)
      PROVE  \/ Cardinality(Leaves(f)') <= 1
             \/ Cardinality(Leaves(f)') <= Cardinality(Forks(f)')
  <2>1. c \in Issued' \ Issued /\ tokens'[c].family = f
    BY <1>3, OtherLeaves DEF Leaves
  <2>2. CASE call'[c].token = NoToken /\ tokens'[c].family = c
    <3>1. \A t \in Leaves(f)' : t = c
      <4>1. \A t \in Issued : tokens[t].family # c
        BY <1>1, <2>1 DEF ReuseInv, FamiliesHaveBegun
      <4>2. Leaves(f) = {}
        BY <2>1, <2>2, <4>1 DEF Leaves
      <4>3. Issued' = Issued \cup {c}
        BY <1>1, <2>1, OneIssuer
      <4> QED
        BY <4>2, <4>3, OtherLeaves DEF Leaves
    <3>2. Leaves(f)' \in SUBSET {c}
      BY <3>1
    <3>3. IsFiniteSet({c}) /\ Cardinality({c}) = 1
      BY FS_Singleton
    <3> QED
      BY <3>2, <3>3, FS_Subset
  <2>3. CASE /\ call[c].pc = "rotate" /\ call'[c].token \in Issued
             /\ tokens'[c].family = tokens[call'[c].token].family
    BY <2>1, <2>3, LeavesOfPresented
  <2> QED
    BY <2>1, <2>2, <2>3, TreeGrows
<1> QED
  BY <1>2, <1>3

\* The live tokens of a family are leaves of its tree, and every leaf but one is
\* owed to refreshes that overlapped: a family has one live token at most, or no
\* more than the successors that such refreshes have issued (refresh_session).
THEOREM LiveTokensComeFromOverlaps == Spec => []LiveTokensAreForks
<1>1. Init => ForkInv
  <2>1. Init => ReuseInv
    BY InitHolds DEF Init, ReuseInv, CallsHaveMet, FamiliesHaveBegun, HaveDetected,
       InProgress, Issued, IdleCall, AbsentToken, Fresh
  <2>2. Init => Issued = {}
    BY DEF Init, Issued, AbsentToken, Fresh
  <2>3. Init => FamilyTree /\ SiblingsHaveMet
    BY <2>2 DEF Init, FamilyTree, SiblingsHaveMet, IdleCall
  <2>4. Issued = {} => LeavesAreForks
    <3>1. Issued = {} => \A f \in Calls : Leaves(f) = {}
      BY DEF Leaves
    <3> QED
      BY <3>1, FS_EmptySet DEF LeavesAreForks
  <2> QED
    BY <2>1, <2>2, <2>3, <2>4 DEF ForkInv
<1>2. ForkInv /\ [Next]_vars => ForkInv'
  <2>1. ReuseInv /\ [Next]_vars => ReuseInv'
    BY SessionStep, MeetingStep, FamiliesStep, DetectionStep, DetectedStep DEF ReuseInv
  <2> QED
    BY <2>1, FamilyTreeStep, SiblingsStep, LeavesStep DEF ForkInv
<1>3. ForkInv => LiveTokensAreForks
  <2> SUFFICES ASSUME ForkInv, NEW f \in Calls
               PROVE  \/ Cardinality(LiveIn(f)) <= 1
                      \/ Cardinality(LiveIn(f)) <= Cardinality(Forks(f))
    BY DEF LiveTokensAreForks
  <2>1. LiveIn(f) \subseteq Leaves(f)
    <3>1. \A t \in Live, s \in Issued : call[s].token # t
      BY CallsAssumption DEF ForkInv, FamilyTree, Live, Issued
    <3> QED
      BY <3>1 DEF LiveIn, Leaves, Live
  <2>2. Cardinality(LiveIn(f)) <= Cardinality(Leaves(f))
    BY <2>1, FamiliesAreFinite, FS_Subset
  <2>3. \/ Cardinality(Leaves(f)) <= 1
        \/ Cardinality(Leaves(f)) <= Cardinality(Forks(f))
    BY DEF ForkInv, LeavesAreForks
  <2> QED
    BY <2>2, <2>3, FamiliesAreFinite
<1> QED
  BY <1>1, <1>2, <1>3, PTL DEF Spec

=============================================================================
