------------------------------ MODULE Accounts ------------------------------
(***************************************************************************)
(* The row of users that has one email, and who works on it at the same    *)
(* time: registrations of that email, administrators who set the role or   *)
(* the status, and the logins of LoginRateLimit, whose outcome now depends *)
(* on the row.  The other rows of the table meet none of these.            *)
(*                                                                         *)
(* Roles are read once per call, before its handler, and decide only       *)
(* whether it begins; calls here are those that have begun.                *)
(***************************************************************************)
EXTENDS LoginRateLimit, Orm

CONSTANTS
  Registrations,  \* POST /auth/register calls; each has a password of its own
  NoPassword,     \* one that none of them has
  PasswordOf,     \* the password that each login presents
  Edits, EditOf   \* PATCH /users/{id}/... calls: which column and value

Roles == {"admin", "developer"}

\* The column is_active.
Statuses == {"active", "inactive"}

EditType == [column : {"role"}, value : Roles]
            \cup [column : {"status"}, value : Statuses]

ASSUME AccountsAssumption ==
  /\ NoPassword \notin Registrations
  /\ PasswordOf \in [Clients -> Registrations \cup {NoPassword}]
  /\ EditOf \in [Edits -> EditType]

VARIABLES
  user,          \* the row, as committed
  registration,  \* per registration: where its handler is
  edit           \* per PATCH: where it is, and the copy of the row it loaded

accounts == <<user, registration, edit>>

accountVars == <<vars, accounts>>

UserRows == [exists : BOOLEAN, password : Registrations \cup {NoPassword},
             role : Roles, status : Statuses]

NoUser == [exists |-> FALSE, password |-> NoPassword, role |-> "developer",
           status |-> "active"]

AccountsInit ==
  /\ Init
  /\ user = NoUser
  /\ registration = [r \in Registrations |-> "check"]
  /\ edit = [e \in Edits |-> [pc |-> "load", loaded |-> NoUser]]

-----------------------------------------------------------------------------
(* Registration *)

\* register_user looks for the email; 409 if it is taken.
CheckEmail(r) ==
  /\ registration[r] = "check"
  /\ registration' = [registration EXCEPT ![r] =
                        IF user.exists THEN "duplicate" ELSE "create"]
  /\ UNCHANGED <<vars, user, edit>>

\* A variant of CreateUser: the insert overwrites the row that is there.
CreateOrReplace(r) ==
  /\ registration[r] = "create"
  /\ user' = [NoUser EXCEPT !.exists = TRUE, !.password = r]
  /\ registration' = [registration EXCEPT ![r] = "created"]
  /\ UNCHANGED <<vars, edit>>

\* The insert and its commit; the unique index on the email turns a second one
\* into the same 409.
CreateUser(r) ==
  /\ registration[r] = "create"
  /\ IF user.exists
     THEN /\ registration' = [registration EXCEPT ![r] = "duplicate"]
          /\ UNCHANGED user
     ELSE /\ registration' = [registration EXCEPT ![r] = "created"]
          /\ user' = [NoUser EXCEPT !.exists = TRUE, !.password = r]
  /\ UNCHANGED <<vars, edit>>

-----------------------------------------------------------------------------
(* Administration: PATCH /users/{id}/role and /status *)

LoadUser(e) ==
  /\ edit[e].pc = "load"
  /\ edit' = [edit EXCEPT ![e] =
                [pc |-> IF user.exists THEN "write" ELSE "missing",
                 loaded |-> user]]
  /\ UNCHANGED <<vars, user, registration>>

\* Variants of WriteUser: both endpoints write the role; the UPDATE writes every
\* column of the copy.
WriteRole(e) ==
  /\ edit[e].pc = "write"
  /\ user' = [user EXCEPT !.role = EditOf[e].value]
  /\ edit' = [edit EXCEPT ![e].pc = "done"]
  /\ UNCHANGED <<vars, registration>>

WriteWholeUser(e) ==
  /\ edit[e].pc = "write"
  /\ user' = [edit[e].loaded EXCEPT ![EditOf[e].column] = EditOf[e].value]
  /\ edit' = [edit EXCEPT ![e].pc = "done"]
  /\ UNCHANGED <<vars, registration>>

\* update_role, update_status: flush and commit of the one column.
WriteUser(e) ==
  /\ edit[e].pc = "write"
  /\ LET column == EditOf[e].column
     IN  user' = [user EXCEPT ![column] =
                    Column(EditOf[e].value, edit[e].loaded[column], @)]
  /\ edit' = [edit EXCEPT ![e].pc = "done"]
  /\ UNCHANGED <<vars, registration>>

-----------------------------------------------------------------------------
(* Logins, by what the row says *)

Matches(c) == user.exists /\ user.password = PasswordOf[c]

\* login_user between is_allowed and the next Redis command: an unknown email
\* is a wrong password.
Verify(c) ==
  /\ \/ ~ Matches(c) /\ WrongPassword(c)
     \/ Matches(c) /\ user.status = "inactive" /\ Inactive(c)
     \/ Matches(c) /\ user.status = "active" /\ RightPassword(c)
  /\ UNCHANGED accounts

LoginCommand(c) ==
  /\ Check(c) \/ Increment(c) \/ Expire(c) \/ Clear(c)
  /\ UNCHANGED accounts

LoginFault(c) == (RedisError(c) \/ Crash(c)) /\ UNCHANGED accounts

Time == Tick /\ UNCHANGED accounts

AccountsNext ==
  \/ \E r \in Registrations : CheckEmail(r) \/ CreateUser(r)
  \/ \E e \in Edits : LoadUser(e) \/ WriteUser(e)
  \/ \E c \in Clients : Verify(c) \/ LoginCommand(c) \/ LoginFault(c)
  \/ Time

AccountsSpec == AccountsInit /\ [][AccountsNext]_accountVars

\* As in LoginRateLimit: time passes, and a login that has reached a Redis
\* command gets it done.
AccountsFairSpec ==
  /\ AccountsSpec
  /\ WF_accountVars(Time)
  /\ \A c \in Clients : WF_accountVars(LoginCommand(c) /\ pc[c] # "idle")

-----------------------------------------------------------------------------
(* Properties *)

AccountsTypeOK ==
  /\ TypeOK
  /\ user \in UserRows
  /\ registration \in [Registrations -> {"check", "create", "created", "duplicate"}]
  /\ \A e \in Edits : /\ edit[e].pc \in {"load", "write", "missing", "done"}
                      /\ edit[e].loaded \in UserRows

\* Once a registration was answered with 201, no login with its password is
\* counted as a failure, whoever registers or edits the row meanwhile.
RegisteredPasswordWorks ==
  [][\A r \in Registrations, c \in Clients :
       registration[r] = "created" /\ PasswordOf[c] = r /\ pc[c] = "verify"
         => pc'[c] # "incr"]_accountVars

\* An edit that was answered survives an edit of the other column that
\* overlapped it: a deactivated user stays deactivated.
EditsSurvive ==
  \A e \in Edits :
    /\ edit[e].pc = "done"
    /\ \A d \in Edits \ {e} : EditOf[d].column # EditOf[e].column
    => user[EditOf[e].column] = EditOf[e].value

\* Unless a fault interferes, a limit that was reached is lifted.
LockoutEndsWithoutFaults == [](faults = 0) => LockoutEnds

=============================================================================
