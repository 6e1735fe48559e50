---------------------------- MODULE AccountsProofs ----------------------------
(***************************************************************************)
(* Theorems about LoginRateLimit, for any number of overlapping logins,    *)
(* any limit and any window, and about Accounts, which composes it with    *)
(* the row of users, for any registrations and edits of the row.           *)
(***************************************************************************)
EXTENDS Accounts, FiniteSetTheorems, TLAPS

USE DEF vars

\* The counter, its expiry and the steps of the logins stay in their ranges.
THEOREM TypeInvariant == Spec => []TypeOK
<1>1. Init => TypeOK
  BY SettingsAssumption DEF Init, TypeOK, Steps
<1>2. TypeOK /\ [Next]_vars => TypeOK'
  <2> SUFFICES ASSUME TypeOK, [Next]_vars
               PROVE  TypeOK'
    OBVIOUS
  <2> USE SettingsAssumption DEF TypeOK, Steps, GoTo
  <2>1. ASSUME NEW c \in Clients, LoginStep(c)
        PROVE  TypeOK'
    BY <2>1 DEF LoginStep, Check, WrongPassword, Inactive, RightPassword,
                Increment, Expire, Clear
  <2>2. ASSUME NEW c \in Clients, RedisError(c)
        PROVE  TypeOK'
    BY <2>2 DEF RedisError
  <2>3. ASSUME NEW c \in Clients, Crash(c)
        PROVE  TypeOK'
    BY <2>3 DEF Crash
  <2>4. CASE Tick
    BY <2>4 DEF Tick
  <2>5. CASE UNCHANGED vars
    BY <2>5
  <2> QED
    BY <2>1, <2>2, <2>3, <2>4, <2>5 DEF Next
<1> QED
  BY <1>1, <1>2, PTL DEF Spec

\* An expiry never outlives its key: Redis and clear drop both together, and
\* EXPIRE has no effect on a key that is gone.
THEOREM NoStrayExpiry == Spec => []ExpiryHasItsKey
<1>1. Init => ExpiryHasItsKey
  BY DEF Init, ExpiryHasItsKey
<1>2. TypeOK /\ ExpiryHasItsKey /\ [Next]_vars => ExpiryHasItsKey'
  <2> SUFFICES ASSUME TypeOK, ExpiryHasItsKey, [Next]_vars
               PROVE  ExpiryHasItsKey'
    OBVIOUS
  <2> USE SettingsAssumption DEF TypeOK, ExpiryHasItsKey
  <2>1. ASSUME NEW c \in Clients, LoginStep(c)
        PROVE  ExpiryHasItsKey'
    BY <2>1 DEF LoginStep, Check, WrongPassword, Inactive, RightPassword,
                Increment, Expire, Clear
  <2>2. ASSUME NEW c \in Clients, RedisError(c) \/ Crash(c)
        PROVE  ExpiryHasItsKey'
    BY <2>2 DEF RedisError, Crash
  <2>3. CASE Tick
    BY <2>3 DEF Tick
  <2>4. CASE UNCHANGED vars
    BY <2>4
  <2> QED
    BY <2>1, <2>2, <2>3, <2>4 DEF Next
<1> QED
  BY <1>1, <1>2, TypeInvariant, PTL DEF Spec

\* Without faults the key that INCR created without an expiry always has a
\* login that is about to set one.  Init and each step keep it: only the login
\* whose INCR found no key leaves a key without an expiry, and it goes to the
\* EXPIRE next.
THEOREM ExpiryIsComing == Spec => []KeyGetsItsExpiry
<1>1. Init => KeyGetsItsExpiry
  BY DEF Init, KeyGetsItsExpiry
<1>2. TypeOK /\ KeyGetsItsExpiry /\ [Next]_vars => KeyGetsItsExpiry'
  <2> SUFFICES ASSUME TypeOK, KeyGetsItsExpiry, [Next]_vars,
                      counter' > 0, ttl' = 0, faults' = 0
               PROVE  \E d \in Clients : pc'[d] = "expire"
    BY DEF KeyGetsItsExpiry
  <2> USE SettingsAssumption DEF TypeOK, KeyGetsItsExpiry, GoTo
  <2>1. ASSUME NEW c \in Clients, Check(c) \/ WrongPassword(c) \/ Inactive(c)
                                    \/ RightPassword(c)
        PROVE  \E d \in Clients : pc'[d] = "expire"
    <3>1. PICK d \in Clients : pc[d] = "expire"
      BY <2>1 DEF Check, WrongPassword, Inactive, RightPassword
    <3>2. pc'[d] = "expire"
      BY <2>1, <3>1 DEF Check, WrongPassword, Inactive, RightPassword
    <3> QED
      BY <3>2
  <2>2. ASSUME NEW c \in Clients, Increment(c)
        PROVE  \E d \in Clients : pc'[d] = "expire"
    <3>1. CASE counter = 0
      BY <2>2, <3>1 DEF Increment
    <3>2. CASE counter # 0
      <4>1. PICK d \in Clients : pc[d] = "expire"
        BY <2>2, <3>2 DEF Increment
      <4>2. pc'[d] = "expire"
        BY <2>2, <4>1 DEF Increment
      <4> QED
        BY <4>2
    <3> QED
      BY <3>1, <3>2
  <2>3. ASSUME NEW c \in Clients, Expire(c) \/ Clear(c)
        PROVE  FALSE
    BY <2>3 DEF Expire, Clear
  <2>4. ASSUME NEW c \in Clients, RedisError(c) \/ Crash(c)
        PROVE  FALSE
    BY <2>4 DEF RedisError, Crash
  <2>5. CASE Tick
    BY <2>5 DEF Tick
  <2>6. CASE UNCHANGED vars
    BY <2>6
  <2> QED
    BY <2>1, <2>2, <2>3, <2>4, <2>5, <2>6 DEF Next, LoginStep
<1> QED
  BY <1>1, <1>2, TypeInvariant, PTL DEF Spec

\* The logins past the check are finitely many, and no more than the clients.
LEMMA AdmittedType ==
  /\ IsFiniteSet(Admitted) /\ Cardinality(Admitted) \in Nat
  /\ Cardinality(Clients) \in Nat
  /\ Cardinality(Admitted) <= Cardinality(Clients)
BY ClientsAssumption, FS_Subset, FS_CardinalityType DEF Admitted

\* Fewer admitted logins: the bound on the overshoot can only get looser.
LEMMA AdmittedShrinks ==
  ASSUME TypeOK, NEW T, T \subseteq Admitted
  PROVE  Cardinality(T) \in Nat /\ Cardinality(T) <= Cardinality(Admitted)
BY AdmittedType, FS_Subset, FS_CardinalityType

\* Overlapping logins overshoot the limit by less than their number.  A login
\* is admitted only below the limit, and then at most all of them are; each
\* failure that is counted takes one login out of the admitted ones.
THEOREM OvershootBound == Spec => []OvershootIsBounded
<1>1. Init => OvershootIsBounded
  <2> SUFFICES ASSUME Init
               PROVE  OvershootIsBounded
    OBVIOUS
  <2>1. Admitted = {}
    BY DEF Init, Admitted
  <2>2. Cardinality(Admitted) = 0
    BY <2>1, FS_EmptySet
  <2> QED
    BY <2>2, AdmittedType, SettingsAssumption DEF Init, OvershootIsBounded
<1>2. TypeOK /\ OvershootIsBounded /\ [Next]_vars => OvershootIsBounded'
  <2> SUFFICES ASSUME TypeOK, OvershootIsBounded, [Next]_vars, faults' = 0
               PROVE  counter' + Cardinality(Admitted')
                        < MaxAttempts + Cardinality(Clients)
    BY DEF OvershootIsBounded
  <2>0. /\ counter \in Nat /\ MaxAttempts \in Nat /\ pc \in [Clients -> Steps]
        /\ Cardinality(Admitted) \in Nat /\ Cardinality(Clients) \in Nat
        /\ Cardinality(Admitted) <= Cardinality(Clients)
    BY AdmittedType, SettingsAssumption DEF TypeOK
  <2>1. ASSUME Admitted' \subseteq Admitted, counter' \in Nat,
               counter' <= counter, faults = 0
        PROVE  counter' + Cardinality(Admitted')
                 < MaxAttempts + Cardinality(Clients)
    <3>1. Cardinality(Admitted') \in Nat
          /\ Cardinality(Admitted') <= Cardinality(Admitted)
      BY <2>1, AdmittedShrinks
    <3> QED
      BY <2>0, <2>1, <3>1 DEF OvershootIsBounded
  <2>2. ASSUME NEW c \in Clients, Check(c)
        PROVE  counter' + Cardinality(Admitted')
                 < MaxAttempts + Cardinality(Clients)
    <3>1. CASE counter < MaxAttempts
      <4>1. Admitted' \subseteq Clients
        BY DEF Admitted
      <4>2. Cardinality(Admitted') \in Nat
            /\ Cardinality(Admitted') <= Cardinality(Clients)
        BY <4>1, ClientsAssumption, FS_Subset, FS_CardinalityType
      <4> QED
        BY <2>0, <2>2, <3>1, <4>2 DEF Check
    <3>2. CASE ~ counter < MaxAttempts
      <4>1. Admitted' \subseteq Admitted
        BY <2>0, <2>2, <3>2 DEF Check, Admitted, GoTo
      <4> QED
        BY <2>0, <2>1, <2>2, <4>1 DEF Check
    <3> QED
      BY <3>1, <3>2
  <2>3. ASSUME NEW c \in Clients, WrongPassword(c) \/ Inactive(c)
                                    \/ RightPassword(c) \/ Expire(c) \/ Clear(c)
        PROVE  counter' + Cardinality(Admitted')
                 < MaxAttempts + Cardinality(Clients)
    <3>1. Admitted' \subseteq Admitted
      BY <2>0, <2>3 DEF WrongPassword, Inactive, RightPassword, Expire, Clear,
                        Admitted, GoTo
    <3>2. counter' \in Nat /\ counter' <= counter /\ faults = 0
      BY <2>0, <2>3 DEF WrongPassword, Inactive, RightPassword, Expire, Clear
    <3> QED
      BY <2>1, <3>1, <3>2
  <2>4. ASSUME NEW c \in Clients, Increment(c)
        PROVE  counter' + Cardinality(Admitted')
                 < MaxAttempts + Cardinality(Clients)
    <3>1. c \in Admitted /\ Admitted' = Admitted \ {c}
      BY <2>0, <2>4 DEF Increment, Admitted, GoTo
    <3>2. Cardinality(Admitted') = Cardinality(Admitted) - 1
      BY <3>1, AdmittedType, FS_RemoveElement
    <3>3. counter' = counter + 1 /\ faults = 0
      BY <2>4 DEF Increment
    <3> QED
      BY <2>0, <3>2, <3>3 DEF OvershootIsBounded
  <2>5. ASSUME NEW c \in Clients, RedisError(c) \/ Crash(c)
        PROVE  FALSE
    BY <2>5 DEF RedisError, Crash, TypeOK
  <2>6. CASE Tick
    <3>1. Admitted' \subseteq Admitted
      BY <2>6 DEF Tick, Admitted
    <3>2. counter' \in Nat /\ counter' <= counter /\ faults = 0
      BY <2>0, <2>6 DEF Tick
    <3> QED
      BY <2>1, <3>1, <3>2
  <2>7. CASE UNCHANGED vars
    <3>1. Admitted' \subseteq Admitted /\ counter' = counter /\ faults = 0
      BY <2>7 DEF Admitted
    <3> QED
      BY <2>0, <2>1, <3>1
  <2> QED
    BY <2>2, <2>3, <2>4, <2>5, <2>6, <2>7 DEF Next, LoginStep
<1> QED
  BY <1>1, <1>2, TypeInvariant, PTL DEF Spec

-----------------------------------------------------------------------------
(* Accounts: the steps on the row of users *)

USE DEF accounts, accountVars

AccountStep ==
  \/ \E r \in Registrations : CheckEmail(r) \/ CreateUser(r)
  \/ \E e \in Edits : LoadUser(e) \/ WriteUser(e)

\* A step works on the row and leaves the logins alone, or is one of
\* LoginRateLimit and leaves the row alone.
LEMMA StepCases ==
  ASSUME [AccountsNext]_accountVars
  PROVE  \/ AccountStep /\ UNCHANGED vars
         \/ [Next]_vars /\ UNCHANGED accounts
<1>1. ASSUME NEW r \in Registrations, CheckEmail(r) \/ CreateUser(r)
      PROVE  AccountStep /\ UNCHANGED vars
  BY <1>1 DEF AccountStep, CheckEmail, CreateUser
<1>2. ASSUME NEW e \in Edits, LoadUser(e) \/ WriteUser(e)
      PROVE  AccountStep /\ UNCHANGED vars
  BY <1>2 DEF AccountStep, LoadUser, WriteUser
<1>3. ASSUME NEW c \in Clients, Verify(c) \/ LoginCommand(c) \/ LoginFault(c)
      PROVE  Next /\ UNCHANGED accounts
  BY <1>3 DEF Verify, LoginCommand, LoginFault, Next, LoginStep
<1>4. Time => Next /\ UNCHANGED accounts
  BY DEF Time, Next
<1> QED
  BY <1>1, <1>2, <1>3, <1>4 DEF AccountsNext

\* Accounts is LoginRateLimit with the outcome of each login decided by the row:
\* what is proved of the limit holds whatever becomes of the account.
THEOREM AccountsKeepTheLimit == AccountsSpec => Spec
<1>1. AccountsInit => Init
  BY DEF AccountsInit
<1>2. [AccountsNext]_accountVars => [Next]_vars
  BY StepCases
<1> QED
  BY <1>1, <1>2, PTL DEF AccountsSpec, Spec

\* Logins of one account overshoot the limit by less than their number, whatever
\* registrations and administrators do to the account meanwhile.
THEOREM AccountsOvershootBound == AccountsSpec => []OvershootIsBounded
  BY AccountsKeepTheLimit, OvershootBound, PTL

-----------------------------------------------------------------------------

RowTyped ==
  /\ user \in UserRows
  /\ registration \in [Registrations -> {"check", "create", "created", "duplicate"}]
  /\ edit \in [Edits -> [pc : {"load", "write", "missing", "done"},
                        loaded : UserRows]]

\* Whoever has its 201 owns the row, and an edit has found the row there.
RowIsOwned ==
  /\ \A r \in Registrations :
       registration[r] = "created" => user.exists /\ user.password = r
  /\ \A e \in Edits : edit[e].pc \in {"write", "done"} => user.exists

Alone(e) == \A d \in Edits \ {e} : EditOf[d].column # EditOf[e].column

\* The only edit of its column has loaded what the column still says, until it
\* writes it.
EditsKeepUp ==
  \A e \in Edits : Alone(e) =>
    LET column == EditOf[e].column
    IN  /\ edit[e].pc = "write" => edit[e].loaded[column] = user[column]
        /\ edit[e].pc = "done" => user[column] = EditOf[e].value

AccountsInv == RowTyped /\ RowIsOwned /\ EditsKeepUp

\* An edit writes its own column and no other.
LEMMA WriteEffect ==
  ASSUME RowTyped, NEW e \in Edits, WriteUser(e)
  PROVE  LET column == EditOf[e].column
         IN  /\ user' \in UserRows
             /\ user'.exists = user.exists /\ user'.password = user.password
             /\ \A other \in {"role", "status"} \ {column} : user'[other] = user[other]
             /\ user'[column] = Column(EditOf[e].value, edit[e].loaded[column],
                                       user[column])
             /\ edit[e].pc = "write" /\ edit'[e].pc = "done"
             /\ edit'[e].loaded = edit[e].loaded
             /\ \A d \in Edits \ {e} : edit'[d] = edit[d]
<1>1. EditOf[e] \in EditType
  BY AccountsAssumption
<1>. DEFINE column == EditOf[e].column
            value  == Column(EditOf[e].value, edit[e].loaded[column], user[column])
<1>2. /\ user' = [user EXCEPT ![column] = value]
      /\ edit' = [edit EXCEPT ![e].pc = "done"] /\ edit[e].pc = "write"
  BY DEF WriteUser
<1>3. \/ column = "role" /\ value \in Roles
      \/ column = "status" /\ value \in Statuses
  BY <1>1 DEF EditType, Column, RowTyped, UserRows
<1>4. value = Column(EditOf[e].value, edit[e].loaded[column], user[column])
  OBVIOUS
<1>. HIDE DEF value
<1>5. /\ user' \in UserRows
      /\ user'.exists = user.exists /\ user'.password = user.password
      /\ \A other \in {"role", "status"} \ {column} : user'[other] = user[other]
      /\ user'[column] = value
  <2>1. CASE column = "role" /\ value \in Roles
    BY <1>2, <2>1 DEF RowTyped, UserRows
  <2>2. CASE column = "status" /\ value \in Statuses
    BY <1>2, <2>2 DEF RowTyped, UserRows
  <2> QED
    BY <1>3, <2>1, <2>2
<1>6. /\ edit'[e].pc = "done" /\ edit'[e].loaded = edit[e].loaded
      /\ \A d \in Edits \ {e} : edit'[d] = edit[d]
  BY <1>2 DEF RowTyped
<1> QED
  BY <1>2, <1>4, <1>5, <1>6

\* The types of the row and of those who work on it.
LEMMA RowTypeStep ==
  ASSUME RowTyped, AccountStep
  PROVE  RowTyped'
<1>1. ASSUME NEW r \in Registrations, CheckEmail(r)
      PROVE  RowTyped'
  BY <1>1 DEF CheckEmail, RowTyped
<1>2. ASSUME NEW r \in Registrations, CreateUser(r)
      PROVE  RowTyped'
  <2>1. [NoUser EXCEPT !.exists = TRUE, !.password = r] \in UserRows
    BY DEF NoUser, UserRows, Roles, Statuses
  <2> QED
    BY <1>2, <2>1 DEF CreateUser, RowTyped
<1>3. ASSUME NEW e \in Edits, LoadUser(e)
      PROVE  RowTyped'
  BY <1>3 DEF LoadUser, RowTyped
<1>4. ASSUME NEW e \in Edits, WriteUser(e)
      PROVE  RowTyped'
  <2>1. user' \in UserRows
    BY <1>4, WriteEffect
  <2> QED
    BY <1>4, <2>1 DEF WriteUser, RowTyped
<1> QED
  BY <1>1, <1>2, <1>3, <1>4 DEF AccountStep

\* Only one registration of an email gets a 201, and it keeps the row.
LEMMA OwnerStep ==
  ASSUME RowTyped, RowIsOwned, AccountStep
  PROVE  RowIsOwned'
<1>1. ASSUME NEW r \in Registrations, CheckEmail(r)
      PROVE  RowIsOwned'
  BY <1>1 DEF CheckEmail, RowTyped, RowIsOwned
<1>2. ASSUME NEW r \in Registrations, CreateUser(r)
      PROVE  RowIsOwned'
  <2>1. CASE user.exists
    BY <1>2, <2>1 DEF CreateUser, RowTyped, RowIsOwned
  <2>2. CASE ~ user.exists
    <3>1. user'.exists /\ user'.password = r
      BY <1>2, <2>2 DEF CreateUser, NoUser
    <3>2. \A s \in Registrations \ {r} : registration'[s] # "created"
      BY <1>2, <2>2 DEF CreateUser, RowTyped, RowIsOwned
    <3> QED
      BY <1>2, <3>1, <3>2 DEF CreateUser, RowIsOwned
  <2> QED
    BY <2>1, <2>2
<1>3. ASSUME NEW e \in Edits, LoadUser(e)
      PROVE  RowIsOwned'
  BY <1>3 DEF LoadUser, RowTyped, RowIsOwned
<1>4. ASSUME NEW e \in Edits, WriteUser(e)
      PROVE  RowIsOwned'
  <2>1. user'.exists = user.exists /\ user'.password = user.password
    BY <1>4, WriteEffect
  <2>2. /\ edit[e].pc = "write" /\ \A d \in Edits \ {e} : edit'[d] = edit[d]
        /\ registration' = registration
    BY <1>4, WriteEffect DEF WriteUser
  <2> QED
    BY <2>1, <2>2 DEF RowIsOwned
<1> QED
  BY <1>1, <1>2, <1>3, <1>4 DEF AccountStep

\* The copy of an edit goes stale only in columns that it does not write.
LEMMA EditsStep ==
  ASSUME RowTyped, RowIsOwned, EditsKeepUp, AccountStep
  PROVE  EditsKeepUp'
<1> SUFFICES ASSUME NEW e \in Edits, Alone(e)
             PROVE  LET column == EditOf[e].column
                    IN  /\ edit'[e].pc = "write" =>
                             edit'[e].loaded[column] = user'[column]
                        /\ edit'[e].pc = "done" => user'[column] = EditOf[e].value
  BY DEF EditsKeepUp, Alone
<1>. DEFINE column == EditOf[e].column
<1>1. /\ edit[e].pc = "write" => edit[e].loaded[column] = user[column]
      /\ edit[e].pc = "done" => user[column] = EditOf[e].value
  BY DEF EditsKeepUp
<1>2. column \in {"role", "status"}
  <2>1. EditOf[e] \in EditType
    BY AccountsAssumption
  <2> QED
    BY <2>1 DEF EditType
<1>3. CASE UNCHANGED <<user, edit>>
  BY <1>1, <1>3
<1>4. ASSUME NEW r \in Registrations, CheckEmail(r) \/ CreateUser(r)
      PROVE  UNCHANGED <<user, edit>> \/ edit'[e].pc \notin {"write", "done"}
  BY <1>4 DEF CheckEmail, CreateUser, RowIsOwned
<1>5. ASSUME NEW d \in Edits, LoadUser(d)
      PROVE  /\ edit'[e].pc = "write" => edit'[e].loaded[column] = user'[column]
             /\ edit'[e].pc = "done" => user'[column] = EditOf[e].value
  BY <1>1, <1>5 DEF LoadUser, RowTyped
<1>6. ASSUME NEW d \in Edits \ {e}, WriteUser(d)
      PROVE  /\ edit'[e].pc = "write" => edit'[e].loaded[column] = user'[column]
             /\ edit'[e].pc = "done" => user'[column] = EditOf[e].value
  <2>1. user'[column] = user[column] /\ edit'[e] = edit[e]
    BY <1>2, <1>6, WriteEffect DEF Alone
  <2> QED
    BY <1>1, <2>1
<1>7. ASSUME WriteUser(e)
      PROVE  edit'[e].pc = "done" /\ user'[column] = EditOf[e].value
  <2>1. /\ user'[column] = Column(EditOf[e].value, edit[e].loaded[column], user[column])
        /\ edit[e].pc = "write" /\ edit'[e].pc = "done"
    BY <1>7, WriteEffect
  <2> QED
    BY <1>1, <2>1 DEF Column
<1> QED
  BY <1>3, <1>4, <1>5, <1>6, <1>7 DEF AccountStep

\* The invariant of the row holds initially and is kept by every step.
LEMMA AccountsKeepInv == AccountsSpec => []AccountsInv
<1>1. AccountsInit => AccountsInv
  BY DEF AccountsInit, AccountsInv, RowTyped, RowIsOwned, EditsKeepUp, NoUser, UserRows,
     Roles, Statuses
<1>2. AccountsInv /\ [AccountsNext]_accountVars => AccountsInv'
  <2> SUFFICES ASSUME AccountsInv, [AccountsNext]_accountVars
               PROVE  AccountsInv'
    OBVIOUS
  <2>1. CASE AccountStep
    BY <2>1, RowTypeStep, OwnerStep, EditsStep DEF AccountsInv
  <2>2. CASE UNCHANGED accounts
    BY <2>2 DEF AccountsInv, RowTyped, RowIsOwned, EditsKeepUp, Alone
  <2> QED
    BY <2>1, <2>2, StepCases
<1> QED
  BY <1>1, <1>2, PTL DEF AccountsSpec

\* The row, the registrations, the edits and the rate limit keep their types.
THEOREM AccountsTypeInvariant == AccountsSpec => []AccountsTypeOK
<1>1. TypeOK /\ AccountsInv => AccountsTypeOK
  BY DEF AccountsInv, RowTyped, AccountsTypeOK
<1> QED
  BY <1>1, AccountsKeepInv, AccountsKeepTheLimit, TypeInvariant, PTL

\* The UPDATE of one column (update_role, update_status on a copy of the row)
\* does not undo an edit of the other column that was answered before, nor does
\* a registration of the email that comes too late.
THEOREM EditsAreKept == AccountsSpec => []EditsSurvive
<1>1. AccountsInv => EditsSurvive
  BY DEF AccountsInv, EditsKeepUp, Alone, EditsSurvive
<1> QED
  BY <1>1, AccountsKeepInv, PTL

\* Whoever was told that the registration succeeded can log in with its
\* password: no later registration or edit makes login_user count it as wrong.
THEOREM RegisteredCanLogIn == AccountsSpec => RegisteredPasswordWorks
<1>1. ASSUME TypeOK, AccountsInv, [AccountsNext]_accountVars,
             NEW r \in Registrations, NEW c \in Clients,
             registration[r] = "created", PasswordOf[c] = r, pc[c] = "verify"
      PROVE  pc'[c] # "incr"
  <2>1. Matches(c)
    BY <1>1 DEF AccountsInv, RowIsOwned, Matches
  <2>2. ASSUME NEW d \in Clients, Verify(d)
        PROVE  pc'[c] # "incr"
    BY <1>1, <2>1, <2>2 DEF Verify, Inactive, RightPassword, WrongPassword, GoTo, TypeOK
  <2>3. ASSUME NEW d \in Clients, LoginCommand(d) \/ LoginFault(d)
        PROVE  pc'[c] # "incr"
    BY <1>1, <2>3 DEF LoginCommand, LoginFault, Check, Increment, Expire, Clear,
                      RedisError, Crash, GoTo, TypeOK
  <2>4. CASE UNCHANGED pc
    BY <1>1, <2>4
  <2>5. AccountStep \/ Time => UNCHANGED pc
    BY DEF AccountStep, CheckEmail, CreateUser, LoadUser, WriteUser, Time, Tick
  <2> QED
    BY <1>1, <2>2, <2>3, <2>4, <2>5 DEF AccountsNext, AccountStep
<1>2. TypeOK /\ AccountsInv /\ [AccountsNext]_accountVars
        => [\A r \in Registrations, c \in Clients :
              registration[r] = "created" /\ PasswordOf[c] = r /\ pc[c] = "verify"
                => pc'[c] # "incr"]_accountVars
  BY <1>1
<1> QED
  BY <1>2, AccountsKeepInv, AccountsKeepTheLimit, TypeInvariant, PTL
     DEF AccountsSpec, RegisteredPasswordWorks

=============================================================================
