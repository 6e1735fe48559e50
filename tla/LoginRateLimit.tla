--------------------------- MODULE LoginRateLimit ---------------------------
(***************************************************************************)
(* The counter of failed logins that the API keeps in Redis for one client *)
(* address and email, and the login handler's use of it: read the counter, *)
(* check the password, then count the failure or clear the counter.  Each  *)
(* step is one Redis command, or what the handler does between two.        *)
(***************************************************************************)
EXTENDS Naturals, FiniteSets

CONSTANTS
  Clients,        \* logins with this address and email that may overlap
  MaxAttempts,    \* login_rate_limit_attempts
  Window,         \* login_rate_limit_window_seconds
  MaxFaults       \* budget of Redis errors and lost API processes

ASSUME ClientsAssumption == IsFiniteSet(Clients)

ASSUME SettingsAssumption ==
  /\ MaxAttempts \in Nat \ {0}
  /\ Window \in Nat \ {0}
  /\ MaxFaults \in Nat

VARIABLES
  counter,   \* the value of the key; 0 when there is no key
  ttl,       \* what is left of its expiry; 0 when it has none
  pc,        \* per login: the step it is at
  faults

vars == <<counter, ttl, pc, faults>>

Init ==
  /\ counter = 0
  /\ ttl = 0
  /\ pc = [c \in Clients |-> "idle"]
  /\ faults = 0

GoTo(c, step) == pc' = [pc EXCEPT ![c] = step]

\* A variant of Check: one attempt too many.
CheckOffByOne(c) ==
  /\ pc[c] = "idle"
  /\ GoTo(c, IF counter <= MaxAttempts THEN "verify" ELSE "idle")
  /\ UNCHANGED <<counter, ttl, faults>>

\* is_allowed; a login that is not allowed is answered with 429.
Check(c) ==
  /\ pc[c] = "idle"
  /\ GoTo(c, IF counter < MaxAttempts THEN "verify" ELSE "idle")
  /\ UNCHANGED <<counter, ttl, faults>>

WrongPassword(c) ==
  /\ pc[c] = "verify"
  /\ GoTo(c, "incr")
  /\ UNCHANGED <<counter, ttl, faults>>

\* The account is inactive: neither a failure nor a success.
Inactive(c) ==
  /\ pc[c] = "verify"
  /\ GoTo(c, "idle")
  /\ UNCHANGED <<counter, ttl, faults>>

RightPassword(c) ==
  /\ pc[c] = "verify"
  /\ GoTo(c, "clear")
  /\ UNCHANGED <<counter, ttl, faults>>

\* A variant of Increment: the key never gets an expiry.
IncrementOnly(c) ==
  /\ pc[c] = "incr"
  /\ counter' = counter + 1
  /\ GoTo(c, "idle")
  /\ UNCHANGED <<ttl, faults>>

\* add_failure's INCR, which creates the key without an expiry.
Increment(c) ==
  /\ pc[c] = "incr"
  /\ counter' = counter + 1
  /\ GoTo(c, IF counter = 0 THEN "expire" ELSE "idle")
  /\ UNCHANGED <<ttl, faults>>

\* add_failure's EXPIRE; without effect when the key is gone.
Expire(c) ==
  /\ pc[c] = "expire"
  /\ ttl' = IF counter = 0 THEN 0 ELSE Window
  /\ GoTo(c, "idle")
  /\ UNCHANGED <<counter, faults>>

\* clear's DEL; then the tokens are issued.
Clear(c) ==
  /\ pc[c] = "clear"
  /\ counter' = 0
  /\ ttl' = 0
  /\ GoTo(c, "idle")
  /\ UNCHANGED faults

\* A Redis error lets the login pass is_allowed, and ends add_failure and
\* clear.  INCR may have had its effect all the same; an EXPIRE or a DEL that
\* had its effect is Expire or Clear.
RedisError(c) ==
  /\ faults < MaxFaults
  /\ faults' = faults + 1
  /\ pc[c] \in {"idle", "incr", "expire", "clear"}
  /\ GoTo(c, IF pc[c] = "idle" THEN "verify" ELSE "idle")
  /\ \/ UNCHANGED <<counter, ttl>>
     \/ pc[c] = "incr" /\ counter' = counter + 1 /\ UNCHANGED ttl

\* The process that serves the login is lost.
Crash(c) ==
  /\ faults < MaxFaults
  /\ faults' = faults + 1
  /\ pc[c] # "idle"
  /\ GoTo(c, "idle")
  /\ UNCHANGED <<counter, ttl>>

\* Redis deletes the key when its expiry is over.
Tick ==
  /\ ttl > 0
  /\ ttl' = ttl - 1
  /\ counter' = IF ttl = 1 THEN 0 ELSE counter
  /\ UNCHANGED <<pc, faults>>

LoginStep(c) ==
  \/ Check(c) \/ WrongPassword(c) \/ Inactive(c) \/ RightPassword(c)
  \/ Increment(c) \/ Expire(c) \/ Clear(c)

Next ==
  \/ \E c \in Clients : LoginStep(c) \/ RedisError(c) \/ Crash(c)
  \/ Tick

Spec == Init /\ [][Next]_vars

-----------------------------------------------------------------------------
(* Properties *)

Steps == {"idle", "verify", "incr", "expire", "clear"}

TypeOK ==
  /\ counter \in Nat
  /\ ttl \in 0..Window
  /\ pc \in [Clients -> Steps]
  /\ faults \in 0..MaxFaults

\* Logins that passed is_allowed and may still count a failure.
Admitted == {c \in Clients : pc[c] \in {"verify", "incr"}}

\* The check and the count are separate commands, so logins that overlap may
\* overshoot the limit, but by less than their number; the logins that were
\* admitted are included.  A Redis error admits a login without a check.
OvershootIsBounded ==
  faults = 0 =>
    counter + Cardinality(Admitted) < MaxAttempts + Cardinality(Clients)

\* INCR and EXPIRE are separate commands too: a key without an expiry is about
\* to be given one, unless a fault came between the two.
KeyGetsItsExpiry ==
  counter > 0 /\ ttl = 0 /\ faults = 0 => \E c \in Clients : pc[c] = "expire"

\* No expiry without a key: a later key does not inherit an old expiry.
ExpiryHasItsKey == ttl > 0 => counter > 0

\* A limit that was reached is lifted again.
LockoutEnds == counter >= MaxAttempts ~> counter < MaxAttempts

=============================================================================
