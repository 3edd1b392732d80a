-------------------------------- MODULE SignIn --------------------------------
(***************************************************************************)
(* The bounded authentication of the API.  A password is hashed in a       *)
(* thread while the event loop serves other requests, so that an attempt   *)
(* is two steps with others between them: it is admitted against a slot    *)
(* and the failure budget of its address, and it is settled when the hash  *)
(* is known.  Everything within a step runs without an await: acquiring a  *)
(* semaphore that is not locked does not suspend.                          *)
(*                                                                         *)
(* Requests with a session or a cached credential do not come here.        *)
(***************************************************************************)
EXTENDS FiniteSets, Integers, SequencesExt

CONSTANTS Request,      \* tasks of the event loop
          Address,      \* of clients: the keys of the budgets
          Slots,        \* auth_max_concurrent_hashes
          Limit,        \* auth_failed_attempt_limit
          Window,       \* auth_failed_attempt_window_seconds
          Capacity,     \* addresses remembered before the oldest is forgotten
          MaxTime, MaxFailures, MaxRaises    \* bounds on the clock, failures and errors

ASSUME SignInAssumption ==
    /\ {Slots, Limit, Window, Capacity, MaxTime, MaxFailures, MaxRaises} \subseteq Nat
    /\ IsFiniteSet(Request) /\ "none" \notin Address

VARIABLES now,
          remembered,   \* addresses of failed_attempts, in the order of insertion
          failures,     \* the times in failed_attempts
          pending,      \* pending_attempts
          free,         \* slots that are not taken
          hashing,      \* of each request: the address it is hashing for, or "none"
          raises,
          \* History, for the properties only:
          counted       \* failures of an address since it succeeded or was forgotten

budget == <<remembered, failures, pending>>
signInVars == <<now, budget, free, hashing, raises, counted>>

SignInInit ==
    /\ now = 0 /\ remembered = <<>> /\ failures = [a \in Address |-> <<>>]
    /\ pending = [a \in Address |-> 0] /\ free = Slots
    /\ hashing = [r \in Request |-> "none"] /\ raises = 0
    /\ counted = [a \in Address |-> <<>>]

Tick == now < MaxTime /\ now' = now + 1 /\ UNCHANGED <<budget, free, hashing, raises, counted>>

-----------------------------------------------------------------------------
Known(a) == Contains(remembered, a)
Place(a) == CHOOSE i \in DOMAIN remembered : remembered[i] = a

\* The addresses that are forgotten when a's budget is looked up: the first one
\* remembered makes place.
Forgotten(a) ==
    IF ~Known(a) /\ Len(remembered) >= Capacity /\ remembered # <<>>
    THEN {Head(remembered)} ELSE {}

\* The first failures of a are taken away while they are older than the window.
Old(a) == {i \in DOMAIN failures[a] : \A j \in 1 .. i : failures[a][j] < now - Window}
Recent(a) == SubSeq(failures[a], Cardinality(Old(a)) + 1, Len(failures[a]))

Allowed_notReserved(a) == Len(Recent(a)) < Limit
Allowed(a) == Len(Recent(a)) + pending[a] < Limit

\* Looking up a budget drops what is too old, and remembers the address.
LookUp(a) ==
    /\ remembered' = IF Known(a) THEN remembered
                     ELSE Append(IF Forgotten(a) = {} THEN remembered ELSE Tail(remembered), a)
    /\ failures' = [b \in Address |-> IF b = a THEN Recent(a)
                                      ELSE IF b \in Forgotten(a) THEN <<>> ELSE failures[b]]
    /\ counted' = [b \in Address |-> IF b \in Forgotten(a) THEN <<>> ELSE counted[b]]

\* A slot is free and the budget allows one more: an entry of it is reserved.
Admit(r, a) ==
    /\ hashing[r] = "none" /\ free > 0 /\ Allowed(a)
    /\ LookUp(a)
    /\ pending' = [pending EXCEPT ![a] = @ + 1]
    /\ free' = free - 1 /\ hashing' = [hashing EXCEPT ![r] = a]
    /\ UNCHANGED <<now, raises>>

\* Too many failures: the slot is given back.  Without a slot nothing is looked up.
Refuse(a) ==
    /\ free > 0 /\ ~Allowed(a) /\ LookUp(a)
    /\ UNCHANGED <<now, pending, free, hashing, raises>>

-----------------------------------------------------------------------------
\* The finally clause.
Return(r) ==
    /\ hashing[r] # "none" /\ hashing' = [hashing EXCEPT ![r] = "none"]
    /\ pending' = [pending EXCEPT ![hashing[r]] = @ - 1] /\ free' = free + 1
    /\ UNCHANGED now

Succeed(r) ==
    /\ Return(r)
    /\ LET a == hashing[r]
       IN  /\ remembered' = IF Known(a) THEN RemoveAt(remembered, Place(a)) ELSE remembered
           /\ failures' = [failures EXCEPT ![a] = <<>>] /\ counted' = [counted EXCEPT ![a] = <<>>]
    /\ UNCHANGED raises

\* An address that was forgotten meanwhile is remembered again.
Fail(r) ==
    /\ Return(r)
    /\ LET a == hashing[r]
       IN  /\ Len(counted[a]) < MaxFailures
           /\ remembered' = IF Known(a) THEN remembered ELSE Append(remembered, a)
           /\ failures' = [failures EXCEPT ![a] = Append(@, now)]
           /\ counted' = [counted EXCEPT ![a] = Append(@, now)]
    /\ UNCHANGED raises

Raise_noFinally(r) ==
    /\ hashing[r] # "none" /\ hashing' = [hashing EXCEPT ![r] = "none"]
    /\ raises < MaxRaises /\ raises' = raises + 1
    /\ UNCHANGED <<now, budget, free, counted>>

\* The hash raises (no memory for it), or the server shuts down.
Raise(r) ==
    /\ Return(r) /\ raises < MaxRaises /\ raises' = raises + 1
    /\ UNCHANGED <<remembered, failures, counted>>

SignInNext ==
    \/ Tick
    \/ \E a \in Address : Refuse(a) \/ \E r \in Request : Admit(r, a)
    \/ \E r \in Request : Succeed(r) \/ Fail(r) \/ Raise(r)

SignInSpec == SignInInit /\ [][SignInNext]_signInVars

-----------------------------------------------------------------------------
(* Properties *)

\* Within any window no more failures of an address are counted than its budget,
\* however many of its attempts were hashed at once, unless one of them succeeded or
\* the address was forgotten between them.
BudgetHolds ==
    \A a \in Address, t \in 0 .. MaxTime :
        Cardinality({i \in DOMAIN counted[a] : counted[a][i] \in t .. t + Window}) <= Limit

\* Slots and reservations are exactly those of the attempts being hashed, so that no
\* error and no success leaves an address or the server with less than it had.
ReservationsAccount ==
    /\ free = Slots - Cardinality({r \in Request : hashing[r] # "none"})
    /\ \A a \in Address : pending[a] = Cardinality({r \in Request : hashing[r] = a})
=============================================================================
