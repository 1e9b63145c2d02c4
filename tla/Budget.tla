-------------------------------- MODULE Budget --------------------------------
(***************************************************************************)
(* The per-engagement budget ledger of src/halgate/budget.py.              *)
(*                                                                         *)
(* A tool call reserves one unit of one kind before the operator is asked, *)
(* and later settles it (the unit becomes usage) or releases it.  Measured *)
(* transfer bytes are charged in one step by `account'.  The ledger can be *)
(* used alone (Spec below: any client discipline) or through dispatch      *)
(* (module Dispatch), which implements this specification.                 *)
(***************************************************************************)
EXTENDS Integers, FiniteSets

CONSTANTS
    Engs,          \* engagement ids
    ActionKinds,   \* kinds a tool call reserves: max_actions, max_requests, ...
    ByteKinds,     \* kinds charged by measurement: max_bytes_in, max_bytes_out
    Calls,         \* tool calls; each is the identity of one reservation
    LimitChoices,  \* the limits a configuration or the operator may set
    MaxMeasure,    \* bound: largest amount one `account' charges
    Switching      \* whether another saved session may be restored

ASSUME BudgetAssumption ==
    /\ IsFiniteSet(Calls)
    /\ LimitChoices \subseteq Nat
    /\ MaxMeasure \in Nat
    /\ ByteKinds \cap ActionKinds = {}
    /\ Switching \in BOOLEAN

Kinds == ActionKinds \cup ByteKinds
Keys  == Engs \X Kinds
Reservations == [call : Calls, key : Keys, amount : {0, 1}]

VARIABLES
    registered,  \* engagements the manager knows
    off,         \* engagements whose budgets the operator disabled
    limit,       \* limits in force, per engagement and kind
    opened,      \* keys present in the `reserved' dictionary of their state
    taken,       \* settled usage
    reserved,    \* units reserved and neither settled nor released
    held         \* the BudgetReservation objects callers still hold

ledger == <<registered, off, limit, opened, taken, reserved, held>>
counters == <<opened, taken, reserved>>
settings == <<registered, off, limit>>

BudgetTypeOK ==
    /\ registered \subseteq Engs
    /\ off \subseteq Engs
    /\ limit \in [Keys -> LimitChoices]
    /\ opened \subseteq Keys
    /\ taken \in [Keys -> Nat]
    /\ reserved \in [Keys -> Nat]
    /\ held \subseteq Reservations

\* Everything counted against the limit: BudgetState.current.
Current(key) == taken[key] + reserved[key]

\* The reservations that count a unit under this key.
Backing(key) == {r \in held : r.key = key /\ r.amount = 1}

Holds(c) == \E r \in held : r.call = c
-----------------------------------------------------------------------------
CanReserve_CountsOnlyTaken(key, n) ==
    key[1] \in off \/ (key[1] \in registered /\ taken[key] + n <= limit[key])

\* try_reserve raises unless budgets are disabled or the amount fits.
CanReserve(key, n) ==
    \/ key[1] \in off
    \/ key[1] \in registered /\ Current(key) + n <= limit[key]

\* A disabled engagement gets a reservation of 0, so that settling and
\* releasing it are no-ops even when budgets are enabled again meanwhile.
Unit(key) == IF key[1] \in off THEN 0 ELSE 1

TryReserve(c, key) ==
    /\ CanReserve(key, 1)
    /\ held' = held \cup {[call |-> c, key |-> key, amount |-> Unit(key)]}
    /\ reserved' = [reserved EXCEPT ![key] = @ + Unit(key)]
    /\ opened' = IF key[1] \in off THEN opened ELSE opened \cup {key}
    /\ UNCHANGED <<registered, off, limit, taken>>

\* max(0, n - m)
Less(n, m) == IF n >= m THEN n - m ELSE 0

Drop_Twice(r) ==
    IF r.key \in opened
    THEN [reserved EXCEPT ![r.key] = Less(@, 2 * r.amount)]
    ELSE reserved

\* What release and settle both do to `reserved'; nothing when the state of
\* the engagement, or the kind in it, does not exist (any more).
Drop(r) ==
    IF r.key \in opened
    THEN [reserved EXCEPT ![r.key] = Less(@, r.amount)]
    ELSE reserved

\* A reservation taken and given back without a pause in between: an
\* auto-approved call in dry-run mode.
ReserveAndRelease(key) ==
    /\ CanReserve(key, 1)
    /\ opened' = IF key[1] \in off THEN opened ELSE opened \cup {key}
    /\ UNCHANGED <<registered, off, limit, taken, reserved, held>>

Release(r) ==
    /\ r \in held
    /\ held' = held \ {r}
    /\ reserved' = Drop(r)
    /\ UNCHANGED <<registered, off, limit, opened, taken>>

Settle(r) ==
    /\ r \in held
    /\ held' = held \ {r}
    /\ taken' = IF r.key \in opened THEN [taken EXCEPT ![r.key] = @ + r.amount]
                                    ELSE taken
    /\ reserved' = Drop(r)
    /\ UNCHANGED <<registered, off, limit, opened>>

\* account(): reserve and settle a measured amount in one step.  Raises, and
\* charges nothing, when the amount does not fit.
Account(key, n) ==
    /\ key[1] \notin off
    /\ CanReserve(key, n)
    /\ taken' = [taken EXCEPT ![key] = @ + n]
    /\ opened' = opened \cup {key}
    /\ UNCHANGED <<registered, off, limit, reserved, held>>

\* An engagement added after startup; its usage starts at zero.
Register(e) ==
    /\ e \notin registered
    /\ registered' = registered \cup {e}
    /\ UNCHANGED <<off, limit, opened, taken, reserved, held>>

\* The operator saves the budget dialog: the new limits are in force at once,
\* usage is kept; a dialog saved as `disabled' leaves the limits alone.
UpdateLimits(e, disable, choice) ==
    /\ e \in registered
    /\ off' = IF disable THEN off \cup {e} ELSE off \ {e}
    /\ limit' = IF disable THEN limit
                ELSE [key \in Keys |-> IF key[1] = e THEN choice[key[2]]
                                                     ELSE limit[key]]
    /\ UNCHANGED <<registered, opened, taken, reserved, held>>

ReplaceEngagements_KeepsReserved(es, disabled, limits) ==
    /\ Switching
    /\ registered' = es
    /\ off' = disabled
    /\ limit' = limits
    /\ held' = {}
    /\ taken' = [key \in Keys |-> 0]
    /\ UNCHANGED <<opened, reserved>>

\* Another saved session is restored: every state is dropped.  Reservations
\* in the hands of running calls are not known to the manager.
ReplaceEngagements(es, disabled, limits) ==
    /\ Switching
    /\ registered' = es
    /\ off' = disabled
    /\ limit' = limits
    /\ opened' = {}
    /\ taken' = [key \in Keys |-> 0]
    /\ reserved' = [key \in Keys |-> 0]
    /\ UNCHANGED held
-----------------------------------------------------------------------------
BudgetInit ==
    /\ registered \in SUBSET Engs
    /\ off \in SUBSET registered
    /\ limit \in [Keys -> LimitChoices]
    /\ opened = {}
    /\ taken = [key \in Keys |-> 0]
    /\ reserved = [key \in Keys |-> 0]
    /\ held = {}

\* Client steps: any call may reserve, then settle or release, once at a time.
BudgetNext ==
    \/ \E c \in Calls, e \in Engs, k \in ActionKinds :
            ~Holds(c) /\ TryReserve(c, <<e, k>>)
    \/ \E e \in Engs, k \in ActionKinds : ReserveAndRelease(<<e, k>>)
    \/ \E r \in held : Release(r)
    \/ \E r \in held : Settle(r)
    \/ \E e \in Engs, k \in ByteKinds, n \in 1..MaxMeasure : Account(<<e, k>>, n)
    \/ \E e \in Engs : Register(e)
    \/ \E e \in Engs, disable \in BOOLEAN, choice \in [Kinds -> LimitChoices] :
            UpdateLimits(e, disable, choice)
    \/ \E es \in SUBSET Engs : \E disabled \in SUBSET es,
          limits \in [Keys -> LimitChoices] :
            ReplaceEngagements(es, disabled, limits)

BudgetSpec == BudgetInit /\ [][BudgetNext]_ledger
-----------------------------------------------------------------------------
(* Properties *)

\* A reserved unit is always in the hands of a call that can give it back:
\* double releases, settles of another session's reservation and disabled
\* engagements never make the ledger count units nobody holds.
ReservedIsBacked ==
    \A key \in Keys : reserved[key] <= Cardinality(Backing(key))

\* Without a session switch the ledger counts exactly the units in flight: no
\* interleaving of reserve, settle, release and operator settings loses one,
\* which would admit more actions than the limit.
ReservedIsExact ==
    ~Switching => \A key \in Keys : reserved[key] = Cardinality(Backing(key))

\* Exhaustion is a hard deny (budget.py:5): a step that raises the amount
\* counted under a key leaves it within the limit in force, whatever was
\* reserved before the operator lowered the limit or disabled budgets.
GrantWithinLimit ==
    [][~Switching => \A key \in Keys :
          Current(key)' > Current(key) => Current(key)' <= limit[key]]_ledger

=============================================================================
