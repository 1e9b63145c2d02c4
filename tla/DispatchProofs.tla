---------------------------- MODULE DispatchProofs ----------------------------
(***************************************************************************)
(* What holds of the budget ledger and of dispatch for all calls, batches, *)
(* engagements, kinds, limits and events.                                  *)
(*                                                                         *)
(* The ledger comes first.  Neither ReservedIsBacked nor ReservedIsExact   *)
(* is inductive alone: a settle moves a unit only if its key is in the     *)
(* dictionary of the state.  LedgerInv adds that a key outside it counts   *)
(* nothing, so that a unit that is reserved can always be moved, and that  *)
(* `held' is finite.  Dispatch then implements the ledger, its calls hold  *)
(* reservations only while they are under way, and handlers start          *)
(* authorized, unlocked and paid.                                          *)
(***************************************************************************)
EXTENDS Dispatch, FiniteSetTheorems, TLAPS

(* The ledger of Budget *)

ClosedIsZero == \A key \in Keys \ opened : reserved[key] = 0

LedgerInv ==
    /\ BudgetTypeOK
    /\ IsFiniteSet(held)
    /\ ReservedIsBacked
    /\ ReservedIsExact
    /\ ClosedIsZero
-----------------------------------------------------------------------------
\* The reservations backing a key are finitely many.
LEMMA BackingFinite ==
    ASSUME IsFiniteSet(held), NEW key
    PROVE  /\ IsFiniteSet(Backing(key))
           /\ Cardinality(Backing(key)) \in Nat
<1>1. Backing(key) \subseteq held
  BY DEF Backing
<1> QED
  BY <1>1, FS_Subset, FS_CardinalityType

\* Taking a new reservation adds its amount to the backing of its key only.
LEMMA BackingAfterReserve ==
    ASSUME IsFiniteSet(held), NEW r \in Reservations, r \notin held,
           held' = held \cup {r}, NEW key
    PROVE  Cardinality(Backing(key))' =
               IF r.key = key THEN Cardinality(Backing(key)) + r.amount
                              ELSE Cardinality(Backing(key))
<1>1. r.amount \in {0, 1}
  BY DEF Reservations
<1>2. CASE r.key = key /\ r.amount = 1
  <2>1. Backing(key)' = Backing(key) \cup {r} /\ r \notin Backing(key)
    BY <1>2 DEF Backing
  <2> QED
    BY <1>2, <2>1, BackingFinite, FS_AddElement
<1>3. CASE ~(r.key = key /\ r.amount = 1)
  <2>1. Backing(key)' = Backing(key)
    BY <1>3 DEF Backing
  <2> QED
    BY <1>1, <1>3, <2>1, BackingFinite
<1> QED
  BY <1>2, <1>3

\* Giving a reservation back takes its amount from the backing of its key.
LEMMA BackingAfterDrop ==
    ASSUME IsFiniteSet(held), NEW r \in Reservations, r \in held,
           held' = held \ {r}, NEW key
    PROVE  /\ Cardinality(Backing(key))' =
                  IF r.key = key THEN Cardinality(Backing(key)) - r.amount
                                 ELSE Cardinality(Backing(key))
           /\ r.key = key => Cardinality(Backing(key)) >= r.amount
<1>1. r.amount \in {0, 1}
  BY DEF Reservations
<1>2. CASE r.key = key /\ r.amount = 1
  <2>1. Backing(key)' = Backing(key) \ {r} /\ r \in Backing(key)
    BY <1>2 DEF Backing
  <2>2. Cardinality(Backing(key)) # 0
    BY <2>1, BackingFinite, FS_EmptySet
  <2>3. Cardinality(Backing(key) \ {r}) = Cardinality(Backing(key)) - 1
    BY <2>1, BackingFinite, FS_RemoveElement
  <2>4. Cardinality(Backing(key)) \in Nat
    BY BackingFinite
  <2> QED
    BY <1>2, <2>1, <2>2, <2>3, <2>4
<1>3. CASE ~(r.key = key /\ r.amount = 1)
  <2>1. Backing(key)' = Backing(key)
    BY <1>3 DEF Backing
  <2> QED
    BY <1>1, <1>3, <2>1, BackingFinite
<1> QED
  BY <1>2, <1>3
-----------------------------------------------------------------------------
\* Nothing is reserved or taken at the start.
LEMMA LedgerInvInit == BudgetInit => LedgerInv
<1> SUFFICES ASSUME BudgetInit PROVE LedgerInv
  OBVIOUS
<1>1. BudgetTypeOK /\ held = {}
  BY DEF BudgetInit, BudgetTypeOK
<1>2. \A key : Backing(key) = {}
  BY <1>1 DEF Backing
<1> QED
  BY <1>1, <1>2, FS_EmptySet
  DEF BudgetInit, LedgerInv, ReservedIsBacked, ReservedIsExact, ClosedIsZero

\* A reservation counts its unit and records its holder in one step.
LEMMA TryReserveKeepsInv ==
    ASSUME BudgetAssumption, LedgerInv, NEW c \in Calls, NEW key \in Keys,
           ~Holds(c), TryReserve(c, key)
    PROVE  LedgerInv'
<1> DEFINE r == [call |-> c, key |-> key, amount |-> Unit(key)]
<1> USE DEF LedgerInv
<1>1. /\ r \in Reservations /\ r \notin held /\ held' = held \cup {r}
      /\ r.key = key /\ r.amount = Unit(key) /\ Unit(key) \in {0, 1}
  BY DEF Holds, TryReserve, Reservations, Unit
<1>2. BudgetTypeOK'
  BY <1>1 DEF BudgetTypeOK, TryReserve
<1>3. IsFiniteSet(held)'
  BY <1>1, FS_AddElement
<1>4. \A k : Cardinality(Backing(k))' =
          IF key = k THEN Cardinality(Backing(k)) + Unit(key)
                     ELSE Cardinality(Backing(k))
  BY <1>1, BackingAfterReserve
<1>5. \A k \in Keys : reserved'[k] =
          IF key = k THEN reserved[k] + Unit(key) ELSE reserved[k]
  BY DEF TryReserve, BudgetTypeOK
<1>6. \A k \in Keys : reserved[k] \in Nat /\ Cardinality(Backing(k)) \in Nat
  BY BackingFinite DEF BudgetTypeOK
<1>7. ReservedIsBacked'
  BY <1>1, <1>4, <1>5, <1>6 DEF ReservedIsBacked
<1>8. ReservedIsExact'
  BY <1>4, <1>5 DEF ReservedIsExact
<1>9. ClosedIsZero'
  BY <1>1 DEF ClosedIsZero, TryReserve, Unit
<1> QED
  BY <1>2, <1>3, <1>7, <1>8, <1>9

\* Release and Settle change `held' and `reserved' alike.
LEMMA DropKeepsInv ==
    ASSUME BudgetAssumption, LedgerInv, NEW r \in held,
           held' = held \ {r}, reserved' = Drop(r), opened' = opened,
           BudgetTypeOK'
    PROVE  LedgerInv'
<1> USE DEF LedgerInv
<1>1. r \in Reservations /\ r.key \in Keys /\ r.amount \in {0, 1}
  BY DEF BudgetTypeOK, Reservations
<1>2. IsFiniteSet(held)'
  BY FS_RemoveElement
<1>3. \A k : /\ Cardinality(Backing(k))' =
                    IF r.key = k THEN Cardinality(Backing(k)) - r.amount
                                 ELSE Cardinality(Backing(k))
             /\ r.key = k => Cardinality(Backing(k)) >= r.amount
  BY <1>1, BackingAfterDrop
<1>4. \A k \in Keys : reserved[k] \in Nat /\ Cardinality(Backing(k)) \in Nat
  BY BackingFinite DEF BudgetTypeOK
<1>5. \A k \in Keys : reserved'[k] = IF r.key = k THEN Less(reserved[k], r.amount)
                                              ELSE reserved[k]
  BY <1>1, <1>4 DEF Drop, BudgetTypeOK, ClosedIsZero, Less
<1>6. ReservedIsExact'
  BY <1>1, <1>3, <1>4, <1>5 DEF ReservedIsExact, Less
<1>7. ReservedIsBacked'
  BY <1>1, <1>3, <1>4, <1>5 DEF ReservedIsBacked, Less
<1>8. ClosedIsZero'
  BY <1>1, <1>4, <1>5 DEF ClosedIsZero, Less
<1> QED
  BY <1>2, <1>6, <1>7, <1>8
-----------------------------------------------------------------------------
\* Steps that leave reservations and the counters of reserved units alone.
LEMMA QuietKeepsInv ==
    ASSUME LedgerInv, BudgetTypeOK', UNCHANGED <<reserved, held>>,
           opened \subseteq opened'
    PROVE  LedgerInv'
<1>1. \A key : Backing(key)' = Backing(key)
  BY DEF Backing
<1> QED
  BY <1>1 DEF LedgerInv, ReservedIsBacked, ReservedIsExact, ClosedIsZero

\* A restored session starts an empty ledger; calls keep stale reservations.
LEMMA ReplaceKeepsInv ==
    ASSUME BudgetAssumption, LedgerInv, BudgetTypeOK', Switching,
           reserved' = [key \in Keys |-> 0], UNCHANGED held
    PROVE  LedgerInv'
<1>1. \A key : /\ Backing(key)' = Backing(key)
               /\ Cardinality(Backing(key)) \in Nat
  BY BackingFinite DEF Backing, LedgerInv
<1> QED
  BY <1>1 DEF LedgerInv, ReservedIsBacked, ReservedIsExact, ClosedIsZero

\* One step of any client, operator or session switch.
LEMMA LedgerInvStep ==
    ASSUME BudgetAssumption, LedgerInv, BudgetNext
    PROVE  LedgerInv'
<1> USE DEF LedgerInv
<1>1. ASSUME NEW c \in Calls, NEW e \in Engs, NEW k \in ActionKinds,
             ~Holds(c), TryReserve(c, <<e, k>>)
      PROVE  LedgerInv'
  BY <1>1, TryReserveKeepsInv DEF Keys, Kinds
<1>2. ASSUME NEW e \in Engs, NEW k \in ActionKinds, ReserveAndRelease(<<e, k>>)
      PROVE  LedgerInv'
  <2>1. <<e, k>> \in Keys
    BY DEF Keys, Kinds
  <2>2. BudgetTypeOK'
    BY <1>2, <2>1 DEF ReserveAndRelease, BudgetTypeOK
  <2> QED
    BY <1>2, <2>2, QuietKeepsInv DEF ReserveAndRelease
<1>3. ASSUME NEW r \in held, Release(r)
      PROVE  LedgerInv'
  <2>1. r \in Reservations /\ r.key \in Keys /\ r.amount \in Nat
    BY DEF BudgetTypeOK, Reservations
  <2>2. BudgetTypeOK'
    BY <1>3, <2>1 DEF Release, Drop, Less, BudgetTypeOK
  <2> QED
    BY <1>3, <2>2, DropKeepsInv DEF Release
<1>4. ASSUME NEW r \in held, Settle(r)
      PROVE  LedgerInv'
  <2>1. r \in Reservations /\ r.key \in Keys /\ r.amount \in Nat
    BY DEF BudgetTypeOK, Reservations
  <2>2. BudgetTypeOK'
    BY <1>4, <2>1 DEF Settle, Drop, Less, BudgetTypeOK
  <2> QED
    BY <1>4, <2>2, DropKeepsInv DEF Settle
<1>5. ASSUME NEW e \in Engs, NEW k \in ByteKinds, NEW n \in 1..MaxMeasure,
             Account(<<e, k>>, n)
      PROVE  LedgerInv'
  <2>1. <<e, k>> \in Keys /\ n \in Nat
    BY DEF Keys, Kinds
  <2>2. BudgetTypeOK'
    BY <1>5, <2>1 DEF Account, BudgetTypeOK
  <2> QED
    BY <1>5, <2>2, QuietKeepsInv DEF Account
<1>6. ASSUME NEW e \in Engs, Register(e)
      PROVE  LedgerInv'
  BY <1>6, QuietKeepsInv DEF Register, BudgetTypeOK
<1>7. ASSUME NEW e \in Engs, NEW disable \in BOOLEAN,
             NEW choice \in [Kinds -> LimitChoices],
             UpdateLimits(e, disable, choice)
      PROVE  LedgerInv'
  <2>1. \A key \in Keys : key[2] \in Kinds
    BY DEF Keys
  <2>2. limit' \in [Keys -> LimitChoices]
    BY <1>7, <2>1 DEF UpdateLimits, BudgetTypeOK
  <2>3. BudgetTypeOK'
    BY <1>7, <2>2 DEF UpdateLimits, BudgetTypeOK
  <2> QED
    BY <1>7, <2>3, QuietKeepsInv DEF UpdateLimits
<1>8. ASSUME NEW es \in SUBSET Engs, NEW disabled \in SUBSET es,
             NEW limits \in [Keys -> LimitChoices],
             ReplaceEngagements(es, disabled, limits)
      PROVE  LedgerInv'
  <2>1. BudgetTypeOK'
    BY <1>8 DEF ReplaceEngagements, BudgetTypeOK
  <2> QED
    BY <1>8, <2>1, ReplaceKeepsInv DEF ReplaceEngagements
<1> QED
  BY <1>1, <1>2, <1>3, <1>4, <1>5, <1>6, <1>7, <1>8 DEF BudgetNext
-----------------------------------------------------------------------------
\* The ledger keeps its inductive invariant through every history of
\* reservations, settings and session switches.
THEOREM LedgerInvariant ==
    ASSUME BudgetAssumption
    PROVE  BudgetSpec => []LedgerInv
<1>1. LedgerInv /\ UNCHANGED ledger => LedgerInv'
  BY QuietKeepsInv DEF ledger, LedgerInv, BudgetTypeOK
<1> QED
  BY <1>1, LedgerInvInit, LedgerInvStep, PTL DEF BudgetSpec

\* Type correctness of the ledger.
THEOREM BudgetTypeCorrect ==
    ASSUME BudgetAssumption
    PROVE  BudgetSpec => []BudgetTypeOK
<1>1. LedgerInv => BudgetTypeOK
  BY DEF LedgerInv
<1> QED
  BY <1>1, LedgerInvariant, PTL

\* Every reserved unit is in the hands of a call, session switches included.
THEOREM ReservedBacked ==
    ASSUME BudgetAssumption
    PROVE  BudgetSpec => []ReservedIsBacked
<1>1. LedgerInv => ReservedIsBacked
  BY DEF LedgerInv
<1> QED
  BY <1>1, LedgerInvariant, PTL

\* Without session switches the ledger counts exactly the units in flight.
THEOREM ReservedExact ==
    ASSUME BudgetAssumption
    PROVE  BudgetSpec => []ReservedIsExact
<1>1. LedgerInv => ReservedIsExact
  BY DEF LedgerInv
<1> QED
  BY <1>1, LedgerInvariant, PTL
-----------------------------------------------------------------------------
WithinLimitStep ==
    ~Switching => \A key \in Keys :
        Current(key)' > Current(key) => Current(key)' <= limit[key]

\* A settle moves a unit: it never raises the amount counted, because without
\* session switches the unit it takes from `reserved' is there.
LEMMA SettleIsNeutral ==
    ASSUME LedgerInv, ~Switching, NEW r \in held, Settle(r), NEW key \in Keys
    PROVE  Current(key)' = Current(key)
<1> USE DEF LedgerInv
<1>1. /\ r \in Reservations /\ r.key \in Keys /\ r.amount \in {0, 1}
      /\ reserved \in [Keys -> Nat] /\ taken \in [Keys -> Nat]
  BY DEF BudgetTypeOK, Reservations
<1>2. reserved[r.key] >= r.amount
  <2>1. /\ Cardinality(Backing(r.key)) >= r.amount
        /\ Cardinality(Backing(r.key)) \in Nat
    <3>1. CASE r.amount = 0
      BY <3>1, BackingFinite
    <3>2. CASE r.amount = 1
      <4>1. r \in Backing(r.key)
        BY <3>2 DEF Backing
      <4>2. Cardinality(Backing(r.key)) # 0
        BY <4>1, BackingFinite, FS_EmptySet
      <4> QED
        BY <3>2, <4>2, BackingFinite
    <3> QED
      BY <1>1, <3>1, <3>2
  <2> QED
    BY <1>1, <2>1 DEF ReservedIsExact
<1>3. CASE r.key \in opened
  BY <1>1, <1>2, <1>3 DEF Settle, Drop, Less, Current
<1>4. CASE r.key \notin opened
  BY <1>1, <1>4 DEF Settle, Drop, Current
<1> QED
  BY <1>3, <1>4

\* Release, the only other step that lowers `reserved', lowers the amount.
LEMMA ReleaseLowers ==
    ASSUME LedgerInv, NEW r \in held, Release(r), NEW key \in Keys
    PROVE  Current(key)' <= Current(key)
<1>1. /\ r.key \in Keys /\ r.amount \in {0, 1}
      /\ reserved \in [Keys -> Nat] /\ taken \in [Keys -> Nat]
  BY DEF LedgerInv, BudgetTypeOK, Reservations
<1> QED
  BY <1>1 DEF Release, Drop, Less, Current

\* No step but a switch of engagements raises a count above its limit.
LEMMA StepWithinLimit ==
    ASSUME BudgetAssumption, LedgerInv, BudgetNext
    PROVE  WithinLimitStep
<1> SUFFICES ASSUME ~Switching, NEW key \in Keys, Current(key)' > Current(key)
             PROVE  Current(key)' <= limit[key]
  BY DEF WithinLimitStep
<1>0. /\ reserved \in [Keys -> Nat] /\ taken \in [Keys -> Nat]
      /\ limit \in [Keys -> Nat] /\ Current(key) \in Nat
  <2>1. reserved \in [Keys -> Nat] /\ taken \in [Keys -> Nat]
    BY DEF LedgerInv, BudgetTypeOK
  <2>2. limit \in [Keys -> Nat]
    BY DEF LedgerInv, BudgetTypeOK, BudgetAssumption
  <2> QED
    BY <2>1, <2>2 DEF Current
<1>1. ASSUME NEW c \in Calls, NEW e \in Engs, NEW k \in ActionKinds,
             TryReserve(c, <<e, k>>)
      PROVE  Current(key)' <= limit[key]
  <2> DEFINE counter == <<e, k>>
  <2>1. counter \in Keys /\ counter[1] = e
    BY DEF Keys, Kinds
  <2>2. Current(key)' = IF key = counter THEN Current(key) + Unit(counter)
                                    ELSE Current(key)
    BY <1>0, <1>1, <2>1 DEF TryReserve, Current, Unit
  <2> QED
    BY <1>0, <1>1, <2>1, <2>2 DEF TryReserve, CanReserve, Unit
<1>2. ASSUME NEW e \in Engs, NEW k \in ByteKinds, NEW n \in 1..MaxMeasure,
             Account(<<e, k>>, n)
      PROVE  Current(key)' <= limit[key]
  <2> DEFINE counter == <<e, k>>
  <2>1. counter \in Keys /\ counter[1] = e /\ n \in Nat
    BY DEF Keys, Kinds
  <2>2. Current(key)' = IF key = counter THEN Current(key) + n ELSE Current(key)
    BY <1>0, <1>2, <2>1 DEF Account, Current
  <2> QED
    BY <1>0, <1>2, <2>1, <2>2 DEF Account, CanReserve
<1>3. ASSUME UNCHANGED <<taken, reserved>> PROVE FALSE
  BY <1>0, <1>3 DEF Current
<1>4. ASSUME NEW r \in held, Release(r) PROVE FALSE
  BY <1>0, <1>4, ReleaseLowers DEF LedgerInv, BudgetTypeOK, Release, Drop, Less,
     Current, Reservations
<1>5. ASSUME NEW r \in held, Settle(r) PROVE FALSE
  BY <1>0, <1>5, SettleIsNeutral
<1> QED
  BY <1>1, <1>2, <1>3, <1>4, <1>5
  DEF BudgetNext, ReserveAndRelease, Register, UpdateLimits, ReplaceEngagements

\* Exhaustion is a hard deny: whatever the history of limits, no step counts
\* an amount beyond the limit in force.
THEOREM HardDeny ==
    ASSUME BudgetAssumption
    PROVE  BudgetSpec => GrantWithinLimit
<1>1. LedgerInv /\ UNCHANGED ledger => WithinLimitStep
  BY DEF ledger, LedgerInv, BudgetTypeOK, WithinLimitStep, Current
<1>2. LedgerInv /\ [BudgetNext]_ledger => WithinLimitStep
  BY <1>1, StepWithinLimit
<1>3. []LedgerInv /\ [][BudgetNext]_ledger => [][WithinLimitStep]_ledger
  BY <1>2, PTL
<1>4. [][WithinLimitStep]_ledger <=> GrantWithinLimit
  BY DEF WithinLimitStep, GrantWithinLimit
<1> QED
  BY <1>3, <1>4, LedgerInvariant, PTL DEF BudgetSpec
-----------------------------------------------------------------------------
(* The calls of Dispatch *)

\* What every step of a call relies on: an engagement bound to a call under
\* way exists, a batch that was not submitted has no call under way, a stopped
\* session has no approval dialog open, and reservations are held as
\* HoldersInFlight says.
CallInv ==
    /\ pc \in [Calls -> PCs]
    /\ eng \in [Calls -> Engs \cup {NoEng}]
    /\ bstate \in [Batches -> {"idle", "running", "returned", "raised", "cancelled"}]
    /\ active \subseteq Engs
    /\ \A c \in Calls : pc[c] \in InSlot => eng[c] \in Engs
    /\ \A b \in Batches : bstate[b] = "idle" => \A c \in Of(b) : pc[c] = "idle"
    /\ stopped => \A c \in Calls : pc[c] # "approving"
    /\ \A r \in held : r.call \in Calls
    /\ HoldersInFlight

\* The part of CallInv that concerns the ledger, for a step of call c.
HoldersOK ==
    /\ \A r \in held : r.call \in Calls
    /\ HoldersInFlight
-----------------------------------------------------------------------------
\* A step that moves one call that was under way, and at most ends its batch
\* for the awaiter, keeps the states of batches and the lock.
LEMMA MoveKeepsShape ==
    ASSUME CallInv, NEW c \in Calls, NEW where \in PCs,
           pc[c] # "idle", Goto(c, where),
           bstate' = bstate \/ RaiseIn(BatchOf[c]),
           stopped' = stopped,
           where = "approving" => ~stopped
    PROVE  /\ pc' \in [Calls -> PCs]
           /\ bstate' \in [Batches -> {"idle", "running", "returned",
                                     "raised", "cancelled"}]
           /\ \A b \in Batches : bstate'[b] = "idle" => \A d \in Of(b) : pc'[d] = "idle"
           /\ stopped' => \A d \in Calls : pc'[d] # "approving"
<1>1. pc' \in [Calls -> PCs]
  BY DEF CallInv, Goto
<1>2. BatchOf[c] \in Batches /\ c \in Of(BatchOf[c])
  BY DispatchAssumption DEF Of
<1>3. bstate[BatchOf[c]] # "idle"
  BY <1>2 DEF CallInv
<1>4. /\ bstate' \in [Batches -> {"idle", "running", "returned",
                                "raised", "cancelled"}]
      /\ \A b \in Batches : bstate'[b] = "idle" => bstate[b] = "idle"
  BY <1>2 DEF CallInv, RaiseIn
<1>5. ASSUME NEW b \in Batches, bstate'[b] = "idle", NEW d \in Of(b)
      PROVE  pc'[d] = "idle"
  <2>1. pc[d] = "idle" /\ d \in Calls
    BY <1>4, <1>5 DEF CallInv, Of
  <2>2. d # c
    BY <2>1
  <2>. QED  BY <2>1, <2>2 DEF CallInv, Goto
<1>6. stopped' => \A d \in Calls : pc'[d] # "approving"
  BY DEF CallInv, Goto
<1>. QED  BY <1>1, <1>4, <1>5, <1>6

\* A call that holds nothing takes its reservation, under the key it is bound
\* to in the same step.
LEMMA TakeKeepsHolders ==
    ASSUME CallInv, NEW c \in Calls, NEW where \in InSlot \cup Left,
           pc[c] = "queued", Goto(c, where),
           eng' = [eng EXCEPT ![c] = Bind(c)],
           TryReserve(c, <<Bind(c), KindOf[c]>>)
    PROVE  HoldersOK'
<1>. DEFINE new == [call |-> c, key |-> <<Bind(c), KindOf[c]>>,
                    amount |-> Unit(<<Bind(c), KindOf[c]>>)]
<1>1. held' = held \cup {new}
  BY DEF TryReserve
<1>2. \A r \in held : r.call # c
  BY DEF CallInv, HoldersInFlight, InSlot, Left
<1>3. \A r \in held : /\ pc'[r.call] = pc[r.call]
                      /\ eng'[r.call] = eng[r.call]
  BY <1>2 DEF CallInv, Goto
<1>4. pc'[c] = where /\ eng'[c] = Bind(c)
  BY DEF CallInv, Goto
<1>5. new.call = c /\ new.key = <<Bind(c), KindOf[c]>>
  OBVIOUS
<1>. HIDE DEF new
<1>6. \A r \in held' : r.call \in Calls
  BY <1>1, <1>5 DEF CallInv
<1>7. \A r \in held' : /\ pc'[r.call] \in InSlot \cup Left
                       /\ r.key = <<eng'[r.call], KindOf[r.call]>>
  BY <1>1, <1>3, <1>4, <1>5 DEF CallInv, HoldersInFlight, Key
<1>8. \A r, s \in held' : r.call = s.call => r = s
  BY <1>1, <1>2, <1>5 DEF CallInv, HoldersInFlight
<1>. QED  BY <1>6, <1>7, <1>8 DEF HoldersOK, HoldersInFlight, Key

\* A call gives its only reservation back, or settles it, and ends.
LEMMA GiveKeepsHolders ==
    ASSUME CallInv, NEW c \in Calls, NEW where, Goto(c, where), eng' = eng,
           NEW r \in held, r.call = c, held' = held \ {r}
    PROVE  HoldersOK'
<1>1. \A s \in held' : s \in held /\ s.call # c /\ s.call \in Calls
  BY DEF CallInv, HoldersInFlight
<1>2. \A s \in held' : pc'[s.call] = pc[s.call]
  BY <1>1 DEF CallInv, Goto
<1>. QED  BY <1>1, <1>2 DEF CallInv, HoldersOK, HoldersInFlight, Key

\* A call goes on, or leaves run_one, with what it holds.
LEMMA CarryKeepsHolders ==
    ASSUME CallInv, NEW c \in Calls,
           NEW where \in InSlot \cup Left, Goto(c, where),
           eng' = eng, held' = held
    PROVE  HoldersOK'
<1>1. \A d \in Calls : pc'[d] = IF d = c THEN where ELSE pc[d]
  BY DEF CallInv, Goto
<1>. QED  BY <1>1 DEF CallInv, HoldersOK, HoldersInFlight, Key

\* A call that holds nothing is bound, and ends without a reservation.
LEMMA TurnAwayKeepsHolders ==
    ASSUME CallInv, NEW c \in Calls, NEW where, pc[c] = "queued", Goto(c, where),
           \/ eng' = eng
           \/ eng' = [eng EXCEPT ![c] = Bind(c)],
           held' = held
    PROVE  HoldersOK'
<1>1. \A r \in held : r.call # c /\ r.call \in Calls
  BY DEF CallInv, HoldersInFlight, InSlot, Left
<1>2. \A r \in held : pc'[r.call] = pc[r.call] /\ eng'[r.call] = eng[r.call]
  BY <1>1 DEF CallInv, Goto
<1>. QED  BY <1>1, <1>2 DEF CallInv, HoldersOK, HoldersInFlight, Key
-----------------------------------------------------------------------------
\* Binding a call keeps the types, and an authorized call is bound to an
\* engagement that exists.
LEMMA BindIsTyped ==
    ASSUME DispatchAssumption, active \subseteq Engs, NEW c \in Calls
    PROVE  /\ Bind(c) \in Engs \cup {NoEng}
           /\ Authorized(c, Bind(c)) => Bind(c) \in Engs
<1>1. EngOf[c] \in Engs \cup {NoEng}
  BY DEF DispatchAssumption
<1>2. CASE \E e \in active : active = {e}
  <2>1. (CHOOSE e \in active : TRUE) \in active
    BY <1>2
  <2>. QED  BY <1>1, <2>1 DEF Bind, Authorized
<1>3. CASE ~ \E e \in active : active = {e}
  BY <1>1, <1>3 DEF Bind, Authorized
<1>. QED  BY <1>2, <1>3

\* The invariant of the calls holds at the start.
LEMMA CallInvInit == Init => CallInv
<1>. SUFFICES ASSUME Init PROVE CallInv
  OBVIOUS
<1>1. held = {} /\ registered \subseteq Engs
  BY DEF Init, BudgetInit
<1>. QED  BY <1>1, DispatchAssumption
     DEF Init, CallInv, HoldersInFlight, PCs, InSlot, Of
-----------------------------------------------------------------------------
\* A call leaves the queue: refused by the lock, the gate or the budget, or
\* admitted with a reservation.
LEMMA AdmitKeepsInv ==
    ASSUME CallInv, NEW c \in Calls,
           \/ AdmitStopped(c) \/ AdmitRefused(c) \/ AdmitExhausted(c)
           \/ AdmitToApproval(c) \/ AdmitToPlan(c) \/ AdmitToHandler(c)
           \/ RefusalFails(c) \/ \E caught \in BOOLEAN : AdmitFails(c, caught)
    PROVE  CallInv'
<1>0. pc[c] = "queued" /\ active' = active /\ stopped' = stopped
  BY DEF AdmitStopped, AdmitRefused, AdmitExhausted, AdmitToApproval, AdmitToPlan,
         AdmitToHandler, RefusalFails, AdmitFails, Admitted, Turn, operatorVars
<1>1. /\ Bind(c) \in Engs \cup {NoEng}
      /\ Authorized(c, Bind(c)) => Bind(c) \in Engs
  BY BindIsTyped, DispatchAssumption DEF CallInv
<1>2. ASSUME NEW where \in PCs \ InSlot, Goto(c, where),
             eng' = eng \/ eng' = [eng EXCEPT ![c] = Bind(c)],
             bstate' = bstate \/ RaiseIn(BatchOf[c]), held' = held
      PROVE  CallInv'
  <2>1. HoldersOK'
    BY <1>0, <1>2, TurnAwayKeepsHolders
  <2>2. where # "approving"
    BY <1>2 DEF InSlot
  <2>3. /\ pc' \in [Calls -> PCs]
        /\ bstate' \in [Batches -> {"idle", "running", "returned",
                                    "raised", "cancelled"}]
        /\ \A b \in Batches : bstate'[b] = "idle" => \A d \in Of(b) : pc'[d] = "idle"
        /\ stopped' => \A d \in Calls : pc'[d] # "approving"
    BY <1>0, <1>2, <2>2, MoveKeepsShape
  <2>4. eng' \in [Calls -> Engs \cup {NoEng}]
    BY <1>1, <1>2 DEF CallInv
  <2>5. \A d \in Calls : pc'[d] \in InSlot => eng'[d] \in Engs
    BY <1>2 DEF CallInv, Goto
  <2>. QED  BY <1>0, <2>1, <2>3, <2>4, <2>5 DEF CallInv, HoldersOK, Of
<1>3. ASSUME NEW where \in InSlot \cup Left, Goto(c, where), Authorized(c, Bind(c)),
             ~stopped, eng' = [eng EXCEPT ![c] = Bind(c)],
             bstate' = bstate \/ RaiseIn(BatchOf[c]),
             TryReserve(c, <<Bind(c), KindOf[c]>>)
      PROVE  CallInv'
  <2>1. HoldersOK'
    BY <1>0, <1>3, TakeKeepsHolders
  <2>2. where \in PCs
    BY <1>3 DEF InSlot, PCs, Final, Left
  <2>3. /\ pc' \in [Calls -> PCs]
        /\ bstate' \in [Batches -> {"idle", "running", "returned",
                                    "raised", "cancelled"}]
        /\ \A b \in Batches : bstate'[b] = "idle" => \A d \in Of(b) : pc'[d] = "idle"
        /\ stopped' => \A d \in Calls : pc'[d] # "approving"
    BY <1>0, <1>3, <2>2, MoveKeepsShape
  <2>4. /\ eng' \in [Calls -> Engs \cup {NoEng}]
        /\ \A d \in Calls : pc'[d] \in InSlot => eng'[d] \in Engs
    BY <1>1, <1>3 DEF CallInv, Goto
  <2>. QED  BY <1>0, <2>1, <2>3, <2>4 DEF CallInv, HoldersOK, Of
<1>4. CASE AdmitStopped(c)
  BY <1>2, <1>4 DEF AdmitStopped, ledger, PCs, InSlot, Final, Left
<1>5. CASE AdmitRefused(c)
  BY <1>2, <1>5 DEF AdmitRefused, ledger, PCs, InSlot, Final, Left
<1>6. CASE AdmitExhausted(c)
  BY <1>2, <1>6 DEF AdmitExhausted, ledger, PCs, InSlot, Final, Left
<1>7. CASE AdmitToApproval(c)
  BY <1>3, <1>7 DEF AdmitToApproval, Admitted, InSlot
<1>8. CASE AdmitToPlan(c)
  BY <1>2, <1>8 DEF AdmitToPlan, Admitted, ReserveAndRelease, PCs, InSlot, Final, Left
<1>9. CASE AdmitToHandler(c)
  BY <1>3, <1>9 DEF AdmitToHandler, Admitted, InSlot
<1>10. CASE RefusalFails(c)
  BY <1>2, <1>10 DEF RefusalFails, ledger, PCs, InSlot, Final, Left
<1>11. ASSUME NEW caught \in BOOLEAN, AdmitFails(c, caught)
       PROVE  CallInv'
  BY <1>3, <1>11 DEF AdmitFails, Admitted, Left
<1>. QED  BY <1>4, <1>5, <1>6, <1>7, <1>8, <1>9, <1>10, <1>11
-----------------------------------------------------------------------------
\* A call in its slot goes on with what it holds, gives it back, or escapes.
LEMMA SlotKeepsInv ==
    ASSUME CallInv, NEW c \in Calls,
           \/ Deny(c) \/ Complete(c) \/ Escape(c)
           \/ \E edited \in BOOLEAN : ApproveToPlan(c, edited)
           \/ \E edited \in BOOLEAN : ApproveToHandler(c, edited)
           \/ \E ok \in BOOLEAN : Finish(c, ok)
    PROVE  CallInv'
<1>0. /\ pc[c] \in InSlot /\ active' = active /\ stopped' = stopped /\ eng' = eng
      /\ bstate' = bstate \/ RaiseIn(BatchOf[c])
  BY DEF Deny, Complete, Escape, ApproveToPlan, ApproveToHandler, Approved, Finish,
         InSlot, operatorVars
<1>1. ASSUME NEW where \in PCs \ {"approving"}, Goto(c, where), HoldersOK'
      PROVE  CallInv'
  <2>1. pc[c] # "idle"
    BY <1>0 DEF InSlot
  <2>2. /\ pc' \in [Calls -> PCs]
        /\ bstate' \in [Batches -> {"idle", "running", "returned",
                                    "raised", "cancelled"}]
        /\ \A b \in Batches : bstate'[b] = "idle" => \A d \in Of(b) : pc'[d] = "idle"
        /\ stopped' => \A d \in Calls : pc'[d] # "approving"
    BY <1>0, <1>1, <2>1, MoveKeepsShape
  <2>3. \A d \in Calls : pc'[d] \in InSlot => eng'[d] \in Engs
    BY <1>0, <1>1 DEF CallInv, Goto
  <2>. QED  BY <1>0, <1>1, <2>2, <2>3 DEF CallInv, HoldersOK, Of
<1>2. ASSUME NEW where \in PCs \ {"approving"}, Goto(c, where), NEW r \in held,
             r.call = c, held' = held \ {r}
      PROVE  CallInv'
  BY <1>0, <1>1, <1>2, GiveKeepsHolders
<1>3. ASSUME NEW where \in {"executing", "redacting", "raised"}, Goto(c, where),
             held' = held
      PROVE  CallInv'
  BY <1>0, <1>1, <1>3, CarryKeepsHolders DEF PCs, InSlot, Final, Left
<1>4. CASE Deny(c)
  BY <1>2, <1>4 DEF Deny, Release, PCs, Final, Left
<1>5. CASE Complete(c)
  BY <1>2, <1>5 DEF Complete, Settle, PCs, Final, Left
<1>6. CASE Escape(c)
  BY <1>3, <1>6 DEF Escape, ledger
<1>7. ASSUME NEW edited \in BOOLEAN, ApproveToPlan(c, edited) PROVE CallInv'
  BY <1>2, <1>7 DEF ApproveToPlan, Release, PCs, Final, Left
<1>8. ASSUME NEW edited \in BOOLEAN, ApproveToHandler(c, edited) PROVE CallInv'
  BY <1>3, <1>8 DEF ApproveToHandler, ledger
<1>9. ASSUME NEW ok \in BOOLEAN, Finish(c, ok) PROVE CallInv'
  BY <1>3, <1>9 DEF Finish, ledger
<1>. QED  BY <1>4, <1>5, <1>6, <1>7, <1>8, <1>9
-----------------------------------------------------------------------------
\* A batch is submitted, returns to its awaiter, or is cancelled.
LEMMA BatchKeepsInv ==
    ASSUME CallInv, NEW b \in Batches, Submit(b) \/ Return(b) \/ CancelPrompt(b)
    PROVE  CallInv'
<1>0. UNCHANGED <<eng, active, stopped, held>>
  BY DEF Submit, Return, CancelPrompt, operatorVars, ledger
<1>1. \A r \in held : r.call \in Calls /\ pc[r.call] \notin {"idle", "queued"}
  BY DEF CallInv, HoldersInFlight, InSlot, Left
<1>2. CASE Submit(b)
  <2>1. /\ pc' = [c \in Calls |-> IF c \in Of(b) THEN "queued" ELSE pc[c]]
        /\ bstate' = [bstate EXCEPT ![b] = "running"]
        /\ bstate[b] = "idle"
    BY <1>2 DEF Submit
  <2>2. \A c \in Calls : pc[c] # "idle" => pc'[c] = pc[c]
    BY <2>1 DEF CallInv
  <2>3. HoldersOK'
    BY <1>0, <1>1, <2>2 DEF CallInv, HoldersOK, HoldersInFlight, Key
  <2>4. pc' \in [Calls -> PCs]
    BY <2>1 DEF CallInv, PCs
  <2>5. ASSUME NEW a \in Batches, bstate'[a] = "idle", NEW c \in Of(a)
        PROVE  pc'[c] = "idle"
    BY <2>1, <2>5 DEF CallInv, Of
  <2>6. \A c \in Calls : pc'[c] \in InSlot => pc'[c] = pc[c]
    BY <2>1 DEF CallInv, InSlot
  <2>7. \A c \in Calls : pc'[c] # "approving" \/ pc'[c] = pc[c]
    BY <2>6 DEF InSlot
  <2>. QED  BY <1>0, <2>1, <2>3, <2>4, <2>5, <2>6, <2>7 DEF CallInv, HoldersOK, Of
<1>3. CASE Return(b)
  <2>1. pc' = pc /\ bstate[b] = "running" /\ bstate' = [bstate EXCEPT ![b] = "returned"]
    BY <1>3 DEF Return
  <2>. QED  BY <1>0, <2>1 DEF CallInv, HoldersInFlight, Key, Of
<1>4. CASE CancelPrompt(b)
  <2>1. /\ bstate[b] = "running"
        /\ bstate' = [bstate EXCEPT ![b] = "cancelled"]
        /\ pc' = [c \in Calls |-> IF c \in Of(b) /\ pc[c] \notin Final
                                  THEN "cancelled" ELSE pc[c]]
    BY <1>4 DEF CancelPrompt
  <2>2. \A c \in Calls : pc'[c] = pc[c] \/ pc'[c] = "cancelled"
    BY <2>1
  <2>3. HoldersOK'
    BY <1>0, <2>2 DEF CallInv, HoldersOK, HoldersInFlight, Key, Left
  <2>4. pc' \in [Calls -> PCs]
    BY <2>1 DEF CallInv, PCs, Final, Left
  <2>5. ASSUME NEW a \in Batches, bstate'[a] = "idle", NEW c \in Of(a)
        PROVE  pc'[c] = "idle"
    BY <2>1, <2>5 DEF CallInv, Of
  <2>6. \A c \in Calls : pc'[c] \in InSlot => pc'[c] = pc[c]
    BY <2>2 DEF InSlot
  <2>7. \A c \in Calls : pc'[c] # "approving" \/ pc'[c] = pc[c]
    BY <2>2
  <2>. QED  BY <1>0, <2>1, <2>3, <2>4, <2>5, <2>6, <2>7 DEF CallInv, HoldersOK, Of
<1>. QED  BY <1>2, <1>3, <1>4

\* The operator acts: no call moves; a panic finds no approval dialog open.
LEMMA OperatorKeepsInv ==
    ASSUME CallInv, BudgetTypeOK, OperatorStep
    PROVE  CallInv'
<1>. SUFFICES /\ UNCHANGED <<callVars, held>>
              /\ active' \subseteq Engs
              /\ stopped' => \A c \in Calls : pc[c] # "approving"
  BY DEF CallInv, HoldersInFlight, Key, callVars, Of
<1>. USE DEF CommandLineFree, ledger
<1>0. active \subseteq Engs /\ registered \subseteq Engs
      /\ (stopped => \A c \in Calls : pc[c] # "approving")
  BY DEF CallInv, BudgetTypeOK
<1>1. CASE Panic
  BY <1>0, <1>1 DEF Panic
<1>2. CASE ResumeActions
  BY <1>0, <1>2 DEF ResumeActions
<1>3. ASSUME NEW e \in Engs, SetStatus(e) \/ SetDryRun(e) \/ AddEngagement(e)
      PROVE  /\ UNCHANGED <<callVars, held>>
             /\ active' \subseteq Engs
             /\ stopped' => \A c \in Calls : pc[c] # "approving"
  BY <1>0, <1>3 DEF SetStatus, SetDryRun, AddEngagement, Register
<1>4. ASSUME NEW e \in Engs, NEW disable \in BOOLEAN,
             NEW choice \in [Kinds -> LimitChoices], SaveBudget(e, disable, choice)
      PROVE  UNCHANGED <<callVars, held, active, stopped>>
  BY <1>4 DEF SaveBudget, UpdateLimits, operatorVars
<1>5. ASSUME NEW es \in SUBSET Engs, NEW on \in SUBSET es, NEW disabled \in SUBSET es,
             NEW planned \in SUBSET es, NEW limits \in [Keys -> LimitChoices],
             SwitchSession(es, on, disabled, planned, limits)
      PROVE  UNCHANGED <<callVars, held, stopped>> /\ active' \subseteq Engs
  BY <1>5 DEF SwitchSession, ReplaceEngagements
<1>. QED  BY <1>0, <1>1, <1>2, <1>3, <1>4, <1>5 DEF OperatorStep

\* Every step keeps the invariant of the calls.
LEMMA CallInvStep ==
    ASSUME CallInv, BudgetTypeOK, [Next]_vars
    PROVE  CallInv'
<1>1. ASSUME NEW c \in Calls, CallStep(c) \/ Measure(c) \/ Fault(c)
      PROVE  CallInv'
  <2>1. CASE Measure(c)
    BY <2>1 DEF Measure, Account, callVars, operatorVars, CallInv, HoldersInFlight, Key, Of
  <2>. QED  BY <1>1, <2>1, AdmitKeepsInv, SlotKeepsInv DEF CallStep, Fault
<1>2. CASE UNCHANGED vars
  BY <1>2 DEF vars, callVars, operatorVars, ledger, CallInv, HoldersInFlight, Key, Of
<1>. QED  BY <1>1, <1>2, BatchKeepsInv, OperatorKeepsInv DEF Next
-----------------------------------------------------------------------------
\* Every step of dispatch is a step of the ledger or leaves it alone.
LEMMA StepIsLedgerStep ==
    ASSUME CallInv, [Next]_vars
    PROVE  [BudgetNext]_ledger
<1>1. ASSUME NEW c \in Calls, CallStep(c) \/ Measure(c) \/ Fault(c)
      PROVE  [BudgetNext]_ledger
  <2>0. KindOf[c] \in ActionKinds
    BY DispatchAssumption
  <2>1. CASE \/ AdmitToApproval(c) \/ AdmitToHandler(c)
             \/ \E caught \in BOOLEAN : AdmitFails(c, caught)
    <3>1. /\ pc[c] = "queued" /\ Authorized(c, Bind(c))
          /\ TryReserve(c, <<Bind(c), KindOf[c]>>)
      BY <2>1 DEF AdmitToApproval, AdmitToHandler, AdmitFails, Admitted, Turn
    <3>2. ~Holds(c)
      BY <3>1 DEF Holds, CallInv, HoldersInFlight, InSlot, Left
    <3>3. Bind(c) \in Engs
      BY <3>1, BindIsTyped, DispatchAssumption DEF CallInv
    <3>. QED  BY <2>0, <3>1, <3>2, <3>3 DEF BudgetNext
  <2>2. CASE AdmitToPlan(c)
    <3>1. Authorized(c, Bind(c)) /\ ReserveAndRelease(<<Bind(c), KindOf[c]>>)
      BY <2>2 DEF AdmitToPlan, Admitted
    <3>2. Bind(c) \in Engs
      BY <3>1, BindIsTyped, DispatchAssumption DEF CallInv
    <3>. QED  BY <2>0, <3>1, <3>2 DEF BudgetNext
  <2>3. CASE Measure(c)
    <3>1. eng[c] \in Engs
      BY <2>3 DEF Measure, CallInv, InSlot
    <3>. QED  BY <2>3, <3>1 DEF Measure, BudgetNext
  <2>4. CASE Deny(c) \/ Complete(c) \/ \E edited \in BOOLEAN : ApproveToPlan(c, edited)
    BY <2>4 DEF Deny, Complete, ApproveToPlan, BudgetNext
  <2>5. CASE \/ AdmitStopped(c) \/ AdmitRefused(c) \/ AdmitExhausted(c) \/ Escape(c)
             \/ RefusalFails(c)
             \/ \E edited \in BOOLEAN : ApproveToHandler(c, edited)
             \/ \E ok \in BOOLEAN : Finish(c, ok)
    BY <2>5 DEF AdmitStopped, AdmitRefused, AdmitExhausted, Escape, RefusalFails,
                ApproveToHandler, Finish, ledger
  <2>. QED  BY <1>1, <2>1, <2>2, <2>3, <2>4, <2>5 DEF CallStep, Fault
<1>2. ASSUME NEW b \in Batches, Submit(b) \/ Return(b) \/ CancelPrompt(b)
      PROVE  UNCHANGED ledger
  BY <1>2 DEF Submit, Return, CancelPrompt
<1>3. CASE OperatorStep
  <2>1. CASE Panic \/ ResumeActions \/ \E e \in Engs : SetStatus(e) \/ SetDryRun(e)
    BY <2>1 DEF Panic, ResumeActions, SetStatus, SetDryRun
  <2>2. CASE \E e \in Engs : AddEngagement(e)
    BY <2>2 DEF AddEngagement, BudgetNext
  <2>3. CASE \E e \in Engs, disable \in BOOLEAN, choice \in [Kinds -> LimitChoices] :
                SaveBudget(e, disable, choice)
    BY <2>3 DEF SaveBudget, BudgetNext
  <2>4. ASSUME NEW es \in SUBSET Engs, NEW on \in SUBSET es, NEW disabled \in SUBSET es,
               NEW planned \in SUBSET es, NEW limits \in [Keys -> LimitChoices],
               SwitchSession(es, on, disabled, planned, limits)
        PROVE  BudgetNext
    BY <2>4 DEF SwitchSession, BudgetNext
  <2>. QED  BY <1>3, <2>1, <2>2, <2>3, <2>4 DEF OperatorStep
<1>4. CASE UNCHANGED vars
  BY <1>4 DEF vars
<1>. QED  BY <1>1, <1>2, <1>3, <1>4 DEF Next
-----------------------------------------------------------------------------
DispatchInv == CallInv /\ LedgerInv

\* Calls and ledger together: the inductive invariant of dispatch.
THEOREM DispatchInvariant == Spec => []DispatchInv
<1>1. Init => DispatchInv
  BY CallInvInit, LedgerInvInit DEF Init, DispatchInv
<1>2. DispatchInv /\ [Next]_vars => DispatchInv'
  <2>. SUFFICES ASSUME DispatchInv, [Next]_vars PROVE DispatchInv'
    OBVIOUS
  <2>1. CallInv' /\ [BudgetNext]_ledger
    BY CallInvStep, StepIsLedgerStep DEF DispatchInv, LedgerInv
  <2>2. LedgerInv'
    BY <2>1, BudgetAssumption, LedgerInvStep, QuietKeepsInv
    DEF DispatchInv, LedgerInv, ledger, BudgetTypeOK
  <2>. QED  BY <2>1, <2>2 DEF DispatchInv
<1>. QED  BY <1>1, <1>2, PTL DEF Spec

\* Dispatch implements the budget ledger: whatever calls, batches, operator
\* and session switches do, the ledger only makes the steps of budget.py.
THEOREM DispatchIsLedger == Spec => LedgerSpec
<1>1. Init => BudgetInit
  BY DEF Init
<1>2. DispatchInv /\ [Next]_vars => [BudgetNext]_ledger
  BY StepIsLedgerStep DEF DispatchInv
<1>. QED  BY <1>1, <1>2, DispatchInvariant, PTL DEF Spec, LedgerSpec, BudgetSpec

\* No early return of run_one keeps a reservation, and no call holds two.
THEOREM HoldersAreInFlight == Spec => []HoldersInFlight
<1>1. DispatchInv => HoldersInFlight
  BY DEF DispatchInv, CallInv
<1>. QED  BY <1>1, DispatchInvariant, PTL

\* Budget exhaustion is a hard deny for the calls of any batches.
THEOREM DispatchWithinLimit == Spec => GrantWithinLimit
<1>. QED  BY DispatchIsLedger, HardDeny, BudgetAssumption, PTL DEF LedgerSpec
-----------------------------------------------------------------------------
UnlockedStep == stopped => ran' = ran

AuthorizedStep ==
    \A c \in ran' \ ran : /\ eng'[c] \in active /\ c \notin Refused
                          /\ c \in Asks => pc[c] = "approving"

\* Only two steps enter a handler; both have asked the gate in the same step.
LEMMA HandlerStarts ==
    ASSUME CallInv, [Next]_vars
    PROVE  \/ ran' = ran
           \/ \E c \in Calls : AdmitToHandler(c) /\ ran' = ran \cup {c}
           \/ \E c \in Calls, edited \in BOOLEAN :
                 ApproveToHandler(c, edited) /\ Authorized(c, eng[c]) /\ ran' = ran \cup {c}
<1>1. ASSUME NEW c \in Calls, CallStep(c) \/ Measure(c) \/ Fault(c)
      PROVE  \/ ran' = ran
             \/ AdmitToHandler(c) /\ ran' = ran \cup {c}
             \/ \E edited \in BOOLEAN :
                   ApproveToHandler(c, edited) /\ Authorized(c, eng[c]) /\ ran' = ran \cup {c}
  <2>1. CASE AdmitToHandler(c)
    BY <2>1 DEF AdmitToHandler
  <2>2. ASSUME NEW edited \in BOOLEAN, ApproveToHandler(c, edited)
        PROVE  \/ ran' = ran
               \/ Authorized(c, eng[c]) /\ ran' = ran \cup {c}
    BY <2>2 DEF ApproveToHandler
  <2>3. CASE \/ AdmitStopped(c) \/ AdmitRefused(c) \/ AdmitExhausted(c)
             \/ AdmitToApproval(c) \/ AdmitToPlan(c) \/ Deny(c) \/ Complete(c)
             \/ Measure(c) \/ Escape(c) \/ RefusalFails(c)
             \/ \E caught \in BOOLEAN : AdmitFails(c, caught)
             \/ \E edited \in BOOLEAN : ApproveToPlan(c, edited)
             \/ \E ok \in BOOLEAN : Finish(c, ok)
    BY <2>3 DEF AdmitStopped, AdmitRefused, AdmitExhausted, AdmitToApproval, AdmitToPlan,
                Deny, Complete, Measure, Escape, RefusalFails, AdmitFails, ApproveToPlan,
                Finish, callVars
  <2>. QED  BY <1>1, <2>1, <2>2, <2>3 DEF CallStep, Fault
<1>2. ASSUME NEW b \in Batches, Submit(b) \/ Return(b) \/ CancelPrompt(b)
      PROVE  ran' = ran
  BY <1>2 DEF Submit, Return, CancelPrompt
<1>3. CASE OperatorStep
  BY <1>3 DEF OperatorStep, Panic, ResumeActions, SetStatus, SetDryRun, SaveBudget,
              AddEngagement, SwitchSession, callVars
<1>4. CASE UNCHANGED vars
  BY <1>4 DEF vars, callVars
<1>. QED  BY <1>1, <1>2, <1>3, <1>4 DEF Next

\* A stopped session starts no handler, although only the calls that leave
\* the queue look at the lock: no approval dialog is open when it is locked.
THEOREM LockedStartsNothing == Spec => EntryUnlocked
<1>1. DispatchInv /\ [Next]_vars => UnlockedStep
  <2>. SUFFICES ASSUME CallInv, [Next]_vars, stopped PROVE ran' = ran
    BY DEF DispatchInv, UnlockedStep
  <2>1. ASSUME NEW c \in Calls, AdmitToHandler(c) PROVE FALSE
    BY <2>1 DEF AdmitToHandler, Admitted
  <2>2. ASSUME NEW c \in Calls, NEW edited \in BOOLEAN, ApproveToHandler(c, edited)
        PROVE  FALSE
    BY <2>2 DEF ApproveToHandler, Approved, CallInv
  <2>. QED  BY <2>1, <2>2, HandlerStarts
<1>2. []DispatchInv /\ [][Next]_vars => [][UnlockedStep]_vars
  BY <1>1, PTL
<1>3. [][UnlockedStep]_vars <=> EntryUnlocked
  BY DEF UnlockedStep, EntryUnlocked
<1>. QED  BY <1>2, <1>3, DispatchInvariant, PTL DEF Spec

\* Every handler starts for an engagement that is active at that instant, with
\* arguments in scope, and after the operator was asked where it must be.
THEOREM OnlyAuthorizedStart == Spec => EntryAuthorized
<1>1. DispatchInv /\ [Next]_vars => AuthorizedStep
  <2>. SUFFICES ASSUME CallInv, [Next]_vars, NEW c \in ran', c \notin ran
                PROVE  /\ eng'[c] \in active /\ c \notin Refused
                       /\ c \in Asks => pc[c] = "approving"
    BY DEF DispatchInv, AuthorizedStep
  <2>1. ASSUME c \in Calls, AdmitToHandler(c)
        PROVE  /\ eng'[c] \in active /\ c \notin Refused
               /\ c \in Asks => pc[c] = "approving"
    BY <2>1 DEF AdmitToHandler, Admitted, Authorized, CallInv
  <2>2. ASSUME c \in Calls, NEW edited \in BOOLEAN, ApproveToHandler(c, edited),
               Authorized(c, eng[c])
        PROVE  /\ eng'[c] \in active /\ c \notin Refused
               /\ c \in Asks => pc[c] = "approving"
    BY <2>2 DEF ApproveToHandler, Approved, Authorized
  <2>. QED  BY <2>1, <2>2, HandlerStarts
<1>2. []DispatchInv /\ [][Next]_vars => [][AuthorizedStep]_vars
  BY <1>1, PTL
<1>3. [][AuthorizedStep]_vars <=> EntryAuthorized
  BY DEF AuthorizedStep, EntryAuthorized
<1>. QED  BY <1>2, <1>3, DispatchInvariant, PTL DEF Spec
-----------------------------------------------------------------------------
(* An action under way or completed is paid for.  A call that ran either     *)
(* still holds its unit, which the ledger counts as reserved, or has settled *)
(* it; Settled collects the latter, and the inductive invariant compares     *)
(* them with the usage the ledger has charged.                               *)

Settled(key) == {c \in ran \ free : Key(c) = key /\ ~Holds(c)}
Holding(key) == {c \in ran \ free : Key(c) = key /\ Holds(c)}

Entered == {"executing", "redacting", "done", "raised", "cancelled"}

ChargeInv ==
    /\ ran \subseteq Calls
    /\ \A c \in ran : pc[c] \in Entered
    /\ \A c \in Calls : pc[c] \in InSlot => Holds(c)
    /\ \A r \in held : r.call \notin free => r.amount = 1
    /\ ~Switching => \A key \in Keys : Cardinality(Settled(key)) <= taken[key]

\* The conjuncts of ChargeInv that do not count anything.
PlaceInv ==
    /\ ran \subseteq Calls
    /\ \A c \in ran : pc[c] \in Entered
    /\ \A c \in Calls : pc[c] \in InSlot => Holds(c)
    /\ \A r \in held : r.call \notin free => r.amount = 1

\* A step that adds nothing to Settled and charges no less keeps the count.
LEMMA CountKept ==
    ASSUME ChargeInv, LedgerInv, LedgerInv', PlaceInv',
           ~Switching => \A key \in Keys : /\ Settled(key)' \subseteq Settled(key)
                                           /\ taken'[key] >= taken[key]
    PROVE  ChargeInv'
<1>. SUFFICES ASSUME ~Switching, NEW key \in Keys
              PROVE  Cardinality(Settled(key))' <= taken'[key]
  BY DEF ChargeInv, PlaceInv
<1>1. IsFiniteSet(Settled(key))
  <2>1. Settled(key) \subseteq Calls
    BY DEF Settled, ChargeInv
  <2>. QED  BY <2>1, BudgetAssumption, FS_Subset DEF BudgetAssumption
<1>2. /\ Cardinality(Settled(key)') <= Cardinality(Settled(key))
      /\ Cardinality(Settled(key)') \in Nat /\ Cardinality(Settled(key)) \in Nat
  BY <1>1, FS_Subset, FS_CardinalityType
<1>3. taken[key] \in Nat /\ taken'[key] \in Nat
  BY DEF LedgerInv, BudgetTypeOK
<1>. QED  BY <1>2, <1>3 DEF ChargeInv

\* A call that ran and settles its unit is charged for it.
LEMMA CompleteIsCharged ==
    ASSUME CallInv, ChargeInv, LedgerInv, LedgerInv', NEW c \in Calls, Complete(c)
    PROVE  ChargeInv'
<1>1. PICK r \in held : r.call = c /\ Settle(r)
  BY DEF Complete
<1>2. /\ Goto(c, "done") /\ UNCHANGED <<eng, ran, free>> /\ pc[c] = "redacting"
      /\ held' = held \ {r}
  BY <1>1 DEF Complete, Settle
<1>3. /\ r.key = Key(c) /\ r.key \in Keys /\ r \in Reservations
      /\ \A s \in held : s.call = c => s = r
  BY <1>1 DEF CallInv, HoldersInFlight, LedgerInv, BudgetTypeOK, Reservations
<1>4. \A d : Holds(d)' <=> Holds(d) /\ d # c
  BY <1>1, <1>2, <1>3 DEF Holds
<1>5. PlaceInv'
  <2>1. \A d \in Calls : pc'[d] = IF d = c THEN "done" ELSE pc[d]
    BY <1>2 DEF CallInv, Goto
  <2>. QED  BY <1>2, <1>4, <2>1 DEF ChargeInv, PlaceInv, Entered, InSlot, Left
<1>6. CASE c \notin ran \ free \/ Switching
  <2>1. ~Switching => \A key \in Keys : Settled(key)' \subseteq Settled(key)
    BY <1>2, <1>4, <1>6 DEF Settled, Key
  <2>2. \A key \in Keys : taken'[key] >= taken[key]
    BY <1>1, <1>3 DEF Settle, LedgerInv, BudgetTypeOK, Reservations
  <2>. QED  BY <1>5, <2>1, <2>2, CountKept
<1>7. CASE c \in ran \ free /\ ~Switching
  <2>1. r.amount = 1
    BY <1>1, <1>7 DEF ChargeInv
  <2>2. r.key \in opened
    <3>1. r \in Backing(r.key) /\ IsFiniteSet(Backing(r.key))
      BY <1>1, <2>1, BackingFinite DEF Backing, LedgerInv
    <3>2. Cardinality(Backing(r.key)) # 0
      BY <3>1, FS_EmptySet
    <3>. QED  BY <1>3, <1>7, <3>2 DEF LedgerInv, ReservedIsExact, ClosedIsZero
  <2>3. \A key \in Keys : taken'[key] = IF key = Key(c) THEN taken[key] + 1 ELSE taken[key]
    BY <1>1, <1>3, <2>1, <2>2 DEF Settle, LedgerInv, BudgetTypeOK
  <2>4. \A key \in Keys :
           Settled(key)' = IF key = Key(c) THEN Settled(key) \cup {c} ELSE Settled(key)
    BY <1>2, <1>4, <1>7 DEF Settled, Key
  <2>5. ASSUME NEW key \in Keys
        PROVE  Cardinality(Settled(key))' <= taken'[key]
    <3>1. Settled(key) \subseteq Calls
      BY DEF Settled, ChargeInv
    <3>2. IsFiniteSet(Settled(key)) /\ Cardinality(Settled(key)) \in Nat
      BY <3>1, BudgetAssumption, FS_Subset, FS_CardinalityType DEF BudgetAssumption
    <3>3. Cardinality(Settled(key) \cup {c}) =
              IF c \in Settled(key) THEN Cardinality(Settled(key))
                                    ELSE Cardinality(Settled(key)) + 1
      BY <3>2, FS_AddElement
    <3>4. taken[key] \in Nat /\ Cardinality(Settled(key)) <= taken[key]
      BY <1>7 DEF ChargeInv, LedgerInv, BudgetTypeOK
    <3>5. CASE key = Key(c)
      <4>1. Settled(key)' = Settled(key) \cup {c} /\ taken'[key] = taken[key] + 1
        BY <2>3, <2>4, <3>5
      <4>2. Cardinality(Settled(key) \cup {c}) <= taken[key] + 1
        BY <3>2, <3>3, <3>4
      <4>. QED  BY <4>1, <4>2
    <3>6. CASE key # Key(c)
      <4>1. Settled(key)' = Settled(key) /\ taken'[key] = taken[key]
        BY <2>3, <2>4, <3>6
      <4>. QED  BY <3>4, <4>1
    <3>. QED  BY <3>5, <3>6
  <2>. QED  BY <1>5, <2>5 DEF ChargeInv, PlaceInv
<1>. QED  BY <1>6, <1>7

\* A call leaves the queue: it did not run before, and if it runs now it
\* holds the unit it will be charged for.
LEMMA AdmitIsCharged ==
    ASSUME CallInv, ChargeInv, LedgerInv, LedgerInv', NEW c \in Calls,
           \/ AdmitStopped(c) \/ AdmitRefused(c) \/ AdmitExhausted(c)
           \/ AdmitToApproval(c) \/ AdmitToPlan(c) \/ AdmitToHandler(c)
           \/ RefusalFails(c) \/ \E caught \in BOOLEAN : AdmitFails(c, caught)
    PROVE  ChargeInv'
<1>0. pc[c] = "queued" /\ c \notin ran /\ taken' = taken
  BY DEF AdmitStopped, AdmitRefused, AdmitExhausted, AdmitToApproval, AdmitToPlan,
         AdmitToHandler, RefusalFails, AdmitFails, Admitted, Turn, TryReserve, ReserveAndRelease, ledger,
         ChargeInv, Entered
<1>1. \A key \in Keys : taken'[key] >= taken[key]
  BY <1>0 DEF LedgerInv, BudgetTypeOK
<1>2. ASSUME NEW where \in PCs \ InSlot, Goto(c, where), UNCHANGED <<held, ran>>,
             eng' = eng \/ eng' = [eng EXCEPT ![c] = Bind(c)],
             free \subseteq free'
      PROVE  ChargeInv'
  <2>1. \A d \in Calls : d # c => pc'[d] = pc[d] /\ eng'[d] = eng[d]
    BY <1>2 DEF CallInv, Goto
  <2>2. pc'[c] = where
    BY <1>2 DEF CallInv, Goto
  <2>3. \A d : Holds(d)' <=> Holds(d)
    BY <1>2 DEF Holds
  <2>4. PlaceInv'
    BY <1>0, <1>2, <2>1, <2>2, <2>3 DEF ChargeInv, PlaceInv
  <2>5. \A key \in Keys : Settled(key)' \subseteq Settled(key)
    BY <1>0, <1>2, <2>1, <2>3 DEF Settled, Key, ChargeInv
  <2>. QED  BY <1>1, <2>4, <2>5, CountKept
<1>3. ASSUME NEW where \in InSlot \cup Left, Goto(c, where),
             eng' = [eng EXCEPT ![c] = Bind(c)],
             free' = IF Bind(c) \in off THEN free \cup {c} ELSE free,
             ran' = ran \/ (where = "executing" /\ ran' = ran \cup {c}),
             TryReserve(c, <<Bind(c), KindOf[c]>>)
      PROVE  ChargeInv'
  <2>1. \A d \in Calls : d # c => pc'[d] = pc[d] /\ eng'[d] = eng[d]
    BY <1>3 DEF CallInv, Goto
  <2>2. pc'[c] = where
    BY <1>3 DEF CallInv, Goto
  <2>. DEFINE new == [call |-> c, key |-> <<Bind(c), KindOf[c]>>,
                      amount |-> Unit(<<Bind(c), KindOf[c]>>)]
  <2>3. /\ held' = held \cup {new} /\ new.call = c
        /\ new.amount = IF Bind(c) \in off THEN 0 ELSE 1
    BY <1>3 DEF TryReserve, Unit
  <2>. HIDE DEF new
  <2>4. \A d : Holds(d)' <=> Holds(d) \/ d = c
    BY <2>3 DEF Holds
  <2>5. \A r \in held' : r.call \notin free' => r.amount = 1
    BY <1>3, <2>3 DEF ChargeInv
  <2>6. PlaceInv'
    BY <1>0, <1>3, <2>1, <2>2, <2>4, <2>5
    DEF ChargeInv, PlaceInv, Entered, InSlot, Left
  <2>7. \A key \in Keys : Settled(key)' \subseteq Settled(key)
    BY <1>0, <1>3, <2>1, <2>4 DEF Settled, Key, ChargeInv
  <2>. QED  BY <1>1, <2>6, <2>7, CountKept
<1>4. CASE AdmitStopped(c)
  BY <1>2, <1>4 DEF AdmitStopped, ledger, PCs, InSlot, Final, Left
<1>5. CASE AdmitRefused(c)
  BY <1>2, <1>5 DEF AdmitRefused, ledger, PCs, InSlot, Final, Left
<1>6. CASE AdmitExhausted(c)
  BY <1>2, <1>6 DEF AdmitExhausted, ledger, PCs, InSlot, Final, Left
<1>7. CASE AdmitToApproval(c)
  BY <1>3, <1>7 DEF AdmitToApproval, Admitted, InSlot
<1>8. CASE AdmitToPlan(c)
  BY <1>2, <1>8 DEF AdmitToPlan, Admitted, ReserveAndRelease, PCs, InSlot, Final, Left
<1>9. CASE AdmitToHandler(c)
  BY <1>3, <1>9 DEF AdmitToHandler, Admitted, InSlot
<1>10. CASE RefusalFails(c)
  BY <1>2, <1>10 DEF RefusalFails, ledger, PCs, InSlot, Final, Left
<1>11. ASSUME NEW caught \in BOOLEAN, AdmitFails(c, caught)
       PROVE  ChargeInv'
  BY <1>3, <1>11 DEF AdmitFails, Admitted, Left
<1>. QED  BY <1>4, <1>5, <1>6, <1>7, <1>8, <1>9, <1>10, <1>11

\* A call in its slot: only one that has not run gives its unit back unpaid.
LEMMA SlotIsCharged ==
    ASSUME CallInv, ChargeInv, LedgerInv, LedgerInv', NEW c \in Calls,
           \/ Deny(c) \/ Complete(c) \/ Escape(c)
           \/ \E edited \in BOOLEAN : ApproveToPlan(c, edited)
           \/ \E edited \in BOOLEAN : ApproveToHandler(c, edited)
           \/ \E ok \in BOOLEAN : Finish(c, ok)
    PROVE  ChargeInv'
<1>1. ASSUME NEW r \in held, r.call = c, Release(r), pc[c] = "approving",
             NEW where \in PCs \ InSlot, Goto(c, where), UNCHANGED <<eng, ran, free>>
      PROVE  ChargeInv'
  <2>1. /\ c \notin ran /\ held' = held \ {r} /\ taken' = taken
        /\ \A s \in held : s.call = c => s = r
    BY <1>1 DEF ChargeInv, Entered, Release, CallInv, HoldersInFlight
  <2>2. \A d : Holds(d)' <=> Holds(d) /\ d # c
    BY <1>1, <2>1 DEF Holds
  <2>3. \A d \in Calls : pc'[d] = IF d = c THEN where ELSE pc[d]
    BY <1>1 DEF CallInv, Goto
  <2>4. PlaceInv'
    BY <1>1, <2>1, <2>2, <2>3 DEF ChargeInv, PlaceInv
  <2>5. \A key \in Keys : Settled(key)' \subseteq Settled(key)
    BY <1>1, <2>1, <2>2 DEF Settled, Key, ChargeInv
  <2>6. \A key \in Keys : taken'[key] >= taken[key]
    BY <2>1 DEF LedgerInv, BudgetTypeOK
  <2>. QED  BY <2>4, <2>5, <2>6, CountKept
<1>2. ASSUME pc[c] \in InSlot, NEW where \in {"executing", "redacting", "raised"},
             Goto(c, where), UNCHANGED <<eng, free, held, taken>>,
             ran' = ran \/ ran' = ran \cup {c}
      PROVE  ChargeInv'
  <2>1. \A d \in Calls : pc'[d] = IF d = c THEN where ELSE pc[d]
    BY <1>2 DEF CallInv, Goto
  <2>2. Holds(c) /\ \A d : Holds(d)' <=> Holds(d)
    BY <1>2 DEF ChargeInv, Holds
  <2>3. PlaceInv'
    BY <1>2, <2>1, <2>2 DEF ChargeInv, PlaceInv, Entered
  <2>4. \A key \in Keys : Settled(key)' \subseteq Settled(key)
    BY <1>2, <2>2 DEF Settled, Key
  <2>5. \A key \in Keys : taken'[key] >= taken[key]
    BY <1>2 DEF LedgerInv, BudgetTypeOK
  <2>. QED  BY <2>3, <2>4, <2>5, CountKept
<1>3. CASE Deny(c)
  BY <1>1, <1>3 DEF Deny, PCs, InSlot, Final, Left
<1>4. CASE Complete(c)
  BY <1>4, CompleteIsCharged
<1>5. CASE Escape(c)
  BY <1>2, <1>5 DEF Escape, ledger, InSlot
<1>6. ASSUME NEW edited \in BOOLEAN, ApproveToPlan(c, edited) PROVE ChargeInv'
  BY <1>1, <1>6 DEF ApproveToPlan, Approved, PCs, InSlot, Final, Left
<1>7. ASSUME NEW edited \in BOOLEAN, ApproveToHandler(c, edited) PROVE ChargeInv'
  BY <1>2, <1>7 DEF ApproveToHandler, Approved, ledger, InSlot
<1>8. ASSUME NEW ok \in BOOLEAN, Finish(c, ok) PROVE ChargeInv'
  BY <1>2, <1>8 DEF Finish, ledger, InSlot
<1>. QED  BY <1>3, <1>4, <1>5, <1>6, <1>7, <1>8

\* Batches, the operator and measured bytes enter no handler.
LEMMA OthersAreCharged ==
    ASSUME CallInv, ChargeInv, LedgerInv, LedgerInv',
           \/ \E b \in Batches : Submit(b) \/ Return(b) \/ CancelPrompt(b)
           \/ \E c \in Calls : Measure(c)
           \/ OperatorStep
           \/ UNCHANGED vars
    PROVE  ChargeInv'
<1>1. ASSUME UNCHANGED <<eng, ran, free, held>>,
             \A d \in Calls : \/ pc'[d] = pc[d]
                              \/ pc'[d] = "cancelled"
                              \/ pc[d] = "idle" /\ pc'[d] = "queued",
             ~Switching => \A key \in Keys : taken'[key] >= taken[key]
      PROVE  ChargeInv'
  <2>1. \A d : Holds(d)' <=> Holds(d)
    BY <1>1 DEF Holds
  <2>2. PlaceInv'
    BY <1>1, <2>1 DEF ChargeInv, PlaceInv, Entered, InSlot, Left
  <2>3. \A key \in Keys : Settled(key)' \subseteq Settled(key)
    BY <1>1, <2>1 DEF Settled, Key
  <2>. QED  BY <1>1, <2>2, <2>3, CountKept
<1>2. taken' = taken => \A key \in Keys : taken'[key] >= taken[key]
  BY DEF LedgerInv, BudgetTypeOK
<1>3. ASSUME NEW b \in Batches, Submit(b) \/ Return(b) \/ CancelPrompt(b)
      PROVE  ChargeInv'
  <2>1. UNCHANGED <<eng, ran, free, held, taken>>
    BY <1>3 DEF Submit, Return, CancelPrompt, ledger
  <2>2. \A d \in Calls : \/ pc'[d] = pc[d]
                         \/ pc'[d] = "cancelled"
                         \/ pc[d] = "idle" /\ pc'[d] = "queued"
    BY <1>3 DEF Submit, Return, CancelPrompt, CallInv
  <2>. QED  BY <1>1, <1>2, <2>1, <2>2
<1>4. ASSUME NEW c \in Calls, Measure(c) PROVE ChargeInv'
  <2>1. PICK k \in ByteKinds, n \in 1..MaxMeasure : Account(<<eng[c], k>>, n)
    BY <1>4 DEF Measure
  <2>2. n \in Nat
    BY <2>1, BudgetAssumption DEF BudgetAssumption
  <2>3. \A key \in Keys : taken'[key] >= taken[key]
    BY <2>1, <2>2 DEF Account, LedgerInv, BudgetTypeOK
  <2>. QED  BY <1>1, <1>4, <2>1, <2>3 DEF Measure, Account, callVars
<1>5. CASE OperatorStep
  <2>1. UNCHANGED <<callVars, held>> /\ (Switching \/ taken' = taken)
    BY <1>5 DEF OperatorStep, Panic, ResumeActions, SetStatus, SetDryRun, SaveBudget,
                UpdateLimits, AddEngagement, Register, SwitchSession,
                ReplaceEngagements, ledger
  <2>. QED  BY <1>1, <1>2, <2>1 DEF callVars
<1>6. CASE UNCHANGED vars
  BY <1>1, <1>2, <1>6 DEF vars, callVars, ledger
<1>. QED  BY <1>3, <1>4, <1>5, <1>6
-----------------------------------------------------------------------------
\* Calls that run on their unit are no more than the units in flight.
LEMMA HoldingIsBacked ==
    ASSUME CallInv, ChargeInv, LedgerInv, NEW key \in Keys
    PROVE  /\ IsFiniteSet(Holding(key))
           /\ Cardinality(Holding(key)) <= Cardinality(Backing(key))
<1>. DEFINE f == [c \in Holding(key) |-> CHOOSE r \in held : r.call = c]
<1>1. \A c \in Holding(key) : f[c] \in held /\ f[c].call = c
  BY DEF Holding, Holds
<1>2. \A c \in Holding(key) : f[c] \in Backing(key)
  BY <1>1 DEF Holding, Backing, CallInv, HoldersInFlight, ChargeInv
<1>3. f \in Injection(Holding(key), Backing(key))
  BY <1>1, <1>2 DEF Injection, IsInjective
<1>4. IsFiniteSet(Backing(key))
  BY BackingFinite DEF LedgerInv
<1>. QED  BY <1>3, <1>4, FS_Injection

\* A call that is paid for has settled its unit or still holds it, and so its
\* unit is counted.
LEMMA ChargedNow ==
    ASSUME CallInv, ChargeInv, LedgerInv
    PROVE  ExecutionsCharged
<1>. SUFFICES ASSUME ~Switching, NEW key \in Keys
              PROVE  Cardinality({c \in Calls : Paid(c) /\ Key(c) = key}) <= Current(key)
  BY DEF ExecutionsCharged
<1>1. {c \in Calls : Paid(c) /\ Key(c) = key} \subseteq Settled(key) \cup Holding(key)
  BY DEF Settled, Holding, Paid
<1>2. Settled(key) \cap Holding(key) = {}
  BY DEF Settled, Holding
<1>3. Settled(key) \subseteq Calls
  BY DEF Settled, ChargeInv
<1>4. IsFiniteSet(Settled(key)) /\ IsFiniteSet(Holding(key))
  BY <1>3, BudgetAssumption, FS_Subset, HoldingIsBacked DEF BudgetAssumption
<1>5. Cardinality(Settled(key) \cup Holding(key)) =
          Cardinality(Settled(key)) + Cardinality(Holding(key)) - 0
  <2>1. Cardinality(Settled(key) \cup Holding(key)) =
            Cardinality(Settled(key)) + Cardinality(Holding(key))
            - Cardinality(Settled(key) \cap Holding(key))
    BY <1>4, FS_Union
  <2>2. Cardinality(Settled(key) \cap Holding(key)) = 0
    BY <1>2, FS_EmptySet
  <2>. QED  BY <2>1, <2>2
<1>6. /\ Cardinality(Settled(key)) <= taken[key]
      /\ Cardinality(Holding(key)) <= reserved[key]
      /\ taken[key] \in Nat /\ reserved[key] \in Nat
  BY HoldingIsBacked DEF ChargeInv, LedgerInv, ReservedIsExact, BudgetTypeOK
<1>7. Cardinality(Settled(key)) \in Nat /\ Cardinality(Holding(key)) \in Nat
  BY <1>4, FS_CardinalityType
<1>8. Cardinality(Settled(key)) + Cardinality(Holding(key)) - 0 <= Current(key)
  BY <1>6, <1>7 DEF Current
<1>9. IsFiniteSet(Settled(key) \cup Holding(key))
  BY <1>4, FS_Union
<1>10. LET P == {c \in Calls : Paid(c) /\ Key(c) = key}
       IN  /\ Cardinality(P) <= Cardinality(Settled(key) \cup Holding(key))
           /\ Cardinality(P) \in Nat
  BY <1>1, <1>9, FS_Subset, FS_CardinalityType
<1>11. Current(key) \in Nat
  BY <1>6 DEF Current
<1>. QED  BY <1>5, <1>7, <1>8, <1>10, <1>11

\* However the calls of several batches are reserved, denied, cancelled, failed
\* and settled, the actions under way and completed under a key are no more
\* than the units the ledger counts for it.
THEOREM EveryExecutionCharged == Spec => []ExecutionsCharged
<1>1. Init => ChargeInv
  <2>. SUFFICES ASSUME Init PROVE ChargeInv
    OBVIOUS
  <2>1. /\ ran = {} /\ held = {} /\ taken = [key \in Keys |-> 0]
        /\ \A c \in Calls : pc[c] = "idle"
    BY DEF Init, BudgetInit
  <2>2. \A key : Settled(key) = {}
    BY <2>1 DEF Settled
  <2>. QED  BY <2>1, <2>2, FS_EmptySet DEF ChargeInv, InSlot
<1>2. DispatchInv /\ DispatchInv' /\ ChargeInv /\ [Next]_vars => ChargeInv'
  <2>. SUFFICES ASSUME CallInv, LedgerInv, LedgerInv', ChargeInv, [Next]_vars
                PROVE  ChargeInv'
    BY DEF DispatchInv
  <2>1. ASSUME NEW c \in Calls, CallStep(c) \/ Fault(c) PROVE ChargeInv'
    BY <2>1, AdmitIsCharged, SlotIsCharged DEF CallStep, Fault
  <2>. QED  BY <2>1, OthersAreCharged DEF Next
<1>3. DispatchInv /\ ChargeInv => ExecutionsCharged
  BY ChargedNow DEF DispatchInv
<1>. QED  BY <1>1, <1>2, <1>3, DispatchInvariant, PTL DEF Spec
-----------------------------------------------------------------------------
(* Types of the other variables.  The size of a semaphore is the smallest of *)
(* infinitely many possible ones: that it exists is the well-foundedness of  *)
(* the intervals 0..n under inclusion.                                       *)

\* Every set of numbers that is not empty has a least one.
LEMMA LeastNumber ==
    ASSUME NEW S \in SUBSET Nat, S # {}
    PROVE  \E n \in S : \A m \in S : n <= m
<1>. DEFINE T == {0..n : n \in S}
<1>1. T \subseteq FiniteSubsetsOf(Nat) /\ T # {}
  <2>1. ASSUME NEW n \in S PROVE 0..n \in FiniteSubsetsOf(Nat)
    <3>1. 0..n \in SUBSET Nat /\ IsFiniteSet(0..n)
      BY FS_Interval
    <3>. QED  BY <3>1, Zenon DEF FiniteSubsetsOf
  <2>. QED  BY <2>1
<1>2. PICK X \in T : \A Y \in T : ~ <<Y, X>> \in StrictSubsetOrdering(Nat)
  <2>1. IsWellFoundedOn(StrictSubsetOrdering(Nat), FiniteSubsetsOf(Nat))
    BY FS_StrictSubsetOrderingWellFounded
  <2>. HIDE DEF T
  <2>. QED  BY <1>1, <2>1, WFMin
<1>3. PICK n \in S : X = 0..n
  OBVIOUS
<1>4. ASSUME NEW m \in S, m < n PROVE FALSE
  <2>1. 0..m \in T /\ 0..m \subseteq 0..n /\ 0..m # 0..n /\ 0..n \subseteq Nat
    BY <1>4
  <2>. QED  BY <1>2, <1>3, <2>1 DEF StrictSubsetOrdering
<1>. QED  BY <1>4

\* The slots of the active engagements are a number.
LEMMA SlotsNowIsTyped ==
    ASSUME active \subseteq Engs
    PROVE  SlotsNow \in Nat
<1>1. CASE active = {}
  BY <1>1 DEF SlotsNow
<1>2. CASE active # {}
  <2>. DEFINE S == {MaxTools[e] : e \in active}
  <2>1. S \in SUBSET Nat /\ S # {}
    BY <1>2, DispatchAssumption DEF DispatchAssumption
  <2>2. PICK n \in S : \A m \in S : n <= m
    <3>. HIDE DEF S
    <3>. QED  BY <2>1, LeastNumber
  <2>3. \E k \in S : \A e \in active : k <= MaxTools[e]
    BY <2>2
  <2>4. SlotsNow = CHOOSE k \in S : \A e \in active : k <= MaxTools[e]
    BY <1>2 DEF SlotsNow
  <2>5. SlotsNow \in S
    BY <2>3, <2>4
  <2>. QED  BY <2>1, <2>5
<1>. QED  BY <1>1, <1>2

\* The conjuncts of DispatchTypeOK that DispatchInv does not have.
RestTypeOK ==
    /\ at \in [Calls -> Sessions]
    /\ ran \subseteq Calls /\ failed \subseteq Calls /\ free \subseteq Calls
    /\ slots \in [Batches -> Nat]
    /\ dry \in [Sessions -> SUBSET Engs]
    /\ session \in Sessions
    /\ stopped \in BOOLEAN

\* A step of a call keeps the rest of the types.
LEMMA CallKeepsTypes ==
    ASSUME RestTypeOK, NEW c \in Calls, CallStep(c) \/ Measure(c) \/ Fault(c)
    PROVE  RestTypeOK'
<1>1. UNCHANGED <<slots, dry, session, stopped>>
  BY DEF CallStep, AdmitStopped, AdmitRefused, AdmitExhausted, AdmitToApproval,
         AdmitToPlan, AdmitToHandler, Deny, ApproveToPlan, ApproveToHandler, Finish,
         Complete, Measure, Fault, Escape, RefusalFails, AdmitFails, callVars,
         operatorVars
<1>2. /\ at' = at \/ at' = [at EXCEPT ![c] = session]
      /\ free' = free \/ free' = free \cup {c}
      /\ failed' = failed \/ failed' = failed \cup {c}
      /\ ran' = ran \/ ran' = ran \cup {c}
  BY DEF CallStep, AdmitStopped, AdmitRefused, AdmitExhausted, AdmitToApproval,
         AdmitToPlan, AdmitToHandler, Admitted, Deny, ApproveToPlan, ApproveToHandler,
         Approved, Finish, Complete, Measure, Fault, Escape, RefusalFails,
         AdmitFails, callVars
<1>. QED  BY <1>1, <1>2 DEF RestTypeOK

\* So does every other step.
LEMMA OthersKeepTypes ==
    ASSUME RestTypeOK, active \subseteq Engs,
           \/ \E b \in Batches : Submit(b) \/ Return(b) \/ CancelPrompt(b)
           \/ OperatorStep
           \/ UNCHANGED vars
    PROVE  RestTypeOK'
<1>1. ASSUME NEW b \in Batches, Submit(b) \/ Return(b) \/ CancelPrompt(b)
      PROVE  RestTypeOK'
  <2>1. UNCHANGED <<at, ran, failed, free, dry, session, stopped>>
    BY <1>1 DEF Submit, Return, CancelPrompt, operatorVars
  <2>2. slots' = slots \/ slots' = [slots EXCEPT ![b] = SlotsNow]
    BY <1>1 DEF Submit, Return, CancelPrompt
  <2>. QED  BY <2>1, <2>2, SlotsNowIsTyped DEF RestTypeOK
<1>2. CASE Panic \/ ResumeActions
  BY <1>2 DEF Panic, ResumeActions, callVars, RestTypeOK
<1>3. ASSUME NEW e \in Engs, SetStatus(e) \/ SetDryRun(e) \/ AddEngagement(e)
      PROVE  RestTypeOK'
  <2>1. UNCHANGED <<callVars, session, stopped>>
    BY <1>3 DEF SetStatus, SetDryRun, AddEngagement
  <2>2. dry' \in [Sessions -> SUBSET Engs]
    BY <1>3 DEF SetStatus, SetDryRun, AddEngagement, RestTypeOK
  <2>. QED  BY <2>1, <2>2 DEF callVars, RestTypeOK
<1>4. ASSUME NEW e \in Engs, NEW disable \in BOOLEAN,
             NEW choice \in [Kinds -> LimitChoices], SaveBudget(e, disable, choice)
      PROVE  RestTypeOK'
  BY <1>4 DEF SaveBudget, callVars, operatorVars, RestTypeOK
<1>5. ASSUME NEW es \in SUBSET Engs, NEW on \in SUBSET es, NEW disabled \in SUBSET es,
             NEW planned \in SUBSET es, NEW limits \in [Keys -> LimitChoices],
             SwitchSession(es, on, disabled, planned, limits)
      PROVE  RestTypeOK'
  <2>1. UNCHANGED <<callVars, stopped>> /\ session < MaxSessions
        /\ session' = session + 1 /\ dry' = [dry EXCEPT ![session + 1] = planned]
    BY <1>5 DEF SwitchSession
  <2>2. session' \in Sessions
    BY <2>1, DispatchAssumption DEF DispatchAssumption, RestTypeOK, Sessions
  <2>. QED  BY <2>1, <2>2 DEF callVars, RestTypeOK
<1>6. CASE UNCHANGED vars
  BY <1>6 DEF vars, callVars, operatorVars, RestTypeOK
<1>. QED  BY <1>1, <1>2, <1>3, <1>4, <1>5, <1>6 DEF OperatorStep

\* These types hold at every instant.
LEMMA RestTypeCorrect == Spec => []RestTypeOK
<1>1. Init => RestTypeOK
  <2>. SUFFICES ASSUME Init PROVE RestTypeOK
    OBVIOUS
  <2>1. 0 \in Sessions
    BY DispatchAssumption DEF DispatchAssumption, Sessions
  <2>2. at = [c \in Calls |-> 0] /\ slots = [b \in Batches |-> 0]
    BY DEF Init
  <2>3. at \in [Calls -> Sessions] /\ slots \in [Batches -> Nat]
    BY <2>1, <2>2
  <2>. QED  BY <2>1, <2>3 DEF Init, RestTypeOK
<1>2. DispatchInv /\ RestTypeOK /\ [Next]_vars => RestTypeOK'
  BY CallKeepsTypes, OthersKeepTypes DEF DispatchInv, CallInv, Next
<1>. QED  BY <1>1, <1>2, DispatchInvariant, PTL DEF Spec

\* Type correctness of dispatch.
THEOREM DispatchTypeCorrect == Spec => []DispatchTypeOK
<1>1. DispatchInv /\ RestTypeOK => DispatchTypeOK
  BY DEF DispatchInv, CallInv, LedgerInv, RestTypeOK, DispatchTypeOK
<1>. QED  BY <1>1, DispatchInvariant, RestTypeCorrect, PTL

NotPlannedStep == ~Switching => \A c \in ran' \ ran : eng'[c] \notin dry[session]

\* Dry-run mode is asked when a call is about to run: within one session the
\* engagement object a call has seen is the one whose settings are edited.
THEOREM PlannedStartsNothing == Spec => EntryNotPlanned
<1>1. DispatchInv /\ RestTypeOK /\ [Next]_vars => NotPlannedStep
  <2>. SUFFICES ASSUME CallInv, RestTypeOK, [Next]_vars, ~Switching,
                       NEW c \in ran', c \notin ran
                PROVE  eng'[c] \notin dry[session]
    BY DEF DispatchInv, NotPlannedStep
  <2>1. Sessions = {0}
    BY DispatchAssumption DEF DispatchAssumption, Sessions
  <2>2. ASSUME c \in Calls, AdmitToHandler(c)
        PROVE  eng'[c] \notin dry[session]
    BY <2>2 DEF AdmitToHandler, Admitted, CallInv
  <2>3. ASSUME c \in Calls, NEW edited \in BOOLEAN, ApproveToHandler(c, edited)
        PROVE  eng'[c] \notin dry[session]
    <3>1. at'[c] = session
      BY <2>1, <2>3 DEF ApproveToHandler, Approved, RestTypeOK
    <3>. QED  BY <2>3, <3>1 DEF ApproveToHandler
  <2>. QED  BY <2>2, <2>3, HandlerStarts
<1>2. []DispatchInv /\ []RestTypeOK /\ [][Next]_vars => [][NotPlannedStep]_vars
  BY <1>1, PTL
<1>3. [][NotPlannedStep]_vars <=> EntryNotPlanned
  BY DEF NotPlannedStep, EntryNotPlanned
<1>. QED  BY <1>2, <1>3, DispatchInvariant, RestTypeCorrect, PTL DEF Spec
=============================================================================
