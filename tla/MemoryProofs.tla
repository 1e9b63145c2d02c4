----------------------------- MODULE MemoryProofs -----------------------------
(***************************************************************************)
(* Proofs about the memory store, for any number of instances, texts and   *)
(* operations: the shards keep their types and dates, what is read of them *)
(* is a matter of the set of their lines, and what is known of a subject   *)
(* changes only by a deliberate write about it.                            *)
(*                                                                         *)
(* Reading is three recursions over sequences: the lines of the shards,    *)
(* the newest line of each fact, the collapse.  The library's induction    *)
(* theorems take an operator as a parameter; the lemma Induction states    *)
(* the same of a set, and Recursion gives the value of such a recursion.   *)
(***************************************************************************)
EXTENDS Memory, FiniteSetTheorems, SequenceTheorems, TLAPS

\* A set of naturals that has zero and every successor has all.
LEMMA Induction ==
    ASSUME NEW S \in SUBSET Nat, 0 \in S, \A n \in S : n + 1 \in S
    PROVE  S = Nat
<1> SUFFICES ASSUME Nat \ S # {} PROVE FALSE
  OBVIOUS
<1> DEFINE T == {0..n : n \in Nat \ S}
<1>1. T \subseteq FiniteSubsetsOf(Nat) /\ T # {}
  <2>1. ASSUME NEW n \in Nat \ S PROVE 0..n \in FiniteSubsetsOf(Nat)
    <3>1. 0..n \in SUBSET Nat /\ IsFiniteSet(0..n)
      BY FS_Interval
    <3> QED  BY <3>1, Zenon DEF FiniteSubsetsOf
  <2> QED  BY <2>1
<1>2. PICK X \in T : \A Y \in T : ~ <<Y, X>> \in StrictSubsetOrdering(Nat)
  <2>1. IsWellFoundedOn(StrictSubsetOrdering(Nat), FiniteSubsetsOf(Nat))
    BY FS_StrictSubsetOrderingWellFounded
  <2> HIDE DEF T
  <2> QED  BY <1>1, <2>1, WFMin
<1>3. PICK n \in Nat \ S : X = 0..n
  OBVIOUS
<1>4. n - 1 \in Nat \ S
  OBVIOUS
<1>5. 0..(n - 1) \in T /\ 0..(n - 1) \subseteq 0..n /\ 0..(n - 1) # 0..n /\ 0..n \subseteq Nat
  BY <1>4
<1> QED  BY <1>2, <1>3, <1>5 DEF StrictSubsetOrdering

\* A set of naturals has a least member.
LEMMA LeastMember ==
    ASSUME NEW S \in SUBSET Nat, S # {}
    PROVE  \E k \in S : \A j \in S : k <= j
<1> SUFFICES ASSUME \A k \in S : \E j \in S : ~(k <= j) PROVE FALSE
  OBVIOUS
<1> DEFINE below == {n \in Nat : \A j \in S : n < j}
<1>1. 0 \in below
  <2>1. 0 \notin S
    OBVIOUS
  <2> QED  BY <2>1
<1>2. ASSUME NEW n \in below PROVE n + 1 \in below
  <2>1. \A j \in S : n + 1 <= j
    OBVIOUS
  <2>2. n + 1 \notin S
    BY <2>1
  <2> QED  BY <2>1, <2>2
<1>3. below = Nat
  <2>1. below \subseteq Nat
    OBVIOUS
  <2> HIDE DEF below
  <2> QED  BY <1>1, <1>2, <2>1, Induction
<1>4. PICK k \in S : TRUE
  OBVIOUS
<1>5. k \in below
  BY <1>3
<1> QED  BY <1>5

Steps(L, V) == [1..L -> [V -> V]]
Recursive(f, L, V, base, step) ==
    f \in [0..L -> V] /\ \A n \in 0..L : f[n] = IF n = 0 THEN base ELSE step[n][f[n - 1]]

\* A recursion over the first naturals is well defined.
LEMMA Recursion ==
    ASSUME NEW L \in Nat, NEW V, NEW base \in V, NEW step \in Steps(L, V)
    PROVE  \E f : Recursive(f, L, V, base, step)
<1> DEFINE Fits(f, m) == \A n \in 0..m : f[n] = IF n = 0 THEN base ELSE step[n][f[n - 1]]
           S == {m \in Nat : m <= L => \E f \in [0..m -> V] : Fits(f, m)}
<1>1. 0 \in S
  <2> DEFINE f == [n \in 0..0 |-> base]
  <2>1. f \in [0..0 -> V] /\ Fits(f, 0)
    OBVIOUS
  <2> QED BY <2>1
<1>2. ASSUME NEW m \in S PROVE m + 1 \in S
  <2> SUFFICES ASSUME m + 1 <= L PROVE \E f \in [0..(m + 1) -> V] : Fits(f, m + 1)
    OBVIOUS
  <2>1. PICK f \in [0..m -> V] : Fits(f, m)
    OBVIOUS
  <2> DEFINE g == [n \in 0..(m + 1) |-> IF n = m + 1 THEN step[m + 1][f[m]] ELSE f[n]]
  <2>2. g \in [0..(m + 1) -> V]
    <3>1. m + 1 \in 1..L /\ f[m] \in V /\ step \in [1..L -> [V -> V]]
      BY DEF Steps
    <3>2. step[m + 1][f[m]] \in V
      BY <3>1
    <3> QED BY <3>2
  <2>3. ASSUME NEW n \in 0..(m + 1)
        PROVE  g[n] = IF n = 0 THEN base ELSE step[n][g[n - 1]]
    <3>1. CASE n = m + 1
      <4>1. g[n] = step[m + 1][f[m]] /\ n # 0 /\ n - 1 = m /\ g[m] = f[m]
        BY <3>1
      <4> QED BY <3>1, <4>1
    <3>2. CASE n # m + 1
      <4>1. g[n] = f[n] /\ f[n] = IF n = 0 THEN base ELSE step[n][f[n - 1]]
        BY <2>1, <3>2
      <4>2. n # 0 => g[n - 1] = f[n - 1]
        BY <3>2
      <4> QED BY <4>1, <4>2
    <3> QED BY <3>1, <3>2
  <2>4. Fits(g, m + 1)
    <3> HIDE DEF g
    <3> QED BY <2>3
  <2> HIDE DEF g, Fits
  <2> QED BY <2>2, <2>4
<1>3. S = Nat
  <2>1. S \in SUBSET Nat
    OBVIOUS
  <2> HIDE DEF S
  <2> QED  BY <1>1, <1>2, <2>1, Induction
<1>4. L \in S
  BY <1>3
<1> QED BY <1>4 DEF Recursive
-----------------------------------------------------------------------------
(* The lines of all shards *)

LEMMA ConcatSet ==
    ASSUME NEW T, NEW s \in Seq(T), NEW t \in Seq(T)
    PROVE  s \o t \in Seq(T) /\ ToSet(s \o t) = ToSet(s) \cup ToSet(t)
<1>1. /\ s \o t \in Seq(T)
      /\ Len(s \o t) = Len(s) + Len(t)
      /\ \A i \in 1..(Len(s) + Len(t)) : (s \o t)[i] = IF i <= Len(s) THEN s[i] ELSE t[i - Len(s)]
  BY ConcatProperties
<1>2. /\ Len(s) \in Nat /\ Len(t) \in Nat
      /\ DOMAIN s = 1..Len(s) /\ DOMAIN t = 1..Len(t) /\ DOMAIN (s \o t) = 1..(Len(s) + Len(t))
  BY <1>1, LenProperties
<1>3. ToSet(s \o t) \subseteq ToSet(s) \cup ToSet(t)
  <2> SUFFICES ASSUME NEW i \in 1..(Len(s) + Len(t)) PROVE (s \o t)[i] \in ToSet(s) \cup ToSet(t)
    BY <1>2 DEF ToSet
  <2>1. CASE i <= Len(s)
    BY <1>1, <1>2, <2>1 DEF ToSet
  <2>2. CASE ~(i <= Len(s))
    <3>1. i - Len(s) \in 1..Len(t)
      BY <1>2, <2>2
    <3> QED  BY <1>1, <1>2, <2>2, <3>1 DEF ToSet
  <2> QED  BY <2>1, <2>2
<1>4. ToSet(s) \subseteq ToSet(s \o t)
  <2> SUFFICES ASSUME NEW i \in 1..Len(s) PROVE s[i] \in ToSet(s \o t)
    BY <1>2 DEF ToSet
  <2>1. i \in 1..(Len(s) + Len(t)) /\ (s \o t)[i] = s[i]
    BY <1>1, <1>2
  <2> QED  BY <1>2, <2>1 DEF ToSet
<1>5. ToSet(t) \subseteq ToSet(s \o t)
  <2> SUFFICES ASSUME NEW i \in 1..Len(t) PROVE t[i] \in ToSet(s \o t)
    BY <1>2 DEF ToSet
  <2>1. i + Len(s) \in 1..(Len(s) + Len(t)) /\ ~(i + Len(s) <= Len(s)) /\ i + Len(s) - Len(s) = i
    BY <1>2
  <2>2. (s \o t)[i + Len(s)] = t[i]
    BY <1>1, <2>1
  <2> QED  BY <1>2, <2>1, <2>2 DEF ToSet
<1> QED  BY <1>1, <1>3, <1>4, <1>5

LEMMA AppendSet ==
    ASSUME NEW T, NEW s \in Seq(T), NEW e \in T
    PROVE  /\ Append(s, e) \in Seq(T) /\ ToSet(Append(s, e)) = ToSet(s) \cup {e}
           /\ DOMAIN s = 1..Len(s) /\ DOMAIN Append(s, e) = 1..(Len(s) + 1) /\ Len(s) \in Nat
           /\ \A k \in DOMAIN s : Append(s, e)[k] = s[k]
           /\ Append(s, e)[Len(s) + 1] = e
<1>1. /\ Append(s, e) \in Seq(T) /\ Len(Append(s, e)) = Len(s) + 1
      /\ \A i \in 1..Len(s) : Append(s, e)[i] = s[i]
      /\ Append(s, e)[Len(s) + 1] = e
      /\ DOMAIN Append(s, e) = 1..(Len(s) + 1) /\ DOMAIN s = 1..Len(s) /\ Len(s) \in Nat
  BY AppendProperties, LenProperties
<1>2. \A i \in 1..(Len(s) + 1) : i # Len(s) + 1 => i \in 1..Len(s)
  BY <1>1
<1>3. ToSet(Append(s, e)) = ToSet(s) \cup {e}
  BY <1>1, <1>2 DEF ToSet
<1> QED  BY <1>1, <1>3

\* All shards together hold the lines of each.
LEMMA LinesUnion ==
    ASSUME NEW T, NEW files \in [Instances -> Seq(T)]
    PROVE  /\ Lines(files) \in Seq(T)
           /\ ToSet(Lines(files)) = UNION {ToSet(files[i]) : i \in Instances}
<1> DEFINE step == [i \in 1..N |-> [s \in Seq(T) |-> s \o files[i]]]
<1>1. N \in Nat /\ Instances = 1..N
  BY MemoryAssumption DEF Instances
<1>2. step \in Steps(N, Seq(T)) /\ <<>> \in Seq(T)
  BY <1>1, ConcatProperties, EmptySeq DEF Steps
<1>3. PICK f : Recursive(f, N, Seq(T), <<>>, step)
  <2> HIDE DEF step
  <2> QED  BY <1>1, <1>2, Recursion
<1>4. \A i \in 0..N : f[i] = IF i = 0 THEN <<>> ELSE f[i - 1] \o files[i]
  <2> SUFFICES ASSUME NEW i \in 0..N PROVE f[i] = IF i = 0 THEN <<>> ELSE f[i - 1] \o files[i]
    OBVIOUS
  <2>1. i # 0 => i \in 1..N /\ f[i - 1] \in Seq(T)
    BY <1>1, <1>3 DEF Recursive
  <2>2. f[i] = IF i = 0 THEN <<>> ELSE step[i][f[i - 1]]
    BY <1>3 DEF Recursive
  <2> QED  BY <2>1, <2>2
<1>5. \E up : up = [i \in 0..N |-> IF i = 0 THEN <<>> ELSE up[i - 1] \o files[i]]
  BY <1>3, <1>4 DEF Recursive
<1>6. PICK up : /\ up = [i \in 0..N |-> IF i = 0 THEN <<>> ELSE up[i - 1] \o files[i]]
                /\ Lines(files) = up[N]
  BY <1>5, Zenon DEF Lines
<1>7. \A i \in 0..N : up[i] = IF i = 0 THEN <<>> ELSE up[i - 1] \o files[i]
  <2> DEFINE body == [i \in 0..N |-> IF i = 0 THEN <<>> ELSE up[i - 1] \o files[i]]
  <2>1. \A i \in 0..N : body[i] = IF i = 0 THEN <<>> ELSE up[i - 1] \o files[i]
    OBVIOUS
  <2>2. up = body
    BY <1>6
  <2> HIDE DEF body
  <2> QED  BY <2>1, <2>2
<1> DEFINE Good(n) == /\ up[n] \in Seq(T)
                      /\ ToSet(up[n]) = UNION {ToSet(files[i]) : i \in 1..n}
           S == {n \in Nat : n <= N => Good(n)}
<1>8. 0 \in S
  <2>1. up[0] = <<>>
    BY <1>1, <1>7
  <2>2. ToSet(up[0]) = {} /\ up[0] \in Seq(T) /\ 1..0 = {}
    BY <2>1, EmptySeq DEF ToSet
  <2>3. Good(0)
    BY <2>2
  <2> QED  BY <2>3
<1>9. ASSUME NEW n \in S PROVE n + 1 \in S
  <2> SUFFICES ASSUME n + 1 <= N PROVE Good(n + 1)
    OBVIOUS
  <2>1. Good(n) /\ n \in Nat /\ n + 1 \in 1..N /\ n + 1 \in 0..N /\ n + 1 # 0 /\ (n + 1) - 1 = n
    BY <1>1
  <2>2. up[n + 1] = up[n] \o files[n + 1]
    <3> HIDE DEF Good, S
    <3>1. up[n + 1] = IF n + 1 = 0 THEN <<>> ELSE up[(n + 1) - 1] \o files[n + 1]
      BY <1>7, <2>1
    <3> QED  BY <2>1, <3>1
  <2>3. files[n + 1] \in Seq(T)
    BY <1>1, <2>1
  <2>4. up[n + 1] \in Seq(T) /\ ToSet(up[n + 1]) = ToSet(up[n]) \cup ToSet(files[n + 1])
    BY <2>1, <2>2, <2>3, ConcatSet
  <2>5. 1..(n + 1) = 1..n \cup {n + 1}
    BY <2>1
  <2> QED  BY <2>1, <2>4, <2>5
<1>10. S = Nat
  <2>1. S \in SUBSET Nat
    OBVIOUS
  <2> HIDE DEF S
  <2> QED  BY <1>8, <1>9, <2>1, Induction
<1>11. Good(N)
  <2>1. N \in S /\ N <= N
    <3> HIDE DEF S
    <3> QED  BY <1>1, <1>10
  <2> HIDE DEF Good
  <2> QED  BY <2>1
<1> QED  BY <1>1, <1>6, <1>11
-----------------------------------------------------------------------------
(* The newest line of each fact *)

LineType ==
    [id : Texts, ts : Nat, source : Sources, category : Categories, pinned : BOOLEAN]

OneEach(seen) == \A j, k \in DOMAIN seen : seen[j].id = seen[k].id => j = k

\* seen has lines of P that are not hidden, one of each fact, the newest.
ListsNewest(seen, P, dead) ==
    /\ seen \in Seq(LineType) /\ OneEach(seen)
    /\ \A l \in ToSet(seen) : l \in P /\ ~Hidden(l, dead)
    /\ \A m \in P : ~Hidden(m, dead) => \E l \in ToSet(seen) : l.id = m.id /\ m.ts <= l.ts

LEMMA UpdatedLists ==
    ASSUME NEW dead, NEW P \in SUBSET LineType, NEW seen, NEW e \in LineType,
           ListsNewest(seen, P, dead)
    PROVE  ListsNewest(Updated(seen, e, dead), P \cup {e}, dead)
<1>1. /\ seen \in Seq(LineType) /\ OneEach(seen) /\ DOMAIN seen = 1..Len(seen) /\ Len(seen) \in Nat
      /\ ToSet(seen) = {seen[k] : k \in DOMAIN seen}
      /\ \A k \in DOMAIN seen : seen[k] \in LineType
  BY LenProperties DEF ListsNewest, ToSet
<1>2. CASE Hidden(e, dead)
  BY <1>2 DEF ListsNewest, Updated
<1>3. CASE ~Hidden(e, dead) /\ \A k \in DOMAIN seen : seen[k].id # e.id
  <2> DEFINE next == Append(seen, e)
  <2>1. Updated(seen, e, dead) = next
    BY <1>3 DEF Updated
  <2>2. /\ next \in Seq(LineType) /\ ToSet(next) = ToSet(seen) \cup {e}
        /\ DOMAIN next = 1..(Len(seen) + 1)
        /\ \A k \in DOMAIN seen : next[k] = seen[k]
        /\ next[Len(seen) + 1] = e
    BY <1>1, AppendSet
  <2> HIDE DEF next
  <2>3. OneEach(next)
    <3>1. \A k \in DOMAIN next : k \in DOMAIN seen \/ k = Len(seen) + 1
      BY <1>1, <2>2
    <3> QED  BY <1>1, <1>3, <2>2, <3>1 DEF OneEach
  <2>4. \A m \in P \cup {e} : ~Hidden(m, dead) => \E l \in ToSet(next) : l.id = m.id /\ m.ts <= l.ts
    <3>1. e \in ToSet(next) /\ e.ts <= e.ts
      BY <2>2 DEF LineType
    <3> QED  BY <2>2, <3>1 DEF ListsNewest
  <2> QED  BY <1>3, <2>1, <2>2, <2>3, <2>4 DEF ListsNewest
<1>4. CASE ~Hidden(e, dead) /\ ~(\A k \in DOMAIN seen : seen[k].id # e.id)
  <2> DEFINE Item(k) == IF seen[k].id = e.id /\ e.ts >= seen[k].ts THEN e ELSE seen[k]
             next == [k \in DOMAIN seen |-> Item(k)]
  <2>1. Updated(seen, e, dead) = next
    BY <1>4 DEF Updated
  <2>2. \A k \in DOMAIN seen : /\ next[k] = Item(k) /\ Item(k) \in LineType
                               /\ Item(k).id = seen[k].id
                               /\ seen[k].ts <= Item(k).ts
    BY <1>1 DEF LineType
  <2>3. DOMAIN next = DOMAIN seen
    OBVIOUS
  <2>4. next \in Seq(LineType)
    <3>1. next \in [1..Len(seen) -> LineType]
      BY <1>1, <2>2
    <3> QED  BY <1>1, <3>1, SeqDef
  <2>5. \A k \in DOMAIN next : Item(k) = e \/ Item(k) = seen[k]
    OBVIOUS
  <2>8. PICK k \in DOMAIN seen : seen[k].id = e.id
    BY <1>4
  <2>9. e.ts <= Item(k).ts
    BY <1>1, <2>8 DEF LineType
  <2> HIDE DEF next, Item
  <2>6. OneEach(next)
    BY <1>1, <2>2, <2>3 DEF OneEach
  <2>7. ToSet(next) = {Item(j) : j \in DOMAIN seen}
    BY <2>2, <2>3 DEF ToSet
  <2>10. \A l \in ToSet(next) : l \in P \cup {e} /\ ~Hidden(l, dead)
    BY <1>1, <1>4, <2>3, <2>5, <2>7 DEF ListsNewest
  <2>11. ASSUME NEW m \in P \cup {e}, ~Hidden(m, dead)
         PROVE  \E l \in ToSet(next) : l.id = m.id /\ m.ts <= l.ts
    <3>1. CASE m = e
      BY <2>2, <2>7, <2>8, <2>9, <3>1
    <3>2. CASE m # e
      <4>1. PICK j \in DOMAIN seen : seen[j].id = m.id /\ m.ts <= seen[j].ts
        BY <1>1, <2>11, <3>2 DEF ListsNewest
      <4>2. seen[j].ts <= Item(j).ts /\ Item(j).id = m.id /\ Item(j) \in ToSet(next)
        BY <2>2, <2>7, <4>1
      <4>3. m.ts \in Nat /\ seen[j].ts \in Nat /\ Item(j).ts \in Nat
        BY <1>1, <2>2, <3>2 DEF LineType
      <4> QED  BY <4>1, <4>2, <4>3
    <3> QED  BY <3>1, <3>2
  <2> QED  BY <2>1, <2>4, <2>6, <2>10, <2>11 DEF ListsNewest
<1> QED  BY <1>2, <1>3, <1>4

LEMMA UpdatedType ==
    ASSUME NEW dead, NEW seen \in Seq(LineType), NEW e \in LineType
    PROVE  Updated(seen, e, dead) \in Seq(LineType)
<1>1. DOMAIN seen = 1..Len(seen) /\ Len(seen) \in Nat /\ \A k \in 1..Len(seen) : seen[k] \in LineType
  BY LenProperties
<1>2. CASE Hidden(e, dead) \/ \A k \in DOMAIN seen : seen[k].id # e.id
  BY <1>2, AppendProperties DEF Updated
<1>3. CASE ~(Hidden(e, dead) \/ \A k \in DOMAIN seen : seen[k].id # e.id)
  <2> DEFINE next == [k \in DOMAIN seen |->
                        IF seen[k].id = e.id /\ e.ts >= seen[k].ts THEN e ELSE seen[k]]
  <2>1. next \in [1..Len(seen) -> LineType]
    BY <1>1
  <2>2. Updated(seen, e, dead) = next
    BY <1>3 DEF Updated
  <2> HIDE DEF next
  <2> QED  BY <1>1, <2>1, <2>2, SeqDef
<1> QED  BY <1>2, <1>3

LEMMA LatestLists ==
    ASSUME NEW lines \in Seq(LineType), NEW dead
    PROVE  ListsNewest(Latest(lines, dead), ToSet(lines), dead)
<1> DEFINE L == Len(lines)
           step == [k \in 1..L |-> [s \in Seq(LineType) |-> Updated(s, lines[k], dead)]]
<1>1. L \in Nat /\ DOMAIN lines = 1..L /\ \A k \in 1..L : lines[k] \in LineType
  BY LenProperties
<1>2. step \in Steps(L, Seq(LineType)) /\ <<>> \in Seq(LineType)
  BY <1>1, UpdatedType, EmptySeq DEF Steps
<1>3. PICK f : Recursive(f, L, Seq(LineType), <<>>, step)
  <2> HIDE DEF step, L
  <2> QED  BY <1>1, <1>2, Recursion
<1> DEFINE Turn(g, k) == IF k = 0 THEN <<>> ELSE Updated(g[k - 1], lines[k], dead)
<1>4. \A k \in 0..L : f[k] = Turn(f, k)
  <2> SUFFICES ASSUME NEW k \in 0..L PROVE f[k] = Turn(f, k)
    OBVIOUS
  <2>1. k # 0 => k \in 1..L /\ f[k - 1] \in Seq(LineType)
    BY <1>1, <1>3 DEF Recursive
  <2>2. f[k] = IF k = 0 THEN <<>> ELSE step[k][f[k - 1]]
    BY <1>3 DEF Recursive
  <2> QED  BY <2>1, <2>2
<1>5. \E seen : seen = [k \in 0..L |-> Turn(seen, k)]
  BY <1>3, <1>4 DEF Recursive
<1>6. PICK seen : seen = [k \in 0..L |-> Turn(seen, k)] /\ Latest(lines, dead) = seen[L]
  BY <1>5, Zenon DEF Latest
<1>7. \A k \in 0..L : seen[k] = Turn(seen, k)
  <2> DEFINE body == [k \in 0..L |-> Turn(seen, k)]
  <2>1. \A k \in 0..L : body[k] = Turn(seen, k)
    OBVIOUS
  <2>2. seen = body
    BY <1>6
  <2> HIDE DEF body
  <2> QED  BY <2>1, <2>2
<1> DEFINE P(n) == {lines[k] : k \in 1..n}
           S == {n \in Nat : n <= L => ListsNewest(seen[n], P(n), dead)}
<1>8. 0 \in S
  <2>1. seen[0] = <<>> /\ P(0) = {}
    BY <1>1, <1>7
  <2>2. <<>> \in Seq(LineType) /\ DOMAIN <<>> = {} /\ ToSet(<<>>) = {}
    BY EmptySeq DEF ToSet
  <2>3. ListsNewest(seen[0], P(0), dead)
    BY <2>1, <2>2 DEF ListsNewest, OneEach
  <2> HIDE DEF P
  <2> QED  BY <2>3
<1>9. ASSUME NEW n \in S PROVE n + 1 \in S
  <2> SUFFICES ASSUME n + 1 <= L PROVE ListsNewest(seen[n + 1], P(n + 1), dead)
    OBVIOUS
  <2>1. ListsNewest(seen[n], P(n), dead) /\ n \in Nat /\ n + 1 \in 1..L
    BY <1>1
  <2>2. seen[n + 1] = Updated(seen[n], lines[n + 1], dead)
    <3>1. n + 1 \in 0..L /\ n + 1 # 0 /\ (n + 1) - 1 = n
      BY <1>1, <2>1
    <3> HIDE DEF S, P, L
    <3> QED  BY <1>7, <3>1
  <2>3. P(n + 1) = P(n) \cup {lines[n + 1]}
    <3>1. 1..(n + 1) = 1..n \cup {n + 1}
      BY <2>1
    <3> QED  BY <3>1
  <2>4. P(n) \in SUBSET LineType /\ lines[n + 1] \in LineType
    BY <1>1, <2>1
  <2> HIDE DEF P, S
  <2> QED  BY <2>1, <2>2, <2>3, <2>4, UpdatedLists
<1>10. S = Nat
  <2>1. S \in SUBSET Nat
    OBVIOUS
  <2> HIDE DEF S
  <2> QED  BY <1>8, <1>9, <2>1, Induction
<1>11. ListsNewest(seen[L], P(L), dead)
  <2>1. L \in S /\ L <= L
    <3> HIDE DEF S, L
    <3> QED  BY <1>1, <1>10
  <2> HIDE DEF P, L
  <2> QED  BY <2>1
<1>12. P(L) = ToSet(lines)
  BY <1>1 DEF ToSet
<1> HIDE DEF P, S, L
<1> QED  BY <1>6, <1>11, <1>12
-----------------------------------------------------------------------------
(* The collapse of near-duplicates *)

Beats(d, e) == AtLeast(Rank(d), Rank(e))

LEMMA Lexicographic ==
    ASSUME NEW a \in Nat \X Nat \X Nat \X Nat, NEW b \in Nat \X Nat \X Nat \X Nat
    PROVE  AtLeast(a, b) <=>
             \/ a[1] > b[1]
             \/ a[1] = b[1] /\ a[2] > b[2]
             \/ a[1] = b[1] /\ a[2] = b[2] /\ a[3] > b[3]
             \/ a[1] = b[1] /\ a[2] = b[2] /\ a[3] = b[3] /\ a[4] >= b[4]
<1> DEFINE Wins(k) == a[k] > b[k] /\ \A j \in 1..(k - 1) : a[j] = b[j]
<1>1. AtLeast(a, b) <=> a = b \/ \E k \in DOMAIN a : Wins(k)
  BY DEF AtLeast
<1>2. /\ DOMAIN a = 1..4
      /\ \A k \in 1..4 : a[k] \in Nat /\ b[k] \in Nat
  OBVIOUS
<1>3. a = b <=> a[1] = b[1] /\ a[2] = b[2] /\ a[3] = b[3] /\ a[4] = b[4]
  OBVIOUS
<1>4. Wins(1) <=> a[1] > b[1]
  BY <1>2
<1>5. Wins(2) <=> a[1] = b[1] /\ a[2] > b[2]
  BY <1>2
<1>6. Wins(3) <=> a[1] = b[1] /\ a[2] = b[2] /\ a[3] > b[3]
  BY <1>2
<1>7. Wins(4) <=> a[1] = b[1] /\ a[2] = b[2] /\ a[3] = b[3] /\ a[4] > b[4]
  BY <1>2
<1>8. (\E k \in DOMAIN a : Wins(k)) <=> Wins(1) \/ Wins(2) \/ Wins(3) \/ Wins(4)
  <2> HIDE DEF Wins
  <2>1. \A k \in DOMAIN a : k = 1 \/ k = 2 \/ k = 3 \/ k = 4
    BY <1>2
  <2>2. 1 \in DOMAIN a /\ 2 \in DOMAIN a /\ 3 \in DOMAIN a /\ 4 \in DOMAIN a
    BY <1>2
  <2> QED  BY <2>1, <2>2
<1>9. a[1] \in Nat /\ b[1] \in Nat /\ a[2] \in Nat /\ b[2] \in Nat
      /\ a[3] \in Nat /\ b[3] \in Nat /\ a[4] \in Nat /\ b[4] \in Nat
  BY <1>2
<1> HIDE DEF Wins
<1> QED  BY <1>1, <1>3, <1>4, <1>5, <1>6, <1>7, <1>8, <1>9

Pins(e) == IF e.pinned THEN 1 ELSE 0
Trust(e) == Confidence[e.source]
Size(e) == Length[e.id]

LEMMA BeatsIsLexicographic ==
    ASSUME NEW d \in LineType, NEW e \in LineType
    PROVE  Beats(d, e) <=>
             \/ Pins(d) > Pins(e)
             \/ Pins(d) = Pins(e) /\ Trust(d) > Trust(e)
             \/ Pins(d) = Pins(e) /\ Trust(d) = Trust(e) /\ Size(d) > Size(e)
             \/ Pins(d) = Pins(e) /\ Trust(d) = Trust(e) /\ Size(d) = Size(e) /\ d.ts >= e.ts
<1>1. /\ Pins(d) \in Nat /\ Trust(d) \in Nat /\ Size(d) \in Nat /\ d.ts \in Nat
      /\ Pins(e) \in Nat /\ Trust(e) \in Nat /\ Size(e) \in Nat /\ e.ts \in Nat
  BY MemoryAssumption DEF Pins, Trust, Size, LineType
<1>2. /\ Rank(d) = <<Pins(d), Trust(d), Size(d), d.ts>>
      /\ Rank(e) = <<Pins(e), Trust(e), Size(e), e.ts>>
  BY DEF Rank, Pins, Trust, Size
<1>3. Rank(d) \in Nat \X Nat \X Nat \X Nat /\ Rank(e) \in Nat \X Nat \X Nat \X Nat
  BY <1>1, <1>2
<1>4. /\ Rank(d)[1] = Pins(d) /\ Rank(d)[2] = Trust(d) /\ Rank(d)[3] = Size(d) /\ Rank(d)[4] = d.ts
      /\ Rank(e)[1] = Pins(e) /\ Rank(e)[2] = Trust(e) /\ Rank(e)[3] = Size(e) /\ Rank(e)[4] = e.ts
  BY <1>2
<1> HIDE DEF Pins, Trust, Size
<1> QED  BY <1>3, <1>4, Lexicographic DEF Beats

\* The ranks order the lines; a pinned one is beaten by pinned ones only.
LEMMA BeatsOrders ==
    ASSUME NEW d \in LineType, NEW e \in LineType, NEW f \in LineType
    PROVE  /\ Beats(d, d)
           /\ Beats(d, e) \/ Beats(e, d)
           /\ Beats(d, e) /\ Beats(e, f) => Beats(d, f)
           /\ Beats(d, e) /\ Beats(e, d) => d.ts = e.ts
           /\ Beats(d, e) /\ e.pinned => d.pinned
<1>1. \A x \in {d, e, f} : Pins(x) \in Nat /\ Trust(x) \in Nat /\ Size(x) \in Nat /\ x.ts \in Nat
  BY MemoryAssumption DEF Pins, Trust, Size, LineType
<1>2. \A x \in {d, e, f} : x.pinned \in BOOLEAN /\ (Pins(x) = IF x.pinned THEN 1 ELSE 0)
  BY DEF Pins, LineType
<1>3. \A x, y \in {d, e, f} : Beats(x, y) <=>
             \/ Pins(x) > Pins(y)
             \/ Pins(x) = Pins(y) /\ Trust(x) > Trust(y)
             \/ Pins(x) = Pins(y) /\ Trust(x) = Trust(y) /\ Size(x) > Size(y)
             \/ Pins(x) = Pins(y) /\ Trust(x) = Trust(y) /\ Size(x) = Size(y) /\ x.ts >= y.ts
  BY BeatsIsLexicographic
<1> HIDE DEF Pins, Trust, Size, Beats
<1>4. Beats(d, d) /\ (Beats(d, e) \/ Beats(e, d))
  BY <1>1, <1>3
<1>5. Beats(d, e) /\ Beats(e, f) => Beats(d, f)
  BY <1>1, <1>3
<1>6. Beats(d, e) /\ Beats(e, d) => d.ts = e.ts
  BY <1>1, <1>3
<1>7. Beats(d, e) /\ e.pinned => d.pinned
  <2>1. Beats(d, e) => Pins(d) >= Pins(e)
    BY <1>1, <1>3
  <2>2. e.pinned => Pins(e) = 1
    BY <1>2
  <2>3. d.pinned \in BOOLEAN /\ (~d.pinned => Pins(d) = 0)
    BY <1>2
  <2> QED  BY <2>1, <2>2, <2>3
<1> QED  BY <1>4, <1>5, <1>6, <1>7

Once(kept) == \A j, k \in DOMAIN kept : kept[j] = kept[k] => j = k

LEMMA MergedType ==
    ASSUME NEW kept \in Seq(LineType), NEW e \in LineType
    PROVE  Merged(kept, e) \in Seq(LineType)
<1>1. DOMAIN kept = 1..Len(kept) /\ Len(kept) \in Nat /\ \A k \in 1..Len(kept) : kept[k] \in LineType
  BY LenProperties
<1>2. \A k : [kept EXCEPT ![k] = e] \in Seq(LineType)
  <2> SUFFICES ASSUME NEW k PROVE [kept EXCEPT ![k] = e] \in [1..Len(kept) -> LineType]
    BY <1>1, SeqDef
  <2> QED  BY <1>1
<1>3. Append(kept, e) \in Seq(LineType)
  BY AppendProperties
<1> QED  BY <1>2, <1>3 DEF Merged

\* One more fact: it is added, or it takes the place of a similar one that it
\* beats, or a similar one that beats it stays.
LEMMA MergedIs ==
    ASSUME NEW kept \in Seq(LineType), Once(kept), NEW e \in LineType, e \notin ToSet(kept)
    PROVE  /\ Merged(kept, e) \in Seq(LineType) /\ Once(Merged(kept, e))
           /\ \/ /\ \A d \in ToSet(kept) : <<e.id, d.id>> \notin Near
                 /\ ToSet(Merged(kept, e)) = ToSet(kept) \cup {e}
              \/ \E f \in ToSet(kept) :
                    /\ <<e.id, f.id>> \in Near
                    /\ \/ Beats(e, f) /\ ToSet(Merged(kept, e)) = (ToSet(kept) \ {f}) \cup {e}
                       \/ Beats(f, e) /\ ToSet(Merged(kept, e)) = ToSet(kept)
<1>1. /\ DOMAIN kept = 1..Len(kept) /\ Len(kept) \in Nat
      /\ ToSet(kept) = {kept[k] : k \in DOMAIN kept}
      /\ \A k \in DOMAIN kept : kept[k] \in LineType /\ kept[k] # e
  BY LenProperties DEF ToSet
<1>2. Merged(kept, e) \in Seq(LineType)
  BY MergedType
<1> DEFINE similar == {k \in DOMAIN kept : <<e.id, kept[k].id>> \in Near}
           first == CHOOSE k \in similar : \A j \in similar : k <= j
<1>3. Merged(kept, e) =
        IF similar = {} THEN Append(kept, e)
        ELSE IF Beats(e, kept[first]) THEN [kept EXCEPT ![first] = e]
        ELSE kept
  BY DEF Merged, Beats
<1>4. CASE similar = {}
  <2> DEFINE next == Append(kept, e)
  <2>1. Merged(kept, e) = next
    BY <1>3, <1>4
  <2>2. /\ ToSet(next) = ToSet(kept) \cup {e}
        /\ DOMAIN next = 1..(Len(kept) + 1)
        /\ \A k \in DOMAIN kept : next[k] = kept[k]
        /\ next[Len(kept) + 1] = e
    BY <1>1, AppendSet
  <2> HIDE DEF next
  <2>3. Once(next)
    <3>1. \A k \in DOMAIN next : k \in DOMAIN kept \/ k = Len(kept) + 1
      BY <1>1, <2>2
    <3> QED  BY <1>1, <2>2, <3>1 DEF Once
  <2>4. \A d \in ToSet(kept) : <<e.id, d.id>> \notin Near
    BY <1>1, <1>4
  <2> HIDE DEF similar, first
  <2> QED  BY <1>2, <2>1, <2>2, <2>3, <2>4
<1>5. CASE similar # {}
  <2>1. \E k \in similar : \A j \in similar : k <= j
    <3>1. similar \in SUBSET Nat /\ similar # {}
      BY <1>1, <1>5
    <3> HIDE DEF similar, first
    <3> QED  BY <3>1, LeastMember
  <2>2. first \in similar
    <3> HIDE DEF similar
    <3> QED  BY <2>1
  <2> DEFINE f == kept[first]
  <2>3. first \in DOMAIN kept /\ <<e.id, kept[first].id>> \in Near
    BY <2>2
  <2> HIDE DEF similar, first
  <2>4. f \in ToSet(kept) /\ f \in LineType
    BY <1>1, <2>3
  <2>5. CASE Beats(e, f)
    <3> DEFINE next == [kept EXCEPT ![first] = e]
    <3>1. Merged(kept, e) = next
      BY <1>3, <1>5, <2>5
    <3>2. /\ DOMAIN next = DOMAIN kept /\ next[first] = e
          /\ \A j \in DOMAIN kept : j # first => next[j] = kept[j]
      BY <2>3
    <3> HIDE DEF next
    <3>3. ToSet(next) = (ToSet(kept) \ {f}) \cup {e}
      <4>1. \A j \in DOMAIN kept : kept[j] = f => j = first
        BY <1>1, <2>3 DEF Once
      <4>2. ToSet(next) = {next[j] : j \in DOMAIN kept}
        BY <3>2 DEF ToSet
      <4>3. \A x : x \in ToSet(next) => x \in (ToSet(kept) \ {f}) \cup {e}
        BY <1>1, <3>2, <4>1, <4>2
      <4>4. e \in ToSet(next)
        BY <2>3, <3>2, <4>2
      <4>5. \A j \in DOMAIN kept : kept[j] # f => kept[j] \in ToSet(next)
        BY <3>2, <4>2
      <4> QED  BY <1>1, <4>3, <4>4, <4>5
    <3>4. Once(next)
      BY <1>1, <3>2 DEF Once
    <3> QED  BY <1>2, <2>3, <2>4, <2>5, <3>1, <3>3, <3>4
  <2>6. CASE ~Beats(e, f)
    <3>1. Merged(kept, e) = kept
      BY <1>3, <1>5, <2>6
    <3>2. Beats(f, e)
      BY <2>4, <2>6, BeatsOrders
    <3> HIDE DEF f
    <3> QED  BY <1>2, <2>3, <2>4, <3>1, <3>2 DEF f
  <2> QED  BY <2>5, <2>6
<1> QED  BY <1>4, <1>5

LEMMA NearIsSymmetric ==
    ASSUME NEW t, NEW u, <<t, u>> \in Near
    PROVE  <<u, t>> \in Near
<1>1. <<(<<t, u>>)[2], (<<t, u>>)[1]>> \in Near
  BY MemoryAssumption
<1> QED  BY <1>1

\* A chain begins with its own text and goes on with every similar one.
LEMMA ChainBegins ==
    ASSUME NEW T, NEW t \in T
    PROVE  t \in Chain(t, T)
  BY DEF Chain

LEMMA ChainGoesOn ==
    ASSUME NEW T, NEW t, NEW u \in Chain(t, T), NEW v \in T, <<u, v>> \in Near
    PROVE  v \in Chain(t, T)
<1> SUFFICES ASSUME NEW S \in SUBSET T, t \in S,
                    \A p \in Near : p[1] \in S /\ p[2] \in T => p[2] \in S
             PROVE  v \in S
  BY DEF Chain
<1>1. u \in S
  BY DEF Chain
<1>2. (<<u, v>>)[1] \in S /\ (<<u, v>>)[2] \in T => (<<u, v>>)[2] \in S
  OBVIOUS
<1> QED  BY <1>1, <1>2

\* Of kept, a collapse of lines of P with texts in T, a line that ranks no
\* lower is tied to each line of P.
TiedTo(K, P, T) ==
    /\ K \subseteq P
    /\ \A m \in P : \E d \in K : d.id \in Chain(m.id, T) /\ Beats(d, m)

LEMMA MergedTies ==
    ASSUME NEW T, NEW P \in SUBSET LineType, NEW kept \in Seq(LineType), Once(kept),
           NEW e \in LineType, e \notin P, \A m \in P \cup {e} : m.id \in T,
           TiedTo(ToSet(kept), P, T)
    PROVE  TiedTo(ToSet(Merged(kept, e)), P \cup {e}, T)
<1> DEFINE K == ToSet(kept)
           M == ToSet(Merged(kept, e))
<1>1. \/ M = K \cup {e}
      \/ \E f \in K : /\ <<e.id, f.id>> \in Near
                      /\ \/ Beats(e, f) /\ M = (K \ {f}) \cup {e}
                         \/ Beats(f, e) /\ M = K
  BY MergedIs DEF TiedTo
<1>2. K \subseteq P /\ \A m \in P : \E d \in K : d.id \in Chain(m.id, T) /\ Beats(d, m)
  BY DEF TiedTo
<1>3. e.id \in Chain(e.id, T) /\ Beats(e, e)
  BY ChainBegins, BeatsOrders
<1> HIDE DEF K, M
<1>4. CASE M = K \cup {e}
  BY <1>2, <1>3, <1>4 DEF TiedTo, K, M
<1>5. ASSUME NEW f \in K, <<e.id, f.id>> \in Near, Beats(e, f), M = (K \ {f}) \cup {e}
      PROVE  TiedTo(M, P \cup {e}, T)
  <2>1. <<f.id, e.id>> \in Near /\ f \in LineType
    BY <1>2, <1>5, NearIsSymmetric
  <2>2. ASSUME NEW m \in P PROVE \E d \in M : d.id \in Chain(m.id, T) /\ Beats(d, m)
    <3>1. PICK d \in K : d.id \in Chain(m.id, T) /\ Beats(d, m)
      BY <1>2
    <3>2. CASE d # f
      BY <1>5, <3>1, <3>2
    <3>3. CASE d = f
      <4>1. e.id \in Chain(m.id, T)
        BY <2>1, <3>1, <3>3, ChainGoesOn
      <4>2. Beats(e, m)
        BY <1>5, <2>1, <3>1, <3>3, BeatsOrders
      <4> QED  BY <1>5, <4>1, <4>2
    <3> QED  BY <3>2, <3>3
  <2>3. M \subseteq P \cup {e}
    BY <1>2, <1>5
  <2> QED  BY <1>3, <1>5, <2>2, <2>3 DEF TiedTo
<1>6. ASSUME NEW f \in K, <<e.id, f.id>> \in Near, Beats(f, e), M = K
      PROVE  TiedTo(M, P \cup {e}, T)
  <2>1. f.id \in T
    BY <1>2
  <2>2. f.id \in Chain(e.id, T)
    BY <1>3, <1>6, <2>1, ChainGoesOn
  <2> QED  BY <1>2, <1>6, <2>2 DEF TiedTo
<1> QED  BY <1>1, <1>4, <1>5, <1>6 DEF M

\* Of the lines of P, the ones with texts in C are similar to no others and
\* all similar to each other.
Clump(C, P) ==
    /\ \A d, e \in P : d.id \in C /\ <<d.id, e.id>> \in Near => e.id \in C
    /\ \A d, e \in P : d.id \in C /\ e.id \in C => d = e \/ <<d.id, e.id>> \in Near

\* K has one line for the ones of P with texts in C, if there are any, which
\* none of them beats.
StandsFor(K, P, C) ==
    /\ K \subseteq P
    /\ \A d, e \in K : d.id \in C /\ e.id \in C => d = e
    /\ \A m \in P : m.id \in C => \E d \in K : d.id \in C /\ Beats(d, m)

LEMMA MergedStands ==
    ASSUME NEW C, NEW P \in SUBSET LineType, NEW kept \in Seq(LineType), Once(kept),
           NEW e \in LineType, e \notin P, Clump(C, P \cup {e}),
           StandsFor(ToSet(kept), P, C)
    PROVE  StandsFor(ToSet(Merged(kept, e)), P \cup {e}, C)
<1> DEFINE K == ToSet(kept)
           M == ToSet(Merged(kept, e))
<1>1. \/ (\A d \in K : <<e.id, d.id>> \notin Near) /\ M = K \cup {e}
      \/ \E f \in K : /\ <<e.id, f.id>> \in Near
                      /\ \/ Beats(e, f) /\ M = (K \ {f}) \cup {e}
                         \/ Beats(f, e) /\ M = K
  BY MergedIs DEF StandsFor
<1>2. /\ K \subseteq P
      /\ \A d, m \in K : d.id \in C /\ m.id \in C => d = m
      /\ \A m \in P : m.id \in C => \E d \in K : d.id \in C /\ Beats(d, m)
  BY DEF StandsFor
<1>3. Beats(e, e)
  BY BeatsOrders
<1> HIDE DEF K, M
<1>4. CASE (\A d \in K : <<e.id, d.id>> \notin Near) /\ M = K \cup {e}
  <2>1. \A d \in K : e.id \in C /\ d.id \in C => FALSE
    BY <1>2, <1>4 DEF Clump
  <2> QED  BY <1>2, <1>3, <1>4, <2>1 DEF StandsFor, M
<1>5. ASSUME NEW f \in K, <<e.id, f.id>> \in Near,
             (Beats(e, f) /\ M = (K \ {f}) \cup {e}) \/ (Beats(f, e) /\ M = K)
      PROVE  StandsFor(M, P \cup {e}, C)
  <2>1. f \in P /\ f \in LineType /\ <<f.id, e.id>> \in Near
    BY <1>2, <1>5, NearIsSymmetric
  <2>2. e.id \in C <=> f.id \in C
    BY <1>5, <2>1 DEF Clump
  <2>3. M \subseteq P \cup {e}
    BY <1>2, <1>5
  <2>4. \A d, m \in M : d.id \in C /\ m.id \in C => d = m
    BY <1>2, <1>5, <2>2
  <2>5. ASSUME NEW m \in P \cup {e}, m.id \in C PROVE \E d \in M : d.id \in C /\ Beats(d, m)
    <3>1. CASE m = e
      BY <1>3, <1>5, <2>2, <2>5, <3>1
    <3>2. CASE m # e
      <4>1. PICK d \in K : d.id \in C /\ Beats(d, m)
        BY <1>2, <2>5, <3>2
      <4>2. CASE d # f \/ M = K
        BY <1>5, <4>1, <4>2
      <4>3. CASE d = f /\ M # K
        <5>1. Beats(e, m)
          BY <1>5, <2>1, <3>2, <4>1, <4>3, BeatsOrders
        <5> QED  BY <1>5, <2>2, <4>1, <4>3, <5>1
      <4> QED  BY <4>2, <4>3
    <3> QED  BY <3>1, <3>2
  <2> QED  BY <2>3, <2>4, <2>5 DEF StandsFor
<1> QED  BY <1>1, <1>4, <1>5 DEF M

\* Collapsing leaves out no fact without keeping one that is tied to it and
\* ranks no lower; of facts that are clearly duplicates it keeps the best.
LEMMA CollapsedStands ==
    ASSUME NEW facts \in Seq(LineType), OneEach(facts)
    PROVE  /\ Collapsed(facts) \in Seq(LineType)
           /\ TiedTo(ToSet(Collapsed(facts)), ToSet(facts), Ids(ToSet(facts)))
           /\ \A C : Clump(C, ToSet(facts)) => StandsFor(ToSet(Collapsed(facts)), ToSet(facts), C)
<1> DEFINE L == Len(facts)
           step == [k \in 1..L |-> [s \in Seq(LineType) |-> Merged(s, facts[k])]]
<1>1. L \in Nat /\ DOMAIN facts = 1..L /\ \A k \in 1..L : facts[k] \in LineType
  BY LenProperties
<1>2. step \in Steps(L, Seq(LineType)) /\ <<>> \in Seq(LineType)
  BY <1>1, MergedType, EmptySeq DEF Steps
<1>3. PICK f : Recursive(f, L, Seq(LineType), <<>>, step)
  <2> HIDE DEF step, L
  <2> QED  BY <1>1, <1>2, Recursion
<1> DEFINE Turn(g, k) == IF k = 0 THEN <<>> ELSE Merged(g[k - 1], facts[k])
<1>4. \A k \in 0..L : f[k] = Turn(f, k)
  <2> SUFFICES ASSUME NEW k \in 0..L PROVE f[k] = Turn(f, k)
    OBVIOUS
  <2>1. k # 0 => k \in 1..L /\ f[k - 1] \in Seq(LineType)
    BY <1>1, <1>3 DEF Recursive
  <2>2. f[k] = IF k = 0 THEN <<>> ELSE step[k][f[k - 1]]
    BY <1>3 DEF Recursive
  <2> QED  BY <2>1, <2>2
<1>5. \E kept : kept = [k \in 0..L |-> Turn(kept, k)]
  BY <1>3, <1>4 DEF Recursive
<1>6. PICK kept : kept = [k \in 0..L |-> Turn(kept, k)] /\ Collapsed(facts) = kept[L]
  BY <1>5, Zenon DEF Collapsed
<1>7. \A k \in 0..L : kept[k] = Turn(kept, k)
  <2> DEFINE body == [k \in 0..L |-> Turn(kept, k)]
  <2>1. \A k \in 0..L : body[k] = Turn(kept, k)
    OBVIOUS
  <2>2. kept = body
    BY <1>6
  <2> HIDE DEF body
  <2> QED  BY <2>1, <2>2
<1>13. ToSet(facts) = {facts[k] : k \in 1..L}
  BY <1>1 DEF ToSet
<1> DEFINE T == Ids(ToSet(facts))
           P(n) == {facts[k] : k \in 1..n}
           Good(n) == /\ kept[n] \in Seq(LineType)
                      /\ Once(kept[n])
                      /\ TiedTo(ToSet(kept[n]), P(n), T)
                      /\ \A C : Clump(C, P(L)) => StandsFor(ToSet(kept[n]), P(n), C)
           S == {n \in Nat : n <= L => Good(n)}
<1>8. 0 \in S
  <2>1. kept[0] = <<>> /\ P(0) = {}
    BY <1>1, <1>7
  <2>2. <<>> \in Seq(LineType) /\ DOMAIN <<>> = {} /\ ToSet(<<>>) = {}
    BY EmptySeq DEF ToSet
  <2> HIDE DEF P
  <2>3. Good(0)
    BY <2>1, <2>2 DEF StandsFor, TiedTo, Once
  <2> QED  BY <2>3
<1>9. ASSUME NEW n \in S PROVE n + 1 \in S
  <2> SUFFICES ASSUME n + 1 <= L PROVE Good(n + 1)
    OBVIOUS
  <2>1. Good(n) /\ n \in Nat /\ n + 1 \in 1..L
    BY <1>1
  <2>2. kept[n + 1] = Merged(kept[n], facts[n + 1])
    <3>1. n + 1 \in 0..L /\ n + 1 # 0 /\ (n + 1) - 1 = n
      BY <1>1, <2>1
    <3> HIDE DEF S, P, L
    <3> QED  BY <1>7, <3>1
  <2>3. P(n + 1) = P(n) \cup {facts[n + 1]}
    <3>1. 1..(n + 1) = 1..n \cup {n + 1}
      BY <2>1
    <3> QED  BY <3>1
  <2>4. P(n) \in SUBSET LineType /\ facts[n + 1] \in LineType
    BY <1>1, <2>1
  <2>5. facts[n + 1] \notin P(n)
    BY <1>1, <2>1 DEF OneEach
  <2>6. \A m \in P(n) \cup {facts[n + 1]} : m.id \in T
    <3>1. P(n + 1) \subseteq ToSet(facts)
      BY <1>13, <2>1
    <3> QED  BY <2>3, <3>1 DEF Ids
  <2>7. P(n) \cup {facts[n + 1]} \subseteq P(L)
    <3>1. P(n + 1) \subseteq P(L)
      BY <1>1, <2>1
    <3> QED  BY <2>3, <3>1
  <2> HIDE DEF P, S, L, T
  <2>8. facts[n + 1] \notin ToSet(kept[n])
    BY <2>1, <2>5 DEF TiedTo
  <2>9. kept[n + 1] \in Seq(LineType) /\ Once(kept[n + 1])
    BY <2>1, <2>2, <2>4, <2>8, MergedIs
  <2>10. TiedTo(ToSet(kept[n + 1]), P(n + 1), T)
    BY <2>1, <2>2, <2>3, <2>4, <2>5, <2>6, MergedTies
  <2>11. ASSUME NEW C, Clump(C, P(L)) PROVE StandsFor(ToSet(kept[n + 1]), P(n + 1), C)
    <3>1. Clump(C, P(n) \cup {facts[n + 1]})
      BY <2>7, <2>11 DEF Clump
    <3>2. StandsFor(ToSet(kept[n]), P(n), C)
      BY <2>1, <2>11
    <3> QED  BY <2>1, <2>2, <2>3, <2>4, <2>5, <3>1, <3>2, MergedStands
  <2> QED  BY <2>9, <2>10, <2>11
<1>10. S = Nat
  <2>1. S \in SUBSET Nat
    OBVIOUS
  <2> HIDE DEF S
  <2> QED  BY <1>8, <1>9, <2>1, Induction
<1>11. Good(L)
  <2>1. L \in S /\ L <= L
    <3> HIDE DEF S, L
    <3> QED  BY <1>1, <1>10
  <2> HIDE DEF Good, L
  <2> QED  BY <2>1
<1>12. P(L) = ToSet(facts)
  BY <1>1 DEF ToSet
<1> HIDE DEF P, S, L, T
<1> QED  BY <1>6, <1>11, <1>12 DEF T
-----------------------------------------------------------------------------
(* What is read of the files is a matter of the set of their lines *)

Files == [Instances -> Seq(LineType)]
Held(files) == UNION {ToSet(files[i]) : i \in Instances}
Shown(W, dead) == {l \in W : ~Hidden(l, dead)}

\* The newest lines, and of lines the ones that none ranks above.
NewestOf(W, dead) == {l \in Shown(W, dead) : \A m \in Shown(W, dead) : m.id = l.id => m.ts <= l.ts}
BestOf(S) == {e \in S : \A m \in S : Beats(e, m)}

\* One date, one line.
Dates(W) == \A l, m \in W : l.ts = m.ts => l = m

LEMMA LiveLists ==
    ASSUME NEW files \in Files, NEW dead
    PROVE  /\ ListsNewest(Live(files, dead), Held(files), dead)
           /\ Held(files) \subseteq LineType
           /\ Facts(files, dead) \subseteq LineType
           /\ \A d, e \in Facts(files, dead) : d.id = e.id => d = e
<1>1. Lines(files) \in Seq(LineType) /\ ToSet(Lines(files)) = Held(files)
  BY LinesUnion DEF Files, Held
<1>2. ListsNewest(Live(files, dead), Held(files), dead)
  BY <1>1, LatestLists DEF Live
<1>3. \A s \in Seq(LineType) : ToSet(s) \subseteq LineType
  BY LenProperties DEF ToSet
<1>4. Live(files, dead) \in Seq(LineType)
  BY <1>2 DEF ListsNewest
<1>5. \A d, e \in ToSet(Live(files, dead)) : d.id = e.id => d = e
  BY <1>2 DEF ListsNewest, OneEach, ToSet
<1> QED  BY <1>1, <1>2, <1>3, <1>4, <1>5 DEF Facts

\* A text is held when a line of it is not hidden.
LEMMA HeldIsShown ==
    ASSUME NEW files \in Files, NEW dead, NEW t
    PROVE  t \in Ids(Facts(files, dead)) <=> \E l \in Shown(Held(files), dead) : l.id = t
<1>1. ListsNewest(Live(files, dead), Held(files), dead)
  BY LiveLists
<1> QED  BY <1>1 DEF ListsNewest, Shown, Ids, Facts

\* The facts are the newest lines, whatever the order of the shards.
LEMMA FactsAreNewest ==
    ASSUME NEW files \in Files, NEW dead, Dates(Held(files))
    PROVE  Facts(files, dead) = NewestOf(Held(files), dead)
<1> DEFINE live == Facts(files, dead)
           W == Held(files)
<1>1. /\ ListsNewest(Live(files, dead), W, dead)
      /\ W \subseteq LineType /\ live \subseteq LineType
      /\ \A l, m \in live : l.id = m.id => l = m
  BY LiveLists
<1>2. \A l \in live : l \in Shown(W, dead)
  BY <1>1 DEF ListsNewest, Shown, Facts
<1>3. \A m \in Shown(W, dead) : \E l \in live : l.id = m.id /\ m.ts <= l.ts
  BY <1>1 DEF ListsNewest, Shown, Facts
<1>4. \A l \in W : l.ts \in Nat
  BY <1>1 DEF LineType
<1> HIDE DEF live, W
<1>5. ASSUME NEW l \in live PROVE l \in NewestOf(W, dead)
  <2> SUFFICES ASSUME NEW m \in Shown(W, dead), m.id = l.id PROVE m.ts <= l.ts
    BY <1>2 DEF NewestOf
  <2> QED  BY <1>1, <1>3
<1>6. ASSUME NEW l \in NewestOf(W, dead) PROVE l \in live
  <2>1. PICK m \in live : m.id = l.id /\ l.ts <= m.ts
    BY <1>3 DEF NewestOf
  <2>2. m \in Shown(W, dead) /\ m.ts <= l.ts
    BY <1>2, <2>1 DEF NewestOf
  <2>3. l \in W /\ m \in W
    BY <2>2 DEF NewestOf, Shown
  <2>4. l.ts = m.ts
    BY <1>4, <2>1, <2>2, <2>3
  <2> QED  BY <2>1, <2>3, <2>4 DEF Dates, W
<1> QED  BY <1>5, <1>6 DEF live, W

\* What is read are facts; each fact has a line that is read tied to it.
LEMMA ReadStands ==
    ASSUME NEW files \in Files, NEW dead
    PROVE  /\ ReadLongTerm(files, dead) \subseteq Facts(files, dead)
           /\ TiedTo(ReadLongTerm(files, dead), Facts(files, dead), Ids(Facts(files, dead)))
           /\ \A C : Clump(C, Facts(files, dead)) =>
                       StandsFor(ReadLongTerm(files, dead), Facts(files, dead), C)
<1>1. ListsNewest(Live(files, dead), Held(files), dead)
  BY LiveLists
<1> QED  BY <1>1, CollapsedStands DEF ListsNewest, ReadLongTerm, Facts, TiedTo

\* What is read are lines of the files that are not hidden.
LEMMA ReadIsShown ==
    ASSUME NEW files \in Files, NEW dead
    PROVE  ReadLongTerm(files, dead) \subseteq Shown(Held(files), dead)
<1>1. ListsNewest(Live(files, dead), Held(files), dead)
  BY LiveLists
<1> QED  BY <1>1, ReadStands DEF ListsNewest, Shown, Facts

\* Of facts that are clearly duplicates the best is read, whatever the order.
LEMMA BestIsRead ==
    ASSUME NEW files \in Files, NEW dead, Dates(Held(files)),
           NEW C, Clump(C, Facts(files, dead))
    PROVE  {e \in ReadLongTerm(files, dead) : e.id \in C}
             = BestOf({e \in Facts(files, dead) : e.id \in C})
<1> DEFINE live == Facts(files, dead)
           read == ReadLongTerm(files, dead)
           those == {e \in live : e.id \in C}
<1>1. /\ read \subseteq live
      /\ \A d, e \in read : d.id \in C /\ e.id \in C => d = e
      /\ \A m \in live : m.id \in C => \E d \in read : d.id \in C /\ Beats(d, m)
  BY ReadStands DEF StandsFor
<1>2. live \subseteq LineType /\ live \subseteq Held(files)
  BY LiveLists, FactsAreNewest DEF NewestOf, Shown
<1>3. \A d, m \in LineType : Beats(d, m) /\ Beats(m, d) => d.ts = m.ts
  BY BeatsOrders
<1> HIDE DEF live, read
<1>4. ASSUME NEW e \in read, e.id \in C PROVE e \in BestOf(those)
  BY <1>1, <1>4 DEF BestOf
<1>5. ASSUME NEW e \in BestOf(those) PROVE e \in read /\ e.id \in C
  <2>1. e \in live /\ e.id \in C /\ \A m \in those : Beats(e, m)
    BY DEF BestOf
  <2>2. PICK d \in read : d.id \in C /\ Beats(d, e)
    BY <1>1, <2>1
  <2>3. d \in live /\ Beats(e, d)
    BY <1>1, <2>1, <2>2
  <2>4. d.ts = e.ts
    BY <1>2, <1>3, <2>1, <2>2, <2>3
  <2>5. d = e
    BY <1>2, <2>1, <2>3, <2>4 DEF Dates
  <2> QED  BY <2>1, <2>2, <2>5
<1> QED  BY <1>4, <1>5 DEF live, read

\* The facts tied to a text, when their similarity is clear.
LEMMA ClearIsClump ==
    ASSUME NEW files \in Files, NEW dead, NEW t, Clear(Tied(t, files, dead))
    PROVE  LET C == Chain(t, Ids(Facts(files, dead)))
           IN  /\ Clump(C, Facts(files, dead))
               /\ Tied(t, files, dead) = {e \in Facts(files, dead) : e.id \in C}
<1> DEFINE C == Chain(t, Ids(Facts(files, dead)))
<1>1. Tied(t, files, dead) = {e \in Facts(files, dead) : e.id \in C}
  BY DEF Tied
<1>2. \A d, e \in Facts(files, dead) : d.id = e.id => d = e
  BY LiveLists
<1>3. \A e \in Facts(files, dead) : e.id \in Ids(Facts(files, dead))
  BY DEF Ids
<1>4. \A d, e \in Facts(files, dead) : d.id \in C /\ <<d.id, e.id>> \in Near => e.id \in C
  BY <1>3, ChainGoesOn
<1> HIDE DEF C
<1> QED  BY <1>1, <1>2, <1>4 DEF Clump, Clear, C
-----------------------------------------------------------------------------
(* The inductive invariant *)

Appends == [kind : {"line"}, line : LineType] \cup [kind : {"tombstones"}, ids : SUBSET Texts]
Deeds == {"remember", "forget", "edit", "pin"}

OpType(o, now) ==
    /\ o.name \in Deeds \cup {"idle", "reading", "recall"}
    /\ o.name = "idle" => o = Idle
    /\ o.name = "reading" =>
         /\ o = [name |-> "reading", dead |-> o.dead]
         /\ o.dead \in [Texts -> Nat]
    /\ o.name \in Deeds \cup {"recall"} =>
         /\ o = [name |-> o.name, from |-> o.from, to |-> o.to, ts |-> o.ts, todo |-> o.todo]
         /\ o.ts \in 1..now
         /\ o.todo \in Seq(Appends) /\ o.todo # <<>>
    /\ o.name \in Deeds => o.from \in Texts /\ o.to \in Texts

Types ==
    /\ shards \in Files
    /\ tombs \in [Texts -> 0..clock]
    /\ DOMAIN op = Instances /\ \A i \in Instances : OpType(op[i], clock)
    /\ clock \in Nat
    /\ begun \in 0..MaxOps

\* The lines that operations under way will still append, and all lines there
\* are or will be of them: none is dated in the future, and one date has one
\* line, so that a copy which recall appends is just that.
PendingOf(todo) == {x.line : x \in {y \in ToSet(todo) : y.kind = "line"}}
PendingIn(o) == IF o.name \in {"idle", "reading"} THEN {} ELSE PendingOf(o.todo)
Pool == Held(shards) \cup UNION {PendingIn(op[i]) : i \in Instances}
Dated == Dates(Pool) /\ \A l \in Pool : l.ts \in 1..clock

\* What an operation has still to write, where W are the lines of the files:
\* recall only repeats lines there are, the others write of the text they are
\* about and bury that or similar ones, and an edit buries the old text after
\* the line of the new one, which has a date that no tombstone has.
RecallRepeats(o, W) == \A x \in ToSet(o.todo) : x.kind = "line" /\ x.line \in W
WritesOfItsOwn(o) ==
    \A x \in ToSet(o.todo) :
        /\ x.kind = "line" => x.line.id = o.to
        /\ x.kind = "tombstones" => \A t \in x.ids : t = o.from \/ <<t, o.from>> \in Near
EditKeeps(o, W, dead) ==
    /\ o.from # o.to
    /\ \A t \in Texts : dead[t] # o.ts
    /\ \/ \E l \in LineType : /\ o.todo = <<Put(l), Bury({o.from})>>
                              /\ l.id = o.to /\ l.ts = o.ts
       \/ /\ o.todo = <<Bury({o.from})>>
          /\ \E l \in W : l.id = o.to /\ l.ts = o.ts
Purposeful(o, W, dead) ==
    /\ o.name = "recall" => RecallRepeats(o, W)
    /\ o.name \in Deeds => WritesOfItsOwn(o)
    /\ o.name = "edit" => EditKeeps(o, W, dead)

StoreInv == Types /\ Dated /\ \A i \in Instances : Purposeful(op[i], Held(shards), tombs)
-----------------------------------------------------------------------------
(* Sequences of appends *)

LEMMA SeqFinite ==
    ASSUME NEW T, NEW s \in Seq(T)
    PROVE  IsFiniteSet(ToSet(s))
<1>1. DOMAIN s = 1..Len(s) /\ Len(s) \in Nat
  BY LenProperties
<1>2. IsFiniteSet(1..Len(s))
  BY <1>1, FS_Interval
<1>3. s \in Surjection(1..Len(s), ToSet(s))
  <2>1. s \in [1..Len(s) -> ToSet(s)]
    BY <1>1, LenProperties DEF ToSet
  <2>2. \A e \in ToSet(s) : \E k \in 1..Len(s) : s[k] = e
    BY <1>1 DEF ToSet
  <2> QED  BY <2>1, <2>2 DEF Surjection
<1> QED  BY <1>2, <1>3, FS_Surjection DEF ExistsSurjection

\* SetToSeq lists the members of a finite set.
LEMMA SetToSeqLists ==
    ASSUME NEW S, IsFiniteSet(S)
    PROVE  SetToSeq(S) \in Seq(S) /\ ToSet(SetToSeq(S)) \subseteq S
<1>1. PICK n \in Nat : ExistsBijection(1..n, S)
  BY FS_NatBijection
<1>2. Cardinality(S) = n
  BY <1>1, FS_CountingElements
<1>3. \E f \in [1..Cardinality(S) -> S] : IsInjective(f)
  BY <1>1, <1>2 DEF ExistsBijection, Bijection, Injection
<1>4. SetToSeq(S) \in [1..n -> S]
  BY <1>2, <1>3, Zenon DEF SetToSeq
<1>5. SetToSeq(S) \in Seq(S)
  BY <1>4, SeqDef
<1> QED  BY <1>4, <1>5 DEF ToSet

LEMMA OneAppend ==
    ASSUME NEW x \in Appends
    PROVE  <<x>> \in Seq(Appends) /\ ToSet(<<x>>) = {x} /\ <<x>> # <<>>
  BY DEF ToSet

LEMMA TwoAppends ==
    ASSUME NEW x \in Appends, NEW y \in Appends
    PROVE  /\ <<x, y>> \in Seq(Appends) /\ ToSet(<<x, y>>) = {x, y} /\ <<x, y>> # <<>>
           /\ Head(<<x, y>>) = x /\ Tail(<<x, y>>) = <<y>> /\ Len(<<x, y>>) = 2
  BY DEF ToSet

LEMMA HeadAndTail ==
    ASSUME NEW todo \in Seq(Appends), todo # <<>>
    PROVE  /\ Head(todo) \in ToSet(todo) /\ Head(todo) \in Appends
           /\ Tail(todo) \in Seq(Appends) /\ ToSet(Tail(todo)) \subseteq ToSet(todo)
           /\ Len(todo) # 1 => Tail(todo) # <<>>
           /\ Tail(todo) # todo
<1>1. /\ DOMAIN todo = 1..Len(todo) /\ Len(todo) \in Nat /\ Len(todo) > 0
      /\ \A k \in 1..Len(todo) : todo[k] \in Appends
  BY LenProperties, EmptySeq
<1>2. Head(todo) = todo[1] /\ 1 \in DOMAIN todo
  BY <1>1
<1>3. /\ Tail(todo) \in Seq(Appends) /\ Len(Tail(todo)) = Len(todo) - 1
      /\ \A k \in 1..Len(Tail(todo)) : Tail(todo)[k] = todo[k + 1]
  BY HeadTailProperties
<1>4. DOMAIN Tail(todo) = 1..(Len(todo) - 1)
  BY <1>3, LenProperties
<1>5. ToSet(Tail(todo)) \subseteq ToSet(todo)
  <2> SUFFICES ASSUME NEW k \in 1..(Len(todo) - 1) PROVE Tail(todo)[k] \in ToSet(todo)
    BY <1>4 DEF ToSet
  <2>1. k + 1 \in DOMAIN todo /\ Tail(todo)[k] = todo[k + 1]
    BY <1>1, <1>3
  <2> QED  BY <2>1 DEF ToSet
<1> DEFINE n == Len(todo)
           m == Len(Tail(todo))
<1>6. Len(todo) # 1 => Tail(todo) # <<>>
  <2>1. n # 1 => m # 0
    <3>1. n \in Nat /\ m = n - 1
      BY <1>1, <1>3
    <3> HIDE DEF n, m
    <3> QED  BY <3>1
  <2>2. Len(<<>>) = 0
    OBVIOUS
  <2> QED  BY <2>1, <2>2
<1>7. Tail(todo) # todo
  <2>1. n # m
    <3>1. n \in Nat /\ m = n - 1
      BY <1>1, <1>3
    <3> HIDE DEF n, m
    <3> QED  BY <3>1
  <2> QED  BY <2>1
<1> QED  BY <1>1, <1>2, <1>3, <1>5, <1>6, <1>7 DEF ToSet

LEMMA PutAndBury ==
    /\ \A l \in LineType : Put(l) \in Appends /\ Put(l).kind = "line" /\ Put(l).line = l
    /\ \A ids \in SUBSET Texts : /\ Bury(ids) \in Appends /\ Bury(ids).kind = "tombstones"
                                 /\ Bury(ids).ids = ids
    /\ \A x \in Appends : /\ x.kind = "line" => x.line \in LineType
                          /\ x.kind = "tombstones" => x.ids \in SUBSET Texts
                          /\ x.kind \in {"line", "tombstones"}
  BY DEF Appends, Put, Bury

LEMMA LinesOfAppends ==
    ASSUME NEW todo \in Seq(Appends)
    PROVE  PendingOf(todo) \subseteq LineType /\ ToSet(todo) \subseteq Appends
<1>1. ToSet(todo) \subseteq Appends
  BY LenProperties DEF ToSet
<1> QED  BY <1>1, PutAndBury DEF PendingOf

\* A shard grows by one line.
LEMMA HeldAfterAppend ==
    ASSUME NEW files \in Files, NEW i \in Instances, NEW l \in LineType
    PROVE  LET after == [files EXCEPT ![i] = Append(@, l)]
           IN  after \in Files /\ Held(after) = Held(files) \cup {l}
<1> DEFINE after == [files EXCEPT ![i] = Append(@, l)]
<1>1. files[i] \in Seq(LineType)
  BY DEF Files
<1>2. Append(files[i], l) \in Seq(LineType) /\ ToSet(Append(files[i], l)) = ToSet(files[i]) \cup {l}
  BY <1>1, AppendSet
<1>3. after \in Files
  BY <1>2 DEF Files
<1>4. /\ \A j \in Instances : j # i => after[j] = files[j]
      /\ after[i] = Append(files[i], l)
  BY DEF Files
<1> HIDE DEF after
<1>5. Held(after) = Held(files) \cup {l}
  <2>1. \A j \in Instances : ToSet(after[j]) \subseteq Held(files) \cup {l}
    BY <1>2, <1>4 DEF Held
  <2>2. \A j \in Instances : ToSet(files[j]) \subseteq ToSet(after[j])
    BY <1>2, <1>4
  <2>3. l \in ToSet(after[i])
    BY <1>2, <1>4
  <2> QED  BY <2>1, <2>2, <2>3 DEF Held
<1> QED  BY <1>3, <1>5 DEF after
-----------------------------------------------------------------------------
(* The invariant step by step *)

LEMMA InitStore == Init => StoreInv
<1> SUFFICES ASSUME Init PROVE StoreInv
  OBVIOUS
<1>1. /\ shards = [i \in Instances |-> <<>>] /\ tombs = [t \in Texts |-> 0]
      /\ op = [i \in Instances |-> Idle] /\ clock = 0 /\ begun = 0
  BY DEF Init
<1>2. shards \in Files
  BY <1>1, EmptySeq DEF Files
<1>3. \A i \in Instances : op[i] = Idle /\ Idle.name = "idle"
  BY <1>1 DEF Idle
<1>4. Held(shards) = {}
  BY <1>1 DEF Held, ToSet
<1>5. Pool = {}
  BY <1>3, <1>4 DEF Pool, PendingIn
<1>6. Types
  BY <1>1, <1>2, <1>3, MemoryAssumption DEF Types, OpType, Deeds
<1>7. Dated
  BY <1>5 DEF Dated, Dates
<1>8. \A i \in Instances : Purposeful(op[i], Held(shards), tombs)
  BY <1>3 DEF Purposeful, Deeds
<1> QED  BY <1>6, <1>7, <1>8 DEF StoreInv

\* What stays true of an operation when lines are added, or tombstones of a
\* later date than any there are.
LEMMA PurposeStays ==
    ASSUME NEW now \in Nat, NEW later \in Nat, now <= later,
           NEW W, NEW V, W \subseteq V, NEW dead, NEW grave,
           \A t \in Texts : grave[t] = dead[t] \/ (grave[t] \in Nat /\ grave[t] > now),
           NEW o, OpType(o, now), Purposeful(o, W, dead)
    PROVE  OpType(o, later) /\ Purposeful(o, V, grave)
<1>1. OpType(o, later)
  <2>1. \A n \in 1..now : n \in 1..later
    OBVIOUS
  <2>2. o.name \in Deeds \cup {"recall"} => o.ts \in 1..later
    BY <2>1 DEF OpType
  <2> QED  BY <2>2 DEF OpType
<1>2. o.name = "recall" => RecallRepeats(o, V)
  BY DEF Purposeful, RecallRepeats
<1>3. o.name = "edit" => EditKeeps(o, V, grave)
  <2> SUFFICES ASSUME o.name = "edit" PROVE EditKeeps(o, V, grave)
    OBVIOUS
  <2>1. EditKeeps(o, W, dead)
    BY DEF Purposeful
  <2>2. o.ts \in 1..now
    BY DEF OpType, Deeds
  <2>3. \A t \in Texts : grave[t] # o.ts
    <3> TAKE t \in Texts
    <3>1. dead[t] # o.ts /\ (grave[t] = dead[t] \/ (grave[t] \in Nat /\ grave[t] > now))
      BY <2>1 DEF EditKeeps
    <3> QED  BY <2>2, <3>1
  <2> QED  BY <2>1, <2>3 DEF EditKeeps
<1> QED  BY <1>1, <1>2, <1>3 DEF Purposeful

\* A step of instance i to the operation o, which adds at most lines that were
\* pending, one new line of a new date, and tombstones of a new date.
LEMMA StepKeeps ==
    ASSUME StoreInv, NEW i \in Instances, NEW o, op' = [op EXCEPT ![i] = o],
           OpType(o, clock'), Purposeful(o, Held(shards'), tombs'),
           shards' \in Files, Held(shards) \subseteq Held(shards'),
           tombs' \in [Texts -> 0..clock'], \A t \in Texts : tombs'[t] = tombs[t] \/ tombs'[t] > clock,
           clock' \in Nat, clock <= clock', begun' \in 0..MaxOps,
           NEW F, Held(shards') \cup PendingIn(o) \subseteq Pool \cup F,
           \A l, m \in F : l = m, \A l \in F : l.ts \in 1..clock' /\ l.ts > clock
    PROVE  StoreInv'
<1>1. /\ shards \in Files /\ clock \in Nat /\ tombs \in [Texts -> 0..clock]
      /\ \A j \in Instances : OpType(op[j], clock) /\ Purposeful(op[j], Held(shards), tombs)
      /\ DOMAIN op = Instances
  BY DEF StoreInv, Types
<1>2. DOMAIN op' = Instances /\ op'[i] = o /\ \A j \in Instances : j # i => op'[j] = op[j]
  BY <1>1
<1>3. \A t \in Texts : tombs'[t] = tombs[t] \/ (tombs'[t] \in Nat /\ tombs'[t] > clock)
  OBVIOUS
<1>4. \A j \in Instances : OpType(op'[j], clock') /\ Purposeful(op'[j], Held(shards'), tombs')
  <2> TAKE j \in Instances
  <2>1. CASE j = i
    BY <1>2, <2>1
  <2>2. CASE j # i
    <3>1. OpType(op[j], clock') /\ Purposeful(op[j], Held(shards'), tombs')
      BY <1>1, <1>3, PurposeStays
    <3> QED  BY <1>2, <2>2, <3>1
  <2> QED  BY <2>1, <2>2
<1>5. Types'
  BY <1>2, <1>4 DEF Types
<1>6. Pool' \subseteq Pool \cup F
  <2>1. \A j \in Instances : PendingIn(op'[j]) \subseteq Pool \cup F
    <3> TAKE j \in Instances
    <3>1. CASE j = i
      BY <1>2, <3>1
    <3>2. CASE j # i
      BY <1>2, <3>2 DEF Pool
    <3> QED  BY <3>1, <3>2
  <2> QED  BY <2>1 DEF Pool
<1>7. \A l \in Pool : l.ts \in 1..clock
  BY DEF StoreInv, Dated
<1>8. \A l, m \in Pool : l.ts = m.ts => l = m
  BY DEF StoreInv, Dated, Dates
<1> HIDE DEF Pool
<1>9. Dates(Pool \cup F) /\ \A l \in Pool \cup F : l.ts \in 1..clock'
  <2>1. \A n \in 1..clock : n \in 1..clock' /\ ~(n > clock)
    BY <1>1
  <2>2. \A l \in Pool \cup F : l.ts \in 1..clock'
    BY <1>7, <2>1
  <2>3. \A l \in Pool, m \in F : l.ts # m.ts
    BY <1>7, <2>1
  <2> QED  BY <1>8, <2>2, <2>3 DEF Dates
<1>10. Dated'
  BY <1>6, <1>9 DEF Dated, Dates
<1>11. \A j \in Instances : Purposeful(op'[j], Held(shards'), tombs')
  BY <1>4
<1> QED  BY <1>5, <1>10, <1>11 DEF StoreInv

LEMMA StoreTypes ==
    ASSUME StoreInv
    PROVE  /\ shards \in Files /\ clock \in Nat /\ tombs \in [Texts -> 0..clock]
           /\ begun \in 0..MaxOps /\ DOMAIN op = Instances
           /\ \A i \in Instances : OpType(op[i], clock) /\ Purposeful(op[i], Held(shards), tombs)
           /\ Held(shards) \subseteq LineType /\ Held(shards) \subseteq Pool
<1>1. Held(shards) \subseteq LineType
  <2>1. shards \in Files
    BY DEF StoreInv, Types
  <2> QED  BY <2>1, LiveLists
<1> QED  BY <1>1 DEF StoreInv, Types, Pool

\* An operation that ends, or one that reads.
LEMMA QuietStep ==
    ASSUME StoreInv, NEW i \in Instances, NEW o, op' = [op EXCEPT ![i] = o],
           o = Idle \/ o = [name |-> "reading", dead |-> tombs],
           shards' = shards, tombs' = tombs, clock' \in {clock, clock + 1}, begun' \in 0..MaxOps
    PROVE  StoreInv'
<1>1. /\ shards \in Files /\ clock \in Nat /\ tombs \in [Texts -> 0..clock]
      /\ Held(shards) \subseteq Pool
  BY StoreTypes
<1>2. tombs \in [Texts -> Nat]
  BY <1>1
<1>3. OpType(o, clock') /\ Purposeful(o, Held(shards'), tombs') /\ PendingIn(o) = {}
  <2>1. o.name \in {"idle", "reading"}
    BY DEF Idle
  <2>2. o = Idle \/ (o.name = "reading" /\ o.dead = tombs)
    OBVIOUS
  <2>3. OpType(o, clock')
    <3>1. CASE o = Idle
      BY <3>1 DEF OpType, Idle, Deeds
    <3>2. CASE o = [name |-> "reading", dead |-> tombs]
      <4>1. o.name = "reading" /\ o.dead = tombs
        BY <3>2
      <4> QED  BY <1>2, <3>2, <4>1 DEF OpType, Deeds
    <3> QED  BY <3>1, <3>2
  <2> QED  BY <2>1, <2>3 DEF Purposeful, PendingIn, Deeds
<1>4. clock' \in Nat /\ clock <= clock' /\ tombs' \in [Texts -> 0..clock']
  BY <1>1
<1> QED  BY <1>1, <1>3, <1>4, StepKeeps

LEMMA BeginKeeps == ASSUME StoreInv, NEW i \in Instances, Begin(i) PROVE StoreInv'
<1>1. PICK o : o = [name |-> "reading", dead |-> tombs]
  OBVIOUS
<1>2. begun' \in 0..MaxOps
  BY StoreTypes, MemoryAssumption DEF Begin
<1>3. /\ op' = [op EXCEPT ![i] = o]
      /\ shards' = shards /\ tombs' = tombs /\ clock' = clock
  BY <1>1 DEF Begin
<1> QED  BY <1>1, <1>2, <1>3, QuietStep

\* What an instance reads are lines of the files.
LEMMA ExistingIsHeld ==
    ASSUME StoreInv, NEW i \in Instances, NEW e \in Existing(i)
    PROVE  e \in Held(shards) /\ e \in LineType
<1>1. e \in Shown(Held(shards), op[i].dead)
  BY StoreTypes, ReadIsShown DEF Existing
<1> QED  BY <1>1, StoreTypes DEF Shown

\* An operation decides what to append: lines of the files again, or one line
\* with the time of now.
LEMMA DecideKeeps ==
    ASSUME StoreInv, NEW i \in Instances, NEW name, NEW from, NEW to, NEW todo,
           Decide(i, name, from, to, todo),
           name \in Deeds \cup {"recall"}, name \in Deeds => from \in Texts /\ to \in Texts,
           todo \in Seq(Appends),
           NEW F, PendingOf(todo) \subseteq Held(shards) \cup F,
           \A l, m \in F : l = m, \A l \in F : l.ts = clock + 1,
           todo # <<>> =>
             Purposeful([name |-> name, from |-> from, to |-> to, ts |-> clock + 1, todo |-> todo],
                        Held(shards), tombs)
    PROVE  StoreInv'
<1>1. /\ shards' = shards /\ tombs' = tombs /\ clock' = clock + 1 /\ begun' = begun
      /\ op' = [op EXCEPT ![i] = IF todo = <<>> THEN Idle
                ELSE [name |-> name, from |-> from, to |-> to, ts |-> clock + 1, todo |-> todo]]
  BY DEF Decide
<1>2. /\ shards \in Files /\ clock \in Nat /\ tombs \in [Texts -> 0..clock]
      /\ begun \in 0..MaxOps /\ Held(shards) \subseteq Pool
  BY StoreTypes
<1>3. CASE todo = <<>>
  <2>1. op' = [op EXCEPT ![i] = Idle] /\ begun' \in 0..MaxOps
    BY <1>1, <1>2, <1>3
  <2> QED  BY <1>1, <2>1, QuietStep
<1>4. CASE todo # <<>>
  <2>1. PICK o : o = [name |-> name, from |-> from, to |-> to, ts |-> clock + 1, todo |-> todo]
    OBVIOUS
  <2>2. op' = [op EXCEPT ![i] = o]
    BY <1>1, <1>4, <2>1
  <2>3. /\ o.name = name /\ o.from = from /\ o.to = to /\ o.ts = clock + 1 /\ o.todo = todo
        /\ o = [name |-> o.name, from |-> o.from, to |-> o.to, ts |-> o.ts, todo |-> o.todo]
    BY <2>1
  <2>4. OpType(o, clock')
    <3>1. clock + 1 \in 1..clock'
      BY <1>1, <1>2
    <3>2. name # "idle" /\ name # "reading"
      BY DEF Deeds
    <3> QED  BY <1>4, <2>3, <3>1, <3>2 DEF OpType
  <2>5. Purposeful(o, Held(shards'), tombs')
    BY <1>1, <1>4, <2>1
  <2>6. PendingIn(o) \subseteq Held(shards) \cup F
    BY <2>3 DEF PendingIn
  <2>7. \A l \in F : l.ts \in 1..clock' /\ l.ts > clock
    BY <1>1, <1>2
  <2>8. clock' \in Nat /\ clock <= clock' /\ tombs' \in [Texts -> 0..clock'] /\ begun' \in 0..MaxOps
    BY <1>1, <1>2
  <2>9. Held(shards') \cup PendingIn(o) \subseteq Pool \cup F
    BY <1>1, <1>2, <2>6
  <2>10. shards' \in Files /\ Held(shards) \subseteq Held(shards')
    BY <1>1, <1>2
  <2>11. \A t \in Texts : tombs'[t] = tombs[t]
    BY <1>1
  <2> QED  BY <2>2, <2>4, <2>5, <2>7, <2>8, <2>9, <2>10, <2>11, StepKeeps
<1> QED  BY <1>3, <1>4

\* The line an operation writes of a text.
LEMMA LineIsNew ==
    ASSUME StoreInv, NEW t \in Texts, NEW s \in Sources, NEW c \in Categories, NEW p \in BOOLEAN
    PROVE  LET l == Line(t, s, c, p) IN l \in LineType /\ l.id = t /\ l.ts = clock + 1
<1>1. clock \in Nat
  BY StoreTypes
<1> QED  BY <1>1 DEF Line, LineType

LEMMA RememberKeeps ==
    ASSUME StoreInv, NEW i \in Instances, NEW t \in Texts, NEW s \in Sources, NEW c \in Categories,
           Remember(i, t, s, c)
    PROVE  StoreInv'
<1>1. PICK line \in LineType : /\ line = Line(t, s, c, s = "stated" /\ c = "scope")
                               /\ line.id = t /\ line.ts = clock + 1
  <2>1. (s = "stated" /\ c = "scope") \in BOOLEAN
    OBVIOUS
  <2> QED  BY <2>1, LineIsNew
<1>2. PICK old : old = Ids(Superseded(i, t))
  OBVIOUS
<1>3. \A u \in old : u \in Texts /\ <<u, t>> \in Near
  BY <1>2, ExistingIsHeld DEF Ids, Superseded, LineType
<1>4. PICK todo : todo = IF Refused(i, t, s, c) THEN <<>>
                         ELSE IF old = {} THEN <<Put(line)>> ELSE <<Bury(old), Put(line)>>
  OBVIOUS
<1>5. Decide(i, "remember", t, t, todo)
  BY <1>1, <1>2, <1>4 DEF Remember
<1>6. /\ Put(line) \in Appends /\ Put(line).kind = "line" /\ Put(line).line = line
      /\ Bury(old) \in Appends /\ Bury(old).kind = "tombstones" /\ Bury(old).ids = old
  <2>1. old \in SUBSET Texts
    BY <1>3
  <2> QED  BY <2>1, PutAndBury
<1>7. todo \in Seq(Appends) /\ ToSet(todo) \subseteq {Put(line), Bury(old)}
  <2>1. <<>> \in Seq(Appends) /\ ToSet(<<>>) = {}
    BY EmptySeq DEF ToSet
  <2> QED  BY <1>4, <1>6, <2>1, OneAppend, TwoAppends
<1>8. PendingOf(todo) \subseteq {line}
  BY <1>6, <1>7 DEF PendingOf
<1>9. PICK o : o = [name |-> "remember", from |-> t, to |-> t, ts |-> clock + 1, todo |-> todo]
  OBVIOUS
<1>10. Purposeful(o, Held(shards), tombs)
  <2>1. WritesOfItsOwn(o)
    <3>1. o.todo = todo /\ o.from = t /\ o.to = t
      BY <1>9
    <3> QED  BY <1>1, <1>3, <1>6, <1>7, <3>1 DEF WritesOfItsOwn
  <2>2. o.name = "remember"
    BY <1>9
  <2> QED  BY <2>1, <2>2 DEF Purposeful
<1>11. "remember" \in Deeds
  BY DEF Deeds
<1>12. PICK F : F = {line}
  OBVIOUS
<1>13. /\ PendingOf(todo) \subseteq Held(shards) \cup F
       /\ (\A l, m \in F : l = m) /\ \A l \in F : l.ts = clock + 1
  BY <1>1, <1>8, <1>12
<1>14. Purposeful([name |-> "remember", from |-> t, to |-> t, ts |-> clock + 1, todo |-> todo],
                  Held(shards), tombs)
  BY <1>9, <1>10
<1> QED  BY <1>5, <1>7, <1>11, <1>13, <1>14, DecideKeeps

LEMMA RecallKeeps ==
    ASSUME StoreInv, NEW i \in Instances, NEW top, Recall(i, top)
    PROVE  StoreInv'
<1> DEFINE S == {Put(e) : e \in top}
<1>1. top \subseteq Existing(i)
  BY DEF Recall
<1>2. \A e \in top : e \in Held(shards) /\ e \in LineType
  BY <1>1, ExistingIsHeld
<1>3. IsFiniteSet(top)
  <2>1. Collapsed(Live(shards, op[i].dead)) \in Seq(LineType)
    <3>1. ListsNewest(Live(shards, op[i].dead), Held(shards), op[i].dead)
      BY StoreTypes, LiveLists
    <3> QED  BY <3>1, CollapsedStands DEF ListsNewest
  <2>2. IsFiniteSet(Existing(i))
    BY <2>1, SeqFinite DEF Existing, ReadLongTerm
  <2> QED  BY <1>1, <2>2, FS_Subset
<1>4. IsFiniteSet(S)
  <2> DEFINE f == [e \in top |-> Put(e)]
  <2>1. f \in Surjection(top, S)
    BY DEF Surjection
  <2> HIDE DEF f, S
  <2> QED  BY <1>3, <2>1, FS_Surjection
<1>5. \A x \in S : x \in Appends /\ x.kind = "line" /\ x.line \in Held(shards)
  BY <1>2, PutAndBury
<1>6. PICK todo : todo = SetToSeq(S)
  OBVIOUS
<1>7. Decide(i, "recall", {}, {}, todo)
  BY <1>6 DEF Recall
<1> HIDE DEF S
<1>8. todo \in Seq(S) /\ ToSet(todo) \subseteq S
  BY <1>4, <1>6, SetToSeqLists
<1>9. todo \in Seq(Appends)
  <2>1. todo \in [1..Len(todo) -> S] /\ Len(todo) \in Nat
    BY <1>8, LenProperties
  <2>2. todo \in [1..Len(todo) -> Appends]
    BY <1>5, <2>1
  <2> QED  BY <2>1, <2>2, SeqDef
<1>10. PendingOf(todo) \subseteq Held(shards)
  BY <1>5, <1>8 DEF PendingOf
<1>11. PICK o : o = [name |-> "recall", from |-> {}, to |-> {}, ts |-> clock + 1, todo |-> todo]
  OBVIOUS
<1>12. Purposeful(o, Held(shards), tombs)
  <2>1. o.todo = todo /\ o.name = "recall"
    BY <1>11
  <2> QED  BY <1>5, <1>8, <2>1 DEF Purposeful, RecallRepeats, Deeds
<1>13. "recall" \notin Deeds
  BY DEF Deeds
<1> QED  BY <1>7, <1>9, <1>10, <1>11, <1>12, <1>13, DecideKeeps

LEMMA ForgetKeeps ==
    ASSUME StoreInv, NEW i \in Instances, NEW t \in Texts, Forget(i, t)
    PROVE  StoreInv'
<1>1. PICK todo : todo = <<Bury({t})>>
  OBVIOUS
<1>2. Decide(i, "forget", t, t, todo)
  BY <1>1 DEF Forget
<1>3. Bury({t}) \in Appends /\ Bury({t}).kind = "tombstones" /\ Bury({t}).ids = {t}
  BY PutAndBury
<1>4. todo \in Seq(Appends) /\ ToSet(todo) = {Bury({t})}
  BY <1>1, <1>3, OneAppend
<1>5. PendingOf(todo) = {}
  BY <1>3, <1>4 DEF PendingOf
<1>6. PICK o : o = [name |-> "forget", from |-> t, to |-> t, ts |-> clock + 1, todo |-> todo]
  OBVIOUS
<1>7. Purposeful(o, Held(shards), tombs)
  <2>1. o.todo = todo /\ o.name = "forget" /\ o.from = t
    BY <1>6
  <2> QED  BY <1>3, <1>4, <2>1 DEF Purposeful, WritesOfItsOwn
<1>8. "forget" \in Deeds
  BY DEF Deeds
<1> QED  BY <1>2, <1>4, <1>5, <1>6, <1>7, <1>8, DecideKeeps

LEMMA EditBegins ==
    ASSUME StoreInv, NEW i \in Instances, NEW t \in Texts, NEW u \in Texts, Edit(i, t, u)
    PROVE  StoreInv'
<1>1. PICK old \in Existing(i) :
         Decide(i, "edit", t, u,
                <<Put(Line(u, old.source, old.category, old.pinned)), Bury({t})>>)
  BY DEF Edit
<1>2. t # u
  BY DEF Edit
<1>3. PICK line \in LineType : /\ line = Line(u, old.source, old.category, old.pinned)
                               /\ line.id = u /\ line.ts = clock + 1
  <2>1. old \in LineType
    BY ExistingIsHeld
  <2>2. old.source \in Sources /\ old.category \in Categories /\ old.pinned \in BOOLEAN
    BY <2>1 DEF LineType
  <2> QED  BY <2>2, LineIsNew
<1>4. PICK todo : todo = <<Put(line), Bury({t})>>
  OBVIOUS
<1>5. Decide(i, "edit", t, u, todo)
  BY <1>1, <1>3, <1>4
<1>6. /\ Put(line) \in Appends /\ Put(line).kind = "line" /\ Put(line).line = line
      /\ Bury({t}) \in Appends /\ Bury({t}).kind = "tombstones" /\ Bury({t}).ids = {t}
  BY PutAndBury
<1>7. todo \in Seq(Appends) /\ ToSet(todo) = {Put(line), Bury({t})}
  BY <1>4, <1>6, TwoAppends
<1>8. PendingOf(todo) \subseteq {line}
  BY <1>6, <1>7 DEF PendingOf
<1>9. PICK o : o = [name |-> "edit", from |-> t, to |-> u, ts |-> clock + 1, todo |-> todo]
  OBVIOUS
<1>10. Purposeful(o, Held(shards), tombs)
  <2>1. o.todo = todo /\ o.name = "edit" /\ o.from = t /\ o.to = u /\ o.ts = clock + 1
    BY <1>9
  <2>2. WritesOfItsOwn(o)
    BY <1>3, <1>6, <1>7, <2>1 DEF WritesOfItsOwn
  <2>3. \A v \in Texts : tombs[v] # clock + 1
    <3>1. \A v \in Texts : tombs[v] \in 0..clock /\ clock \in Nat
      BY StoreTypes
    <3> QED  BY <3>1
  <2>4. EditKeeps(o, Held(shards), tombs)
    BY <1>2, <1>3, <1>4, <2>1, <2>3 DEF EditKeeps
  <2> QED  BY <2>1, <2>2, <2>4 DEF Purposeful
<1>11. "edit" \in Deeds
  BY DEF Deeds
<1> QED  BY <1>3, <1>5, <1>7, <1>8, <1>9, <1>10, <1>11, DecideKeeps

LEMMA PinKeeps ==
    ASSUME StoreInv, NEW i \in Instances, NEW t \in Texts, Pin(i, t)
    PROVE  StoreInv'
<1>1. PICK old \in Existing(i) :
         Decide(i, "pin", t, t, <<Put(Line(t, old.source, old.category, ~old.pinned))>>)
  BY DEF Pin
<1>2. PICK line \in LineType : /\ line = Line(t, old.source, old.category, ~old.pinned)
                               /\ line.id = t /\ line.ts = clock + 1
  <2>1. old \in LineType
    BY ExistingIsHeld
  <2>2. old.source \in Sources /\ old.category \in Categories /\ (~old.pinned) \in BOOLEAN
    BY <2>1 DEF LineType
  <2> QED  BY <2>2, LineIsNew
<1>3. PICK todo : todo = <<Put(line)>>
  OBVIOUS
<1>4. Decide(i, "pin", t, t, todo)
  BY <1>1, <1>2, <1>3
<1>5. Put(line) \in Appends /\ Put(line).kind = "line" /\ Put(line).line = line
  BY PutAndBury
<1>6. todo \in Seq(Appends) /\ ToSet(todo) = {Put(line)}
  BY <1>3, <1>5, OneAppend
<1>7. PendingOf(todo) \subseteq {line}
  BY <1>5, <1>6 DEF PendingOf
<1>8. PICK o : o = [name |-> "pin", from |-> t, to |-> t, ts |-> clock + 1, todo |-> todo]
  OBVIOUS
<1>9. Purposeful(o, Held(shards), tombs)
  <2>1. o.todo = todo /\ o.name = "pin" /\ o.to = t
    BY <1>8
  <2> QED  BY <1>2, <1>5, <1>6, <2>1 DEF Purposeful, WritesOfItsOwn
<1>10. "pin" \in Deeds
  BY DEF Deeds
<1>11. PICK F : F = {line}
  OBVIOUS
<1>12. /\ PendingOf(todo) \subseteq Held(shards) \cup F
       /\ (\A l, m \in F : l = m) /\ \A l \in F : l.ts = clock + 1
  BY <1>2, <1>7, <1>11
<1>13. Purposeful([name |-> "pin", from |-> t, to |-> t, ts |-> clock + 1, todo |-> todo],
                  Held(shards), tombs)
  BY <1>8, <1>9
<1> QED  BY <1>4, <1>6, <1>10, <1>12, <1>13, DecideKeeps

\* A write takes the first of what is still to be appended.
LEMMA WritingType ==
    ASSUME StoreInv, NEW i \in Instances, Writing(i)
    PROVE  /\ op[i].name \in Deeds \cup {"recall"}
           /\ op[i] = [name |-> op[i].name, from |-> op[i].from, to |-> op[i].to,
                       ts |-> op[i].ts, todo |-> op[i].todo]
           /\ op[i].ts \in 1..clock
           /\ op[i].todo \in Seq(Appends) /\ op[i].todo # <<>>
           /\ op[i].name \in Deeds => op[i].from \in Texts /\ op[i].to \in Texts
           /\ Purposeful(op[i], Held(shards), tombs)
           /\ PendingOf(op[i].todo) \subseteq Pool
<1>1. OpType(op[i], clock) /\ Purposeful(op[i], Held(shards), tombs)
  BY StoreTypes
<1>2. op[i].name \notin {"idle", "reading"}
  BY DEF Writing
<1>3. PendingIn(op[i]) = PendingOf(op[i].todo)
  BY <1>2 DEF PendingIn
<1> QED  BY <1>1, <1>2, <1>3 DEF OpType, Pool

\* What is left of an operation once its first append is made.
LEMMA RestOfOperation ==
    ASSUME StoreInv, NEW i \in Instances, Writing(i)
    PROVE  \/ Next1(i) = Idle
           \/ /\ Next1(i) = [name |-> op[i].name, from |-> op[i].from, to |-> op[i].to,
                             ts |-> op[i].ts, todo |-> Tail(op[i].todo)]
              /\ Tail(op[i].todo) \in Seq(Appends) /\ Tail(op[i].todo) # <<>>
              /\ ToSet(Tail(op[i].todo)) \subseteq ToSet(op[i].todo)
<1>1. /\ op[i] = [name |-> op[i].name, from |-> op[i].from, to |-> op[i].to,
                  ts |-> op[i].ts, todo |-> op[i].todo]
      /\ op[i].todo \in Seq(Appends) /\ op[i].todo # <<>>
  BY WritingType
<1>2. /\ Tail(op[i].todo) \in Seq(Appends) /\ ToSet(Tail(op[i].todo)) \subseteq ToSet(op[i].todo)
      /\ Len(op[i].todo) # 1 => Tail(op[i].todo) # <<>>
  BY <1>1, HeadAndTail
<1>3. CASE Len(op[i].todo) = 1
  BY <1>3 DEF Next1
<1>4. CASE Len(op[i].todo) # 1
  <2>1. Next1(i) = [op[i] EXCEPT !.todo = Tail(@)]
    BY <1>4 DEF Next1
  <2>2. Next1(i) = [name |-> op[i].name, from |-> op[i].from, to |-> op[i].to,
                    ts |-> op[i].ts, todo |-> Tail(op[i].todo)]
    BY <1>1, <2>1
  <2> QED  BY <1>2, <1>4, <2>2
<1> QED  BY <1>3, <1>4

\* The rest of an operation serves its purpose still, when the first append
\* is among the lines V or is a tombstone of a date that no operation has.
LEMMA RestKeeps ==
    ASSUME StoreInv, NEW i \in Instances, Writing(i), NEW o, o = Next1(i),
           NEW later \in Nat, clock <= later,
           NEW V, Held(shards) \subseteq V,
           Head(op[i].todo).kind = "line" => Head(op[i].todo).line \in V,
           NEW grave, \A t \in Texts : grave[t] = tombs[t] \/ (grave[t] \in Nat /\ grave[t] > clock)
    PROVE  OpType(o, later) /\ Purposeful(o, V, grave) /\ PendingIn(o) \subseteq Pool
<1>1. CASE o = Idle
  <2>1. o.name = "idle"
    BY <1>1 DEF Idle
  <2> QED  BY <1>1, <2>1 DEF OpType, Purposeful, PendingIn, Deeds
<1>2. CASE o # Idle
  <2> DEFINE rest == Tail(op[i].todo)
  <2>1. /\ o = [name |-> op[i].name, from |-> op[i].from, to |-> op[i].to,
                ts |-> op[i].ts, todo |-> rest]
        /\ rest \in Seq(Appends) /\ rest # <<>>
        /\ ToSet(rest) \subseteq ToSet(op[i].todo)
    BY <1>2, RestOfOperation
  <2>2. /\ o.name = op[i].name /\ o.from = op[i].from /\ o.to = op[i].to
        /\ o.ts = op[i].ts /\ o.todo = rest
    BY <2>1
  <2>3. /\ op[i].name \in Deeds \cup {"recall"} /\ op[i].ts \in 1..clock
        /\ op[i].todo \in Seq(Appends) /\ op[i].todo # <<>>
        /\ op[i].name \in Deeds => op[i].from \in Texts /\ op[i].to \in Texts
        /\ Purposeful(op[i], Held(shards), tombs)
        /\ PendingOf(op[i].todo) \subseteq Pool
    BY WritingType
  <2>4. clock \in Nat
    BY StoreTypes
  <2> HIDE DEF rest
  <2>5. OpType(o, later)
    <3>1. o.ts \in 1..later
      BY <2>2, <2>3, <2>4
    <3>2. o.name \notin {"idle", "reading"}
      BY <2>2, <2>3 DEF Deeds
    <3>3. o = [name |-> o.name, from |-> o.from, to |-> o.to, ts |-> o.ts, todo |-> o.todo]
      BY <2>1, <2>2
    <3> QED  BY <2>1, <2>2, <2>3, <3>1, <3>2, <3>3 DEF OpType
  <2>6. o.name = "recall" => RecallRepeats(o, V)
    BY <2>1, <2>2, <2>3 DEF Purposeful, RecallRepeats
  <2>7. o.name \in Deeds => WritesOfItsOwn(o)
    BY <2>1, <2>2, <2>3 DEF Purposeful, WritesOfItsOwn
  <2>8. o.name = "edit" => EditKeeps(o, V, grave)
    <3> SUFFICES ASSUME o.name = "edit" PROVE EditKeeps(o, V, grave)
      OBVIOUS
    <3>1. EditKeeps(op[i], Held(shards), tombs)
      BY <2>2, <2>3 DEF Purposeful
    <3>2. o.from # o.to /\ \A t \in Texts : grave[t] # o.ts
      <4>1. \A t \in Texts : tombs[t] # o.ts /\ o.ts \in 1..clock
        BY <2>2, <2>3, <3>1 DEF EditKeeps
      <4> QED  BY <2>2, <2>4, <3>1, <4>1 DEF EditKeeps
    <3>3. CASE op[i].todo = <<Bury({op[i].from})>>
      <4>1. Len(op[i].todo) = 1
        BY <3>3
      <4> QED  BY <1>2, <4>1 DEF Next1
    <3>4. CASE \E l \in LineType : /\ op[i].todo = <<Put(l), Bury({op[i].from})>>
                                   /\ l.id = op[i].to /\ l.ts = op[i].ts
      <4>1. PICK l \in LineType : /\ op[i].todo = <<Put(l), Bury({op[i].from})>>
                                  /\ l.id = op[i].to /\ l.ts = op[i].ts
        BY <3>4
      <4>2. Head(op[i].todo) = Put(l) /\ rest = <<Bury({op[i].from})>>
        BY <4>1 DEF rest
      <4>3. l \in V
        BY <4>2, PutAndBury
      <4> QED  BY <2>2, <3>2, <4>1, <4>2, <4>3 DEF EditKeeps
    <3> QED  BY <3>1, <3>3, <3>4 DEF EditKeeps
  <2>9. PendingIn(o) \subseteq Pool
    <3>1. PendingIn(o) \subseteq PendingOf(rest)
      BY <2>2 DEF PendingIn
    <3>2. PendingOf(rest) \subseteq PendingOf(op[i].todo)
      BY <2>1 DEF PendingOf
    <3> QED  BY <2>3, <3>1, <3>2
  <2> QED  BY <2>5, <2>6, <2>7, <2>8, <2>9 DEF Purposeful
<1> QED  BY <1>1, <1>2

\* The line that is appended was pending, and of a recall in the files already.
LEMMA AppendedLine ==
    ASSUME StoreInv, NEW i \in Instances, AppendLine(i)
    PROVE  LET l == Head(op[i].todo).line
           IN  /\ l \in LineType /\ l \in Pool
               /\ shards' \in Files /\ Held(shards') = Held(shards) \cup {l}
               /\ tombs' = tombs /\ clock' = clock /\ begun' = begun
               /\ op[i].name = "recall" => l \in Held(shards)
               /\ op[i].name \in Deeds => l.id = op[i].to
<1> DEFINE l == Head(op[i].todo).line
<1>1. /\ Writing(i) /\ Head(op[i].todo).kind = "line"
      /\ shards' = [shards EXCEPT ![i] = Append(@, l)]
      /\ tombs' = tombs /\ clock' = clock /\ begun' = begun
  BY DEF AppendLine
<1>2. /\ op[i].todo \in Seq(Appends) /\ op[i].todo # <<>>
      /\ Purposeful(op[i], Held(shards), tombs) /\ PendingOf(op[i].todo) \subseteq Pool
  BY <1>1, WritingType
<1>3. Head(op[i].todo) \in ToSet(op[i].todo) /\ Head(op[i].todo) \in Appends
  BY <1>2, HeadAndTail
<1>4. l \in LineType
  BY <1>1, <1>3, PutAndBury
<1>5. l \in Pool
  BY <1>1, <1>2, <1>3 DEF PendingOf
<1>6. shards' \in Files /\ Held(shards') = Held(shards) \cup {l}
  <2>1. shards \in Files
    BY StoreTypes
  <2> HIDE DEF l
  <2> QED  BY <1>1, <1>4, <2>1, HeldAfterAppend
<1>7. op[i].name = "recall" => l \in Held(shards)
  BY <1>2, <1>3 DEF Purposeful, RecallRepeats
<1>8. op[i].name \in Deeds => l.id = op[i].to
  BY <1>1, <1>2, <1>3 DEF Purposeful, WritesOfItsOwn
<1> QED  BY <1>1, <1>4, <1>5, <1>6, <1>7, <1>8

LEMMA AppendKeeps == ASSUME StoreInv, NEW i \in Instances, AppendLine(i) PROVE StoreInv'
<1>1. PICK o : o = Next1(i)
  OBVIOUS
<1>2. op' = [op EXCEPT ![i] = o] /\ Writing(i)
  BY <1>1 DEF AppendLine
<1>3. /\ shards' \in Files /\ Held(shards') = Held(shards) \cup {Head(op[i].todo).line}
      /\ Head(op[i].todo).line \in Pool
      /\ tombs' = tombs /\ clock' = clock /\ begun' = begun
  BY AppendedLine
<1>4. /\ clock \in Nat /\ tombs \in [Texts -> 0..clock] /\ begun \in 0..MaxOps
      /\ Held(shards) \subseteq Pool
  BY StoreTypes
<1>5. /\ \A t \in Texts : tombs'[t] = tombs[t] \/ (tombs'[t] \in Nat /\ tombs'[t] > clock)
      /\ clock' \in Nat /\ clock <= clock' /\ Held(shards) \subseteq Held(shards')
      /\ Head(op[i].todo).line \in Held(shards')
  BY <1>3, <1>4
<1>6. OpType(o, clock') /\ Purposeful(o, Held(shards'), tombs') /\ PendingIn(o) \subseteq Pool
  BY <1>1, <1>2, <1>5, RestKeeps
<1>7. PICK F : F = {}
  OBVIOUS
<1>9. /\ Held(shards') \cup PendingIn(o) \subseteq Pool \cup F
      /\ (\A l, m \in F : l = m) /\ \A l \in F : l.ts \in 1..clock' /\ l.ts > clock
  BY <1>3, <1>4, <1>6, <1>7
<1>8. begun' \in 0..MaxOps /\ tombs' \in [Texts -> 0..clock']
  BY <1>3, <1>4
<1> QED  BY <1>2, <1>3, <1>5, <1>6, <1>8, <1>9, StepKeeps

\* Tombstones of the time of now, of texts that the operation is about.
LEMMA AddedTombstones ==
    ASSUME StoreInv, NEW i \in Instances, AddTombstones(i)
    PROVE  LET ids == Head(op[i].todo).ids
           IN  /\ ids \in SUBSET Texts
               /\ shards' = shards /\ clock' = clock + 1 /\ begun' = begun
               /\ tombs' \in [Texts -> 0..clock']
               /\ \A t \in Texts : tombs'[t] = IF t \in ids THEN clock + 1 ELSE tombs[t]
               /\ op[i].name # "recall"
               /\ \A t \in ids : t = op[i].from \/ <<t, op[i].from>> \in Near
<1> DEFINE ids == Head(op[i].todo).ids
<1>1. /\ Writing(i) /\ Head(op[i].todo).kind = "tombstones"
      /\ tombs' = [t \in Texts |-> IF t \in ids THEN clock + 1 ELSE tombs[t]]
      /\ shards' = shards /\ clock' = clock + 1 /\ begun' = begun
  BY DEF AddTombstones
<1>2. /\ op[i].todo \in Seq(Appends) /\ op[i].todo # <<>>
      /\ op[i].name \in Deeds \cup {"recall"} /\ Purposeful(op[i], Held(shards), tombs)
  BY <1>1, WritingType
<1>3. Head(op[i].todo) \in ToSet(op[i].todo) /\ Head(op[i].todo) \in Appends
  BY <1>2, HeadAndTail
<1>4. ids \in SUBSET Texts
  BY <1>1, <1>3, PutAndBury
<1>5. op[i].name # "recall"
  BY <1>1, <1>2, <1>3 DEF Purposeful, RecallRepeats
<1>6. \A t \in ids : t = op[i].from \/ <<t, op[i].from>> \in Near
  BY <1>1, <1>2, <1>3, <1>5 DEF Purposeful, WritesOfItsOwn
<1>7. tombs' \in [Texts -> 0..clock'] /\ \A t \in Texts : tombs'[t] = IF t \in ids THEN clock + 1 ELSE tombs[t]
  <2>1. tombs \in [Texts -> 0..clock] /\ clock \in Nat
    BY StoreTypes
  <2> HIDE DEF ids
  <2> QED  BY <1>1, <2>1
<1> QED  BY <1>1, <1>4, <1>5, <1>6, <1>7

LEMMA TombstonesKeep == ASSUME StoreInv, NEW i \in Instances, AddTombstones(i) PROVE StoreInv'
<1>1. PICK o : o = Next1(i)
  OBVIOUS
<1>2. op' = [op EXCEPT ![i] = o] /\ Writing(i) /\ Head(op[i].todo).kind = "tombstones"
  BY <1>1 DEF AddTombstones
<1>3. /\ shards' = shards /\ clock' = clock + 1 /\ begun' = begun
      /\ tombs' \in [Texts -> 0..clock']
      /\ \A t \in Texts : tombs'[t] = IF t \in Head(op[i].todo).ids THEN clock + 1 ELSE tombs[t]
  BY AddedTombstones
<1>4. /\ shards \in Files /\ clock \in Nat /\ tombs \in [Texts -> 0..clock] /\ begun \in 0..MaxOps
      /\ Held(shards) \subseteq Pool
  BY StoreTypes
<1>5. /\ \A t \in Texts : tombs'[t] = tombs[t] \/ (tombs'[t] \in Nat /\ tombs'[t] > clock)
      /\ clock' \in Nat /\ clock <= clock' /\ Held(shards) \subseteq Held(shards')
  BY <1>3, <1>4
<1>6. OpType(o, clock') /\ Purposeful(o, Held(shards'), tombs') /\ PendingIn(o) \subseteq Pool
  BY <1>1, <1>2, <1>5, RestKeeps
<1>7. PICK F : F = {}
  OBVIOUS
<1>9. /\ Held(shards') \cup PendingIn(o) \subseteq Pool \cup F
      /\ (\A l, m \in F : l = m) /\ \A l \in F : l.ts \in 1..clock' /\ l.ts > clock
  BY <1>3, <1>4, <1>6, <1>7
<1>8. begun' \in 0..MaxOps /\ shards' \in Files
  BY <1>3, <1>4
<1> QED  BY <1>2, <1>3, <1>5, <1>6, <1>8, <1>9, StepKeeps

LEMMA CrashKeeps == ASSUME StoreInv, NEW i \in Instances, Crash(i) PROVE StoreInv'
<1>1. /\ op' = [op EXCEPT ![i] = Idle]
      /\ shards' = shards /\ tombs' = tombs /\ clock' = clock /\ begun' = begun
  BY DEF Crash
<1>2. begun' \in 0..MaxOps
  BY <1>1, StoreTypes
<1> QED  BY <1>1, <1>2, QuietStep

LEMMA NextKeeps == StoreInv /\ [Next]_vars => StoreInv'
<1> SUFFICES ASSUME StoreInv, [Next]_vars PROVE StoreInv'
  OBVIOUS
<1>1. CASE UNCHANGED vars
  BY <1>1 DEF StoreInv, Types, Dated, Pool, vars
<1>2. CASE Next
  <2>1. PICK i \in Instances : Step(i)
    BY <1>2 DEF Next
  <2>2. CASE Begin(i)
    BY <2>2, BeginKeeps
  <2>3. CASE \E t \in Texts, s \in Sources, c \in Categories : Remember(i, t, s, c)
    BY <2>3, RememberKeeps
  <2>4. CASE \E top \in SUBSET Existing(i) : Recall(i, top)
    BY <2>4, RecallKeeps
  <2>5. CASE \E t \in Texts : Forget(i, t)
    BY <2>5, ForgetKeeps
  <2>6. CASE \E t, u \in Texts : Edit(i, t, u)
    BY <2>6, EditBegins
  <2>7. CASE \E t \in Texts : Pin(i, t)
    BY <2>7, PinKeeps
  <2>8. CASE AppendLine(i)
    BY <2>8, AppendKeeps
  <2>9. CASE AddTombstones(i)
    BY <2>9, TombstonesKeep
  <2>10. CASE Crash(i)
    BY <2>10, CrashKeeps
  <2> QED  BY <2>1, <2>2, <2>3, <2>4, <2>5, <2>6, <2>7, <2>8, <2>9, <2>10 DEF Step
<1> QED  BY <1>1, <1>2

LEMMA StoreInvariant == Spec => []StoreInv
<1> QED  BY InitStore, NextKeeps, PTL DEF Spec
-----------------------------------------------------------------------------
(* What is known *)

\* The lines keep their types and dates, and a line with the text and the date
\* of another is a copy of it: recall's copies change neither.
THEOREM DatesHold == Spec => []TypeOK
<1>1. StoreInv => TypeOK
  <2> SUFFICES ASSUME StoreInv PROVE TypeOK
    OBVIOUS
  <2>1. /\ shards \in Files /\ clock \in Nat /\ tombs \in [Texts -> 0..clock]
        /\ begun \in 0..MaxOps /\ DOMAIN op = Instances
        /\ Held(shards) \subseteq LineType /\ Held(shards) \subseteq Pool
    BY StoreTypes
  <2>2. Dates(Pool) /\ \A l \in Pool : l.ts \in 1..clock
    BY DEF StoreInv, Dated
  <2> HIDE DEF Pool
  <2>3. ToSet(Lines(shards)) = Held(shards)
    BY <2>1, LinesUnion DEF Files, Held
  <2>4. \A i \in Instances : \A k \in DOMAIN shards[i] : shards[i][k] \in Held(shards)
    BY DEF Held, ToSet
  <2>5. DOMAIN shards = Instances
    BY <2>1 DEF Files
  <2>6. \A l \in Held(shards) : l.id \in Texts /\ l.ts \in 1..clock
    BY <2>1, <2>2 DEF LineType
  <2> QED  BY <2>1, <2>2, <2>3, <2>4, <2>5, <2>6 DEF TypeOK, Dates
<1> QED  BY <1>1, StoreInvariant, PTL

\* Whatever collapsing leaves out, a fact tied to it is shown, and a pinned one
\* for a pinned one.
LEMMA LeftOutStoodFor ==
    ASSUME StoreInv
    PROVE  StandIns
<1> SUFFICES ASSUME NEW e \in Facts(shards, tombs)
             PROVE  \E v \in Visible \cap Tied(e.id, shards, tombs) : e.pinned => v.pinned
  BY DEF StandIns
<1>1. shards \in Files
  BY StoreTypes
<1>2. /\ Visible \subseteq Facts(shards, tombs)
      /\ TiedTo(Visible, Facts(shards, tombs), Ids(Facts(shards, tombs)))
  BY <1>1, ReadStands DEF Visible
<1>3. PICK v \in Visible : v.id \in Chain(e.id, Ids(Facts(shards, tombs))) /\ Beats(v, e)
  BY <1>2 DEF TiedTo
<1>4. e \in LineType /\ v \in LineType
  BY <1>1, <1>2, LiveLists
<1>5. e.pinned => v.pinned
  BY <1>3, <1>4, BeatsOrders
<1> QED  BY <1>2, <1>3, <1>5 DEF Tied

\* The files keep their types and dates, and nothing is left out of what is
\* read without a fact tied to it that is, a pinned one for a pinned one.
THEOREM MemoryHolds == Spec => []MemoryInv
<1>1. StoreInv => StandIns
  BY LeftOutStoodFor
<1> QED  BY <1>1, StoreInvariant, DatesHold, PTL DEF MemoryInv

\* A step sets one operation; only one that is writing touches the files.
LEMMA OneOperation ==
    ASSUME NEW i \in Instances, Step(i)
    PROVE  /\ \E o : op' = [op EXCEPT ![i] = o]
           /\ ~Writing(i) => shards' = shards /\ tombs' = tombs
           /\ Writing(i) => AppendLine(i) \/ AddTombstones(i) \/ Crash(i)
<1>1. CASE Begin(i)
  <2>1. ~Writing(i)
    BY <1>1 DEF Begin, Idle, Writing
  <2>2. op' = [op EXCEPT ![i] = [name |-> "reading", dead |-> tombs]]
    BY <1>1 DEF Begin
  <2> QED  BY <1>1, <2>1, <2>2 DEF Begin
<1>2. ASSUME Reading(i), NEW name, NEW from, NEW to, NEW todo, Decide(i, name, from, to, todo)
      PROVE  (\E o : op' = [op EXCEPT ![i] = o]) /\ ~Writing(i) /\ shards' = shards /\ tombs' = tombs
  BY <1>2 DEF Reading, Writing, Decide
<1>3. CASE \E t \in Texts, s \in Sources, c \in Categories : Remember(i, t, s, c)
  BY <1>2, <1>3 DEF Remember
<1>4. CASE \E top \in SUBSET Existing(i) : Recall(i, top)
  BY <1>2, <1>4 DEF Recall
<1>5. CASE \E t \in Texts : Forget(i, t)
  BY <1>2, <1>5 DEF Forget
<1>6. CASE \E t, u \in Texts : Edit(i, t, u)
  BY <1>2, <1>6 DEF Edit
<1>7. CASE \E t \in Texts : Pin(i, t)
  BY <1>2, <1>7 DEF Pin
<1>8. CASE AppendLine(i)
  BY <1>8 DEF AppendLine
<1>9. CASE AddTombstones(i)
  BY <1>9 DEF AddTombstones
<1>10. CASE Crash(i)
  BY <1>10 DEF Crash
<1> QED  BY <1>1, <1>3, <1>4, <1>5, <1>6, <1>7, <1>8, <1>9, <1>10 DEF Step

\* An operation that writes goes on by a write of its own or ends.
LEMMA WriterSteps ==
    ASSUME StoreInv, [Next]_vars, NEW i \in Instances, Writing(i), op'[i] # op[i]
    PROVE  AppendLine(i) \/ AddTombstones(i) \/ Crash(i)
<1>1. Next
  BY DEF vars
<1>2. PICK j \in Instances : Step(j)
  BY <1>1 DEF Next
<1>3. j = i
  <2>1. PICK o : op' = [op EXCEPT ![j] = o]
    BY <1>2, OneOperation
  <2> QED  BY <2>1, StoreTypes
<1> QED  BY <1>2, <1>3, OneOperation

LEMMA WriteMovesOn ==
    ASSUME StoreInv, NEW i \in Instances, Writing(i), op' = [op EXCEPT ![i] = Next1(i)]
    PROVE  op'[i] # op[i]
<1>1. op'[i] = Next1(i)
  BY StoreTypes
<1>2. op[i].todo \in Seq(Appends) /\ op[i].todo # <<>>
  BY WritingType
<1>3. Tail(op[i].todo) # op[i].todo
  BY <1>2, HeadAndTail
<1>4. Next1(i) = Idle => Next1(i) # op[i]
  BY DEF Writing, Idle
<1>5. Next1(i) # Idle => Next1(i).todo = Tail(op[i].todo)
  <2> SUFFICES ASSUME Next1(i) # Idle PROVE Next1(i).todo = Tail(op[i].todo)
    OBVIOUS
  <2>1. Next1(i) = [name |-> op[i].name, from |-> op[i].from, to |-> op[i].to,
                    ts |-> op[i].ts, todo |-> Tail(op[i].todo)]
    BY RestOfOperation
  <2> QED  BY <2>1
<1> QED  BY <1>1, <1>3, <1>4, <1>5

\* The facts before and after a step are the newest lines of the files.
LEMMA FactsBothTimes ==
    ASSUME StoreInv, [Next]_vars
    PROVE  /\ shards \in Files /\ Dates(Held(shards))
           /\ shards' \in Files /\ Dates(Held(shards'))
           /\ Facts(shards, tombs) = NewestOf(Held(shards), tombs)
           /\ Facts(shards', tombs') = NewestOf(Held(shards'), tombs')
<1>1. shards \in Files /\ Dates(Held(shards))
  BY StoreTypes DEF StoreInv, Dated, Dates
<1>2. StoreInv'
  BY NextKeeps
<1>3. shards' \in Files /\ Dates(Held(shards'))
  BY <1>2 DEF StoreInv, Types, Dated, Dates, Pool
<1> QED  BY <1>1, <1>3, FactsAreNewest

\* What is held, when a line is added and the tombstones stay.
LEMMA HeldAfterLine ==
    ASSUME StoreInv, NEW i \in Instances, AppendLine(i), NEW t
    PROVE  t \in Ids(Facts(shards, tombs)) => t \in Ids(Facts(shards', tombs'))
<1>1. PICK l : l = Head(op[i].todo).line
  OBVIOUS
<1>2. shards' \in Files /\ Held(shards') = Held(shards) \cup {l} /\ tombs' = tombs
  BY <1>1, AppendedLine
<1>3. shards \in Files
  BY StoreTypes
<1>4. t \in Ids(Facts(shards, tombs)) <=> \E m \in Shown(Held(shards), tombs) : m.id = t
  BY <1>3, HeldIsShown
<1>5. t \in Ids(Facts(shards', tombs')) <=> \E m \in Shown(Held(shards'), tombs') : m.id = t
  BY <1>2, HeldIsShown
<1> QED  BY <1>2, <1>4, <1>5 DEF Shown

LEMMA EditStep ==
    ASSUME StoreInv, [Next]_vars, NEW i \in Instances, NEW t \in Texts, NEW u \in Texts,
           op[i].name = "edit", op[i].from = t, op[i].to = u, op'[i] # op[i],
           t \in Ids(Facts(shards, tombs))
    PROVE  \/ t \in Ids(Facts(shards', tombs')) \/ u \in Ids(Facts(shards', tombs'))
           \/ tombs[u] > op[i].ts
<1>1. Writing(i)
  BY DEF Writing
<1>2. AppendLine(i) \/ AddTombstones(i) \/ Crash(i)
  BY <1>1, WriterSteps
<1>3. CASE AppendLine(i)
  BY <1>3, HeldAfterLine
<1>4. CASE Crash(i)
  BY <1>4 DEF Crash
<1>5. CASE AddTombstones(i)
  <2>1. EditKeeps(op[i], Held(shards), tombs)
    BY <1>1, WritingType DEF Purposeful
  <2>2. Head(op[i].todo).kind = "tombstones"
    BY <1>5 DEF AddTombstones
  <2>3. ~(\E l \in LineType : op[i].todo = <<Put(l), Bury({op[i].from})>>)
    <3> SUFFICES ASSUME NEW l \in LineType, op[i].todo = <<Put(l), Bury({op[i].from})>> PROVE FALSE
      OBVIOUS
    <3>1. Head(op[i].todo) = Put(l)
      OBVIOUS
    <3> QED  BY <2>2, <3>1, PutAndBury
  <2>4. op[i].todo = <<Bury({t})>> /\ \E l \in Held(shards) : l.id = u /\ l.ts = op[i].ts
    BY <2>1, <2>3 DEF EditKeeps
  <2>5. Head(op[i].todo).ids = {t}
    <3>1. Head(op[i].todo) = Bury({t})
      BY <2>4
    <3> QED  BY <3>1, PutAndBury
  <2>6. t # u /\ tombs[u] # op[i].ts
    BY <2>1 DEF EditKeeps
  <2>7. shards' = shards /\ tombs'[u] = tombs[u]
    BY <1>5, <2>5, <2>6, AddedTombstones
  <2>8. PICK l \in Held(shards) : l.id = u /\ l.ts = op[i].ts
    BY <2>4
  <2>9. CASE ~Hidden(l, tombs')
    <3>1. l \in Shown(Held(shards'), tombs') /\ shards' \in Files
      BY <2>7, <2>8, <2>9, StoreTypes DEF Shown
    <3> QED  BY <2>8, <3>1, HeldIsShown
  <2>10. CASE Hidden(l, tombs')
    <3>1. op[i].ts <= tombs[u]
      BY <2>7, <2>8, <2>10 DEF Hidden
    <3>2. op[i].ts \in Nat /\ tombs[u] \in Nat
      <4>1. op[i].ts \in 1..clock
        BY <1>1, WritingType
      <4>2. tombs \in [Texts -> 0..clock] /\ clock \in Nat
        BY StoreTypes
      <4> QED  BY <4>1, <4>2
    <3> QED  BY <2>6, <3>1, <3>2
  <2> QED  BY <2>9, <2>10
<1> QED  BY <1>2, <1>3, <1>4, <1>5

\* The newest line of a text, when a line is added or a tombstone set.
LEMMA FactAfterLine ==
    ASSUME NEW W \in SUBSET LineType, NEW l \in LineType, NEW dead, NEW t, l \in W \/ l.id # t
    PROVE  \A e : e.id = t => (e \in NewestOf(W \cup {l}, dead) <=> e \in NewestOf(W, dead))
<1>1. \A m : m.id = t => (m \in Shown(W \cup {l}, dead) <=> m \in Shown(W, dead))
  BY DEF Shown
<1> QED  BY <1>1 DEF NewestOf

LEMMA FactAfterTombstone ==
    ASSUME NEW W \in SUBSET LineType, NEW dead, NEW grave, NEW t, grave[t] = dead[t]
    PROVE  {e \in NewestOf(W, grave) : e.id = t} = {e \in NewestOf(W, dead) : e.id = t}
<1>1. \A m : m.id = t => (m \in Shown(W, grave) <=> m \in Shown(W, dead))
  BY DEF Shown, Hidden
<1> QED  BY <1>1 DEF NewestOf

LEMMA AddressedStep ==
    ASSUME StoreInv, [Next]_vars, NEW t \in Texts,
           FactOf(t, shards', tombs') # FactOf(t, shards, tombs)
    PROVE  \E i \in Instances :
              /\ op'[i] # op[i]
              /\ op[i].name \in {"remember", "forget", "edit", "pin"}
              /\ t \in {op[i].from, op[i].to} \/ <<t, op[i].from>> \in Near
<1>1. ~(shards' = shards /\ tombs' = tombs)
  BY DEF FactOf
<1>2. PICK i \in Instances : Step(i)
  BY <1>1 DEF Next, vars
<1>3. Writing(i)
  BY <1>1, <1>2, OneOperation
<1>4. AppendLine(i) \/ AddTombstones(i)
  BY <1>1, <1>2, <1>3, OneOperation DEF Crash
<1>5. op'[i] # op[i]
  BY <1>3, <1>4, WriteMovesOn DEF AppendLine, AddTombstones
<1>6. op[i].name \in Deeds \cup {"recall"}
  BY <1>3, WritingType
<1>7. /\ FactOf(t, shards, tombs) = {e \in NewestOf(Held(shards), tombs) : e.id = t}
      /\ FactOf(t, shards', tombs') = {e \in NewestOf(Held(shards'), tombs') : e.id = t}
  BY FactsBothTimes DEF FactOf
<1>8. shards \in Files /\ Held(shards) \subseteq LineType
  BY StoreTypes
<1>9. CASE AppendLine(i)
  <2>1. PICK l : l = Head(op[i].todo).line
    OBVIOUS
  <2>2. Held(shards') = Held(shards) \cup {l} /\ tombs' = tombs /\ l \in LineType
    BY <1>9, <2>1, AppendedLine
  <2>3. l \notin Held(shards) /\ l.id = t
    <3> SUFFICES ASSUME l \in Held(shards) \/ l.id # t PROVE FALSE
      OBVIOUS
    <3>1. \A e : e.id = t => (e \in NewestOf(Held(shards) \cup {l}, tombs)
                                <=> e \in NewestOf(Held(shards), tombs))
      <4>1. PICK W \in SUBSET LineType : W = Held(shards)
        BY <1>8
      <4>2. PICK dead : dead = tombs
        OBVIOUS
      <4>3. l \in W \/ l.id # t
        BY <4>1
      <4>4. \A e : e.id = t => (e \in NewestOf(W \cup {l}, dead) <=> e \in NewestOf(W, dead))
        BY <2>2, <4>3, FactAfterLine
      <4> QED  BY <4>1, <4>2, <4>4
    <3> QED  BY <1>7, <2>2, <3>1
  <2>4. op[i].name # "recall" /\ (op[i].name \in Deeds => l.id = op[i].to)
    BY <1>9, <2>1, <2>3, AppendedLine
  <2> QED  BY <1>5, <1>6, <2>3, <2>4 DEF Deeds
<1>10. CASE AddTombstones(i)
  <2>1. PICK ids : ids = Head(op[i].todo).ids
    OBVIOUS
  <2>2. /\ ids \in SUBSET Texts /\ shards' = shards
        /\ \A s \in Texts : tombs'[s] = IF s \in ids THEN clock + 1 ELSE tombs[s]
        /\ op[i].name # "recall"
        /\ \A s \in ids : s = op[i].from \/ <<s, op[i].from>> \in Near
    BY <1>10, <2>1, AddedTombstones
  <2>3. t \in ids
    <3> SUFFICES ASSUME t \notin ids PROVE FALSE
      OBVIOUS
    <3>1. tombs'[t] = tombs[t]
      BY <2>2
    <3> QED  BY <1>7, <1>8, <2>2, <3>1, FactAfterTombstone
  <2> QED  BY <1>5, <1>6, <2>2, <2>3 DEF Deeds
<1> QED  BY <1>4, <1>9, <1>10

LEMMA ShownStep ==
    ASSUME StoreInv, [Next]_vars, NEW t \in Texts, NEW tied, tied = Tied(t, shards, tombs),
           tied = Tied(t, shards', tombs'), Clear(tied)
    PROVE  tied \cap ReadLongTerm(shards', tombs') = tied \cap Visible
<1>1. /\ shards \in Files /\ Dates(Held(shards))
      /\ shards' \in Files /\ Dates(Held(shards'))
  BY FactsBothTimes
<1>2. ASSUME NEW files \in Files, NEW dead, Dates(Held(files)), tied = Tied(t, files, dead)
      PROVE  tied \cap ReadLongTerm(files, dead) = BestOf(tied)
  <2> DEFINE C == Chain(t, Ids(Facts(files, dead)))
  <2>1. Clump(C, Facts(files, dead)) /\ tied = {e \in Facts(files, dead) : e.id \in C}
    BY <1>2, ClearIsClump
  <2> HIDE DEF C
  <2>2. {e \in ReadLongTerm(files, dead) : e.id \in C} = BestOf(tied)
    BY <1>2, <2>1, BestIsRead
  <2>3. ReadLongTerm(files, dead) \subseteq Facts(files, dead)
    BY ReadStands
  <2> QED  BY <2>1, <2>2, <2>3
<1> QED  BY <1>1, <1>2 DEF Visible

\* While an edit is written, and after it or a crash in the middle, the fact is
\* kept under its old or its new text, unless another operation buried it.
THEOREM EditsLoseNothing == Spec => EditLosesNothing
<1>1. StoreInv /\ [Next]_vars =>
        [\A i \in Instances, t, u \in Texts :
             /\ op[i].name = "edit" /\ op[i].from = t /\ op[i].to = u
             /\ op'[i] # op[i]
             /\ t \in Ids(Facts(shards, tombs))
          => \/ t \in Ids(Facts(shards', tombs')) \/ u \in Ids(Facts(shards', tombs'))
             \/ tombs[u] > op[i].ts]_vars
  BY EditStep
<1> QED  BY <1>1, StoreInvariant, PTL DEF EditLosesNothing, Spec

\* What is held of a text changes only by a deliberate write about it, never by
\* a recall; and what is shown for it, while the facts tied to it stay the same
\* and are clearly duplicates, does not change at all.
THEOREM KnowledgeHolds == Spec => KnowledgeIsDeliberate
<1>1. StoreInv /\ [Next]_vars =>
        [\A t \in Texts : FactOf(t, shards', tombs') # FactOf(t, shards, tombs) =>
          \E i \in Instances :
              /\ op'[i] # op[i]
              /\ op[i].name \in {"remember", "forget", "edit", "pin"}
              /\ t \in {op[i].from, op[i].to} \/ <<t, op[i].from>> \in Near]_vars
  BY AddressedStep
<1>2. StoreInv /\ [Next]_vars =>
        [\A t \in Texts :
          LET tied == Tied(t, shards, tombs)
          IN  tied = Tied(t, shards', tombs') /\ Clear(tied) =>
                tied \cap ReadLongTerm(shards', tombs') = tied \cap Visible]_vars
  BY ShownStep
<1>3. Spec => OnlyTheAddressedChange
  BY <1>1, StoreInvariant, PTL DEF OnlyTheAddressedChange, Spec
<1>4. Spec => ShownFollowsFacts
  BY <1>2, StoreInvariant, PTL DEF ShownFollowsFacts, Spec
<1> QED  BY <1>3, <1>4 DEF KnowledgeIsDeliberate
=============================================================================
