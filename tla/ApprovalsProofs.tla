---------------------------- MODULE ApprovalsProofs ----------------------------
(***************************************************************************)
(* Proofs about the operator's approvals and what follows them: the queue  *)
(* of the approval lock, the rules, and the territory of an engagement,    *)
(* for any number of calls, engagements, names and changes of the world.   *)
(*                                                                         *)
(* The library's induction theorems take an operator as a parameter; the   *)
(* lemma Induction states the same of a set.  With it, Recursion gives the *)
(* value of a recursion over the items of a sequence, which the queue that *)
(* a cancellation leaves and the count of ports are.                       *)
(***************************************************************************)
EXTENDS Approvals, FiniteSetTheorems, SequenceTheorems, TLAPS

\* A set of naturals that has zero and every successor has all.
LEMMA Induction ==
    ASSUME NEW S \in SUBSET Nat, 0 \in S, \A n \in S : n + 1 \in S
    PROVE  S = Nat
<1> SUFFICES ASSUME Nat \ S # {} PROVE FALSE
  OBVIOUS
<1> DEFINE T == {0..n : n \in Nat \ S}
<1>1. T \subseteq FiniteSubsetsOf(Nat) /\ T # {}
  <2>1. ASSUME NEW n \in Nat \ S PROVE 0..n \in FiniteSubsetsOf(Nat)
    <3>1. 0..n \in SUBSET Nat /\ IsFiniteSet(0..n)
      BY FS_Interval
    <3> QED  BY <3>1, Zenon DEF FiniteSubsetsOf
  <2> QED  BY <2>1
<1>2. PICK X \in T : \A Y \in T : ~ <<Y, X>> \in StrictSubsetOrdering(Nat)
  <2>1. IsWellFoundedOn(StrictSubsetOrdering(Nat), FiniteSubsetsOf(Nat))
    BY FS_StrictSubsetOrderingWellFounded
  <2> HIDE DEF T
  <2> QED  BY <1>1, <2>1, WFMin
<1>3. PICK n \in Nat \ S : X = 0..n
  OBVIOUS
<1>4. n - 1 \in Nat \ S
  OBVIOUS
<1>5. 0..(n - 1) \in T /\ 0..(n - 1) \subseteq 0..n /\ 0..(n - 1) # 0..n /\ 0..n \subseteq Nat
  BY <1>4
<1> QED  BY <1>2, <1>3, <1>5 DEF StrictSubsetOrdering

Steps(L, V) == [1..L -> [V -> V]]
Recursive(f, L, V, base, step) ==
    f \in [0..L -> V] /\ \A n \in 0..L : f[n] = IF n = 0 THEN base ELSE step[n][f[n - 1]]

\* A recursion over the first naturals is well defined.
LEMMA Recursion ==
    ASSUME NEW L \in Nat, NEW V, NEW base \in V, NEW step \in Steps(L, V)
    PROVE  \E f : Recursive(f, L, V, base, step)
<1> DEFINE Fits(f, m) == \A n \in 0..m : f[n] = IF n = 0 THEN base ELSE step[n][f[n - 1]]
           S == {m \in Nat : m <= L => \E f \in [0..m -> V] : Fits(f, m)}
<1>1. 0 \in S
  <2> DEFINE f == [n \in 0..0 |-> base]
  <2>1. f \in [0..0 -> V] /\ Fits(f, 0)
    OBVIOUS
  <2> QED BY <2>1
<1>2. ASSUME NEW m \in S PROVE m + 1 \in S
  <2> SUFFICES ASSUME m + 1 <= L PROVE \E f \in [0..(m + 1) -> V] : Fits(f, m + 1)
    OBVIOUS
  <2>1. PICK f \in [0..m -> V] : Fits(f, m)
    OBVIOUS
  <2> DEFINE g == [n \in 0..(m + 1) |-> IF n = m + 1 THEN step[m + 1][f[m]] ELSE f[n]]
  <2>2. g \in [0..(m + 1) -> V]
    <3>1. m + 1 \in 1..L /\ f[m] \in V /\ step \in [1..L -> [V -> V]]
      BY DEF Steps
    <3>2. step[m + 1][f[m]] \in V
      BY <3>1
    <3> QED BY <3>2
  <2>3. ASSUME NEW n \in 0..(m + 1)
        PROVE  g[n] = IF n = 0 THEN base ELSE step[n][g[n - 1]]
    <3>1. CASE n = m + 1
      <4>1. g[n] = step[m + 1][f[m]] /\ n # 0 /\ n - 1 = m /\ g[m] = f[m]
        BY <3>1
      <4> QED BY <3>1, <4>1
    <3>2. CASE n # m + 1
      <4>1. g[n] = f[n] /\ f[n] = IF n = 0 THEN base ELSE step[n][f[n - 1]]
        BY <2>1, <3>2
      <4>2. n # 0 => g[n - 1] = f[n - 1]
        BY <3>2
      <4> QED BY <4>1, <4>2
    <3> QED BY <3>1, <3>2
  <2>4. Fits(g, m + 1)
    <3> HIDE DEF g
    <3> QED BY <2>3
  <2> HIDE DEF g, Fits
  <2> QED BY <2>2, <2>4
<1>3. S = Nat
  <2>1. S \in SUBSET Nat
    OBVIOUS
  <2> HIDE DEF S
  <2> QED  BY <1>1, <1>2, <2>1, Induction
<1>4. L \in S
  BY <1>3
<1> QED BY <1>4 DEF Recursive

\* One turn of the recursion that drops the calls that are gone from a queue.
Turn(rest, queue, gone, n) ==
    IF n = 0 THEN <<>>
    ELSE IF queue[n] \in gone THEN rest[n - 1] ELSE Append(rest[n - 1], queue[n])

\* Without(queue, gone) is the last of the turns over the queue.
LEMMA WithoutUnfolds ==
    ASSUME NEW T, NEW queue \in Seq(T), NEW gone
    PROVE  \E rest : /\ rest = [n \in 0..Len(queue) |-> Turn(rest, queue, gone, n)]
                     /\ Without(queue, gone) = rest[Len(queue)]
<1> DEFINE L == Len(queue)
           step == [n \in 1..L |-> [s \in Seq(T) |->
                       IF queue[n] \in gone THEN s ELSE Append(s, queue[n])]]
<1>1. L \in Nat /\ \A n \in 1..L : queue[n] \in T
  BY LenProperties
<1>2. step \in [1..L -> [Seq(T) -> Seq(T)]]
  BY <1>1, AppendProperties
<1>3. PICK f : Recursive(f, L, Seq(T), <<>>, step)
  <2>1. <<>> \in Seq(T) /\ step \in Steps(L, Seq(T))
    BY <1>2, EmptySeq DEF Steps
  <2> HIDE DEF step, L
  <2> QED BY <1>1, <2>1, Recursion
<1>4. \A n \in 0..L : f[n] = Turn(f, queue, gone, n)
  <2> SUFFICES ASSUME NEW n \in 0..L PROVE f[n] = Turn(f, queue, gone, n)
    OBVIOUS
  <2>1. CASE n = 0
    BY <1>3, <2>1 DEF Turn, Recursive
  <2>2. CASE n # 0
    <3>1. n \in 1..L /\ f[n - 1] \in Seq(T)
      BY <1>1, <1>3, <2>2 DEF Recursive
    <3>2. f[n] = step[n][f[n - 1]]
      BY <1>3, <2>2 DEF Recursive
    <3> QED BY <2>2, <3>1, <3>2 DEF Turn
  <2> QED BY <2>1, <2>2
<1>5. \E rest : rest = [n \in 0..L |-> Turn(rest, queue, gone, n)]
  BY <1>3, <1>4 DEF Recursive
<1> QED
  BY <1>5, Zenon DEF Without, Turn

Distinct(queue) == \A i, j \in 1..Len(queue) : queue[i] = queue[j] => i = j

\* A queue of distinct calls grows by one that is not in it.
LEMMA AppendDistinct ==
    ASSUME NEW T, NEW s \in Seq(T), NEW e \in T, Distinct(s), e \notin ToSet(s)
    PROVE  /\ Append(s, e) \in Seq(T)
           /\ Distinct(Append(s, e))
           /\ ToSet(Append(s, e)) = ToSet(s) \cup {e}
<1>1. /\ Append(s, e) \in Seq(T) /\ Len(Append(s, e)) = Len(s) + 1
      /\ \A i \in 1..Len(s) : Append(s, e)[i] = s[i]
      /\ Append(s, e)[Len(s) + 1] = e
      /\ DOMAIN Append(s, e) = 1..(Len(s) + 1) /\ DOMAIN s = 1..Len(s) /\ Len(s) \in Nat
  BY AppendProperties, LenProperties
<1>2. \A i \in 1..(Len(s) + 1) : i # Len(s) + 1 => i \in 1..Len(s)
  BY <1>1
<1>3. Distinct(Append(s, e))
  BY <1>1, <1>2 DEF Distinct, ToSet
<1>4. ToSet(Append(s, e)) = ToSet(s) \cup {e}
  BY <1>1, <1>2 DEF ToSet
<1> QED
  BY <1>1, <1>3, <1>4

\* Without keeps just the calls that are not gone, and none of them twice.
LEMMA WithoutKeeps ==
    ASSUME NEW T, NEW queue \in Seq(T), NEW gone, Distinct(queue)
    PROVE  /\ Without(queue, gone) \in Seq(T)
           /\ Distinct(Without(queue, gone))
           /\ ToSet(Without(queue, gone)) = ToSet(queue) \ gone
<1> DEFINE L == Len(queue)
<1>1. L \in Nat /\ DOMAIN queue = 1..L /\ \A i \in 1..L : queue[i] \in T
  BY LenProperties
<1>2. PICK rest : /\ rest = [n \in 0..L |-> Turn(rest, queue, gone, n)]
                  /\ Without(queue, gone) = rest[L]
  BY <1>1, WithoutUnfolds
<1>7. \A n \in 0..L : rest[n] = Turn(rest, queue, gone, n)
  <2> DEFINE body == [n \in 0..L |-> Turn(rest, queue, gone, n)]
  <2>1. \A n \in 0..L : body[n] = Turn(rest, queue, gone, n)
    OBVIOUS
  <2>2. rest = body
    BY <1>2
  <2> HIDE DEF body
  <2> QED BY <2>1, <2>2
<1> DEFINE Good(n) == /\ rest[n] \in Seq(T)
                      /\ Distinct(rest[n])
                      /\ ToSet(rest[n]) = {queue[i] : i \in 1..n} \ gone
           S == {n \in Nat : n <= L => Good(n)}
<1>3. 0 \in S
  <2>1. rest[0] = <<>>
    BY <1>1, <1>7 DEF Turn
  <2>2. Good(0)
    BY <2>1, EmptySeq DEF Distinct, ToSet
  <2> QED BY <2>2
<1>4. ASSUME NEW n \in S PROVE n + 1 \in S
  <2> SUFFICES ASSUME n + 1 <= L PROVE Good(n + 1)
    OBVIOUS
  <2>1. Good(n) /\ n \in Nat /\ n + 1 \in 1..L
    BY <1>1
  <2>2. rest[n + 1] = Turn(rest, queue, gone, n + 1)
    BY <1>1, <1>7, <2>1
  <2>3. {queue[i] : i \in 1..(n + 1)} = {queue[i] : i \in 1..n} \cup {queue[n + 1]}
    <3>1. 1..(n + 1) = 1..n \cup {n + 1}
      BY <2>1
    <3> QED BY <3>1
  <2>4. CASE queue[n + 1] \in gone
    <3>1. rest[n + 1] = rest[n]
      BY <2>1, <2>2, <2>4 DEF Turn
    <3> QED
      BY <2>1, <2>3, <2>4, <3>1
  <2>5. CASE queue[n + 1] \notin gone
    <3>1. rest[n + 1] = Append(rest[n], queue[n + 1])
      BY <2>1, <2>2, <2>5 DEF Turn
    <3>2. queue[n + 1] \in T /\ rest[n] \in Seq(T)
      BY <1>1, <2>1
    <3>3. queue[n + 1] \notin ToSet(rest[n])
      <4>1. \A i \in 1..n : queue[i] # queue[n + 1]
        BY <1>1, <2>1 DEF Distinct
      <4> QED BY <2>1, <4>1
    <3> DEFINE s == rest[n]
               e == queue[n + 1]
    <3>4. Distinct(s) /\ ToSet(s) = {queue[i] : i \in 1..n} \ gone
      BY <2>1
    <3> HIDE DEF s, e
    <3>5. Append(s, e) \in Seq(T) /\ Distinct(Append(s, e)) /\ ToSet(Append(s, e)) = ToSet(s) \cup {e}
      BY <3>2, <3>3, <3>4, AppendDistinct DEF s, e
    <3> QED
      BY <2>3, <2>5, <3>1, <3>4, <3>5 DEF s, e
  <2> QED BY <2>4, <2>5
<1>5. S = Nat
  <2>1. S \in SUBSET Nat
    OBVIOUS
  <2> HIDE DEF S
  <2> QED BY <1>3, <1>4, <2>1, Induction
<1>6. Good(L)
  <2>1. L \in S
    BY <1>1, <1>5
  <2> QED BY <1>1, <2>1
<1> QED
  BY <1>1, <1>2, <1>6 DEF ToSet
-----------------------------------------------------------------------------
(* Ports *)

\* One turn of the sum over a list of ranges.
CountTurn(count, ports, n) ==
    IF n = 0 THEN 0 ELSE count[n - 1] + (ports[n][2] - ports[n][1] + 1)

\* The count of a list of ranges is the last of its partial sums.
LEMMA CountUnfolds ==
    ASSUME NEW ports \in Seq(Nat \X Nat)
    PROVE  \E count : /\ \A n \in 0..Len(ports) :
                            count[n] \in Int /\ count[n] = CountTurn(count, ports, n)
                      /\ CountPorts(ports) = IF ports = <<>> THEN 1 ELSE count[Len(ports)]
<1> DEFINE L == Len(ports)
           step == [n \in 1..L |-> [k \in Int |-> k + (ports[n][2] - ports[n][1] + 1)]]
<1>1. L \in Nat /\ \A n \in 1..L : ports[n][1] \in Nat /\ ports[n][2] \in Nat
  <2>1. \A n \in 1..L : ports[n] \in Nat \X Nat
    BY ElementOfSeq
  <2> QED BY <2>1, LenProperties
<1>2. PICK f : Recursive(f, L, Int, 0, step)
  <2> DEFINE V == Int
             base == 0
  <2>1. base \in V /\ L \in Nat /\ step \in Steps(L, V)
    BY <1>1 DEF Steps
  <2> HIDE DEF step, L, V, base
  <2>2. \E f : Recursive(f, L, V, base, step)
    BY <2>1, Recursion
  <2> QED BY <2>2 DEF V, base
<1>3. \A n \in 0..L : f[n] \in Int /\ f[n] = CountTurn(f, ports, n)
  <2> SUFFICES ASSUME NEW n \in 0..L PROVE f[n] \in Int /\ f[n] = CountTurn(f, ports, n)
    OBVIOUS
  <2>1. CASE n = 0
    BY <1>2, <2>1 DEF CountTurn, Recursive
  <2>2. CASE n # 0
    <3>1. n \in 1..L /\ f[n - 1] \in Int /\ f[n] \in Int
      <4>1. n \in 1..L /\ n - 1 \in 0..L
        BY <1>1, <2>2
      <4>2. f \in [0..L -> Int]
        BY <1>2 DEF Recursive
      <4> HIDE DEF L
      <4> QED BY <4>1, <4>2
    <3>2. f[n] = step[n][f[n - 1]]
      BY <1>2, <2>2 DEF Recursive
    <3> QED BY <2>2, <3>1, <3>2 DEF CountTurn
  <2> QED BY <2>1, <2>2
<1>4. \E count : count = [n \in 0..L |-> CountTurn(count, ports, n)]
  BY <1>2, <1>3 DEF Recursive
<1>5. PICK count : /\ count = [n \in 0..L |-> CountTurn(count, ports, n)]
                   /\ CountPorts(ports) = IF ports = <<>> THEN 1 ELSE count[L]
  BY <1>4, Zenon DEF CountPorts, CountTurn
<1>6. \A n \in 0..L : count[n] = CountTurn(count, ports, n)
  <2> DEFINE body == [n \in 0..L |-> CountTurn(count, ports, n)]
  <2>1. \A n \in 0..L : body[n] = CountTurn(count, ports, n)
    OBVIOUS
  <2>2. count = body
    BY <1>5
  <2> HIDE DEF body
  <2> QED BY <2>1, <2>2
<1> DEFINE S == {n \in Nat : n <= L => count[n] \in Int}
<1>7. S = Nat
  <2>1. 0 \in S
    BY <1>1, <1>6 DEF CountTurn
  <2>2. ASSUME NEW n \in S PROVE n + 1 \in S
    <3> SUFFICES ASSUME n + 1 <= L PROVE count[n + 1] \in Int
      OBVIOUS
    <3>1. count[n + 1] = count[n] + (ports[n + 1][2] - ports[n + 1][1] + 1) /\ n + 1 \in 1..L
      BY <1>1, <1>6 DEF CountTurn
    <3> QED BY <1>1, <3>1
  <2>3. S \in SUBSET Nat
    OBVIOUS
  <2> HIDE DEF S
  <2> QED BY <2>1, <2>2, <2>3, Induction
<1>8. \A n \in 0..L : n \in S
  BY <1>1, <1>7
<1> QED BY <1>1, <1>5, <1>6, <1>8

\* No list of valid ranges names more distinct ports than the gate counts,
\* however the ranges overlap.
LEMMA ProbedAtMostCounted ==
    ASSUME NEW ports \in Seq(Nat \X Nat), ValidPorts(ports), ports # <<>>
    PROVE  /\ IsFiniteSet(Probed(ports))
           /\ Cardinality(Probed(ports)) \in Nat /\ CountPorts(ports) \in Nat
           /\ Cardinality(Probed(ports)) <= CountPorts(ports)
<1> DEFINE L == Len(ports)
           Range1(i) == ports[i][1] .. ports[i][2]
           Upto(n) == UNION {Range1(i) : i \in 1..n}
<1>1. /\ L \in Nat /\ DOMAIN ports = 1..L
      /\ \A n \in 1..L : ports[n][1] \in Nat /\ ports[n][2] \in Nat /\ ports[n][1] <= ports[n][2]
  <2>1. \A n \in 1..L : ports[n] \in Nat \X Nat
    BY ElementOfSeq
  <2> QED BY <2>1, LenProperties DEF ValidPorts
<1>2. PICK count : /\ \A n \in 0..L : count[n] \in Int /\ count[n] = CountTurn(count, ports, n)
                   /\ CountPorts(ports) = IF ports = <<>> THEN 1 ELSE count[L]
  BY CountUnfolds
<1> DEFINE Good(n) == /\ IsFiniteSet(Upto(n)) /\ Cardinality(Upto(n)) \in Nat
                      /\ count[n] \in Nat /\ Cardinality(Upto(n)) <= count[n]
           S == {n \in Nat : n <= L => Good(n)}
<1>3. Good(0)
  <2>1. Upto(0) = {}
    OBVIOUS
  <2>2. count[0] = 0
    BY <1>1, <1>2 DEF CountTurn
  <2>3. IsFiniteSet({}) /\ Cardinality({}) = 0
    BY FS_EmptySet
  <2>4. IsFiniteSet(Upto(0)) /\ Cardinality(Upto(0)) = 0
    BY <2>1, <2>3, Zenon
  <2> HIDE DEF Upto
  <2> QED BY <2>2, <2>4
<1>4. ASSUME NEW n \in Nat, n + 1 <= L, Good(n) PROVE Good(n + 1)
  <2> DEFINE lo == ports[n + 1][1]
             hi == ports[n + 1][2]
             old == Upto(n)
  <2>1. n \in 0..L /\ n + 1 \in 1..L /\ lo \in Nat /\ hi \in Nat /\ lo <= hi
    BY <1>1, <1>4
  <2>2. Upto(n + 1) = old \cup (lo..hi)
    <3>1. 1..(n + 1) = 1..n \cup {n + 1}
      OBVIOUS
    <3> QED BY <3>1
  <2>3. count[n + 1] = count[n] + (hi - lo + 1)
    BY <1>1, <1>2, <2>1 DEF CountTurn
  <2>4. IsFiniteSet(old) /\ Cardinality(old) \in Nat /\ count[n] \in Nat /\ Cardinality(old) <= count[n]
    BY <1>4
  <2> HIDE DEF lo, hi, old, Upto
  <2>5. IsFiniteSet(lo..hi) /\ Cardinality(lo..hi) = hi - lo + 1
    <3>1. lo \in Int /\ hi \in Int /\ ~(lo > hi)
      BY <2>1
    <3>2. IsFiniteSet(lo..hi) /\ Cardinality(lo..hi) = IF lo > hi THEN 0 ELSE hi - lo + 1
      BY <3>1, FS_Interval, Zenon
    <3> QED BY <3>1, <3>2
  <2>6. IsFiniteSet(old \cap (lo..hi)) /\ IsFiniteSet(old \cup (lo..hi))
    BY <2>4, <2>5, FS_Intersection, FS_Union
  <2>7. /\ Cardinality(old \cap (lo..hi)) \in Nat /\ Cardinality(old \cup (lo..hi)) \in Nat
        /\ Cardinality(old \cup (lo..hi)) =
               Cardinality(old) + Cardinality(lo..hi) - Cardinality(old \cap (lo..hi))
    BY <2>4, <2>5, <2>6, FS_CardinalityType, FS_Union
  <2> DEFINE all == Cardinality(old \cup (lo..hi))
             both == Cardinality(old \cap (lo..hi))
             before == Cardinality(old)
  <2>8. all = before + (hi - lo + 1) - both /\ both \in Nat /\ all \in Nat /\ before \in Nat
        /\ before <= count[n]
    BY <2>4, <2>5, <2>7
  <2>9. count[n + 1] \in Nat /\ all <= count[n + 1]
    <3> HIDE DEF all, both, before
    <3> QED BY <2>1, <2>3, <2>4, <2>8
  <2> QED BY <2>2, <2>6, <2>8, <2>9
<1>5. S = Nat
  <2>1. S \in SUBSET Nat /\ 0 \in S
    BY <1>3
  <2>2. \A n \in S : n + 1 \in S
    <3> HIDE DEF Good, L
    <3> QED BY <1>1, <1>4
  <2> HIDE DEF S
  <2> QED BY <2>1, <2>2, Induction
<1>6. Good(L)
  <2> HIDE DEF Good, L
  <2> QED BY <1>1, <1>5
<1>7. Probed(ports) = Upto(L)
  BY <1>1 DEF Probed
<1> QED BY <1>2, <1>6, <1>7
-----------------------------------------------------------------------------
(* The territory of an engagement *)

\* An address list the gate accepts for a host belongs to the engagement.
LEMMA UrlIsOwned ==
    ASSUME NEW e \in Engs, NEW url, NEW addresses, UrlInScope(e, url, addresses)
    PROVE  \A a \in addresses : OwnsConnection(e, <<url.host, a>>)
BY DEF UrlInScope, OwnsConnection

\* Every address behind the host of an accepted URL belongs to the engagement.
LEMMA CheckedUrlIsOwned ==
    ASSUME NEW e \in Engs, NEW url, url.host \in Addrs \cup Names, CheckUrl(e, url)
    PROVE  \A link \in Reach(url.host) : OwnsConnection(e, link)
<1>1. \A a \in Dns(url.host) : OwnsConnection(e, <<url.host, a>>)
  BY UrlIsOwned DEF CheckUrl
<1>2. url.host \notin Blocks
  BY ScopeAssumption DEF ScopeAssumption
<1> QED
  BY <1>1, <1>2 DEF Reach

\* Text that the gate accepts, and not for a path, names the target or an
\* address of its network.
LEMMA TextIsOwned ==
    ASSUME NEW e \in Engs, NEW ref \in Addrs \cup Names \cup Blocks,
           MatchesTarget(e, ref), ~MatchesPath(e, Append(Cwd, ref))
    PROVE  \A link \in Reach(ref) : OwnsConnection(e, link)
<1>1. \/ Target[e].kind = "net" /\ (ref = Target[e].block \/ ref \in BlockOf[Target[e].block])
      \/ Target[e].kind = "name" /\ ref = Target[e].name
  BY DEF MatchesTarget, MatchesPath
<1>2. CASE Target[e].kind = "net" /\ ref = Target[e].block
  <2>1. ref \in Blocks
    BY <1>2, ScopeAssumption DEF ScopeAssumption
  <2> QED
    BY <1>2, <2>1 DEF Reach, OwnsConnection
<1>3. CASE Target[e].kind = "net" /\ ref \in BlockOf[Target[e].block]
  <2>1. ref \in Addrs /\ ref \notin Blocks
    BY <1>3, ScopeAssumption DEF ScopeAssumption
  <2> QED
    BY <1>3, <2>1 DEF Reach, Dns, OwnsConnection
<1>4. CASE Target[e].kind = "name" /\ ref = Target[e].name
  BY <1>4 DEF Reach, OwnsConnection
<1> QED
  BY <1>1, <1>2, <1>3, <1>4

\* A path the gate accepts leads to a place of the engagement.
LEMMA PathIsOwned ==
    ASSUME NEW e \in Engs, NEW path,
           PathWithin(Scratch[e], path) \/ MatchesPath(e, path)
    PROVE  OwnsPlace(e, Resolve(path))
BY DEF PathWithin, MatchesPath, OwnsPlace

\* Where the hosts that a call names are owned, so are its connections to them.
LEMMA HostsSuffice ==
    ASSUME NEW e \in Engs, NEW r,
           \A ref \in Hosts(r) \ TakenForPaths(e, r) :
               \A link \in Reach(ref) : OwnsConnection(e, link),
           \A place \in CheckedPlaces(e, r) : OwnsPlace(e, place)
    PROVE  WithinTerritory(e, r)
<1>1. \A link \in Connections(r) : link \in Reach(link[1])
  BY DEF Connections, Reach
<1> QED
  BY <1>1 DEF WithinTerritory, Places

\* A command the gate accepts names only hosts of the engagement, but for text
\* taken for a path.
LEMMA ShellHostsAreOwned ==
    ASSUME NEW e \in Engs, NEW r, WellFormed(r),
           r.tool \in {"shell", "pane_spawn"}, CheckShell(e, r)
    PROVE  \A ref \in Hosts(r) \ TakenForPaths(e, r) :
               \A link \in Reach(ref) : OwnsConnection(e, link)
<1>1. Hosts(r) = {url.host : url \in r.urls} \cup r.addrs \cup r.blocks \cup NetworkHosts(r)
  BY DEF Hosts, HttpTools
<1>2. /\ r.addrs \subseteq Addrs /\ r.blocks \subseteq Blocks
      /\ r.urls \subseteq Url /\ r.operands \subseteq Addrs \cup Names
  BY DEF WellFormed
<1>3. ASSUME NEW url \in r.urls PROVE \A link \in Reach(url.host) : OwnsConnection(e, link)
  <2>1. CheckUrl(e, url)
    BY DEF CheckShell
  <2>2. url.host \in Addrs \cup Names
    BY <1>2, <2>1 DEF CheckUrl, Url
  <2> QED
    BY <2>1, <2>2, CheckedUrlIsOwned
<1>4. ASSUME NEW ref \in (r.addrs \cup r.blocks) \ TakenForPaths(e, r)
      PROVE  \A link \in Reach(ref) : OwnsConnection(e, link)
  <2>1. MatchesTarget(e, ref) /\ ~MatchesPath(e, Append(Cwd, ref))
    BY DEF CheckShell, TakenForPaths
  <2> QED
    BY <1>2, <2>1, TextIsOwned
<1>5. ASSUME NEW host \in NetworkHosts(r)
      PROVE  \A link \in Reach(host) : OwnsConnection(e, link)
  <2>1. CheckUrl(e, Plain(host)) /\ Plain(host).host = host
    BY DEF CheckShell, Plain
  <2>2. host \in Addrs \cup Names
    BY <1>2 DEF NetworkHosts
  <2> QED
    BY <2>1, <2>2, CheckedUrlIsOwned
<1> QED
  BY <1>1, <1>3, <1>4, <1>5

\* And it works in a directory, and on absolute paths, of the engagement.
LEMMA ShellPlacesAreOwned ==
    ASSUME NEW e \in Engs, NEW r, r.tool \in {"shell", "pane_spawn"}, CheckShell(e, r),
           r.tool = "pane_spawn" => \A arg \in r.workdir : CheckPath(e, WorkdirOf(arg))
    PROVE  \A place \in CheckedPlaces(e, r) : OwnsPlace(e, place)
<1>1. CheckedPlaces(e, r) = {Resolve(path) : path \in r.paths \cup Workdirs(e, r)}
  BY DEF CheckedPlaces, FileTools
<1>2. \A path \in r.paths : OwnsPlace(e, Resolve(path))
  BY PathIsOwned DEF CheckShell
<1>3. ASSUME NEW dir \in Workdirs(e, r) PROVE OwnsPlace(e, Resolve(dir))
  <2>1. CASE dir = Scratch[e] \/ (Target[e].kind = "path" /\ dir = Target[e].path)
    BY <2>1 DEF OwnsPlace
  <2>2. CASE r.tool = "pane_spawn" /\ dir \in {WorkdirOf(arg) : arg \in r.workdir}
    BY <2>2, PathIsOwned DEF CheckPath
  <2> QED
    BY <2>1, <2>2 DEF Workdirs
<1> QED
  BY <1>1, <1>2, <1>3

\* A scan the gate accepts names only hosts and blocks of the engagement, but
\* for text taken for a path.
LEMMA ScanHostsAreOwned ==
    ASSUME NEW e \in Engs, NEW r, WellFormed(r), r.tool = "scan", CheckScan(e, r)
    PROVE  \A ref \in Hosts(r) \ TakenForPaths(e, r) :
               \A link \in Reach(ref) : OwnsConnection(e, link)
<1>1. Hosts(r) = r.targets /\ r.targets \subseteq Addrs \cup Names \cup Blocks
  BY DEF Hosts, HttpTools, WellFormed
<1>2. ASSUME NEW ref \in (r.targets \ Blocks) \ TakenForPaths(e, r)
      PROVE  \A link \in Reach(ref) : OwnsConnection(e, link)
  <2>1. MatchesTarget(e, ref) /\ ~MatchesPath(e, Append(Cwd, ref))
    BY DEF CheckScan, TakenForPaths
  <2> QED
    BY <1>1, <2>1, TextIsOwned
<1>3. ASSUME NEW ref \in r.targets \cap Blocks
      PROVE  \A link \in Reach(ref) : OwnsConnection(e, link)
  BY DEF CheckScan, Reach, OwnsConnection
<1> QED
  BY <1>1, <1>2, <1>3

\* What the gate authorizes names only hosts of the engagement, but a pane,
\* whose command is checked by its handler.
LEMMA AuthorizedHostsAreOwned ==
    ASSUME NEW e \in Engs, NEW r, WellFormed(r), ArgsInScope(e, r), r.tool # "pane_spawn"
    PROVE  \A ref \in Hosts(r) \ TakenForPaths(e, r) :
               \A link \in Reach(ref) : OwnsConnection(e, link)
<1>1. CASE r.tool \in HttpTools
  <2>1. Hosts(r) = {r.url.host} /\ r.url \in Url
    BY <1>1 DEF Hosts, WellFormed, HttpTools
  <2>2. CheckUrl(e, r.url)
    BY <1>1 DEF ArgsInScope, HttpTools, LanTools, FileTools
  <2>3. r.url.host \in Addrs \cup Names
    BY <2>1, <2>2 DEF CheckUrl, Url
  <2> QED
    BY <2>1, <2>2, <2>3, CheckedUrlIsOwned
<1>2. CASE r.tool = "websocket"
  <2> DEFINE url == [r.url EXCEPT !.scheme = "http"]
  <2>1. Hosts(r) = {r.url.host} /\ r.url \in Url
    BY <1>2 DEF Hosts, WellFormed
  <2>2. CheckUrl(e, url)
    BY <1>2 DEF ArgsInScope, HttpTools, LanTools, FileTools
  <2>3. url.host = r.url.host
    BY <2>1 DEF Url
  <2>4. url.host \in Addrs \cup Names
    BY <2>1, <2>2, <2>3 DEF CheckUrl, Url
  <2> HIDE DEF url
  <2> QED
    BY <2>1, <2>2, <2>3, <2>4, CheckedUrlIsOwned
<1>3. CASE r.tool = "tcp_probe"
  <2>1. Hosts(r) = {r.host} /\ r.host \in Addrs \cup Names
    BY <1>3 DEF Hosts, HttpTools, WellFormed
  <2>2. CheckUrl(e, Plain(r.host)) /\ Plain(r.host).host = r.host
    BY <1>3 DEF ArgsInScope, HttpTools, LanTools, FileTools, Plain
  <2> QED
    BY <2>1, <2>2, CheckedUrlIsOwned
<1>4. CASE r.tool = "scan"
  <2>1. CheckScan(e, r)
    BY <1>4 DEF ArgsInScope, HttpTools, LanTools, FileTools
  <2> QED
    BY <1>4, <2>1, ScanHostsAreOwned
<1>5. CASE r.tool = "shell"
  <2>1. CheckShell(e, r)
    BY <1>5 DEF ArgsInScope, HttpTools, LanTools, FileTools
  <2> QED
    BY <1>5, <2>1, ShellHostsAreOwned
<1>6. CASE r.tool \notin HttpTools \cup {"websocket", "tcp_probe", "scan", "shell"}
  BY <1>6 DEF Hosts
<1> QED
  BY <1>1, <1>2, <1>3, <1>4, <1>5, <1>6

\* And it works on places of the engagement, except where nobody looks.
LEMMA AuthorizedPlacesAreOwned ==
    ASSUME NEW e \in Engs, NEW r, ArgsInScope(e, r), r.tool # "pane_spawn"
    PROVE  \A place \in CheckedPlaces(e, r) : OwnsPlace(e, place)
<1>1. CASE r.tool = "glob"
  <2>1. CheckPath(e, PathOf(e, r.path))
    BY <1>1 DEF ArgsInScope, HttpTools, LanTools, FileTools
  <2>2. \A path : CheckPath(e, path) => OwnsPlace(e, Resolve(path))
    BY PathIsOwned DEF CheckPath
  <2> QED
    BY <1>1, <2>1, <2>2 DEF CheckedPlaces
<1>2. CASE r.tool \in (FileTools \ {"glob"}) \cup {"read_source_code", "multipart_upload"}
  <2>1. CheckedPlaces(e, r) = {Resolve(PathOf(e, r.path))}
    BY <1>2 DEF CheckedPlaces, FileTools
  <2>2. PathWithin(Scratch[e], PathOf(e, r.path)) \/ MatchesPath(e, PathOf(e, r.path))
    BY <1>2 DEF ArgsInScope, HttpTools, LanTools, FileTools, CheckPath
  <2> QED
    BY <2>1, <2>2, PathIsOwned
<1>3. CASE r.tool = "http"
  <2>1. CheckedPlaces(e, r) = {Resolve(PathOf(e, arg)) : arg \in r.save}
    BY <1>3 DEF CheckedPlaces, FileTools
  <2>2. \A arg \in r.save : PathWithin(Scratch[e], PathOf(e, arg))
    BY <1>3 DEF ArgsInScope, HttpTools, LanTools, FileTools, CheckSaveAs
  <2> QED
    BY <2>1, <2>2, PathIsOwned
<1>4. CASE r.tool = "shell"
  <2>1. CheckShell(e, r)
    BY <1>4 DEF ArgsInScope, HttpTools, LanTools, FileTools
  <2> QED
    BY <1>4, <2>1, ShellPlacesAreOwned
<1>5. CASE r.tool \notin FileTools \cup {"read_source_code", "multipart_upload", "http", "shell"}
  BY <1>5 DEF CheckedPlaces, FileTools
<1> QED
  BY <1>1, <1>2, <1>3, <1>4, <1>5

\* Whatever the gate authorizes, but a pane, stays on the territory.
LEMMA AuthorizedIsWithin ==
    ASSUME NEW e \in Engs, NEW r, WellFormed(r), ArgsInScope(e, r), r.tool # "pane_spawn"
    PROVE  WithinTerritory(e, r)
BY AuthorizedHostsAreOwned, AuthorizedPlacesAreOwned, HostsSuffice

\* What a handler that does not resolve a name acts on at once.
LEMMA RecheckedIsWithin ==
    ASSUME NEW e \in Engs, NEW r, WellFormed(r), CallAuthorized(r, e)
    PROVE  WithinTerritory(e, r)
<1>1. CASE r.tool # "pane_spawn"
  BY <1>1, AuthorizedIsWithin DEF CallAuthorized, Authorized
<1>2. CASE r.tool = "pane_spawn"
  <2>1. CheckShell(e, r) /\ \A arg \in r.workdir : CheckPath(e, WorkdirOf(arg))
    BY <1>2 DEF CallAuthorized, Rechecked
  <2> QED
    BY <1>2, <2>1, ShellHostsAreOwned, ShellPlacesAreOwned, HostsSuffice
<1> QED BY <1>1, <1>2
-----------------------------------------------------------------------------
(* The inductive invariant *)

Deciding == {"idle", "asking", "dialog"}

\* What is known of the calls and of their handlers: a call that is under way
\* has its arguments; only certain tools resolve a name, and an address that was
\* checked belongs to the engagement; a call that acted, or was approved by a
\* rule, is past its decision.
CallTypes ==
    /\ pc \in [Calls -> PCs]
    /\ call \in [Calls -> Requests \cup {NoCall}]
    /\ eng \in [Calls -> Engs \cup {Nobody}]
    /\ address \in [Calls -> SUBSET Addrs]
    /\ auto \subseteq Calls
Given ==
    \A c \in Calls : pc[c] \notin {"idle"} \cup Final => call[c] \in Requests /\ eng[c] \in Engs
Checked ==
    /\ \A c \in Calls : pc[c] = "resolving" => call[c].tool \in Pinning
    /\ \A c \in Calls : pc[c] = "connecting" =>
           \A a \in address[c] : OwnsConnection(eng[c], <<HostOf(call[c]), a>>)
Acted ==
    /\ \A c \in auto : pc[c] \notin Deciding
    /\ contact.by \in Calls => pc[contact.by] \notin Deciding \cup {"resolving"}
Handlers == CallTypes /\ Given /\ Checked /\ Acted /\ RuleMeansOneHost

\* What is known of the operator's side: no call waits twice, just those that
\* are being decided on wait, and an open dialog belongs to the first.
Types ==
    /\ world \in Worlds
    /\ active \subseteq members /\ members \subseteq Engs
    /\ choice \in [Engs -> Selections]
    /\ prompt \in BOOLEAN
    /\ own \subseteq Calls /\ (own # {} => prompt)
    /\ lock \in Seq(Calls)
    /\ rules \subseteq Engs /\ granted \subseteq Engs /\ badge \subseteq Engs \X BOOLEAN
    /\ undrawn \in BOOLEAN /\ closing \in BOOLEAN
    /\ changes \in 0 .. MaxChanges
Queue ==
    /\ Distinct(lock)
    /\ \A c \in Calls : pc[c] \in {"asking", "dialog"} <=> c \in ToSet(lock)
    /\ \A c \in Calls : pc[c] = "dialog" => lock[1] = c
Decisions == Types /\ Queue /\ NoRedundantQuestion /\ RulesWereGranted /\ BadgeShowsRules

ApprovalsInv == Handlers /\ Decisions

\* The initial states satisfy the invariant.
LEMMA InitInv == Init => ApprovalsInv
<1> SUFFICES ASSUME Init PROVE ApprovalsInv
  OBVIOUS
<1> USE DEF Init, PCs
<1>1. CallTypes /\ Given /\ Checked
  BY DEF CallTypes, Given, Checked
<1>2. contact.by = Nobody /\ Nobody \notin Calls
  BY ApprovalsAssumption DEF ApprovalsAssumption
<1>3. Acted /\ RuleMeansOneHost
  BY <1>2 DEF Acted, RuleMeansOneHost
<1>4. Types
  <2>1. active \subseteq members /\ members \subseteq Engs
    BY ApprovalsAssumption DEF ApprovalsAssumption
  <2>2. choice \in [Engs -> Selections] /\ changes \in 0 .. MaxChanges
    BY ApprovalsAssumption DEF ApprovalsAssumption
  <2> QED
    BY <2>1, <2>2, EmptySeq DEF Types
<1>5. lock = <<>> /\ ToSet(lock) = {} /\ Len(lock) = 0
  BY DEF ToSet
<1>6. Queue
  BY <1>5 DEF Queue, Distinct
<1>7. NoRedundantQuestion /\ RulesWereGranted /\ BadgeShowsRules
  BY DEF NoRedundantQuestion, RulesWereGranted, BadgeShowsRules, Shown, Open
<1> QED
  BY <1>1, <1>3, <1>4, <1>6, <1>7 DEF ApprovalsInv, Handlers, Decisions
-----------------------------------------------------------------------------
(* Handlers keep the invariant *)

\* A call that moves on takes its arguments along, or is over; no other moves.
LEMMA EntersMoves ==
    ASSUME CallTypes, Given, NEW c \in Calls, NEW r, NEW e, NEW where \in PCs \ {"idle"},
           where \notin Final => r \in Requests /\ e \in Engs,
           Enters(c, r, e, where)
    PROVE  /\ pc' \in [Calls -> PCs] /\ pc'[c] = where
           /\ call' \in [Calls -> Requests \cup {NoCall}]
           /\ eng' \in [Calls -> Engs \cup {Nobody}]
           /\ where \notin Final => call'[c] = r /\ eng'[c] = e
           /\ \A d \in Calls \ {c} : pc'[d] = pc[d] /\ call'[d] = call[d] /\ eng'[d] = eng[d]
           /\ Given'
<1>1. pc' \in [Calls -> PCs] /\ pc'[c] = where /\ \A d \in Calls \ {c} : pc'[d] = pc[d]
  BY DEF CallTypes, Enters
<1>2. /\ call' \in [Calls -> Requests \cup {NoCall}]
      /\ where \notin Final => call'[c] = r
      /\ \A d \in Calls \ {c} : call'[d] = call[d]
  BY DEF CallTypes, Enters
<1>3. /\ eng' \in [Calls -> Engs \cup {Nobody}]
      /\ where \notin Final => eng'[c] = e
      /\ \A d \in Calls \ {c} : eng'[d] = eng[d]
  BY DEF CallTypes, Enters
<1>4. Given'
  BY <1>1, <1>2, <1>3 DEF Given
<1> QED
  BY <1>1, <1>2, <1>3, <1>4

\* A command or a scan for an exact target contacts no second host, except one
\* that nobody takes for a host.
LEMMA ExactIsOneHost ==
    ASSUME NEW r, Exact(r), r.tool \in {"shell", "scan", "jwt_sign"}
    PROVE  Cardinality({link[1] : link \in Connections(r)} \ UnreadHosts(r)) <= 1
<1> DEFINE hosts == {link[1] : link \in Connections(r)} \ UnreadHosts(r)
<1>0. hosts \subseteq Hosts(r)
  BY DEF Connections, Reach
<1>1. CASE r.tool = "jwt_sign"
  <2>1. hosts = {}
    BY <1>0, <1>1 DEF Hosts, HttpTools
  <2> QED
    BY <2>1, FS_EmptySet
<1>2. CASE r.tool # "jwt_sign"
  <2>1. PICK host : Candidates(r) = {host}
    BY <1>2 DEF Exact
  <2>2. hosts \subseteq Candidates(r)
    <3>1. CASE r.tool = "scan"
      BY <1>0, <3>1 DEF Candidates, Hosts, HttpTools
    <3>2. CASE r.tool = "shell"
      <4>1. Hosts(r) \subseteq Candidates(r)
        BY <3>2 DEF Candidates, Hosts, NetworkHosts, HttpTools
      <4> QED
        BY <1>0, <4>1
    <3> HIDE DEF hosts
    <3> QED
      BY <1>2, <3>1, <3>2
  <2>3. hosts = {} \/ hosts = {host}
    BY <2>1, <2>2
  <2> HIDE DEF hosts
  <2>4. Cardinality({}) = 0 /\ Cardinality({host}) = 1
    BY FS_EmptySet, FS_Singleton
  <2>5. Cardinality(hosts) = 0 \/ Cardinality(hosts) = 1
    BY <2>3, <2>4, Zenon
  <2> QED
    BY <2>5 DEF hosts
<1> QED
  BY <1>1, <1>2

\* The handler of a call that was just admitted, by whatever way.
LEMMA BeginKeeps ==
    ASSUME Handlers, NEW c \in Calls, NEW r \in Requests, NEW e \in Engs,
           Begin(c, r, e), pc[c] \in Deciding,
           auto' = auto \/ (auto' = auto \cup {c} /\ Exact(r))
    PROVE  /\ Handlers'
           /\ pc'[c] \in {"failed", "resolving", "done"}
           /\ pc'[c] = "resolving" => r.tool \in Pinning /\ call'[c] = r /\ eng'[c] = e
           /\ \A d \in Calls \ {c} : pc'[d] = pc[d] /\ call'[d] = call[d] /\ eng'[d] = eng[d]
<1>1. PICK where \in {"failed", "resolving", "done"} :
        /\ Enters(c, r, e, where)
        /\ where = "resolving" => r.tool \in Pinning
        /\ where = "done" => r.tool \notin Pinning /\ Acts(c, r, e, Connections(r), Places(e, r))
        /\ where # "done" => contact' = contact
  BY DEF Begin
<1>2. where \in PCs \ {"idle"} /\ address' = address
  BY DEF PCs, Final, Begin
<1>3. CallTypes /\ Given
  BY DEF Handlers
<1>4. /\ pc' \in [Calls -> PCs] /\ pc'[c] = where
      /\ call' \in [Calls -> Requests \cup {NoCall}] /\ eng' \in [Calls -> Engs \cup {Nobody}]
      /\ where \notin Final => call'[c] = r /\ eng'[c] = e
      /\ \A d \in Calls \ {c} : pc'[d] = pc[d] /\ call'[d] = call[d] /\ eng'[d] = eng[d]
      /\ Given'
  BY <1>1, <1>2, <1>3, EntersMoves
<1>5. CallTypes'
  BY <1>2, <1>3, <1>4 DEF CallTypes
<1>6. Checked'
  <2>1. \A d \in Calls : pc'[d] = "resolving" => call'[d].tool \in Pinning
    BY <1>1, <1>4 DEF Handlers, Checked, Final
  <2>2. \A d \in Calls : pc'[d] = "connecting" =>
            \A a \in address'[d] : OwnsConnection(eng'[d], <<HostOf(call'[d]), a>>)
    BY <1>2, <1>4 DEF Handlers, Checked
  <2> QED
    BY <2>1, <2>2 DEF Checked, OwnsConnection, HostOf
<1>7. Acted'
  <2>1. \A d \in auto' : pc'[d] \notin Deciding
    BY <1>1, <1>3, <1>4 DEF Handlers, Acted, Deciding, CallTypes
  <2>2. contact'.by \in Calls => pc'[contact'.by] \notin Deciding \cup {"resolving"}
    <3>1. CASE where = "done"
      BY <1>1, <1>4, <3>1 DEF Acts, Deciding
    <3>2. CASE contact' = contact
      BY <1>4, <3>2 DEF Handlers, Acted
    <3> QED
      BY <1>1, <3>1, <3>2
  <2> QED
    BY <2>1, <2>2 DEF Acted
<1>8. RuleMeansOneHost'
  <2>1. CASE contact' = contact
    <3>1. contact.by # c /\ auto \subseteq Calls
      BY DEF Handlers, Acted, CallTypes
    <3> QED
      BY <2>1, <3>1 DEF Handlers, RuleMeansOneHost, UnreadHosts
  <2>2. CASE where = "done"
    <3>1. /\ contact'.by = c /\ contact'.call = r /\ contact'.connections = Connections(r)
          /\ r.tool \notin Pinning
      BY <1>1, <2>2 DEF Acts
    <3>2. c \notin auto
      BY DEF Handlers, Acted
    <3>3. ASSUME c \in auto' PROVE Exact(r) /\ r.tool \in {"shell", "scan", "jwt_sign"}
      BY <3>1, <3>2, <3>3 DEF Exact, TargetAutoApprove, Pinning
    <3> QED
      BY <3>1, <3>3, ExactIsOneHost DEF RuleMeansOneHost, UnreadHosts
  <2> QED
    BY <1>1, <2>1, <2>2
<1> QED
  BY <1>1, <1>4, <1>5, <1>6, <1>7, <1>8 DEF Handlers, Final

\* A call that moves where nobody acts: it is turned down, asks, or ends.
LEMMA QuietKeeps ==
    ASSUME Handlers, NEW c \in Calls, NEW r, NEW e,
           NEW where \in {"asking", "dialog"} \cup Final,
           where \notin Final => r \in Requests /\ e \in Engs /\ pc[c] \in Deciding,
           Enters(c, r, e, where),
           address' = address \/ address' = [address EXCEPT ![c] = {}],
           UNCHANGED <<auto, contact>>
    PROVE  /\ Handlers'
           /\ pc'[c] = where
           /\ where \notin Final => call'[c] = r /\ eng'[c] = e
           /\ \A d \in Calls \ {c} : pc'[d] = pc[d] /\ call'[d] = call[d] /\ eng'[d] = eng[d]
<1>1. where \in PCs \ {"idle"} /\ where \notin {"connecting", "resolving"}
  BY DEF PCs, Final
<1>2. CallTypes /\ Given
  BY DEF Handlers
<1>3. /\ pc' \in [Calls -> PCs] /\ pc'[c] = where
      /\ call' \in [Calls -> Requests \cup {NoCall}] /\ eng' \in [Calls -> Engs \cup {Nobody}]
      /\ where \notin Final => call'[c] = r /\ eng'[c] = e
      /\ \A d \in Calls \ {c} : pc'[d] = pc[d] /\ call'[d] = call[d] /\ eng'[d] = eng[d]
      /\ Given'
  BY <1>1, <1>2, EntersMoves
<1>4. address' \in [Calls -> SUBSET Addrs] /\ \A d \in Calls \ {c} : address'[d] = address[d]
  BY <1>2 DEF CallTypes
<1>5. CallTypes'
  BY <1>2, <1>3, <1>4 DEF CallTypes
<1>6. Checked'
  BY <1>1, <1>3, <1>4 DEF Handlers, Checked
<1>7. Acted'
  <2>1. where \in Final => where \notin Deciding \cup {"resolving"}
    BY DEF Final, Deciding
  <2>2. ASSUME pc[c] \in Deciding PROVE c \notin auto /\ contact.by # c
    BY <2>2 DEF Handlers, Acted
  <2>3. auto \subseteq Calls /\ auto' = auto /\ contact' = contact
    BY <1>2 DEF CallTypes
  <2>4. \A d \in auto : pc'[d] \notin Deciding
    BY <1>3, <2>1, <2>2, <2>3 DEF Handlers, Acted
  <2>5. contact.by \in Calls => pc'[contact.by] \notin Deciding \cup {"resolving"}
    BY <1>3, <2>1, <2>2 DEF Handlers, Acted
  <2> QED
    BY <2>3, <2>4, <2>5 DEF Acted
<1>8. RuleMeansOneHost'
  BY DEF Handlers, RuleMeansOneHost, UnreadHosts
<1> QED
  BY <1>3, <1>5, <1>6, <1>7, <1>8 DEF Handlers

\* The host a handler has the gate check is the host of the call.
LEMMA CheckedHost ==
    ASSUME NEW r \in Requests, r.tool \in Pinning
    PROVE  CheckedUrl(r).host = HostOf(r)
<1>1. CASE r.tool = "tcp_probe"
  BY <1>1 DEF CheckedUrl, HostOf, Plain
<1>2. CASE r.tool # "tcp_probe"
  <2>1. r.url \in Url
    BY <1>2, ApprovalsAssumption DEF ApprovalsAssumption, WellFormed, Pinning
  <2> QED
    BY <1>2, <2>1 DEF CheckedUrl, HostOf, Url
<1> QED
  BY <1>1, <1>2

\* Every address of a host that the gate accepts is an address.
LEMMA ResolvedAreAddresses ==
    ASSUME world \in Worlds, NEW e \in Engs, NEW url,
           UrlInScope(e, url, Dns(url.host))
    PROVE  Dns(url.host) \subseteq Addrs
<1>1. CASE Target[e].kind = "net"
  BY <1>1, ScopeAssumption DEF ScopeAssumption, UrlInScope
<1>2. CASE Target[e].kind = "name"
  <2>1. url.host \in Names /\ world.dns \in [Names -> SUBSET Addrs]
    BY <1>2, ScopeAssumption DEF ScopeAssumption, UrlInScope
  <2> QED
    BY <2>1 DEF Dns
<1> QED
  BY <1>1, <1>2 DEF UrlInScope

\* The step of a handler whose name was resolved.
LEMMA ResolvedKeeps ==
    ASSUME Handlers, world \in Worlds, NEW c \in Calls, Resolved(c)
    PROVE  /\ Handlers'
           /\ pc'[c] \in {"connecting", "failed"}
           /\ \A d \in Calls \ {c} : pc'[d] = pc[d] /\ call'[d] = call[d] /\ eng'[d] = eng[d]
<1> DEFINE r == call[c]
           e == eng[c]
           found == Dns(HostOf(r))
<1>1. pc[c] = "resolving" /\ r \in Requests /\ e \in Engs /\ r.tool \in Pinning
  BY DEF Resolved, Handlers, Given, Checked, Final
<1>2. CheckedUrl(r).host = HostOf(r)
  BY <1>1, CheckedHost
<1>3. CASE UrlInScope(e, CheckedUrl(r), found)
  <2>1. PICK a \in found : address' = [address EXCEPT ![c] = {a}]
    BY <1>3 DEF Resolved
  <2>2. /\ Enters(c, r, e, "connecting") /\ UNCHANGED auto
        /\ contact' = contact \/ (contact'.by = c /\ contact'.connections = {})
    BY <1>3 DEF Resolved, Acts, approvalVars
  <2>3. found \subseteq Addrs /\ \A b \in found : OwnsConnection(e, <<HostOf(r), b>>)
    <3> HIDE DEF r, e
    <3> QED
      BY <1>1, <1>2, <1>3, ResolvedAreAddresses, UrlIsOwned
  <2>4. CallTypes /\ Given
    BY DEF Handlers
  <2>5. "connecting" \in PCs \ {"idle"}
    BY DEF PCs
  <2>6. /\ pc' \in [Calls -> PCs] /\ pc'[c] = "connecting"
        /\ call' \in [Calls -> Requests \cup {NoCall}] /\ eng' \in [Calls -> Engs \cup {Nobody}]
        /\ call'[c] = r /\ eng'[c] = e
        /\ \A d \in Calls \ {c} : pc'[d] = pc[d] /\ call'[d] = call[d] /\ eng'[d] = eng[d]
        /\ Given'
    <3> HIDE DEF r, e
    <3> QED
      BY <1>1, <2>2, <2>4, <2>5, EntersMoves DEF Final
  <2>7. /\ address' \in [Calls -> SUBSET Addrs] /\ address'[c] = {a}
        /\ \A d \in Calls \ {c} : address'[d] = address[d]
    BY <2>1, <2>3, <2>4 DEF CallTypes
  <2> HIDE DEF r, e, found
  <2>8. CallTypes'
    BY <2>2, <2>4, <2>6, <2>7 DEF CallTypes
  <2>9. Checked'
    <3>1. \A d \in Calls : pc'[d] = "resolving" => call'[d].tool \in Pinning
      BY <2>6 DEF Handlers, Checked
    <3>2. ASSUME NEW d \in Calls, pc'[d] = "connecting", NEW b \in address'[d]
          PROVE  OwnsConnection(eng'[d], <<HostOf(call'[d]), b>>)
      <4>1. CASE d = c
        BY <2>1, <2>3, <2>6, <2>7, <3>2, <4>1
      <4>2. CASE d # c
        BY <2>6, <2>7, <3>2, <4>2 DEF Handlers, Checked
      <4> QED
        BY <4>1, <4>2
    <3>3. \A d \in Calls : pc'[d] = "connecting" =>
              \A b \in address'[d] : OwnsConnection(eng'[d], <<HostOf(call'[d]), b>>)
      BY <3>2
    <3> QED
      BY <3>1, <3>3 DEF Checked, OwnsConnection, HostOf
  <2>10. Acted'
    <3>1. \A d \in auto' : pc'[d] \notin Deciding
      BY <2>2, <2>6, <2>4 DEF Handlers, Acted, CallTypes, Deciding
    <3>2. contact'.by \in Calls => pc'[contact'.by] \notin Deciding \cup {"resolving"}
      BY <2>2, <2>6 DEF Handlers, Acted, Deciding
    <3> QED
      BY <3>1, <3>2 DEF Acted
  <2>11. RuleMeansOneHost'
    <3>1. CASE contact' = contact
      BY <2>2, <3>1 DEF Handlers, RuleMeansOneHost, UnreadHosts
    <3>2. CASE contact'.connections = {}
      <4> DEFINE hosts == {link[1] : link \in contact'.connections} \ UnreadHosts(contact.call)'
      <4>1. hosts = {}
        BY <3>2
      <4>2. Cardinality(hosts) = 0
        <5> HIDE DEF hosts
        <5> QED
          BY <4>1, FS_EmptySet
      <4> QED
        BY <4>2 DEF RuleMeansOneHost
    <3> QED
      BY <2>2, <3>1, <3>2
  <2> QED
    BY <2>6, <2>8, <2>9, <2>10, <2>11 DEF Handlers
<1>4. CASE ~UrlInScope(e, CheckedUrl(r), found)
  <2>1. Enters(c, NoCall, e, "failed") /\ UNCHANGED <<address, auto, contact>>
    BY <1>4 DEF Resolved, handlerVars, approvalVars
  <2>2. "failed" \in Final
    BY DEF Final
  <2> QED
    BY <2>1, <2>2, QuietKeeps
<1> QED
  BY <1>3, <1>4

\* The step of a handler that connects to the address it checked.
LEMMA ConnectKeeps ==
    ASSUME Handlers, NEW c \in Calls, Connect(c)
    PROVE  /\ Handlers'
           /\ pc'[c] = "done"
           /\ \A d \in Calls \ {c} : pc'[d] = pc[d] /\ call'[d] = call[d] /\ eng'[d] = eng[d]
<1> DEFINE host == HostOf(call[c])
<1>1. /\ Enters(c, NoCall, eng[c], "done")
      /\ address' = [address EXCEPT ![c] = {}] /\ auto' = auto
      /\ contact'.by = c /\ contact'.connections = {<<host, a>> : a \in address[c]}
  BY DEF Connect, Acts, approvalVars
<1>2. CallTypes /\ Given
  BY DEF Handlers
<1>3. "done" \in PCs \ {"idle"} /\ "done" \in Final
  BY DEF PCs, Final
<1>4. /\ pc' \in [Calls -> PCs] /\ pc'[c] = "done"
      /\ call' \in [Calls -> Requests \cup {NoCall}] /\ eng' \in [Calls -> Engs \cup {Nobody}]
      /\ \A d \in Calls \ {c} : pc'[d] = pc[d] /\ call'[d] = call[d] /\ eng'[d] = eng[d]
      /\ Given'
  BY <1>1, <1>2, <1>3, EntersMoves
<1>5. address' \in [Calls -> SUBSET Addrs] /\ \A d \in Calls \ {c} : address'[d] = address[d]
  BY <1>1, <1>2 DEF CallTypes
<1>6. CallTypes'
  BY <1>1, <1>2, <1>4, <1>5 DEF CallTypes
<1>7. Checked'
  BY <1>4, <1>5 DEF Handlers, Checked
<1>8. Acted'
  BY <1>1, <1>2, <1>4 DEF Handlers, Acted, Deciding, CallTypes
<1>9. RuleMeansOneHost'
  <2> DEFINE hosts == {link[1] : link \in contact'.connections} \ UnreadHosts(contact.call)'
  <2> HIDE DEF host
  <2>1. hosts \subseteq {host}
    BY <1>1
  <2>2. hosts = {} \/ hosts = {host}
    BY <2>1
  <2>3. Cardinality({}) = 0 /\ Cardinality({host}) = 1
    BY FS_EmptySet, FS_Singleton
  <2>4. Cardinality(hosts) = 0 \/ Cardinality(hosts) = 1
    <3> HIDE DEF hosts
    <3> QED
      BY <2>2, <2>3, Zenon
  <2> QED
    BY <2>4 DEF RuleMeansOneHost
<1> QED
  BY <1>4, <1>6, <1>7, <1>8, <1>9 DEF Handlers

\* Where no call moves, nothing that is known of the calls changes.
LEMMA HandlersStay ==
    ASSUME Handlers, UNCHANGED <<pc, call, eng, address, auto, contact>>
    PROVE  Handlers'
BY DEF Handlers, CallTypes, Given, Checked, Acted, RuleMeansOneHost, UnreadHosts,
       OwnsConnection, HostOf
-----------------------------------------------------------------------------
(* The queue in front of the dialog *)

\* A call that moves without the lock neither waits before nor after.
LEMMA QueueStays ==
    ASSUME CallTypes, Queue, NEW c \in Calls, pc[c] \notin {"asking", "dialog"},
           pc'[c] \notin {"asking", "dialog"}, \A d \in Calls \ {c} : pc'[d] = pc[d],
           lock' = lock
    PROVE  Queue'
BY DEF Queue, Distinct, ToSet

\* A call that asks waits last, and first if nobody else waits.
LEMMA QueueGrows ==
    ASSUME lock \in Seq(Calls), Queue, NEW c \in Calls, pc[c] = "idle",
           pc'[c] = (IF lock = <<>> THEN "dialog" ELSE "asking"),
           \A d \in Calls \ {c} : pc'[d] = pc[d], lock' = Append(lock, c)
    PROVE  Queue' /\ lock' \in Seq(Calls)
<1>1. c \notin ToSet(lock) /\ Distinct(lock)
  BY DEF Queue
<1>2. lock' \in Seq(Calls) /\ Distinct(lock') /\ ToSet(lock') = ToSet(lock) \cup {c}
  BY <1>1, AppendDistinct
<1>3. \A d \in Calls : pc'[d] \in {"asking", "dialog"} <=> d \in ToSet(lock')
  BY <1>2 DEF Queue
<1>4. ASSUME NEW d \in Calls, pc'[d] = "dialog" PROVE lock'[1] = d
  <2>1. CASE lock = <<>>
    <3>1. d \notin ToSet(lock)
      BY <2>1 DEF ToSet
    <3>2. d = c
      BY <1>2, <1>3, <1>4, <3>1
    <3> QED
      BY <2>1, <3>2
  <2>2. CASE lock # <<>>
    <3>1. d # c /\ lock[1] = d
      BY <1>4, <2>2 DEF Queue
    <3>2. Len(lock) \in Nat /\ Len(lock) # 0
      BY <2>2, LenProperties, EmptySeq
    <3> QED
      BY <3>1, <3>2, AppendProperties
  <2> QED
    BY <2>1, <2>2
<1> QED
  BY <1>2, <1>3, <1>4 DEF Queue

\* The first call leaves the queue: nobody holds a dialog, the others wait on.
LEMMA QueueShrinks ==
    ASSUME lock \in Seq(Calls), Queue, NEW c \in Calls,
           pc[c] \in {"asking", "dialog"}, lock[1] = c,
           pc'[c] \notin {"asking", "dialog"}, \A d \in Calls \ {c} : pc'[d] = pc[d],
           lock' = Tail(lock)
    PROVE  Queue' /\ lock' \in Seq(Calls)
<1>1. c \in ToSet(lock)
  BY DEF Queue
<1>2. lock # <<>> /\ Len(lock) \in Nat \ {0} /\ DOMAIN lock = 1..Len(lock)
  <2>1. lock # <<>> /\ DOMAIN lock = 1..Len(lock) /\ Len(lock) \in Nat
    BY <1>1, LenProperties DEF ToSet
  <2> QED
    BY <2>1, EmptySeq
<1>3. /\ lock' \in Seq(Calls) /\ Len(lock') = Len(lock) - 1
      /\ \A i \in 1..Len(lock') : lock'[i] = lock[i + 1]
      /\ DOMAIN lock' = 1..Len(lock')
  BY <1>2, HeadTailProperties, LenProperties
<1>4. Distinct(lock')
  BY <1>2, <1>3 DEF Queue, Distinct
<1>5. ToSet(lock') = ToSet(lock) \ {c}
  <2>1. ASSUME NEW i \in 1..Len(lock') PROVE lock'[i] \in ToSet(lock) \ {c}
    BY <1>2, <1>3 DEF Queue, Distinct, ToSet
  <2>2. ASSUME NEW i \in 1..Len(lock), lock[i] # c PROVE lock[i] \in ToSet(lock')
    <3>1. i - 1 \in 1..Len(lock')
      BY <1>2, <1>3, <2>2
    <3>2. lock'[i - 1] = lock[i]
      BY <1>3, <3>1
    <3> QED
      BY <1>3, <3>1, <3>2 DEF ToSet
  <2> QED
    BY <1>2, <1>3, <2>1, <2>2 DEF ToSet
<1>6. \A d \in Calls : pc'[d] \in {"asking", "dialog"} <=> d \in ToSet(lock')
  BY <1>5 DEF Queue
<1>7. \A d \in Calls : pc'[d] # "dialog"
  BY DEF Queue
<1> QED
  BY <1>3, <1>4, <1>6, <1>7 DEF Queue

\* A call that moves disturbs nothing of the operator's but the queue.
LEMMA DecisionsStay ==
    ASSUME Decisions, NEW c \in Calls,
           UNCHANGED <<scopeVars, prompt, ruleVars, changes>>,
           own' = own \/ (own' = own \cup {c} /\ prompt),
           Queue', lock' \in Seq(Calls),
           \A d \in Calls \ {c} : pc'[d] = pc[d] /\ call'[d] = call[d] /\ eng'[d] = eng[d],
           pc'[c] = "dialog" => ~ByRule(call'[c], eng'[c])
    PROVE  Decisions'
<1> USE DEF ruleVars
<1>1. Types'
  BY DEF Decisions, Types, scopeVars
<1>2. NoRedundantQuestion'
  <2>1. ASSUME NEW d \in Calls, pc'[d] = "dialog" PROVE ~ByRule(call'[d], eng'[d])
    BY <2>1 DEF Decisions, NoRedundantQuestion, Open
  <2> QED
    BY <2>1 DEF NoRedundantQuestion, Open, ByRule
<1>3. RulesWereGranted' /\ BadgeShowsRules'
  BY DEF Decisions, RulesWereGranted, BadgeShowsRules, Shown, scopeVars
<1> QED
  BY <1>1, <1>2, <1>3 DEF Decisions

\* What a call that waits, or has the dialog, is known by.
LEMMA Waiting ==
    ASSUME ApprovalsInv, NEW c \in Calls, pc[c] \in {"asking", "dialog"}
    PROVE  /\ call[c] \in Requests /\ eng[c] \in Engs /\ pc[c] \in Deciding
           /\ Handlers /\ Decisions /\ CallTypes /\ Queue /\ lock \in Seq(Calls)
           /\ pc[c] = "dialog" => lock[1] = c
BY DEF ApprovalsInv, Handlers, Decisions, Given, Queue, Types, Deciding, Final

\* A call under way, past its decision, ends or goes on.
LEMMA HandlerStepKeeps ==
    ASSUME ApprovalsInv, NEW c \in Calls, Resolved(c) \/ Connect(c) \/ ConnectFails(c)
    PROVE  ApprovalsInv'
<1>1. Handlers /\ Decisions /\ CallTypes /\ Queue /\ world \in Worlds /\ lock \in Seq(Calls)
  BY DEF ApprovalsInv, Handlers, Decisions, Types
<1>2. pc[c] \in {"resolving", "connecting"}
  BY DEF Resolved, Connect, ConnectFails
<1>3. /\ Handlers' /\ pc'[c] \in {"connecting", "failed", "done"}
      /\ \A d \in Calls \ {c} : pc'[d] = pc[d] /\ call'[d] = call[d] /\ eng'[d] = eng[d]
  <2>1. CASE Resolved(c)
    BY <1>1, <2>1, ResolvedKeeps
  <2>2. CASE Connect(c)
    BY <1>1, <2>2, ConnectKeeps
  <2>3. CASE ConnectFails(c)
    <3>1. /\ Enters(c, NoCall, eng[c], "failed") /\ UNCHANGED <<auto, contact>>
          /\ address' = [address EXCEPT ![c] = {}]
      BY <2>3 DEF ConnectFails, approvalVars
    <3>2. "failed" \in Final
      BY DEF Final
    <3> QED
      BY <1>1, <3>1, <3>2, QuietKeeps
  <2> QED
    BY <2>1, <2>2, <2>3
<1>4. UNCHANGED <<scopeVars, prompt, own, ruleVars, changes, lock>>
  BY DEF Resolved, Connect, ConnectFails, approvalVars
<1>5. Queue'
  BY <1>1, <1>2, <1>3, <1>4, QueueStays
<1>6. Decisions'
  BY <1>1, <1>3, <1>4, <1>5, DecisionsStay
<1> QED
  BY <1>3, <1>6 DEF ApprovalsInv

\* A call is handed to the gate, and may go straight to its handler.
LEMMA SubmitKeeps ==
    ASSUME ApprovalsInv, NEW c \in Calls, NEW r \in Requests, NEW e, Submit(c, r, e)
    PROVE  ApprovalsInv'
<1>1. /\ Handlers /\ Decisions /\ CallTypes /\ Queue /\ lock \in Seq(Calls)
      /\ members \subseteq Engs
  BY DEF ApprovalsInv, Handlers, Decisions, Types
<1>2. /\ pc[c] = "idle" /\ pc[c] \in Deciding /\ prompt /\ own' = own \cup {c}
      /\ UNCHANGED <<scopeVars, prompt, ruleVars, changes>>
  BY DEF Submit, Deciding
<1>3. CASE e \notin members \/ ~Authorized(e, r)
  <2>1. /\ Enters(c, NoCall, e, "refused") /\ "refused" \in Final
        /\ UNCHANGED <<address, contact, auto, lock>>
    BY <1>3 DEF Submit, handlerVars, Final
  <2>2. /\ Handlers' /\ pc'[c] = "refused"
        /\ \A d \in Calls \ {c} : pc'[d] = pc[d] /\ call'[d] = call[d] /\ eng'[d] = eng[d]
    BY <1>1, <2>1, QuietKeeps
  <2>3. Queue'
    BY <1>1, <1>2, <2>1, <2>2, QueueStays
  <2>4. Decisions'
    BY <1>1, <1>2, <2>1, <2>2, <2>3, DecisionsStay
  <2> QED
    BY <2>2, <2>4 DEF ApprovalsInv
<1>4. CASE e \in members /\ Begin(c, r, e) /\ lock' = lock
           /\ (auto' = auto \/ (auto' = auto \cup {c} /\ Exact(r)))
  <2>1. /\ Handlers' /\ pc'[c] \in {"failed", "resolving", "done"}
        /\ \A d \in Calls \ {c} : pc'[d] = pc[d] /\ call'[d] = call[d] /\ eng'[d] = eng[d]
    BY <1>1, <1>2, <1>4, BeginKeeps
  <2>2. Queue'
    BY <1>1, <1>2, <1>4, <2>1, QueueStays
  <2>3. Decisions'
    BY <1>1, <1>2, <1>4, <2>1, <2>2, DecisionsStay
  <2> QED
    BY <2>1, <2>3 DEF ApprovalsInv
<1>5. CASE /\ e \in members /\ ~ByRule(r, e) /\ lock' = Append(lock, c)
           /\ Enters(c, r, e, IF lock = <<>> THEN "dialog" ELSE "asking")
           /\ UNCHANGED <<address, contact, auto>>
  <2> DEFINE where == IF lock = <<>> THEN "dialog" ELSE "asking"
  <2>1. where \in {"asking", "dialog"} /\ where \notin Final /\ e \in Engs
    BY <1>1, <1>5 DEF Final
  <2>2. /\ Handlers' /\ pc'[c] = where /\ call'[c] = r /\ eng'[c] = e
        /\ \A d \in Calls \ {c} : pc'[d] = pc[d] /\ call'[d] = call[d] /\ eng'[d] = eng[d]
    <3>1. Enters(c, r, e, where)
      BY <1>5
    <3> HIDE DEF where
    <3> QED
      BY <1>1, <1>2, <1>5, <2>1, <3>1, QuietKeeps
  <2>3. Queue' /\ lock' \in Seq(Calls)
    BY <1>1, <1>2, <1>5, <2>2, QueueGrows
  <2>4. Decisions'
    BY <1>1, <1>2, <1>5, <2>2, <2>3, DecisionsStay
  <2> QED
    BY <2>2, <2>4 DEF ApprovalsInv
<1> QED
  BY <1>3, <1>4, <1>5 DEF Submit, Ask, ByRule, handlerVars

\* The head of the queue is decided on.
LEMMA AcquireKeeps ==
    ASSUME ApprovalsInv, NEW c \in Calls, Acquire(c)
    PROVE  ApprovalsInv'
<1> DEFINE r == call[c]
           e == eng[c]
<1>1. /\ pc[c] = "asking" /\ Head(lock) = c
      /\ UNCHANGED <<scopeVars, prompt, own, ruleVars, changes>>
  BY DEF Acquire
<1>2. /\ r \in Requests /\ e \in Engs /\ pc[c] \in Deciding
      /\ Handlers /\ Decisions /\ CallTypes /\ Queue /\ lock \in Seq(Calls)
  BY <1>1, Waiting
<1>3. lock[1] = c
  BY <1>1
<1> HIDE DEF r, e
<1>4. CASE ByRule(r, e)
  <2>1. Begin(c, r, e) /\ auto' = auto \cup {c} /\ Exact(r)
    BY <1>4 DEF Acquire, Decide, ByRule, r, e
  <2>2. /\ Handlers' /\ pc'[c] \in {"failed", "resolving", "done"}
        /\ \A d \in Calls \ {c} : pc'[d] = pc[d] /\ call'[d] = call[d] /\ eng'[d] = eng[d]
    BY <1>2, <2>1, BeginKeeps
  <2>3. lock' = Tail(lock)
    BY <2>2 DEF Acquire
  <2>4. Queue' /\ lock' \in Seq(Calls)
    BY <1>1, <1>2, <1>3, <2>2, <2>3, QueueShrinks
  <2>5. Decisions'
    BY <1>1, <1>2, <2>2, <2>4, DecisionsStay
  <2> QED
    BY <2>2, <2>5 DEF ApprovalsInv
<1>5. CASE ~ByRule(r, e)
  <2>1. Enters(c, r, e, "dialog") /\ UNCHANGED <<address, contact, auto>> /\ "dialog" \notin Final
    BY <1>5 DEF Acquire, Decide, handlerVars, r, e, Final
  <2>2. /\ Handlers' /\ pc'[c] = "dialog" /\ call'[c] = r /\ eng'[c] = e
        /\ \A d \in Calls \ {c} : pc'[d] = pc[d] /\ call'[d] = call[d] /\ eng'[d] = eng[d]
    BY <1>2, <2>1, QuietKeeps
  <2>3. lock' = lock
    BY <2>2 DEF Acquire
  <2>4. Queue'
    BY <1>1, <1>2, <1>3, <2>2, <2>3 DEF Queue
  <2>5. Decisions'
    BY <1>1, <1>2, <1>5, <2>2, <2>3, <2>4, DecisionsStay
  <2> QED
    BY <2>2, <2>5 DEF ApprovalsInv
<1> QED
  BY <1>4, <1>5

\* What would be shown names engagements, and says of each whether it is known.
LEMMA ShownTyped ==
    ASSUME rules' \subseteq Engs
    PROVE  Shown' \subseteq Engs \X BOOLEAN
<1>1. Shown' = {<<e, e \in members'>> : e \in rules'}
  BY DEF Shown
<1>2. ASSUME NEW e \in rules' PROVE <<e, e \in members'>> \in Engs \X BOOLEAN
  <2> DEFINE known == e \in members'
  <2>1. known \in BOOLEAN /\ e \in Engs
    OBVIOUS
  <2> HIDE DEF known
  <2>2. <<e, known>> \in Engs \X BOOLEAN
    BY <2>1
  <2> QED
    BY <2>2 DEF known
<1> QED
  BY <1>1, <1>2, Zenon

\* The answer of the operator ends the question.
LEMMA AnswerKeeps ==
    ASSUME ApprovalsInv, NEW c \in Calls, Deny(c) \/ Approve(c) \/ ApproveTarget(c)
    PROVE  ApprovalsInv'
<1> DEFINE r == call[c]
           e == eng[c]
<1>1. /\ pc[c] = "dialog" /\ lock' = Tail(lock)
      /\ UNCHANGED <<scopeVars, prompt, own, auto, changes>>
  BY DEF Deny, Approve, ApproveTarget, Released, Answered
<1>2. /\ r \in Requests /\ e \in Engs /\ pc[c] \in Deciding
      /\ Handlers /\ Decisions /\ CallTypes /\ Queue /\ lock \in Seq(Calls) /\ lock[1] = c
  BY <1>1, Waiting
<1> HIDE DEF r, e
<1>3. /\ Handlers' /\ pc'[c] \in {"denied", "failed", "resolving", "done"}
      /\ \A d \in Calls \ {c} : pc'[d] = pc[d] /\ call'[d] = call[d] /\ eng'[d] = eng[d]
  <2>1. CASE Deny(c)
    <3>1. /\ Enters(c, NoCall, e, "denied") /\ "denied" \in Final
          /\ UNCHANGED <<address, contact, auto>>
      BY <2>1 DEF Deny, handlerVars, e, Final
    <3> QED
      BY <1>2, <3>1, QuietKeeps
  <2>2. CASE Begin(c, r, e)
    BY <1>1, <1>2, <2>2, BeginKeeps
  <2>3. CASE Enters(c, NoCall, e, "failed") /\ UNCHANGED <<address, contact>>
    <3>1. "failed" \in Final
      BY DEF Final
    <3> QED
      BY <1>1, <1>2, <2>3, <3>1, QuietKeeps
  <2> QED
    BY <2>1, <2>2, <2>3 DEF Approve, ApproveTarget, handlerVars, r, e
<1>4. Queue' /\ lock' \in Seq(Calls)
  BY <1>1, <1>2, <1>3, QueueShrinks
<1>5. CASE Deny(c) \/ Approve(c)
  <2>1. UNCHANGED ruleVars
    BY <1>5 DEF Deny, Approve
  <2>2. Decisions'
    BY <1>1, <1>2, <1>3, <1>4, <2>1, DecisionsStay
  <2> QED
    BY <1>3, <2>2 DEF ApprovalsInv
<1>6. CASE ApproveTarget(c)
  <2>1. /\ granted' = granted \cup {e} /\ rules' = rules \cup {e} /\ closing' = closing
        /\ (badge' = Shown' /\ undrawn' = FALSE) \/ (badge' = badge /\ undrawn' = TRUE)
    BY <1>6 DEF ApproveTarget, e
  <2>2. Types'
    <3>1. rules' \subseteq Engs /\ badge' \subseteq Engs \X BOOLEAN
      BY <1>2, <2>1, ShownTyped DEF Decisions, Types
    <3> QED
      BY <1>1, <1>2, <1>4, <2>1, <3>1 DEF Decisions, Types, scopeVars
  <2>3. NoRedundantQuestion'
    \* Nobody else has a dialog.
    <3>1. \A d \in Calls : pc'[d] # "dialog"
      BY <1>1, <1>2, <1>3 DEF Queue
    <3> QED
      BY <3>1 DEF NoRedundantQuestion, Open
  <2>4. RulesWereGranted'
    BY <1>2, <2>1 DEF Decisions, RulesWereGranted
  <2>5. BadgeShowsRules'
    <3>1. members' = members
      BY <1>1 DEF scopeVars
    <3> QED
      BY <1>2, <2>1, <3>1 DEF Decisions, BadgeShowsRules, Shown
  <2> QED
    BY <1>3, <1>4, <2>2, <2>3, <2>4, <2>5 DEF ApprovalsInv, Decisions
<1> QED
  BY <1>5, <1>6

\* A step of a call keeps the invariant.
LEMMA CallStepKeeps ==
    ASSUME ApprovalsInv, NEW c \in Calls, CallStep(c)
    PROVE  ApprovalsInv'
<1>1. CASE \E r \in Asked[c], e \in EngsOf[c] : Submit(c, r, e)
  <2>1. PICK r \in Asked[c], e \in EngsOf[c] : Submit(c, r, e)
    BY <1>1
  <2>2. r \in Requests
    BY DEF Requests
  <2> QED
    BY <2>1, <2>2, SubmitKeeps
<1> QED
  BY <1>1, AcquireKeeps, AnswerKeeps, HandlerStepKeeps DEF CallStep
-----------------------------------------------------------------------------
(* The operator and the world keep the invariant *)

\* A prompt that starts or ends leaves its calls where they are.
LEMMA PromptKeeps ==
    ASSUME ApprovalsInv, PromptStarts \/ PromptEnds
    PROVE  ApprovalsInv'
<1>1. /\ UNCHANGED <<pc, call, eng, address, auto, contact, scopeVars, lock, ruleVars, changes>>
      /\ prompt' \in BOOLEAN /\ (own' = own \/ own' = {}) /\ (own' # {} => prompt')
  BY DEF PromptStarts, PromptEnds, approvalVars, handlerVars, ApprovalsInv, Decisions, Types
<1>2. Handlers'
  BY <1>1, HandlersStay DEF ApprovalsInv
<1>3. Types' /\ Queue'
  BY <1>1 DEF ApprovalsInv, Decisions, Types, Queue, Distinct, ToSet, scopeVars, ruleVars
<1>4. NoRedundantQuestion' /\ RulesWereGranted' /\ BadgeShowsRules'
  BY <1>1 DEF ApprovalsInv, Decisions, NoRedundantQuestion, Open, ByRule, RulesWereGranted,
              BadgeShowsRules, Shown, scopeVars, ruleVars
<1> QED
  BY <1>2, <1>3, <1>4 DEF ApprovalsInv, Decisions

\* The calls of a prompt that is cancelled leave the queue with it.
LEMMA CancelKeeps ==
    ASSUME ApprovalsInv, Cancel
    PROVE  ApprovalsInv'
<1>1. /\ Open = {} /\ prompt' = FALSE /\ own' = {} /\ lock' = Without(lock, Live)
      /\ pc' = [c \in Calls |-> IF c \in Live THEN "cancelled" ELSE pc[c]]
      /\ call' = [c \in Calls |-> IF c \in Live THEN NoCall ELSE call[c]]
      /\ eng' = [c \in Calls |-> IF c \in Live THEN Nobody ELSE eng[c]]
      /\ address' = [c \in Calls |-> IF c \in Live THEN {} ELSE address[c]]
      /\ UNCHANGED <<scopeVars, ruleVars, auto, contact, changes>>
  BY DEF Cancel
<1>2. Handlers /\ Decisions /\ CallTypes /\ Queue /\ lock \in Seq(Calls) /\ Distinct(lock)
  BY DEF ApprovalsInv, Handlers, Decisions, Types, Queue
<1>3. "cancelled" \in Final /\ "cancelled" \in PCs /\ "cancelled" \notin Deciding
  BY DEF Final, PCs, Deciding
<1>4. CallTypes'
  BY <1>1, <1>2, <1>3 DEF CallTypes
<1>5. Given' /\ Checked'
  BY <1>1, <1>2, <1>3 DEF Handlers, Given, Checked, OwnsConnection, HostOf, Final
<1>6. Acted' /\ RuleMeansOneHost'
  BY <1>1, <1>2, <1>3 DEF Handlers, Acted, RuleMeansOneHost, UnreadHosts, CallTypes
<1>7. /\ lock' \in Seq(Calls) /\ Distinct(lock')
      /\ ToSet(lock') = ToSet(lock) \ Live
  BY <1>1, <1>2, WithoutKeeps
<1>8. Types'
  BY <1>1, <1>2, <1>7 DEF Decisions, Types, scopeVars, ruleVars
<1>9. \A c \in Calls : pc'[c] # "dialog"
  BY <1>1 DEF Open
<1>10. Queue'
  BY <1>1, <1>2, <1>7, <1>9 DEF Queue
<1>11. NoRedundantQuestion' /\ RulesWereGranted' /\ BadgeShowsRules'
  BY <1>1, <1>2, <1>9 DEF Decisions, NoRedundantQuestion, Open, RulesWereGranted,
                          BadgeShowsRules, Shown, scopeVars, ruleVars
<1> QED
  BY <1>4, <1>5, <1>6, <1>8, <1>10, <1>11 DEF ApprovalsInv, Handlers, Decisions

\* A change of the settings, the engagements or the world: whoever changes the
\* rules or the members says so on the badge, or ends the interface.
LEMMA ChangeKeeps ==
    ASSUME ApprovalsInv, Change,
           world' \in Worlds, active' \subseteq members', members' \subseteq Engs,
           choice' \in [Engs -> Selections],
           \/ UNCHANGED <<ruleVars, members>>
           \/ granted' = {} /\ ClearRules
           \/ UNCHANGED <<rules, badge, undrawn, granted>> /\ closing' = TRUE
    PROVE  ApprovalsInv'
<1>1. /\ UNCHANGED <<pc, call, eng, address, auto, contact, prompt, own, lock>>
      /\ changes' \in 0 .. MaxChanges
  BY ApprovalsAssumption
     DEF Change, callVars, handlerVars, ApprovalsInv, Decisions, Types, ApprovalsAssumption
<1>2. Handlers'
  BY <1>1, HandlersStay DEF ApprovalsInv
<1>3. /\ rules' \subseteq rules /\ granted' \subseteq Engs /\ badge' \subseteq Engs \X BOOLEAN
      /\ undrawn' \in BOOLEAN /\ closing' \in BOOLEAN
      /\ RulesWereGranted' /\ BadgeShowsRules'
  <2>1. CASE UNCHANGED <<ruleVars, members>>
    BY <2>1 DEF ApprovalsInv, Decisions, Types, RulesWereGranted, BadgeShowsRules, Shown, ruleVars
  <2>2. CASE granted' = {} /\ ClearRules
    <3>1. rules' = {} /\ closing' = closing
      BY <2>2 DEF ClearRules
    <3>2. Shown' = {} /\ (rules = {} => Shown = {})
      BY <3>1 DEF Shown
    <3>3. \/ badge' = badge /\ undrawn' = undrawn /\ rules = {}
          \/ badge' = {} /\ undrawn' = FALSE
      BY <2>2, <3>2 DEF ClearRules
    <3>4. BadgeShowsRules'
      BY <3>1, <3>2, <3>3 DEF ApprovalsInv, Decisions, BadgeShowsRules
    <3> QED
      BY <2>2, <3>1, <3>3, <3>4 DEF ApprovalsInv, Decisions, Types, RulesWereGranted
  <2>3. CASE UNCHANGED <<rules, badge, undrawn, granted>> /\ closing' = TRUE
    BY <2>3 DEF ApprovalsInv, Decisions, Types, RulesWereGranted, BadgeShowsRules
  <2> QED
    BY <2>1, <2>2, <2>3
<1>4. Types' /\ Queue'
  BY <1>1, <1>3 DEF ApprovalsInv, Decisions, Types, Queue, Distinct, ToSet
<1>5. NoRedundantQuestion'
  BY <1>1, <1>3 DEF ApprovalsInv, Decisions, NoRedundantQuestion, Open, ByRule
<1> QED
  BY <1>2, <1>3, <1>4, <1>5 DEF ApprovalsInv, Decisions

\* A step of the operator or of the world keeps the invariant.
LEMMA OperatorStepKeeps ==
    ASSUME ApprovalsInv, OperatorStep \/ WorldChanges
    PROVE  ApprovalsInv'
<1>1. CASE PromptStarts \/ PromptEnds
  BY <1>1, PromptKeeps
<1>2. CASE Cancel
  BY <1>2, CancelKeeps
<1> USE DEF Change, scopeVars, ruleVars
<1>3. /\ world \in Worlds /\ active \subseteq members /\ members \subseteq Engs
      /\ choice \in [Engs -> Selections]
  BY DEF ApprovalsInv, Decisions, Types
<1>4. CASE ResetApprovals
  BY <1>3, <1>4, ChangeKeeps DEF ResetApprovals
<1>5. ASSUME NEW e \in Engs, AddEngagement(e) PROVE ApprovalsInv'
  BY <1>3, <1>5, ChangeKeeps DEF AddEngagement
<1>6. ASSUME NEW e \in Engs, SetStatus(e) PROVE ApprovalsInv'
  BY <1>3, <1>6, ChangeKeeps DEF SetStatus
<1>7. ASSUME NEW e \in Engs, NEW tools \in Selections, SaveTools(e, tools) PROVE ApprovalsInv'
  BY <1>3, <1>7, ChangeKeeps DEF SaveTools
<1>8. ASSUME NEW saved \in Sessions, RestoreSession(saved) PROVE ApprovalsInv'
  <2>1. saved.active \subseteq saved.members /\ saved.members \subseteq Engs
    BY ApprovalsAssumption DEF ApprovalsAssumption
  <2> QED
    BY <1>3, <1>8, <2>1, ChangeKeeps DEF RestoreSession
<1>9. CASE WorldChanges
  BY <1>3, <1>9, ChangeKeeps DEF WorldChanges
<1>10. ASSUME NEW saved \in Sessions, RestoreFails(saved) PROVE ApprovalsInv'
  <2>1. saved.active \subseteq saved.members /\ saved.members \subseteq Engs
    BY ApprovalsAssumption DEF ApprovalsAssumption
  <2> QED
    BY <1>3, <1>10, <2>1, ChangeKeeps DEF RestoreFails
<1> QED
  BY <1>1, <1>2, <1>4, <1>5, <1>6, <1>7, <1>8, <1>9, <1>10 DEF OperatorStep

\* Every step keeps the invariant.
LEMMA StepInv == ApprovalsInv /\ [Next]_vars => ApprovalsInv'
<1> SUFFICES ASSUME ApprovalsInv, [Next]_vars PROVE ApprovalsInv'
  OBVIOUS
<1>1. CASE UNCHANGED vars
  <2>1. UNCHANGED <<world, members, active, choice, prompt, own, pc, call, eng, lock, rules,
                    badge, undrawn, closing, granted, auto, address, contact, changes>>
    BY <1>1 DEF vars, scopeVars, approvalVars, ruleVars, handlerVars
  <2>2. Handlers'
    BY <2>1, HandlersStay DEF ApprovalsInv
  <2>3. Types' /\ Queue'
    BY <2>1 DEF ApprovalsInv, Decisions, Types, Queue, Distinct, ToSet
  <2>4. NoRedundantQuestion' /\ RulesWereGranted' /\ BadgeShowsRules'
    BY <2>1 DEF ApprovalsInv, Decisions, NoRedundantQuestion, Open, ByRule, RulesWereGranted,
                BadgeShowsRules, Shown
  <2> QED
    BY <2>2, <2>3, <2>4 DEF ApprovalsInv, Decisions
<1>2. CASE Next
  BY <1>2, CallStepKeeps, OperatorStepKeeps DEF Next
<1> QED
  BY <1>1, <1>2

\* Whatever the program does, the calls and the queue are as the invariant says.
THEOREM ApprovalsCorrect == Spec => []ApprovalsInv
BY InitInv, StepInv, PTL DEF Spec

\* The lock holds and queues just the calls that are being decided on, there is
\* never more than one dialog, and none that a rule has already answered: for
\* any number of calls, prompts and orphans (_approve_tool).
THEOREM DecisionsTakeTurns == Spec => []DecisionsInTurn
<1>1. ApprovalsInv => DecisionsInTurn
  <2> SUFFICES ASSUME ApprovalsInv PROVE DecisionsInTurn
    OBVIOUS
  <2>1. TypeOK
    <3>1. lock \in Seq(Calls) /\ DOMAIN lock = 1..Len(lock)
      BY LenProperties DEF ApprovalsInv, Decisions, Types
    <3>2. \A c \in Calls : c \in ToSet(lock) <=> \E i \in DOMAIN lock : lock[i] = c
      BY <3>1 DEF ToSet
    <3>3. \A c \in Calls : pc[c] \in {"asking", "dialog"} <=> \E i \in DOMAIN lock : lock[i] = c
      BY <3>2 DEF ApprovalsInv, Decisions, Queue
    <3>5. \A c \in Calls : address[c] \subseteq Addrs
      BY DEF ApprovalsInv, Handlers, CallTypes
    <3> QED
      BY <3>3, <3>5 DEF TypeOK, ApprovalsInv, Handlers, CallTypes, Decisions, Types
  <2>2. OneDialog
    <3>1. Open = {} \/ Open = {lock[1]}
      BY DEF ApprovalsInv, Decisions, Queue, Open
    <3>2. Cardinality({}) = 0 /\ Cardinality({lock[1]}) = 1
      BY FS_EmptySet, FS_Singleton
    <3>3. Cardinality(Open) = 0 \/ Cardinality(Open) = 1
      BY <3>1, <3>2, Zenon
    <3> QED
      BY <3>3 DEF OneDialog
  <2> QED
    BY <2>1, <2>2 DEF DecisionsInTurn, ApprovalsInv, Decisions
<1> QED
  BY <1>1, ApprovalsCorrect, PTL

\* A rule in force was granted by the operator under the engagements of this
\* session, until a failed restore ends the interface, is shown, unless the
\* record of it failed, and lets no call reach two hosts that the interface
\* takes for hosts.
THEOREM RulesHold == Spec => []RulesAsGranted
<1>1. ApprovalsInv => RulesAsGranted
  BY DEF ApprovalsInv, Handlers, Decisions, RulesAsGranted
<1> QED
  BY <1>1, ApprovalsCorrect, PTL
-----------------------------------------------------------------------------
(* What a call reaches *)

\* Only a call that is handed in leaves the idle state, and its arguments are
\* those the gate has just authorized.
LEMMA OnlySubmitAdmits ==
    ASSUME ApprovalsInv, Next, NEW c \in Calls,
           pc[c] = "idle", pc'[c] \in {"asking", "dialog", "resolving"}
    PROVE  /\ eng'[c] \in Engs /\ call'[c] \in Requests
           /\ Authorized(eng'[c], call'[c]) /\ call'[c].tool # "pane_spawn"
<1>1. Handlers /\ CallTypes /\ Given /\ members \subseteq Engs
  BY DEF ApprovalsInv, Handlers, Decisions, Types
<1>2. CASE \E d \in Calls : CallStep(d)
  <2>1. PICK d \in Calls : CallStep(d)
    BY <1>2
  <2>2. d = c
    <3> SUFFICES ASSUME d # c PROVE pc'[c] = pc[c]
      OBVIOUS
    <3>1. ASSUME NEW r, NEW e, NEW where, Enters(d, r, e, where) PROVE pc'[c] = pc[c]
      BY <1>1, <3>1 DEF Enters, CallTypes
    <3> QED
      BY <2>1, <3>1 DEF CallStep, Submit, Ask, Begin, Acquire, Decide, Deny, Approve,
                        ApproveTarget, Resolved, Connect, ConnectFails
  <2>3. PICK r \in Asked[c], e \in EngsOf[c] : Submit(c, r, e)
    BY <2>1, <2>2 DEF CallStep, Acquire, Deny, Approve, ApproveTarget, Answered, Resolved,
                      Connect, ConnectFails
  <2>4. r \in Requests
    BY DEF Requests
  <2>5. e \in members /\ Authorized(e, r)
    <3> SUFFICES ASSUME Enters(c, NoCall, e, "refused") PROVE FALSE
      BY <2>3 DEF Submit
    <3> QED
      BY <1>1 DEF Enters, CallTypes
  <2>6. CASE Begin(c, r, e)
    <3>1. PICK where \in {"failed", "resolving", "done"} :
            Enters(c, r, e, where) /\ (where = "resolving" => r.tool \in Pinning)
      BY <2>6 DEF Begin
    <3>2. where = "resolving" /\ call'[c] = r /\ eng'[c] = e
      BY <1>1, <3>1 DEF Enters, CallTypes, Final
    <3>3. r.tool # "pane_spawn"
      BY <3>1, <3>2 DEF Pinning, HttpTools
    <3> QED
      BY <1>1, <2>4, <2>5, <3>2, <3>3
  <2>7. CASE /\ r.tool \notin AutoApprove
             /\ Enters(c, r, e, IF lock = <<>> THEN "dialog" ELSE "asking")
    <3>1. call'[c] = r /\ eng'[c] = e
      BY <1>1, <2>7 DEF Enters, CallTypes, Final
    <3> QED
      BY <1>1, <2>4, <2>5, <2>7, <3>1 DEF AutoApprove
  <2> QED
    BY <2>3, <2>5, <2>6, <2>7 DEF Submit, Ask
<1>3. CASE OperatorStep \/ WorldChanges
  <2>1. pc'[c] = pc[c] \/ pc'[c] = "cancelled"
    BY <1>3 DEF OperatorStep, WorldChanges, PromptStarts, PromptEnds, Cancel, ResetApprovals,
                AddEngagement, SetStatus, SaveTools, RestoreSession, RestoreFails, Change, callVars
  <2> QED
    BY <2>1
<1> QED
  BY <1>2, <1>3 DEF Next

\* A call the gate admits stays on the territory of its engagement, as far as
\* the gate looks, and a scan that names ports within those of the package,
\* however its ranges overlap (check_scan).
THEOREM AdmittedAreInside == Spec => AdmittedStayInside
<1>1. ApprovalsInv /\ [Next]_vars =>
        \A c \in Calls : pc[c] = "idle" /\ pc'[c] \in {"asking", "dialog", "resolving"} =>
            /\ WithinTerritory(eng'[c], call'[c])
            /\ call'[c].tool = "scan" =>
                \/ Cardinality(Probed(call'[c].ports)) <= Package[eng'[c]].maxPorts
                \/ call'[c].ports = <<>>
  <2> SUFFICES ASSUME ApprovalsInv, [Next]_vars, NEW c \in Calls,
                      pc[c] = "idle", pc'[c] \in {"asking", "dialog", "resolving"}
               PROVE  /\ WithinTerritory(eng'[c], call'[c])
                      /\ call'[c].tool = "scan" =>
                          \/ Cardinality(Probed(call'[c].ports)) <= Package[eng'[c]].maxPorts
                          \/ call'[c].ports = <<>>
    OBVIOUS
  <2> DEFINE r == call'[c]
             e == eng'[c]
  <2>1. Next
    BY DEF vars
  <2>2. e \in Engs /\ r \in Requests /\ Authorized(e, r) /\ r.tool # "pane_spawn"
    BY <2>1, OnlySubmitAdmits
  <2>3. WellFormed(r) /\ ArgsInScope(e, r) /\ Package[e].maxPorts \in Nat
    BY <2>2, ApprovalsAssumption DEF ApprovalsAssumption, Authorized
  <2> HIDE DEF r, e
  <2>4. WithinTerritory(e, r)
    BY <2>2, <2>3, AuthorizedIsWithin
  <2>5. ASSUME r.tool = "scan", r.ports # <<>> PROVE Cardinality(Probed(r.ports)) <= Package[e].maxPorts
    <3>1. /\ ValidPorts(r.ports) /\ CountPorts(r.ports) <= Package[e].maxPorts
          /\ r.ports \in Seq(Nat \X Nat)
      BY <2>3, <2>5 DEF ArgsInScope, CheckScan, WellFormed, HttpTools, LanTools, FileTools
    <3>2. /\ Cardinality(Probed(r.ports)) \in Nat /\ CountPorts(r.ports) \in Nat
          /\ Cardinality(Probed(r.ports)) <= CountPorts(r.ports)
      BY <2>5, <3>1, ProbedAtMostCounted
    <3> QED
      BY <2>3, <3>1, <3>2
  <2> QED
    BY <2>4, <2>5 DEF r, e
<1> QED
  BY <1>1, ApprovalsCorrect, PTL DEF Spec, AdmittedStayInside

\* The way a call acts, and with what.
LEMMA WhoActs ==
    ASSUME ApprovalsInv, Next, contact' # contact
    PROVE  \E c \in Calls :
             \/ \E r \in Requests, e \in Engs :
                    /\ CallAuthorized(r, e) /\ pc[c] # "resolving"
                    /\ Acts(c, r, e, Connections(r), Places(e, r))
             \/ Resolved(c) /\ Acts(c, call[c], eng[c], {}, Places(eng[c], call[c]))
             \/ Connect(c)
<1>1. CASE \E c \in Calls : CallStep(c)
  <2>1. PICK c \in Calls : CallStep(c)
    BY <1>1
  <2>2. ASSUME NEW r \in Requests, NEW e \in Engs, Begin(c, r, e)
        PROVE  CallAuthorized(r, e) /\ Acts(c, r, e, Connections(r), Places(e, r))
    BY <2>2 DEF Begin
  <2>3. members \subseteq Engs
    BY DEF ApprovalsInv, Decisions, Types
  <2>4. CASE \E r \in Asked[c], e \in EngsOf[c] : Submit(c, r, e)
    <3>1. PICK r \in Asked[c], e \in EngsOf[c] : Submit(c, r, e)
      BY <2>4
    <3>2. r \in Requests /\ e \in Engs /\ pc[c] # "resolving" /\ Begin(c, r, e)
      BY <2>3, <3>1 DEF Requests, Submit, Ask, handlerVars
    <3> QED
      BY <2>2, <3>2
  <2>5. CASE Acquire(c) \/ Approve(c) \/ ApproveTarget(c)
    <3>1. pc[c] \in {"asking", "dialog"} /\ Begin(c, call[c], eng[c])
      BY <2>5 DEF Acquire, Decide, Approve, ApproveTarget, Answered, handlerVars
    <3>2. call[c] \in Requests /\ eng[c] \in Engs
      BY <3>1, Waiting
    <3> QED
      BY <2>2, <3>1, <3>2
  <2>6. CASE Resolved(c)
    BY <2>6 DEF Resolved, handlerVars
  <2>7. ~Deny(c) /\ ~ConnectFails(c)
    BY DEF Deny, ConnectFails, handlerVars
  <2> QED
    BY <2>1, <2>4, <2>5, <2>6, <2>7 DEF CallStep
<1>2. ~(OperatorStep \/ WorldChanges)
  BY DEF OperatorStep, WorldChanges, PromptStarts, PromptEnds, Cancel, ResetApprovals,
         AddEngagement, SetStatus, SaveTools, RestoreSession, RestoreFails, Change, callVars,
         handlerVars
<1> QED
  BY <1>1, <1>2 DEF Next

\* Whatever changed since it was authorized and approved, a call connects only
\* to hosts, and works only on files, of its engagement's territory, as far as
\* anybody looks; an upload follows the path of its file once more after it was
\* checked.
THEOREM ContactsAreInside == Spec => ContactInScope
<1> DEFINE Within == Inside(contact', pc[contact'.by] = "resolving")
<1>1. ASSUME ApprovalsInv, [Next]_vars, contact' # contact PROVE Within
  <2> USE DEF Inside
  <2>1. Next /\ Handlers
    BY <1>1 DEF vars, handlerVars, ApprovalsInv
  <2>2. PICK c \in Calls :
             \/ \E r \in Requests, e \in Engs :
                    /\ CallAuthorized(r, e) /\ pc[c] # "resolving"
                    /\ Acts(c, r, e, Connections(r), Places(e, r))
             \/ Resolved(c) /\ Acts(c, call[c], eng[c], {}, Places(eng[c], call[c]))
             \/ Connect(c)
    BY <1>1, <2>1, WhoActs
  <2>3. ASSUME NEW r \in Requests, NEW e \in Engs, CallAuthorized(r, e),
               Acts(c, r, e, Connections(r), Places(e, r))
        PROVE  Within
    <3>1. WithinTerritory(e, r)
      BY <2>3, ApprovalsAssumption, RecheckedIsWithin DEF ApprovalsAssumption
    <3> QED
      BY <2>3, <3>1 DEF Acts, WithinTerritory
  <2>4. CASE Resolved(c) /\ Acts(c, call[c], eng[c], {}, Places(eng[c], call[c]))
    BY <2>4 DEF Resolved, Acts
  <2>5. CASE Connect(c)
    <3> DEFINE e == eng[c]
               r == call[c]
    <3>1. /\ pc[c] = "connecting" /\ contact'.eng = e
          /\ contact'.connections = {<<HostOf(r), a>> : a \in address[c]}
          /\ contact'.places = SavedTo(r, e)
      BY <2>5 DEF Connect, Acts
    <3>2. e \in Engs
      BY <2>1, <3>1 DEF Handlers, Given, Final
    <3>3. \A a \in address[c] : OwnsConnection(e, <<HostOf(r), a>>)
      BY <2>1, <3>1 DEF Handlers, Checked
    <3> HIDE DEF e, r
    <3>4. \A place \in SavedTo(r, e) : OwnsPlace(e, place)
      <4>1. ASSUME NEW arg, CheckSaveAs(e, arg) PROVE OwnsPlace(e, Resolve(PathOf(e, arg)))
        BY <3>2, <4>1, PathIsOwned DEF CheckSaveAs
      <4> QED
        BY <4>1 DEF SavedTo
    <3> QED
      BY <3>1, <3>3, <3>4
  <2> QED
    BY <2>2, <2>3, <2>4, <2>5
<1>2. ApprovalsInv /\ [Next]_vars => (contact' # contact => Within)
  BY <1>1
<1> QED
  BY <1>2, ApprovalsCorrect, PTL DEF Spec, ContactInScope
=============================================================================
