---------------------------- MODULE AuditChainProofs ----------------------------
(***************************************************************************)
(* Theorems about the audit log, for any number of sessions, entries and   *)
(* loggers.  Every write is one relation between the lines before and      *)
(* after it, Grown: a generation lost at the front, a line added or a torn *)
(* one spoiled at the end.  What holds of a log is stated as one predicate *)
(* of its files, its payloads and the loggers, Kempt, that a write by any  *)
(* logger and the opening of a log keep.                                   *)
(***************************************************************************)
EXTENDS AuditChain, SequenceTheorems, TLAPS

--------------------------------------------------------------------------------
(* Lines *)

Line ==
    [kind : {"entry", "torn", "spoiled"}, seq : Nat, prev : Nat, hash : Nat, ref : BOOLEAN]

Files == [g2 : Seq(Line), g1 : Seq(Line), base : Seq(Line)]

\* Where the lines of the generations are found.
LEMMA LinesOf ==
    ASSUME NEW f \in Files
    PROVE  /\ Len(f.g2) \in Nat /\ Len(f.g1) \in Nat /\ Len(f.base) \in Nat
           /\ Lines(f) \in Seq(Line)
           /\ Len(Lines(f)) = Len(f.g2) + Len(f.g1) + Len(f.base)
           /\ \A k \in 1 .. Len(Lines(f)) :
                Lines(f)[k] = IF k <= Len(f.g2) THEN f.g2[k]
                              ELSE IF k <= Len(f.g2) + Len(f.g1) THEN f.g1[k - Len(f.g2)]
                              ELSE f.base[k - Len(f.g2) - Len(f.g1)]
<1> DEFINE p == f.g2
           q == f.g1
           r == f.base
<1>1. p \in Seq(Line) /\ q \in Seq(Line) /\ r \in Seq(Line)
  BY DEF Files
<1> HIDE DEF p, q, r
<1>2. Len(p) \in Nat /\ Len(q) \in Nat /\ Len(r) \in Nat
  BY <1>1, LenProperties
<1>3. /\ p \o q \in Seq(Line) /\ Len(p \o q) = Len(p) + Len(q)
      /\ \A k \in 1 .. Len(p) + Len(q) :
            (p \o q)[k] = IF k <= Len(p) THEN p[k] ELSE q[k - Len(p)]
  BY <1>1, ConcatProperties
<1>4. /\ (p \o q) \o r \in Seq(Line) /\ Len((p \o q) \o r) = Len(p) + Len(q) + Len(r)
      /\ \A k \in 1 .. Len(p) + Len(q) + Len(r) : ((p \o q) \o r)[k] =
            IF k <= Len(p) + Len(q) THEN (p \o q)[k] ELSE r[k - (Len(p) + Len(q))]
  <2> DEFINE pq == p \o q
  <2> HIDE DEF pq
  <2>1. pq \in Seq(Line) /\ Len(pq) = Len(p) + Len(q)
    BY <1>3 DEF pq
  <2>2. /\ pq \o r \in Seq(Line) /\ Len(pq \o r) = Len(pq) + Len(r)
        /\ \A k \in 1 .. Len(pq) + Len(r) : (pq \o r)[k] =
              IF k <= Len(pq) THEN pq[k] ELSE r[k - Len(pq)]
    BY <1>1, <2>1, ConcatProperties
  <2> QED
    BY <2>1, <2>2 DEF pq
<1>5. Lines(f) = (p \o q) \o r
  BY DEF Lines, p, q, r
<1>6. \A k \in 1 .. Len(p) + Len(q) + Len(r) : Lines(f)[k] =
         IF k <= Len(p) THEN p[k]
         ELSE IF k <= Len(p) + Len(q) THEN q[k - Len(p)]
         ELSE r[k - Len(p) - Len(q)]
  <2> SUFFICES ASSUME NEW k \in 1 .. Len(p) + Len(q) + Len(r)
               PROVE  Lines(f)[k] = IF k <= Len(p) THEN p[k]
                                    ELSE IF k <= Len(p) + Len(q) THEN q[k - Len(p)]
                                    ELSE r[k - Len(p) - Len(q)]
    OBVIOUS
  <2>1. k - (Len(p) + Len(q)) = k - Len(p) - Len(q)
    BY <1>2
  <2>2. k <= Len(p) => k <= Len(p) + Len(q)
    BY <1>2
  <2>3. k <= Len(p) + Len(q) => k \in 1 .. Len(p) + Len(q)
    BY <1>2
  <2> QED
    BY <1>3, <1>4, <1>5, <2>1, <2>2, <2>3
<1> QED
  BY <1>2, <1>4, <1>5, <1>6 DEF p, q, r

\* N is L without its first d lines and with x at its end, behind the last
\* line or, if that one was torn, with it in one spoiled line.
Grown(L, N, d, x) ==
    /\ d \in 0 .. Len(L)
    /\ \/ Len(N) = Len(L) - d + 1 /\ N[Len(N)] = x
       \/ /\ Len(N) = Len(L) - d /\ Len(N) > 0
          /\ L[Len(L)].kind = "torn" /\ N[Len(N)] = Spoiled
    /\ \A k \in 1 .. Len(N) - 1 : N[k] = L[k + d]

\* The two kinds of a broken line are lines.
LEMMA SpoiledLine == Torn \in Line /\ Spoiled \in Line /\ Torn.kind = "torn" /\ Spoiled.kind = "spoiled"
                     /\ ~Torn.ref /\ ~Spoiled.ref /\ Torn.hash = 0 /\ Spoiled.hash = 0
  BY DEF Torn, Spoiled, Line, ZeroHash

\* A line is appended to a generation.
LEMMA AppendedGrows ==
    ASSUME NEW base \in Seq(Line), NEW x \in Line
    PROVE  /\ Appended(base, x) \in Seq(Line) /\ Appended(base, x) # Absent
           /\ Grown(base, Appended(base, x), 0, x)
<1> DEFINE l == Len(base)
<1>1. l \in Nat /\ \A k \in 1 .. l : base[k] \in Line
  BY LenProperties, ElementOfSeq
<1>2. CASE ~(base # Absent /\ Last(base).kind = "torn")
  <2>1. Appended(base, x) = Append(base, x)
    BY <1>2 DEF Appended
  <2>2. /\ Append(base, x) \in Seq(Line) /\ Append(base, x) # <<>>
        /\ Len(Append(base, x)) = l + 1 /\ Append(base, x)[l + 1] = x
        /\ \A k \in 1 .. l : Append(base, x)[k] = base[k]
    BY AppendProperties
  <2> QED
    BY <1>1, <2>1, <2>2 DEF Grown, Absent
<1>3. CASE base # Absent /\ Last(base).kind = "torn"
  <2> DEFINE front == Front(base)
             n == front \o <<Spoiled>>
  <2>1. Appended(base, x) = n
    BY <1>3 DEF Appended
  <2>2. l > 0
    BY <1>1, <1>3, EmptySeq DEF Absent
  <2>3. /\ front \in Seq(Line) /\ Len(front) = l - 1
        /\ \A k \in 1 .. l - 1 : front[k] = base[k]
    <3> DEFINE m == l - 1
    <3>1. m \in Nat /\ \A k \in 1 .. m : base[k] \in Line
      BY <1>1, <2>2
    <3>2. Front(base) = SubSeq(base, 1, m)
      BY DEF Front
    <3> HIDE DEF m
    <3>3. /\ SubSeq(base, 1, m) \in Seq(Line)
          /\ Len(SubSeq(base, 1, m)) = IF 1 <= m THEN m - 1 + 1 ELSE 0
          /\ \A k \in 1 .. m - 1 + 1 : SubSeq(base, 1, m)[k] = base[1 + k - 1]
      BY <3>1, SubSeqProperties
    <3>4. m - 1 + 1 = m /\ \A k \in 1 .. m : 1 + k - 1 = k
      BY <3>1
    <3>5. Len(SubSeq(base, 1, m)) = m
      BY <3>1, <3>3, <3>4
    <3> QED
      BY <3>2, <3>3, <3>4, <3>5 DEF m
  <2>4. n = Append(front, Spoiled)
    BY <2>3, SpoiledLine, AppendIsConcat
  <2>5. /\ Append(front, Spoiled) \in Seq(Line) /\ Append(front, Spoiled) # <<>>
        /\ Len(Append(front, Spoiled)) = Len(front) + 1
        /\ \A k \in 1 .. Len(front) : Append(front, Spoiled)[k] = front[k]
        /\ Append(front, Spoiled)[Len(front) + 1] = Spoiled
    BY <2>3, SpoiledLine, AppendProperties
  <2> HIDE DEF n, front
  <2>6. /\ n \in Seq(Line) /\ n # <<>> /\ Len(n) = l /\ n[l] = Spoiled
        /\ \A k \in 1 .. l - 1 : n[k] = base[k]
    BY <1>1, <2>3, <2>4, <2>5
  <2> QED
    BY <1>1, <1>3, <2>1, <2>2, <2>6 DEF Grown, Absent, Last
<1> QED
  BY <1>2, <1>3

\* And so are the lines of the whole log, before it is rotated.
LEMMA LinesGrow ==
    ASSUME NEW f \in Files, NEW x \in Line
    PROVE  LET g == [f EXCEPT !.base = Appended(f.base, x)] IN
           /\ g \in Files /\ g.base # Absent
           /\ Grown(Lines(f), Lines(g), 0, x)
<1> DEFINE g == [f EXCEPT !.base = Appended(f.base, x)]
<1>1. f.base \in Seq(Line)
  BY DEF Files
<1>2. Appended(f.base, x) \in Seq(Line) /\ Appended(f.base, x) # Absent
      /\ Grown(f.base, Appended(f.base, x), 0, x)
  BY <1>1, AppendedGrows
<1>3. g \in Files /\ g.base = Appended(f.base, x) /\ g.g1 = f.g1 /\ g.g2 = f.g2
  BY <1>2 DEF Files
<1> HIDE DEF g
<1> DEFINE o == Len(f.g2) + Len(f.g1)
           L == Lines(f)
           N == Lines(g)
           b == f.base
           c == g.base
<1>4. /\ o \in Nat /\ Len(b) \in Nat /\ Len(c) \in Nat
      /\ Len(L) = o + Len(b) /\ Len(N) = o + Len(c)
      /\ \A k \in 1 .. o : k <= Len(L) => L[k] = N[k]
      /\ \A k \in 1 .. Len(b) : L[o + k] = b[k]
      /\ \A k \in 1 .. Len(c) : N[o + k] = c[k]
  <2> DEFINE p == Len(f.g2)
             q == Len(f.g1)
  <2>1. /\ p \in Nat /\ q \in Nat /\ Len(b) \in Nat /\ Len(c) \in Nat
        /\ Len(L) = p + q + Len(b) /\ Len(N) = p + q + Len(c)
        /\ \A k \in 1 .. Len(L) : L[k] = IF k <= p THEN f.g2[k]
              ELSE IF k <= p + q THEN f.g1[k - p] ELSE b[k - p - q]
        /\ \A k \in 1 .. Len(N) : N[k] = IF k <= p THEN f.g2[k]
              ELSE IF k <= p + q THEN f.g1[k - p] ELSE c[k - p - q]
    BY <1>3, LinesOf
  <2> HIDE DEF p, q, L, N, b, c
  <2>2. \A k \in Nat : ~(p + q + k <= p) \/ k = 0
    BY <2>1
  <2>3. \A k \in Nat : (p + q + k) - p - q = k /\ (k > 0 => ~(p + q + k <= p + q))
    BY <2>1
  <2>4. \A k \in 1 .. Len(b) : L[p + q + k] = b[k]
    BY <2>1, <2>2, <2>3
  <2>5. \A k \in 1 .. Len(c) : N[p + q + k] = c[k]
    BY <2>1, <2>2, <2>3
  <2>6. \A k \in 1 .. p + q : k \in 1 .. Len(L) /\ k \in 1 .. Len(N)
    BY <2>1
  <2>7. \A k \in 1 .. p + q : L[k] = N[k]
    BY <2>1, <2>6
  <2>8. o = p + q
    BY DEF p, q
  <2> HIDE DEF o
  <2> QED
    BY <2>1, <2>4, <2>5, <2>7, <2>8
<1>5. Grown(b, c, 0, x)
  BY <1>2, <1>3
<1> HIDE DEF L, N, b, c, o
<1>6. \A k \in 1 .. Len(N) - 1 : N[k] = L[k + 0]
  <2> SUFFICES ASSUME NEW k \in 1 .. Len(N) - 1 PROVE N[k] = L[k]
    BY <1>4
  <2>1. CASE k <= o
    <3>1. k <= Len(L)
      BY <1>4, <2>1
    <3> QED
      BY <1>4, <2>1, <3>1
  <2>2. CASE k > o
    <3>1. k - o \in 1 .. Len(c) - 1 /\ o + (k - o) = k /\ k - o \in 1 .. Len(c)
      BY <1>4, <2>2
    <3>2. c[k - o] = b[(k - o) + 0] /\ (k - o) + 0 = k - o
      BY <1>4, <1>5, <3>1 DEF Grown
    <3>3. k - o \in 1 .. Len(b)
      BY <1>4, <1>5, <3>1 DEF Grown
    <3> QED
      BY <1>4, <3>1, <3>2, <3>3
  <2> QED
    BY <1>4, <2>1, <2>2
<1>7. ASSUME Len(c) = Len(b) + 1, c[Len(c)] = x
      PROVE  Grown(L, N, 0, x)
  <2>1. Len(c) \in 1 .. Len(c) /\ Len(N) = Len(L) - 0 + 1
    BY <1>4, <1>7
  <2>2. N[Len(N)] = x
    BY <1>4, <1>7, <2>1
  <2> QED
    BY <1>4, <1>6, <2>1, <2>2 DEF Grown
<1>8. ASSUME Len(c) = Len(b), Len(c) > 0, b[Len(b)].kind = "torn", c[Len(c)] = Spoiled
      PROVE  Grown(L, N, 0, x)
  <2>1. Len(c) \in 1 .. Len(c) /\ Len(N) = Len(L) - 0 /\ Len(N) > 0
    BY <1>4, <1>8
  <2>2. N[Len(N)] = Spoiled /\ L[Len(L)] = b[Len(b)]
    BY <1>4, <1>8, <2>1
  <2> QED
    BY <1>4, <1>6, <1>8, <2>1, <2>2 DEF Grown
<1>9. \/ Len(c) = Len(b) + 1 /\ c[Len(c)] = x
      \/ Len(c) = Len(b) /\ Len(c) > 0 /\ b[Len(b)].kind = "torn" /\ c[Len(c)] = Spoiled
  BY <1>4, <1>5 DEF Grown
<1>10. Grown(L, N, 0, x)
  BY <1>7, <1>8, <1>9
<1> QED
  BY <1>2, <1>3, <1>10 DEF L, N, g

\* A write, rotated or not: of what was there only the oldest generation goes.
LEMMA WrittenGrows ==
    ASSUME NEW f \in Files, NEW x \in Line, NEW full \in BOOLEAN
    PROVE  /\ Written(f, x, full) \in Files
           /\ \E d \in {0, Len(f.g2)} : Grown(Lines(f), Lines(Written(f, x, full)), d, x)
<1> DEFINE g == [f EXCEPT !.base = Appended(f.base, x)]
<1>1. g \in Files /\ g.base # Absent /\ Grown(Lines(f), Lines(g), 0, x)
  BY LinesGrow
<1>2. g.g1 = f.g1 /\ g.g2 = f.g2
  BY DEF Files
<1>3. CASE ~full
  <2>1. Written(f, x, full) = g
    BY <1>3 DEF Written
  <2> HIDE DEF g
  <2> QED
    BY <1>1, <2>1
<1>4. CASE full
  <2> DEFINE r == [g2 |-> g.g1, g1 |-> g.base, base |-> Absent]
  <2>1. Written(f, x, full) = r
    BY <1>4 DEF Written, Rotated
  <2> HIDE DEF g
  <2>2. r \in Files
    BY <1>1, EmptySeq DEF Files, Absent
  <2> DEFINE d == Len(g.g2)
             m == Len(g.g1)
             b == Len(g.base)
             L == Lines(f)
             M == Lines(g)
             N == Lines(r)
  <2>3. /\ d \in Nat /\ m \in Nat /\ b \in Nat /\ Len(M) = d + m + b
        /\ \A k \in 1 .. Len(M) : M[k] = IF k <= d THEN g.g2[k]
              ELSE IF k <= d + m THEN g.g1[k - d] ELSE g.base[k - d - m]
    BY <1>1, LinesOf
  <2>4. b > 0
    <3>1. g.base \in Seq(Line)
      BY <1>1 DEF Files
    <3> QED
      BY <1>1, <2>3, <3>1, EmptySeq DEF Absent
  <2>5. /\ Len(N) = m + b
        /\ \A k \in 1 .. Len(N) : N[k] = IF k <= m THEN g.g1[k]
              ELSE g.base[k - m]
    <3>1. /\ Len(N) = Len(r.g2) + Len(r.g1) + Len(r.base)
          /\ \A k \in 1 .. Len(N) : N[k] = IF k <= Len(r.g2) THEN r.g2[k]
               ELSE IF k <= Len(r.g2) + Len(r.g1) THEN r.g1[k - Len(r.g2)]
               ELSE r.base[k - Len(r.g2) - Len(r.g1)]
      BY <2>2, LinesOf
    <3>2. r.g2 = g.g1 /\ r.g1 = g.base /\ r.base = Absent /\ Len(Absent) = 0
      BY EmptySeq DEF Absent
    <3> HIDE DEF r, N
    <3> HIDE DEF m, b, d
    <3>3. Len(r.g2) = m /\ Len(r.g1) = b
      BY <3>2 DEF m, b
    <3>4. Len(N) = m + b
      BY <2>3, <3>1, <3>2, <3>3
    <3>5. \A k \in 1 .. Len(N) : k <= m + b
      BY <2>3, <3>4
    <3> QED
      BY <3>1, <3>2, <3>3, <3>4, <3>5
  <2>6. \A k \in 1 .. Len(N) : N[k] = M[k + d]
    <3> HIDE DEF d, m, b, M, N
    <3> SUFFICES ASSUME NEW k \in 1 .. Len(N) PROVE N[k] = M[k + d]
      OBVIOUS
    <3>1. /\ k + d \in 1 .. Len(M) /\ ~(k + d <= d)
          /\ (k + d <= d + m <=> k <= m) /\ (k + d) - d = k /\ (k + d) - d - m = k - m
      BY <2>3, <2>5
    <3> QED
      BY <2>3, <2>5, <3>1
  <2> HIDE DEF M, N, L, r, d, m, b
  <2>7. /\ Len(N) > 0 /\ Len(N) = Len(M) - d /\ d \in Nat /\ Len(M) \in Nat /\ Len(N) \in Nat
        /\ N[Len(N)] = M[Len(M)]
    <3>1. Len(N) > 0 /\ Len(N) = Len(M) - d /\ Len(M) \in Nat /\ Len(N) \in Nat
      BY <2>3, <2>4, <2>5
    <3>2. Len(N) \in 1 .. Len(N) /\ Len(N) + d = Len(M)
      BY <2>3, <3>1
    <3> QED
      BY <2>3, <2>6, <3>1, <3>2
  <2>8. Grown(L, M, 0, x)
    BY <1>1 DEF L, M
  <2>9. Len(L) \in Nat
    BY LinesOf DEF L
  <2>10. Grown(L, N, d, x)
    <3>1. \A k \in 1 .. Len(M) - 1 : M[k] = L[k]
      <4>1. \A k \in 1 .. Len(M) - 1 : k + 0 = k
        BY <2>7
      <4> QED
        BY <2>8, <4>1 DEF Grown
    <3>2. \A k \in 1 .. Len(N) - 1 : N[k] = L[k + d]
      <4>1. \A k \in 1 .. Len(N) - 1 : k \in 1 .. Len(N) /\ k + d \in 1 .. Len(M) - 1
        BY <2>7
      <4> QED
        BY <2>6, <3>1, <4>1
    <3>3. CASE Len(M) = Len(L) - 0 + 1 /\ M[Len(M)] = x
      BY <2>7, <2>9, <3>2, <3>3 DEF Grown
    <3>4. CASE Len(M) = Len(L) - 0 /\ L[Len(L)].kind = "torn" /\ M[Len(M)] = Spoiled
      BY <2>7, <2>9, <3>2, <3>4 DEF Grown
    <3> QED
      BY <2>8, <3>3, <3>4 DEF Grown
  <2> QED
    BY <1>2, <2>1, <2>2, <2>10 DEF L, N, d
<1> QED
  BY <1>3, <1>4

\* The lines after a write are lines from before it and the new last one.
LEMMA GrownLines ==
    ASSUME NEW L \in Seq(Line), NEW N \in Seq(Line), NEW d, NEW x \in Line, Grown(L, N, d, x)
    PROVE  /\ Len(L) \in Nat /\ Len(N) \in Nat \ {0} /\ d \in Nat
           /\ \A k \in 1 .. Len(N) - 1 : k + d \in 1 .. Len(L) /\ N[k] = L[k + d]
           /\ \/ Len(N) = Len(L) - d + 1 /\ N[Len(N)] = x
              \/ /\ Len(N) = Len(L) - d /\ Len(L) \in 1 .. Len(L)
                 /\ L[Len(L)].kind = "torn" /\ N[Len(N)] = Spoiled
<1>1. Len(L) \in Nat /\ Len(N) \in Nat
  BY LenProperties
<1>2. d \in 0 .. Len(L)
  BY DEF Grown
<1>3. \/ Len(N) = Len(L) - d + 1 /\ N[Len(N)] = x
      \/ /\ Len(N) = Len(L) - d /\ Len(N) > 0
         /\ L[Len(L)].kind = "torn" /\ N[Len(N)] = Spoiled
  BY DEF Grown
<1>4. \A k \in 1 .. Len(N) - 1 : N[k] = L[k + d]
  BY DEF Grown
<1>5. Len(N) > 0 /\ Len(N) - 1 <= Len(L) - d
  BY <1>1, <1>2, <1>3
<1>6. \A k \in 1 .. Len(N) - 1 : k + d \in 1 .. Len(L)
  BY <1>1, <1>2, <1>5
<1> QED
  BY <1>1, <1>2, <1>3, <1>4, <1>5, <1>6

--------------------------------------------------------------------------------
(* What holds of the lines of a log *)

IsEntry(m) == m.kind = "entry"

Logger == [session : Sessions, seq : Nat, prev : Nat]

\* Hashes and numbers that were handed out; the first entry of all starts the
\* chain; only an entry refers to a payload.
Issued(m, c) ==
    /\ m.hash \in 0 .. c
    /\ IF IsEntry(m) THEN m.seq \in 1 .. c /\ (m.seq = 1 => m.prev = ZeroHash)
                     ELSE ~m.ref

Bounded(L, c)  == \A k \in 1 .. Len(L) : Issued(L[k], c)
Clean(L)       == \A k \in 1 .. Len(L) : IsEntry(L[k])
Below(L, n)    == \A k \in 1 .. Len(L) : IsEntry(L[k]) => L[k].seq <= n
Matched(L, v)  == \A k \in 1 .. Len(L) : L[k].ref =>
                      L[k].seq \in DOMAIN v /\ v[L[k].seq] = L[k].hash
Rising(L)      == \A k \in 1 .. Len(L), m \in 1 .. Len(L) :
                      k < m /\ IsEntry(L[k]) /\ IsEntry(L[m]) => L[k].seq < L[m].seq
Chained(L)     == \A k \in 2 .. Len(L) :
                      L[k].seq = L[k - 1].seq + 1 /\ L[k].prev = L[k - 1].hash
AtEnd(L, l)    == IF Len(L) = 0 THEN l.seq = 0
                  ELSE l.seq = L[Len(L)].seq /\ l.prev = L[Len(L)].hash

\* A log that grows by a line refers to hashes handed out by then.
LEMMA GrownBounded ==
    ASSUME NEW L \in Seq(Line), NEW N \in Seq(Line), NEW d, NEW x \in Line, Grown(L, N, d, x),
           NEW c \in Nat, NEW c2 \in Nat, c <= c2, Bounded(L, c), Issued(x, c2)
    PROVE  Bounded(N, c2)
<1> SUFFICES ASSUME NEW k \in 1 .. Len(N) PROVE Issued(N[k], c2)
  BY DEF Bounded
<1>1. Issued(Spoiled, c2)
  BY SpoiledLine DEF Issued, IsEntry
<1>2. CASE k \in 1 .. Len(N) - 1
  <2>1. k + d \in 1 .. Len(L) /\ N[k] = L[k + d]
    BY <1>2, GrownLines
  <2>2. L[k + d] \in Line /\ Issued(L[k + d], c)
    BY <2>1, ElementOfSeq DEF Bounded
  <2>3. \A m \in Line : Issued(m, c) => Issued(m, c2)
    BY DEF Issued, Line
  <2> QED
    BY <2>1, <2>2, <2>3
<1>3. CASE k = Len(N)
  BY <1>1, <1>3, GrownLines
<1> QED
  BY <1>2, <1>3, GrownLines

\* A log without a torn line keeps none when an entry is written.
LEMMA GrownClean ==
    ASSUME NEW L \in Seq(Line), NEW N \in Seq(Line), NEW d, NEW x \in Line, Grown(L, N, d, x),
           Clean(L), IsEntry(x)
    PROVE  Clean(N) /\ Len(N) = Len(L) - d + 1 /\ N[Len(N)] = x
<1>1. Len(N) = Len(L) - d + 1 /\ N[Len(N)] = x
  <2>1. \/ Len(N) = Len(L) - d + 1 /\ N[Len(N)] = x
        \/ Len(L) \in 1 .. Len(L) /\ L[Len(L)].kind = "torn"
    BY GrownLines
  <2>2. ~(Len(L) \in 1 .. Len(L) /\ L[Len(L)].kind = "torn")
    BY DEF Clean, IsEntry
  <2> QED
    BY <2>1, <2>2
<1>2. ASSUME NEW k \in 1 .. Len(N) PROVE IsEntry(N[k])
  <2>1. k \in 1 .. Len(N) - 1 \/ k = Len(N)
    BY GrownLines
  <2> QED
    BY <1>1, <2>1, GrownLines DEF Clean
<1> QED
  BY <1>1, <1>2 DEF Clean

\* The numbers go on rising behind a line with a number above all others.
LEMMA GrownRising ==
    ASSUME NEW L \in Seq(Line), NEW N \in Seq(Line), NEW d, NEW x \in Line, Grown(L, N, d, x),
           Rising(L), NEW n \in Nat, Below(L, n), IsEntry(x) => x.seq = n + 1
    PROVE  Rising(N) /\ Below(N, IF IsEntry(x) THEN n + 1 ELSE n)
<1>0. ~IsEntry(Spoiled)
  BY SpoiledLine DEF IsEntry
<1>1. \A k \in 1 .. Len(N) : N[k] \in Line
  BY ElementOfSeq
<1>2. \A k \in 1 .. Len(N) - 1 : IsEntry(N[k]) => N[k].seq <= n
  BY GrownLines DEF Below
<1>3. IsEntry(N[Len(N)]) => IsEntry(x) /\ N[Len(N)].seq = n + 1
  BY <1>0, GrownLines
<1>4. Len(N) \in Nat \ {0}
  BY GrownLines
<1>5. ASSUME NEW k \in 1 .. Len(N), NEW m \in 1 .. Len(N), k < m, IsEntry(N[k]), IsEntry(N[m])
      PROVE  N[k].seq < N[m].seq
  <2>1. k \in 1 .. Len(N) - 1 /\ N[k].seq \in Nat
    <3>1. k \in 1 .. Len(N) - 1
      BY <1>4, <1>5
    <3>2. N[k] \in Line
      BY <1>1
    <3> QED
      BY <3>1, <3>2 DEF Line
  <2>2. CASE m = Len(N)
    BY <1>2, <1>3, <1>5, <2>1, <2>2
  <2>3. CASE m # Len(N)
    <3>1. m \in 1 .. Len(N) - 1
      BY <1>4, <2>3
    <3>2. /\ k + d \in 1 .. Len(L) /\ N[k] = L[k + d]
          /\ m + d \in 1 .. Len(L) /\ N[m] = L[m + d]
          /\ k + d < m + d
      BY <1>5, <2>1, <3>1, GrownLines
    <3> QED
      BY <1>5, <3>2 DEF Rising
  <2> QED
    BY <2>2, <2>3
<1>6. ASSUME NEW k \in 1 .. Len(N), IsEntry(N[k])
      PROVE  N[k].seq <= IF IsEntry(x) THEN n + 1 ELSE n
  <2>1. k \in 1 .. Len(N) - 1 \/ k = Len(N)
    BY <1>4
  <2>2. N[k].seq \in Nat
    BY <1>1 DEF Line
  <2> QED
    BY <1>2, <1>3, <1>6, <2>1, <2>2
<1> QED
  BY <1>5, <1>6 DEF Rising, Below

\* The payloads still match: the one that is stored has a number of its own.
LEMMA GrownMatched ==
    ASSUME NEW L \in Seq(Line), NEW N \in Seq(Line), NEW d, NEW x \in Line, Grown(L, N, d, x),
           NEW c, Bounded(L, c), NEW n \in Nat, Below(L, n),
           NEW v, Matched(L, v), NEW w,
           DOMAIN v \subseteq DOMAIN w, \A k \in DOMAIN v : k # n + 1 => w[k] = v[k],
           x.ref => x.seq \in DOMAIN w /\ w[x.seq] = x.hash
    PROVE  Matched(N, w)
<1> SUFFICES ASSUME NEW k \in 1 .. Len(N), N[k].ref
             PROVE  N[k].seq \in DOMAIN w /\ w[N[k].seq] = N[k].hash
  BY DEF Matched
<1>1. CASE k \in 1 .. Len(N) - 1
  <2>1. k + d \in 1 .. Len(L) /\ N[k] = L[k + d]
    BY <1>1, GrownLines
  <2>2. L[k + d] \in Line
    BY <2>1, ElementOfSeq
  <2>3. IsEntry(L[k + d]) /\ L[k + d].seq <= n
    BY <2>1 DEF Bounded, Issued, Below
  <2>4. L[k + d].seq # n + 1
    BY <2>2, <2>3 DEF Line
  <2>5. L[k + d].seq \in DOMAIN v /\ v[L[k + d].seq] = L[k + d].hash
    BY <2>1 DEF Matched
  <2> QED
    BY <2>1, <2>4, <2>5
<1>2. CASE k = Len(N)
  <2>1. N[k] = x
    BY <1>2, SpoiledLine, GrownLines
  <2> QED
    BY <2>1
<1>3. Len(N) \in Nat \ {0}
  BY GrownLines
<1> QED
  BY <1>1, <1>2, <1>3

\* An entry by a logger that stands at the end of the chain continues it.
LEMMA GrownChained ==
    ASSUME NEW L \in Seq(Line), NEW N \in Seq(Line), NEW d, NEW l \in Logger, NEW h, NEW raw,
           Entry(l, h, raw) \in Line, Grown(L, N, d, Entry(l, h, raw)),
           Clean(L), Chained(L), AtEnd(L, l)
    PROVE  Chained(N) /\ AtEnd(N, Advanced(l, Entry(l, h, raw)))
<1> DEFINE x == Entry(l, h, raw)
<1>1. IsEntry(x) /\ x.seq = l.seq + 1 /\ x.prev = l.prev
  BY DEF Entry, IsEntry
<1> HIDE DEF x
<1>2. Len(N) = Len(L) - d + 1 /\ N[Len(N)] = x
  BY <1>1, GrownClean DEF x
<1>3. Len(L) \in Nat /\ Len(N) \in Nat \ {0} /\ d \in Nat
      /\ \A k \in 1 .. Len(N) - 1 : k + d \in 1 .. Len(L) /\ N[k] = L[k + d]
  BY GrownLines DEF x
<1>4. ASSUME NEW k \in 2 .. Len(N)
      PROVE  N[k].seq = N[k - 1].seq + 1 /\ N[k].prev = N[k - 1].hash
  <2>0. k - 1 \in 1 .. Len(N) - 1
    BY <1>3
  <2>1. N[k - 1] = L[k - 1 + d] /\ k - 1 + d \in 1 .. Len(L)
    BY <1>3, <2>0
  <2>2. CASE k = Len(N)
    <3>1. k - 1 + d = Len(L) /\ Len(L) # 0
      BY <1>2, <1>3, <2>1, <2>2
    <3> QED
      BY <1>1, <1>2, <2>1, <2>2, <3>1 DEF AtEnd
  <2>3. CASE k # Len(N)
    <3>1. k \in 1 .. Len(N) - 1
      BY <1>3, <2>3
    <3>2. k + d \in 2 .. Len(L) /\ (k + d) - 1 = k - 1 + d /\ N[k] = L[k + d]
      BY <1>3, <2>1, <3>1
    <3> QED
      BY <2>1, <3>2 DEF Chained
  <2> QED
    BY <2>2, <2>3
<1> QED
  BY <1>2, <1>3, <1>4 DEF Chained, AtEnd, Advanced, Logger, x

--------------------------------------------------------------------------------
(* What holds of a log and of the loggers *)

NewestOf(ls, i) == \A j \in i + 1 .. Len(ls) : ls[j].session # ls[i].session

\* The newest logger of session s, if it has one.
Current(s, ls) == {i \in 1 .. Len(ls) : ls[i].session = s /\ NewestOf(ls, i)}

LoggersKempt(ls, c) ==
    /\ ls \in Seq(Logger)
    /\ \A i \in 1 .. Len(ls) :
          ls[i].seq \in 0 .. c /\ ls[i].prev \in 0 .. c /\ (ls[i].seq = 0 => ls[i].prev = ZeroHash)

\* The files f, payloads v and faults ft of session s, with the loggers ls, when
\* c hashes have been handed out.
Stored(f, v, c) ==
    /\ f \in Files /\ Bounded(Lines(f), c)
    /\ \A k \in DOMAIN v : k \in 1 .. c /\ v[k] \in 1 .. c

Untorn(f, ft) == "torn" \notin ft => Clean(Lines(f))

Numbered(s, f, v, ls, ft) ==
    ft \cap {"fork", "rebase"} = {} =>
        /\ Rising(Lines(f)) /\ Matched(Lines(f), v)
        /\ \A i \in Current(s, ls) : Below(Lines(f), ls[i].seq)

Linked(s, f, ls, ft) ==
    ft = {} => Chained(Lines(f)) /\ \A i \in Current(s, ls) : AtEnd(Lines(f), ls[i])

Kempt(s, f, v, ls, c, ft) ==
    Stored(f, v, c) /\ Untorn(f, ft) /\ Numbered(s, f, v, ls, ft) /\ Linked(s, f, ls, ft)

\* A session has one newest logger.
LEMMA OneCurrent ==
    ASSUME NEW ls \in Seq(Logger), NEW s, NEW i \in Current(s, ls), NEW j \in Current(s, ls)
    PROVE  i = j
<1>1. Len(ls) \in Nat /\ i \in 1 .. Len(ls) /\ j \in 1 .. Len(ls)
  BY LenProperties DEF Current
<1>2. ASSUME i < j PROVE FALSE
  <2>1. j \in i + 1 .. Len(ls)
    BY <1>1, <1>2
  <2> QED
    BY <2>1 DEF Current, NewestOf
<1>3. ASSUME j < i PROVE FALSE
  <2>1. i \in j + 1 .. Len(ls)
    BY <1>1, <1>3
  <2> QED
    BY <2>1 DEF Current, NewestOf
<1> QED
  BY <1>1, <1>2, <1>3

\* A logger that moves keeps its place.
LEMMA SameCurrent ==
    ASSUME NEW ls \in Seq(Logger), NEW i \in 1 .. Len(ls), NEW l \in Logger,
           l.session = ls[i].session
    PROVE  /\ [ls EXCEPT ![i] = l] \in Seq(Logger)
           /\ Len([ls EXCEPT ![i] = l]) = Len(ls)
           /\ [ls EXCEPT ![i] = l][i] = l
           /\ \A j \in 1 .. Len(ls) : j # i => [ls EXCEPT ![i] = l][j] = ls[j]
           /\ \A s : Current(s, [ls EXCEPT ![i] = l]) = Current(s, ls)
           /\ NewestOf(ls, i) <=> i \in Current(ls[i].session, ls)
<1> DEFINE ks == [ls EXCEPT ![i] = l]
<1>1. /\ ks \in Seq(Logger) /\ Len(ks) = Len(ls)
      /\ \A j \in 1 .. Len(ls) : ks[j] = IF j = i THEN l ELSE ls[j]
  BY ExceptSeq
<1>2. Len(ls) \in Nat
  BY LenProperties
<1> HIDE DEF ks
<1>3. \A j \in 1 .. Len(ls) : ks[j].session = ls[j].session
  BY <1>1
<1>4. \A j \in 1 .. Len(ls) : NewestOf(ks, j) <=> NewestOf(ls, j)
  <2>1. \A j \in 1 .. Len(ls), k \in Int : k \in j + 1 .. Len(ls) => k \in 1 .. Len(ls)
    BY <1>2
  <2> QED
    BY <1>1, <1>3, <2>1 DEF NewestOf
<1>5. \A s : Current(s, ks) = Current(s, ls)
  BY <1>1, <1>3, <1>4 DEF Current
<1> QED
  BY <1>1, <1>5 DEF ks, Current

\* A write by a logger that is not the newest one of the session is a fork.
ForkOf(ls, i) == IF NewestOf(ls, i) THEN {} ELSE {"fork"}

\* The payload of number n may have been stored, with a hash up to c.
Filed(v, w, n, c) ==
    /\ DOMAIN v \subseteq DOMAIN w /\ DOMAIN w \subseteq DOMAIN v \cup {n + 1}
    /\ \A k \in DOMAIN v : k # n + 1 => w[k] = v[k]
    /\ n + 1 \in DOMAIN w => w[n + 1] \in 1 .. c \/ (n + 1 \in DOMAIN v /\ w[n + 1] = v[n + 1])

\* A payload that is filed is kept under a number and a hash handed out.
LEMMA FiledStored ==
    ASSUME NEW v, NEW w, NEW n \in Nat, NEW c \in Nat, NEW c2 \in Nat, c < c2, n <= c, Filed(v, w, n, c2),
           \A k \in DOMAIN v : k \in 1 .. c /\ v[k] \in 1 .. c
    PROVE  \A k \in DOMAIN w : k \in 1 .. c2 /\ w[k] \in 1 .. c2
<1> SUFFICES ASSUME NEW k \in DOMAIN w PROVE k \in 1 .. c2 /\ w[k] \in 1 .. c2
  OBVIOUS
<1>1. \A y : y \in 1 .. c => y \in 1 .. c2
  OBVIOUS
<1>2. n + 1 \in 1 .. c2
  OBVIOUS
<1> QED
  BY <1>1, <1>2 DEF Filed

\* An entry that logger i writes: its payload, if it has one, is stored first.
LEMMA LogKeeps ==
    ASSUME NEW s, NEW f, NEW v, NEW ls, NEW c \in Nat, NEW ft,
           Kempt(s, f, v, ls, c, ft), LoggersKempt(ls, c),
           NEW i \in 1 .. Len(ls), ls[i].session = s,
           NEW h, NEW c2 \in Nat, h \in c + 1 .. c2, NEW raw \in BOOLEAN, NEW full \in BOOLEAN,
           NEW w, Filed(v, w, ls[i].seq, c2),
           raw => ls[i].seq + 1 \in DOMAIN w /\ w[ls[i].seq + 1] = h
    PROVE  LET x == Entry(ls[i], h, raw)
               ks == [ls EXCEPT ![i] = Advanced(ls[i], x)] IN
           /\ Kempt(s, Written(f, x, full), w, ks, c2, ft \cup ForkOf(ls, i))
           /\ LoggersKempt(ks, c2)
<1> DEFINE l == ls[i]
           x == Entry(l, h, raw)
           y == Advanced(l, x)
           ks == [ls EXCEPT ![i] = y]
           g == Written(f, x, full)
           L == Lines(f)
           N == Lines(g)
           fu == ft \cup ForkOf(ls, i)
<1>1. ls \in Seq(Logger) /\ l \in Logger /\ l.seq \in 0 .. c /\ l.prev \in 0 .. c
      /\ (l.seq = 0 => l.prev = ZeroHash)
  BY ElementOfSeq DEF LoggersKempt
<1>2. /\ x \in Line /\ IsEntry(x) /\ x.seq = l.seq + 1 /\ x.prev = l.prev /\ x.hash = h /\ x.ref = raw
      /\ Issued(x, c2)
  <2> HIDE DEF l
  <2>1. l.seq \in Nat /\ l.prev \in Nat /\ h \in Nat /\ l.seq + 1 \in 1 .. c2 /\ h \in 0 .. c2
    BY <1>1
  <2>2. l.seq + 1 = 1 => l.prev = ZeroHash
    BY <1>1, <2>1
  <2> QED
    BY <2>1, <2>2 DEF Entry, Line, IsEntry, Issued
<1>3. y \in Logger /\ y.session = l.session /\ y.seq = l.seq + 1 /\ y.prev = h
  <2> HIDE DEF x, l
  <2>1. l.seq + 1 \in Nat /\ h \in Nat
    BY <1>1
  <2> QED
    BY <1>1, <1>2, <2>1 DEF Advanced, Logger
<1>4. f \in Files /\ Bounded(L, c) /\ (\A k \in DOMAIN v : k \in 1 .. c /\ v[k] \in 1 .. c)
  BY DEF Kempt, Stored
<1>5. g \in Files /\ \E d \in {0, Len(f.g2)} : Grown(L, N, d, x)
  <2> HIDE DEF x
  <2> QED
    BY <1>2, <1>4, WrittenGrows
<1>6. PICK d \in {0, Len(f.g2)} : Grown(L, N, d, x)
  BY <1>5
<1>7. L \in Seq(Line) /\ N \in Seq(Line) /\ Len(L) \in Nat /\ Len(N) \in Nat \ {0}
  <2>1. L \in Seq(Line) /\ N \in Seq(Line)
    BY <1>4, <1>5, LinesOf
  <2> HIDE DEF L, N, x
  <2> QED
    BY <1>2, <1>6, <2>1, GrownLines
<1>8. /\ ks \in Seq(Logger) /\ Len(ks) = Len(ls) /\ ks[i] = y
      /\ \A j \in 1 .. Len(ls) : j # i => ks[j] = ls[j]
      /\ \A t : Current(t, ks) = Current(t, ls)
      /\ NewestOf(ls, i) <=> i \in Current(s, ls)
  <2> HIDE DEF y
  <2> QED
    BY <1>1, <1>3, SameCurrent
<1> HIDE DEF L, N, x, y, ks, g
<1>9. Stored(g, w, c2)
  <2>1. Bounded(N, c2)
    BY <1>2, <1>4, <1>6, <1>7, GrownBounded
  <2>2. \A k \in DOMAIN w : k \in 1 .. c2 /\ w[k] \in 1 .. c2
    <3> DEFINE n == l.seq
    <3>1. n \in Nat /\ n <= c /\ c < c2
      BY <1>1
    <3>2. Filed(v, w, n, c2)
      OBVIOUS
    <3> HIDE DEF n
    <3> QED
      BY <1>4, <3>1, <3>2, FiledStored
  <2> QED
    BY <1>5, <2>1, <2>2 DEF Stored, N
<1>10. Untorn(g, fu)
  <2>1. "torn" \notin fu => Clean(L)
    BY DEF Kempt, Untorn, L
  <2> QED
    BY <1>2, <1>6, <1>7, <2>1, GrownClean DEF Untorn, N
<1>11. fu \cap {"fork", "rebase"} = {} =>
          ft \cap {"fork", "rebase"} = {} /\ Current(s, ks) = {i}
  <2> SUFFICES ASSUME fu \cap {"fork", "rebase"} = {} PROVE NewestOf(ls, i)
    BY <1>1, <1>8, OneCurrent
  <2> QED
    BY DEF ForkOf
<1>12. Numbered(s, g, w, ks, fu)
  <2> SUFFICES ASSUME fu \cap {"fork", "rebase"} = {}
               PROVE  /\ Rising(N) /\ Matched(N, w)
                      /\ \A j \in Current(s, ks) : Below(N, ks[j].seq)
    BY DEF Numbered, N
  <2> DEFINE n == l.seq
  <2>1. Rising(L) /\ Matched(L, v) /\ Below(L, n) /\ n \in Nat
    BY <1>1, <1>8, <1>11 DEF Kempt, Numbered, L
  <2>2. x.seq = n + 1 /\ (x.ref => x.seq \in DOMAIN w /\ w[x.seq] = x.hash)
    BY <1>2
  <2>3. DOMAIN v \subseteq DOMAIN w /\ \A k \in DOMAIN v : k # n + 1 => w[k] = v[k]
    BY DEF Filed
  <2>4. ks[i].seq = n + 1
    BY <1>3, <1>8
  <2> HIDE DEF n
  <2>5. Rising(N) /\ Below(N, n + 1)
    BY <1>2, <1>6, <1>7, <2>1, <2>2, GrownRising
  <2>6. Matched(N, w)
    BY <1>4, <1>6, <1>7, <1>2, <2>1, <2>2, <2>3, GrownMatched
  <2> QED
    BY <1>11, <2>4, <2>5, <2>6
<1>13. Linked(s, g, ks, fu)
  <2> SUFFICES ASSUME fu = {}
               PROVE  Chained(N) /\ \A j \in Current(s, ks) : AtEnd(N, ks[j])
    BY DEF Linked, N
  <2>1. ft = {} /\ Current(s, ks) = {i}
    BY <1>11
  <2>2. Clean(L) /\ Chained(L) /\ AtEnd(L, l)
    BY <1>8, <2>1 DEF Kempt, Untorn, Linked, L
  <2>3. Chained(N) /\ AtEnd(N, y)
    <3> HIDE DEF l
    <3> QED
      BY <1>1, <1>2, <1>6, <1>7, <2>2, GrownChained DEF x, y
  <2> QED
    BY <1>8, <2>1, <2>3
<1>14. LoggersKempt(ks, c2)
  <2> SUFFICES ASSUME NEW j \in 1 .. Len(ls)
               PROVE  /\ ks[j].seq \in 0 .. c2 /\ ks[j].prev \in 0 .. c2
                      /\ ks[j].seq = 0 => ks[j].prev = ZeroHash
    BY <1>8 DEF LoggersKempt
  <2>1. CASE j = i
    <3> HIDE DEF l
    <3>1. l.seq + 1 \in 1 .. c2 /\ h \in 0 .. c2
      BY <1>1
    <3> QED
      BY <1>3, <1>8, <2>1, <3>1
  <2>2. CASE j # i
    <3>1. ks[j] = ls[j]
      BY <1>8, <2>2
    <3>2. \A z : z \in 0 .. c => z \in 0 .. c2
      OBVIOUS
    <3> QED
      BY <3>1, <3>2 DEF LoggersKempt
  <2> QED
    BY <2>1, <2>2
<1> QED
  BY <1>9, <1>10, <1>12, <1>13, <1>14 DEF Kempt, ks, g, y, x

\* Hashes that were handed out stay so.
LEMMA StoredLater ==
    ASSUME NEW f, NEW v, NEW c \in Nat, NEW c2 \in Nat, c <= c2, Stored(f, v, c)
    PROVE  Stored(f, v, c2)
<1>1. \A y : (y \in 0 .. c => y \in 0 .. c2) /\ (y \in 1 .. c => y \in 1 .. c2)
  OBVIOUS
<1>2. \A m : Issued(m, c) => Issued(m, c2)
  BY <1>1 DEF Issued
<1> QED
  BY <1>1, <1>2 DEF Stored, Bounded

\* Loggers stay as they should when more hashes are handed out.
LEMMA LoggersLater ==
    ASSUME NEW ls, NEW c \in Nat, NEW c2 \in Nat, c <= c2, LoggersKempt(ls, c)
    PROVE  LoggersKempt(ls, c2)
<1>1. \A y : y \in 0 .. c => y \in 0 .. c2
  OBVIOUS
<1> QED
  BY <1>1 DEF LoggersKempt

\* A write that fails: the payload is stored, a part of the line may be.
LEMMA FailKeeps ==
    ASSUME NEW s, NEW f, NEW v, NEW ls, NEW c \in Nat, NEW ft,
           Kempt(s, f, v, ls, c, ft), LoggersKempt(ls, c),
           NEW i \in 1 .. Len(ls), ls[i].session = s,
           NEW w, Filed(v, w, ls[i].seq, c + 1), NEW partly \in BOOLEAN
    PROVE  LET g == [f EXCEPT !.base = IF partly THEN Appended(f.base, Torn) ELSE f.base] IN
           Kempt(s, g, w, ls, c + 1, ft \cup ForkOf(ls, i) \cup (IF partly THEN {"torn"} ELSE {}))
<1> DEFINE n == ls[i].seq
           g == [f EXCEPT !.base = IF partly THEN Appended(f.base, Torn) ELSE f.base]
           L == Lines(f)
           N == Lines(g)
           fu == ft \cup ForkOf(ls, i) \cup (IF partly THEN {"torn"} ELSE {})
<1>1. ls \in Seq(Logger) /\ ls[i] \in Logger /\ n \in 0 .. c
  BY ElementOfSeq DEF LoggersKempt
<1>2. f \in Files /\ Stored(f, v, c) /\ Bounded(L, c)
  BY DEF Kempt, Stored
<1>3. Torn \in Line /\ ~IsEntry(Torn) /\ ~Torn.ref /\ Issued(Torn, c + 1)
  BY SpoiledLine DEF IsEntry, Issued
<1>4. IF partly THEN g \in Files /\ Grown(L, N, 0, Torn) ELSE g = f
  <2>1. CASE partly
    <3>1. g = [f EXCEPT !.base = Appended(f.base, Torn)]
      BY <2>1
    <3> HIDE DEF g
    <3> QED
      BY <1>2, <1>3, <2>1, <3>1, LinesGrow
  <2>2. CASE ~partly
    BY <1>2, <2>2 DEF Files
  <2> QED
    BY <2>1, <2>2
<1>5. L \in Seq(Line) /\ N \in Seq(Line)
  BY <1>2, <1>4, LinesOf
<1>6. \A k \in DOMAIN w : k \in 1 .. c + 1 /\ w[k] \in 1 .. c + 1
  <2>1. n \in Nat /\ n <= c /\ c + 1 \in Nat /\ c < c + 1 /\ Filed(v, w, n, c + 1)
    BY <1>1
  <2>2. \A k \in DOMAIN v : k \in 1 .. c /\ v[k] \in 1 .. c
    BY <1>2 DEF Stored
  <2> HIDE DEF n
  <2> QED
    BY <2>1, <2>2, FiledStored
<1> HIDE DEF n, g, L, N, fu
<1>7. Stored(g, w, c + 1)
  <2>1. Bounded(N, c + 1)
    <3>1. CASE partly
      BY <1>2, <1>3, <1>4, <1>5, <3>1, GrownBounded
    <3>2. CASE ~partly
      BY <1>2, <1>4, <3>2, StoredLater DEF Stored, N
    <3> QED
      BY <3>1, <3>2
  <2> QED
    BY <1>2, <1>4, <1>6, <2>1 DEF Stored, N
<1>8. Untorn(g, fu)
  BY <1>4 DEF Untorn, Kempt, fu
<1>9. fu \cap {"fork", "rebase"} = {} =>
         ft \cap {"fork", "rebase"} = {} /\ Current(s, ls) = {i}
  <2> SUFFICES ASSUME fu \cap {"fork", "rebase"} = {} PROVE i \in Current(s, ls)
    BY <1>1, OneCurrent DEF fu
  <2> QED
    BY DEF fu, ForkOf, Current
<1>10. Numbered(s, g, w, ls, fu)
  <2> SUFFICES ASSUME fu \cap {"fork", "rebase"} = {}
               PROVE  Rising(N) /\ Matched(N, w) /\ Below(N, n)
    BY <1>9 DEF Numbered, N, n
  <2>1. Rising(L) /\ Matched(L, v) /\ Below(L, n) /\ n \in Nat
    BY <1>1, <1>9 DEF Kempt, Numbered, L, n
  <2>2. DOMAIN v \subseteq DOMAIN w /\ \A k \in DOMAIN v : k # n + 1 => w[k] = v[k]
    BY DEF Filed, n
  <2>3. CASE partly
    <3>1. Rising(N) /\ Below(N, n)
      BY <1>3, <1>4, <1>5, <2>1, <2>3, GrownRising
    <3>2. Matched(N, w)
      BY <1>2, <1>3, <1>4, <1>5, <2>1, <2>2, <2>3, GrownMatched
    <3> QED
      BY <3>1, <3>2
  <2>4. CASE ~partly
    <3>1. N = L
      BY <1>4, <2>4 DEF N, L
    <3>2. ASSUME NEW k \in 1 .. Len(L), L[k].ref
          PROVE  L[k].seq \in DOMAIN w /\ w[L[k].seq] = L[k].hash
      <4>1. IsEntry(L[k]) /\ L[k].seq <= n /\ L[k] \in Line
        BY <1>2, <1>5, <2>1, <3>2, ElementOfSeq DEF Bounded, Issued, Below
      <4>2. L[k].seq # n + 1
        BY <2>1, <4>1 DEF Line
      <4>3. L[k].seq \in DOMAIN v /\ v[L[k].seq] = L[k].hash
        BY <2>1, <3>2 DEF Matched
      <4> QED
        BY <2>2, <4>2, <4>3
    <3> QED
      BY <2>1, <3>1, <3>2 DEF Matched
  <2> QED
    BY <2>3, <2>4
<1>11. Linked(s, g, ls, fu)
  <2> SUFFICES ASSUME fu = {} PROVE Linked(s, f, ls, ft) /\ ft = {} /\ g = f
    BY DEF Linked
  <2> QED
    BY <1>4 DEF Kempt, fu
<1> QED
  BY <1>7, <1>8, <1>10, <1>11 DEF Kempt, g, fu

\* The other logs are as they were, whatever a logger of session s does.
LEMMA ElsewhereKept ==
    ASSUME NEW t, NEW f, NEW v, NEW ls \in Seq(Logger), NEW c \in Nat, NEW ft,
           Kempt(t, f, v, ls, c, ft),
           NEW i \in 1 .. Len(ls), ls[i].session # t, NEW l \in Logger, l.session = ls[i].session,
           NEW c2 \in Nat, c <= c2
    PROVE  Kempt(t, f, v, [ls EXCEPT ![i] = l], c2, ft)
<1> DEFINE ks == [ls EXCEPT ![i] = l]
<1>1. Current(t, ks) = Current(t, ls) /\ \A j \in Current(t, ls) : ks[j] = ls[j]
  <2>1. \A j \in Current(t, ls) : j \in 1 .. Len(ls) /\ j # i
    BY DEF Current
  <2> QED
    BY <2>1, SameCurrent
<1>2. Stored(f, v, c2)
  BY StoredLater DEF Kempt
<1> HIDE DEF ks
<1> QED
  BY <1>1, <1>2 DEF Kempt, Numbered, Linked, ks

\* A log stays well kept when more hashes are handed out.
LEMMA LaterKept ==
    ASSUME NEW t, NEW f, NEW v, NEW ls, NEW c \in Nat, NEW ft, Kempt(t, f, v, ls, c, ft),
           NEW c2 \in Nat, c <= c2
    PROVE  Kempt(t, f, v, ls, c2, ft)
  BY StoredLater DEF Kempt

\* The logger that is made for a log it can read.
LEMMA OpenedAtEnd ==
    ASSUME NEW s \in Sessions, NEW f \in Files, NEW c \in Nat, Bounded(Lines(f), c), Readable(f)
    PROVE  LET o == Opened(s, f) IN
           /\ o \in Logger /\ o.session = s /\ o.seq \in 0 .. c /\ o.prev \in 0 .. c
           /\ o.seq = 0 => o.prev = ZeroHash
           /\ ~Rebased(f) => AtEnd(Lines(f), o)
           /\ ~Rebased(f) /\ Rising(Lines(f)) => Below(Lines(f), o.seq)
<1> DEFINE L == Lines(f)
           o == Opened(s, f)
<1>1. L \in Seq(Line) /\ Len(L) \in Nat
  <2>1. L \in Seq(Line)
    BY LinesOf
  <2> HIDE DEF L
  <2> QED
    BY <2>1, LenProperties
<1>2. CASE f.base = Absent
  <2>1. o = [session |-> s, seq |-> 0, prev |-> ZeroHash]
    BY <1>2 DEF Opened
  <2>2. ~Rebased(f) => Len(L) = 0
    BY <1>2, EmptySeq DEF Rebased
  <2>3. o \in Logger /\ o.session = s /\ o.seq = 0 /\ o.prev = ZeroHash /\ 0 \in 0 .. c
    BY <2>1 DEF Logger, ZeroHash
  <2> HIDE DEF L, o
  <2>4. Len(L) = 0 => Below(L, o.seq)
    BY DEF Below
  <2> QED
    BY <2>2, <2>3, <2>4 DEF L, o, AtEnd, ZeroHash
<1>3. CASE f.base # Absent
  <2> DEFINE F == f.g2 \o f.base
             p == Len(f.g2)
             q == Len(f.g1)
             b == Len(f.base)
  <2>1. f.g2 \in Seq(Line) /\ f.base \in Seq(Line) /\ p \in Nat /\ q \in Nat /\ b \in Nat \ {0}
    BY <1>3, LinesOf, EmptySeq DEF Files, Absent
  <2>2. /\ F \in Seq(Line) /\ Len(F) = p + b
        /\ \A k \in 1 .. p + b : F[k] = IF k <= p THEN f.g2[k] ELSE f.base[k - p]
    BY <2>1, ConcatProperties
  <2>3. /\ Len(L) = p + q + b
        /\ \A k \in 1 .. Len(L) : L[k] = IF k <= p THEN f.g2[k]
              ELSE IF k <= p + q THEN f.g1[k - p] ELSE f.base[k - p - q]
    BY LinesOf
  <2>4. o = [session |-> s, seq |-> Last(F).seq, prev |-> Last(F).hash]
    BY <1>3 DEF Opened, Found
  <2>5. \A k \in DOMAIN F : F[k].kind = "entry"
    BY <1>3 DEF Readable, Found
  <2> HIDE DEF F, p, q, b, L, o
  <2>6. Last(F) = f.base[b] /\ IsEntry(Last(F))
    <3>1. p + b \in 1 .. p + b /\ ~(p + b <= p) /\ (p + b) - p = b
      BY <2>1
    <3>2. DOMAIN F = 1 .. p + b
      BY <2>2, LenProperties
    <3> QED
      BY <2>2, <2>5, <3>1, <3>2 DEF Last, IsEntry
  <2>7. L[Len(L)] = f.base[b] /\ Len(L) \in 1 .. Len(L)
    <3>1. /\ p + q + b \in 1 .. p + q + b /\ ~(p + q + b <= p) /\ ~(p + q + b <= p + q)
          /\ (p + q + b) - p - q = b
      BY <2>1
    <3> QED
      BY <2>3, <3>1
  <2> DEFINE m == L[Len(L)]
  <2>8. m \in Line /\ Issued(m, c) /\ IsEntry(m) /\ Last(F) = m
    BY <1>1, <2>6, <2>7, ElementOfSeq DEF Bounded, L
  <2>9. o.session = s /\ o.seq = m.seq /\ o.prev = m.hash /\ o = [session |-> s, seq |-> m.seq, prev |-> m.hash]
    BY <2>4, <2>8
  <2> HIDE DEF m
  <2>10. o \in Logger /\ o.seq \in 1 .. c /\ o.prev \in 0 .. c
    BY <2>8, <2>9 DEF Logger, Line, Issued
  <2>11. AtEnd(L, o)
    BY <2>7, <2>9 DEF AtEnd, m
  <2>12. ASSUME Rising(L), NEW k \in 1 .. Len(L), IsEntry(L[k]) PROVE L[k].seq <= o.seq
    <3>1. L[k] \in Line
      BY <1>1, ElementOfSeq
    <3>2. CASE k = Len(L)
      BY <2>9, <3>1, <3>2 DEF m, Line
    <3>3. CASE k # Len(L)
      <4>1. k < Len(L)
        BY <1>1, <3>3
      <4>2. L[k].seq < m.seq
        BY <2>7, <2>8, <2>12, <4>1 DEF Rising, m
      <4> QED
        BY <2>8, <2>9, <3>1, <4>2 DEF Line
    <3> QED
      BY <3>2, <3>3
  <2>13. Rising(L) => Below(L, o.seq)
    BY <2>12 DEF Below
  <2>14. o.seq \in 0 .. c /\ o.seq # 0
    BY <2>10
  <2> QED
    BY <2>9, <2>10, <2>11, <2>13, <2>14 DEF L, o
<1> QED
  BY <1>2, <1>3

\* A logger is added: it is the newest of its session, the others stay what
\* they are.
LEMMA AddedCurrent ==
    ASSUME NEW ls \in Seq(Logger), NEW o \in Logger, NEW c, LoggersKempt(ls, c),
           o.seq \in 0 .. c, o.prev \in 0 .. c, o.seq = 0 => o.prev = ZeroHash
    PROVE  LET ks == Append(ls, o) IN
           /\ LoggersKempt(ks, c) /\ Len(ks) = Len(ls) + 1 /\ ks[Len(ls) + 1] = o
           /\ \A j \in 1 .. Len(ls) : ks[j] = ls[j]
           /\ Current(o.session, ks) = {Len(ls) + 1}
           /\ \A t : t # o.session => Current(t, ks) = Current(t, ls)
<1> DEFINE ks == Append(ls, o)
           n == Len(ls)
<1>1. /\ ks \in Seq(Logger) /\ Len(ks) = n + 1 /\ ks[n + 1] = o
      /\ \A j \in 1 .. n : ks[j] = ls[j]
      /\ n \in Nat
  BY AppendProperties, LenProperties
<1> HIDE DEF ks, n
<1>2. LoggersKempt(ks, c)
  <2> SUFFICES ASSUME NEW j \in 1 .. n + 1
               PROVE  /\ ks[j].seq \in 0 .. c /\ ks[j].prev \in 0 .. c
                      /\ ks[j].seq = 0 => ks[j].prev = ZeroHash
    BY <1>1 DEF LoggersKempt
  <2>1. j \in 1 .. n \/ j = n + 1
    BY <1>1
  <2> QED
    BY <1>1, <2>1 DEF LoggersKempt, n
<1>3. \A j \in 1 .. n : NewestOf(ks, j) <=> NewestOf(ls, j) /\ o.session # ls[j].session
  <2> SUFFICES ASSUME NEW j \in 1 .. n
               PROVE  NewestOf(ks, j) <=> NewestOf(ls, j) /\ o.session # ls[j].session
    OBVIOUS
  <2>1. j + 1 .. n + 1 = (j + 1 .. n) \cup {n + 1} /\ \A k \in j + 1 .. n : k \in 1 .. n
    BY <1>1
  <2> QED
    BY <1>1, <2>1 DEF NewestOf, n
<1>4. NewestOf(ks, n + 1)
  <2>1. (n + 1) + 1 .. n + 1 = {}
    BY <1>1
  <2> QED
    BY <1>1, <2>1 DEF NewestOf
<1>5. 1 .. n + 1 = (1 .. n) \cup {n + 1}
  BY <1>1
<1>6. Current(o.session, ks) = {n + 1}
  BY <1>1, <1>3, <1>4, <1>5 DEF Current
<1>7. ASSUME NEW t, t # o.session PROVE Current(t, ks) = Current(t, ls)
  BY <1>1, <1>3, <1>5, <1>7 DEF Current, n
<1> QED
  BY <1>1, <1>2, <1>6, <1>7 DEF ks, n

Anew(f) == IF Rebased(f) THEN {"rebase"} ELSE {}

\* Opening a log that can be read, noting it if its entries are counted anew.
LEMMA OpenKeeps ==
    ASSUME NEW s \in Sessions, NEW f, NEW v, NEW ls, NEW c \in Nat, NEW ft,
           Kempt(s, f, v, ls, c, ft), LoggersKempt(ls, c), Readable(f)
    PROVE  LET ks == Append(ls, Opened(s, f)) IN
           Kempt(s, f, v, ks, c, ft \cup Anew(f))
<1> DEFINE o == Opened(s, f)
           ks == Append(ls, o)
           fu == ft \cup Anew(f)
<1>1. f \in Files /\ Bounded(Lines(f), c) /\ ls \in Seq(Logger)
  BY DEF Kempt, Stored, LoggersKempt
<1>2. /\ o \in Logger /\ o.session = s /\ o.seq \in 0 .. c /\ o.prev \in 0 .. c
      /\ o.seq = 0 => o.prev = ZeroHash
      /\ ~Rebased(f) => AtEnd(Lines(f), o)
      /\ ~Rebased(f) /\ Rising(Lines(f)) => Below(Lines(f), o.seq)
  BY <1>1, OpenedAtEnd
<1> HIDE DEF o
<1>3. ks[Len(ls) + 1] = o /\ Current(s, ks) = {Len(ls) + 1}
  BY <1>1, <1>2, AddedCurrent
<1> HIDE DEF ks
<1>4. Numbered(s, f, v, ks, fu)
  BY <1>2, <1>3 DEF Kempt, Numbered, Anew
<1>5. Linked(s, f, ks, fu)
  BY <1>2, <1>3 DEF Kempt, Linked, Anew
<1>6. Untorn(f, fu)
  BY DEF Kempt, Untorn
<1> QED
  BY <1>4, <1>5, <1>6 DEF Kempt, ks, o

\* A logger that is made for another session leaves a log well kept.
LEMMA ElsewhereOpened ==
    ASSUME NEW t, NEW f, NEW v, NEW ls \in Seq(Logger), NEW c \in Nat, NEW ft,
           Kempt(t, f, v, ls, c, ft), LoggersKempt(ls, c), NEW o \in Logger, o.session # t,
           o.seq \in 0 .. c, o.prev \in 0 .. c, o.seq = 0 => o.prev = ZeroHash
    PROVE  Kempt(t, f, v, Append(ls, o), c, ft)
<1> DEFINE ks == Append(ls, o)
<1>1. Current(t, ks) = Current(t, ls) /\ \A j \in Current(t, ls) : ks[j] = ls[j]
  <2>1. \A j \in Current(t, ls) : j \in 1 .. Len(ls)
    BY DEF Current
  <2> QED
    BY <2>1, AddedCurrent
<1> HIDE DEF ks
<1> QED
  BY <1>1 DEF Kempt, Numbered, Linked, ks

--------------------------------------------------------------------------------
(* The logs of all sessions *)

AllKempt(fs, vs, ls, c, fts) ==
    /\ fs \in [Sessions -> Files]
    /\ vs = [t \in Sessions |-> vs[t]] /\ fts = [t \in Sessions |-> fts[t]]
    /\ LoggersKempt(ls, c)
    /\ \A t \in Sessions : Kempt(t, fs[t], vs[t], ls, c, fts[t])

\* A logger writes an entry: to its own log, the others are left alone.
LEMMA AllLog ==
    ASSUME NEW fs, NEW vs, NEW ls, NEW c \in Nat, NEW fts, AllKempt(fs, vs, ls, c, fts),
           NEW i \in 1 .. Len(ls), NEW h, NEW c2 \in Nat, h \in c + 1 .. c2,
           NEW raw \in BOOLEAN, NEW full \in BOOLEAN,
           NEW w, Filed(vs[ls[i].session], w, ls[i].seq, c2),
           raw => ls[i].seq + 1 \in DOMAIN w /\ w[ls[i].seq + 1] = h
    PROVE  LET x == Entry(ls[i], h, raw) IN
           AllKempt([fs EXCEPT ![ls[i].session] = Written(@, x, full)],
                    [vs EXCEPT ![ls[i].session] = w],
                    [ls EXCEPT ![i] = Advanced(ls[i], x)], c2,
                    [fts EXCEPT ![ls[i].session] = @ \cup ForkOf(ls, i)])
<1> DEFINE l == ls[i]
           s == l.session
           x == Entry(l, h, raw)
           y == Advanced(l, x)
           ks == [ls EXCEPT ![i] = y]
           g == Written(fs[s], x, full)
<1>1. /\ ls \in Seq(Logger) /\ l \in Logger /\ s \in Sessions /\ l.seq \in Nat
      /\ LoggersKempt(ls, c)
  <2>1. ls \in Seq(Logger) /\ LoggersKempt(ls, c)
    BY DEF AllKempt, LoggersKempt
  <2>2. l \in Logger
    BY <2>1, ElementOfSeq
  <2> QED
    BY <2>1, <2>2 DEF Logger
<1>2. /\ fs \in [Sessions -> Files] /\ vs = [t \in Sessions |-> vs[t]]
      /\ fts = [t \in Sessions |-> fts[t]]
      /\ \A t \in Sessions : Kempt(t, fs[t], vs[t], ls, c, fts[t])
  BY DEF AllKempt
<1>3. Kempt(s, g, w, ks, c2, fts[s] \cup ForkOf(ls, i)) /\ LoggersKempt(ks, c2)
  BY <1>1, <1>2, LogKeeps
<1>4. g \in Files
  BY <1>3 DEF Kempt, Stored
<1>5. y \in Logger /\ y.session = s
  <2>1. h \in Nat /\ l.seq + 1 \in Nat
    BY <1>1
  <2> HIDE DEF l
  <2> QED
    BY <1>1, <2>1 DEF Advanced, Entry, Logger
<1>6. ASSUME NEW t \in Sessions, t # s
      PROVE  Kempt(t, fs[t], vs[t], ks, c2, fts[t])
  <2>1. Kempt(t, fs[t], vs[t], ls, c, fts[t]) /\ c <= c2
    BY <1>2
  <2> HIDE DEF y
  <2> QED
    BY <1>1, <1>5, <1>6, <2>1, ElsewhereKept
<1> HIDE DEF g, ks, y, x, l
<1>7. /\ [fs EXCEPT ![s] = g] \in [Sessions -> Files]
      /\ \A t \in Sessions : [fs EXCEPT ![s] = g][t] = IF t = s THEN g ELSE fs[t]
  BY <1>1, <1>2, <1>4
<1>8. \A t \in Sessions : [vs EXCEPT ![s] = w][t] = IF t = s THEN w ELSE vs[t]
  BY <1>1, <1>2
<1>9. /\ [vs EXCEPT ![s] = w] = [t \in Sessions |-> [vs EXCEPT ![s] = w][t]]
      /\ [fts EXCEPT ![s] = @ \cup ForkOf(ls, i)]
            = [t \in Sessions |-> [fts EXCEPT ![s] = @ \cup ForkOf(ls, i)][t]]
  BY <1>1, <1>2
<1>10. \A t \in Sessions : [fts EXCEPT ![s] = @ \cup ForkOf(ls, i)][t] =
          IF t = s THEN fts[s] \cup ForkOf(ls, i) ELSE fts[t]
  BY <1>1, <1>2
<1>11. AllKempt([fs EXCEPT ![s] = g], [vs EXCEPT ![s] = w], ks, c2,
                [fts EXCEPT ![s] = @ \cup ForkOf(ls, i)])
  BY <1>3, <1>6, <1>7, <1>8, <1>9, <1>10 DEF AllKempt
<1>12. [fs EXCEPT ![s] = Written(@, x, full)] = [fs EXCEPT ![s] = g]
  BY <1>1, <1>2 DEF g
<1> QED
  BY <1>11, <1>12 DEF ks, y, x, l

\* The write of a logger fails in its own log, the others are left alone.
LEMMA AllFail ==
    ASSUME NEW fs, NEW vs, NEW ls, NEW c \in Nat, NEW fts, AllKempt(fs, vs, ls, c, fts),
           NEW i \in 1 .. Len(ls), NEW partly \in BOOLEAN,
           NEW w, Filed(vs[ls[i].session], w, ls[i].seq, c + 1)
    PROVE  AllKempt([fs EXCEPT ![ls[i].session].base = IF partly THEN Appended(@, Torn) ELSE @],
                    [vs EXCEPT ![ls[i].session] = w], ls, c + 1,
                    [fts EXCEPT ![ls[i].session] =
                       @ \cup ForkOf(ls, i) \cup (IF partly THEN {"torn"} ELSE {})])
<1> DEFINE l == ls[i]
           s == l.session
           g == [fs[s] EXCEPT !.base = IF partly THEN Appended(fs[s].base, Torn)
                                       ELSE fs[s].base]
           fu == fts[s] \cup ForkOf(ls, i) \cup (IF partly THEN {"torn"} ELSE {})
           gs == [fs EXCEPT ![s].base = IF partly THEN Appended(@, Torn) ELSE @]
           ws == [vs EXCEPT ![s] = w]
           us == [fts EXCEPT ![s] = @ \cup ForkOf(ls, i) \cup (IF partly THEN {"torn"} ELSE {})]
<1>1. /\ ls \in Seq(Logger) /\ LoggersKempt(ls, c) /\ fs \in [Sessions -> Files]
      /\ vs = [t \in Sessions |-> vs[t]] /\ fts = [t \in Sessions |-> fts[t]]
      /\ \A t \in Sessions : Kempt(t, fs[t], vs[t], ls, c, fts[t])
  BY DEF AllKempt, LoggersKempt
<1>2. l \in Logger /\ s \in Sessions
  <2>1. l \in Logger
    BY <1>1, ElementOfSeq
  <2> QED
    BY <2>1 DEF Logger
<1>3. c + 1 \in Nat /\ c <= c + 1
  OBVIOUS
<1>4. Kempt(s, g, w, ls, c + 1, fu)
  BY <1>1, <1>2, FailKeeps
<1>5. g \in Files
  BY <1>4 DEF Kempt, Stored
<1>6. LoggersKempt(ls, c + 1) /\ \A t \in Sessions : Kempt(t, fs[t], vs[t], ls, c + 1, fts[t])
  BY <1>1, <1>3, LoggersLater, LaterKept
<1>7. gs = [fs EXCEPT ![s] = g] /\ us = [fts EXCEPT ![s] = fu]
  BY <1>1, <1>2
<1> HIDE DEF g, fu, gs, us, l
<1>8. /\ gs \in [Sessions -> Files] /\ gs[s] = g
      /\ \A t \in Sessions : t # s => gs[t] = fs[t]
  BY <1>1, <1>2, <1>5, <1>7
<1>9. /\ ws = [t \in Sessions |-> ws[t]] /\ ws[s] = w
      /\ \A t \in Sessions : t # s => ws[t] = vs[t]
  BY <1>1, <1>2
<1>10. /\ us = [t \in Sessions |-> us[t]] /\ us[s] = fu
       /\ \A t \in Sessions : t # s => us[t] = fts[t]
  BY <1>1, <1>2, <1>7
<1> HIDE DEF ws
<1>11. ASSUME NEW t \in Sessions PROVE Kempt(t, gs[t], ws[t], ls, c + 1, us[t])
  <2>1. CASE t = s
    BY <1>4, <1>8, <1>9, <1>10, <2>1
  <2>2. CASE t # s
    BY <1>6, <1>8, <1>9, <1>10, <2>2
  <2> QED
    BY <2>1, <2>2
<1>12. AllKempt(gs, ws, ls, c + 1, us)
  BY <1>6, <1>8, <1>9, <1>10, <1>11 DEF AllKempt
<1> QED
  BY <1>12 DEF gs, ws, us, l

\* A vault that does not change has nothing filed.
LEMMA SameFiled == \A v, n, c : Filed(v, v, n, c)
  BY DEF Filed

\* What Kept files: the payload of the next number, if it is asked to.
LEMMA KeptFiled ==
    ASSUME NEW v, NEW l, NEW c, NEW h \in 1 .. c, NEW raw \in BOOLEAN
    PROVE  /\ Filed(v, Kept(v, l, h, raw), l.seq, c)
           /\ raw => l.seq + 1 \in DOMAIN Kept(v, l, h, raw) /\ Kept(v, l, h, raw)[l.seq + 1] = h
<1>1. CASE raw
  BY <1>1 DEF Kept, Filed, PayloadKey
<1>2. CASE ~raw
  BY <1>2, SameFiled DEF Kept
<1> QED
  BY <1>1, <1>2

\* All logs stay well kept when more hashes are handed out.
LEMMA AllLater ==
    ASSUME NEW fs, NEW vs, NEW ls, NEW c \in Nat, NEW fts, AllKempt(fs, vs, ls, c, fts),
           NEW c2 \in Nat, c <= c2
    PROVE  AllKempt(fs, vs, ls, c2, fts)
  BY LaterKept, LoggersLater DEF AllKempt

\* The log of s is opened.
LEMMA AllOpen ==
    ASSUME NEW fs, NEW vs, NEW ls, NEW c \in Nat, NEW fts, AllKempt(fs, vs, ls, c, fts),
           NEW s \in Sessions, Readable(fs[s])
    PROVE  LET o == Opened(s, fs[s]) IN
           /\ AllKempt(fs, vs, Append(ls, o), c,
                       [fts EXCEPT ![s] = @ \cup Anew(fs[s])])
           /\ o \in Logger /\ o.session = s
<1> DEFINE o == Opened(s, fs[s])
           ks == Append(ls, o)
           fu == [fts EXCEPT ![s] = @ \cup Anew(fs[s])]
<1>1. /\ fs \in [Sessions -> Files] /\ vs = [t \in Sessions |-> vs[t]]
      /\ fts = [t \in Sessions |-> fts[t]] /\ LoggersKempt(ls, c) /\ ls \in Seq(Logger)
      /\ \A t \in Sessions : Kempt(t, fs[t], vs[t], ls, c, fts[t])
  BY DEF AllKempt, LoggersKempt
<1>2. fs[s] \in Files /\ Bounded(Lines(fs[s]), c)
  BY <1>1 DEF Kempt, Stored
<1>3. /\ o \in Logger /\ o.session = s /\ o.seq \in 0 .. c /\ o.prev \in 0 .. c
      /\ o.seq = 0 => o.prev = ZeroHash
  BY <1>2, OpenedAtEnd
<1>4. LoggersKempt(ks, c)
  <2> HIDE DEF o
  <2> QED
    BY <1>1, <1>3, AddedCurrent
<1>5. Kempt(s, fs[s], vs[s], ks, c, fts[s] \cup Anew(fs[s]))
  BY <1>1, OpenKeeps
<1>6. ASSUME NEW t \in Sessions, t # s PROVE Kempt(t, fs[t], vs[t], ks, c, fts[t])
  <2> HIDE DEF o
  <2> QED
    BY <1>1, <1>3, <1>6, ElsewhereOpened
<1> HIDE DEF o, ks
<1>7. /\ fu = [t \in Sessions |-> fu[t]]
      /\ fu[s] = fts[s] \cup Anew(fs[s])
      /\ \A t \in Sessions : t # s => fu[t] = fts[t]
  BY <1>1
<1> HIDE DEF fu
<1>8. \A t \in Sessions : Kempt(t, fs[t], vs[t], ks, c, fu[t])
  BY <1>5, <1>6, <1>7
<1> QED
  BY <1>1, <1>3, <1>4, <1>7, <1>8 DEF AllKempt, ks, o, fu

--------------------------------------------------------------------------------
(* The process *)

LogInv ==
    /\ session \in Sessions /\ clock \in 0 .. MaxEntries /\ Live \in 1 .. MaxLoggers
    /\ stranded \in BOOLEAN
    /\ faults \in [Sessions -> SUBSET {"fork", "rebase", "torn"}]
    /\ AllKempt(files, vault, loggers, clock, faults)
    /\ LoggerFollowsSession

\* There are no lines and no loggers at the start.
LEMMA LogInvInit == Init => LogInv
<1> SUFFICES ASSUME Init PROVE LogInv
  OBVIOUS
<1> DEFINE f == [g2 |-> Absent, g1 |-> Absent, base |-> Absent]
           l == [session |-> First, seq |-> 0, prev |-> ZeroHash]
<1>1. f \in Files /\ Len(Lines(f)) = 0
  <2>1. f \in Files /\ Len(f.g2) = 0 /\ Len(f.g1) = 0 /\ Len(f.base) = 0
    BY EmptySeq DEF Files, Absent
  <2> HIDE DEF f
  <2>2. Len(Lines(f)) = Len(f.g2) + Len(f.g1) + Len(f.base)
    BY <2>1, LinesOf
  <2> QED
    BY <2>1, <2>2
<1>2. /\ files = [t \in Sessions |-> f] /\ vault = [t \in Sessions |-> <<>>]
      /\ faults = [t \in Sessions |-> {}] /\ loggers = <<l>> /\ clock = 0 /\ session = First
      /\ stranded = FALSE
  BY DEF Init
<1>3. First \in Sessions /\ MaxEntries \in Nat /\ MaxLoggers \in Nat \ {0}
  BY AuditAssumption
<1>4. l \in Logger /\ l.seq = 0 /\ l.prev = ZeroHash /\ l.session = First
  BY <1>3 DEF Logger, ZeroHash
<1> HIDE DEF f, l
<1>5. loggers \in Seq(Logger) /\ Len(loggers) = 1 /\ loggers[1] = l
  BY <1>2, <1>4
<1>6. LoggersKempt(loggers, 0)
  BY <1>4, <1>5 DEF LoggersKempt, ZeroHash
<1>7. \A t \in Sessions : Kempt(t, f, <<>>, loggers, 0, {})
  <2>1. DOMAIN <<>> = {}
    OBVIOUS
  <2>3. \A t \in Sessions : \A j \in Current(t, loggers) : loggers[j].seq = 0
    BY <1>4, <1>5 DEF Current
  <2> QED
    BY <1>1, <2>1, <2>3 DEF Kempt, Stored, Untorn, Numbered, Linked, Bounded, Clean, Rising,
       Matched, Below, Chained, AtEnd
<1>8. AllKempt(files, vault, loggers, clock, faults)
  BY <1>1, <1>2, <1>6, <1>7 DEF AllKempt
<1>9. LoggerFollowsSession
  BY <1>2, <1>4, <1>5 DEF LoggerFollowsSession, Live
<1>10. stranded \in BOOLEAN /\ faults \in [Sessions -> SUBSET {"fork", "rebase", "torn"}]
  BY <1>2
<1>11. session \in Sessions /\ clock \in 0 .. MaxEntries /\ Live \in 1 .. MaxLoggers
  BY <1>2, <1>3, <1>5 DEF Live
<1> QED
  BY <1>8, <1>9, <1>10, <1>11 DEF LogInv

\* What the logger follows stays so while the live logger does.
LEMMA FollowsKept ==
    ASSUME LoggerFollowsSession, session' = session, stranded' = stranded,
           Len(loggers') = Len(loggers),
           loggers'[Len(loggers)].session = loggers[Len(loggers)].session
    PROVE  LoggerFollowsSession'
  BY DEF LoggerFollowsSession, Live

\* An entry that is written keeps the invariant, in place or after a rotation.
LEMMA LogStep ==
    ASSUME LogInv, NEW i \in 1 .. Live, NEW raw \in BOOLEAN, NEW full \in BOOLEAN,
           Log(i, raw, full)
    PROVE  LogInv'
<1> DEFINE l == loggers[i]
           s == l.session
           c == clock + 1
           x == Entry(l, c, raw)
           w == Kept(vault[s], l, c, raw)
<1>1. /\ AllKempt(files, vault, loggers, clock, faults) /\ loggers \in Seq(Logger)
      /\ i \in 1 .. Len(loggers) /\ clock \in Nat
      /\ files \in [Sessions -> Files] /\ vault = [t \in Sessions |-> vault[t]]
      /\ faults \in [Sessions -> SUBSET {"fork", "rebase", "torn"}]
  BY AuditAssumption DEF LogInv, AllKempt, LoggersKempt, Live
<1>2. l \in Logger /\ s \in Sessions
  <2>1. l \in Logger
    BY <1>1, ElementOfSeq
  <2> QED
    BY <2>1 DEF Logger
<1>3. c \in Nat /\ c \in 1 .. c /\ c \in clock + 1 .. c
  BY <1>1
<1>4. /\ Filed(vault[s], w, l.seq, c)
      /\ raw => l.seq + 1 \in DOMAIN w /\ w[l.seq + 1] = c
  BY <1>3, KeptFiled
<1>5. AllKempt([files EXCEPT ![s] = Written(@, x, full)], [vault EXCEPT ![s] = w],
               [loggers EXCEPT ![i] = Advanced(l, x)], c,
               [faults EXCEPT ![s] = @ \cup ForkOf(loggers, i)])
  <2> HIDE DEF w, c
  <2> QED
    BY <1>1, <1>3, <1>4, AllLog
<1>6. /\ files' = [files EXCEPT ![s] = Written(@, x, full)]
      /\ vault' = [vault EXCEPT ![s] = w]
      /\ loggers' = [loggers EXCEPT ![i] = Advanced(l, x)]
      /\ clock' = c /\ session' = session /\ stranded' = stranded /\ clock < MaxEntries
      /\ faults' = [faults EXCEPT ![s] = @ \cup ForkOf(loggers, i)]
  <2>1. x.hash = c
    BY DEF Entry
  <2>2. ForkBy(i) = ForkOf(loggers, i)
    BY DEF ForkBy, ForkOf, Newest, NewestOf, Live
  <2>3. vault' = [vault EXCEPT ![s] = Kept(@, l, c, raw)]
    BY <2>1 DEF Log
  <2> QED
    BY <1>1, <1>2, <2>2, <2>3 DEF Log
<1>7. Advanced(l, x) \in Logger /\ Advanced(l, x).session = s
  <2>1. x.seq \in Nat /\ x.hash \in Nat
    BY <1>2, <1>3 DEF Entry, Logger
  <2> HIDE DEF x, l
  <2> QED
    BY <1>2, <2>1 DEF Advanced, Logger
<1> HIDE DEF l, x, w
<1>8. Len(loggers') = Len(loggers) /\ \A j \in 1 .. Len(loggers) : loggers'[j].session = loggers[j].session
  BY <1>1, <1>6, <1>7, SameCurrent DEF l
<1>9. faults' \in [Sessions -> SUBSET {"fork", "rebase", "torn"}]
      /\ \A t \in Sessions : faults[t] \subseteq faults'[t]
  BY <1>1, <1>2, <1>6 DEF ForkOf
<1>10. LoggerFollowsSession'
  <2>1. Len(loggers) \in 1 .. Len(loggers)
    BY <1>1, LenProperties
  <2>2. loggers'[Len(loggers)].session = loggers[Len(loggers)].session
    BY <1>8, <2>1
  <2> QED
    BY <1>6, <1>8, <1>9, <2>2, FollowsKept DEF LogInv
<1>11. clock' \in 0 .. MaxEntries
  BY <1>1, <1>6, AuditAssumption
<1>12. AllKempt(files', vault', loggers', clock', faults')
  BY <1>5, <1>6
<1> QED
  BY <1>6, <1>8, <1>9, <1>10, <1>11, <1>12 DEF LogInv, Live, AllKempt

\* A write that fails keeps the invariant, whatever of its line is left.
LEMMA FailStep ==
    ASSUME LogInv, NEW i \in 1 .. Live, NEW raw \in BOOLEAN, NEW partly \in BOOLEAN,
           LogFails(i, raw, partly)
    PROVE  LogInv'
<1> DEFINE l == loggers[i]
           s == l.session
           w == Kept(vault[s], l, clock + 1, raw)
<1>1. /\ AllKempt(files, vault, loggers, clock, faults) /\ loggers \in Seq(Logger)
      /\ i \in 1 .. Len(loggers) /\ clock \in Nat /\ vault = [t \in Sessions |-> vault[t]]
      /\ faults \in [Sessions -> SUBSET {"fork", "rebase", "torn"}]
  BY AuditAssumption DEF LogInv, AllKempt, LoggersKempt, Live
<1>2. s \in Sessions
  <2>1. l \in Logger
    BY <1>1, ElementOfSeq
  <2> QED
    BY <2>1 DEF Logger
<1>3. Filed(vault[s], w, l.seq, clock + 1)
  <2>1. clock + 1 \in 1 .. clock + 1
    BY <1>1
  <2> QED
    BY <2>1, KeptFiled
<1>4. /\ files' = [files EXCEPT ![s].base = IF partly THEN Appended(@, Torn) ELSE @]
      /\ vault' = [vault EXCEPT ![s] = w]
      /\ faults' = [faults EXCEPT ![s] =
                      @ \cup ForkOf(loggers, i) \cup (IF partly THEN {"torn"} ELSE {})]
      /\ clock' = clock + 1 /\ clock < MaxEntries
      /\ session' = session /\ stranded' = stranded /\ loggers' = loggers
  <2>1. ForkBy(i) = ForkOf(loggers, i)
    BY DEF ForkBy, ForkOf, Newest, NewestOf, Live
  <2> QED
    BY <1>1, <1>2, <2>1 DEF LogFails
<1> HIDE DEF w, l
<1>5. AllKempt(files', vault', loggers', clock', faults')
  BY <1>1, <1>3, <1>4, AllFail DEF l
<1>6. faults' \in [Sessions -> SUBSET {"fork", "rebase", "torn"}]
  BY <1>1, <1>2, <1>4 DEF ForkOf
<1>7. LoggerFollowsSession'
  BY <1>4, FollowsKept DEF LogInv
<1>8. clock' \in 0 .. MaxEntries
  BY <1>1, <1>4, AuditAssumption
<1> QED
  BY <1>4, <1>5, <1>6, <1>7, <1>8 DEF LogInv, Live

\* The newest logger of a session writes an entry without a payload.
LEMMA AllLogPlain ==
    ASSUME NEW fs, NEW vs, NEW ls, NEW c \in Nat, NEW fts, AllKempt(fs, vs, ls, c, fts),
           NEW i \in 1 .. Len(ls), NewestOf(ls, i), NEW h, NEW c2 \in Nat, h \in c + 1 .. c2,
           NEW full \in BOOLEAN
    PROVE  LET x == Entry(ls[i], h, FALSE) IN
           AllKempt([fs EXCEPT ![ls[i].session] = Written(@, x, full)], vs,
                    [ls EXCEPT ![i] = Advanced(ls[i], x)], c2, fts)
<1> DEFINE s == ls[i].session
           x == Entry(ls[i], h, FALSE)
<1>1. /\ vs = [t \in Sessions |-> vs[t]] /\ fts = [t \in Sessions |-> fts[t]]
      /\ ls \in Seq(Logger)
  BY DEF AllKempt, LoggersKempt
<1>2. s \in Sessions
  <2>1. ls[i] \in Logger
    BY <1>1, ElementOfSeq
  <2> QED
    BY <2>1 DEF Logger
<1>3. AllKempt([fs EXCEPT ![s] = Written(@, x, full)], [vs EXCEPT ![s] = vs[s]],
               [ls EXCEPT ![i] = Advanced(ls[i], x)], c2,
               [fts EXCEPT ![s] = @ \cup ForkOf(ls, i)])
  <2>1. Filed(vs[s], vs[s], ls[i].seq, c2)
    BY SameFiled
  <2> QED
    BY <2>1, AllLog
<1> HIDE DEF s, x
<1>4. [vs EXCEPT ![s] = vs[s]] = vs
  BY <1>1, <1>2
<1>5. [fts EXCEPT ![s] = @ \cup ForkOf(ls, i)] = fts
  <2>1. ForkOf(ls, i) = {}
    BY DEF ForkOf
  <2>2. [fts EXCEPT ![s] = fts[s]] = fts
    BY <1>1, <1>2
  <2>3. fts[s] \cup {} = fts[s]
    OBVIOUS
  <2> QED
    BY <2>1, <2>2, <2>3
<1> QED
  BY <1>3, <1>4, <1>5 DEF s, x

\* The write of the newest logger of a session fails, without a payload.
LEMMA AllFailPlain ==
    ASSUME NEW fs, NEW vs, NEW ls, NEW c \in Nat, NEW fts, AllKempt(fs, vs, ls, c, fts),
           NEW i \in 1 .. Len(ls), NewestOf(ls, i), NEW partly \in BOOLEAN
    PROVE  AllKempt([fs EXCEPT ![ls[i].session].base = IF partly THEN Appended(@, Torn) ELSE @],
                    vs, ls, c + 1,
                    [fts EXCEPT ![ls[i].session] = @ \cup (IF partly THEN {"torn"} ELSE {})])
<1> DEFINE s == ls[i].session
           torn == IF partly THEN {"torn"} ELSE {}
<1>1. /\ vs = [t \in Sessions |-> vs[t]] /\ fts = [t \in Sessions |-> fts[t]]
      /\ ls \in Seq(Logger)
  BY DEF AllKempt, LoggersKempt
<1>2. s \in Sessions
  <2>1. ls[i] \in Logger
    BY <1>1, ElementOfSeq
  <2> QED
    BY <2>1 DEF Logger
<1>3. AllKempt([fs EXCEPT ![s].base = IF partly THEN Appended(@, Torn) ELSE @],
               [vs EXCEPT ![s] = vs[s]], ls, c + 1,
               [fts EXCEPT ![s] = @ \cup ForkOf(ls, i) \cup torn])
  <2>1. Filed(vs[s], vs[s], ls[i].seq, c + 1)
    BY SameFiled
  <2> QED
    BY <2>1, AllFail
<1> HIDE DEF s, torn
<1>4. [vs EXCEPT ![s] = vs[s]] = vs
  BY <1>1, <1>2
<1>5. [fts EXCEPT ![s] = @ \cup ForkOf(ls, i) \cup torn] = [fts EXCEPT ![s] = @ \cup torn]
  <2>1. ForkOf(ls, i) = {}
    BY DEF ForkOf
  <2>2. fts[s] \cup {} \cup torn = fts[s] \cup torn
    OBVIOUS
  <2> QED
    BY <2>1, <2>2
<1> QED
  BY <1>3, <1>4, <1>5 DEF s, torn

\* The live logger ends its session, unless the session stays the same.
LEMMA EndKeeps ==
    ASSUME LogInv, NEW s \in Sessions, NEW fullEnd \in BOOLEAN
    PROVE  /\ AllKempt(FilesEnded(s, fullEnd), vault, LoggersEnded(s), clock + 1, faults)
           /\ FilesEnded(s, fullEnd)[s] = files[s]
           /\ LoggersEnded(s) \in Seq(Logger) /\ Len(LoggersEnded(s)) = Len(loggers)
<1> DEFINE n == Len(loggers)
           l == loggers[n]
           end == Entry(l, clock + 1, FALSE)
<1>1. /\ AllKempt(files, vault, loggers, clock, faults) /\ loggers \in Seq(Logger)
      /\ clock \in Nat /\ clock + 1 \in Nat /\ clock <= clock + 1 /\ n \in 1 .. n /\ n + 1 .. n = {}
      /\ files \in [Sessions -> Files]
  BY AuditAssumption, LenProperties DEF LogInv, AllKempt, LoggersKempt, Live
<1>2. CASE l.session = s
  <2>1. AllKempt(files, vault, loggers, clock + 1, faults)
    BY <1>1, AllLater
  <2> QED
    BY <1>1, <1>2, <2>1 DEF FilesEnded, LoggersEnded, Live
<1>3. CASE l.session # s
  <2>1. FilesEnded(s, fullEnd) = [files EXCEPT ![l.session] = Written(@, end, fullEnd)]
    BY <1>3 DEF FilesEnded, Live
  <2>2. LoggersEnded(s) = [loggers EXCEPT ![n] = Advanced(l, end)]
    BY <1>3 DEF LoggersEnded, Live
  <2>3. NewestOf(loggers, n)
    BY <1>1 DEF NewestOf
  <2>4. clock + 1 \in clock + 1 .. clock + 1
    BY <1>1
  <2>5. AllKempt(FilesEnded(s, fullEnd), vault, LoggersEnded(s), clock + 1, faults)
    <3>1. n \in 1 .. Len(loggers)
      BY <1>1
    <3> HIDE DEF n
    <3>2. AllKempt([files EXCEPT ![l.session] = Written(@, end, fullEnd)], vault,
                   [loggers EXCEPT ![n] = Advanced(l, end)], clock + 1, faults)
      BY <1>1, <2>3, <2>4, <3>1, AllLogPlain
    <3> QED
      BY <2>1, <2>2, <3>2
  <2>6. FilesEnded(s, fullEnd)[s] = files[s]
    BY <1>1, <1>3, <2>1
  <2>7. LoggersEnded(s) \in Seq(Logger)
    BY <2>5 DEF AllKempt, LoggersKempt
  <2>8. Len(LoggersEnded(s)) = n
    <3>1. l \in Logger
      BY <1>1, ElementOfSeq
    <3>2. Advanced(l, end) \in Logger
      <4>1. l.seq + 1 \in Nat /\ l.session \in Sessions
        BY <3>1 DEF Logger
      <4> HIDE DEF l
      <4> QED
        BY <1>1, <3>1, <4>1 DEF Advanced, Entry, Logger
    <3> HIDE DEF l, end
    <3> QED
      BY <1>1, <2>2, <3>2, ExceptSeq
  <2> QED
    BY <2>5, <2>6, <2>7, <2>8
<1> QED
  BY <1>2, <1>3

\* What the old logger wrote, and the new logger before it has written: the
\* place of restore_session where its last statement is about to be made.
LEMMA OpenedAfterEnd ==
    ASSUME LogInv, NEW s \in Sessions, NEW fullEnd \in BOOLEAN, Readable(files[s])
    PROVE  LET new == Opened(s, files[s])
               ks == Append(LoggersEnded(s), new)
               n == Len(loggers) IN
           /\ AllKempt(FilesEnded(s, fullEnd), vault, ks, clock + 1,
                       [faults EXCEPT ![s] = @ \cup OpeningFault(s)])
           /\ new \in Logger /\ new.session = s
           /\ ks \in Seq(Logger) /\ Len(ks) = n + 1 /\ ks[n + 1] = new /\ NewestOf(ks, n + 1)
           /\ n + 1 \in 1 .. Len(ks)
<1> DEFINE fs == FilesEnded(s, fullEnd)
           old == LoggersEnded(s)
           new == Opened(s, files[s])
           ks == Append(old, new)
           n == Len(loggers)
<1>1. /\ AllKempt(fs, vault, old, clock + 1, faults) /\ fs[s] = files[s]
      /\ old \in Seq(Logger) /\ Len(old) = n
  BY EndKeeps
<1>2. clock + 1 \in Nat /\ n \in Nat
  BY AuditAssumption DEF LogInv, Live
<1> HIDE DEF fs, old, n
<1>3. /\ AllKempt(fs, vault, ks, clock + 1, [faults EXCEPT ![s] = @ \cup OpeningFault(s)])
      /\ new \in Logger /\ new.session = s
  <2>1. OpeningFault(s) = Anew(fs[s]) /\ new = Opened(s, fs[s]) /\ Readable(fs[s])
    BY <1>1 DEF OpeningFault, Anew
  <2> DEFINE o == Opened(s, fs[s])
             au == [faults EXCEPT ![s] = @ \cup Anew(fs[s])]
  <2>2. AllKempt(fs, vault, Append(old, o), clock + 1, au) /\ o \in Logger /\ o.session = s
    BY <1>1, <1>2, <2>1, AllOpen
  <2>3. o = new /\ au = [faults EXCEPT ![s] = @ \cup OpeningFault(s)]
    BY <2>1
  <2> HIDE DEF o, au, new
  <2> QED
    BY <2>2, <2>3
<1> HIDE DEF new
<1>4. ks \in Seq(Logger) /\ Len(ks) = n + 1 /\ ks[n + 1] = new
  BY <1>1, <1>3, AppendProperties
<1>5. n + 1 \in 1 .. n + 1 /\ (n + 1) + 1 .. n + 1 = {}
  BY <1>2
<1>6. NewestOf(ks, n + 1)
  BY <1>4, <1>5 DEF NewestOf
<1> QED
  BY <1>3, <1>4, <1>5, <1>6 DEF fs, old, new, n

\* What every way to leave restore_session has in common.
LEMMA SwitchFacts ==
    ASSUME LogInv, NEW s, SwitchTo(s)
    PROVE  /\ session' = s /\ clock' = clock + 2 /\ clock' \in 0 .. MaxEntries /\ vault' = vault
           /\ clock \in Nat /\ clock + 1 \in Nat /\ clock + 2 \in Nat
           /\ clock + 2 \in (clock + 1) + 1 .. clock + 2 /\ (clock + 1) + 1 = clock + 2
           /\ Len(loggers) \in 1 .. MaxLoggers /\ Len(loggers) + 1 \in 1 .. MaxLoggers
           /\ faults \in [Sessions -> SUBSET {"fork", "rebase", "torn"}]
  BY AuditAssumption DEF LogInv, SwitchTo, Live

\* A restore keeps the invariant: two entries around a new logger.
LEMMA RestoreStep ==
    ASSUME LogInv, NEW s \in Sessions, NEW fullEnd \in BOOLEAN, NEW fullStart \in BOOLEAN,
           Restore(s, fullEnd, fullStart)
    PROVE  LogInv'
<1> DEFINE fs == FilesEnded(s, fullEnd)
           old == LoggersEnded(s)
           new == Opened(s, files[s])
           start == Entry(new, clock + 2, FALSE)
           new2 == Advanced(new, start)
           ks == Append(old, new)
           n == Len(loggers)
           fu == [faults EXCEPT ![s] = @ \cup OpeningFault(s)]
           gs == [fs EXCEPT ![s] = Written(@, start, fullStart)]
<1>1. /\ SwitchTo(s) /\ Readable(files[s]) /\ files' = gs /\ loggers' = Append(old, new2)
      /\ faults' = fu /\ stranded' = FALSE
  BY DEF Restore
<1>2. /\ session' = s /\ clock' = clock + 2 /\ clock' \in 0 .. MaxEntries /\ vault' = vault
      /\ clock \in Nat /\ clock + 1 \in Nat /\ clock + 2 \in Nat
      /\ clock + 2 \in (clock + 1) + 1 .. clock + 2 /\ n + 1 \in 1 .. MaxLoggers /\ n \in Nat
      /\ faults \in [Sessions -> SUBSET {"fork", "rebase", "torn"}]
  BY <1>1, SwitchFacts
<1>3. /\ AllKempt(fs, vault, ks, clock + 1, fu) /\ new \in Logger /\ new.session = s
      /\ ks \in Seq(Logger) /\ Len(ks) = n + 1 /\ ks[n + 1] = new /\ NewestOf(ks, n + 1)
      /\ n + 1 \in 1 .. Len(ks)
  BY <1>1, OpenedAfterEnd
<1>4. old \in Seq(Logger) /\ Len(old) = n
  BY EndKeeps
<1>5. new2 \in Logger /\ new2.session = s
  <2>1. new.seq + 1 \in Nat
    BY <1>3 DEF Logger
  <2> HIDE DEF new
  <2> QED
    BY <1>2, <1>3, <2>1 DEF Advanced, Entry, Logger
<1> HIDE DEF fs, old, new, n, fu
<1>6. AllKempt(gs, vault, [ks EXCEPT ![n + 1] = new2], clock + 2, fu)
  <2> HIDE DEF ks
  <2> QED
    BY <1>2, <1>3, AllLogPlain
<1> HIDE DEF start, new2, gs
<1>7. [ks EXCEPT ![n + 1] = new2] = Append(old, new2)
  <2> DEFINE js == [ks EXCEPT ![n + 1] = new2]
             as == Append(old, new2)
  <2>1. /\ js \in Seq(Logger) /\ Len(js) = n + 1
        /\ \A j \in 1 .. n + 1 : js[j] = IF j = n + 1 THEN new2 ELSE ks[j]
    <3> HIDE DEF ks
    <3> QED
      BY <1>3, <1>5, ExceptSeq
  <2>2. \A j \in 1 .. n : ks[j] = old[j]
    BY <1>3, <1>4, AppendProperties
  <2>3. /\ as \in Seq(Logger) /\ Len(as) = n + 1 /\ as[n + 1] = new2
        /\ \A j \in 1 .. n : as[j] = old[j]
    BY <1>4, <1>5, AppendProperties
  <2> HIDE DEF js, as, ks
  <2>4. ASSUME NEW j \in 1 .. n + 1 PROVE js[j] = as[j]
    <3>1. j = n + 1 \/ (j \in 1 .. n /\ j # n + 1)
      BY <1>2
    <3> QED
      BY <2>1, <2>2, <2>3, <3>1
  <2>5. js = as
    BY <2>1, <2>3, <2>4, SeqEqual
  <2> QED
    BY <2>5 DEF js, as
<1>8. /\ Len(Append(old, new2)) = n + 1 /\ Append(old, new2)[n + 1] = new2
  BY <1>4, <1>5, AppendProperties
<1>9. AllKempt(files', vault', loggers', clock', faults')
  BY <1>1, <1>2, <1>6, <1>7
<1>10. Live' = n + 1 /\ LoggerFollowsSession'
  BY <1>1, <1>2, <1>5, <1>8 DEF LoggerFollowsSession, Live
<1>11. faults' \in [Sessions -> SUBSET {"fork", "rebase", "torn"}]
  BY <1>1, <1>2 DEF fu, OpeningFault
<1> QED
  BY <1>1, <1>2, <1>9, <1>10, <1>11 DEF LogInv

\* A restore that raises before it made a logger keeps the invariant.
LEMMA RaiseStep ==
    ASSUME LogInv, NEW s \in Sessions, NEW fullEnd \in BOOLEAN, RestoreRaises(s, fullEnd)
    PROVE  LogInv'
<1>1. /\ SwitchTo(s) /\ files' = FilesEnded(s, fullEnd) /\ loggers' = LoggersEnded(s)
      /\ stranded' = TRUE /\ faults' = faults
  BY DEF RestoreRaises
<1>2. /\ session' = s /\ clock' = clock + 2 /\ clock' \in 0 .. MaxEntries /\ vault' = vault
      /\ clock + 1 \in Nat /\ clock + 2 \in Nat /\ clock + 1 <= clock + 2
      /\ Len(loggers) \in 1 .. MaxLoggers
      /\ faults \in [Sessions -> SUBSET {"fork", "rebase", "torn"}]
  BY <1>1, SwitchFacts
<1>3. /\ AllKempt(FilesEnded(s, fullEnd), vault, LoggersEnded(s), clock + 1, faults)
      /\ Len(LoggersEnded(s)) = Len(loggers)
  BY EndKeeps
<1>4. AllKempt(files', vault', loggers', clock', faults')
  BY <1>1, <1>2, <1>3, AllLater
<1> QED
  BY <1>1, <1>2, <1>3, <1>4 DEF LogInv, LoggerFollowsSession, Live

\* A restore whose session_start cannot be written keeps the invariant.
LEMMA UnannouncedStep ==
    ASSUME LogInv, NEW s \in Sessions, NEW fullEnd \in BOOLEAN, NEW partly \in BOOLEAN,
           RestoreUnannounced(s, fullEnd, partly)
    PROVE  LogInv'
<1> DEFINE fs == FilesEnded(s, fullEnd)
           new == Opened(s, files[s])
           ks == Append(LoggersEnded(s), new)
           n == Len(loggers)
           fu == [faults EXCEPT ![s] = @ \cup OpeningFault(s)]
           torn == IF partly THEN {"torn"} ELSE {}
           gs == [fs EXCEPT ![s].base = IF partly THEN Appended(@, Torn) ELSE @]
<1>1. /\ SwitchTo(s) /\ Readable(files[s]) /\ files' = gs /\ loggers' = ks
      /\ faults' = [faults EXCEPT ![s] = @ \cup OpeningFault(s) \cup torn] /\ stranded' = FALSE
  BY DEF RestoreUnannounced
<1>2. /\ session' = s /\ clock' = (clock + 1) + 1 /\ clock' \in 0 .. MaxEntries /\ vault' = vault
      /\ clock + 1 \in Nat /\ n + 1 \in 1 .. MaxLoggers
      /\ faults \in [Sessions -> SUBSET {"fork", "rebase", "torn"}]
  BY <1>1, SwitchFacts
<1>3. /\ AllKempt(fs, vault, ks, clock + 1, fu) /\ new.session = s
      /\ Len(ks) = n + 1 /\ ks[n + 1] = new /\ NewestOf(ks, n + 1) /\ n + 1 \in 1 .. Len(ks)
  BY <1>1, OpenedAfterEnd
<1>4. faults' = [fu EXCEPT ![s] = @ \cup torn]
  BY <1>1, <1>2
<1>5. faults' \in [Sessions -> SUBSET {"fork", "rebase", "torn"}]
  BY <1>1, <1>2 DEF OpeningFault
<1> HIDE DEF fs, new, ks, n, fu
<1>6. AllKempt(gs, vault, ks, (clock + 1) + 1, [fu EXCEPT ![s] = @ \cup torn])
  BY <1>2, <1>3, AllFailPlain
<1> HIDE DEF gs, torn
<1>7. AllKempt(files', vault', loggers', clock', faults')
  BY <1>1, <1>2, <1>4, <1>6
<1>8. Live' = n + 1 /\ LoggerFollowsSession'
  BY <1>1, <1>2, <1>3 DEF LoggerFollowsSession, Live
<1> QED
  BY <1>1, <1>2, <1>5, <1>7, <1>8 DEF LogInv

\* Every step keeps the invariant.
LEMMA LogInvStep == LogInv /\ [Next]_vars => LogInv'
<1> SUFFICES ASSUME LogInv, [Next]_vars PROVE LogInv'
  OBVIOUS
<1>1. CASE LogNext
  BY <1>1, LogStep DEF LogNext
<1>2. CASE FailNext
  BY <1>2, FailStep DEF FailNext
<1>3. CASE RestoreNext
  BY <1>3, RestoreStep, RaiseStep, UnannouncedStep DEF RestoreNext
<1>4. CASE UNCHANGED vars
  BY <1>4 DEF vars, LogInv, AllKempt, LoggerFollowsSession, Live
<1> QED
  BY <1>1, <1>2, <1>3, <1>4 DEF Next

\* The invariant holds at every instant.
LEMMA LogInvHolds == Spec => []LogInv
  BY LogInvInit, LogInvStep, PTL DEF Spec

\* What the invariant says of one log.
LEMMA KemptLog ==
    ASSUME LogInv, NEW s \in Sessions
    PROVE  /\ Lines(files[s]) \in Seq(Line) /\ Bounded(Lines(files[s]), clock)
           /\ DOMAIN Lines(files[s]) = 1 .. Len(Lines(files[s]))
           /\ \A k \in DOMAIN vault[s] : k \in 1 .. clock /\ vault[s][k] \in 1 .. clock
           /\ faults[s] \cap {"fork", "rebase"} = {} => Matched(Lines(files[s]), vault[s])
           /\ faults[s] = {} => Clean(Lines(files[s])) /\ Chained(Lines(files[s]))
<1>1. Kempt(s, files[s], vault[s], loggers, clock, faults[s])
  BY DEF LogInv, AllKempt
<1>2. Lines(files[s]) \in Seq(Line)
  BY <1>1, LinesOf DEF Kempt, Stored
<1>3. DOMAIN Lines(files[s]) = 1 .. Len(Lines(files[s]))
  BY <1>2, LenProperties
<1> QED
  BY <1>1, <1>2, <1>3 DEF Kempt, Stored, Untorn, Numbered, Linked

\* At every instant, whatever failed or was rotated, restored or written by a
\* logger that had been replaced: the live logger belongs to the live session
\* unless the last restore raised before it made one, and the payload stored under the number of a
\* surviving entry is the one it refers to unless numbers were used twice.
THEOREM AuditLogCorrect == Spec => []AuditInv
<1>1. LogInv => AuditInv
  <2> SUFFICES ASSUME LogInv PROVE AuditInv
    OBVIOUS
  <2>1. MaxEntries \in Nat /\ clock \in Nat /\ clock <= MaxEntries
        /\ loggers \in Seq(Logger) /\ LoggersKempt(loggers, clock)
    BY AuditAssumption DEF LogInv, AllKempt, LoggersKempt
  <2>2. ASSUME NEW i \in 1 .. Live
        PROVE  /\ loggers[i].session \in Sessions /\ loggers[i].seq \in 0 .. MaxEntries
               /\ loggers[i].prev \in 0 .. clock
    <3>1. loggers[i] \in Logger
      BY <2>1, ElementOfSeq DEF Live
    <3>2. loggers[i].seq \in 0 .. clock /\ loggers[i].prev \in 0 .. clock
      BY <2>1 DEF LoggersKempt, Live
    <3>3. \A y : y \in 0 .. clock => y \in 0 .. MaxEntries
      BY <2>1
    <3> QED
      BY <3>1, <3>2, <3>3 DEF Logger
  <2>3. ASSUME NEW s \in Sessions
        PROVE  /\ faults[s] \subseteq {"fork", "rebase", "torn"}
               /\ \A k \in DOMAIN vault[s] : k \in 1 .. MaxEntries /\ vault[s][k] \in 1 .. clock
               /\ \A k \in DOMAIN Lines(files[s]) : Lines(files[s])[k].hash \in 0 .. clock
    <3>1. \A y : y \in 1 .. clock => y \in 1 .. MaxEntries
      BY <2>1
    <3>2. faults[s] \subseteq {"fork", "rebase", "torn"}
      BY DEF LogInv
    <3> QED
      BY <3>1, <3>2, KemptLog DEF Bounded, Issued
  <2>4. TypeOK
    BY <2>2, <2>3 DEF LogInv, TypeOK
  <2>5. PayloadMatchesEntry
    BY KemptLog DEF PayloadMatchesEntry, Matched
  <2> QED
    BY <2>4, <2>5 DEF LogInv, AuditInv
<1> QED
  BY <1>1, LogInvHolds, PTL

\* The surviving generations of a log verify as one chain, for any number of
\* sessions, entries and replaced loggers, unless a replaced logger wrote to
\* it, it was opened right after a rotation, or a line was torn.
THEOREM ChainHolds == Spec => []ChainVerifies
<1>1. LogInv => ChainVerifies
  <2> SUFFICES ASSUME LogInv, NEW s \in Sessions, faults[s] = {} PROVE Verified(s)
    BY DEF ChainVerifies
  <2> DEFINE L == Lines(files[s])
  <2>1. /\ L \in Seq(Line) /\ Bounded(L, clock) /\ DOMAIN L = 1 .. Len(L)
        /\ Clean(L) /\ Chained(L)
    BY KemptLog
  <2> HIDE DEF L
  <2>2. ASSUME L # <<>>, L[1].seq = 1 PROVE L[1].prev = ZeroHash
    <3>1. Len(L) \in Nat \ {0}
      BY <2>1, <2>2, EmptySeq
    <3>2. 1 \in 1 .. Len(L)
      BY <3>1
    <3> QED
      BY <2>1, <2>2, <3>2 DEF Bounded, Clean, Issued
  <2>3. Intact(L)
    BY <2>1, <2>2 DEF Intact, Clean, IsEntry, Chained
  <2> QED
    BY <2>3 DEF Verified, L
<1> QED
  BY <1>1, LogInvHolds, PTL

\* Sequences that agree element by element.
LEMMA PrefixOf ==
    ASSUME NEW b \in Seq(Line), NEW N \in Seq(Line), NEW d \in Nat,
           \A k \in 1 .. Len(b) - d : k \in 1 .. Len(N) /\ N[k] = b[k + d]
    PROVE  IsPrefix(SubSeq(b, d + 1, Len(b)), N)
<1> DEFINE n == Len(b)
           p == SubSeq(b, d + 1, n)
           m == IF d + 1 <= n THEN n - d ELSE 0
<1>1. n \in Nat /\ Len(N) \in Nat /\ \A k \in 1 .. n : b[k] \in Line
  BY LenProperties, ElementOfSeq
<1>2. p \in Seq(Line) /\ Len(p) = m /\ \A k \in 1 .. m : p[k] = b[k + d]
  <2>1. d + 1 \in Int /\ n \in Int /\ \A k \in d + 1 .. n : b[k] \in Line
    BY <1>1
  <2>2. /\ p \in Seq(Line) /\ Len(p) = (IF d + 1 <= n THEN n - (d + 1) + 1 ELSE 0)
        /\ \A k \in 1 .. n - (d + 1) + 1 : p[k] = b[(d + 1) + k - 1]
    BY <2>1, SubSeqProperties
  <2> HIDE DEF p, n
  <2>3. n - (d + 1) + 1 = n - d /\ \A k \in 1 .. n - d : (d + 1) + k - 1 = k + d
    BY <1>1
  <2>4. \A k \in 1 .. m : k \in 1 .. n - d
    BY <1>1
  <2> QED
    BY <2>2, <2>3, <2>4
<1>3. m \in Nat /\ \A k \in 1 .. m : k \in 1 .. n - d
  BY <1>1
<1>4. \A k \in 1 .. m : k \in 1 .. Len(N) /\ N[k] = p[k]
  <2> HIDE DEF p, m
  <2> QED
    BY <1>2, <1>3
<1> HIDE DEF p, m, n
<1>5. m <= Len(N)
  BY <1>1, <1>3, <1>4
<1>6. SubSeq(p, 1, m) = SubSeq(N, 1, m)
  <2>1. 1 \in Int /\ m \in Int /\ \A k \in 1 .. m : p[k] \in Line /\ N[k] \in Line
    BY <1>2, <1>3, <1>4, ElementOfSeq
  <2>2. /\ SubSeq(p, 1, m) \in Seq(Line) /\ SubSeq(N, 1, m) \in Seq(Line)
        /\ Len(SubSeq(p, 1, m)) = Len(SubSeq(N, 1, m))
        /\ Len(SubSeq(p, 1, m)) = IF 1 <= m THEN m - 1 + 1 ELSE 0
        /\ \A k \in 1 .. m - 1 + 1 : SubSeq(p, 1, m)[k] = p[1 + k - 1] /\ SubSeq(N, 1, m)[k] = N[1 + k - 1]
    BY <2>1, SubSeqProperties
  <2>3. m - 1 + 1 = m /\ \A k \in 1 .. m : 1 + k - 1 = k
    BY <1>3
  <2>4. Len(SubSeq(p, 1, m)) = m
    BY <1>3, <2>2, <2>3
  <2>5. \A k \in 1 .. m : SubSeq(p, 1, m)[k] = SubSeq(N, 1, m)[k]
    BY <1>4, <2>2, <2>3
  <2> QED
    BY <2>2, <2>4, <2>5, SeqEqual
<1> QED
  BY <1>2, <1>5, <1>6 DEF IsPrefix, p, n

\* The lines that can no longer change: all but a torn last one.
LEMMA SettledLines ==
    ASSUME NEW L \in Seq(Line)
    PROVE  /\ Settled(L) \in Seq(Line) /\ Len(L) \in Nat
           /\ \/ Len(Settled(L)) = Len(L) /\ (Len(L) # 0 => L[Len(L)].kind # "torn")
              \/ Len(L) # 0 /\ Len(Settled(L)) = Len(L) - 1
           /\ \A k \in 1 .. Len(Settled(L)) : k \in 1 .. Len(L) /\ Settled(L)[k] = L[k]
<1>1. Len(L) \in Nat /\ \A k \in 1 .. Len(L) : L[k] \in Line
  BY LenProperties, ElementOfSeq
<1>2. L # <<>> => Len(L) # 0
  BY EmptySeq
<1>3. L = <<>> => Len(L) = 0
  OBVIOUS
<1>4. CASE ~(L # <<>> /\ Last(L).kind = "torn")
  <2>1. Settled(L) = L
    BY <1>4 DEF Settled
  <2> QED
    BY <1>1, <1>3, <1>4, <2>1 DEF Last
<1>5. CASE L # <<>> /\ Last(L).kind = "torn"
  <2> DEFINE m == Len(L) - 1
  <2>1. Settled(L) = SubSeq(L, 1, m)
    BY <1>5 DEF Settled, Front
  <2>2. m \in Nat /\ Len(L) # 0 /\ \A k \in 1 .. m : k \in 1 .. Len(L)
    BY <1>1, <1>2, <1>5
  <2>3. m \in Int /\ 1 \in Int /\ \A k \in 1 .. m : L[k] \in Line
    BY <1>1, <2>2
  <2> HIDE DEF m
  <2>4. /\ SubSeq(L, 1, m) \in Seq(Line)
        /\ Len(SubSeq(L, 1, m)) = IF 1 <= m THEN m - 1 + 1 ELSE 0
        /\ \A k \in 1 .. m - 1 + 1 : SubSeq(L, 1, m)[k] = L[1 + k - 1]
    BY <2>3, SubSeqProperties
  <2>5. m - 1 + 1 = m /\ \A k \in 1 .. m : 1 + k - 1 = k
    BY <2>2
  <2>6. Len(SubSeq(L, 1, m)) = m
    BY <2>2, <2>4, <2>5
  <2>7. Settled(L) \in Seq(Line) /\ Len(Settled(L)) = m
        /\ \A k \in 1 .. m : Settled(L)[k] = L[k]
    BY <2>1, <2>4, <2>5, <2>6
  <2>8. Len(Settled(L)) = Len(L) - 1
    BY <2>7 DEF m
  <2> QED
    BY <1>1, <2>2, <2>7, <2>8
<1> QED
  BY <1>4, <1>5

\* One write loses at most the oldest generation.
LEMMA GrownKeepsPrefix ==
    ASSUME NEW L \in Seq(Line), NEW N \in Seq(Line), NEW d, NEW x \in Line, Grown(L, N, d, x)
    PROVE  IsPrefix(SubSeq(Settled(L), d + 1, Len(Settled(L))), N)
<1> DEFINE b == Settled(L)
<1>1. /\ b \in Seq(Line) /\ Len(L) \in Nat
      /\ \/ Len(b) = Len(L) /\ (Len(L) # 0 => L[Len(L)].kind # "torn")
         \/ Len(L) # 0 /\ Len(b) = Len(L) - 1
      /\ \A k \in 1 .. Len(b) : k \in 1 .. Len(L) /\ b[k] = L[k]
  BY SettledLines
<1>2. /\ Len(N) \in Nat \ {0} /\ d \in Nat
      /\ \A k \in 1 .. Len(N) - 1 : k + d \in 1 .. Len(L) /\ N[k] = L[k + d]
      /\ \/ Len(N) = Len(L) - d + 1
         \/ Len(N) = Len(L) - d /\ Len(L) \in 1 .. Len(L) /\ L[Len(L)].kind = "torn"
  BY GrownLines
<1> HIDE DEF b
<1>3. Len(b) - d <= Len(N) - 1 /\ Len(b) \in Nat
  BY <1>1, <1>2
<1>4. ASSUME NEW k \in 1 .. Len(b) - d PROVE k \in 1 .. Len(N) /\ N[k] = b[k + d]
  <2>1. k \in 1 .. Len(N) - 1 /\ k \in 1 .. Len(N) /\ k + d \in 1 .. Len(b)
    BY <1>2, <1>3
  <2> QED
    BY <1>1, <1>2, <2>1
<1>5. IsPrefix(SubSeq(b, d + 1, Len(b)), N)
  BY <1>1, <1>2, <1>4, PrefixOf
<1> QED
  BY <1>5 DEF b

\* What has happened to a generation triple in one step.
Survives(f, g) ==
    \E lost \in {0, Len(f.g2)} :
        IsPrefix(SubSeq(Settled(Lines(f)), lost + 1, Len(Settled(Lines(f)))), Lines(g))

\* A log that grows by a line survives.
LEMMA GrownSurvives ==
    ASSUME NEW f \in Files, NEW g \in Files, NEW x \in Line,
           \E d \in {0, Len(f.g2)} : Grown(Lines(f), Lines(g), d, x)
    PROVE  Survives(f, g)
<1>1. Lines(f) \in Seq(Line) /\ Lines(g) \in Seq(Line)
  BY LinesOf
<1> QED
  BY <1>1, GrownKeepsPrefix DEF Survives

\* A log that does not change survives.
LEMMA SameSurvives ==
    ASSUME NEW f \in Files PROVE Survives(f, f)
<1> DEFINE L == Lines(f)
           b == Settled(L)
<1>1. L \in Seq(Line)
  BY LinesOf
<1> HIDE DEF L
<1>2. b \in Seq(Line) /\ Len(b) \in Nat /\ \A k \in 1 .. Len(b) : k \in 1 .. Len(L) /\ b[k] = L[k]
  BY <1>1, SettledLines, LenProperties
<1> HIDE DEF b
<1>3. \A k \in 1 .. Len(b) - 0 : k \in 1 .. Len(L) /\ L[k] = b[k + 0]
  <2>1. Len(b) - 0 = Len(b) /\ \A k \in 1 .. Len(b) : k + 0 = k
    BY <1>2
  <2> QED
    BY <1>2, <2>1
<1>4. IsPrefix(SubSeq(b, 0 + 1, Len(b)), L)
  BY <1>1, <1>2, <1>3, PrefixOf
<1> QED
  BY <1>4 DEF Survives, b, L

\* A log survives an entry that is written, with a rotation or without.
LEMMA WrittenSurvives ==
    ASSUME NEW f \in Files, NEW l, NEW h \in Nat, NEW raw \in BOOLEAN, NEW full \in BOOLEAN,
           l.seq \in Nat, l.prev \in Nat
    PROVE  Survives(f, Written(f, Entry(l, h, raw), full))
<1> DEFINE x == Entry(l, h, raw)
<1>1. x \in Line
  <2>1. l.seq + 1 \in Nat
    OBVIOUS
  <2> QED
    BY <2>1 DEF Entry, Line
<1> HIDE DEF x
<1>2. Written(f, x, full) \in Files /\ \E d \in {0, Len(f.g2)} : Grown(Lines(f), Lines(Written(f, x, full)), d, x)
  BY <1>1, WrittenGrows
<1> QED
  BY <1>1, <1>2, GrownSurvives DEF x

\* A log survives a line that is only written in part.
LEMMA TornSurvives ==
    ASSUME NEW f \in Files
    PROVE  Survives(f, [f EXCEPT !.base = Appended(f.base, Torn)])
<1> DEFINE g == [f EXCEPT !.base = Appended(f.base, Torn)]
<1>1. Torn \in Line
  BY SpoiledLine
<1>2. g \in Files /\ Grown(Lines(f), Lines(g), 0, Torn)
  BY <1>1, LinesGrow
<1> HIDE DEF g
<1> QED
  BY <1>1, <1>2, GrownSurvives DEF g

\* A step loses of every log at most the oldest generation and the end of a
\* torn line, and only adds lines at its end, whatever else the loggers do.
THEOREM OnlyOldestGoes == Spec => OnlyOldestIsLost
<1> DEFINE Kept1 == \A s \in Sessions : Survives(files[s], files'[s])
           Kept2 == \A s \in Sessions : \E lost \in {0, Len(files[s].g2)} :
                       LET before == Settled(Lines(files[s]))
                       IN IsPrefix(SubSeq(before, lost + 1, Len(before)), Lines(files[s])')
<1>1. LogInv /\ [Next]_vars => [Kept2]_files
  <2> SUFFICES ASSUME LogInv, Next PROVE Kept1
    BY DEF Survives, vars
  <2>1. /\ files \in [Sessions -> Files] /\ clock \in Nat /\ Live \in 1 .. Live
        /\ \A i \in 1 .. Live : loggers[i] \in Logger
    <3>1. loggers \in Seq(Logger) /\ files \in [Sessions -> Files] /\ clock \in Nat
      BY AuditAssumption DEF LogInv, AllKempt, LoggersKempt
    <3> QED
      BY <3>1, ElementOfSeq DEF LogInv, Live
  <2>2. ASSUME NEW i \in 1 .. Live, NEW raw \in BOOLEAN, NEW full \in BOOLEAN, Log(i, raw, full)
        PROVE  Kept1
    <3> DEFINE l == loggers[i]
    <3>1. l \in Logger /\ l.session \in Sessions /\ l.seq \in Nat /\ l.prev \in Nat /\ clock + 1 \in Nat
      BY <2>1 DEF Logger
    <3>2. files' = [files EXCEPT ![l.session] = Written(@, Entry(l, clock + 1, raw), full)]
      BY <2>2 DEF Log
    <3> HIDE DEF l
    <3> QED
      BY <2>1, <3>1, <3>2, SameSurvives, WrittenSurvives
  <2>3. ASSUME NEW i \in 1 .. Live, NEW raw \in BOOLEAN, NEW partly \in BOOLEAN,
               LogFails(i, raw, partly)
        PROVE  Kept1
    <3> DEFINE l == loggers[i]
               f == files[l.session]
    <3>1. l.session \in Sessions /\ f \in Files
      BY <2>1 DEF Logger
    <3> DEFINE g == [f EXCEPT !.base = IF partly THEN Appended(f.base, Torn) ELSE f.base]
    <3>2. files' = [files EXCEPT ![l.session] = g]
      BY <2>1, <2>3, <3>1 DEF LogFails
    <3>3. Survives(f, g)
      <4>1. CASE partly
        <5>1. g = [f EXCEPT !.base = Appended(f.base, Torn)]
          BY <4>1
        <5> HIDE DEF g
        <5> QED
          BY <3>1, <5>1, TornSurvives
      <4>2. CASE ~partly
        <5>1. g = f
          BY <3>1, <4>2 DEF Files
        <5> QED
          BY <3>1, <5>1, SameSurvives
      <4> QED
        BY <4>1, <4>2
    <3> HIDE DEF l, g
    <3> QED
      BY <2>1, <3>1, <3>2, <3>3, SameSurvives
  <2>4. ASSUME NEW s \in Sessions, NEW fullEnd \in BOOLEAN
        PROVE  /\ \A t \in Sessions : Survives(files[t], FilesEnded(s, fullEnd)[t])
               /\ FilesEnded(s, fullEnd)[s] = files[s] /\ DOMAIN FilesEnded(s, fullEnd) = Sessions
    <3> DEFINE l == loggers[Live]
    <3>1. l \in Logger /\ l.session \in Sessions /\ l.seq \in Nat /\ l.prev \in Nat /\ clock + 1 \in Nat
      BY <2>1 DEF Logger
    <3>2. FilesEnded(s, fullEnd) =
             IF l.session = s THEN files
             ELSE [files EXCEPT ![l.session] = Written(@, Entry(l, clock + 1, FALSE), fullEnd)]
      BY DEF FilesEnded
    <3> HIDE DEF l
    <3>3. CASE l.session = s
      BY <2>1, <3>2, <3>3, SameSurvives
    <3>4. CASE l.session # s
      <4> DEFINE g == Written(files[l.session], Entry(l, clock + 1, FALSE), fullEnd)
      <4>1. Survives(files[l.session], g)
        BY <2>1, <3>1, WrittenSurvives
      <4> HIDE DEF g
      <4>2. FilesEnded(s, fullEnd) = [files EXCEPT ![l.session] = g]
        BY <2>1, <3>1, <3>2, <3>4 DEF g
      <4> QED
        BY <2>1, <3>1, <3>4, <4>1, <4>2, SameSurvives
    <3> QED
      BY <3>3, <3>4
  <2>5. ASSUME NEW s \in Sessions, NEW fullEnd \in BOOLEAN, NEW fullStart \in BOOLEAN,
               Restore(s, fullEnd, fullStart)
        PROVE  Kept1
    <3> DEFINE new == Opened(s, files[s])
               g == Written(files[s], Entry(new, clock + 2, FALSE), fullStart)
    <3>1. files' = [FilesEnded(s, fullEnd) EXCEPT ![s] = g]
      BY <2>4, <2>5 DEF Restore
    <3>2. new.seq \in Nat /\ new.prev \in Nat
      <4>1. files[s] \in Files /\ Bounded(Lines(files[s]), clock)
        BY <2>1 DEF LogInv, AllKempt, Kempt, Stored
      <4>2. new \in Logger
        BY <2>1, <2>5, <4>1, OpenedAtEnd DEF Restore
      <4> QED
        BY <4>2 DEF Logger
    <3>3. Survives(files[s], g)
      <4>1. clock + 2 \in Nat
        BY <2>1
      <4> HIDE DEF new
      <4> QED
        BY <2>1, <3>2, <4>1, WrittenSurvives
    <3> HIDE DEF g
    <3> QED
      BY <2>4, <3>1, <3>3
  <2>6. ASSUME NEW s \in Sessions, NEW fullEnd \in BOOLEAN, RestoreRaises(s, fullEnd)
        PROVE  Kept1
    BY <2>4, <2>6 DEF RestoreRaises
  <2>7. ASSUME NEW s \in Sessions, NEW fullEnd \in BOOLEAN, NEW partly \in BOOLEAN,
               RestoreUnannounced(s, fullEnd, partly)
        PROVE  Kept1
    <3> DEFINE f == files[s]
               g == [f EXCEPT !.base = IF partly THEN Appended(f.base, Torn) ELSE f.base]
    <3>1. files' = [FilesEnded(s, fullEnd) EXCEPT ![s] = g]
      BY <2>4, <2>7 DEF RestoreUnannounced
    <3>2. Survives(f, g)
      <4>1. CASE partly
        <5>1. g = [f EXCEPT !.base = Appended(f.base, Torn)]
          BY <4>1
        <5> HIDE DEF g
        <5> QED
          BY <2>1, <5>1, TornSurvives
      <4>2. CASE ~partly
        <5>1. g = f
          BY <2>1, <4>2 DEF Files
        <5> QED
          BY <2>1, <5>1, SameSurvives
      <4> QED
        BY <4>1, <4>2
    <3> HIDE DEF g
    <3> QED
      BY <2>4, <3>1, <3>2
  <2> QED
    BY <2>2, <2>3, <2>5, <2>6, <2>7 DEF Next, LogNext, FailNext, RestoreNext
<1> QED
  BY <1>1, LogInvHolds, PTL DEF Spec, OnlyOldestIsLost
================================================================================
