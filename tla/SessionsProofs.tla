--------------------------- MODULE SessionsProofs ---------------------------
(***************************************************************************)
(* What holds of saved sessions for every number of processes, sessions,   *)
(* rows and saves: the files implement SavedSessions, a session is only    *)
(* unreadable when a save or a deletion of it was cut, raised or           *)
(* overlapped, and the row that a key acts on exists.                      *)
(***************************************************************************)
EXTENDS Sessions, FiniteSetTheorems, SequenceTheorems, TLAPS

Marks == {"meta", "talk", "panes"}
States == [st : {"none", "torn", "short", "ok"}, v : 0..MaxWork]
Views == [open : BOOLEAN, list : Seq(Sids), cursor : Int]
Letters == [kind : {"deleted", "resumed"}, s : Sids]

DiskTyped ==
    /\ dir \in [Sids -> BOOLEAN]
    /\ file \in [Sids -> [Marks -> States]]
    /\ born \in [Sids -> 0..MaxWork]
    /\ up \in [Instances -> BOOLEAN]
    /\ sid \in [Instances -> Sids \cup {NoSid}]
    /\ live \in [Instances -> Contents]
    /\ replay \in [Instances -> SUBSET (0..MaxWork)]
    /\ saving \in [Instances -> 0..6]
    /\ tick \in 0..MaxWork /\ saves \in 0..MaxSaves /\ starts \in 0..MaxStarts
    /\ used \subseteq Sids /\ IsFiniteSet(used)
    /\ lone \in [Instances -> BOOLEAN]
    /\ settled \in [Sids -> {"nothing", "unsettled", "settled"}]
    /\ hurt \subseteq Sids

\* A session has a directory, or anything to be said of it, only when its id
\* was given out, a process that is down works in none, and only an interface
\* has panes to start again.
Known ==
    /\ \A s \in Sids : dir[s] => s \in used
    /\ \A s \in Sids : s \notin used => settled[s] = "nothing"
    /\ \A s \in Sids : settled[s] = "nothing" \/ ~dir[s] => file[s] = NoFiles
    /\ \A i \in Instances : sid[i] \in used \cup {NoSid}
    /\ \A i \in Instances : up[i] <=> sid[i] # NoSid
    /\ \A i \in Instances : ~up[i] => live[i] = Blank /\ saving[i] = Rest /\ replay[i] = {}
    /\ \A i \in Instances \ Tui : replay[i] = {}

\* A save that has met no other is the only one of its session.
Alone ==
    \A i \in Instances : lone[i] =>
        /\ saving[i] # Rest
        /\ \A j \in Instances : saving[j] # Rest /\ sid[j] = sid[i] => j = i

\* The files that a save has already closed.
Written(i) ==
    /\ saving[i] >= 3 => file[sid[i]].meta = [st |-> "ok", v |-> live[i].meta]
    /\ saving[i] >= 5 => file[sid[i]].talk = [st |-> "ok", v |-> live[i].talk]

\* While a session is saved nothing is promised of it.  A save that met none
\* has left its files as it wrote them; one that met another has been noted.
Underway ==
    \A i \in Instances : saving[i] # Rest /\ dir[sid[i]] =>
        /\ settled[sid[i]] = "unsettled"
        /\ lone[i] => Written(i)
        /\ ~lone[i] => sid[i] \in hurt

DiskInv == DiskTyped /\ Known /\ Alone /\ Underway /\ DamageHasACause

ScreenInv ==
    /\ view \in [Instances -> Views]
    /\ post \in [Instances -> Seq(Letters)]
    /\ \A i \in Instances : ~up[i] => view[i] = Closed /\ post[i] = <<>>
    /\ SelectionIsARow

IInv == DiskInv /\ ScreenInv
-----------------------------------------------------------------------------
(* The list of sessions *)

\* The sessions with metadata that parses are finitely many, each born once.
LEMMA ListedFinite ==
    ASSUME DiskInv
    PROVE  Listed \subseteq Sids /\ IsFiniteSet(Listed) /\ Cardinality(Listed) \in Nat
<1>1. Listed \subseteq used
  BY DEF DiskInv, Known, Listed
<1> QED  BY <1>1, FS_Subset, FS_CardinalityType DEF DiskInv, DiskTyped, Listed

\* NewerThan orders any two sessions one way.
LEMMA NewerIsTotal ==
    ASSUME DiskInv
    PROVE  /\ \A s \in Sids : ~NewerThan(s, s)
           /\ \A s, t \in Sids : s # t => NewerThan(s, t) \/ NewerThan(t, s)
           /\ \A r, s, t \in Sids : NewerThan(r, s) /\ NewerThan(s, t) => NewerThan(r, t)
<1>1. \A s \in Sids : s \in Nat /\ born[s] \in Nat
  BY SessionsAssumption DEF DiskInv, DiskTyped
<1> QED  BY <1>1 DEF NewerThan

\* Of two listed sessions, fewer are newer than the newer one.
LEMMA NewerHasFewer ==
    ASSUME DiskInv, NEW s \in Listed, NEW t \in Listed, NewerThan(s, t)
    PROVE  Cardinality(Newer(s)) < Cardinality(Newer(t))
<1>0. s \in Sids /\ t \in Sids /\ Listed \subseteq Sids /\ IsFiniteSet(Listed)
  BY ListedFinite
<1>1. Newer(s) \subseteq Newer(t) /\ s \in Newer(t) /\ s \notin Newer(s)
  BY <1>0, NewerIsTotal DEF Newer
<1>2. IsFiniteSet(Newer(t)) /\ IsFiniteSet(Newer(s))
  BY <1>0, FS_Subset DEF Newer
<1>3. /\ Cardinality(Newer(s)) <= Cardinality(Newer(t))
      /\ Cardinality(Newer(s)) = Cardinality(Newer(t)) => Newer(s) = Newer(t)
  BY <1>1, <1>2, FS_Subset
<1>4. Cardinality(Newer(s)) \in Nat /\ Cardinality(Newer(t)) \in Nat
  BY <1>2, FS_CardinalityType
<1> QED  BY <1>1, <1>3, <1>4

\* Every number of newer sessions below the size of the list occurs once.
LEMMA RanksAreFilled ==
    ASSUME DiskInv, NEW k \in 0 .. Cardinality(Listed) - 1
    PROVE  \E s \in Listed : Cardinality(Newer(s)) = k
<1> DEFINE n == Cardinality(Listed)
           rank == [s \in Listed |-> Cardinality(Newer(s))]
<1>0. IsFiniteSet(Listed) /\ n \in Nat /\ Listed \subseteq Sids
  BY ListedFinite
<1>1. ASSUME NEW s \in Listed  PROVE  rank[s] \in 0 .. n - 1
  <2>1. Newer(s) \subseteq Listed \ {s}
    BY <1>0, NewerIsTotal DEF Newer
  <2>2. IsFiniteSet(Listed \ {s}) /\ Cardinality(Listed \ {s}) = n - 1
    BY <1>0, FS_RemoveElement
  <2>3. IsFiniteSet(Newer(s)) /\ Cardinality(Newer(s)) <= n - 1
    BY <2>1, <2>2, FS_Subset
  <2>4. Cardinality(Newer(s)) \in Nat
    BY <2>3, FS_CardinalityType
  <2> QED  BY <2>3, <2>4, <1>0
<1>2. ASSUME NEW s \in Listed, NEW t \in Listed, s # t  PROVE  rank[s] # rank[t]
  <2>1. NewerThan(s, t) \/ NewerThan(t, s)
    BY <1>0, <1>2, NewerIsTotal
  <2>2. rank[s] \in Nat /\ rank[t] \in Nat
    BY <1>0, <1>1
  <2> QED  BY <2>1, <2>2, NewerHasFewer
<1>3. rank \in Injection(Listed, 0 .. n - 1)
  BY <1>1, <1>2 DEF Injection, IsInjective
<1>4. IsFiniteSet(0 .. n - 1) /\ Cardinality(0 .. n - 1) = n
  BY <1>0, FS_Interval
<1>5. rank \in Surjection(Listed, 0 .. n - 1)
  BY <1>3, <1>4, FS_Injection
<1> QED  BY <1>5 DEF Surjection

\* A list of sessions shows as many rows as fit, each a session with metadata
\* that parses, newest first, and none twice.
THEOREM ListingIsSorted ==
    ASSUME DiskInv
    PROVE  /\ Listing \in Seq(Listed)
           /\ Len(Listing) = Shown
           /\ \A k \in 1..Shown : Cardinality(Newer(Listing[k])) = k - 1
           /\ \A j, k \in 1..Shown : j < k => NewerThan(Listing[j], Listing[k])
<1>0. Cardinality(Listed) \in Nat /\ Listed \subseteq Sids
  BY ListedFinite
<1>1. Shown \in Nat /\ Shown <= Cardinality(Listed)
  BY <1>0, SessionsAssumption DEF Shown
<1>2. ASSUME NEW k \in 1..Shown
      PROVE  Listing[k] \in Listed /\ Cardinality(Newer(Listing[k])) = k - 1
  <2>1. k - 1 \in 0 .. Cardinality(Listed) - 1
    BY <1>0, <1>1
  <2>2. \E s \in Listed : Cardinality(Newer(s)) = k - 1
    BY <2>1, RanksAreFilled
  <2>3. Listing[k] = CHOOSE s \in Listed : Cardinality(Newer(s)) = k - 1
    BY DEF Listing
  <2> QED  BY <2>2, <2>3
<1>3. Listing \in [1..Shown -> Listed]
  BY <1>2 DEF Listing
<1>4. Listing \in Seq(Listed) /\ Len(Listing) = Shown
  BY <1>1, <1>3
<1>5. ASSUME NEW j \in 1..Shown, NEW k \in 1..Shown, j < k
      PROVE  NewerThan(Listing[j], Listing[k])
  <2>1. /\ Cardinality(Newer(Listing[j])) = j - 1
        /\ Cardinality(Newer(Listing[k])) = k - 1
        /\ Listing[j] \in Listed /\ Listing[k] \in Listed
    BY <1>2
  <2>2. Listing[j] # Listing[k]
    BY <2>1, <1>1, <1>5
  <2>3. NewerThan(Listing[j], Listing[k]) \/ NewerThan(Listing[k], Listing[j])
    BY <2>1, <2>2, <1>0, NewerIsTotal
  <2>4. ~NewerThan(Listing[k], Listing[j])
    BY <2>1, <1>1, <1>5, NewerHasFewer
  <2> QED  BY <2>3, <2>4
<1> QED  BY <1>2, <1>4, <1>5

\* Removing the row under the cursor leaves a list with one row less.
LEMMA RowRemoved ==
    ASSUME NEW l \in Seq(Sids), NEW n \in DOMAIN l
    PROVE  RemoveAt(l, n) \in Seq(Sids) /\ Len(RemoveAt(l, n)) = Len(l) - 1
<1>1. Len(l) \in Nat /\ n \in 1..Len(l)
  BY LenProperties
<1>2. /\ SubSeq(l, 1, n - 1) \in Seq(Sids) /\ Len(SubSeq(l, 1, n - 1)) = n - 1
      /\ SubSeq(l, n + 1, Len(l)) \in Seq(Sids)
      /\ Len(SubSeq(l, n + 1, Len(l))) = Len(l) - n
  <2>1. n - 1 \in 0..Len(l) /\ 1 \in 1 .. n /\ n + 1 \in 1 .. Len(l) + 1
    BY <1>1
  <2> QED  BY <1>1, <2>1, SubSeqProperties
<1> DEFINE a == SubSeq(l, 1, n - 1)
           b == SubSeq(l, n + 1, Len(l))
<1>3. a \o b \in Seq(Sids) /\ Len(a \o b) = Len(a) + Len(b)
  <2> HIDE DEF a, b
  <2> QED  BY <1>2, ConcatProperties DEF a, b
<1>4. Len(a) + Len(b) = Len(l) - 1
  <2> HIDE DEF a, b
  <2> QED  BY <1>1, <1>2 DEF a, b
<1>5. RemoveAt(l, n) = a \o b
  BY DEF RemoveAt
<1> QED  BY <1>3, <1>4, <1>5
-----------------------------------------------------------------------------
(* The dialog *)

\* A session that Erase, Restore or a list names is one.
LEMMA RowsAreSessions ==
    ASSUME DiskInv  PROVE Listing \in Seq(Sids)
<1>1. Listing \in Seq(Listed) /\ Listed \subseteq Sids
  BY ListingIsSorted, ListedFinite
<1> QED  BY <1>1, SeqMonotonic

\* What the cursor is on, in a list that is not empty.
LEMMA SelectedIsSession ==
    ASSUME ScreenInv, NEW i \in Instances, view[i].open, view[i].list # <<>>
    PROVE  /\ view[i].cursor + 1 \in DOMAIN view[i].list
           /\ Selected(i) \in Sids
<1>1. view[i].list \in Seq(Sids)
  BY DEF ScreenInv, Views
<1>2. view[i].cursor + 1 \in DOMAIN view[i].list
  BY DEF ScreenInv, SelectionIsARow
<1>3. view[i].cursor + 1 \in 1 .. Len(view[i].list)
  BY <1>1, <1>2, LenProperties
<1> QED  BY <1>1, <1>2, <1>3, ElementOfSeq DEF Selected

\* The end of a process closes its dialog.
LEMMA EndScreen ==
    ASSUME IInv, NEW i \in Instances,
           up' = [up EXCEPT ![i] = FALSE],
           view' = [view EXCEPT ![i] = Closed],
           post' = [post EXCEPT ![i] = <<>>]
    PROVE  ScreenInv'
<1>1. Closed \in Views /\ <<>> \in Seq(Letters) /\ ~Closed.open
  BY EmptySeq DEF Closed, Views
<1>2. view' \in [Instances -> Views] /\ post' \in [Instances -> Seq(Letters)]
  BY <1>1 DEF IInv, ScreenInv
<1>3. ASSUME NEW j \in Instances, ~up'[j]  PROVE view'[j] = Closed /\ post'[j] = <<>>
  BY <1>3 DEF IInv, ScreenInv, DiskInv, DiskTyped
<1>4. SelectionIsARow'
  <2> SUFFICES ASSUME NEW j \in Instances, view'[j].open, view'[j].list # <<>>
               PROVE  view'[j].cursor + 1 \in DOMAIN view'[j].list
    BY DEF SelectionIsARow
  <2>1. j # i
    BY <1>1 DEF IInv, ScreenInv
  <2> QED  BY <2>1 DEF IInv, ScreenInv, SelectionIsARow
<1> QED  BY <1>2, <1>3, <1>4 DEF ScreenInv

\* A step that leaves a dialog alone, of a process that does not end.
LEMMA SameScreen ==
    ASSUME ScreenInv, UNCHANGED screenVars, \A i \in Instances : up[i] => up'[i]
    PROVE  ScreenInv'
BY DEF ScreenInv, screenVars, SelectionIsARow

\* A dialog that is changed to a list with its cursor on a row.
LEMMA ViewChanges ==
    ASSUME ScreenInv, NEW i \in Instances, up[i], up' = up, post' \in [Instances -> Seq(Letters)],
           NEW w \in Views, w.open /\ w.list # <<>> => w.cursor + 1 \in DOMAIN w.list,
           view' = [view EXCEPT ![i] = w],
           \A j \in Instances \ {i} : post'[j] = post[j]
    PROVE  ScreenInv'
<1>1. view' \in [Instances -> Views]
  BY DEF ScreenInv
<1>2. \A j \in Instances : ~up'[j] => view'[j] = Closed /\ post'[j] = <<>>
  BY DEF ScreenInv
<1>3. SelectionIsARow'
  <2> SUFFICES ASSUME NEW j \in Instances, view'[j].open, view'[j].list # <<>>
               PROVE  view'[j].cursor + 1 \in DOMAIN view'[j].list
    BY DEF SelectionIsARow
  <2>1. CASE j = i
    BY <2>1 DEF ScreenInv
  <2>2. CASE j # i
    BY <2>2 DEF ScreenInv, SelectionIsARow
  <2> QED  BY <2>1, <2>2
<1> QED  BY <1>1, <1>2, <1>3 DEF ScreenInv

\* The cursor is on the first row of a list that is opened.
LEMMA ListOpens ==
    ASSUME IInv, NEW i \in Instances, OpenList(i)
    PROVE  ScreenInv'
<1>1. Listing \in Seq(Sids)
  BY RowsAreSessions DEF IInv
<1> DEFINE w == [open |-> TRUE, list |-> Listing, cursor |-> 0]
<1>2. w \in Views
  BY <1>1 DEF Views
<1>3. Listing # <<>> => 0 + 1 \in DOMAIN Listing
  <2>1. Listing # <<>> => Len(Listing) # 0
    BY <1>1, EmptySeq
  <2> QED  BY <1>1, <2>1, LenProperties
<1>4. view' = [view EXCEPT ![i] = w] /\ UNCHANGED <<post, up>> /\ up[i]
  BY DEF OpenList, Free, Idle, procVars
<1>5. w.list = Listing /\ w.cursor = 0 /\ w.open
  OBVIOUS
<1>6. post' \in [Instances -> Seq(Letters)]
  BY <1>4 DEF IInv, ScreenInv
<1> HIDE DEF w
<1> QED  BY <1>2, <1>3, <1>4, <1>5, <1>6, ViewChanges DEF IInv

\* The cursor moves from row to row.
LEMMA CursorMoves ==
    ASSUME IInv, NEW i \in Instances, MoveCursor(i)
    PROVE  ScreenInv'
<1> DEFINE l == view[i].list
           n == Len(l)
           c == view[i].cursor
<1>1. l \in Seq(Sids) /\ n \in Nat /\ DOMAIN l = 1..n /\ c \in Int /\ view[i] \in Views
  BY LenProperties DEF IInv, ScreenInv, Views
<1>2. PICK next \in {IF c > 0 THEN c - 1 ELSE 0, IF c + 1 < n THEN c + 1 ELSE n - 1}
                    \cup 0..(n - 1) : view' = [view EXCEPT ![i].cursor = next]
  BY DEF MoveCursor
<1>3. view[i].open /\ up[i] /\ UNCHANGED <<post, up>>
  BY DEF MoveCursor, Idle, procVars
<1>4. l # <<>> => n # 0 /\ c + 1 \in 1..n
  BY <1>1, <1>3, EmptySeq DEF IInv, ScreenInv, SelectionIsARow
<1> DEFINE w == [view[i] EXCEPT !.cursor = next]
<1>5. w \in Views /\ w.list = l /\ w.cursor = next
  <2>1. next \in Int
    <3> HIDE DEF n, c, l
    <3> QED  BY <1>1, <1>2
  <2> QED  BY <1>1, <2>1 DEF Views
<1>6. w.list # <<>> => w.cursor + 1 \in DOMAIN w.list
  <2> HIDE DEF w, n, c, l
  <2> QED  BY <1>1, <1>2, <1>4, <1>5
<1>7. view' = [view EXCEPT ![i] = w]
  BY <1>2 DEF IInv, ScreenInv
<1>8. post' \in [Instances -> Seq(Letters)]
  BY <1>3 DEF IInv, ScreenInv
<1> HIDE DEF w
<1> QED  BY <1>3, <1>5, <1>6, <1>7, <1>8, ViewChanges DEF IInv

\* After a deletion the cursor is on the next row, or on the last.
LEMMA RowDeleted ==
    ASSUME IInv, NEW i \in Instances, DeleteKey(i)
    PROVE  ScreenInv'
<1> DEFINE l == view[i].list
           c == view[i].cursor
           rest == RemoveAt(l, c + 1)
           w == [view[i] EXCEPT !.list = rest,
                                !.cursor = IF rest = <<>> \/ c < Len(rest)
                                           THEN c ELSE Len(rest) - 1]
<1>1. view[i].open /\ l # <<>> /\ up[i] /\ up' = up
  BY DEF DeleteKey, Idle, procVars
<1>2. l \in Seq(Sids) /\ DOMAIN l = 1..Len(l) /\ c \in Int /\ view[i] \in Views
  BY LenProperties DEF IInv, ScreenInv, Views
<1>3. c + 1 \in DOMAIN l /\ Selected(i) \in Sids
  BY <1>1, SelectedIsSession DEF IInv
<1>4. rest \in Seq(Sids) /\ Len(rest) = Len(l) - 1
  BY <1>2, <1>3, RowRemoved
<1>5. w \in Views /\ w.list = rest /\ Len(rest) \in Nat
      /\ w.cursor = IF rest = <<>> \/ c < Len(rest) THEN c ELSE Len(rest) - 1
  <2>1. Len(rest) \in Nat
    BY <1>4, LenProperties
  <2> DEFINE d == IF rest = <<>> \/ c < Len(rest) THEN c ELSE Len(rest) - 1
  <2>2. d \in Int
    <3> HIDE DEF rest, c
    <3> QED  BY <1>2, <2>1
  <2>3. w = [view[i] EXCEPT !.list = rest, !.cursor = d]
    OBVIOUS
  <2> HIDE DEF w, d, rest
  <2>4. w \in Views /\ w.list = rest /\ w.cursor = d
    BY <1>2, <1>4, <2>2, <2>3 DEF Views
  <2> QED  BY <2>1, <2>4 DEF d
<1>6. w.list # <<>> => w.cursor + 1 \in DOMAIN w.list
  <2> HIDE DEF w, rest, l, c
  <2>1. DOMAIN rest = 1..Len(rest) /\ (rest # <<>> => Len(rest) # 0)
    BY <1>4, LenProperties, EmptySeq
  <2> QED  BY <1>2, <1>3, <1>4, <1>5, <2>1
<1>7. view' = [view EXCEPT ![i] = w]
  BY DEF DeleteKey, IInv, ScreenInv
<1>8. post' = [post EXCEPT ![i] = Append(@, [kind |-> "deleted", s |-> Selected(i)])]
  BY DEF DeleteKey
<1>9. post' \in [Instances -> Seq(Letters)]
  <2>1. [kind |-> "deleted", s |-> Selected(i)] \in Letters
    BY <1>3 DEF Letters
  <2> QED  BY <1>8, <2>1, AppendProperties DEF IInv, ScreenInv
<1> HIDE DEF w
<1> QED  BY <1>1, <1>5, <1>6, <1>7, <1>8, <1>9, ViewChanges DEF IInv, ScreenInv

\* Return leaves a message and closes the list.
LEMMA RowResumed ==
    ASSUME IInv, NEW i \in Instances, ResumeKey(i)
    PROVE  ScreenInv'
<1>1. view[i].open /\ view[i].list # <<>> /\ up[i] /\ up' = up
  BY DEF ResumeKey, Idle, procVars
<1>2. Selected(i) \in Sids
  BY <1>1, SelectedIsSession DEF IInv
<1>3. post' = [post EXCEPT ![i] = Append(@, [kind |-> "resumed", s |-> Selected(i)])]
  BY DEF ResumeKey
<1>4. post' \in [Instances -> Seq(Letters)]
  <2>1. [kind |-> "resumed", s |-> Selected(i)] \in Letters
    BY <1>2 DEF Letters
  <2> QED  BY <1>3, <2>1, AppendProperties DEF IInv, ScreenInv
<1>5. Closed \in Views /\ ~Closed.open /\ view' = [view EXCEPT ![i] = Closed]
  BY EmptySeq DEF Closed, Views, ResumeKey
<1> QED  BY <1>1, <1>3, <1>4, <1>5, ViewChanges DEF IInv, ScreenInv

\* A message that is handled names a session, and is gone afterwards.
LEMMA MessageTaken ==
    ASSUME ScreenInv, NEW i \in Instances, post[i] # <<>>
    PROVE  /\ Head(post[i]) \in Letters
           /\ Taken(i) => post' \in [Instances -> Seq(Letters)]
<1>1. post[i] \in Seq(Letters)
  BY DEF ScreenInv
<1>2. Head(post[i]) \in Letters /\ Tail(post[i]) \in Seq(Letters)
  BY <1>1, HeadTailProperties
<1>3. Taken(i) => post' \in [Instances -> Seq(Letters)]
  BY <1>2 DEF Taken, ScreenInv
<1> QED  BY <1>2, <1>3

\* The dialog after a message was handled by a process that goes on.
LEMMA TakenScreen ==
    ASSUME ScreenInv, NEW i \in Instances, post[i] # <<>>, Taken(i),
           view' = view, \A j \in Instances : up[j] => up'[j]
    PROVE  ScreenInv'
<1>1. post' \in [Instances -> Seq(Letters)]
  BY MessageTaken
<1>2. \A j \in Instances : ~up'[j] => view'[j] = Closed /\ post'[j] = <<>>
  BY DEF ScreenInv, Taken
<1> QED  BY <1>1, <1>2 DEF ScreenInv, SelectionIsARow
-----------------------------------------------------------------------------
(* Files and processes, one step at a time *)

\* A step that touches no file and no process.
LEMMA SameDisk ==
    ASSUME DiskInv,
           UNCHANGED <<diskVars, procVars, saving, countVars, lone, settled, hurt>>
    PROVE  DiskInv'
BY DEF DiskInv, DiskTyped, Known, Alone, Underway, Written, DamageHasACause, Damaged, NotFound,
       Readable, Savers, diskVars, procVars, countVars

\* A session that just began has a content.
LEMMA BlankIsContent == Blank \in Contents
BY SessionsAssumption DEF Blank, Contents

\* An empty directory has files of the right type.
LEMMA NoFilesTyped == NoFiles \in [Marks -> States]
<1>1. NoFile \in States
  BY SessionsAssumption DEF NoFile, States
<1> QED  BY <1>1 DEF NoFiles, Marks

\* What a resume brings back is a content.
LEMMA StoredIsContent ==
    ASSUME DiskInv, NEW s \in Sids
    PROVE  Stored(s) \in Contents
<1>1. \A n \in Marks : Stored(s)[n] \in 0..MaxWork
  <2>1. \A n \in Marks : file[s][n] \in States
    BY DEF DiskInv, DiskTyped
  <2> QED  BY <2>1, SessionsAssumption DEF Stored, Marks, States
<1>2. Stored(s) = [n \in Marks |-> Stored(s)[n]]
  BY DEF Stored, Marks
<1>3. Stored(s) = [meta |-> Stored(s).meta, talk |-> Stored(s).talk, panes |-> Stored(s).panes]
  BY <1>2 DEF Marks
<1> QED  BY <1>1, <1>3 DEF Contents, Marks

\* So is what of it is live.
LEMMA RestoredIsContent ==
    ASSUME DiskInv, NEW s \in Sids
    PROVE  Restored(s) \in Contents /\ Stored(s).panes \in 0..MaxWork
<1>1. Stored(s) \in Contents /\ 0 \in 0..MaxWork
  BY StoredIsContent, SessionsAssumption
<1> QED  BY <1>1 DEF Restored, Contents

\* A fresh session has an empty directory, and nobody else works in it.
LEMMA StartKeeps ==
    ASSUME DiskInv, NEW i \in Instances, Start(i)
    PROVE  DiskInv'
<1>1. PICK s \in Sids \ used : /\ Enter(i, s, Blank, {})
                               /\ dir' = [dir EXCEPT ![s] = TRUE]
                               /\ used' = used \cup {s}
  BY DEF Start
<1>2. /\ UNCHANGED <<file, born, saving, tick, saves, lone, settled, hurt>>
      /\ ~up[i] /\ starts < MaxStarts /\ starts' = starts + 1
  BY DEF Start
<1>3. s # NoSid
  BY SessionsAssumption DEF NoSid
<1>4. DiskTyped'
  <2>1. IsFiniteSet(used')
    BY <1>1, FS_AddElement DEF DiskInv, DiskTyped
  <2>2. starts' \in 0..MaxStarts
    BY <1>2, SessionsAssumption DEF DiskInv, DiskTyped
  <2>3. /\ up' \in [Instances -> BOOLEAN]
        /\ sid' \in [Instances -> Sids \cup {NoSid}]
        /\ live' \in [Instances -> Contents]
        /\ replay' \in [Instances -> SUBSET (0..MaxWork)]
    BY <1>1, BlankIsContent DEF Enter, DiskInv, DiskTyped
  <2> QED  BY <1>1, <1>2, <2>1, <2>2, <2>3 DEF DiskInv, DiskTyped
<1>5. Known'
  BY <1>1, <1>2, <1>3, <1>4 DEF Enter, DiskInv, DiskTyped, Known
<1>6. saving[i] = Rest /\ ~lone[i] /\ \A j \in Instances : sid[j] # s
  BY <1>1, <1>2, <1>3 DEF DiskInv, Known, Alone
<1>7. Alone'
  BY <1>1, <1>2, <1>6 DEF Enter, DiskInv, DiskTyped, Alone
<1>8. Underway'
  BY <1>1, <1>2, <1>6 DEF Enter, DiskInv, DiskTyped, Underway, Written
<1>9. DamageHasACause'
  <2> SUFFICES ASSUME NEW t \in Sids, Damaged(t)', t \notin hurt'
               PROVE  Savers(t)' # {}
    BY DEF DamageHasACause
  <2>1. t # s
    <3>1. file'[s] = NoFiles
      BY <1>1, <1>2 DEF DiskInv, Known
    <3> QED  BY <3>1 DEF Damaged, NotFound, NoFiles, NoFile
  <2>2. Damaged(t)
    BY <1>1, <1>2, <2>1 DEF Damaged, NotFound, Readable, DiskInv, DiskTyped
  <2>3. PICK j \in Instances : up[j] /\ saving[j] # Rest /\ sid[j] = t
    BY <1>2, <2>2 DEF DiskInv, DamageHasACause, Savers
  <2>4. j # i
    BY <1>2, <2>3
  <2> QED  BY <1>1, <1>2, <2>3, <2>4 DEF Savers, Enter
<1> QED  BY <1>4, <1>5, <1>7, <1>8, <1>9 DEF DiskInv

\* A process that saves nothing enters a session that can be loaded.
LEMMA EnterKeeps ==
    ASSUME DiskInv, NEW i \in Instances, NEW s \in Sids, saving[i] = Rest,
           NEW o \in SUBSET (0..MaxWork), i \in Tui \/ o = {},
           Readable(s), Enter(i, s, Restored(s), o), starts' \in 0..MaxStarts,
           UNCHANGED <<diskVars, saving, tick, saves, used, lone, settled, hurt>>
    PROVE  DiskInv'
<1>1. s \in used /\ s # NoSid
  BY SessionsAssumption DEF Readable, NotFound, DiskInv, Known, NoSid
<1>2. /\ up' \in [Instances -> BOOLEAN]
      /\ sid' \in [Instances -> Sids \cup {NoSid}]
      /\ live' \in [Instances -> Contents]
      /\ replay' \in [Instances -> SUBSET (0..MaxWork)]
  BY RestoredIsContent DEF Enter, DiskInv, DiskTyped
<1>3. DiskTyped'
  BY <1>2 DEF DiskInv, DiskTyped, diskVars
<1>4. Known'
  BY <1>1, <1>2 DEF Enter, DiskInv, DiskTyped, Known, diskVars
<1>5. ~lone[i]
  BY DEF DiskInv, Alone
<1>6. Alone'
  BY <1>5 DEF Enter, DiskInv, DiskTyped, Alone
<1>7. Underway'
  BY DEF Enter, DiskInv, DiskTyped, Underway, Written, diskVars
<1>8. \A t \in Sids : Savers(t) \subseteq Savers(t)'
  BY DEF Savers, Enter, DiskInv, DiskTyped
<1>9. DamageHasACause'
  BY <1>8 DEF DiskInv, DamageHasACause, Damaged, NotFound, Readable, diskVars
<1> QED  BY <1>3, <1>4, <1>6, <1>7, <1>9 DEF DiskInv

\* What a process holds changes while it saves nothing.
LEMMA LiveChanges ==
    ASSUME DiskInv, NEW i \in Instances, up[i], saving[i] = Rest, NEW c \in Contents,
           live' = [live EXCEPT ![i] = c], tick' \in 0..MaxWork,
           replay' \in [Instances -> SUBSET (0..MaxWork)],
           \A j \in Instances : replay'[j] \subseteq replay[j],
           UNCHANGED <<diskVars, up, sid, saving, saves, starts, used, lone, settled, hurt>>
    PROVE  DiskInv'
<1>1. DiskTyped'
  BY DEF DiskInv, DiskTyped, diskVars
<1>2. Known'
  BY DEF DiskInv, DiskTyped, Known, diskVars
<1>3. Alone' /\ DamageHasACause'
  BY DEF DiskInv, Alone, DamageHasACause, Damaged, NotFound, Readable, Savers, diskVars
<1>4. Underway'
  BY DEF DiskInv, DiskTyped, Underway, Written, diskVars
<1> QED  BY <1>1, <1>2, <1>3, <1>4 DEF DiskInv

\* A turn does, and notes the time.
LEMMA WorkKeeps ==
    ASSUME DiskInv, NEW i \in Instances, Work(i)
    PROVE  DiskInv'
<1>1. /\ saving[i] = Rest /\ up[i] /\ tick < MaxWork /\ tick' = tick + 1
      /\ live' = [live EXCEPT ![i] = [n \in DOMAIN live[i] |-> tick + 1]]
      /\ UNCHANGED <<diskVars, up, sid, replay, saving, saves, starts, used, lone, settled, hurt>>
  BY DEF Work, Free, Idle
<1>2. [n \in DOMAIN live[i] |-> tick + 1] \in Contents /\ tick' \in 0..MaxWork
  <2>1. tick + 1 \in 0..MaxWork
    BY <1>1, SessionsAssumption DEF DiskInv, DiskTyped
  <2>2. DOMAIN live[i] = Marks
    BY DEF DiskInv, DiskTyped, Contents, Marks
  <2>3. [n \in Marks |-> tick + 1]
            = [meta |-> tick + 1, talk |-> tick + 1, panes |-> tick + 1]
    BY DEF Marks
  <2> QED  BY <1>1, <2>1, <2>2, <2>3 DEF Contents
<1>3. replay' \in [Instances -> SUBSET (0..MaxWork)]
  BY <1>1 DEF DiskInv, DiskTyped
<1> QED  BY <1>1, <1>2, <1>3, LiveChanges

\* What starting saved panes again changes.
LEMMA ReplayChanges ==
    ASSUME DiskInv, NEW i \in Instances, Replay(i)
    PROVE  /\ up[i] /\ saving[i] = Rest /\ replay[i] # {}
           /\ \E c \in Contents : /\ live' = [live EXCEPT ![i] = c]
                                 /\ [c EXCEPT !.panes = live[i].panes] = live[i]
           /\ replay' = [replay EXCEPT ![i] = replay'[i]]
           /\ replay'[i] \subseteq replay[i]
           /\ UNCHANGED <<diskVars, up, sid, saving, screenVars, countVars, lone, settled, hurt>>
<1>1. /\ up[i] /\ saving[i] = Rest
      /\ UNCHANGED <<diskVars, up, sid, saving, screenVars, countVars, lone, settled, hurt>>
  BY DEF Replay, Idle
<1>2. PICK q \in 0..MaxWork : live' = [live EXCEPT ![i].panes = q]
  BY DEF Replay
<1>3. PICK p \in replay[i] : replay' = [replay EXCEPT ![i] = @ \ {p}] \/ UNCHANGED replay
  BY DEF Replay
<1> DEFINE c == [live[i] EXCEPT !.panes = q]
<1>4. live[i] \in Contents /\ live' = [live EXCEPT ![i] = c]
  BY <1>2 DEF DiskInv, DiskTyped
<1>5. c \in Contents /\ [c EXCEPT !.panes = live[i].panes] = live[i]
  BY <1>4 DEF Contents
<1>6. replay' = [replay EXCEPT ![i] = replay'[i]] /\ replay'[i] \subseteq replay[i]
  BY <1>3 DEF DiskInv, DiskTyped
<1> QED  BY <1>1, <1>3, <1>4, <1>5, <1>6

\* Saved panes are started again while nothing is saved.
LEMMA ReplayKeeps ==
    ASSUME DiskInv, NEW i \in Instances, Replay(i)
    PROVE  DiskInv'
<1>1. PICK c \in Contents : live' = [live EXCEPT ![i] = c]
  BY ReplayChanges
<1>2. /\ up[i] /\ saving[i] = Rest
      /\ replay' = [replay EXCEPT ![i] = replay'[i]]
      /\ replay'[i] \subseteq replay[i]
      /\ UNCHANGED <<diskVars, up, sid, saving, countVars, lone, settled, hurt>>
  BY ReplayChanges
<1>3. /\ replay' \in [Instances -> SUBSET (0..MaxWork)]
      /\ \A j \in Instances : replay'[j] \subseteq replay[j]
  BY <1>2 DEF DiskInv, DiskTyped
<1>4. tick' \in 0..MaxWork
  BY <1>2 DEF DiskInv, DiskTyped, countVars
<1> QED  BY <1>1, <1>2, <1>3, <1>4, LiveChanges DEF countVars

\* A process stops saving, and may end.
Stops(i) ==
    /\ saving' = [saving EXCEPT ![i] = Rest]
    /\ lone' = [lone EXCEPT ![i] = FALSE]
    /\ \/ UNCHANGED procVars
       \/ /\ up' = [up EXCEPT ![i] = FALSE]
          /\ sid' = [sid EXCEPT ![i] = NoSid]
          /\ live' = [live EXCEPT ![i] = Blank]
          /\ replay' = [replay EXCEPT ![i] = {}]

\* What a process that stops saving leaves as it was.
LEMMA StopsTyped ==
    ASSUME DiskInv, NEW i \in Instances, Stops(i)
    PROVE  /\ up' \in [Instances -> BOOLEAN]
           /\ sid' \in [Instances -> Sids \cup {NoSid}]
           /\ live' \in [Instances -> Contents]
           /\ replay' \in [Instances -> SUBSET (0..MaxWork)]
           /\ saving' \in [Instances -> 0..6]
           /\ lone' \in [Instances -> BOOLEAN]
           /\ \A j \in Instances : sid'[j] = sid[j] \/ sid'[j] = NoSid
           /\ \A j \in Instances : up'[j] <=> sid'[j] # NoSid
           /\ \A j \in Instances :
                ~up'[j] => live'[j] = Blank /\ saving'[j] = Rest /\ replay'[j] = {}
           /\ \A j \in Instances \ Tui : replay'[j] = {}
           /\ \A j \in Instances \ {i} : /\ up'[j] = up[j] /\ sid'[j] = sid[j]
                                         /\ live'[j] = live[j] /\ lone'[j] = lone[j]
                                         /\ saving'[j] = saving[j]
           /\ saving'[i] = Rest /\ ~lone'[i]
<1>1. Rest \in 0..6
  BY DEF Rest
<1>2. CASE UNCHANGED procVars
  BY <1>1, <1>2 DEF Stops, DiskInv, DiskTyped, Known, procVars
<1>3. CASE /\ up' = [up EXCEPT ![i] = FALSE]
           /\ sid' = [sid EXCEPT ![i] = NoSid]
           /\ live' = [live EXCEPT ![i] = Blank]
           /\ replay' = [replay EXCEPT ![i] = {}]
  BY <1>1, <1>3, BlankIsContent DEF Stops, DiskInv, DiskTyped, Known
<1> QED  BY <1>2, <1>3 DEF Stops

\* A save that is given up leaves a session as it is: noted as hurt, or without
\* its directory.
LEMMA StopKeeps ==
    ASSUME DiskInv, NEW i \in Instances, Stops(i),
           UNCHANGED <<diskVars, countVars, settled>>,
           hurt \subseteq hurt', hurt' \subseteq Sids,
           saving[i] = Rest \/ sid[i] \in hurt' \/ ~dir[sid[i]]
    PROVE  DiskInv'
<1>1. DiskTyped'
  BY StopsTyped DEF DiskInv, DiskTyped, diskVars, countVars
<1>2. Known'
  BY StopsTyped DEF DiskInv, DiskTyped, Known, diskVars, countVars
<1>3. Alone'
  BY StopsTyped DEF DiskInv, DiskTyped, Alone
<1>4. Underway'
  BY StopsTyped DEF DiskInv, DiskTyped, Underway, Written, diskVars
<1>5. DamageHasACause'
  <2> SUFFICES ASSUME NEW t \in Sids, Damaged(t)', t \notin hurt'
               PROVE  Savers(t)' # {}
    BY DEF DamageHasACause
  <2>1. Damaged(t) /\ dir[t] /\ t \notin hurt
    BY DEF Damaged, NotFound, Readable, diskVars
  <2>2. PICK j \in Instances : up[j] /\ saving[j] # Rest /\ sid[j] = t
    BY <2>1 DEF DiskInv, DamageHasACause, Savers
  <2>3. j # i
    BY <2>1, <2>2
  <2> QED  BY <2>2, <2>3, StopsTyped DEF Savers
<1> QED  BY <1>1, <1>2, <1>3, <1>4, <1>5 DEF DiskInv

\* The processes that save a session, without the condition that they run.
LEMMA SaversAre ==
    ASSUME DiskInv, NEW s \in Sids
    PROVE  Savers(s) = {j \in Instances : saving[j] # Rest /\ sid[j] = s}
BY DEF Savers, DiskInv, Known

\* A save begins: it notes the others, and they note it.
LEMMA SaveStartsKeeps ==
    ASSUME DiskInv, NEW i \in Instances, Idle(i), SaveStarts(i),
           live' \in [Instances -> Contents], \A j \in Instances \ {i} : live'[j] = live[j]
    PROVE  DiskInv'
<1> DEFINE s == sid[i]
           others == Savers(s) \ {i}
<1>1. /\ dir[s] /\ saving[i] = Rest /\ up[i]
      /\ saving' = [saving EXCEPT ![i] = 1]
      /\ lone' = [j \in Instances |-> IF j = i THEN others = {}
                                      ELSE lone[j] /\ j \notin others]
      /\ settled' = [settled EXCEPT ![s] = "unsettled"]
      /\ hurt' = IF others = {} THEN hurt ELSE hurt \cup {s}
      /\ saves < MaxSaves /\ saves' = saves + 1
      /\ UNCHANGED <<diskVars, up, sid, replay, tick, starts, used>>
  BY DEF SaveStarts, Idle
<1>2. s \in Sids /\ s \in used
  BY <1>1 DEF DiskInv, DiskTyped, Known, NoSid
<1>3. others = {j \in Instances \ {i} : saving[j] # Rest /\ sid[j] = s}
  BY <1>2, SaversAre
<1> HIDE DEF others
<1>0. /\ lone' \in [Instances -> BOOLEAN]
      /\ lone'[i] <=> others = {}
      /\ \A j \in Instances \ {i} : lone'[j] <=> lone[j] /\ j \notin others
  BY <1>1, Zenon DEF DiskInv, DiskTyped
<1>9. /\ saving' \in [Instances -> 0..6]
      /\ saving'[i] = 1 /\ Rest # 1
      /\ \A j \in Instances \ {i} : saving'[j] = saving[j]
  BY <1>1 DEF DiskInv, DiskTyped, Rest
<1>4. DiskTyped'
  <2>1. saves' \in 0..MaxSaves
    BY <1>1, SessionsAssumption DEF DiskInv, DiskTyped
  <2> QED  BY <1>0, <1>1, <1>2, <1>9, <2>1 DEF DiskInv, DiskTyped, diskVars
<1>5. Known'
  BY <1>1, <1>2 DEF DiskInv, DiskTyped, Known, diskVars
<1>6. Alone'
  <2> SUFFICES ASSUME NEW j \in Instances, lone'[j]
               PROVE  /\ saving'[j] # Rest
                      /\ \A k \in Instances : saving'[k] # Rest /\ sid'[k] = sid'[j] => k = j
    BY DEF Alone
  <2>1. CASE j = i
    BY <1>0, <1>1, <1>3, <1>9, <2>1
  <2>2. CASE j # i
    <3>1. lone[j] /\ j \notin others /\ sid' = sid
      BY <1>0, <1>1, <2>2
    <3>2. sid[j] # s
      BY <1>3, <2>2, <3>1 DEF DiskInv, Alone
    <3> QED  BY <1>9, <2>2, <3>1, <3>2 DEF DiskInv, Alone
  <2> QED  BY <2>1, <2>2
<1>7. Underway'
  <2> SUFFICES ASSUME NEW j \in Instances, saving'[j] # Rest, dir'[sid'[j]]
               PROVE  /\ settled'[sid[j]] = "unsettled"
                      /\ lone'[j] => Written(j)'
                      /\ ~lone'[j] => sid[j] \in hurt'
    BY <1>1 DEF Underway
  <2>1. CASE j = i
    <3>1. settled'[s] = "unsettled"
      BY <1>1, <1>2 DEF DiskInv, DiskTyped
    <3>2. Written(i)'
      BY <1>1 DEF Written, DiskInv, DiskTyped
    <3>3. ~lone'[i] => s \in hurt'
      BY <1>0, <1>1
    <3> QED  BY <2>1, <3>1, <3>2, <3>3
  <2>2. CASE j # i
    <3>1. saving[j] # Rest /\ dir[sid[j]] /\ sid[j] \in Sids
      BY <1>1, <2>2 DEF DiskInv, DiskTyped, Known, diskVars, NoSid
    <3>2. /\ settled[sid[j]] = "unsettled"
          /\ lone[j] => Written(j)
          /\ ~lone[j] => sid[j] \in hurt
      BY <3>1 DEF DiskInv, Underway
    <3>3. settled'[sid[j]] = "unsettled"
      BY <1>1, <3>1, <3>2 DEF DiskInv, DiskTyped
    <3>4. lone'[j] => Written(j)'
      BY <1>0, <1>1, <1>9, <2>2, <3>2 DEF Written, diskVars
    <3>5. ~lone'[j] => sid[j] \in hurt'
      BY <1>0, <1>1, <1>3, <2>2, <3>1, <3>2
    <3> QED  BY <3>3, <3>4, <3>5
  <2> QED  BY <2>1, <2>2
<1>8. DamageHasACause'
  <2>1. \A t \in Sids : Savers(t) \subseteq Savers(t)'
    BY <1>1 DEF Savers, DiskInv, DiskTyped, Rest
  <2> QED  BY <1>1, <2>1 DEF DiskInv, DamageHasACause, Damaged, NotFound, Readable, diskVars
<1> QED  BY <1>4, <1>5, <1>6, <1>7, <1>8 DEF DiskInv

\* What the steps of a save share: the session is that of the process, has its
\* directory, and nothing is promised of it.
LEMMA SaverKnows ==
    ASSUME DiskInv, NEW i \in Instances, saving[i] # Rest, dir[sid[i]]
    PROVE  /\ up[i] /\ sid[i] \in Sids /\ sid[i] \in used
           /\ settled[sid[i]] = "unsettled"
           /\ lone[i] => Written(i)
           /\ ~lone[i] => sid[i] \in hurt
           /\ \A j \in Instances : j # i /\ sid[j] = sid[i] => ~lone[j]
BY DEF DiskInv, DiskTyped, Known, Alone, Underway, NoSid

\* A step of a save that goes on to the next: it changes files of its session
\* only.
LEMMA SaveGoesOn ==
    ASSUME DiskInv, NEW i \in Instances, saving[i] # Rest, dir[sid[i]],
           NEW k \in 1..6, saving' = [saving EXCEPT ![i] = k],
           file' \in [Sids -> [Marks -> States]], born' \in [Sids -> 0..MaxWork],
           \A t \in Sids : t # sid[i] => file'[t] = file[t],
           lone[i] => Written(i)',
           UNCHANGED <<dir, procVars, countVars, lone, settled, hurt>>
    PROVE  DiskInv'
<1>0. k # Rest /\ k \in 0..6
  BY DEF Rest
<1>1. DiskTyped'
  BY <1>0 DEF DiskInv, DiskTyped, procVars, countVars
<1>2. Known'
  BY SaverKnows DEF DiskInv, DiskTyped, Known, procVars, countVars
<1>3. \A j \in Instances : (saving'[j] # Rest <=> saving[j] # Rest) /\ (j # i => saving'[j] = saving[j])
  BY <1>0 DEF DiskInv, DiskTyped
<1>4. Alone'
  BY <1>3 DEF DiskInv, Alone, procVars
<1>5. Underway'
  <2> SUFFICES ASSUME NEW j \in Instances, saving[j] # Rest, dir[sid[j]], lone[j]
               PROVE  Written(j)'
    BY <1>3 DEF DiskInv, Underway, procVars
  <2>1. CASE j = i
    BY <2>1
  <2>2. CASE j # i
    <3>1. sid[j] # sid[i] /\ sid[j] \in Sids /\ Written(j)
      BY <2>2, SaverKnows
    <3> QED  BY <1>3, <2>2, <3>1 DEF Written, procVars
  <2> QED  BY <2>1, <2>2
<1>6. DamageHasACause'
  <2> SUFFICES ASSUME NEW t \in Sids, Damaged(t)', t \notin hurt
               PROVE  Savers(t)' # {}
    BY DEF DamageHasACause
  <2>1. Savers(t)' = Savers(t)
    BY <1>3 DEF Savers, procVars
  <2>2. CASE t = sid[i]
    BY <2>1, <2>2, SaverKnows DEF Savers
  <2>3. CASE t # sid[i]
    <3>1. Damaged(t)
      BY <2>3 DEF Damaged, NotFound, Readable
    <3> QED  BY <2>1, <3>1 DEF DiskInv, DamageHasACause
  <2> QED  BY <2>2, <2>3
<1> QED  BY <1>1, <1>2, <1>4, <1>5, <1>6 DEF DiskInv

\* The file a save opens is empty or torn; the one before it is closed.
LEMMA TruncateKeeps ==
    ASSUME DiskInv, NEW i \in Instances, Truncate(i)
    PROVE  DiskInv'
<1> DEFINE s == sid[i]
           n == Names[(saving[i] + 1) \div 2]
           k == saving[i] + 1
<1>1. saving[i] \in {1, 3, 5} /\ dir[s] /\ saving[i] # Rest
  BY DEF Truncate, Rest
<1>2. PICK st \in {"short", "torn"} : file' = [file EXCEPT ![s][n] = [st |-> st, v |-> 0]]
  BY DEF Truncate
<1>3. /\ born' = [born EXCEPT ![s] = IF n = "meta" /\ file[s].meta.st # "ok" THEN tick ELSE @]
      /\ saving' = [saving EXCEPT ![i] = k]
      /\ UNCHANGED <<dir, procVars, countVars, lone, settled, hurt>>
  BY DEF Truncate
<1>4. k \in 1..6 /\ (saving[i] = 1 => n = "meta") /\ (saving[i] = 3 => n = "talk")
      /\ (saving[i] = 5 => n = "panes")
  BY <1>1 DEF Names
<1>5. n \in Marks /\ s \in Sids
  BY <1>1, <1>4, SaverKnows DEF Marks
<1> HIDE DEF n, k
<1>6. file' \in [Sids -> [Marks -> States]]
  <2>1. [st |-> st, v |-> 0] \in States
    BY SessionsAssumption DEF States
  <2> QED  BY <1>2, <1>5, <2>1 DEF DiskInv, DiskTyped
<1>7. born' \in [Sids -> 0..MaxWork]
  BY <1>3, <1>5 DEF DiskInv, DiskTyped
<1>8. \A t \in Sids : t # s => file'[t] = file[t]
  BY <1>2, <1>5 DEF DiskInv, DiskTyped
<1>9. lone[i] => Written(i)'
  <2> SUFFICES ASSUME lone[i]  PROVE Written(i)'
    OBVIOUS
  <2>1. Written(i) /\ saving'[i] = saving[i] + 1 /\ UNCHANGED <<sid, live>>
    BY <1>1, <1>3, SaverKnows DEF DiskInv, DiskTyped, procVars, k
  <2>2. /\ n # "meta" => file'[s].meta = file[s].meta
        /\ n # "talk" => file'[s].talk = file[s].talk
    BY <1>2, <1>5 DEF DiskInv, DiskTyped, Marks
  <2> QED  BY <1>1, <1>4, <2>1, <2>2 DEF Written
<1> QED  BY <1>1, <1>3, <1>4, <1>6, <1>7, <1>8, <1>9, SaveGoesOn

\* What a save closes holds what the process holds, if it has met no other.
LEMMA WriteOutKeeps ==
    ASSUME DiskInv, NEW i \in Instances, WriteOut(i)
    PROVE  DiskInv'
<1> DEFINE s == sid[i]
           n == Names[saving[i] \div 2]
           k == saving[i] + 1
<1>1. saving[i] \in {2, 4} /\ dir[s] /\ saving[i] # Rest
  BY DEF WriteOut, Rest
<1>2. PICK st \in IF lone[i] THEN {"ok"} ELSE {"ok", "torn"} :
          file' = [file EXCEPT ![s][n] = [st |-> st, v |-> IF st = "ok" THEN live[i][n] ELSE 0]]
  BY DEF WriteOut
<1>3. /\ saving' = [saving EXCEPT ![i] = k]
      /\ UNCHANGED <<dir, born, procVars, countVars, lone, settled, hurt>>
  BY DEF WriteOut
<1>4. k \in 1..6 /\ (saving[i] = 2 => n = "meta") /\ (saving[i] = 4 => n = "talk")
  BY <1>1 DEF Names
<1>5. n \in Marks /\ s \in Sids
  BY <1>1, <1>4, SaverKnows DEF Marks
<1> HIDE DEF n, k
<1>6. file' \in [Sids -> [Marks -> States]]
  <2>1. live[i][n] \in 0..MaxWork
    BY <1>5 DEF DiskInv, DiskTyped, Contents, Marks
  <2>2. [st |-> st, v |-> IF st = "ok" THEN live[i][n] ELSE 0] \in States
    BY <1>2, <2>1, SessionsAssumption DEF States
  <2> QED  BY <1>2, <1>5, <2>2 DEF DiskInv, DiskTyped
<1>7. born' \in [Sids -> 0..MaxWork]
  BY <1>3 DEF DiskInv, DiskTyped
<1>8. \A t \in Sids : t # s => file'[t] = file[t]
  BY <1>2, <1>5 DEF DiskInv, DiskTyped
<1>9. lone[i] => Written(i)'
  <2> SUFFICES ASSUME lone[i]  PROVE Written(i)'
    OBVIOUS
  <2>1. Written(i) /\ saving'[i] = saving[i] + 1 /\ UNCHANGED <<sid, live>>
    BY <1>1, <1>3, SaverKnows DEF DiskInv, DiskTyped, procVars, k
  <2>2. /\ file'[s][n] = [st |-> "ok", v |-> live[i][n]]
        /\ \A m \in Marks : m # n => file'[s][m] = file[s][m]
    BY <1>2, <1>5 DEF DiskInv, DiskTyped
  <2> QED  BY <1>1, <1>4, <2>1, <2>2 DEF Written, Marks
<1> QED  BY <1>1, <1>3, <1>4, <1>6, <1>7, <1>8, <1>9, SaveGoesOn

\* The last file is closed: after a save that met no other, the session is what
\* the process holds.
LEMMA SaveEndsWrites ==
    ASSUME DiskInv, NEW i \in Instances, SaveEnds(i)
    PROVE  /\ saving[i] # Rest /\ dir[sid[i]] /\ Stops(i)
           /\ file' \in [Sids -> [Marks -> States]]
           /\ \A t \in Sids : t # sid[i] => file'[t] = file[t]
           /\ lone[i] => \A n \in Marks : file'[sid[i]][n] = [st |-> "ok", v |-> live[i][n]]
           /\ settled' = IF lone[i] THEN [settled EXCEPT ![sid[i]] = "settled"] ELSE settled
           /\ hurt' = IF lone[i] THEN hurt \ {sid[i]} ELSE hurt
           /\ UNCHANGED <<dir, born, countVars>>
<1> DEFINE s == sid[i]
<1>1. /\ saving[i] = 6 /\ saving[i] # Rest /\ dir[s]
      /\ settled' = IF lone[i] THEN [settled EXCEPT ![s] = "settled"] ELSE settled
      /\ hurt' = IF lone[i] THEN hurt \ {s} ELSE hurt
      /\ UNCHANGED <<dir, born, countVars>>
  BY DEF SaveEnds, Rest
<1>2. Stops(i)
  BY DEF SaveEnds, Stops, End
<1>3. PICK st \in IF lone[i] THEN {"ok"} ELSE {"ok", "torn"} :
          file' = [file EXCEPT ![s].panes =
                      [st |-> st, v |-> IF st = "ok" THEN live[i].panes ELSE 0]]
  BY DEF SaveEnds
<1>4. s \in Sids /\ (lone[i] => Written(i))
  BY <1>1, SaverKnows
<1>5. file' \in [Sids -> [Marks -> States]]
  <2>1. live[i].panes \in 0..MaxWork
    BY DEF DiskInv, DiskTyped, Contents
  <2>2. [st |-> st, v |-> IF st = "ok" THEN live[i].panes ELSE 0] \in States
    BY <1>3, <2>1, SessionsAssumption DEF States
  <2> QED  BY <1>3, <1>4, <2>2 DEF DiskInv, DiskTyped
<1>6. \A t \in Sids : t # s => file'[t] = file[t]
  BY <1>3, <1>4 DEF DiskInv, DiskTyped
<1>7. ASSUME lone[i], NEW n \in Marks
      PROVE  file'[s][n] = [st |-> "ok", v |-> live[i][n]]
  <2>1. /\ file[s].meta = [st |-> "ok", v |-> live[i].meta]
        /\ file[s].talk = [st |-> "ok", v |-> live[i].talk]
    BY <1>1, <1>4, <1>7 DEF Written
  <2>2. /\ file'[s].panes = [st |-> "ok", v |-> live[i].panes]
        /\ file'[s].meta = file[s].meta /\ file'[s].talk = file[s].talk
    BY <1>3, <1>4, <1>7 DEF DiskInv, DiskTyped, Marks
  <2> QED  BY <2>1, <2>2 DEF Marks
<1> QED  BY <1>1, <1>2, <1>5, <1>6, <1>7

\* A save that ends promises its session if it has met no other.
LEMMA SaveEndsKeeps ==
    ASSUME DiskInv, NEW i \in Instances, SaveEnds(i)
    PROVE  DiskInv'
<1> DEFINE s == sid[i]
<1>1. /\ saving[i] # Rest /\ dir[s] /\ Stops(i)
      /\ file' \in [Sids -> [Marks -> States]]
      /\ \A t \in Sids : t # s => file'[t] = file[t]
      /\ lone[i] => \A n \in Marks : file'[s][n] = [st |-> "ok", v |-> live[i][n]]
      /\ settled' = IF lone[i] THEN [settled EXCEPT ![s] = "settled"] ELSE settled
      /\ hurt' = IF lone[i] THEN hurt \ {s} ELSE hurt
      /\ UNCHANGED <<dir, born, countVars>>
  BY SaveEndsWrites
<1>2. /\ up[i] /\ s \in Sids /\ s \in used /\ settled[s] = "unsettled"
      /\ ~lone[i] => s \in hurt
      /\ \A j \in Instances : j # i /\ sid[j] = s => ~lone[j]
  BY <1>1, SaverKnows
<1>3. /\ settled' \in [Sids -> {"nothing", "unsettled", "settled"}]
      /\ settled'[s] \in {"unsettled", "settled"}
      /\ \A t \in Sids : t # s => settled'[t] = settled[t]
      /\ hurt' \subseteq Sids /\ hurt \ {s} \subseteq hurt'
      /\ ~lone[i] => settled' = settled /\ hurt' = hurt
  BY <1>1, <1>2 DEF DiskInv, DiskTyped
<1>4. DiskTyped'
  BY <1>1, <1>3, StopsTyped DEF DiskInv, DiskTyped, countVars
<1>5. Known'
  BY <1>1, <1>2, <1>3, StopsTyped DEF DiskInv, DiskTyped, Known, countVars
<1>6. Alone'
  BY <1>1, StopsTyped DEF DiskInv, DiskTyped, Alone
<1>7. Underway'
  <2> SUFFICES ASSUME NEW j \in Instances, saving'[j] # Rest, dir'[sid'[j]]
               PROVE  /\ settled'[sid'[j]] = "unsettled"
                      /\ lone'[j] => Written(j)'
                      /\ ~lone'[j] => sid'[j] \in hurt'
    BY DEF Underway
  <2>1. /\ j # i /\ saving[j] # Rest /\ dir[sid[j]] /\ sid'[j] = sid[j]
        /\ saving'[j] = saving[j] /\ lone'[j] = lone[j] /\ live'[j] = live[j]
    BY <1>1, StopsTyped
  <2>2. /\ sid[j] \in Sids /\ settled[sid[j]] = "unsettled"
        /\ lone[j] => Written(j)
        /\ ~lone[j] => sid[j] \in hurt
    BY <2>1, SaverKnows
  <2>3. CASE sid[j] = s
    <3>1. ~lone[i] /\ ~lone[j]
      BY <1>2, <2>1, <2>3 DEF DiskInv, Alone
    <3> QED  BY <1>3, <2>1, <2>2, <3>1
  <2>4. CASE sid[j] # s
    BY <1>1, <1>3, <2>1, <2>2, <2>4 DEF Written
  <2> QED  BY <2>3, <2>4
<1>8. DamageHasACause'
  <2> SUFFICES ASSUME NEW t \in Sids, Damaged(t)', t \notin hurt'
               PROVE  Savers(t)' # {}
    BY DEF DamageHasACause
  <2>1. t # s
    <3>1. CASE lone[i]
      BY <1>1, <3>1 DEF Damaged, NotFound, Readable, Marks
    <3>2. CASE ~lone[i]
      BY <1>2, <1>3, <3>2
    <3> QED  BY <3>1, <3>2
  <2>2. Damaged(t) /\ t \notin hurt
    BY <1>1, <1>3, <2>1 DEF Damaged, NotFound, Readable
  <2>3. PICK j \in Instances : up[j] /\ saving[j] # Rest /\ sid[j] = t
    BY <2>2 DEF DiskInv, DamageHasACause, Savers
  <2> QED  BY <1>1, <2>1, <2>3, StopsTyped DEF Savers
<1> QED  BY <1>4, <1>5, <1>6, <1>7, <1>8 DEF DiskInv

\* A deletion leaves nothing of a session, and its saves nothing to write to.
LEMMA EraseKeeps ==
    ASSUME DiskInv, NEW s \in Sids, Erase(s),
           UNCHANGED <<procVars, saving, countVars, lone>>
    PROVE  DiskInv'
<1>1. CASE s \notin Listed
  <2>1. UNCHANGED <<diskVars, settled, hurt>>
    BY <1>1 DEF Erase
  <2> QED  BY <2>1, SameDisk
<1>2. CASE s \in Listed
  <2>1. /\ dir' = [dir EXCEPT ![s] = FALSE]
        /\ file' = [file EXCEPT ![s] = NoFiles]
        /\ born' = [born EXCEPT ![s] = 0]
        /\ settled' = [settled EXCEPT ![s] = "nothing"]
        /\ hurt' = hurt \ {s}
    BY <1>2 DEF Erase
  <2>2. DiskTyped'
    BY <2>1, NoFilesTyped, SessionsAssumption DEF DiskInv, DiskTyped, procVars, countVars
  <2>3. Known'
    BY <2>1 DEF DiskInv, DiskTyped, Known, procVars, countVars
  <2>4. Alone'
    BY DEF DiskInv, Alone, procVars
  <2>5. Underway'
    <3> SUFFICES ASSUME NEW j \in Instances, saving[j] # Rest, dir'[sid[j]]
                 PROVE  /\ settled'[sid[j]] = "unsettled"
                        /\ lone[j] => Written(j)'
                        /\ ~lone[j] => sid[j] \in hurt'
      BY DEF Underway, procVars
    <3>1. sid[j] \in Sids /\ sid[j] # s /\ dir[sid[j]]
      BY <2>1 DEF DiskInv, DiskTyped, Known, NoSid
    <3> QED  BY <2>1, <3>1, SaverKnows DEF Written, procVars, DiskInv, DiskTyped
  <2>6. DamageHasACause'
    <3> SUFFICES ASSUME NEW t \in Sids, Damaged(t)', t \notin hurt'
                 PROVE  Savers(t)' # {}
      BY DEF DamageHasACause
    <3>1. t # s
      BY <2>1 DEF Damaged, NotFound, DiskInv, DiskTyped
    <3>2. Damaged(t) /\ t \notin hurt
      BY <2>1, <3>1 DEF Damaged, NotFound, Readable
    <3> QED  BY <3>2 DEF DiskInv, DamageHasACause, Savers, procVars
  <2> QED  BY <2>2, <2>3, <2>4, <2>5, <2>6 DEF DiskInv
<1> QED  BY <1>1, <1>2

\* A deletion that dies leaves some of the files, and is noted by every save of
\* the session.
LEMMA RemoveCutKeeps ==
    ASSUME DiskInv, NEW i \in Instances, NEW s \in Sids, RemoveCut(i, s)
    PROVE  DiskInv'
<1>1. PICK gone \in SUBSET Marks :
        file' = [file EXCEPT ![s] = [n \in DOMAIN @ |-> IF n \in gone THEN NoFile ELSE @[n]]]
  BY DEF RemoveCut, Marks
<1>2. /\ saving[i] = Rest /\ up[i] /\ dir[s]
      /\ settled' = [settled EXCEPT ![s] = "unsettled"]
      /\ hurt' = hurt \cup {s}
      /\ up' = [up EXCEPT ![i] = FALSE]
      /\ sid' = [sid EXCEPT ![i] = NoSid]
      /\ live' = [live EXCEPT ![i] = Blank]
      /\ replay' = [replay EXCEPT ![i] = {}]
      /\ lone' = [j \in Instances |-> lone[j] /\ j \notin Savers(s)]
      /\ UNCHANGED <<dir, born, saving, countVars>>
  BY DEF RemoveCut, Idle, Listed
<1>3. file' \in [Sids -> [Marks -> States]] /\ \A t \in Sids : t # s => file'[t] = file[t]
  <2>1. NoFile \in States
    BY SessionsAssumption DEF NoFile, States
  <2> QED  BY <1>1, <2>1 DEF DiskInv, DiskTyped
<1>4. Savers(s) = {j \in Instances : saving[j] # Rest /\ sid[j] = s} /\ s \in used
  BY <1>2, SaversAre DEF DiskInv, Known
<1>5. /\ lone' \in [Instances -> BOOLEAN]
      /\ \A j \in Instances : lone'[j] <=> lone[j] /\ j \notin Savers(s)
  BY <1>2, Zenon DEF DiskInv, DiskTyped
<1>6. DiskTyped'
  BY <1>2, <1>3, <1>5, BlankIsContent DEF DiskInv, DiskTyped, countVars
<1>7. Known'
  BY <1>2, <1>3, <1>4 DEF DiskInv, DiskTyped, Known, countVars
<1>8. \A j \in Instances : saving[j] # Rest => j # i /\ sid'[j] = sid[j] /\ live'[j] = live[j]
  BY <1>2 DEF DiskInv, DiskTyped
<1>9. Alone'
  BY <1>2, <1>5, <1>8 DEF DiskInv, Alone
<1>10. Underway'
  <2> SUFFICES ASSUME NEW j \in Instances, saving[j] # Rest, dir[sid[j]]
               PROVE  /\ settled'[sid[j]] = "unsettled"
                      /\ lone'[j] => Written(j)'
                      /\ ~lone'[j] => sid[j] \in hurt'
    BY <1>2, <1>8 DEF Underway
  <2>1. /\ sid[j] \in Sids /\ settled[sid[j]] = "unsettled"
        /\ lone[j] => Written(j)
        /\ ~lone[j] => sid[j] \in hurt
    BY SaverKnows
  <2>2. CASE sid[j] = s
    BY <1>2, <1>4, <1>5, <2>1, <2>2 DEF DiskInv, DiskTyped
  <2>3. CASE sid[j] # s
    BY <1>2, <1>3, <1>4, <1>5, <1>8, <2>1, <2>3 DEF DiskInv, DiskTyped, Written
  <2> QED  BY <2>2, <2>3
<1>11. DamageHasACause'
  <2> SUFFICES ASSUME NEW t \in Sids, Damaged(t)', t \notin hurt'
               PROVE  Savers(t)' # {}
    BY DEF DamageHasACause
  <2>1. Damaged(t) /\ t \notin hurt /\ t # s
    BY <1>2, <1>3 DEF Damaged, NotFound, Readable
  <2>2. PICK j \in Instances : up[j] /\ saving[j] # Rest /\ sid[j] = t
    BY <2>1 DEF DiskInv, DamageHasACause, Savers
  <2> QED  BY <1>2, <1>8, <2>2 DEF Savers, DiskInv, DiskTyped
<1> QED  BY <1>6, <1>7, <1>9, <1>10, <1>11 DEF DiskInv
-----------------------------------------------------------------------------
(* The invariant *)

\* Every way a save fails is a stop with nothing left to write to, with nothing
\* under way, or noted.
LEMMA SaveFailsKeeps ==
    ASSUME DiskInv, NEW i \in Instances, SaveFails(i),
           hurt \subseteq hurt', hurt' \subseteq Sids,
           saving[i] = Rest \/ sid[i] \in hurt' \/ ~dir[sid[i]]
    PROVE  DiskInv' /\ Stops(i)
<1>1. Stops(i)
  BY DEF SaveFails, Stops, End
<1>2. UNCHANGED <<diskVars, countVars, settled>>
  BY DEF SaveFails
<1> QED  BY <1>1, <1>2, StopKeeps

\* A crash is a stop that notes the session that was being saved.
LEMMA CrashKeeps ==
    ASSUME DiskInv, NEW i \in Instances, Crash(i)
    PROVE  DiskInv'
<1>1. Stops(i) /\ UNCHANGED <<diskVars, countVars, settled>>
  BY DEF Crash, End, Stops
<1>2. sid[i] \in Sids
  BY DEF Crash, DiskInv, DiskTyped, Known
<1>3. /\ hurt \subseteq hurt' /\ hurt' \subseteq Sids
      /\ saving[i] = Rest \/ sid[i] \in hurt'
  BY <1>2 DEF Crash, DiskInv, DiskTyped
<1> QED  BY <1>1, <1>3, StopKeeps

\* A restore enters a session, and an interface is given its panes.
LEMMA RestoreEnters ==
    ASSUME DiskInv, NEW i \in Instances, NEW s \in Sids, Restore(i, s)
    PROVE  \E o \in SUBSET (0..MaxWork) :
               /\ o \subseteq {Stored(s).panes} /\ (i \in Tui \/ o = {})
               /\ Readable(s) /\ Enter(i, s, Restored(s), o)
               /\ UNCHANGED <<diskVars, countVars, lone, settled, hurt>>
<1> DEFINE o == IF i \in Tui THEN {Stored(s).panes} \ {0} ELSE {}
<1>1. o \in SUBSET (0..MaxWork) /\ o \subseteq {Stored(s).panes} /\ (i \in Tui \/ o = {})
  BY RestoredIsContent
<1>2. /\ Readable(s) /\ Enter(i, s, Restored(s), o)
      /\ UNCHANGED <<diskVars, countVars, lone, settled, hurt>>
  BY DEF Restore
<1> HIDE DEF o
<1> QED  BY <1>1, <1>2

\* A session that cannot be loaded ends the interface, any other is entered or
\* ends it too.
LEMMA HandleResumedKeeps ==
    ASSUME IInv, NEW i \in Instances, HandleResumed(i)
    PROVE  DiskInv' /\ ScreenInv'
<1> DEFINE s == Head(post[i]).s
<1>1. s \in Sids /\ post[i] # <<>> /\ saving[i] = Rest
  BY MessageTaken DEF IInv, HandleResumed, Letters, Idle
<1>2. CASE Restore(i, s) /\ Taken(i) /\ UNCHANGED <<view, saving>>
  <2>1. PICK o \in SUBSET (0..MaxWork) :
            /\ Readable(s) /\ Enter(i, s, Restored(s), o) /\ (i \in Tui \/ o = {})
            /\ UNCHANGED <<diskVars, countVars, lone, settled, hurt>>
    BY <1>1, <1>2, RestoreEnters DEF IInv
  <2>2. DiskInv'
    <3>1. starts' \in 0..MaxStarts /\ UNCHANGED <<tick, saves, used>>
      BY <2>1 DEF IInv, DiskInv, DiskTyped, countVars
    <3> QED  BY <1>1, <1>2, <2>1, <3>1, EnterKeeps DEF IInv
  <2>3. \A j \in Instances : up[j] => up'[j]
    BY <2>1 DEF Enter, IInv, DiskInv, DiskTyped
  <2> QED  BY <1>1, <1>2, <2>2, <2>3, TakenScreen DEF IInv
<1>3. CASE /\ Taken(i)
           /\ UNCHANGED <<diskVars, procVars, saving, view, countVars, lone, settled, hurt>>
  <2>1. up' = up /\ view' = view
    BY <1>3 DEF procVars
  <2>2. DiskInv'
    BY <1>3, SameDisk DEF IInv
  <2> QED  BY <1>1, <1>3, <2>1, <2>2, TakenScreen DEF IInv
<1>4. CASE End(i) /\ UNCHANGED <<diskVars, countVars, settled, hurt>>
  <2>1. Stops(i)
    BY <1>4 DEF End, Stops
  <2>2. DiskInv'
    BY <1>1, <1>4, <2>1, StopKeeps DEF IInv, DiskInv, DiskTyped
  <2> QED  BY <1>4, <2>2, EndScreen DEF End
<1> QED  BY <1>2, <1>3, <1>4 DEF HandleResumed

\* Of a save, a deletion and a death, each with what becomes of the dialog.
LEMMA ProcessKeeps ==
    ASSUME IInv, NEW i \in Instances,
           Start(i) \/ Work(i) \/ Crash(i) \/ Save(i) \/ Truncate(i) \/ WriteOut(i)
               \/ SaveEnds(i) \/ SaveAborts(i) \/ Replay(i) \/ WriteFails(i)
    PROVE  IInv'
<1>0. DiskInv /\ ScreenInv /\ up \in [Instances -> BOOLEAN]
  BY DEF IInv, DiskInv, DiskTyped
<1>1. CASE Start(i)
  <2>1. UNCHANGED screenVars /\ \A j \in Instances : up[j] => up'[j]
    BY <1>0, <1>1 DEF Start, Enter
  <2> QED  BY <1>0, <1>1, <2>1, StartKeeps, SameScreen DEF IInv
<1>2. CASE Work(i)
  <2>1. UNCHANGED screenVars /\ up' = up
    BY <1>2 DEF Work
  <2> QED  BY <1>0, <1>2, <2>1, WorkKeeps, SameScreen DEF IInv
<1>3. CASE Crash(i)
  BY <1>0, <1>3, CrashKeeps, EndScreen DEF IInv, Crash, End
<1>4. CASE Save(i)
  <2>1. Idle(i)
    BY <1>4 DEF Save, Free
  <2>2. CASE SaveStarts(i) /\ UNCHANGED <<live, screenVars>>
    <3>1. up' = up /\ live' \in [Instances -> Contents] /\ live' = live
      BY <1>0, <2>2 DEF SaveStarts, DiskInv, DiskTyped
    <3> QED  BY <1>0, <2>1, <2>2, <3>1, SaveStartsKeeps, SameScreen DEF IInv
  <2>3. CASE ~dir[sid[i]] /\ SaveFails(i) /\ UNCHANGED hurt
    <3>1. DiskInv'
      BY <1>0, <2>3, SaveFailsKeeps DEF DiskInv, DiskTyped
    <3>2. CASE End(i)
      BY <3>1, <3>2, EndScreen DEF IInv, End
    <3>3. CASE UNCHANGED <<procVars, screenVars>>
      BY <1>0, <3>1, <3>3, SameScreen DEF IInv, procVars
    <3> QED  BY <2>3, <3>2, <3>3 DEF SaveFails
  <2> QED  BY <1>4, <2>2, <2>3 DEF Save
<1>5. CASE Truncate(i)
  <2>1. UNCHANGED screenVars /\ up' = up
    BY <1>5 DEF Truncate, procVars
  <2> QED  BY <1>0, <1>5, <2>1, TruncateKeeps, SameScreen DEF IInv
<1>6. CASE WriteOut(i)
  <2>1. UNCHANGED screenVars /\ up' = up
    BY <1>6 DEF WriteOut, procVars
  <2> QED  BY <1>0, <1>6, <2>1, WriteOutKeeps, SameScreen DEF IInv
<1>7. CASE SaveEnds(i)
  <2>1. DiskInv'
    BY <1>0, <1>7, SaveEndsKeeps
  <2>2. CASE End(i)
    BY <2>1, <2>2, EndScreen DEF IInv, End
  <2>3. CASE UNCHANGED <<procVars, screenVars>>
    BY <1>0, <2>1, <2>3, SameScreen DEF IInv, procVars
  <2> QED  BY <1>7, <2>2, <2>3 DEF SaveEnds
<1>8. CASE SaveAborts(i) \/ WriteFails(i)
  <2>1. /\ SaveFails(i) /\ hurt \subseteq hurt' /\ hurt' \subseteq Sids
        /\ ~dir[sid[i]] \/ sid[i] \in hurt'
    <3>1. CASE SaveAborts(i)
      BY <1>0, <3>1 DEF SaveAborts, DiskInv, DiskTyped
    <3>2. CASE WriteFails(i)
      <4>1. sid[i] \in Sids
        BY <1>0, <3>2, SaverKnows DEF WriteFails
      <4> QED  BY <1>0, <3>2, <4>1 DEF WriteFails, DiskInv, DiskTyped
    <3> QED  BY <1>8, <3>1, <3>2
  <2>2. DiskInv'
    BY <1>0, <2>1, SaveFailsKeeps
  <2>3. CASE End(i)
    BY <2>2, <2>3, EndScreen DEF IInv, End
  <2>4. CASE UNCHANGED <<procVars, screenVars>>
    BY <1>0, <2>2, <2>4, SameScreen DEF IInv, procVars
  <2> QED  BY <2>1, <2>3, <2>4 DEF SaveFails
<1>9. CASE Replay(i)
  <2>1. UNCHANGED screenVars /\ up' = up
    BY <1>0, <1>9, ReplayChanges
  <2> QED  BY <1>0, <1>9, <2>1, ReplayKeeps, SameScreen DEF IInv
<1> QED  BY <1>1, <1>2, <1>3, <1>4, <1>5, <1>6, <1>7, <1>8, <1>9

\* The keys of the dialog and the handlers of its messages.
LEMMA DialogKeeps ==
    ASSUME IInv, NEW i \in Instances,
           OpenList(i) \/ MoveCursor(i) \/ CloseList(i) \/ DeleteKey(i) \/ ResumeKey(i)
               \/ HandleDeleted(i) \/ HandleResumed(i)
    PROVE  IInv'
<1>0. DiskInv /\ ScreenInv
  BY DEF IInv
<1>1. CASE OpenList(i)
  <2>1. DiskInv'
    BY <1>0, <1>1, SameDisk DEF OpenList
  <2> QED  BY <1>1, <2>1, ListOpens DEF IInv
<1>2. CASE MoveCursor(i)
  <2>1. DiskInv'
    BY <1>0, <1>2, SameDisk DEF MoveCursor
  <2> QED  BY <1>2, <2>1, CursorMoves DEF IInv
<1>3. CASE CloseList(i)
  <2>1. DiskInv'
    BY <1>0, <1>3, SameDisk DEF CloseList
  <2>2. Closed \in Views /\ ~Closed.open
    BY EmptySeq DEF Closed, Views
  <2>3. up[i] /\ up' = up /\ view' = [view EXCEPT ![i] = Closed] /\ post' = post
    BY <1>3 DEF CloseList, Idle, procVars
  <2>4. post' \in [Instances -> Seq(Letters)]
    BY <1>0, <2>3 DEF ScreenInv
  <2> QED  BY <1>0, <2>1, <2>2, <2>3, <2>4, ViewChanges DEF IInv
<1>4. CASE DeleteKey(i)
  <2>1. Erase(Selected(i)) /\ UNCHANGED <<procVars, saving, countVars, lone>>
        /\ view[i].open /\ view[i].list # <<>>
    BY <1>4 DEF DeleteKey
  <2>2. DiskInv'
    BY <1>0, <2>1, SelectedIsSession, EraseKeeps
  <2> QED  BY <1>4, <2>2, RowDeleted DEF IInv
<1>5. CASE ResumeKey(i)
  <2>1. DiskInv'
    BY <1>0, <1>5, SameDisk DEF ResumeKey
  <2> QED  BY <1>5, <2>1, RowResumed DEF IInv
<1>6. CASE HandleDeleted(i)
  <2>1. /\ post[i] # <<>> /\ Erase(Head(post[i]).s) /\ Taken(i)
        /\ UNCHANGED <<procVars, saving, view, countVars, lone>>
    BY <1>6 DEF HandleDeleted
  <2>2. Head(post[i]).s \in Sids
    BY <1>0, <2>1, MessageTaken DEF Letters
  <2>3. DiskInv'
    BY <1>0, <2>1, <2>2, EraseKeeps
  <2>4. up' = up /\ view' = view
    BY <2>1 DEF procVars
  <2> QED  BY <1>0, <2>1, <2>3, <2>4, TakenScreen DEF IInv
<1>7. CASE HandleResumed(i)
  BY <1>7, HandleResumedKeeps DEF IInv
<1> QED  BY <1>1, <1>2, <1>3, <1>4, <1>5, <1>6, <1>7

\* The command line and the prompt.
LEMMA CommandKeeps ==
    ASSUME IInv, NEW i \in Instances, NEW s \in Sids,
           StartResumed(i, s) \/ RemoveCut(i, s) \/ PromptDelete(i, s) \/ PromptResume(i, s)
    PROVE  IInv'
<1>0. DiskInv /\ ScreenInv /\ up \in [Instances -> BOOLEAN]
  BY DEF IInv, DiskInv, DiskTyped
<1>1. CASE StartResumed(i, s)
  <2>1. /\ Readable(s) /\ Enter(i, s, Restored(s), {}) /\ ~up[i]
        /\ starts < MaxStarts /\ starts' = starts + 1
        /\ UNCHANGED <<diskVars, saving, screenVars, tick, saves, used, lone, settled, hurt>>
    BY <1>1 DEF StartResumed
  <2>2. saving[i] = Rest /\ starts' \in 0..MaxStarts
    BY <1>0, <2>1, SessionsAssumption DEF DiskInv, DiskTyped, Known
  <2>3. DiskInv'
    <3>1. {} \in SUBSET (0..MaxWork)
      OBVIOUS
    <3> QED  BY <1>0, <2>1, <2>2, <3>1, EnterKeeps
  <2>4. \A j \in Instances : up[j] => up'[j]
    BY <1>0, <2>1 DEF Enter
  <2> QED  BY <1>0, <2>1, <2>3, <2>4, SameScreen DEF IInv
<1>2. CASE RemoveCut(i, s)
  BY <1>0, <1>2, RemoveCutKeeps, EndScreen DEF IInv, RemoveCut
<1>3. CASE PromptDelete(i, s)
  <2>1. Erase(s) /\ UNCHANGED <<procVars, saving, screenVars, countVars, lone>>
    BY <1>3 DEF PromptDelete
  <2>2. up' = up
    BY <2>1 DEF procVars
  <2> QED  BY <1>0, <2>1, <2>2, EraseKeeps, SameScreen DEF IInv
<1>4. CASE PromptResume(i, s)
  <2>1. Idle(i) /\ UNCHANGED screenVars
    BY <1>4 DEF PromptResume
  <2>2. CASE Restore(i, s) /\ UNCHANGED saving
    <3>1. PICK o \in SUBSET (0..MaxWork) :
              /\ Readable(s) /\ Enter(i, s, Restored(s), o) /\ (i \in Tui \/ o = {})
              /\ UNCHANGED <<diskVars, countVars, lone, settled, hurt>>
      BY <1>0, <2>2, RestoreEnters
    <3>0. saving[i] = Rest /\ UNCHANGED saving
      BY <2>1, <2>2 DEF Idle
    <3>2. starts' \in 0..MaxStarts /\ UNCHANGED <<tick, saves, used>>
      BY <1>0, <3>1 DEF DiskInv, DiskTyped, countVars
    <3>3. DiskInv'
      BY <1>0, <3>0, <3>1, <3>2, EnterKeeps
    <3>4. \A j \in Instances : up[j] => up'[j]
      BY <1>0, <3>1 DEF Enter
    <3> QED  BY <1>0, <2>1, <3>3, <3>4, SameScreen DEF IInv
  <2>3. CASE SaveStarts(i) /\ (UNCHANGED live \/ live' = [live EXCEPT ![i] = Restored(s)])
    <3>1. up' = up
      BY <2>3 DEF SaveStarts
    <3>2. live' \in [Instances -> Contents] /\ \A j \in Instances \ {i} : live'[j] = live[j]
      BY <1>0, <2>3, RestoredIsContent DEF DiskInv, DiskTyped
    <3> QED  BY <1>0, <2>1, <2>3, <3>1, <3>2, SaveStartsKeeps, SameScreen DEF IInv
  <2>4. CASE End(i) /\ UNCHANGED <<diskVars, countVars, settled, hurt>>
    <3>1. Stops(i) /\ saving[i] = Rest
      BY <2>1, <2>4 DEF End, Stops, Idle
    <3>2. DiskInv'
      BY <1>0, <2>4, <3>1, StopKeeps DEF DiskInv, DiskTyped
    <3> QED  BY <2>4, <3>2, EndScreen DEF End, IInv
  <2> QED  BY <1>4, <2>2, <2>3, <2>4 DEF PromptResume
<1> QED  BY <1>1, <1>2, <1>3, <1>4

\* There is no session and no process at the start.
LEMMA InvInit == Init => IInv
<1> SUFFICES ASSUME Init  PROVE IInv
  OBVIOUS
<1>1. DiskTyped
  BY BlankIsContent, NoFilesTyped, SessionsAssumption, FS_EmptySet
     DEF Init, DiskTyped, Rest, NoSid
<1>2. Known /\ Alone /\ Underway
  BY DEF Init, Known, Alone, Underway
<1>3. DamageHasACause
  BY DEF Init, DamageHasACause, Damaged, NotFound
<1>4. ScreenInv
  <2>1. Closed \in Views /\ ~Closed.open /\ <<>> \in Seq(Letters)
    BY EmptySeq DEF Closed, Views
  <2> QED  BY <2>1 DEF Init, ScreenInv, SelectionIsARow
<1> QED  BY <1>1, <1>2, <1>3, <1>4 DEF IInv, DiskInv

\* Every step keeps the invariant.
LEMMA InvStep == IInv /\ [Next]_vars => IInv'
<1> SUFFICES ASSUME IInv, [Next]_vars  PROVE IInv'
  OBVIOUS
<1>1. CASE Next
  BY <1>1, ProcessKeeps, DialogKeeps, CommandKeeps DEF Next
<1>2. CASE UNCHANGED vars
  <2>1. /\ UNCHANGED <<diskVars, procVars, saving, countVars, lone, settled, hurt>>
        /\ UNCHANGED screenVars /\ up' = up
    BY <1>2 DEF vars, procVars
  <2> QED  BY <2>1, SameDisk, SameScreen DEF IInv
<1> QED  BY <1>1, <1>2

\* The invariant holds at every instant.
LEMMA InvHolds == Spec => []IInv
BY InvInit, InvStep, PTL DEF Spec

\* The invariant has the types of TypeOK, and that a file is only in a
\* directory, a process that is down saves nothing and shows nothing.
LEMMA InvIsSessions == IInv => SessionsInv
<1> SUFFICES ASSUME IInv  PROVE TypeOK
  BY DEF IInv, DiskInv, ScreenInv, SessionsInv
<1>1. ASSUME NEW s \in Sids
      PROVE  /\ DOMAIN file[s] = {"meta", "talk", "panes"}
             /\ \A n \in DOMAIN file[s] :
                 /\ file[s][n].st \in {"none", "torn", "short", "ok"}
                 /\ file[s][n].v \in 0..MaxWork
             /\ ~dir[s] => file[s] = NoFiles
  <2>1. file[s] \in [Marks -> States]
    BY DEF IInv, DiskInv, DiskTyped
  <2> QED  BY <2>1 DEF Marks, States, IInv, DiskInv, Known
<1>2. ASSUME NEW i \in Instances
      PROVE  /\ saving[i] \in 0..6
             /\ up[i] <=> sid[i] # NoSid
             /\ replay[i] \subseteq 0..MaxWork
             /\ ~up[i] => saving[i] = Rest /\ view[i] = Closed /\ post[i] = <<>>
             /\ ~up[i] \/ i \notin Tui => replay[i] = {}
  BY DEF IInv, DiskInv, DiskTyped, Known, ScreenInv
<1> QED  BY <1>1, <1>2 DEF TypeOK, IInv, DiskInv, DiskTyped

\* In whatever order processes save, list, delete, restore and die, a session
\* whose files do not parse was being saved or deleted when a process died or a
\* write raised, or is saved by two, and the row that a key of the dialog acts
\* on exists.
THEOREM SessionsHold == Spec => []SessionsInv
BY InvHolds, InvIsSessions, PTL
-----------------------------------------------------------------------------
(* The refinement *)

\* What is promised changes for one session at most.
LEMMA PromiseChanges ==
    ASSUME NEW s \in Sids,
           \A t \in Sids : t # s => /\ settled'[t] = settled[t]
                                    /\ settled[t] = "settled" => file'[t] = file[t]
    PROVE  AbstractSaved' = [AbstractSaved EXCEPT ![s] = AbstractSaved'[s]]
<1>1. \A t \in Sids : t # s => AbstractSaved'[t] = AbstractSaved[t]
  <2> SUFFICES ASSUME NEW t \in Sids, t # s  PROVE AbstractSaved'[t] = AbstractSaved[t]
    OBVIOUS
  <2>1. CASE settled[t] = "settled"
    <3>1. Stored(t)' = Stored(t)
      BY <2>1 DEF Stored
    <3> QED  BY <3>1 DEF AbstractSaved
  <2>2. CASE settled[t] # "settled"
    BY <2>2 DEF AbstractSaved
  <2> QED  BY <2>1, <2>2
<1>2. AbstractSaved' = [t \in Sids |-> AbstractSaved'[t]]
      /\ AbstractSaved = [t \in Sids |-> AbstractSaved[t]]
  BY DEF AbstractSaved
<1> QED  BY <1>1, <1>2

\* What is promised stays when the files that are relied on do.
LEMMA PromiseStays ==
    ASSUME \A t \in Sids : /\ settled'[t] = settled[t]
                           /\ settled[t] = "settled" => file'[t] = file[t]
    PROVE  AbstractSaved' = AbstractSaved
<1>1. \A t \in Sids : AbstractSaved'[t] = AbstractSaved[t]
  <2> SUFFICES ASSUME NEW t \in Sids  PROVE AbstractSaved'[t] = AbstractSaved[t]
    OBVIOUS
  <2>1. CASE settled[t] = "settled"
    <3>1. Stored(t)' = Stored(t)
      BY <2>1 DEF Stored
    <3> QED  BY <3>1 DEF AbstractSaved
  <2>2. CASE settled[t] # "settled"
    BY <2>2 DEF AbstractSaved
  <2> QED  BY <2>1, <2>2
<1>2. AbstractSaved' = [t \in Sids |-> AbstractSaved'[t]]
      /\ AbstractSaved = [t \in Sids |-> AbstractSaved[t]]
  BY DEF AbstractSaved
<1> QED  BY <1>1, <1>2

\* What a process holds when it stops or goes on.
LEMMA HeldChanges ==
    ASSUME DiskInv, NEW i \in Instances
    PROVE  /\ UNCHANGED <<sid, live, replay>> => AbstractHeld' = AbstractHeld
           /\ Stops(i) => \/ AbstractHeld' = AbstractHeld
                          \/ AbstractHeld' = [AbstractHeld EXCEPT ![i] = Promise!Nobody]
           /\ AbstractHeld[i] = [s |-> sid[i], c |-> live[i], offer |-> replay[i]]
           /\ AbstractHeld[i] = Promise!Nobody <=> ~up[i]
<1>1. UNCHANGED <<sid, live, replay>> => AbstractHeld' = AbstractHeld
  BY DEF AbstractHeld
<1>2. ASSUME NEW s, NEW c, NEW o, sid' = [sid EXCEPT ![i] = s],
             live' = [live EXCEPT ![i] = c], replay' = [replay EXCEPT ![i] = o]
      PROVE  AbstractHeld' = [AbstractHeld EXCEPT ![i] = [s |-> s, c |-> c, offer |-> o]]
  BY <1>2 DEF AbstractHeld, DiskInv, DiskTyped
<1>3. Stops(i) => \/ AbstractHeld' = AbstractHeld
                  \/ AbstractHeld' = [AbstractHeld EXCEPT ![i] = Promise!Nobody]
  <2>1. CASE UNCHANGED procVars
    BY <1>1, <2>1 DEF procVars
  <2>2. CASE /\ sid' = [sid EXCEPT ![i] = NoSid]
             /\ live' = [live EXCEPT ![i] = Blank]
             /\ replay' = [replay EXCEPT ![i] = {}]
    <3>1. AbstractHeld' = [AbstractHeld EXCEPT ![i] =
                              [s |-> NoSid, c |-> Blank, offer |-> {}]]
      BY <1>2, <2>2
    <3> QED  BY <3>1 DEF Promise!Nobody
  <2> QED  BY <2>1, <2>2 DEF Stops
<1>4. AbstractHeld[i] = [s |-> sid[i], c |-> live[i], offer |-> replay[i]]
  BY DEF AbstractHeld
<1>5. AbstractHeld[i] = Promise!Nobody <=> ~up[i]
  BY <1>4 DEF Promise!Nobody, DiskInv, Known
<1> QED  BY <1>1, <1>3, <1>4, <1>5

\* What a process holds when it enters a session.
LEMMA HeldEnters ==
    ASSUME DiskInv, NEW i \in Instances, NEW s, NEW c, NEW o, Enter(i, s, c, o)
    PROVE  AbstractHeld' = [AbstractHeld EXCEPT ![i] =
                               [s |-> s, c |-> c, offer |-> replay[i] \cup o]]
BY DEF Enter, AbstractHeld, DiskInv, DiskTyped

\* What a process holds when its content changes.
LEMMA HeldContent ==
    ASSUME DiskInv, NEW i \in Instances, NEW c, live' = [live EXCEPT ![i] = c], sid' = sid
    PROVE  UNCHANGED replay => AbstractHeld' = [AbstractHeld EXCEPT ![i].c = c]
BY DEF AbstractHeld, DiskInv, DiskTyped

\* Begin: the fresh session of a start has nothing stored.
LEMMA StartRefines ==
    ASSUME DiskInv, NEW i \in Instances, Start(i)
    PROVE  \E s \in Sids : Promise!Begin(i, s)
<1>1. PICK s \in Sids \ used : Enter(i, s, Blank, {})
  BY DEF Start
<1>2. AbstractHeld[i] = Promise!Nobody
  BY HeldChanges DEF Start
<1>3. AbstractSaved[s] = Promise!Nothing
  <2>1. settled[s] = "nothing"
    BY DEF DiskInv, Known
  <2> QED  BY <2>1 DEF AbstractSaved, Promise!Nothing
<1>4. AbstractSaved' = AbstractSaved
  BY PromiseStays DEF Start
<1>5. AbstractHeld' = [AbstractHeld EXCEPT ![i] = [s |-> s, c |-> Blank, offer |-> {}]]
  <2>1. replay[i] = {}
    BY DEF Start, DiskInv, Known
  <2> QED  BY <1>1, <2>1, HeldEnters
<1> QED  BY <1>2, <1>3, <1>4, <1>5 DEF Promise!Begin

\* Resume: what can be loaded is stored, and comes back less its panes.
LEMMA EnterRefines ==
    ASSUME DiskInv, NEW i \in Instances, NEW s \in Sids, Readable(s),
           NEW o \in SUBSET (0..MaxWork), o \subseteq {Stored(s).panes},
           Enter(i, s, Restored(s), o), UNCHANGED <<file, settled>>
    PROVE  Promise!Next
<1>1. settled[s] # "nothing"
  BY DEF Readable, NotFound, DiskInv, Known, NoFiles, NoFile
<1>2. AbstractSaved[s] # Promise!Nothing
  BY <1>1 DEF AbstractSaved, Promise!Nothing
<1>3. AbstractSaved[s].st = "settled"
         => /\ Restored(s) = Promise!Back(AbstractSaved[s].c)
            /\ o \subseteq {AbstractSaved[s].c.panes}
  <2>1. AbstractSaved[s].st = "settled" => AbstractSaved[s].c = Stored(s)
    BY DEF AbstractSaved
  <2>2. Restored(s) = Promise!Back(Stored(s))
    BY DEF Restored, Promise!Back, Blank
  <2> QED  BY <2>1, <2>2
<1>4. AbstractSaved' = AbstractSaved
  BY PromiseStays
<1>5. AbstractHeld' = [AbstractHeld EXCEPT ![i] =
                          [s |-> s, c |-> Restored(s), offer |-> @.offer \cup o]]
  BY HeldEnters DEF AbstractHeld
<1>6. Promise!Resume(i, s, Restored(s), o)
  BY <1>2, <1>3, <1>4, <1>5 DEF Promise!Resume
<1>7. Restored(s) \in Contents /\ o \in SUBSET {k.panes : k \in Contents}
  BY RestoredIsContent, StoredIsContent
<1> QED  BY <1>6, <1>7 DEF Promise!Next

\* Work: a turn changes what a process holds.
LEMMA WorkRefines ==
    ASSUME DiskInv, NEW i \in Instances, Work(i)
    PROVE  \E c \in Contents : Promise!Work(i, c)
<1> DEFINE c == live'[i]
<1>1. /\ live' = [live EXCEPT ![i] = [n \in DOMAIN live[i] |-> tick + 1]]
      /\ UNCHANGED <<sid, replay, file, settled>> /\ up[i]
  BY DEF Work, Free, Idle, diskVars
<1>2. live' \in [Instances -> Contents]
  BY WorkKeeps DEF DiskInv, DiskTyped
<1>3. AbstractHeld[i] # Promise!Nobody
  BY <1>1, HeldChanges
<1>4. AbstractHeld' = [AbstractHeld EXCEPT ![i].c = c]
  BY <1>1 DEF AbstractHeld, DiskInv, DiskTyped
<1>5. AbstractSaved' = AbstractSaved
  BY <1>1, PromiseStays
<1> QED  BY <1>2, <1>3, <1>4, <1>5 DEF Promise!Work

\* StartOffered: the interface starts saved panes again.
LEMMA ReplayRefines ==
    ASSUME DiskInv, NEW i \in Instances, Replay(i)
    PROVE  \E c \in Contents : Promise!StartOffered(i, c)
<1>1. PICK c \in Contents : /\ live' = [live EXCEPT ![i] = c]
                            /\ [c EXCEPT !.panes = live[i].panes] = live[i]
  BY ReplayChanges
<1>2. /\ replay[i] # {} /\ replay' = [replay EXCEPT ![i] = replay'[i]]
      /\ replay'[i] \in SUBSET replay[i]
      /\ UNCHANGED <<diskVars, sid, settled>>
  BY ReplayChanges
<1>3. AbstractHeld[i].offer = replay[i] /\ AbstractHeld[i].c = live[i]
  BY DEF AbstractHeld
<1>4. AbstractHeld' = [AbstractHeld EXCEPT ![i].c = c, ![i].offer = replay'[i]]
  BY <1>1, <1>2 DEF AbstractHeld, DiskInv, DiskTyped
<1>5. AbstractSaved' = AbstractSaved
  BY <1>2, PromiseStays DEF diskVars
<1> QED  BY <1>1, <1>2, <1>3, <1>4, <1>5 DEF Promise!StartOffered

\* Unsettle: a save begins.
LEMMA SaveStartsRefines ==
    ASSUME DiskInv, NEW i \in Instances, Idle(i), SaveStarts(i),
           NEW c \in Contents, live' = [live EXCEPT ![i] = c]
    PROVE  Promise!Next
<1> DEFINE s == sid[i]
<1>1. /\ settled' = [settled EXCEPT ![s] = "unsettled"]
      /\ UNCHANGED <<file, sid, replay>> /\ up[i]
  BY DEF SaveStarts, Idle, diskVars
<1>2. s \in Sids
  BY <1>1 DEF DiskInv, DiskTyped, Known
<1>3. AbstractSaved'[s] = Promise!Unsettled
  BY <1>1, <1>2 DEF AbstractSaved, Promise!Unsettled, DiskInv, DiskTyped
<1>4. AbstractSaved' = [AbstractSaved EXCEPT ![s] = AbstractSaved'[s]]
  BY <1>1, <1>2, PromiseChanges DEF DiskInv, DiskTyped
<1>5. AbstractHeld[i] # Promise!Nobody /\ AbstractHeld[i].s = s
  <2>1. AbstractHeld[i].s = s
    BY DEF AbstractHeld
  <2> QED  BY <1>1, <2>1, HeldChanges
<1>6. AbstractHeld' = [AbstractHeld EXCEPT ![i].c = c]
  BY <1>1, HeldContent
<1>7. Promise!Unsettle(i, c)
  BY <1>3, <1>4, <1>5, <1>6 DEF Promise!Unsettle
<1> QED  BY <1>7 DEF Promise!Next

\* A step that writes a file of a session that nothing is promised of, or none,
\* and ends a process or not, is Leave or nothing at all.
LEMMA StopRefines ==
    ASSUME DiskInv, NEW i \in Instances, Stops(i), settled' = settled,
           \A t \in Sids : settled[t] = "settled" => file'[t] = file[t]
    PROVE  Promise!Leave(i) \/ UNCHANGED Promise!svars
<1>1. AbstractSaved' = AbstractSaved
  BY PromiseStays
<1> QED  BY <1>1, HeldChanges DEF Promise!Leave, Promise!svars

\* The steps of a save are not seen before it ends.
LEMMA WritesRefine ==
    ASSUME DiskInv, NEW i \in Instances, Truncate(i) \/ WriteOut(i)
    PROVE  UNCHANGED Promise!svars
<1>1. /\ saving[i] # Rest /\ dir[sid[i]]
      /\ UNCHANGED <<settled, sid, live, replay>>
      /\ \A t \in Sids : t # sid[i] => file'[t] = file[t]
  <2>1. CASE Truncate(i)
    <3>1. PICK n, g : file' = [file EXCEPT ![sid[i]][n] = g]
      BY <2>1 DEF Truncate
    <3>2. \A t \in Sids : t # sid[i] => file'[t] = file[t]
      BY <3>1 DEF DiskInv, DiskTyped
    <3> QED  BY <2>1, <3>2 DEF Truncate, procVars, Rest
  <2>2. CASE WriteOut(i)
    <3>1. PICK n, g : file' = [file EXCEPT ![sid[i]][n] = g]
      BY <2>2 DEF WriteOut
    <3>2. \A t \in Sids : t # sid[i] => file'[t] = file[t]
      BY <3>1 DEF DiskInv, DiskTyped
    <3> QED  BY <2>2, <3>2 DEF WriteOut, procVars, Rest
  <2> QED  BY <2>1, <2>2
<1>2. settled[sid[i]] = "unsettled"
  BY <1>1, SaverKnows
<1>3. \A t \in Sids : settled[t] = "settled" => file'[t] = file[t]
  BY <1>1, <1>2
<1>4. AbstractSaved' = AbstractSaved
  BY <1>1, <1>3, PromiseStays
<1> QED  BY <1>1, <1>4, HeldChanges DEF Promise!svars

\* Settle: a save that met no other ends.
LEMMA SaveEndsRefines ==
    ASSUME DiskInv, NEW i \in Instances, SaveEnds(i)
    PROVE  Promise!Settle(i) \/ Promise!Leave(i) \/ UNCHANGED Promise!svars
<1> SUFFICES ASSUME NEW s, s = sid[i]
             PROVE  Promise!Settle(i) \/ Promise!Leave(i) \/ UNCHANGED Promise!svars
  OBVIOUS
<1>1. /\ saving[i] # Rest /\ dir[s] /\ Stops(i)
      /\ file' \in [Sids -> [Marks -> States]]
      /\ \A t \in Sids : t # s => file'[t] = file[t]
      /\ lone[i] => \A n \in Marks : file'[s][n] = [st |-> "ok", v |-> live[i][n]]
      /\ settled' = IF lone[i] THEN [settled EXCEPT ![s] = "settled"] ELSE settled
  BY SaveEndsWrites
<1>2. up[i] /\ s \in Sids /\ settled[s] = "unsettled"
  BY <1>1, SaverKnows
<1>3. CASE ~lone[i]
  BY <1>1, <1>2, <1>3, StopRefines
<1>4. CASE lone[i]
  <2>1. settled'[s] = "settled" /\ \A t \in Sids : t # s => settled'[t] = settled[t]
    BY <1>1, <1>2, <1>4 DEF DiskInv, DiskTyped
  <2>2. Stored(s)' = live[i]
    <3>1. ASSUME NEW n \in Marks
          PROVE  file'[s][n].st = "ok" /\ file'[s][n].v = live[i][n]
      <4>1. file'[s][n] = [st |-> "ok", v |-> live[i][n]]
        BY <1>1, <1>4
      <4> QED  BY <4>1
    <3>2. live[i] = [n \in Marks |-> live[i][n]]
      BY DEF DiskInv, DiskTyped, Contents, Marks
    <3>3. Stored(s)' = [n \in Marks |-> IF file'[s][n].st = "ok" THEN file'[s][n].v ELSE 0]
      BY DEF Stored, Marks
    <3>4. Stored(s)' = [n \in Marks |-> live[i][n]]
      BY <3>1, <3>3
    <3> QED  BY <3>2, <3>4
  <2>3. AbstractSaved'[s] = Promise!Settled(live[i])
    BY <1>2, <2>1, <2>2 DEF AbstractSaved, Promise!Settled
  <2>4. AbstractSaved' = [AbstractSaved EXCEPT ![s] = AbstractSaved'[s]]
    BY <1>1, <1>2, <2>1, PromiseChanges
  <2>5. AbstractSaved[s] = Promise!Unsettled
    BY <1>2 DEF AbstractSaved, Promise!Unsettled
  <2>6. AbstractHeld[i] # Promise!Nobody /\ AbstractHeld[i].s = s /\ AbstractHeld[i].c = live[i]
    <3>1. AbstractHeld[i] = [s |-> s, c |-> live[i], offer |-> replay[i]]
      BY HeldChanges
    <3>2. AbstractHeld[i] # Promise!Nobody
      BY <1>2, HeldChanges
    <3> HIDE DEF AbstractHeld
    <3> QED  BY <3>1, <3>2
  <2>7. AbstractHeld' \in {AbstractHeld, [AbstractHeld EXCEPT ![i] = Promise!Nobody]}
    BY <1>1, HeldChanges
  <2> QED  BY <2>3, <2>4, <2>5, <2>6, <2>7 DEF Promise!Settle
<1> QED  BY <1>3, <1>4

\* Forget: a deletion, or none when there is nothing to delete.
LEMMA EraseRefines ==
    ASSUME DiskInv, NEW s \in Sids, Erase(s), UNCHANGED procVars
    PROVE  Promise!Forget(s) \/ UNCHANGED Promise!svars
<1>0. AbstractHeld' = AbstractHeld
  BY DEF AbstractHeld, procVars
<1>1. CASE s \notin Listed
  <2>1. UNCHANGED <<file, settled>>
    BY <1>1 DEF Erase, diskVars
  <2> QED  BY <1>0, <2>1, PromiseStays DEF Promise!svars
<1>2. CASE s \in Listed
  <2>1. /\ file' = [file EXCEPT ![s] = NoFiles]
        /\ settled' = [settled EXCEPT ![s] = "nothing"]
    BY <1>2 DEF Erase
  <2>2. AbstractSaved'[s] = Promise!Nothing
    BY <2>1 DEF AbstractSaved, Promise!Nothing, DiskInv, DiskTyped
  <2>3. AbstractSaved' = [AbstractSaved EXCEPT ![s] = AbstractSaved'[s]]
    BY <2>1, PromiseChanges DEF DiskInv, DiskTyped
  <2> QED  BY <1>0, <2>2, <2>3 DEF Promise!Forget
<1> QED  BY <1>1, <1>2

\* Leave: a deletion dies with the process, and its session is spoilt.
LEMMA RemoveCutRefines ==
    ASSUME DiskInv, NEW i \in Instances, NEW s \in Sids, RemoveCut(i, s)
    PROVE  Promise!Leave(i)
<1>1. /\ \E f : file' = [file EXCEPT ![s] = f]
      /\ settled' = [settled EXCEPT ![s] = "unsettled"]
      /\ sid' = [sid EXCEPT ![i] = NoSid]
      /\ live' = [live EXCEPT ![i] = Blank]
      /\ replay' = [replay EXCEPT ![i] = {}]
  BY DEF RemoveCut
<1>2. AbstractSaved'[s] = Promise!Unsettled
  BY <1>1 DEF AbstractSaved, Promise!Unsettled, DiskInv, DiskTyped
<1>3. AbstractSaved' = [AbstractSaved EXCEPT ![s] = AbstractSaved'[s]]
  BY <1>1, PromiseChanges DEF DiskInv, DiskTyped
<1>4. AbstractHeld' = [AbstractHeld EXCEPT ![i] = Promise!Nobody]
  BY <1>1 DEF AbstractHeld, Promise!Nobody, DiskInv, DiskTyped
<1> QED  BY <1>2, <1>3, <1>4 DEF Promise!Leave

\* What the dialog shows is not promised.
LEMMA SameRefines ==
    ASSUME UNCHANGED <<diskVars, procVars, settled>>
    PROVE  UNCHANGED Promise!svars
<1>1. AbstractSaved' = AbstractSaved
  BY PromiseStays DEF diskVars
<1>2. AbstractHeld' = AbstractHeld
  BY DEF AbstractHeld, procVars
<1> QED  BY <1>1, <1>2 DEF Promise!svars

\* Every step of the files is a step of the promise, or none.
LEMMA StepRefines == IInv /\ [Next]_vars => [Promise!Next]_Promise!svars
<1> SUFFICES ASSUME IInv, [Next]_vars  PROVE Promise!Next \/ UNCHANGED Promise!svars
  OBVIOUS
<1>0. DiskInv /\ ScreenInv
  BY DEF IInv
<1>1. ASSUME NEW i \in Instances, Start(i)  PROVE Promise!Next
  BY <1>0, <1>1, StartRefines DEF Promise!Next
<1>2. ASSUME NEW i \in Instances, Work(i) \/ Replay(i)  PROVE Promise!Next
  BY <1>0, <1>2, WorkRefines, ReplayRefines DEF Promise!Next
<1>3. ASSUME NEW i \in Instances, SaveEnds(i)
      PROVE  Promise!Next \/ UNCHANGED Promise!svars
  BY <1>0, <1>3, SaveEndsRefines DEF Promise!Next
<1>4. ASSUME NEW i \in Instances, Stops(i), UNCHANGED <<diskVars, settled>>
      PROVE  Promise!Next \/ UNCHANGED Promise!svars
  BY <1>0, <1>4, StopRefines DEF Promise!Next, diskVars
<1>5. ASSUME NEW i \in Instances, Crash(i)  PROVE Promise!Next \/ UNCHANGED Promise!svars
  <2>1. Stops(i) /\ UNCHANGED <<diskVars, settled>>
    BY <1>5 DEF Crash, End, Stops
  <2> QED  BY <1>4, <2>1
<1>6. ASSUME NEW i \in Instances, SaveFails(i)
      PROVE  Promise!Next \/ UNCHANGED Promise!svars
  <2>1. Stops(i) /\ UNCHANGED <<diskVars, settled>>
    BY <1>6 DEF SaveFails, End, Stops
  <2> QED  BY <1>4, <2>1
<1>7. ASSUME NEW i \in Instances, Idle(i), SaveStarts(i), UNCHANGED live  PROVE Promise!Next
  <2>1. live[i] \in Contents /\ live' = [live EXCEPT ![i] = live[i]]
    BY <1>0, <1>7 DEF DiskInv, DiskTyped
  <2> QED  BY <1>0, <1>7, <2>1, SaveStartsRefines
<1>8. ASSUME NEW i \in Instances, NEW s \in Sids, Restore(i, s)
      PROVE  Promise!Next
  BY <1>0, <1>8, RestoreEnters, EnterRefines DEF diskVars
<1>9. ASSUME NEW s \in Sids, Erase(s), UNCHANGED procVars
      PROVE  Promise!Next \/ UNCHANGED Promise!svars
  BY <1>0, <1>9, EraseRefines DEF Promise!Next
<1>10. ASSUME NEW i \in Instances, HandleResumed(i)
       PROVE  Promise!Next \/ UNCHANGED Promise!svars
  <2> DEFINE s == Head(post[i]).s
  <2>1. s \in Sids
    BY <1>0, <1>10, MessageTaken DEF HandleResumed, Letters
  <2>2. CASE Restore(i, s)
    BY <1>8, <2>1, <2>2
  <2>3. CASE UNCHANGED <<diskVars, procVars, settled>>
    BY <2>3, SameRefines
  <2>4. CASE End(i) /\ UNCHANGED <<diskVars, settled>>
    BY <1>4, <2>4 DEF End, Stops
  <2> QED  BY <1>10, <2>2, <2>3, <2>4 DEF HandleResumed
<1>11. ASSUME NEW i \in Instances, DeleteKey(i) \/ HandleDeleted(i)
       PROVE  Promise!Next \/ UNCHANGED Promise!svars
  <2>1. CASE DeleteKey(i)
    <3>1. Selected(i) \in Sids
      BY <1>0, <2>1, SelectedIsSession DEF DeleteKey
    <3> QED  BY <1>9, <2>1, <3>1 DEF DeleteKey
  <2>2. CASE HandleDeleted(i)
    <3>1. Head(post[i]).s \in Sids
      BY <1>0, <2>2, MessageTaken DEF HandleDeleted, Letters
    <3> QED  BY <1>9, <2>2, <3>1 DEF HandleDeleted
  <2> QED  BY <1>11, <2>1, <2>2
<1>12. ASSUME NEW i \in Instances,
              OpenList(i) \/ MoveCursor(i) \/ CloseList(i) \/ ResumeKey(i)
       PROVE  UNCHANGED Promise!svars
  BY <1>12, SameRefines DEF OpenList, MoveCursor, CloseList, ResumeKey
<1>13. ASSUME NEW i \in Instances, Truncate(i) \/ WriteOut(i)
       PROVE  UNCHANGED Promise!svars
  BY <1>0, <1>13, WritesRefine
<1>14. ASSUME NEW i \in Instances, Save(i) \/ SaveAborts(i) \/ WriteFails(i)
       PROVE  Promise!Next \/ UNCHANGED Promise!svars
  BY <1>6, <1>7, <1>14 DEF Save, SaveAborts, WriteFails, Free
<1>15. ASSUME NEW i \in Instances, NEW s \in Sids, StartResumed(i, s)
       PROVE  Promise!Next
  <2>1. Readable(s) /\ Enter(i, s, Restored(s), {}) /\ UNCHANGED <<diskVars, settled>>
    BY <1>15 DEF StartResumed
  <2>2. {} \in SUBSET (0..MaxWork) /\ {} \subseteq {Stored(s).panes}
    OBVIOUS
  <2> QED  BY <1>0, <2>1, <2>2, EnterRefines DEF diskVars
<1>16. ASSUME NEW i \in Instances, NEW s \in Sids, RemoveCut(i, s)
       PROVE  Promise!Next
  BY <1>0, <1>16, RemoveCutRefines DEF Promise!Next
<1>17. ASSUME NEW i \in Instances, NEW s \in Sids, PromptDelete(i, s)
       PROVE  Promise!Next \/ UNCHANGED Promise!svars
  BY <1>9, <1>17 DEF PromptDelete
<1>18. ASSUME NEW i \in Instances, NEW s \in Sids, PromptResume(i, s)
       PROVE  Promise!Next \/ UNCHANGED Promise!svars
  <2>1. CASE Restore(i, s)
    BY <1>8, <2>1
  <2>2. CASE SaveStarts(i) /\ UNCHANGED live
    BY <1>7, <1>18, <2>2 DEF PromptResume
  <2>3. CASE SaveStarts(i) /\ live' = [live EXCEPT ![i] = Restored(s)]
    <3>1. Idle(i) /\ Restored(s) \in Contents
      BY <1>0, <1>18, RestoredIsContent DEF PromptResume
    <3> QED  BY <1>0, <2>3, <3>1, SaveStartsRefines
  <2>4. CASE End(i) /\ UNCHANGED <<diskVars, settled>>
    BY <1>4, <2>4 DEF End, Stops
  <2> QED  BY <1>18, <2>1, <2>2, <2>3, <2>4 DEF PromptResume
<1>19. CASE UNCHANGED vars
  BY <1>19, SameRefines DEF vars
<1> QED
  BY <1>1, <1>2, <1>3, <1>5, <1>10, <1>11, <1>12, <1>13, <1>14, <1>15, <1>16, <1>17, <1>18, <1>19
     DEF Next

\* The files implement saved sessions: what one process saved completely is
\* what every later resume brings back, whatever others save, delete or leave
\* half done, and only a save, a deletion or a death changes what is stored.
THEOREM FilesKeepThePromise == Spec => KeepsPromise
<1>1. Init => Promise!Init
  <2> SUFFICES ASSUME Init  PROVE Promise!Init
    OBVIOUS
  <2>1. AbstractSaved = [s \in Sids |-> Promise!Nothing]
    BY DEF Init, AbstractSaved, Promise!Nothing
  <2>2. AbstractHeld = [i \in Instances |-> Promise!Nobody]
    BY DEF Init, AbstractHeld, Promise!Nobody
  <2> QED  BY <2>1, <2>2 DEF Promise!Init
<1>2. IInv /\ [Next]_vars => [Promise!Next]_Promise!svars
  BY StepRefines
<1> QED  BY <1>1, <1>2, InvHolds, PTL DEF Spec, KeepsPromise, Promise!Spec
=============================================================================
