-------------------------- MODULE PerceptionProofs --------------------------
(***************************************************************************)
(* Inbound evidence is exactly what lies before the checkpoint, each       *)
(* identity once, in receipts that form one chain; no page is written      *)
(* across a change of authority; and, when the clocks of the runners       *)
(* agree, every wake of what was perceived agrees with its observations,   *)
(* its binding and its cycle.  For any processes, clocks, bindings,        *)
(* contents and edits of the sources, and any failures.                    *)
(***************************************************************************)
EXTENDS Perception, FiniteSetTheorems, FunctionTheorems, SequenceTheorems, TLAPS

-----------------------------------------------------------------------------
(* The inductive invariant *)

\* Authority has not gone back since a snapshot was taken, and a change of it
\* shows in the snapshot, even one that was undone.
SnapshotSound(p) ==
    LET s == mem[p].snap
        b == mem[p].at
    IN  /\ s.epoch[1] <= epoch[1] /\ s.epoch[2] <= epoch[2]
        /\ s.revision <= binding[b].revision
        /\ mem[p].revoked => \/ s.epoch[1] < epoch[1] \/ s.epoch[2] < epoch[2]
                             \/ s.revision < binding[b].revision
        /\ s.cursor # NoCursor => s.cursor.offset <= Len(Content[s.cursor.fixture])

\* A page is what lies between the cursor of the snapshot and the next one.
PageSound(p) ==
    LET c == mem[p].snap.cursor
        d == mem[p].next
    IN  /\ d \in Cursors
        /\ c # NoCursor => c.fixture = d.fixture
        /\ Offset(c) <= d.offset /\ d.offset <= Len(Content[d.fixture])
        /\ mem[p].page = SubSeq(Content[d.fixture], Offset(c) + 1, d.offset)

FetchSound ==
    \A p \in Processes :
        /\ pc[p] \in {"snapshot", "poll", "persist"} =>
            /\ p \in Ingesters /\ mem[p].at \in Bindings
            /\ binding[mem[p].at].registered
        /\ pc[p] = "snapshot" => ~mem[p].revoked
        /\ pc[p] \in {"poll", "persist"} => SnapshotSound(p)
        /\ pc[p] = "persist" => PageSound(p)

\* What CheckpointMatchesEvidence takes for granted of a binding.
RowsSound(b) ==
    /\ binding[b].cursor # NoCursor =>
           binding[b].cursor.offset <= Len(Content[binding[b].cursor.fixture])
    /\ ~binding[b].registered => /\ receipt[b] = <<>> /\ observation[b] = <<>>
                                 /\ group[b] = <<>> /\ binding[b].pending = Nothing
                                 /\ binding[b].revision = 0
    /\ binding[b].pending \in DOMAIN group[b] \cup {Nothing}
    /\ \A i \in DOMAIN observation[b] : observation[b][i].receipt \in DOMAIN receipt[b]

Invariant == TypeOK /\ FetchSound /\ (\A b \in Bindings : RowsSound(b)) /\ CheckpointMatchesEvidence

-----------------------------------------------------------------------------
(* Numbers *)

LEMMA LeastExists ==
    ASSUME NEW T \in SUBSET Nat, T # {}
    PROVE  \E m \in T : \A n \in T : m <= n
<1> DEFINE Less == OpToRel(<, Nat)
<1>1. IsWellFoundedOn(Less, Nat)
  BY NatLessThanWellFounded, Zenon
<1>2. \A n, k \in Nat : <<n, k>> \notin Less => ~ (n < k)
  BY ZenonT(30) DEF OpToRel
<1> HIDE DEF Less
<1>3. T \subseteq Nat
  OBVIOUS
<1>4. PICK m \in T : \A n \in T : ~ (<<n, m>> \in Less)
  BY <1>1, <1>3, WFMin
<1>5. \A n \in T : ~ (n < m)
  BY <1>2, <1>3, <1>4, Zenon
<1> QED  BY <1>3, <1>5

LEMMA Clocks ==
    ASSUME TypeOK, NEW p \in Processes
    PROVE  Now(p) \in Nat
<1>1. clock + Skew[p] \in Nat /\ Horizon \in Nat
  BY ProcessAssumption, PerceptionBounds DEF TypeOK
<1>2. \A x, y \in Nat : Min({x, y}) \in Nat
  <2> SUFFICES ASSUME NEW x \in Nat, NEW y \in Nat PROVE Min({x, y}) \in Nat
    OBVIOUS
  <2>1. \E u \in {x, y} : \A v \in {x, y} : u <= v
    OBVIOUS
  <2> QED  BY <2>1 DEF Min
<1> QED  BY <1>1, <1>2 DEF Now

-----------------------------------------------------------------------------
(* What a page adds *)

Start(b) == [groups |-> group[b], open |-> binding[b].pending, seen |-> observation[b]]

\* The function Filings describes exists.
LEMMA FilingsSteps ==
    ASSUME NEW b, NEW page, NEW r, NEW now, Len(page) \in Nat
    PROVE  LET files == Filings(b, page, r, now)
           IN  /\ files[0] = Start(b)
               /\ \A n \in 1 .. Len(page) : files[n] = AddNew(files[n - 1], page[n], r, now)
<1> DEFINE N          == Len(page)
           Step(f, n) == AddNew(f, page[n], r, now)
           Good(g, n) == /\ g = [m \in 0 .. n |-> g[m]] /\ g[0] = Start(b)
                         /\ \A m \in 1 .. n : g[m] = Step(g[m - 1], m)
           Bad        == {n \in 0 .. N : ~ \E g : Good(g, n)}
<1> HIDE DEF Step
<1>1. ASSUME Bad # {} PROVE FALSE
  <2>1. PICK n \in Bad : \A k \in Bad : n <= k
    <3>1. Bad \in SUBSET Nat
      OBVIOUS
    <3> QED  BY <1>1, <3>1, LeastExists
  <2>2. n \in 0 .. N /\ ~ \E g : Good(g, n)
    BY <2>1
  <2>3. CASE n = 0
    <3> DEFINE g == [m \in 0 .. 0 |-> Start(b)]
    <3>1. Good(g, 0)
      OBVIOUS
    <3> QED  BY <2>2, <2>3, <3>1
  <2>4. CASE n # 0
    <3>1. n - 1 \in 0 .. N /\ n - 1 \notin Bad
      BY <2>1, <2>2, <2>4
    <3>2. PICK h : Good(h, n - 1)
      BY <3>1
    <3>a. n \in Nat /\ n # 0
      BY <2>2, <2>4
    <3>b. h[0] = Start(b) /\ \A m \in 1 .. n - 1 : h[m] = Step(h[m - 1], m)
      BY <3>2
    <3> DEFINE g == [m \in 0 .. n |-> IF m = n THEN Step(h[n - 1], n) ELSE h[m]]
    <3>3. g = [m \in 0 .. n |-> g[m]]
      OBVIOUS
    <3>4. \A m \in 0 .. n : g[m] = IF m = n THEN Step(h[n - 1], n) ELSE h[m]
      OBVIOUS
    <3> HIDE DEF g
    <3>5. g[0] = Start(b)
      BY <3>a, <3>b, <3>4
    <3>6. \A m \in 1 .. n : g[m] = Step(g[m - 1], m)
      <4> SUFFICES ASSUME NEW m \in 1 .. n PROVE g[m] = Step(g[m - 1], m)
        OBVIOUS
      <4>1. m - 1 \in 0 .. n /\ m - 1 # n /\ m \in 0 .. n /\ m # 0
        BY <3>a
      <4>2. g[m - 1] = h[m - 1]
        BY <3>4, <4>1
      <4>3. CASE m = n
        BY <3>4, <4>1, <4>2, <4>3
      <4>4. CASE m # n
        <5>1. m \in 1 .. n - 1
          BY <3>a, <4>4
        <5>2. g[m] = h[m] /\ h[m] = Step(h[m - 1], m)
          BY <3>4, <3>b, <4>1, <4>4, <5>1
        <5> QED  BY <4>2, <5>2
      <4> QED  BY <4>3, <4>4
    <3>7. Good(g, n)
      BY <3>3, <3>5, <3>6
    <3> QED  BY <2>2, <3>7
  <2> QED  BY <2>3, <2>4
<1>2. PICK g : Good(g, N)
  <2>1. N \in 0 .. N /\ N \notin Bad
    BY <1>1
  <2> QED  BY <2>1
<1> DEFINE Fits(f) == f = [n \in 0 .. N |-> IF n = 0 THEN Start(b) ELSE Step(f[n - 1], n)]
<1>3. Fits(g)
  BY <1>2
<1>4. Filings(b, page, r, now) = CHOOSE f : Fits(f)
  BY DEF Filings, Start, Step
<1> DEFINE files == Filings(b, page, r, now)
<1>5. Fits(files)
  BY <1>3, <1>4
<1> HIDE DEF files
<1>6. files[0] = Start(b) /\ \A n \in 1 .. N : files[n] = Step(files[n - 1], n)
  BY <1>5
<1> QED  BY <1>6 DEF Step, files

FilesTyped(files) ==
    /\ files.groups \in Seq(GroupRecords) /\ files.seen \in Seq(ObservationRecords)
    /\ files.open \in DOMAIN files.groups \cup {Nothing}

LEMMA AppendedTo ==
    ASSUME NEW S, NEW s \in Seq(S), NEW x \in S
    PROVE  /\ Append(s, x) \in Seq(S) /\ Len(Append(s, x)) = Len(s) + 1 /\ Len(s) \in Nat
           /\ DOMAIN Append(s, x) = DOMAIN s \cup {Len(s) + 1}
           /\ DOMAIN s = 1 .. Len(s)
           /\ \A i \in DOMAIN s : Append(s, x)[i] = s[i] /\ s[i] \in S
           /\ Append(s, x)[Len(s) + 1] = x
OBVIOUS

\* One fresh item adds one observation, and nothing else is observed.
LEMMA FileTyped ==
    ASSUME NEW files, FilesTyped(files), NEW item \in Items, NEW r \in Nat, NEW now \in Nat
    PROVE  /\ FilesTyped(File(files, item, r, now))
           /\ \E new \in ObservationRecords :
                /\ new.key = item.key /\ new.print = item.print /\ new.receipt = r
                /\ File(files, item, r, now).seen = Append(files.seen, new)
<1> DEFINE groups == IF files.open = Nothing THEN Append(files.groups, NewGroup(now))
                                             ELSE files.groups
           w      == IF files.open = Nothing THEN Len(groups) ELSE files.open
           refs   == Append(groups[w].refs, Len(files.seen) + 1)
           full   == Len(refs) = MaxRefs
           g      == [groups[w] EXCEPT !.refs = refs, !.sealed = IF full THEN now ELSE @]
           next   == [groups EXCEPT ![w] = g]
           new    == [key |-> item.key, print |-> item.print, wake |-> w, receipt |-> r]
<1>1. File(files, item, r, now) =
          [groups |-> next, open |-> IF full THEN Nothing ELSE w, seen |-> Append(files.seen, new)]
  BY DEF File
<1>2. groups \in Seq(GroupRecords) /\ w \in DOMAIN groups /\ w \in Nat
  <2>1. NewGroup(now) \in GroupRecords
    BY DEF NewGroup, GroupRecords, Never
  <2>2. files.groups \in Seq(GroupRecords) /\ files.open \in DOMAIN files.groups \cup {Nothing}
    BY DEF FilesTyped
  <2>3. CASE files.open = Nothing
    BY <2>1, <2>2, <2>3, AppendedTo
  <2>4. CASE files.open # Nothing
    BY <2>2, <2>4
  <2> QED  BY <2>3, <2>4
<1> HIDE DEF groups, w
<1>3. groups[w] \in GroupRecords /\ groups[w].refs \in Seq(Nat) /\ groups[w].sealed \in Nat
  <2>1. groups[w] \in GroupRecords
    BY <1>2
  <2>2. \A x \in GroupRecords : x.refs \in Seq(Nat) /\ x.sealed \in Nat
    BY DEF GroupRecords
  <2> QED  BY <2>1, <2>2
<1>4. Len(files.seen) + 1 \in Nat /\ files.seen \in Seq(ObservationRecords)
  BY DEF FilesTyped
<1>5. refs \in Seq(Nat)
  BY <1>3, <1>4, AppendedTo
<1>6. g \in GroupRecords
  <2>1. (IF full THEN now ELSE groups[w].sealed) \in Nat
    BY <1>3
  <2> DEFINE sealed == IF full THEN now ELSE groups[w].sealed
  <2>2. g = [groups[w] EXCEPT !.refs = refs, !.sealed = sealed]
    OBVIOUS
  <2> HIDE DEF refs, sealed
  <2> QED  BY <1>3, <1>5, <2>1, <2>2 DEF GroupRecords, sealed
<1> HIDE DEF g, refs, full
<1>7. next \in Seq(GroupRecords) /\ DOMAIN next = DOMAIN groups
  BY <1>2, <1>6
<1>8. /\ new \in ObservationRecords
      /\ new.key = item.key /\ new.print = item.print /\ new.receipt = r
  BY <1>2 DEF ObservationRecords, Items
<1> HIDE DEF new, next
<1>9. Append(files.seen, new) \in Seq(ObservationRecords)
  BY <1>4, <1>8, AppendedTo
<1> QED  BY <1>1, <1>2, <1>7, <1>8, <1>9 DEF FilesTyped

\* After n items of a page: what was observed before is, what is added is from
\* the page and its receipt, every item is observed, and no identity twice.
Taken(files, b, page, r, n) ==
    /\ FilesTyped(files)
    /\ DOMAIN observation[b] \subseteq DOMAIN files.seen
    /\ \A i \in DOMAIN observation[b] : files.seen[i] = observation[b][i]
    /\ \A i \in DOMAIN files.seen \ DOMAIN observation[b] :
        /\ files.seen[i].receipt = r
        /\ \E m \in 1 .. n : /\ files.seen[i].key = page[m].key
                             /\ files.seen[i].print = page[m].print
    /\ \A m \in 1 .. n : \E i \in DOMAIN files.seen :
        files.seen[i].key = page[m].key /\ files.seen[i].print = page[m].print
    /\ \A i, j \in DOMAIN files.seen : files.seen[i].key = files.seen[j].key => i = j

LEMMA AddNewTakes ==
    ASSUME NEW b, observation[b] \in Seq(ObservationRecords),
           NEW page \in Seq(Items), ~Conflicts(b, page),
           NEW r \in Nat, NEW now \in Nat, NEW n \in 1 .. Len(page),
           NEW files, Taken(files, b, page, r, n - 1)
    PROVE  Taken(AddNew(files, page[n], r, now), b, page, r, n)
<1> DEFINE item == page[n]
           old  == files.seen
<1>1. /\ item \in Items /\ n \in Nat /\ Len(page) \in Nat /\ n \in DOMAIN page
      /\ \A m \in 1 .. n : m \in DOMAIN page /\ (m = n \/ m \in 1 .. n - 1)
      /\ \A m \in 1 .. n - 1 : m \in 1 .. n
  OBVIOUS
<1>2. /\ FilesTyped(files) /\ old \in Seq(ObservationRecords)
      /\ DOMAIN observation[b] \subseteq DOMAIN old
      /\ \A i \in DOMAIN observation[b] : old[i] = observation[b][i]
      /\ \A i \in DOMAIN old \ DOMAIN observation[b] :
            /\ old[i].receipt = r
            /\ \E m \in 1 .. n - 1 : old[i].key = page[m].key /\ old[i].print = page[m].print
      /\ \A m \in 1 .. n - 1 : \E i \in DOMAIN old :
            old[i].key = page[m].key /\ old[i].print = page[m].print
      /\ \A i, j \in DOMAIN old : old[i].key = old[j].key => i = j
  BY DEF Taken, FilesTyped
<1> HIDE DEF old, item
<1>3. CASE \E i \in DOMAIN old : old[i].key = item.key
  <2>1. PICK i \in DOMAIN old : old[i].key = item.key
    BY <1>3
  <2>2. old[i].print = item.print
    <3>1. CASE i \in DOMAIN observation[b]
      <4>1. old[i].print \in Seen(b, item.key)
        BY <1>2, <2>1, <3>1 DEF Seen
      <4> QED  BY <1>1, <4>1 DEF Conflicts, item
    <3>2. CASE i \notin DOMAIN observation[b]
      <4>1. PICK m \in 1 .. n - 1 : old[i].key = page[m].key /\ old[i].print = page[m].print
        BY <1>2, <2>1, <3>2
      <4> QED  BY <1>1, <2>1, <4>1 DEF Conflicts, item
    <3> QED  BY <3>1, <3>2
  <2>3. \A m \in 1 .. n : \E k \in DOMAIN old :
            old[k].key = page[m].key /\ old[k].print = page[m].print
    BY <1>1, <1>2, <2>1, <2>2 DEF item
  <2>4. \A k \in DOMAIN old \ DOMAIN observation[b] :
            /\ old[k].receipt = r
            /\ \E m \in 1 .. n : old[k].key = page[m].key /\ old[k].print = page[m].print
    BY <1>1, <1>2
  <2>5. AddNew(files, item, r, now) = files
    BY <1>3 DEF AddNew, old
  <2>6. Taken(files, b, page, r, n)
    BY <1>2, <2>3, <2>4 DEF Taken, old
  <2> QED  BY <2>5, <2>6 DEF item
<1>4. CASE ~ \E i \in DOMAIN old : old[i].key = item.key
  <2> DEFINE next == File(files, item, r, now)
  <2>1. AddNew(files, item, r, now) = next
    BY <1>4 DEF AddNew, old
  <2>2. /\ FilesTyped(next)
        /\ \E new \in ObservationRecords :
              /\ new.key = item.key /\ new.print = item.print /\ new.receipt = r
              /\ next.seen = Append(files.seen, new)
    <3>1. item \in Items /\ FilesTyped(files)
      BY <1>1, <1>2
    <3> QED  BY <3>1, FileTyped
  <2>3. PICK new \in ObservationRecords :
            /\ new.key = item.key /\ new.print = item.print /\ new.receipt = r
            /\ next.seen = Append(old, new)
    BY <2>2, Zenon DEF old
  <2> HIDE DEF next
  <2> DEFINE N    == Len(old) + 1
             more == next.seen
  <2>4. /\ DOMAIN more = DOMAIN old \cup {N} /\ N \notin DOMAIN old
        /\ \A i \in DOMAIN old : more[i] = old[i]
        /\ more[N] = new
    BY <1>2, <2>3, AppendedTo
  <2> HIDE DEF N, more
  <2>5. \A i \in DOMAIN observation[b] : i \in DOMAIN more /\ more[i] = observation[b][i]
    BY <1>2, <2>4
  <2>6. \A i \in DOMAIN more \ DOMAIN observation[b] :
            /\ more[i].receipt = r
            /\ \E m \in 1 .. n : more[i].key = page[m].key /\ more[i].print = page[m].print
    <3> SUFFICES ASSUME NEW i \in DOMAIN more \ DOMAIN observation[b]
                 PROVE  /\ more[i].receipt = r
                        /\ \E m \in 1 .. n : /\ more[i].key = page[m].key
                                             /\ more[i].print = page[m].print
      OBVIOUS
    <3>1. CASE i = N
      <4>1. n \in 1 .. n
        BY <1>1
      <4> QED  BY <2>3, <2>4, <3>1, <4>1 DEF item
    <3>2. CASE i \in DOMAIN old
      <4>1. more[i] = old[i] /\ i \in DOMAIN old \ DOMAIN observation[b]
        BY <2>4, <3>2
      <4>2. PICK m \in 1 .. n - 1 : old[i].key = page[m].key /\ old[i].print = page[m].print
        BY <1>2, <4>1
      <4>3. m \in 1 .. n /\ old[i].receipt = r
        BY <1>1, <1>2, <4>1
      <4> QED  BY <4>1, <4>2, <4>3
    <3> QED  BY <2>4, <3>1, <3>2
  <2>7. \A m \in 1 .. n : \E i \in DOMAIN more :
            more[i].key = page[m].key /\ more[i].print = page[m].print
    <3> SUFFICES ASSUME NEW m \in 1 .. n
                 PROVE  \E i \in DOMAIN more :
                            more[i].key = page[m].key /\ more[i].print = page[m].print
      OBVIOUS
    <3>1. CASE m = n
      BY <2>3, <2>4, <3>1 DEF item
    <3>2. CASE m \in 1 .. n - 1
      <4>1. PICK i \in DOMAIN old : old[i].key = page[m].key /\ old[i].print = page[m].print
        BY <1>2, <3>2
      <4> QED  BY <2>4, <4>1
    <3> QED  BY <1>1, <3>1, <3>2
  <2>8. \A i, j \in DOMAIN more : more[i].key = more[j].key => i = j
    BY <1>2, <1>4, <2>3, <2>4
  <2>9. Taken(next, b, page, r, n)
    BY <2>2, <2>5, <2>6, <2>7, <2>8 DEF Taken, more
  <2> QED  BY <2>1, <2>9 DEF item
<1> QED  BY <1>3, <1>4

\* stores/perception.py, persist_page: the loop over the items.
LEMMA PageTaken ==
    ASSUME NEW b, FilesTyped(Start(b)),
           \A i, j \in DOMAIN observation[b] : observation[b][i].key = observation[b][j].key => i = j,
           NEW page \in Seq(Items), ~Conflicts(b, page), NEW r \in Nat, NEW now \in Nat
    PROVE  Taken(Filed(b, page, r, now), b, page, r, Len(page))
<1> DEFINE files == Filings(b, page, r, now)
           Bad   == {n \in 0 .. Len(page) : ~Taken(files[n], b, page, r, n)}
<1>1. Len(page) \in Nat
  OBVIOUS
<1>2. files[0] = Start(b)
  BY <1>1, FilingsSteps
<1>3. \A n \in 1 .. Len(page) : files[n] = AddNew(files[n - 1], page[n], r, now)
  BY <1>1, FilingsSteps
<1> HIDE DEF files
<1>4. observation[b] \in Seq(ObservationRecords) /\ Start(b).seen = observation[b]
  BY DEF FilesTyped, Start
<1>5. Taken(files[0], b, page, r, 0)
  BY <1>2, <1>4 DEF Taken
<1>6. ASSUME Bad # {} PROVE FALSE
  <2>1. PICK n \in Bad : \A k \in Bad : n <= k
    <3>1. Bad \in SUBSET Nat
      BY <1>1
    <3> QED  BY <1>6, <3>1, LeastExists
  <2>2. n \in 0 .. Len(page) /\ ~Taken(files[n], b, page, r, n)
    BY <2>1
  <2>3. n # 0
    BY <1>5, <2>2
  <2>4. n - 1 \in 0 .. Len(page) /\ n \in 1 .. Len(page) /\ ~(n <= n - 1)
    BY <1>1, <2>2, <2>3
  <2>5. Taken(files[n - 1], b, page, r, n - 1)
    BY <2>1, <2>4
  <2>6. Taken(AddNew(files[n - 1], page[n], r, now), b, page, r, n)
    BY <1>4, <2>4, <2>5, AddNewTakes
  <2> QED  BY <1>3, <2>2, <2>4, <2>6
<1>7. Taken(files[Len(page)], b, page, r, Len(page))
  <2>1. Len(page) \in 0 .. Len(page)
    BY <1>1
  <2> QED  BY <1>6, <2>1
<1> QED  BY <1>7 DEF Filed, files

-----------------------------------------------------------------------------
(* What lies before a checkpoint *)

Elements(s) == {s[i] : i \in DOMAIN s}

LEMMA Stretch ==
    ASSUME NEW s \in Seq(Items), NEW a \in Nat \ {0}, NEW z \in Nat, a <= z + 1, z <= Len(s)
    PROVE  /\ SubSeq(s, a, z) \in Seq(Items)
           /\ Elements(SubSeq(s, a, z)) = {s[i] : i \in a .. z}
<1> DEFINE t == SubSeq(s, a, z)
<1>1. \A i \in a .. z : s[i] \in Items
  OBVIOUS
<1>2. /\ t \in Seq(Items) /\ Len(t) = IF a <= z THEN z - a + 1 ELSE 0
      /\ \A i \in 1 .. z - a + 1 : t[i] = s[a + i - 1]
  BY <1>1, SubSeqProperties
<1> HIDE DEF t
<1>3. DOMAIN t = 1 .. z - a + 1
  BY <1>2
<1>4. ASSUME NEW i \in DOMAIN t PROVE t[i] \in {s[k] : k \in a .. z}
  <2>1. a + i - 1 \in a .. z /\ t[i] = s[a + i - 1]
    BY <1>2, <1>3
  <2> QED  BY <2>1
<1>5. ASSUME NEW k \in a .. z PROVE s[k] \in {t[i] : i \in DOMAIN t}
  <2>1. k - a + 1 \in DOMAIN t /\ t[k - a + 1] = s[a + (k - a + 1) - 1] /\ a + (k - a + 1) - 1 = k
    BY <1>2, <1>3
  <2> QED  BY <2>1
<1>6. Elements(t) = {s[i] : i \in a .. z}
  BY <1>4, <1>5 DEF Elements
<1> QED  BY <1>2, <1>6 DEF t

LEMMA ReadOn ==
    ASSUME NEW s \in Seq(Items), NEW o \in Nat, NEW z \in Nat, o <= z, z <= Len(s)
    PROVE  Elements(SubSeq(s, 1, z)) = Elements(SubSeq(s, 1, o)) \cup Elements(SubSeq(s, o + 1, z))
<1>1. 1 .. z = (1 .. o) \cup (o + 1 .. z)
  OBVIOUS
<1>2. /\ Elements(SubSeq(s, 1, z)) = {s[i] : i \in 1 .. z}
      /\ Elements(SubSeq(s, 1, o)) = {s[i] : i \in 1 .. o}
      /\ Elements(SubSeq(s, o + 1, z)) = {s[i] : i \in o + 1 .. z}
  BY Stretch
<1> QED  BY <1>1, <1>2

\* The rows of a binding.
LEMMA Rows ==
    ASSUME TypeOK, NEW b \in Bindings
    PROVE  /\ binding[b] \in BindingRecords
           /\ binding[b].registered \in BOOLEAN /\ binding[b].enabled \in BOOLEAN
           /\ binding[b].cursor \in Cursors \cup {NoCursor}
           /\ binding[b].cursorRevision \in Nat /\ binding[b].revision \in Nat
           /\ binding[b].pending \in Nat /\ binding[b].latest \in Nat
           /\ binding[b].created \in Nat /\ binding[b].updated \in Nat
           /\ receipt[b] \in Seq(ReceiptRecords) /\ observation[b] \in Seq(ObservationRecords)
           /\ group[b] \in Seq(GroupRecords)
           /\ DOMAIN receipt[b] = 1 .. Len(receipt[b]) /\ Len(receipt[b]) \in Nat
           /\ DOMAIN observation[b] = 1 .. Len(observation[b]) /\ Len(observation[b]) \in Nat
           /\ \A n \in DOMAIN receipt[b] :
                /\ receipt[b][n] \in ReceiptRecords
                /\ receipt[b][n].recorded \in Nat /\ receipt[b][n].observed \in Nat
                /\ receipt[b][n].authorising \in Nat /\ receipt[b][n].revision \in Nat
<1>1. /\ binding[b] \in BindingRecords /\ receipt[b] \in Seq(ReceiptRecords)
      /\ observation[b] \in Seq(ObservationRecords) /\ group[b] \in Seq(GroupRecords)
  BY DEF TypeOK
<1>2. /\ binding[b].registered \in BOOLEAN /\ binding[b].enabled \in BOOLEAN
      /\ binding[b].cursor \in Cursors \cup {NoCursor}
      /\ binding[b].cursorRevision \in Nat /\ binding[b].revision \in Nat
      /\ binding[b].pending \in Nat /\ binding[b].latest \in Nat
      /\ binding[b].created \in Nat /\ binding[b].updated \in Nat
  BY <1>1 DEF BindingRecords
<1>3. \A r \in ReceiptRecords : /\ r.recorded \in Nat /\ r.observed \in Nat
                                /\ r.authorising \in Nat /\ r.revision \in Nat
  BY DEF ReceiptRecords
<1>4. /\ DOMAIN receipt[b] = 1 .. Len(receipt[b]) /\ Len(receipt[b]) \in Nat
      /\ DOMAIN observation[b] = 1 .. Len(observation[b]) /\ Len(observation[b]) \in Nat
      /\ \A n \in DOMAIN receipt[b] : receipt[b][n] \in ReceiptRecords
  BY <1>1
<1> QED  BY <1>1, <1>2, <1>3, <1>4

\* CheckpointMatchesEvidence, in parts, of one binding.
Read(b) == IF binding[b].cursor = NoCursor THEN <<>>
           ELSE SubSeq(Content[binding[b].cursor.fixture], 1, binding[b].cursor.offset)

Told(o) == [key |-> o.key, print |-> o.print]

ToldIn(s) == {Told(s[i]) : i \in DOMAIN s}

Delivered(b) == ToldIn(observation[b])

OnceEach(b) == \A i, j \in DOMAIN observation[b] :
                   observation[b][i].key = observation[b][j].key => i = j

NewOf(b, n) == {i \in DOMAIN observation[b] : observation[b][i].receipt = n}

ReceiptSound(b, n) ==
    LET r == receipt[b][n]
    IN  /\ r.new = Cardinality(NewOf(b, n))
        /\ r.new = 0 => r.before # r.after
        /\ r.revision = n
        /\ r.before = IF n = 1 THEN NoCursor ELSE receipt[b][n - 1].after
        /\ r.authorising < binding[b].revision
        /\ r.observed >= binding[b].created /\ r.recorded <= binding[b].updated

EvidenceOf(b) ==
    /\ Delivered(b) = Elements(Read(b))
    /\ OnceEach(b) /\ CheckpointValid(b)
    /\ \A n \in DOMAIN receipt[b] : ReceiptSound(b, n)

LEMMA EvidenceByBinding == CheckpointMatchesEvidence <=> \A b \in Bindings : EvidenceOf(b)
BY DEF CheckpointMatchesEvidence, EvidenceOf, Delivered, ToldIn, Told, Elements, Read, OnceEach, ReceiptSound,
       NewOf

\* Authority, the pointer and the instants of a binding do not matter to its evidence.
LEMMA EvidenceStays ==
    ASSUME TypeOK, NEW b \in Bindings, EvidenceOf(b),
           receipt'[b] = receipt[b], observation'[b] = observation[b],
           binding'[b].cursor = binding[b].cursor, binding'[b].latest = binding[b].latest,
           binding'[b].cursorRevision = binding[b].cursorRevision,
           binding'[b].revision \in Nat, binding'[b].revision >= binding[b].revision,
           binding'[b].updated \in Nat,
           \/ receipt[b] = <<>>
           \/ binding'[b].created = binding[b].created /\ binding'[b].updated >= binding[b].updated
    PROVE  EvidenceOf(b)'
<1>1. Delivered(b)' = Delivered(b) /\ Read(b)' = Read(b) /\ OnceEach(b)' /\ CheckpointValid(b)'
  BY DEF Delivered, ToldIn, Told, Read, OnceEach, EvidenceOf, CheckpointValid
<1>2. ASSUME NEW n \in DOMAIN receipt[b] PROVE ReceiptSound(b, n)'
  <2>1. ReceiptSound(b, n) /\ receipt[b] # <<>>
    BY <1>2 DEF EvidenceOf
  <2>2. /\ binding[b].revision \in Nat /\ binding[b].updated \in Nat /\ binding[b].created \in Nat
        /\ receipt[b][n].recorded \in Nat /\ receipt[b][n].observed \in Nat
        /\ receipt[b][n].authorising \in Nat
    BY Rows
  <2>3. NewOf(b, n)' = NewOf(b, n)
    BY DEF NewOf
  <2> QED  BY <2>1, <2>2, <2>3 DEF ReceiptSound
<1> QED  BY <1>1, <1>2 DEF EvidenceOf, Elements

-----------------------------------------------------------------------------
(* A page is written *)

\* What the snapshot of a page that may be written says is still so.
LEMMA Persistable ==
    ASSUME Invariant, NEW p \in Processes, Owns(p, "persist"), NEW now, PersistAllowed(p, now)
    PROVE  LET b == mem[p].at
               c == mem[p].snap.cursor
               d == mem[p].next
           IN  /\ b \in Bindings /\ p \in Ingesters /\ binding[b].registered
               /\ c = binding[b].cursor
               /\ mem[p].snap.cursorRevision = binding[b].cursorRevision
               /\ mem[p].snap.revision = binding[b].revision /\ mem[p].snap.epoch = epoch
               /\ now >= binding[b].updated /\ mem[p].observed >= binding[b].created
               /\ mem[p].observed \in Nat
               /\ mem[p].page \in Seq(Items) /\ ~Conflicts(b, mem[p].page)
               /\ d \in Cursors /\ d.fixture \in Fixtures /\ d.offset \in Nat
               /\ Content[d.fixture] \in Seq(Items)
               /\ Offset(c) \in Nat /\ Offset(c) <= d.offset /\ d.offset <= Len(Content[d.fixture])
               /\ c # NoCursor => c.fixture = d.fixture
               /\ mem[p].page = SubSeq(Content[d.fixture], Offset(c) + 1, d.offset)
<1>1. /\ mem[p].at \in Bindings /\ p \in Ingesters /\ binding[mem[p].at].registered
      /\ SnapshotSound(p) /\ PageSound(p)
  BY DEF Invariant, FetchSound, Owns
<1>2. Snap(mem[p].at) = mem[p].snap
  BY DEF PersistAllowed, SnapshotCurrent
<1>3. /\ mem[p].snap.cursor = binding[mem[p].at].cursor
      /\ mem[p].snap.cursorRevision = binding[mem[p].at].cursorRevision
      /\ mem[p].snap.revision = binding[mem[p].at].revision /\ mem[p].snap.epoch = epoch
  BY <1>2 DEF Snap
<1>4. mem[p] \in MemRecords
  BY DEF Invariant, TypeOK
<1>5. mem[p].page \in Seq(Items) /\ mem[p].observed \in Nat
  BY <1>4 DEF MemRecords
<1>6. /\ mem[p].next \in Cursors /\ mem[p].next.fixture \in Fixtures /\ mem[p].next.offset \in Nat
      /\ Content[mem[p].next.fixture] \in Seq(Items)
  BY <1>1, SourceAssumption DEF PageSound, Cursors
<1>7. Offset(mem[p].snap.cursor) \in Nat
  <2>1. mem[p].snap.cursor \in Cursors \cup {NoCursor}
    BY <1>1, <1>3, Rows DEF Invariant
  <2> QED  BY <2>1 DEF Offset, Cursors
<1> QED  BY <1>1, <1>3, <1>5, <1>6, <1>7 DEF PageSound, PersistAllowed


LEMMA DeliveredGrows ==
    ASSUME NEW old, NEW seen, NEW page \in Seq(Items),
           DOMAIN old \subseteq DOMAIN seen,
           \A i \in DOMAIN old : seen[i] = old[i],
           \A i \in DOMAIN seen \ DOMAIN old : \E m \in 1 .. Len(page) :
               seen[i].key = page[m].key /\ seen[i].print = page[m].print,
           \A m \in 1 .. Len(page) : \E i \in DOMAIN seen :
               seen[i].key = page[m].key /\ seen[i].print = page[m].print
    PROVE  ToldIn(seen) = ToldIn(old) \cup Elements(page)
<1>1. \A x \in Items : x = Told(x)
  BY DEF Items, Told
<1>2. DOMAIN page = 1 .. Len(page) /\ \A m \in 1 .. Len(page) : page[m] \in Items
  OBVIOUS
<1>3. \A i \in DOMAIN seen \ DOMAIN old : \E m \in 1 .. Len(page) : Told(seen[i]) = Told(page[m])
  BY DEF Told
<1>4. \A m \in 1 .. Len(page) : \E i \in DOMAIN seen : Told(seen[i]) = Told(page[m])
  BY DEF Told
<1>5. \A m \in 1 .. Len(page) : page[m] = Told(page[m])
  BY <1>1, <1>2
<1>6. ASSUME NEW i \in DOMAIN seen
      PROVE  Told(seen[i]) \in ToldIn(old) \cup Elements(page)
  <2>1. CASE i \in DOMAIN old
    BY <2>1 DEF ToldIn
  <2>2. CASE i \notin DOMAIN old
    <3>1. PICK m \in 1 .. Len(page) : Told(seen[i]) = Told(page[m])
      BY <1>3, <2>2
    <3> QED  BY <1>2, <1>5, <3>1 DEF Elements
  <2> QED  BY <2>1, <2>2
<1>7. ASSUME NEW k \in DOMAIN old PROVE Told(old[k]) \in ToldIn(seen)
  BY DEF ToldIn
<1>8. ASSUME NEW m \in 1 .. Len(page) PROVE page[m] \in ToldIn(seen)
  BY <1>4, <1>5 DEF ToldIn
<1>9. ToldIn(seen) \subseteq ToldIn(old) \cup Elements(page)
  BY <1>6, Zenon DEF ToldIn
<1>10. ToldIn(old) \subseteq ToldIn(seen)
  BY <1>7, Zenon DEF ToldIn
<1>11. Elements(page) \subseteq ToldIn(seen)
  BY <1>2, <1>8 DEF Elements
<1> QED  BY <1>9, <1>10, <1>11

LEMMA Intervals ==
    ASSUME NEW x \in Nat, NEW y \in Nat, 1 .. x \subseteq 1 .. y
    PROVE  x <= y /\ Cardinality(x + 1 .. y) = y - x
<1>1. x <= y
  <2>1. x = 0 \/ x \in 1 .. x
    OBVIOUS
  <2> QED  BY <2>1
<1>2. Cardinality(x + 1 .. y) = IF x + 1 > y THEN 0 ELSE y - (x + 1) + 1
  BY FS_Interval
<1> QED  BY <1>1, <1>2

LEMMA ReceiptStays ==
    ASSUME NEW b, NEW k, ReceiptSound(b, k),
           receipt'[b][k] = receipt[b][k],
           k # 1 => receipt'[b][k - 1] = receipt[b][k - 1],
           NewOf(b, k)' = NewOf(b, k),
           binding'[b].created = binding[b].created,
           receipt[b][k].authorising < binding'[b].revision,
           receipt[b][k].recorded <= binding'[b].updated
    PROVE  ReceiptSound(b, k)'
BY DEF ReceiptSound

LEMMA ReceiptAdded ==
    ASSUME NEW b, NEW n, NEW new, receipt'[b][n] = new,
           new.new = Cardinality(NewOf(b, n)'),
           new.new = 0 => new.before # new.after,
           new.revision = n,
           new.before = IF n = 1 THEN NoCursor ELSE receipt'[b][n - 1].after,
           new.authorising < binding'[b].revision,
           new.observed >= binding'[b].created, new.recorded <= binding'[b].updated
    PROVE  ReceiptSound(b, n)'
BY DEF ReceiptSound

\* One more page of binding b, up to d, and its receipt, the n-th.
PageRead(b, page, d) ==
    /\ d.offset <= Len(Content[d.fixture]) /\ Offset(binding[b].cursor) <= d.offset
    /\ binding[b].cursor # NoCursor => binding[b].cursor.fixture = d.fixture
    /\ page = SubSeq(Content[d.fixture], Offset(binding[b].cursor) + 1, d.offset)

ReceiptFits(b, new, d, now, fresh) ==
    /\ new.before = binding[b].cursor /\ new.after = d
    /\ new.revision = binding[b].cursorRevision + 1
    /\ new.authorising = binding[b].revision /\ new.recorded = now
    /\ new.observed >= binding[b].created /\ now >= binding[b].updated
    /\ new.new = fresh
    /\ fresh = 0 => binding[b].cursor # d

RowFits(b, row, d, n, open, now) ==
    /\ row.registered /\ row.cursor = d
    /\ row.cursorRevision = binding[b].cursorRevision + 1 /\ row.latest = n
    /\ row.pending = open /\ row.revision = binding[b].revision + 1
    /\ row.created = binding[b].created /\ row.updated = now

LEMMA EvidenceGrows ==
    ASSUME TypeOK, NEW b \in Bindings, RowsSound(b), EvidenceOf(b), binding[b].registered,
           NEW d \in Cursors, NEW page \in Seq(Items), NEW now \in Nat,
           NEW n, n = Len(receipt[b]) + 1,
           NEW files, Taken(files, b, page, n, Len(page)),
           NEW new \in ReceiptRecords, PageRead(b, page, d),
           ReceiptFits(b, new, d, now, Len(files.seen) - Len(observation[b])),
           NEW row, RowFits(b, row, d, n, files.open, now),
           binding'[b] = row, receipt'[b] = Append(receipt[b], new),
           observation'[b] = files.seen, group'[b] = files.groups
    PROVE  RowsSound(b)' /\ EvidenceOf(b)'
<1> DEFINE R    == receipt[b]
           old  == observation[b]
           seen == files.seen
<1>1. /\ binding[b].cursor \in Cursors \cup {NoCursor}
      /\ binding[b].cursorRevision \in Nat /\ binding[b].revision \in Nat
      /\ binding[b].created \in Nat /\ binding[b].updated \in Nat
      /\ R \in Seq(ReceiptRecords) /\ old \in Seq(ObservationRecords)
      /\ DOMAIN R = 1 .. Len(R) /\ Len(R) \in Nat
      /\ DOMAIN old = 1 .. Len(old) /\ Len(old) \in Nat
      /\ \A k \in DOMAIN R : /\ R[k].recorded \in Nat /\ R[k].authorising \in Nat
                             /\ R[k].observed \in Nat
  BY Rows
<1>2. /\ files.groups \in Seq(GroupRecords) /\ seen \in Seq(ObservationRecords)
      /\ files.open \in DOMAIN files.groups \cup {Nothing}
      /\ DOMAIN old \subseteq DOMAIN seen
      /\ \A i \in DOMAIN old : seen[i] = old[i]
      /\ \A i \in DOMAIN seen \ DOMAIN old : seen[i].receipt = n
      /\ \A i \in DOMAIN seen \ DOMAIN old : \E m \in 1 .. Len(page) :
            seen[i].key = page[m].key /\ seen[i].print = page[m].print
      /\ \A m \in 1 .. Len(page) : \E i \in DOMAIN seen :
            seen[i].key = page[m].key /\ seen[i].print = page[m].print
      /\ \A i, j \in DOMAIN seen : seen[i].key = seen[j].key => i = j
  BY DEF Taken, FilesTyped
<1>a. /\ d.offset <= Len(Content[d.fixture]) /\ Offset(binding[b].cursor) <= d.offset
      /\ binding[b].cursor # NoCursor => binding[b].cursor.fixture = d.fixture
      /\ page = SubSeq(Content[d.fixture], Offset(binding[b].cursor) + 1, d.offset)
  BY DEF PageRead
<1>b. /\ new.before = binding[b].cursor /\ new.after = d
      /\ new.revision = binding[b].cursorRevision + 1
      /\ new.authorising = binding[b].revision /\ new.recorded = now
      /\ new.observed >= binding[b].created /\ now >= binding[b].updated
      /\ new.new = Len(seen) - Len(old)
      /\ new.new = 0 => binding[b].cursor # d
  BY DEF ReceiptFits
<1>c. /\ binding'[b].registered /\ binding'[b].cursor = d
      /\ binding'[b].cursorRevision = binding[b].cursorRevision + 1 /\ binding'[b].latest = n
      /\ binding'[b].pending = files.open /\ binding'[b].revision = binding[b].revision + 1
      /\ binding'[b].created = binding[b].created /\ binding'[b].updated = now
  BY DEF RowFits
<1>3. /\ DOMAIN receipt'[b] = DOMAIN R \cup {n} /\ n \notin DOMAIN R /\ n \in Nat
      /\ Len(receipt'[b]) = n /\ receipt'[b][n] = new
      /\ \A k \in DOMAIN R : receipt'[b][k] = R[k]
  <2>1. R \in Seq(ReceiptRecords) /\ receipt'[b] = Append(R, new) /\ n = Len(R) + 1
    BY <1>1
  <2> HIDE DEF R
  <2> QED  BY <2>1, AppendedTo
<1>4. /\ n # 1 => n - 1 \in DOMAIN R /\ n - 1 = Len(R) /\ Len(R) # 0
      /\ n = 1 => Len(R) = 0
  BY <1>1
<1>5. \A k \in DOMAIN R : ReceiptSound(b, k)
  BY DEF EvidenceOf
<1>6. /\ n # 1 => /\ binding[b].cursor = R[n - 1].after
                  /\ binding[b].cursorRevision = R[n - 1].revision
                  /\ R[n - 1].revision = n - 1 /\ R[n - 1].recorded <= binding[b].updated
      /\ n = 1 => binding[b].cursor = NoCursor /\ binding[b].cursorRevision = 0
  <2>1. CheckpointValid(b)
    BY DEF EvidenceOf
  <2>2. ASSUME n # 1
        PROVE  /\ binding[b].cursor = R[n - 1].after
               /\ binding[b].cursorRevision = R[n - 1].revision
    BY <1>4, <2>1, <2>2 DEF CheckpointValid
  <2>3. ASSUME n = 1 PROVE binding[b].cursor = NoCursor /\ binding[b].cursorRevision = 0
    BY <1>4, <2>1, <2>3 DEF CheckpointValid
  <2>4. ASSUME n # 1 PROVE R[n - 1].revision = n - 1 /\ R[n - 1].recorded <= binding[b].updated
    <3>1. ReceiptSound(b, n - 1)
      BY <1>4, <1>5, <2>4
    <3> QED  BY <3>1 DEF ReceiptSound
  <2> QED  BY <2>2, <2>3, <2>4
<1>7. new.revision = n
  BY <1>1, <1>3, <1>6, <1>b
<1>8. new.before = IF n = 1 THEN NoCursor ELSE receipt'[b][n - 1].after
  BY <1>3, <1>4, <1>6, <1>b
<1>9. n # 1 => receipt'[b][n - 1].recorded <= now /\ receipt'[b][n - 1].revision + 1 = n
  BY <1>1, <1>3, <1>4, <1>6, <1>b
<1>10. Delivered(b)' = Elements(Read(b))'
  <2>1. Delivered(b)' = ToldIn(seen)
    BY DEF Delivered, ToldIn, Told
  <2>2. Delivered(b)' = Delivered(b) \cup Elements(page)
    <3>1. ToldIn(seen) = ToldIn(old) \cup Elements(page)
      <4>1. /\ DOMAIN old \subseteq DOMAIN seen
            /\ \A i \in DOMAIN old : seen[i] = old[i]
        BY <1>2
      <4>2. \A i \in DOMAIN seen \ DOMAIN old : \E m \in 1 .. Len(page) :
                seen[i].key = page[m].key /\ seen[i].print = page[m].print
        BY <1>2
      <4>3. \A m \in 1 .. Len(page) : \E i \in DOMAIN seen :
                seen[i].key = page[m].key /\ seen[i].print = page[m].print
        BY <1>2
      <4> HIDE DEF seen, old
      <4> QED  BY <4>1, <4>2, <4>3, DeliveredGrows
    <3>2. Delivered(b) = ToldIn(old)
      BY DEF Delivered
    <3> QED  BY <2>1, <3>1, <3>2, Zenon
  <2>3. d.fixture \in Fixtures /\ d.offset \in Nat /\ Content[d.fixture] \in Seq(Items)
    BY SourceAssumption DEF Cursors
  <2>4. Elements(Read(b)) = Elements(SubSeq(Content[d.fixture], 1, Offset(binding[b].cursor)))
    <3>1. CASE binding[b].cursor = NoCursor
      <4>1. SubSeq(Content[d.fixture], 1, 0) = <<>>
        BY <2>3, SubSeqEmpty
      <4> QED  BY <3>1, <4>1 DEF Read, Offset
    <3>2. CASE binding[b].cursor # NoCursor
      BY <1>a, <3>2 DEF Read, Offset
    <3> QED  BY <3>1, <3>2
  <2>5. Read(b)' = SubSeq(Content[d.fixture], 1, d.offset)
    <3>1. d # NoCursor
      BY SourceAssumption DEF Cursors
    <3> QED  BY <1>c, <3>1 DEF Read
  <2>6. Offset(binding[b].cursor) \in Nat
    BY <1>1 DEF Offset, Cursors
  <2>7. Elements(SubSeq(Content[d.fixture], 1, d.offset)) =
            Elements(SubSeq(Content[d.fixture], 1, Offset(binding[b].cursor))) \cup Elements(page)
    BY <1>a, <2>3, <2>6, ReadOn
  <2>8. Elements(Read(b))' = Elements(SubSeq(Content[d.fixture], 1, d.offset))
    BY <2>5 DEF Elements
  <2>9. Delivered(b) = Elements(Read(b))
    BY DEF EvidenceOf
  <2> QED  BY <2>2, <2>4, <2>7, <2>8, <2>9, Zenon
<1>11. OnceEach(b)'
  BY <1>2 DEF OnceEach
<1>12. CheckpointValid(b)'
  <2>1. /\ binding'[b].latest = n /\ binding'[b].cursor = new.after
        /\ binding'[b].cursorRevision = new.revision /\ n # 0 /\ new.recorded = now
    BY <1>1, <1>b, <1>c
  <2> QED  BY <1>3, <1>7, <1>8, <1>9, <2>1 DEF CheckpointValid
<1>13. ASSUME NEW k \in DOMAIN R PROVE ReceiptSound(b, k)'
  <2>1. NewOf(b, k)' = NewOf(b, k)
    <3>1. \A i \in DOMAIN seen : seen[i].receipt = k => i \in DOMAIN old
      BY <1>2, <1>3, <1>13
    <3>2. {i \in DOMAIN seen : seen[i].receipt = k} = {i \in DOMAIN old : old[i].receipt = k}
      BY <1>2, <3>1
    <3>3. NewOf(b, k)' = {i \in DOMAIN seen : seen[i].receipt = k}
      BY DEF NewOf
    <3> QED  BY <3>2, <3>3, Zenon DEF NewOf
  <2>2. k # 1 => receipt'[b][k - 1] = R[k - 1]
    BY <1>1, <1>3
  <2>3. ReceiptSound(b, k) /\ R[k].authorising \in Nat /\ R[k].recorded \in Nat
    BY <1>1, <1>5
  <2>4. R[k].authorising < binding[b].revision /\ R[k].recorded <= binding[b].updated
    BY <2>3 DEF ReceiptSound
  <2>5. R[k].authorising < binding'[b].revision /\ R[k].recorded <= binding'[b].updated
    <3>1. /\ binding[b].revision \in Nat /\ binding[b].updated \in Nat /\ now >= binding[b].updated
          /\ binding'[b].revision = binding[b].revision + 1 /\ binding'[b].updated = now
      BY <1>1, <1>b, <1>c
    <3>2. \A x, y \in Nat : x < y => x < y + 1
      OBVIOUS
    <3>3. \A x, y, z \in Nat : (x <= y /\ z >= y) => x <= z
      OBVIOUS
    <3>4. R[k].authorising < binding[b].revision + 1
      BY <2>3, <2>4, <3>1, <3>2
    <3>5. R[k].recorded <= now
      BY <2>3, <2>4, <3>1, <3>3
    <3> QED  BY <3>1, <3>4, <3>5
  <2>6. receipt'[b][k] = R[k]
    BY <1>3
  <2>7. binding'[b].created = binding[b].created
    BY <1>c
  <2> QED  BY <2>1, <2>2, <2>3, <2>5, <2>6, <2>7, ReceiptStays
<1>14. ReceiptSound(b, n)'
  <2>1. {i \in DOMAIN seen : seen[i].receipt = n} = Len(old) + 1 .. Len(seen)
    <3>1. \A i \in DOMAIN old : seen[i].receipt # n
      BY <1>2, <1>3 DEF RowsSound
    <3>2. DOMAIN seen = 1 .. Len(seen) /\ Len(seen) \in Nat
      BY <1>2
    <3>3. DOMAIN seen \ DOMAIN old = Len(old) + 1 .. Len(seen)
      BY <1>1, <3>2
    <3> QED  BY <1>2, <3>1, <3>3
  <2>2. new.new = Cardinality(NewOf(b, n)')
    <3>1. Len(seen) \in Nat /\ Len(old) \in Nat /\ 1 .. Len(old) \subseteq 1 .. Len(seen)
      <4>1. DOMAIN seen = 1 .. Len(seen) /\ Len(seen) \in Nat
        BY <1>2
      <4> QED  BY <1>1, <1>2, <4>1
    <3>2. Cardinality(Len(old) + 1 .. Len(seen)) = Len(seen) - Len(old)
      <4> HIDE DEF seen, old
      <4> QED  BY <3>1, Intervals
    <3>3. NewOf(b, n)' = {i \in DOMAIN seen : seen[i].receipt = n}
      BY DEF NewOf
    <3> QED  BY <1>b, <2>1, <3>2, <3>3
  <2>3. new.new = 0 => new.before # new.after
    BY <1>b
  <2>4. new.authorising < binding'[b].revision
    BY <1>1, <1>b, <1>c
  <2>5. new.observed >= binding'[b].created /\ new.recorded <= binding'[b].updated
    BY <1>1, <1>b, <1>c
  <2>6. receipt'[b][n] = new
    BY <1>3
  <2> QED  BY <1>7, <1>8, <2>2, <2>3, <2>4, <2>5, <2>6, ReceiptAdded
<1>15. EvidenceOf(b)'
  BY <1>3, <1>10, <1>11, <1>12, <1>13, <1>14 DEF EvidenceOf
<1>16. RowsSound(b)'
  <2>1. \A i \in DOMAIN seen : seen[i].receipt \in DOMAIN receipt'[b]
    BY <1>2, <1>3 DEF RowsSound
  <2>2. files.open \in DOMAIN files.groups \cup {Nothing}
    BY <1>2
  <2> QED  BY <1>a, <1>c, <2>1, <2>2 DEF RowsSound
<1> QED  BY <1>15, <1>16

LEMMA WrittenKeeps ==
    ASSUME Invariant, NEW p \in Processes, Owns(p, "persist"), NEW b \in Bindings, b = mem[p].at,
           NEW now \in Nat, PersistAllowed(p, now), Written(p, now)
    PROVE  /\ binding' \in [Bindings -> BindingRecords]
           /\ receipt' \in [Bindings -> Seq(ReceiptRecords)]
           /\ observation' \in [Bindings -> Seq(ObservationRecords)]
           /\ group' \in [Bindings -> Seq(GroupRecords)]
           /\ \A x \in Bindings : /\ RowsSound(x)' /\ EvidenceOf(x)'
                                  /\ binding'[x].registered = binding[x].registered
                                  /\ binding'[x].revision >= binding[x].revision
           /\ \A x \in Bindings \ {b} : receipt'[x] = receipt[x]
<1> DEFINE c     == mem[p].snap.cursor
           d     == mem[p].next
           page  == mem[p].page
           n     == Len(receipt[b]) + 1
           files == Filed(b, page, n, now)
           fresh == Len(files.seen) - Len(observation[b])
           new   == NewReceipt(p, fresh, now)
           row   == [binding[b] EXCEPT
                        !.cursor = d, !.cursorRevision = mem[p].snap.cursorRevision + 1,
                        !.latest = n, !.pending = files.open,
                        !.revision = mem[p].snap.revision + 1, !.updated = now]
<1>1. TypeOK /\ (\A x \in Bindings : RowsSound(x) /\ EvidenceOf(x))
  BY EvidenceByBinding DEF Invariant
<1>2. /\ binding[b].registered /\ c = binding[b].cursor
      /\ mem[p].snap.cursorRevision = binding[b].cursorRevision
      /\ mem[p].snap.revision = binding[b].revision
      /\ now >= binding[b].updated /\ mem[p].observed >= binding[b].created
      /\ mem[p].observed \in Nat /\ page \in Seq(Items) /\ ~Conflicts(b, page)
      /\ d \in Cursors /\ PageRead(b, page, d)
  BY Persistable DEF PageRead
<1>3. /\ binding[b] \in BindingRecords
      /\ binding[b].cursorRevision \in Nat /\ binding[b].revision \in Nat
      /\ binding[b].cursor \in Cursors \cup {NoCursor}
      /\ receipt[b] \in Seq(ReceiptRecords) /\ observation[b] \in Seq(ObservationRecords)
      /\ group[b] \in Seq(GroupRecords)
      /\ DOMAIN observation[b] = 1 .. Len(observation[b]) /\ Len(observation[b]) \in Nat
      /\ n \in Nat /\ Len(receipt[b]) \in Nat
  BY <1>1, Rows
<1>4. RowsSound(b) /\ EvidenceOf(b)
  BY <1>1
<1>5. Taken(files, b, page, n, Len(page))
  <2>1. FilesTyped(Start(b))
    BY <1>3, <1>4 DEF FilesTyped, Start, RowsSound
  <2>2. \A i, j \in DOMAIN observation[b] :
            observation[b][i].key = observation[b][j].key => i = j
    BY <1>4 DEF EvidenceOf, OnceEach
  <2>3. page \in Seq(Items) /\ ~Conflicts(b, page) /\ n \in Nat
    BY <1>2, <1>3
  <2> HIDE DEF page, n
  <2> QED  BY <2>1, <2>2, <2>3, PageTaken
<1>6. \/ UNCHANGED <<binding, receipt, observation, group>>
      \/ /\ ~(fresh = 0 /\ d = c)
         /\ group' = [group EXCEPT ![b] = files.groups]
         /\ observation' = [observation EXCEPT ![b] = files.seen]
         /\ receipt' = [receipt EXCEPT ![b] = Append(receipt[b], new)]
         /\ binding' = [binding EXCEPT ![b] = row]
  BY DEF Written, ingress
<1>7. /\ files.groups \in Seq(GroupRecords) /\ files.seen \in Seq(ObservationRecords)
      /\ files.open \in DOMAIN files.groups \cup {Nothing} /\ files.open \in Nat
      /\ DOMAIN observation[b] \subseteq DOMAIN files.seen
  BY <1>5 DEF Taken, FilesTyped, Nothing
<1> HIDE DEF files, d, page, c, n
<1>8. ASSUME NEW x \in Bindings, binding'[x] = binding[x], receipt'[x] = receipt[x],
             observation'[x] = observation[x], group'[x] = group[x]
      PROVE  /\ RowsSound(x)' /\ EvidenceOf(x)'
             /\ binding'[x].registered = binding[x].registered
             /\ binding'[x].revision >= binding[x].revision
  <2>1. RowsSound(x) /\ EvidenceOf(x)
    BY <1>1
  <2>2. binding[x].revision \in Nat /\ binding[x].updated \in Nat
    BY <1>1, Rows
  <2>3. RowsSound(x)'
    BY <1>8, <2>1 DEF RowsSound
  <2>4. EvidenceOf(x)'
    <3>1. /\ binding'[x].cursor = binding[x].cursor /\ binding'[x].latest = binding[x].latest
          /\ binding'[x].cursorRevision = binding[x].cursorRevision
          /\ binding'[x].revision \in Nat /\ binding'[x].revision >= binding[x].revision
          /\ binding'[x].updated \in Nat
          /\ binding'[x].created = binding[x].created /\ binding'[x].updated >= binding[x].updated
      BY <1>8, <2>2
    <3> QED  BY <1>1, <1>8, <2>1, <3>1, EvidenceStays
  <2> QED  BY <1>8, <2>2, <2>3, <2>4
<1>9. CASE UNCHANGED <<binding, receipt, observation, group>>
  BY <1>1, <1>8, <1>9 DEF TypeOK
<1>10. CASE /\ ~(fresh = 0 /\ d = c)
            /\ group' = [group EXCEPT ![b] = files.groups]
            /\ observation' = [observation EXCEPT ![b] = files.seen]
            /\ receipt' = [receipt EXCEPT ![b] = Append(receipt[b], new)]
            /\ binding' = [binding EXCEPT ![b] = row]
  <2>1. fresh \in Nat
    <3>1. DOMAIN files.seen = 1 .. Len(files.seen) /\ Len(files.seen) \in Nat
      BY <1>7
    <3>2. 1 .. Len(observation[b]) \subseteq 1 .. Len(files.seen)
      BY <1>3, <1>7, <3>1
    <3>3. Len(observation[b]) <= Len(files.seen)
      BY <1>3, <3>1, <3>2, Intervals
    <3> QED  BY <1>3, <3>1, <3>3
  <2>2. /\ new.before = c /\ new.after = d /\ new.revision = binding[b].cursorRevision + 1
        /\ new.authorising = binding[b].revision /\ new.observed = mem[p].observed
        /\ new.recorded = now /\ new.new = fresh /\ new \in ReceiptRecords
    <3> HIDE DEF fresh
    <3>1. Len(page) \in Nat
      BY <1>2
    <3>2. new = [before |-> c, after |-> d, revision |-> binding[b].cursorRevision + 1,
                 authorising |-> binding[b].revision, observed |-> mem[p].observed,
                 recorded |-> now, items |-> Len(page), new |-> fresh]
      BY <1>2 DEF NewReceipt, Advanced, c, d, page
    <3> QED  BY <1>2, <1>3, <2>1, <3>1, <3>2 DEF ReceiptRecords
  <2>3. ReceiptFits(b, new, d, now, fresh)
    <3> HIDE DEF new, fresh
    <3> QED  BY <1>2, <1>10, <2>2 DEF ReceiptFits
  <2>4. /\ row.registered = binding[b].registered /\ row.cursor = d
        /\ row.cursorRevision = binding[b].cursorRevision + 1 /\ row.latest = n
        /\ row.pending = files.open /\ row.revision = binding[b].revision + 1
        /\ row.created = binding[b].created /\ row.updated = now
        /\ row \in BindingRecords
    <3> DEFINE s == mem[p].snap.cursorRevision + 1
               t == mem[p].snap.revision + 1
               o == files.open
    <3>1. /\ s \in Nat /\ t \in Nat /\ s = binding[b].cursorRevision + 1
          /\ t = binding[b].revision + 1 /\ o \in Nat
      <4>1. /\ mem[p].snap.cursorRevision = binding[b].cursorRevision
            /\ mem[p].snap.revision = binding[b].revision
        BY <1>2
      <4>2. binding[b].cursorRevision \in Nat /\ binding[b].revision \in Nat
        BY <1>3
      <4>3. o \in Nat
        BY <1>7
      <4> QED  BY <4>1, <4>2, <4>3
    <3>2. row = [binding[b] EXCEPT !.cursor = d, !.cursorRevision = s, !.latest = n,
                                   !.pending = o, !.revision = t, !.updated = now]
      OBVIOUS
    <3> HIDE DEF s, t, o, row
    <3> DEFINE e == binding[b]
    <3>3. /\ e \in BindingRecords
          /\ row = [e EXCEPT !.cursor = d, !.cursorRevision = s, !.latest = n,
                             !.pending = o, !.revision = t, !.updated = now]
          /\ d \in Cursors /\ n \in Nat
      BY <1>2, <1>3, <3>2
    <3> HIDE DEF e
    <3>4. /\ row \in BindingRecords
          /\ row.registered = e.registered /\ row.cursor = d /\ row.cursorRevision = s
          /\ row.latest = n /\ row.pending = o /\ row.revision = t
          /\ row.created = e.created /\ row.updated = now
      BY <3>1, <3>3 DEF BindingRecords
    <3> QED  BY <3>1, <3>4 DEF e, o
  <2> HIDE DEF new, row, fresh
  <2>5. RowFits(b, row, d, n, files.open, now)
    BY <1>2, <2>4 DEF RowFits
  <2>6. Append(receipt[b], new) \in Seq(ReceiptRecords)
    BY <1>3, <2>2, AppendedTo
  <2>7. /\ binding' \in [Bindings -> BindingRecords]
        /\ receipt' \in [Bindings -> Seq(ReceiptRecords)]
        /\ observation' \in [Bindings -> Seq(ObservationRecords)]
        /\ group' \in [Bindings -> Seq(GroupRecords)]
    <3>1. /\ binding \in [Bindings -> BindingRecords]
          /\ receipt \in [Bindings -> Seq(ReceiptRecords)]
          /\ observation \in [Bindings -> Seq(ObservationRecords)]
          /\ group \in [Bindings -> Seq(GroupRecords)]
      BY <1>1 DEF TypeOK
    <3> QED  BY <1>7, <1>10, <2>4, <2>6, <3>1, Zenon
  <2>8. /\ binding'[b] = row /\ receipt'[b] = Append(receipt[b], new)
        /\ observation'[b] = files.seen /\ group'[b] = files.groups
    BY <1>1, <1>10 DEF TypeOK
  <2>9. \A x \in Bindings \ {b} : /\ binding'[x] = binding[x] /\ receipt'[x] = receipt[x]
                                  /\ observation'[x] = observation[x] /\ group'[x] = group[x]
    BY <1>1, <1>10 DEF TypeOK
  <2>10. RowsSound(b)' /\ EvidenceOf(b)'
    <3>1. ReceiptFits(b, new, d, now, Len(files.seen) - Len(observation[b]))
      BY <2>3 DEF fresh
    <3>2. n = Len(receipt[b]) + 1
      BY DEF n
    <3> QED  BY <1>1, <1>2, <1>4, <1>5, <2>2, <2>5, <2>8, <3>1, <3>2, EvidenceGrows
  <2>11. binding'[b].registered = binding[b].registered /\ binding'[b].revision >= binding[b].revision
    BY <1>3, <2>4, <2>8
  <2>12. ASSUME NEW x \in Bindings
         PROVE  /\ RowsSound(x)' /\ EvidenceOf(x)'
                /\ binding'[x].registered = binding[x].registered
                /\ binding'[x].revision >= binding[x].revision
    <3>1. CASE x = b
      BY <2>10, <2>11, <3>1
    <3>2. CASE x # b
      BY <1>8, <2>9, <3>2
    <3> QED  BY <3>1, <3>2
  <2> QED  BY <2>7, <2>9, <2>12
<1> QED  BY <1>6, <1>9, <1>10

-----------------------------------------------------------------------------
(* Authority and the pages that are being fetched *)

FetchOf(p) ==
    /\ pc[p] \in {"snapshot", "poll", "persist"} =>
        /\ p \in Ingesters /\ mem[p].at \in Bindings
        /\ binding[mem[p].at].registered
    /\ pc[p] = "snapshot" => ~mem[p].revoked
    /\ pc[p] \in {"poll", "persist"} => SnapshotSound(p)
    /\ pc[p] = "persist" => PageSound(p)

LEMMA FetchByProcess == FetchSound <=> \A p \in Processes : FetchOf(p)
BY DEF FetchSound, FetchOf

\* Authority only moves on.
Onward ==
    /\ epoch' \in Nat \X Nat /\ epoch'[1] >= epoch[1] /\ epoch'[2] >= epoch[2]
    /\ \A b \in Bindings : /\ binding'[b].revision \in Nat
                           /\ binding'[b].revision >= binding[b].revision
                           /\ binding[b].registered => binding'[b].registered

\* A snapshot stays sound, and is marked when authority changed.
LEMMA SnapshotKept ==
    ASSUME TypeOK, NEW p \in Processes, mem[p].at \in Bindings, SnapshotSound(p), Onward,
           mem'[p].at = mem[p].at, mem'[p].snap = mem[p].snap,
           mem'[p].revoked => \/ mem[p].revoked
                              \/ epoch'[1] > epoch[1] \/ epoch'[2] > epoch[2]
                              \/ binding'[mem[p].at].revision > binding[mem[p].at].revision
    PROVE  SnapshotSound(p)'
<1> DEFINE s  == mem[p].snap
           b  == mem[p].at
           e1 == epoch'[1]
           e2 == epoch'[2]
           rb == binding'[b].revision
<1>1. /\ s.epoch[1] \in Nat /\ s.epoch[2] \in Nat /\ s.revision \in Nat
      /\ epoch[1] \in Nat /\ epoch[2] \in Nat /\ binding[b].revision \in Nat
  <2>1. mem[p] \in MemRecords /\ epoch \in Nat \X Nat
    BY DEF TypeOK
  <2>2. s \in Snapshots
    BY <2>1 DEF MemRecords
  <2>3. s.epoch \in Nat \X Nat /\ s.revision \in Nat
    BY <2>2 DEF Snapshots
  <2>4. binding[b].revision \in Nat
    BY Rows
  <2> QED  BY <2>1, <2>3, <2>4
<1>2. /\ e1 \in Nat /\ e2 \in Nat /\ rb \in Nat
      /\ e1 >= epoch[1] /\ e2 >= epoch[2] /\ rb >= binding[b].revision
  BY DEF Onward
<1>3. /\ s.epoch[1] <= epoch[1] /\ s.epoch[2] <= epoch[2] /\ s.revision <= binding[b].revision
      /\ mem[p].revoked => \/ s.epoch[1] < epoch[1] \/ s.epoch[2] < epoch[2]
                           \/ s.revision < binding[b].revision
      /\ s.cursor # NoCursor => s.cursor.offset <= Len(Content[s.cursor.fixture])
  BY DEF SnapshotSound
<1>4. mem'[p].revoked => \/ mem[p].revoked \/ e1 > epoch[1] \/ e2 > epoch[2]
                         \/ rb > binding[b].revision
  OBVIOUS
<1>5. ASSUME NEW x \in Nat, NEW y \in Nat, NEW z \in Nat, x <= y, z >= y
      PROVE  x <= z /\ ((x < y \/ z > y) => x < z)
  BY <1>5
<1> HIDE DEF e1, e2, rb
<1>6. s.epoch[1] <= e1 /\ ((s.epoch[1] < epoch[1] \/ e1 > epoch[1]) => s.epoch[1] < e1)
  <2>1. /\ s.epoch[1] \in Nat /\ epoch[1] \in Nat /\ e1 \in Nat
        /\ s.epoch[1] <= epoch[1] /\ e1 >= epoch[1]
    BY <1>1, <1>2, <1>3
  <2> QED  BY <2>1, <1>5, Zenon
<1>7. s.epoch[2] <= e2 /\ ((s.epoch[2] < epoch[2] \/ e2 > epoch[2]) => s.epoch[2] < e2)
  <2>1. /\ s.epoch[2] \in Nat /\ epoch[2] \in Nat /\ e2 \in Nat
        /\ s.epoch[2] <= epoch[2] /\ e2 >= epoch[2]
    BY <1>1, <1>2, <1>3
  <2> QED  BY <2>1, <1>5, Zenon
<1>8. s.revision <= rb /\ ((s.revision < binding[b].revision \/ rb > binding[b].revision) => s.revision < rb)
  <2>1. /\ s.revision \in Nat /\ binding[b].revision \in Nat /\ rb \in Nat
        /\ s.revision <= binding[b].revision /\ rb >= binding[b].revision
    BY <1>1, <1>2, <1>3
  <2> QED  BY <2>1, <1>5, Zenon
<1>9. mem'[p].revoked => s.epoch[1] < e1 \/ s.epoch[2] < e2 \/ s.revision < rb
  BY <1>3, <1>4, <1>6, <1>7, <1>8, Zenon
<1> QED  BY <1>3, <1>6, <1>7, <1>8, <1>9 DEF SnapshotSound, e1, e2, rb

\* The process itself does nothing.
LEMMA FetchStays ==
    ASSUME TypeOK, NEW p \in Processes, FetchOf(p), Onward, pc'[p] = pc[p], mem'[p] = mem[p]
    PROVE  FetchOf(p)'
<1>1. PageSound(p) => PageSound(p)'
  BY DEF PageSound
<1>2. ASSUME mem[p].at \in Bindings, SnapshotSound(p) PROVE SnapshotSound(p)'
  <2>1. mem'[p].at = mem[p].at /\ mem'[p].snap = mem[p].snap /\ (mem'[p].revoked => mem[p].revoked)
    OBVIOUS
  <2> QED  BY <1>2, <2>1, SnapshotKept
<1>3. pc[p] \in {"snapshot", "poll", "persist"} =>
          p \in Ingesters /\ mem[p].at \in Bindings /\ binding[mem[p].at].registered
  BY DEF FetchOf
<1>4. pc[p] \in {"snapshot", "poll", "persist"} => binding'[mem[p].at].registered
  BY <1>3 DEF Onward
<1> QED  BY <1>1, <1>2, <1>3, <1>4 DEF FetchOf

\* A change of authority that shows, and is marked.
LEMMA FetchRevoked ==
    ASSUME TypeOK, NEW p \in Processes, FetchOf(p), Onward, pc'[p] = pc[p],
           pc[p] \in {"poll", "persist"}, mem'[p] = [mem[p] EXCEPT !.revoked = TRUE],
           \/ epoch'[1] > epoch[1] \/ epoch'[2] > epoch[2]
           \/ binding'[mem[p].at].revision > binding[mem[p].at].revision
    PROVE  FetchOf(p)'
<1>1. mem[p] \in MemRecords
  BY DEF TypeOK
<1>2. /\ mem'[p].at = mem[p].at /\ mem'[p].snap = mem[p].snap
      /\ mem'[p].page = mem[p].page /\ mem'[p].next = mem[p].next
  BY <1>1 DEF MemRecords
<1>3. PageSound(p) => PageSound(p)'
  BY <1>2 DEF PageSound
<1>4. p \in Ingesters /\ mem[p].at \in Bindings /\ binding[mem[p].at].registered /\ SnapshotSound(p)
  BY DEF FetchOf
<1>5. SnapshotSound(p)'
  BY <1>2, <1>4, SnapshotKept
<1> QED  BY <1>2, <1>3, <1>4, <1>5 DEF FetchOf, Onward

\* The process leaves its work.
LEMMA FetchLeft ==
    ASSUME NEW p, pc'[p] \notin {"snapshot", "poll", "persist"}
    PROVE  FetchOf(p)'
BY DEF FetchOf

\* What a step of p leaves of the places and memories of the others.
Others(p) == /\ \A q \in Processes \ {p} : pc'[q] = pc[q] /\ mem'[q] = mem[q]

LEMMA FetchesKept ==
    ASSUME TypeOK, FetchSound, Onward, NEW p \in Processes, Others(p), FetchOf(p)'
    PROVE  FetchSound'
<1>1. ASSUME NEW q \in Processes PROVE FetchOf(q)'
  <2>1. CASE q = p
    BY <2>1
  <2>2. CASE q # p
    BY <2>2, FetchByProcess, FetchStays DEF Others
  <2> QED  BY <2>1, <2>2
<1>2. FetchSound' <=> \A q \in Processes : FetchOf(q)'
  BY DEF FetchSound, FetchOf
<1> QED  BY <1>1, <1>2

\* Nothing but processes moved.
LEMMA SameOnward ==
    ASSUME TypeOK, epoch' = epoch, binding' = binding
    PROVE  Onward
<1>1. epoch \in Nat \X Nat /\ \A b \in Bindings : binding[b].revision \in Nat
  BY Rows DEF TypeOK
<1> QED  BY <1>1 DEF Onward

LEMMA SameEvidence ==
    ASSUME Invariant, UNCHANGED <<binding, receipt, observation>>,
           group' \in [Bindings -> Seq(GroupRecords)],
           \A b \in Bindings : DOMAIN group'[b] = DOMAIN group[b]
    PROVE  \A b \in Bindings : RowsSound(b)' /\ EvidenceOf(b)'
<1> SUFFICES ASSUME NEW b \in Bindings PROVE RowsSound(b)' /\ EvidenceOf(b)'
  OBVIOUS
<1>1. TypeOK /\ RowsSound(b) /\ EvidenceOf(b)
  BY EvidenceByBinding DEF Invariant
<1>2. RowsSound(b)'
  <2>1. group[b] \in Seq(GroupRecords) /\ group'[b] \in Seq(GroupRecords)
    BY <1>1, Rows
  <2>2. DOMAIN group'[b] = DOMAIN group[b]
    OBVIOUS
  <2>3. group[b] = <<>> => group'[b] = <<>>
    BY <2>1, <2>2
  <2> QED  BY <1>1, <2>2, <2>3 DEF RowsSound
<1>3. EvidenceOf(b)'
  <2>1. binding[b].revision \in Nat /\ binding[b].updated \in Nat
    BY <1>1, Rows
  <2>2. /\ binding'[b].cursor = binding[b].cursor /\ binding'[b].latest = binding[b].latest
        /\ binding'[b].cursorRevision = binding[b].cursorRevision
        /\ binding'[b].revision \in Nat /\ binding'[b].revision >= binding[b].revision
        /\ binding'[b].updated \in Nat
        /\ binding'[b].created = binding[b].created /\ binding'[b].updated >= binding[b].updated
    BY <2>1
  <2> QED  BY <1>1, <2>2, EvidenceStays
<1> QED  BY <1>2, <1>3

-----------------------------------------------------------------------------
(* Steps of a process that leave rows and wakes alone *)

Places == {"idle", "snapshot", "poll", "persist", "ready", "cycle", "closing"}

LEMMA Blank == NoMem \in MemRecords
<1>1. NoSnap \in Snapshots
  BY DEF NoSnap, Snapshots, Statuses
<1>2. <<>> \in Seq(Items)
  OBVIOUS
<1> QED  BY <1>1, <1>2 DEF NoMem, MemRecords

LEMMA Memory ==
    ASSUME TypeOK, NEW p \in Processes
    PROVE  /\ mem[p] \in MemRecords /\ mem[p].at \in Bindings \cup {NoBinding}
           /\ mem[p].started \in Nat /\ mem[p].snap \in Snapshots
           /\ mem[p].snap.cursor \in Cursors \cup {NoCursor} /\ mem[p].observed \in Nat
           /\ mem[p].next \in Cursors \cup {NoCursor} /\ mem[p].page \in Seq(Items)
           /\ mem[p].revoked \in BOOLEAN
<1>1. mem[p] \in MemRecords
  BY DEF TypeOK
<1>2. /\ mem[p].at \in Bindings \cup {NoBinding}
      /\ mem[p].started \in Nat /\ mem[p].snap \in Snapshots /\ mem[p].observed \in Nat
      /\ mem[p].next \in Cursors \cup {NoCursor} /\ mem[p].page \in Seq(Items)
      /\ mem[p].revoked \in BOOLEAN
  BY <1>1 DEF MemRecords
<1>3. mem[p].snap.cursor \in Cursors \cup {NoCursor}
  BY <1>2 DEF Snapshots
<1> QED  BY <1>1, <1>2, <1>3

LEMMA Instant ==
    ASSUME TypeOK, NEW p \in Processes, NEW now \in Instants(p)
    PROVE  now \in Nat
<1>1. mem[p].started \in Nat /\ Now(p) \in Nat
  BY Memory, Clocks
<1> QED  BY <1>1 DEF Instants

LEMMA Moved ==
    ASSUME TypeOK, NEW p \in Processes, NEW place \in Places, NEW m \in MemRecords,
           Goto(p, place), mem' = [mem EXCEPT ![p] = m]
    PROVE  /\ pc' \in [Processes -> Places] /\ mem' \in [Processes -> MemRecords]
           /\ pc'[p] = place /\ mem'[p] = m /\ Others(p)
<1>1. pc \in [Processes -> Places] /\ mem \in [Processes -> MemRecords]
  BY DEF TypeOK, Places
<1> QED  BY <1>1 DEF Goto, Others

LEMMA MovedOnly ==
    ASSUME TypeOK, NEW p \in Processes, NEW place \in Places, Goto(p, place), mem' = mem
    PROVE  /\ pc' \in [Processes -> Places] /\ mem' \in [Processes -> MemRecords]
           /\ pc'[p] = place /\ mem'[p] = mem[p] /\ Others(p)
<1>1. pc \in [Processes -> Places] /\ mem \in [Processes -> MemRecords]
  BY DEF TypeOK, Places
<1> QED  BY <1>1 DEF Goto, Others

LEMMA BoundsTyped ==
    ASSUME TypeOK, Fault \/ UNCHANGED bounds
    PROVE  faults' \in Nat /\ adminSteps' \in Nat
BY DEF TypeOK, Fault, bounds

LEMMA InvariantNext ==
    ASSUME TypeOK', FetchSound', \A b \in Bindings : RowsSound(b)' /\ EvidenceOf(b)'
    PROVE  Invariant'
<1>1. CheckpointMatchesEvidence' <=> \A b \in Bindings : EvidenceOf(b)'
  BY DEF CheckpointMatchesEvidence, EvidenceOf, Delivered, ToldIn, Told, Elements, Read, OnceEach,
         ReceiptSound, NewOf
<1> QED  BY <1>1 DEF Invariant

LEMMA QuietKeeps ==
    ASSUME Invariant, UNCHANGED <<clock, authority, source, ingress, attention>>,
           owner' \in Processes \cup {NoProcess}, pc' \in [Processes -> Places],
           mem' \in [Processes -> MemRecords], Fault \/ UNCHANGED bounds, FetchSound'
    PROVE  Invariant'
<1>1. TypeOK
  BY DEF Invariant
<1>2. TypeOK'
  <2>1. faults' \in Nat /\ adminSteps' \in Nat
    BY <1>1, BoundsTyped
  <2>2. UNCHANGED <<clock, operational, inferenceBlocked, epoch, source, binding, receipt,
                    observation, group, ordinary, cycles, anchor>>
    BY DEF authority, ingress, attention
  <2> QED  BY <1>1, <2>1, <2>2 DEF TypeOK, Places
<1>3. UNCHANGED <<binding, receipt, observation, group>>
  BY DEF ingress, attention
<1>4. group' \in [Bindings -> Seq(GroupRecords)]
  BY <1>1, <1>3 DEF TypeOK
<1>5. \A b \in Bindings : RowsSound(b)' /\ EvidenceOf(b)'
  BY <1>3, <1>4, SameEvidence
<1> QED  BY <1>2, <1>5, InvariantNext

\* A process that goes on to a place where no page is fetched.
LEMMA RestKeeps ==
    ASSUME Invariant, NEW p \in Processes, NEW place \in {"idle", "ready", "cycle", "closing"},
           NEW m \in MemRecords, Goto(p, place), mem' = [mem EXCEPT ![p] = m],
           UNCHANGED <<clock, authority, source, ingress, attention>>,
           owner' \in Processes \cup {NoProcess}, Fault \/ UNCHANGED bounds
    PROVE  Invariant'
<1>1. TypeOK /\ FetchSound /\ place \in Places
  BY DEF Invariant, Places
<1>2. /\ pc' \in [Processes -> Places] /\ mem' \in [Processes -> MemRecords]
      /\ pc'[p] = place /\ Others(p)
  BY <1>1, Moved
<1>3. FetchOf(p)'
  BY <1>2, FetchLeft
<1>4. Onward
  BY <1>1, SameOnward DEF authority, ingress
<1>5. FetchSound'
  BY <1>1, <1>2, <1>3, <1>4, FetchesKept
<1> QED  BY <1>2, <1>5, QuietKeeps

LEMMA SameMemory ==
    ASSUME TypeOK, NEW p \in Processes, mem' = mem
    PROVE  mem' = [mem EXCEPT ![p] = mem[p]] /\ mem[p] \in MemRecords
BY DEF TypeOK

LEMMA LeaveKeeps ==
    ASSUME Invariant, NEW p \in Processes, Leave(p),
           UNCHANGED <<clock, authority, source, ingress, attention>>, Fault \/ UNCHANGED bounds
    PROVE  Invariant'
<1>1. /\ Goto(p, "closing") /\ mem' = [mem EXCEPT ![p] = NoMem]
      /\ owner' \in Processes \cup {NoProcess}
  BY DEF Leave, Invariant, TypeOK
<1> QED  BY <1>1, Blank, RestKeeps

LEMMA GoneKeeps ==
    ASSUME Invariant, NEW p \in Processes, Gone(p), Fault \/ UNCHANGED bounds
    PROVE  Invariant'
<1>1. /\ Goto(p, "idle") /\ mem' = [mem EXCEPT ![p] = NoMem]
      /\ owner' \in Processes \cup {NoProcess}
      /\ UNCHANGED <<clock, authority, source, ingress, attention>>
  BY DEF Gone, Invariant, TypeOK
<1> QED  BY <1>1, Blank, RestKeeps

LEMMA CloseKeeps ==
    ASSUME Invariant, NEW p \in Processes, Close(p)
    PROVE  Invariant'
<1>1. TypeOK
  BY DEF Invariant
<1>2. /\ Goto(p, "idle") /\ mem' = mem /\ owner' \in Processes \cup {NoProcess}
      /\ UNCHANGED <<clock, authority, source, ingress, attention>> /\ UNCHANGED bounds
  BY DEF Close
<1>3. mem' = [mem EXCEPT ![p] = mem[p]] /\ mem[p] \in MemRecords
  BY <1>1, <1>2, SameMemory
<1> QED  BY <1>2, <1>3, RestKeeps

\* Nobody moves.
LEMMA FetchesStay ==
    ASSUME TypeOK, FetchSound, Onward, pc' = pc, mem' = mem
    PROVE  FetchSound'
<1>1. ASSUME NEW q \in Processes PROVE FetchOf(q)'
  BY FetchByProcess, FetchStays
<1>2. FetchSound' <=> \A q \in Processes : FetchOf(q)'
  BY DEF FetchSound, FetchOf
<1> QED  BY <1>1, <1>2

LEMMA SessionKeeps ==
    ASSUME Invariant, SessionLost \/ Reap
    PROVE  Invariant'
<1>1. TypeOK /\ FetchSound
  BY DEF Invariant
<1>2. /\ UNCHANGED <<clock, authority, source, ingress, attention>> /\ pc' = pc /\ mem' = mem
      /\ owner' \in Processes \cup {NoProcess} /\ (Fault \/ UNCHANGED bounds)
  BY DEF SessionLost, Reap, SessionEnds
<1>3. Onward
  BY <1>1, <1>2, SameOnward DEF authority, ingress
<1>4. FetchSound'
  BY <1>1, <1>2, <1>3, FetchesStay
<1>5. pc' \in [Processes -> Places] /\ mem' \in [Processes -> MemRecords]
  BY <1>1, <1>2 DEF TypeOK, Places
<1> QED  BY <1>2, <1>4, <1>5, QuietKeeps

LEMMA AcquireKeeps ==
    ASSUME Invariant, NEW p \in Processes, Acquire(p)
    PROVE  Invariant'
<1>1. TypeOK /\ FetchSound
  BY DEF Invariant
<1>2. /\ owner' \in Processes \cup {NoProcess} /\ UNCHANGED bounds
      /\ UNCHANGED <<clock, authority, source, ingress, attention>>
  BY DEF Acquire
<1>3. CASE p \in Ingesters /\ Goto(p, "snapshot")
           /\ \E b \in {x \in Bindings : binding[x].registered} :
                  mem' = [mem EXCEPT ![p] = [NoMem EXCEPT !.at = b]]
  <2>1. PICK b \in Bindings : /\ binding[b].registered
                              /\ mem' = [mem EXCEPT ![p] = [NoMem EXCEPT !.at = b]]
    BY <1>3
  <2> DEFINE m == [NoMem EXCEPT !.at = b]
  <2>2. m \in MemRecords
    BY Blank DEF MemRecords
  <2>3. m.at = b /\ m.revoked = FALSE
    BY DEF NoMem
  <2> HIDE DEF m
  <2>4. "snapshot" \in Places
    BY DEF Places
  <2>5. /\ pc' \in [Processes -> Places] /\ mem' \in [Processes -> MemRecords]
        /\ pc'[p] = "snapshot" /\ mem'[p] = m /\ Others(p)
    BY <1>1, <1>3, <2>1, <2>2, <2>4, Moved DEF m
  <2>6. binding' = binding /\ epoch' = epoch
    BY <1>2 DEF ingress, authority
  <2>7. FetchOf(p)'
    BY <1>3, <2>1, <2>3, <2>5, <2>6 DEF FetchOf
  <2>8. Onward
    BY <1>1, <2>6, SameOnward
  <2>9. FetchSound'
    BY <1>1, <2>5, <2>7, <2>8, FetchesKept
  <2> QED  BY <1>2, <2>5, <2>9, QuietKeeps
<1>4. CASE Goto(p, "ready") /\ mem' = [mem EXCEPT ![p] = [NoMem EXCEPT !.started = Now(p)]]
  <2> DEFINE t == Now(p)
             m == [NoMem EXCEPT !.started = t]
  <2>1. t \in Nat
    BY <1>1, Clocks
  <2> HIDE DEF t
  <2>2. m \in MemRecords
    BY <2>1, Blank DEF MemRecords
  <2> HIDE DEF m
  <2>3. mem' = [mem EXCEPT ![p] = m]
    BY <1>4 DEF m, t
  <2> QED  BY <1>2, <1>4, <2>2, <2>3, RestKeeps
<1> QED  BY <1>3, <1>4 DEF Acquire

LEMMA SnapshotKeeps ==
    ASSUME Invariant, NEW p \in Processes, Snapshot(p)
    PROVE  Invariant'
<1>1. TypeOK /\ FetchSound
  BY DEF Invariant
<1>2. /\ UNCHANGED <<clock, authority, source, ingress, attention>> /\ UNCHANGED bounds
      /\ pc[p] = "snapshot"
  BY DEF Snapshot, Owns
<1>3. CASE Leave(p)
  BY <1>2, <1>3, LeaveKeeps
<1>4. ASSUME NEW b \in Bindings, b = mem[p].at, mem' = [mem EXCEPT ![p].snap = Snap(b)],
             Goto(p, "poll"), UNCHANGED owner
      PROVE  Invariant'
  <2> DEFINE s == Snap(b)
             m == [mem[p] EXCEPT !.snap = s]
  <2>1. p \in Ingesters /\ binding[b].registered /\ ~mem[p].revoked /\ RowsSound(b)
    BY <1>2, <1>4 DEF Invariant, FetchSound
  <2>2. /\ binding[b].enabled \in BOOLEAN /\ binding[b].cursor \in Cursors \cup {NoCursor}
        /\ binding[b].cursorRevision \in Nat /\ binding[b].revision \in Nat
        /\ epoch \in Nat \X Nat /\ operational \in Statuses
    BY <1>1, Rows DEF TypeOK
  <2>3. s \in Snapshots
    BY <2>2 DEF Snap, Snapshots
  <2>4. s.epoch = epoch /\ s.revision = binding[b].revision /\ s.cursor = binding[b].cursor
    BY DEF Snap
  <2>5. mem[p] \in MemRecords
    BY <1>1, Memory
  <2>6. mem' = [mem EXCEPT ![p] = m]
    BY <1>4
  <2> HIDE DEF s
  <2>7. m \in MemRecords /\ m.snap = s /\ m.at = mem[p].at /\ m.revoked = mem[p].revoked
    BY <2>3, <2>5 DEF MemRecords
  <2> HIDE DEF m
  <2>8. "poll" \in Places
    BY DEF Places
  <2>9. /\ pc' \in [Processes -> Places] /\ mem' \in [Processes -> MemRecords]
        /\ pc'[p] = "poll" /\ mem'[p] = m /\ Others(p)
    BY <1>1, <1>4, <2>6, <2>7, <2>8, Moved
  <2>10. binding' = binding /\ epoch' = epoch
    BY <1>2 DEF ingress, authority
  <2>11. SnapshotSound(p)'
    <3>1. s.cursor # NoCursor => s.cursor.offset <= Len(Content[s.cursor.fixture])
      BY <2>1, <2>4 DEF RowsSound
    <3>2. /\ epoch[1] \in Nat /\ epoch[2] \in Nat /\ binding[b].revision \in Nat
          /\ s.epoch[1] <= epoch[1] /\ s.epoch[2] <= epoch[2]
          /\ s.revision <= binding[b].revision
      BY <2>2, <2>4
    <3>3. ~mem'[p].revoked /\ mem'[p].snap = s /\ mem'[p].at = b
      BY <1>4, <2>1, <2>7, <2>9
    <3> QED  BY <2>10, <3>1, <3>2, <3>3 DEF SnapshotSound
  <2>12. FetchOf(p)'
    BY <1>4, <2>1, <2>7, <2>9, <2>10, <2>11 DEF FetchOf
  <2>13. Onward
    BY <1>1, <2>10, SameOnward
  <2>14. FetchSound'
    BY <1>1, <2>9, <2>12, <2>13, FetchesKept
  <2>15. owner' \in Processes \cup {NoProcess}
    BY <1>1, <1>4 DEF TypeOK
  <2> QED  BY <1>2, <2>9, <2>14, <2>15, QuietKeeps
<1>5. mem[p].at \in Bindings
  BY <1>2 DEF Invariant, FetchSound
<1> QED  BY <1>3, <1>4, <1>5 DEF Snapshot

\* connectors/local_json.py: a page and the cursor behind it.
LEMMA Paged ==
    ASSUME NEW f \in Fixtures, NEW c \in Cursors \cup {NoCursor}, c # NoCursor => c.fixture = f,
           NEW m \in PageEnds(f, Offset(c))
    PROVE  /\ NextCursor(f, m, c) \in Cursors
           /\ NextCursor(f, m, c).fixture = f /\ NextCursor(f, m, c).offset = m
           /\ Offset(c) \in Nat /\ Offset(c) <= m /\ m <= Len(Content[f]) /\ m \in Nat
           /\ SubSeq(Content[f], Offset(c) + 1, m) \in Seq(Items)
<1>1. Offset(c) \in Nat /\ Content[f] \in Seq(Items) /\ MaxPageItems \in Nat
  BY SourceAssumption, LimitAssumption DEF Offset, Cursors
<1>2. Offset(c) <= m /\ m <= Len(Content[f]) /\ m \in Nat
  BY <1>1 DEF PageEnds
<1>3. /\ NextCursor(f, m, c) \in Cursors
      /\ NextCursor(f, m, c).fixture = f /\ NextCursor(f, m, c).offset = m
  BY <1>1, <1>2 DEF NextCursor, Cursors, Offset
<1>4. SubSeq(Content[f], Offset(c) + 1, m) \in Seq(Items)
  <2> DEFINE a == Offset(c) + 1
             s == Content[f]
  <2>1. a \in Nat \ {0} /\ a <= m + 1
    BY <1>1, <1>2
  <2> HIDE DEF a, s
  <2>2. s \in Seq(Items) /\ m \in Nat /\ m <= Len(s)
    BY <1>1, <1>2 DEF s
  <2> QED  BY <2>1, <2>2, Stretch DEF a, s
<1> QED  BY <1>1, <1>2, <1>3, <1>4

LEMMA PollKeeps ==
    ASSUME Invariant, NEW p \in Processes, Poll(p)
    PROVE  Invariant'
<1>1. TypeOK /\ FetchSound
  BY DEF Invariant
<1> DEFINE f == source[mem[p].at]
           c == mem[p].snap.cursor
<1>2. /\ UNCHANGED <<clock, authority, source, ingress, attention, owner, bounds>>
      /\ pc[p] = "poll" /\ Goto(p, "persist")
      /\ c # NoCursor => c.fixture = f
      /\ \E m \in PageEnds(f, Offset(c)) :
            mem' = [mem EXCEPT ![p].page = SubSeq(Content[f], Offset(c) + 1, m),
                               ![p].next = NextCursor(f, m, c),
                               ![p].observed = Now(p)]
  BY DEF Poll
<1>3. /\ p \in Ingesters /\ mem[p].at \in Bindings /\ binding[mem[p].at].registered
      /\ SnapshotSound(p)
  BY <1>1, <1>2 DEF FetchSound
<1>4. f \in Fixtures /\ c \in Cursors \cup {NoCursor} /\ mem[p] \in MemRecords /\ Now(p) \in Nat
  BY <1>1, <1>3, Memory, Clocks DEF TypeOK
<1>5. PICK m \in PageEnds(f, Offset(c)) :
          mem' = [mem EXCEPT ![p].page = SubSeq(Content[f], Offset(c) + 1, m),
                             ![p].next = NextCursor(f, m, c),
                             ![p].observed = Now(p)]
  BY <1>2
<1> DEFINE page == SubSeq(Content[f], Offset(c) + 1, m)
           d    == NextCursor(f, m, c)
           t    == Now(p)
           new  == [mem[p] EXCEPT !.page = page, !.next = d, !.observed = t]
<1>6. /\ d \in Cursors /\ d.fixture = f /\ d.offset = m
      /\ Offset(c) <= m /\ m <= Len(Content[f]) /\ page \in Seq(Items)
  <2> HIDE DEF f, c
  <2> QED  BY <1>2, <1>4, Paged
<1>7. page = SubSeq(Content[f], Offset(c) + 1, m)
  OBVIOUS
<1>8. mem' = [mem EXCEPT ![p] = new]
  <2>1. mem \in [Processes -> MemRecords]
    BY <1>1 DEF TypeOK
  <2>2. mem' = [mem EXCEPT ![p].page = page, ![p].next = d, ![p].observed = t]
    BY <1>5
  <2> HIDE DEF page, d, t
  <2> QED  BY <2>1, <2>2
<1>9. t \in Nat
  BY <1>4
<1> HIDE DEF page, d, t
<1>10. /\ new \in MemRecords /\ new.page = page /\ new.next = d /\ new.at = mem[p].at
       /\ new.snap = mem[p].snap /\ new.revoked = mem[p].revoked
  BY <1>4, <1>6, <1>9 DEF MemRecords
<1> HIDE DEF new
<1>11. "persist" \in Places
  BY DEF Places
<1>12. /\ pc' \in [Processes -> Places] /\ mem' \in [Processes -> MemRecords]
       /\ pc'[p] = "persist" /\ mem'[p] = new /\ Others(p)
  BY <1>1, <1>2, <1>8, <1>10, <1>11, Moved
<1>13. binding' = binding /\ epoch' = epoch /\ owner' = owner
  BY <1>2 DEF ingress, authority
<1>14. Onward
  BY <1>1, <1>13, SameOnward
<1>15. SnapshotSound(p)'
  <2>1. /\ mem'[p].at = mem[p].at /\ mem'[p].snap = mem[p].snap
        /\ mem'[p].revoked => mem[p].revoked
    BY <1>10, <1>12
  <2> QED  BY <1>1, <1>3, <1>14, <2>1, SnapshotKept
<1>16. PageSound(p)'
  <2>1. mem'[p].snap.cursor = c /\ mem'[p].next = d /\ mem'[p].page = page
    BY <1>10, <1>12
  <2> HIDE DEF c
  <2> QED  BY <1>2, <1>6, <1>7, <2>1 DEF PageSound
<1>17. FetchOf(p)'
  BY <1>3, <1>10, <1>12, <1>13, <1>15, <1>16 DEF FetchOf
<1>18. FetchSound'
  BY <1>1, <1>12, <1>14, <1>17, FetchesKept
<1>19. owner' \in Processes \cup {NoProcess}
  BY <1>1, <1>13 DEF TypeOK
<1>20. UNCHANGED <<clock, authority, source, ingress, attention>> /\ UNCHANGED bounds
  BY <1>2
<1> QED  BY <1>12, <1>18, <1>19, <1>20, QuietKeeps

LEMMA PersistKeeps ==
    ASSUME Invariant, NEW p \in Processes, Persist(p)
    PROVE  Invariant'
<1>1. TypeOK /\ FetchSound
  BY DEF Invariant
<1>2. /\ Owns(p, "persist") /\ Leave(p)
      /\ UNCHANGED <<clock, authority, source, ordinary, cycles, anchor, bounds>>
  BY DEF Persist
<1>3. PICK now \in mem[p].observed .. Now(p) :
          IF PersistAllowed(p, now) THEN Written(p, now) ELSE UNCHANGED <<ingress, group>>
  BY DEF Persist
<1>4. now \in Nat
  BY <1>1, Memory, Clocks
<1>5. CASE ~PersistAllowed(p, now)
  <2>1. UNCHANGED <<clock, authority, source, ingress, attention>> /\ UNCHANGED bounds
    BY <1>2, <1>3, <1>5 DEF attention
  <2> QED  BY <1>2, <2>1, LeaveKeeps
<1>6. CASE PersistAllowed(p, now)
  <2>1. mem[p].at \in Bindings
    BY <1>1, <1>2 DEF FetchSound, Owns
  <2>2. PICK b \in Bindings : b = mem[p].at
    BY <2>1
  <2>3. Written(p, now)
    BY <1>3, <1>6
  <2>4. /\ binding' \in [Bindings -> BindingRecords]
        /\ receipt' \in [Bindings -> Seq(ReceiptRecords)]
        /\ observation' \in [Bindings -> Seq(ObservationRecords)]
        /\ group' \in [Bindings -> Seq(GroupRecords)]
        /\ \A x \in Bindings : /\ RowsSound(x)' /\ EvidenceOf(x)'
                               /\ binding'[x].registered = binding[x].registered
                               /\ binding'[x].revision >= binding[x].revision
    BY <1>2, <1>4, <1>6, <2>2, <2>3, WrittenKeeps
  <2>5. /\ pc' \in [Processes -> Places] /\ mem' \in [Processes -> MemRecords]
        /\ pc'[p] = "closing" /\ Others(p)
    <3>1. Goto(p, "closing") /\ mem' = [mem EXCEPT ![p] = NoMem] /\ "closing" \in Places
      BY <1>2 DEF Leave, Places
    <3> QED  BY <1>1, <3>1, Blank, Moved
  <2>6. UNCHANGED <<clock, operational, inferenceBlocked, epoch, source, ordinary, cycles, anchor,
                    owner, faults, adminSteps>>
    BY <1>2 DEF authority, bounds, Leave
  <2>7. TypeOK'
    BY <1>1, <2>4, <2>5, <2>6 DEF TypeOK, Places
  <2>8. Onward
    <3>1. \A x \in Bindings : binding'[x].revision \in Nat
      BY <2>4 DEF BindingRecords
    <3>2. epoch \in Nat \X Nat
      BY <1>1 DEF TypeOK
    <3> QED  BY <2>4, <2>6, <3>1, <3>2 DEF Onward
  <2>9. FetchOf(p)'
    BY <2>5, FetchLeft
  <2>10. FetchSound'
    BY <1>1, <2>5, <2>8, <2>9, FetchesKept
  <2> QED  BY <2>4, <2>7, <2>10, InvariantNext
<1> QED  BY <1>5, <1>6

LEMMA IngestKeeps ==
    ASSUME Invariant, NEW p \in Processes, Ingest(p)
    PROVE  Invariant'
<1>1. CASE PollFails(p)
  <2>1. /\ Leave(p) /\ UNCHANGED <<clock, authority, source, ingress, attention>>
        /\ (Fault \/ UNCHANGED bounds)
    BY <1>1 DEF PollFails
  <2> QED  BY <2>1, LeaveKeeps
<1> QED  BY <1>1, SnapshotKeeps, PollKeeps, PersistKeeps DEF Ingest

-----------------------------------------------------------------------------
(* Steps of a runner *)

OrdinaryRows == [Ordinary -> [status : {"none", "pending", "claimed", "consumed"}, due : Nat]]

LEMMA RunnerKeeps ==
    ASSUME Invariant, NEW p \in Processes, NEW place \in {"idle", "ready", "cycle", "closing"},
           NEW m \in MemRecords, Goto(p, place), mem' = [mem EXCEPT ![p] = m],
           UNCHANGED <<clock, authority, source, receipt, observation, owner, bounds>>,
           binding' \in [Bindings -> BindingRecords], group' \in [Bindings -> Seq(GroupRecords)],
           ordinary' \in OrdinaryRows, cycles' \in Seq(CycleRecords), anchor' \in Nat, Onward,
           \A b \in Bindings : RowsSound(b)' /\ EvidenceOf(b)'
    PROVE  Invariant'
<1>1. TypeOK /\ FetchSound /\ place \in Places
  BY DEF Invariant, Places
<1>2. /\ pc' \in [Processes -> Places] /\ mem' \in [Processes -> MemRecords]
      /\ pc'[p] = place /\ Others(p)
  BY <1>1, Moved
<1>3. FetchOf(p)'
  BY <1>2, FetchLeft
<1>4. FetchSound'
  BY <1>1, <1>2, <1>3, FetchesKept
<1>5. UNCHANGED <<clock, operational, inferenceBlocked, epoch, source, receipt, observation,
                  owner, faults, adminSteps>>
  BY DEF authority, bounds
<1>6. TypeOK'
  BY <1>1, <1>2, <1>5 DEF TypeOK, Places, OrdinaryRows
<1> QED  BY <1>4, <1>6, InvariantNext

\* The rows of the bindings and their wakes are left alone.
LEMMA RunnerLeavesInbound ==
    ASSUME Invariant, NEW p \in Processes, NEW place \in {"idle", "ready", "cycle", "closing"},
           NEW m \in MemRecords, Goto(p, place), mem' = [mem EXCEPT ![p] = m],
           UNCHANGED <<clock, authority, source, ingress, group, owner, bounds>>,
           ordinary' \in OrdinaryRows, cycles' \in Seq(CycleRecords), anchor' \in Nat
    PROVE  Invariant'
<1>1. TypeOK
  BY DEF Invariant
<1>2. UNCHANGED <<binding, receipt, observation, group, epoch>>
  BY DEF ingress, authority
<1>3. binding' \in [Bindings -> BindingRecords] /\ group' \in [Bindings -> Seq(GroupRecords)]
  BY <1>1, <1>2 DEF TypeOK
<1>4. Onward
  BY <1>1, <1>2, SameOnward
<1>5. \A b \in Bindings : RowsSound(b)' /\ EvidenceOf(b)'
  BY <1>2, <1>3, SameEvidence
<1>6. UNCHANGED <<clock, authority, source, receipt, observation, owner, bounds>>
  BY <1>2
<1> QED  BY <1>3, <1>4, <1>5, <1>6, RunnerKeeps

LEMMA AnchorTyped ==
    ASSUME TypeOK, NEW now \in Nat, Anchored(now)
    PROVE  anchor' \in Nat
BY DEF TypeOK, Anchored

LEMMA ResumeKeeps ==
    ASSUME Invariant, NEW p \in Processes, Resume(p)
    PROVE  Invariant'
<1>1. TypeOK
  BY DEF Invariant
<1>2. /\ Goto(p, "cycle") /\ mem' = mem
      /\ UNCHANGED <<clock, authority, source, ingress, group, owner, bounds>>
      /\ ordinary' = ordinary /\ cycles' = cycles
      /\ \E now \in Instants(p) : Anchored(now)
  BY DEF Resume
<1>3. anchor' \in Nat
  BY <1>1, <1>2, Instant, AnchorTyped
<1>4. ordinary' \in OrdinaryRows /\ cycles' \in Seq(CycleRecords)
  BY <1>1, <1>2 DEF TypeOK, OrdinaryRows
<1>5. mem' = [mem EXCEPT ![p] = mem[p]] /\ mem[p] \in MemRecords
  BY <1>1, <1>2, SameMemory
<1> QED  BY <1>2, <1>3, <1>4, <1>5, RunnerLeavesInbound

LEMMA IdleKeeps ==
    ASSUME Invariant, NEW p \in Processes, Idle(p)
    PROVE  Invariant'
<1>1. TypeOK
  BY DEF Invariant
<1>2. /\ Goto(p, "closing") /\ mem' = [mem EXCEPT ![p] = NoMem]
      /\ UNCHANGED <<clock, authority, source, ingress, group, owner, bounds>>
      /\ ordinary' = ordinary /\ cycles' = cycles
      /\ \E now \in Instants(p) : Anchored(now)
  BY DEF Idle, Leave
<1>3. anchor' \in Nat
  BY <1>1, <1>2, Instant, AnchorTyped
<1>4. ordinary' \in OrdinaryRows /\ cycles' \in Seq(CycleRecords)
  BY <1>1, <1>2 DEF TypeOK, OrdinaryRows
<1> QED  BY <1>2, <1>3, <1>4, Blank, RunnerLeavesInbound

LEMMA CycleStarted ==
    ASSUME TypeOK, NEW p, NEW W \in SUBSET (Ordinary \cup (Bindings \X Nat)), NEW now \in Nat,
           StartCycle(p, W, now)
    PROVE  cycles' \in Seq(CycleRecords)
<1>1. [wakes |-> W, started |-> now, completed |-> Never] \in CycleRecords
  BY DEF CycleRecords, Never
<1>2. cycles \in Seq(CycleRecords)
  BY DEF TypeOK
<1>3. cycles' = Append(cycles, [wakes |-> W, started |-> now, completed |-> Never])
  BY DEF StartCycle
<1> QED  BY <1>1, <1>2, <1>3, AppendedTo

LEMMA ClaimBatchKeeps ==
    ASSUME Invariant, NEW p \in Processes, ClaimBatch(p)
    PROVE  Invariant'
<1>1. TypeOK
  BY DEF Invariant
<1>2. PICK now \in Instants(p) : \E w, B :
        /\ B \in Batches(now, w) /\ StartCycle(p, B, now)
        /\ ordinary' = [x \in Ordinary |->
                           IF x \in B THEN [ordinary[x] EXCEPT !.status = "claimed"]
                           ELSE ordinary[x]]
  BY DEF ClaimBatch
<1>3. PICK w, B :
        /\ B \in Batches(now, w) /\ StartCycle(p, B, now)
        /\ ordinary' = [x \in Ordinary |->
                           IF x \in B THEN [ordinary[x] EXCEPT !.status = "claimed"]
                           ELSE ordinary[x]]
  BY <1>2
<1>4. now \in Nat
  BY <1>1, Instant
<1>5. B \in SUBSET (Ordinary \cup (Bindings \X Nat))
  <2>1. B \in SUBSET DueOrdinary(now)
    BY <1>3 DEF Batches
  <2> QED  BY <2>1 DEF DueOrdinary
<1>6. cycles' \in Seq(CycleRecords)
  BY <1>1, <1>3, <1>4, <1>5, CycleStarted
<1>7. /\ Goto(p, "cycle") /\ mem' = mem /\ Anchored(now)
      /\ UNCHANGED <<clock, authority, source, receipt, observation, owner, bounds>>
  BY <1>3 DEF StartCycle
<1>8. UNCHANGED <<clock, authority, source, ingress, group, owner, bounds>>
  BY <1>7 DEF ClaimBatch, ingress
<1>9. ordinary' \in OrdinaryRows
  <2>1. ordinary \in OrdinaryRows
    BY <1>1 DEF TypeOK, OrdinaryRows
  <2> QED  BY <1>3, <2>1 DEF OrdinaryRows
<1>10. anchor' \in Nat
  BY <1>1, <1>4, <1>7, AnchorTyped
<1>11. mem' = [mem EXCEPT ![p] = mem[p]] /\ mem[p] \in MemRecords
  BY <1>1, <1>7, SameMemory
<1> QED  BY <1>6, <1>7, <1>8, <1>9, <1>10, <1>11, RunnerLeavesInbound

LEMMA GroupRow ==
    ASSUME TypeOK, NEW b \in Bindings, NEW n \in DOMAIN group[b]
    PROVE  /\ group[b][n] \in GroupRecords /\ n \in Nat
           /\ group[b][n].refs \in Seq(Nat) /\ group[b][n].created \in Nat
           /\ group[b][n].sealed \in Nat /\ group[b][n].claimed \in Nat
           /\ group[b][n].consumed \in Nat
<1>1. group[b] \in Seq(GroupRecords)
  BY Rows
<1>2. group[b][n] \in GroupRecords /\ n \in Nat
  BY <1>1
<1>3. \A g \in GroupRecords : /\ g.refs \in Seq(Nat) /\ g.created \in Nat /\ g.sealed \in Nat
                              /\ g.claimed \in Nat /\ g.consumed \in Nat
  BY DEF GroupRecords
<1> QED  BY <1>2, <1>3

LEMMA ClaimedTyped ==
    ASSUME NEW g \in GroupRecords, NEW now \in Nat
    PROVE  ClaimedGroup(g, now) \in GroupRecords
<1> DEFINE s == IF g.sealed = Never THEN now ELSE g.sealed
<1>1. s \in Nat
  BY DEF GroupRecords
<1>2. ClaimedGroup(g, now) = [g EXCEPT !.status = "claimed", !.claimed = now, !.sealed = s]
  BY DEF ClaimedGroup
<1> HIDE DEF s
<1> QED  BY <1>1, <1>2 DEF GroupRecords

LEMMA ClaimInboundKeeps ==
    ASSUME Invariant, NEW p \in Processes, ClaimInbound(p)
    PROVE  Invariant'
<1>1. TypeOK
  BY DEF Invariant
<1>2. PICK now \in Instants(p) : \E w \in InboundWakes :
        /\ ~SealRefused(w, now) /\ StartCycle(p, {w}, now)
        /\ group' = [group EXCEPT ![w[1]][w[2]] = ClaimedGroup(@, now)]
        /\ binding' = IF Group(w).sealed = Never
                      THEN [binding EXCEPT ![w[1]] = Unpointed(@, now)] ELSE binding
  BY DEF ClaimInbound
<1>3. PICK w \in InboundWakes :
        /\ ~SealRefused(w, now) /\ StartCycle(p, {w}, now)
        /\ group' = [group EXCEPT ![w[1]][w[2]] = ClaimedGroup(@, now)]
        /\ binding' = IF Group(w).sealed = Never
                      THEN [binding EXCEPT ![w[1]] = Unpointed(@, now)] ELSE binding
  BY <1>2
<1>d. PICK b \in Bindings : \E n \in DOMAIN group[b] : w = <<b, n>>
  BY DEF InboundWakes
<1>4. PICK n \in DOMAIN group[b] : w = <<b, n>>
  BY <1>d
<1>5. now \in Nat
  BY <1>1, Instant
<1>6. group[b][n] \in GroupRecords /\ n \in Nat /\ group[b][n].created \in Nat
  BY <1>1, GroupRow
<1>7. w[1] = b /\ w[2] = n /\ Group(w) = group[b][n]
  BY <1>4 DEF Group
<1> DEFINE g == ClaimedGroup(group[b][n], now)
           r == [group[b] EXCEPT ![n] = g]
<1>8. g \in GroupRecords
  BY <1>5, <1>6, ClaimedTyped
<1>9. group' = [group EXCEPT ![b] = r]
  BY <1>3, <1>7
<1> HIDE DEF g
<1>10. group[b] \in Seq(GroupRecords) /\ group \in [Bindings -> Seq(GroupRecords)]
  BY <1>1 DEF TypeOK
<1>11. r \in Seq(GroupRecords) /\ DOMAIN r = DOMAIN group[b]
  BY <1>8, <1>10
<1> HIDE DEF r
<1>12. /\ group' \in [Bindings -> Seq(GroupRecords)]
       /\ \A x \in Bindings : DOMAIN group'[x] = DOMAIN group[x]
  BY <1>9, <1>10, <1>11
<1>13. RowsSound(b) /\ binding[b].registered
  <2>1. RowsSound(b) /\ group[b] # <<>>
    BY DEF Invariant
  <2> QED  BY <2>1 DEF RowsSound
<1>14. /\ binding[b] \in BindingRecords /\ binding[b].revision \in Nat
       /\ binding[b].updated \in Nat
  BY <1>1, Rows
<1>15. \/ binding' = binding
       \/ binding' = [binding EXCEPT ![b] = Unpointed(binding[b], now)] /\ now >= binding[b].updated
  <2>1. CASE group[b][n].sealed = Never
    BY <1>3, <1>5, <1>6, <1>7, <1>14, <2>1 DEF SealRefused
  <2>2. CASE group[b][n].sealed # Never
    BY <1>3, <1>7, <2>2
  <2> QED  BY <2>1, <2>2
<1>16. /\ Goto(p, "cycle") /\ mem' = mem /\ Anchored(now) /\ ordinary' = ordinary
       /\ UNCHANGED <<clock, authority, source, receipt, observation, owner, bounds>>
  BY <1>3 DEF StartCycle, ClaimInbound
<1>17. cycles' \in Seq(CycleRecords)
  <2>1. {w} \in SUBSET (Ordinary \cup (Bindings \X Nat))
    BY <1>4, <1>6
  <2> QED  BY <1>1, <1>3, <1>5, <2>1, CycleStarted
<1>18. anchor' \in Nat /\ ordinary' \in OrdinaryRows
  BY <1>1, <1>5, <1>16, AnchorTyped DEF TypeOK, OrdinaryRows
<1>19. mem' = [mem EXCEPT ![p] = mem[p]] /\ mem[p] \in MemRecords
  BY <1>1, <1>16, SameMemory
<1>20. /\ receipt' = receipt /\ observation' = observation /\ epoch' = epoch
  BY <1>16 DEF authority
<1>21. CASE binding' = binding
  <2>1. \A x \in Bindings : RowsSound(x)' /\ EvidenceOf(x)'
    BY <1>12, <1>20, <1>21, SameEvidence
  <2>2. Onward
    BY <1>1, <1>20, <1>21, SameOnward
  <2>3. binding' \in [Bindings -> BindingRecords]
    BY <1>1, <1>21 DEF TypeOK
  <2> QED  BY <1>12, <1>16, <1>17, <1>18, <1>19, <2>1, <2>2, <2>3, RunnerKeeps
<1>22. CASE binding' = [binding EXCEPT ![b] = Unpointed(binding[b], now)]
            /\ now >= binding[b].updated
  <2> DEFINE row == Unpointed(binding[b], now)
  <2>1. /\ row \in BindingRecords
        /\ row.registered = binding[b].registered /\ row.cursor = binding[b].cursor
        /\ row.cursorRevision = binding[b].cursorRevision /\ row.latest = binding[b].latest
        /\ row.revision = binding[b].revision + 1 /\ row.created = binding[b].created
        /\ row.updated = now /\ row.pending = Nothing
    <3> DEFINE e == binding[b]
               v == binding[b].revision + 1
               z == Nothing
    <3>1. row = [e EXCEPT !.pending = z, !.revision = v, !.updated = now]
      BY DEF Unpointed
    <3>2. e \in BindingRecords /\ v \in Nat /\ z \in Nat
      BY <1>14 DEF Nothing
    <3> HIDE DEF e, v, z, row
    <3>3. /\ row \in BindingRecords
          /\ row.registered = e.registered /\ row.cursor = e.cursor
          /\ row.cursorRevision = e.cursorRevision /\ row.latest = e.latest
          /\ row.revision = v /\ row.created = e.created
          /\ row.updated = now /\ row.pending = z
      BY <1>5, <3>1, <3>2 DEF BindingRecords
    <3> QED  BY <3>3 DEF e, v, z
  <2> HIDE DEF row
  <2>2. binding' = [binding EXCEPT ![b] = row] /\ binding \in [Bindings -> BindingRecords]
    BY <1>1, <1>22 DEF TypeOK, row
  <2>3. /\ binding' \in [Bindings -> BindingRecords] /\ binding'[b] = row
        /\ \A x \in Bindings \ {b} : binding'[x] = binding[x]
    BY <2>1, <2>2
  <2>4. Onward
    <3>1. epoch \in Nat \X Nat /\ \A x \in Bindings : binding[x].revision \in Nat
      BY <1>1, Rows DEF TypeOK
    <3>2. ASSUME NEW x \in Bindings
          PROVE  /\ binding'[x].revision \in Nat /\ binding'[x].revision >= binding[x].revision
                 /\ binding[x].registered => binding'[x].registered
      <4>1. CASE x = b
        BY <1>14, <2>1, <2>3, <4>1
      <4>2. CASE x # b
        BY <2>3, <3>1, <4>2
      <4> QED  BY <4>1, <4>2
    <3> QED  BY <1>20, <3>1, <3>2 DEF Onward
  <2>5. ASSUME NEW x \in Bindings PROVE RowsSound(x)' /\ EvidenceOf(x)'
    <3>1. RowsSound(x) /\ EvidenceOf(x)
      BY EvidenceByBinding DEF Invariant
    <3>2. /\ binding'[x].cursor = binding[x].cursor /\ binding'[x].latest = binding[x].latest
          /\ binding'[x].cursorRevision = binding[x].cursorRevision
          /\ binding'[x].revision \in Nat /\ binding'[x].revision >= binding[x].revision
          /\ binding'[x].updated \in Nat
          /\ binding'[x].created = binding[x].created
          /\ binding'[x].updated >= binding[x].updated
          /\ binding'[x].registered = binding[x].registered
      <4>1. CASE x = b
        BY <1>5, <1>14, <1>22, <2>1, <2>3, <4>1
      <4>2. CASE x # b
        <5>1. binding[x].revision \in Nat /\ binding[x].updated \in Nat
          BY <1>1, Rows
        <5> QED  BY <2>3, <4>2, <5>1
      <4> QED  BY <4>1, <4>2
    <3>3. receipt'[x] = receipt[x] /\ observation'[x] = observation[x]
      BY <1>20
    <3>4. EvidenceOf(x)'
      BY <1>1, <3>1, <3>2, <3>3, EvidenceStays
    <3>5. RowsSound(x)'
      <4>1. CASE x = b
        BY <1>13, <2>1, <2>3, <3>1, <3>2, <3>3, <4>1 DEF RowsSound
      <4>2. CASE x # b
        <5>1. group'[x] = group[x] /\ binding'[x] = binding[x]
          BY <1>9, <1>10, <2>3, <4>2
        <5> QED  BY <3>1, <3>3, <5>1 DEF RowsSound
      <4> QED  BY <4>1, <4>2
    <3> QED  BY <3>4, <3>5
  <2> QED  BY <1>12, <1>16, <1>17, <1>18, <1>19, <2>3, <2>4, <2>5, RunnerKeeps
<1> QED  BY <1>15, <1>21, <1>22

LEMMA FinishCycleKeeps ==
    ASSUME Invariant, NEW p \in Processes, FinishCycle(p)
    PROVE  Invariant'
<1>1. TypeOK
  BY DEF Invariant
<1> DEFINE W   == Latest(cycles).wakes
           now == Now(p)
<1>2. /\ Running /\ cycles' = [cycles EXCEPT ![Len(cycles)].completed = now] /\ anchor' = now
      /\ group' = [b \in Bindings |-> [n \in DOMAIN group[b] |->
                      IF <<b, n>> \in W
                      THEN [group[b][n] EXCEPT !.status = "consumed", !.consumed = now]
                      ELSE group[b][n]]]
      /\ ordinary' = [x \in Ordinary |->
                         IF x \in W THEN [ordinary[x] EXCEPT !.status = "consumed"]
                         ELSE ordinary[x]]
      /\ Goto(p, "closing") /\ mem' = [mem EXCEPT ![p] = NoMem] /\ owner' = owner
      /\ UNCHANGED <<clock, authority, source, ingress, bounds>>
  BY DEF FinishCycle, Leave
<1>3. now \in Nat
  BY <1>1, Clocks
<1> HIDE DEF W, now
<1>4. cycles' \in Seq(CycleRecords)
  <2> DEFINE e == [cycles[Len(cycles)] EXCEPT !.completed = now]
  <2>1. cycles \in Seq(CycleRecords) /\ cycles # <<>>
    BY <1>1, <1>2 DEF TypeOK, Running
  <2>2. Len(cycles) \in DOMAIN cycles /\ cycles[Len(cycles)] \in CycleRecords
    BY <2>1
  <2>3. e \in CycleRecords
    BY <1>3, <2>2 DEF CycleRecords
  <2>4. cycles' = [cycles EXCEPT ![Len(cycles)] = e]
    BY <1>2
  <2> HIDE DEF e
  <2> QED  BY <2>1, <2>2, <2>3, <2>4
<1>5. ordinary' \in OrdinaryRows
  <2>1. ordinary \in OrdinaryRows
    BY <1>1 DEF TypeOK, OrdinaryRows
  <2> QED  BY <1>2, <2>1 DEF OrdinaryRows
<1>6. ASSUME NEW b \in Bindings
      PROVE  group'[b] \in Seq(GroupRecords) /\ DOMAIN group'[b] = DOMAIN group[b]
  <2>1. group[b] \in Seq(GroupRecords)
    BY <1>1, Rows
  <2> DEFINE s == [n \in DOMAIN group[b] |->
                      IF <<b, n>> \in W
                      THEN [group[b][n] EXCEPT !.status = "consumed", !.consumed = now]
                      ELSE group[b][n]]
  <2>2. group'[b] = s
    BY <1>2
  <2>3. ASSUME NEW n \in DOMAIN group[b] PROVE s[n] \in GroupRecords
    <3>1. group[b][n] \in GroupRecords
      BY <1>1, GroupRow
    <3>2. [group[b][n] EXCEPT !.status = "consumed", !.consumed = now] \in GroupRecords
      BY <1>3, <3>1 DEF GroupRecords
    <3> QED  BY <3>1, <3>2
  <2>4. DOMAIN s = 1 .. Len(group[b]) /\ Len(group[b]) \in Nat /\ DOMAIN s = DOMAIN group[b]
    BY <2>1
  <2>5. s = [n \in 1 .. Len(group[b]) |-> s[n]]
    BY <2>4
  <2> HIDE DEF s
  <2>6. s \in [1 .. Len(group[b]) -> GroupRecords]
    BY <2>3, <2>4, <2>5
  <2>7. s \in Seq(GroupRecords)
    BY <2>4, <2>6
  <2> QED  BY <2>2, <2>4, <2>7
<1>7. group' \in [Bindings -> Seq(GroupRecords)]
  <2>1. group' = [b \in Bindings |-> group'[b]]
    BY <1>2
  <2> QED  BY <1>6, <2>1
<1>8. UNCHANGED <<binding, receipt, observation, epoch>>
  BY <1>2 DEF ingress, authority
<1>9. \A b \in Bindings : RowsSound(b)' /\ EvidenceOf(b)'
  BY <1>6, <1>7, <1>8, SameEvidence
<1>10. Onward
  BY <1>1, <1>8, SameOnward
<1>11. binding' \in [Bindings -> BindingRecords]
  BY <1>1, <1>8 DEF TypeOK
<1>12. anchor' \in Nat /\ UNCHANGED <<clock, authority, source, receipt, observation, owner, bounds>>
  BY <1>2, <1>3, <1>8
<1> QED  BY <1>2, <1>4, <1>5, <1>7, <1>9, <1>10, <1>11, <1>12, Blank, RunnerKeeps

LEMMA RunKeeps ==
    ASSUME Invariant, NEW p \in Processes, Run(p)
    PROVE  Invariant'
<1>1. CASE RunEnds(p)
  BY <1>1, LeaveKeeps DEF RunEnds
<1> QED  BY <1>1, ResumeKeeps, IdleKeeps, ClaimInboundKeeps, ClaimBatchKeeps, FinishCycleKeeps
         DEF Run, StartBlocked, ClaimFails, LeaveCycle

-----------------------------------------------------------------------------
(* Steps of administrators and of the environment *)

\* A change of authority over the bindings B is marked on the fetches of B.
LEMMA Revoked ==
    ASSUME TypeOK, FetchSound, NEW B \in SUBSET Bindings, Revoke(B), pc' = pc, Onward,
           \A b \in B : \/ epoch'[1] > epoch[1] \/ epoch'[2] > epoch[2]
                        \/ binding'[b].revision > binding[b].revision
    PROVE  mem' \in [Processes -> MemRecords] /\ FetchSound'
<1>1. mem' = [p \in Processes |-> IF pc[p] \in {"poll", "persist"} /\ mem[p].at \in B
                                  THEN [mem[p] EXCEPT !.revoked = TRUE] ELSE mem[p]]
  BY DEF Revoke
<1>2. ASSUME NEW p \in Processes PROVE mem'[p] \in MemRecords /\ FetchOf(p)'
  <2>1. mem[p] \in MemRecords /\ FetchOf(p)
    BY Memory, FetchByProcess
  <2>2. CASE pc[p] \in {"poll", "persist"} /\ mem[p].at \in B
    <3>1. mem'[p] = [mem[p] EXCEPT !.revoked = TRUE]
      BY <1>1, <2>2
    <3>2. mem'[p] \in MemRecords
      BY <2>1, <3>1 DEF MemRecords
    <3>3. \/ epoch'[1] > epoch[1] \/ epoch'[2] > epoch[2]
          \/ binding'[mem[p].at].revision > binding[mem[p].at].revision
      BY <2>2
    <3>4. pc'[p] = pc[p] /\ pc[p] \in {"poll", "persist"}
      BY <2>2
    <3> QED  BY <2>1, <3>1, <3>2, <3>3, <3>4, FetchRevoked
  <2>3. CASE ~(pc[p] \in {"poll", "persist"} /\ mem[p].at \in B)
    <3>1. mem'[p] = mem[p] /\ pc'[p] = pc[p]
      BY <1>1, <2>3
    <3> QED  BY <2>1, <3>1, FetchStays
  <2> QED  BY <2>2, <2>3
<1>3. FetchSound' <=> \A q \in Processes : FetchOf(q)'
  BY DEF FetchSound, FetchOf
<1>4. mem' \in [Processes -> MemRecords]
  <2>1. mem' = [p \in Processes |-> mem'[p]]
    BY <1>1
  <2> QED  BY <1>2, <2>1
<1> QED  BY <1>2, <1>3, <1>4

LEMMA RegisterKeeps ==
    ASSUME Invariant, Register
    PROVE  Invariant'
<1>1. TypeOK /\ FetchSound
  BY DEF Invariant
<1>2. PICK b \in Bindings : \E e \in BOOLEAN, now \in AdminNow :
          ~binding[b].registered /\ binding' = [binding EXCEPT ![b] = NewBinding(e, now)]
  BY DEF Register
<1>3. PICK e \in BOOLEAN : \E now \in AdminNow :
          ~binding[b].registered /\ binding' = [binding EXCEPT ![b] = NewBinding(e, now)]
  BY <1>2
<1>4. PICK now \in AdminNow :
          ~binding[b].registered /\ binding' = [binding EXCEPT ![b] = NewBinding(e, now)]
  BY <1>3
<1>5. now \in Nat
  BY <1>1, ProcessAssumption DEF AdminNow, TypeOK
<1> DEFINE row == NewBinding(e, now)
<1>6. /\ row \in BindingRecords /\ row.cursor = NoCursor /\ row.cursorRevision = 0
      /\ row.revision = 1 /\ row.pending = Nothing /\ row.latest = Nothing
      /\ row.updated = now /\ row.registered = TRUE
  <2>1. row = [registered |-> TRUE, enabled |-> e, cursor |-> NoCursor, cursorRevision |-> 0,
               revision |-> 1, pending |-> Nothing, latest |-> Nothing,
               created |-> now, updated |-> now]
    BY DEF NewBinding
  <2> HIDE DEF row
  <2> QED  BY <1>5, <2>1 DEF BindingRecords, Nothing
<1> HIDE DEF row
<1>7. binding' = [binding EXCEPT ![b] = row] /\ binding \in [Bindings -> BindingRecords]
  BY <1>1, <1>4 DEF TypeOK, row
<1>8. /\ binding' \in [Bindings -> BindingRecords] /\ binding'[b] = row
      /\ \A x \in Bindings \ {b} : binding'[x] = binding[x]
  BY <1>6, <1>7
<1>9. UNCHANGED <<clock, authority, source, receipt, observation, attention, process, bounds>>
  BY DEF Register
<1>10. /\ ~binding[b].registered /\ receipt[b] = <<>> /\ observation[b] = <<>> /\ group[b] = <<>>
       /\ binding[b].revision = 0 /\ RowsSound(b) /\ EvidenceOf(b)
  <2>1. RowsSound(b) /\ EvidenceOf(b)
    BY EvidenceByBinding DEF Invariant
  <2> QED  BY <1>4, <2>1 DEF RowsSound
<1>11. UNCHANGED <<clock, operational, inferenceBlocked, epoch, source, receipt, observation,
                   group, ordinary, cycles, anchor, owner, pc, mem, faults, adminSteps>>
  BY <1>9 DEF authority, attention, process, bounds
<1>12. Onward
  <2>1. epoch \in Nat \X Nat /\ \A x \in Bindings : binding[x].revision \in Nat
    BY <1>1, Rows DEF TypeOK
  <2>2. ASSUME NEW x \in Bindings
        PROVE  /\ binding'[x].revision \in Nat /\ binding'[x].revision >= binding[x].revision
               /\ binding[x].registered => binding'[x].registered
    <3>1. CASE x = b
      BY <1>6, <1>8, <1>10, <3>1
    <3>2. CASE x # b
      BY <1>8, <2>1, <3>2
    <3> QED  BY <3>1, <3>2
  <2> QED  BY <1>11, <2>1, <2>2 DEF Onward
<1>13. FetchSound'
  BY <1>1, <1>11, <1>12, FetchesStay
<1>14. ASSUME NEW x \in Bindings PROVE RowsSound(x)' /\ EvidenceOf(x)'
  <2>1. RowsSound(x) /\ EvidenceOf(x)
    BY EvidenceByBinding DEF Invariant
  <2>2. receipt'[x] = receipt[x] /\ observation'[x] = observation[x] /\ group'[x] = group[x]
    BY <1>11
  <2>3. CASE x = b
    <3>1. /\ binding[b].cursor = NoCursor /\ binding[b].latest = 0
          /\ binding[b].cursorRevision = 0
      BY <1>10 DEF EvidenceOf, CheckpointValid
    <3>2. /\ binding'[x].cursor = binding[x].cursor /\ binding'[x].latest = binding[x].latest
          /\ binding'[x].cursorRevision = binding[x].cursorRevision
          /\ binding'[x].revision \in Nat /\ binding'[x].revision >= binding[x].revision
          /\ binding'[x].updated \in Nat /\ receipt[x] = <<>>
      BY <1>5, <1>6, <1>8, <1>10, <2>3, <3>1 DEF Nothing
    <3>3. EvidenceOf(x)'
      BY <1>1, <2>1, <2>2, <3>2, EvidenceStays
    <3>4. RowsSound(x)'
      BY <1>6, <1>8, <1>10, <2>2, <2>3 DEF RowsSound
    <3> QED  BY <3>3, <3>4
  <2>4. CASE x # b
    <3>1. binding'[x] = binding[x]
      BY <1>8, <2>4
    <3>2. binding[x].revision \in Nat /\ binding[x].updated \in Nat
      BY <1>1, Rows
    <3>3. /\ binding'[x].cursor = binding[x].cursor /\ binding'[x].latest = binding[x].latest
          /\ binding'[x].cursorRevision = binding[x].cursorRevision
          /\ binding'[x].revision \in Nat /\ binding'[x].revision >= binding[x].revision
          /\ binding'[x].updated \in Nat
          /\ binding'[x].created = binding[x].created
          /\ binding'[x].updated >= binding[x].updated
      BY <3>1, <3>2
    <3>4. EvidenceOf(x)'
      BY <1>1, <2>1, <2>2, <3>3, EvidenceStays
    <3>5. RowsSound(x)'
      BY <2>1, <2>2, <3>1 DEF RowsSound
    <3> QED  BY <3>4, <3>5
  <2> QED  BY <2>3, <2>4
<1>15. TypeOK'
  BY <1>1, <1>8, <1>11 DEF TypeOK
<1> QED  BY <1>13, <1>14, <1>15, InvariantNext

LEMMA SetEnabledKeeps ==
    ASSUME Invariant, SetEnabled
    PROVE  Invariant'
<1>1. TypeOK /\ FetchSound
  BY DEF Invariant
<1>2. PICK b \in Bindings : \E e \in BOOLEAN, now \in AdminNow :
          /\ binding[b].registered /\ now >= binding[b].updated
          /\ binding' = [binding EXCEPT ![b] = Switched(@, e, now)] /\ Revoke({b})
  BY DEF SetEnabled
<1>3. PICK e \in BOOLEAN : \E now \in AdminNow :
          /\ binding[b].registered /\ now >= binding[b].updated
          /\ binding' = [binding EXCEPT ![b] = Switched(@, e, now)] /\ Revoke({b})
  BY <1>2
<1>4. PICK now \in AdminNow :
          /\ binding[b].registered /\ now >= binding[b].updated
          /\ binding' = [binding EXCEPT ![b] = Switched(@, e, now)] /\ Revoke({b})
  BY <1>3
<1>5. now \in Nat
  BY <1>1, ProcessAssumption DEF AdminNow, TypeOK
<1>6. /\ binding[b] \in BindingRecords /\ binding[b].revision \in Nat
      /\ binding[b].updated \in Nat
  BY <1>1, Rows
<1> DEFINE row == Switched(binding[b], e, now)
<1>7. /\ row \in BindingRecords
      /\ row.registered = binding[b].registered /\ row.cursor = binding[b].cursor
      /\ row.cursorRevision = binding[b].cursorRevision /\ row.latest = binding[b].latest
      /\ row.revision = binding[b].revision + 1 /\ row.created = binding[b].created
      /\ row.updated = now /\ row.pending = binding[b].pending
  <2> DEFINE old == binding[b]
             v   == binding[b].revision + 1
  <2>1. row = [old EXCEPT !.enabled = e, !.revision = v, !.updated = now]
    BY DEF Switched
  <2>2. old \in BindingRecords /\ v \in Nat
    BY <1>6
  <2> HIDE DEF old, v, row
  <2>3. /\ row \in BindingRecords
        /\ row.registered = old.registered /\ row.cursor = old.cursor
        /\ row.cursorRevision = old.cursorRevision /\ row.latest = old.latest
        /\ row.revision = v /\ row.created = old.created
        /\ row.updated = now /\ row.pending = old.pending
    BY <1>5, <2>1, <2>2 DEF BindingRecords
  <2> QED  BY <2>3 DEF old, v
<1> HIDE DEF row
<1>8. binding' = [binding EXCEPT ![b] = row] /\ binding \in [Bindings -> BindingRecords]
  BY <1>1, <1>4 DEF TypeOK, row
<1>9. /\ binding' \in [Bindings -> BindingRecords] /\ binding'[b] = row
      /\ \A x \in Bindings \ {b} : binding'[x] = binding[x]
  BY <1>7, <1>8
<1>10. UNCHANGED <<clock, operational, inferenceBlocked, epoch, source, receipt, observation,
                   group, ordinary, cycles, anchor, owner, pc, faults>>
       /\ adminSteps' = adminSteps + 1
  BY DEF SetEnabled, AdminStep, authority, attention
<1>11. ASSUME NEW x \in Bindings
       PROVE  /\ binding'[x].cursor = binding[x].cursor /\ binding'[x].latest = binding[x].latest
              /\ binding'[x].cursorRevision = binding[x].cursorRevision
              /\ binding'[x].revision \in Nat /\ binding'[x].revision >= binding[x].revision
              /\ binding'[x].updated \in Nat
              /\ binding'[x].created = binding[x].created
              /\ binding'[x].updated >= binding[x].updated
              /\ binding'[x].registered = binding[x].registered
              /\ binding'[x].pending = binding[x].pending
  <2>1. CASE x = b
    <3>1. row.updated >= binding[b].updated /\ row.updated \in Nat
      BY <1>4, <1>5, <1>7
    <3>2. row.revision \in Nat /\ row.revision >= binding[b].revision
      BY <1>6, <1>7
    <3>3. binding'[x] = row
      BY <1>9, <2>1
    <3> QED  BY <1>7, <2>1, <3>1, <3>2, <3>3, Zenon
  <2>2. CASE x # b
    <3>1. binding[x].revision \in Nat /\ binding[x].updated \in Nat
      BY <1>1, Rows
    <3> QED  BY <1>9, <2>2, <3>1
  <2> QED  BY <2>1, <2>2
<1>12. Onward
  <2>1. epoch \in Nat \X Nat
    BY <1>1 DEF TypeOK
  <2> QED  BY <1>10, <1>11, <2>1 DEF Onward
<1>13. binding'[b].revision > binding[b].revision
  BY <1>6, <1>7, <1>9
<1>14. mem' \in [Processes -> MemRecords] /\ FetchSound'
  <2>1. {b} \in SUBSET Bindings /\ Revoke({b}) /\ pc' = pc
    BY <1>4, <1>10
  <2>2. \A x \in {b} : \/ epoch'[1] > epoch[1] \/ epoch'[2] > epoch[2]
                       \/ binding'[x].revision > binding[x].revision
    BY <1>13
  <2> QED  BY <1>1, <1>12, <2>1, <2>2, Revoked
<1>15. ASSUME NEW x \in Bindings PROVE RowsSound(x)' /\ EvidenceOf(x)'
  <2>1. RowsSound(x) /\ EvidenceOf(x)
    BY EvidenceByBinding DEF Invariant
  <2>2. receipt'[x] = receipt[x] /\ observation'[x] = observation[x] /\ group'[x] = group[x]
    BY <1>10
  <2>3. EvidenceOf(x)'
    <3>1. /\ binding'[x].cursor = binding[x].cursor /\ binding'[x].latest = binding[x].latest
          /\ binding'[x].cursorRevision = binding[x].cursorRevision
          /\ binding'[x].revision \in Nat /\ binding'[x].revision >= binding[x].revision
          /\ binding'[x].updated \in Nat
          /\ binding'[x].created = binding[x].created
          /\ binding'[x].updated >= binding[x].updated
      BY <1>11
    <3>2. TypeOK /\ EvidenceOf(x)
      BY <1>1, <2>1
    <3> QED  BY <2>2, <3>1, <3>2, EvidenceStays
  <2>5. CASE binding[x].registered
    <3>1. /\ binding'[x].cursor = binding[x].cursor /\ binding'[x].pending = binding[x].pending
          /\ binding'[x].registered = binding[x].registered
      BY <1>11
    <3> QED  BY <2>1, <2>2, <2>3, <2>5, <3>1 DEF RowsSound
  <2>6. CASE ~binding[x].registered
    <3>1. x # b
      BY <1>4, <2>6
    <3>2. binding'[x] = binding[x]
      BY <1>9, <3>1
    <3> QED  BY <2>1, <2>2, <2>3, <3>2 DEF RowsSound
  <2> QED  BY <2>3, <2>5, <2>6
<1>16. TypeOK'
  <2>1. adminSteps' \in Nat
    BY <1>1, <1>10 DEF TypeOK
  <2> QED  BY <1>1, <1>9, <1>10, <1>14, <2>1 DEF TypeOK
<1> QED  BY <1>14, <1>15, <1>16, InvariantNext

\* What administrators do to the individual, and what others do beside it.
LEMMA AuthorityKeeps ==
    ASSUME Invariant, ChangeLifecycle \/ UpdateGovernance
    PROVE  Invariant'
<1>1. TypeOK /\ FetchSound
  BY DEF Invariant
<1>2. /\ UNCHANGED <<clock, source, ingress, attention, owner, pc, faults>>
      /\ adminSteps' = adminSteps + 1 /\ Revoke(Bindings)
  BY DEF ChangeLifecycle, UpdateGovernance, AdminStep
<1>3. UNCHANGED <<clock, source, binding, receipt, observation, group, ordinary, cycles, anchor,
                  owner, pc, faults>>
  BY <1>2 DEF ingress, attention
<1>4. epoch \in Nat \X Nat /\ operational \in Statuses /\ inferenceBlocked \in BOOLEAN
  BY <1>1 DEF TypeOK
<1>5. /\ epoch' \in Nat \X Nat /\ epoch'[1] >= epoch[1] /\ epoch'[2] >= epoch[2]
      /\ (epoch'[1] > epoch[1] \/ epoch'[2] > epoch[2])
  <2>1. epoch' = <<epoch[1] + 1, epoch[2]>> \/ epoch' = <<epoch[1], epoch[2] + 1>>
    BY DEF ChangeLifecycle, UpdateGovernance
  <2> QED  BY <1>4, <2>1
<1>6. operational' \in Statuses /\ inferenceBlocked' \in BOOLEAN
  <2>1. CASE ChangeLifecycle
    <3>1. operational' \in Statuses /\ inferenceBlocked' = inferenceBlocked
      BY <2>1 DEF ChangeLifecycle
    <3> QED  BY <1>4, <3>1
  <2>2. CASE UpdateGovernance
    BY <1>4, <2>2 DEF UpdateGovernance
  <2> QED  BY <2>1, <2>2
<1>7. Onward
  <2>1. \A b \in Bindings : binding[b].revision \in Nat
    BY <1>1, Rows
  <2>2. binding' = binding
    BY <1>3
  <2> QED  BY <1>5, <2>1, <2>2 DEF Onward
<1>8. mem' \in [Processes -> MemRecords] /\ FetchSound'
  <2>1. Bindings \in SUBSET Bindings /\ pc' = pc
    BY <1>3
  <2>2. \A b \in Bindings : \/ epoch'[1] > epoch[1] \/ epoch'[2] > epoch[2]
                            \/ binding'[b].revision > binding[b].revision
    BY <1>5
  <2> QED  BY <1>1, <1>2, <1>7, <2>1, <2>2, Revoked
<1>9. \A b \in Bindings : RowsSound(b)' /\ EvidenceOf(b)'
  <2>1. /\ UNCHANGED <<binding, receipt, observation>>
        /\ group' \in [Bindings -> Seq(GroupRecords)]
        /\ \A b \in Bindings : DOMAIN group'[b] = DOMAIN group[b]
    BY <1>1, <1>3 DEF TypeOK
  <2> QED  BY <2>1, SameEvidence
<1>10. TypeOK'
  <2>1. adminSteps' \in Nat
    BY <1>1, <1>2 DEF TypeOK
  <2> QED  BY <1>1, <1>3, <1>5, <1>6, <1>8, <2>1 DEF TypeOK
<1> QED  BY <1>8, <1>9, <1>10, InvariantNext

LEMMA SurroundingsKeep ==
    ASSUME Invariant, EditSource \/ PostOrdinary \/ Tick
    PROVE  Invariant'
<1>1. TypeOK /\ FetchSound
  BY DEF Invariant
<1>2. UNCHANGED <<operational, inferenceBlocked, epoch, binding, receipt, observation, group,
                  cycles, anchor, owner, pc, mem, faults>>
  BY DEF EditSource, PostOrdinary, Tick, authority, ingress, attention, process, bounds
<1>3. clock' \in Nat
  <2>1. clock \in Nat
    BY <1>1 DEF TypeOK
  <2>2. clock' = clock \/ clock' = clock + 1
    BY DEF EditSource, PostOrdinary, Tick
  <2> QED  BY <2>1, <2>2
<1>4. adminSteps' \in Nat
  <2>1. adminSteps \in Nat
    BY <1>1 DEF TypeOK
  <2>2. adminSteps' = adminSteps \/ adminSteps' = adminSteps + 1
    BY DEF EditSource, PostOrdinary, Tick, AdminStep, bounds
  <2> QED  BY <2>1, <2>2
<1>5. source' \in [Bindings -> Fixtures]
  <2>1. source \in [Bindings -> Fixtures]
    BY <1>1 DEF TypeOK
  <2>2. CASE EditSource
    BY <2>1, <2>2 DEF EditSource
  <2>3. CASE PostOrdinary \/ Tick
    BY <2>1, <2>3 DEF PostOrdinary, Tick
  <2> QED  BY <2>2, <2>3
<1>6. ordinary' \in OrdinaryRows
  <2>1. ordinary \in OrdinaryRows /\ clock \in Nat
    BY <1>1 DEF TypeOK, OrdinaryRows
  <2>2. CASE PostOrdinary
    <3>1. PICK w \in Ordinary :
              ordinary' = [ordinary EXCEPT ![w] = [status |-> "pending", due |-> clock]]
      BY <2>2 DEF PostOrdinary
    <3> QED  BY <2>1, <3>1 DEF OrdinaryRows
  <2>3. CASE EditSource \/ Tick
    BY <2>1, <2>3 DEF EditSource, Tick, attention
  <2> QED  BY <2>2, <2>3
<1>7. Onward
  BY <1>1, <1>2, SameOnward
<1>8. FetchSound'
  BY <1>1, <1>2, <1>7, FetchesStay
<1>9. \A b \in Bindings : RowsSound(b)' /\ EvidenceOf(b)'
  <2>1. /\ UNCHANGED <<binding, receipt, observation>>
        /\ group' \in [Bindings -> Seq(GroupRecords)]
        /\ \A b \in Bindings : DOMAIN group'[b] = DOMAIN group[b]
    BY <1>1, <1>2 DEF TypeOK
  <2> QED  BY <2>1, SameEvidence
<1>10. TypeOK'
  BY <1>1, <1>2, <1>3, <1>4, <1>5, <1>6 DEF TypeOK, OrdinaryRows
<1> QED  BY <1>8, <1>9, <1>10, InvariantNext

-----------------------------------------------------------------------------
(* The theorems *)

LEMMA EmptyRows ==
    ASSUME NEW e \in BOOLEAN, NEW now \in Nat
    PROVE  /\ NewBinding(e, now) \in BindingRecords
           /\ NewBinding(e, now).cursor = NoCursor /\ NewBinding(e, now).cursorRevision = 0
           /\ NewBinding(e, now).latest = 0 /\ NewBinding(e, now).pending = 0
           /\ NewBinding(e, now).registered = TRUE
BY DEF NewBinding, BindingRecords, Nothing

LEMMA NoRowTyped ==
    /\ NoRow \in BindingRecords
    /\ NoRow.cursor = NoCursor /\ NoRow.cursorRevision = 0
    /\ NoRow.latest = 0 /\ NoRow.pending = 0 /\ NoRow.revision = 0
<1> DEFINE row == NewBinding(FALSE, 0)
<1>1. /\ row \in BindingRecords
      /\ row.cursor = NoCursor /\ row.cursorRevision = 0 /\ row.latest = 0 /\ row.pending = 0
  BY EmptyRows
<1>2. NoRow = [row EXCEPT !.registered = FALSE, !.revision = 0]
  BY DEF NoRow
<1> HIDE DEF row
<1> QED  BY <1>1, <1>2 DEF BindingRecords

LEMMA InitialSound == Init => Invariant
<1> SUFFICES ASSUME Init PROVE Invariant
  OBVIOUS
<1>1. clock = 1 /\ anchor = 0 /\ epoch = <<1, 1>> /\ cycles = <<>>
  BY DEF Init, Never
<1>2. ASSUME NEW b \in Bindings
      PROVE  /\ binding[b] \in BindingRecords
             /\ binding[b].cursor = NoCursor /\ binding[b].cursorRevision = 0
             /\ binding[b].latest = 0 /\ binding[b].pending = 0
             /\ ~binding[b].registered => binding[b].revision = 0
  <2>1. binding[b] = NewBinding(TRUE, clock) \/ binding[b] = NoRow
    BY DEF Init
  <2>2. CASE binding[b] = NewBinding(TRUE, clock)
    <3>1. clock \in Nat /\ TRUE \in BOOLEAN
      BY <1>1
    <3> DEFINE row == NewBinding(TRUE, clock)
    <3>2. /\ row \in BindingRecords /\ row.cursor = NoCursor /\ row.cursorRevision = 0
          /\ row.latest = 0 /\ row.pending = 0 /\ row.registered = TRUE
      BY <3>1, EmptyRows
    <3>3. binding[b] = row
      BY <2>2
    <3> HIDE DEF row
    <3> QED  BY <3>2, <3>3
  <2>3. CASE binding[b] = NoRow
    BY <2>3, NoRowTyped
  <2> QED  BY <2>1, <2>2, <2>3
<1>3. binding \in [Bindings -> BindingRecords]
  <2>1. binding = [b \in Bindings |-> binding[b]]
    BY DEF Init
  <2> QED  BY <1>2, <2>1
<1>4. ASSUME NEW b \in Bindings
      PROVE  receipt[b] = <<>> /\ observation[b] = <<>> /\ group[b] = <<>>
  BY DEF Init
<1>5. TypeOK
  <2>1. /\ receipt \in [Bindings -> Seq(ReceiptRecords)]
        /\ observation \in [Bindings -> Seq(ObservationRecords)]
        /\ group \in [Bindings -> Seq(GroupRecords)] /\ cycles \in Seq(CycleRecords)
    BY DEF Init
  <2>2. /\ ordinary \in OrdinaryRows /\ owner \in Processes \cup {NoProcess}
        /\ pc \in [Processes -> Places] /\ mem \in [Processes -> MemRecords]
    BY Blank DEF Init, OrdinaryRows, Places
  <2>3. source \in [Bindings -> Fixtures] /\ operational \in Statuses
        /\ inferenceBlocked \in BOOLEAN /\ faults \in Nat /\ adminSteps \in Nat
    BY SourceAssumption DEF Init, Statuses
  <2>4. clock \in Nat /\ anchor \in Nat /\ epoch \in Nat \X Nat
    BY <1>1
  <2> QED  BY <1>3, <2>1, <2>2, <2>3, <2>4 DEF TypeOK, OrdinaryRows, Places
<1>6. FetchSound
  BY DEF FetchSound, Init
<1>7. ASSUME NEW b \in Bindings PROVE RowsSound(b) /\ EvidenceOf(b)
  <2>1. RowsSound(b)
    BY <1>2, <1>4 DEF RowsSound, Nothing
  <2>2. DOMAIN receipt[b] = {} /\ DOMAIN observation[b] = {} /\ Len(receipt[b]) = 0
    BY <1>4
  <2>3. Delivered(b) = {}
    BY <2>2 DEF Delivered, ToldIn
  <2>4. Elements(Read(b)) = {}
    <3>1. Read(b) = <<>>
      BY <1>2 DEF Read
    <3> QED  BY <3>1 DEF Elements
  <2>5. CheckpointValid(b)
    BY <1>2, <2>2 DEF CheckpointValid
  <2> QED  BY <2>1, <2>2, <2>3, <2>4, <2>5 DEF EvidenceOf, OnceEach
<1> QED  BY <1>5, <1>6, <1>7, EvidenceByBinding DEF Invariant

LEMMA StutterKeeps ==
    ASSUME Invariant, UNCHANGED vars
    PROVE  Invariant'
<1>1. /\ UNCHANGED <<clock, authority, source, ingress, attention>> /\ UNCHANGED bounds
      /\ pc' = pc /\ mem' = mem /\ owner' = owner
  BY DEF vars, process
<1>2. TypeOK /\ FetchSound
  BY DEF Invariant
<1>3. Onward
  BY <1>1, <1>2, SameOnward DEF authority, ingress
<1>4. FetchSound'
  BY <1>1, <1>2, <1>3, FetchesStay
<1>5. pc' \in [Processes -> Places] /\ mem' \in [Processes -> MemRecords]
      /\ owner' \in Processes \cup {NoProcess}
  BY <1>1, <1>2 DEF TypeOK, Places
<1> QED  BY <1>1, <1>4, <1>5, QuietKeeps

LEMMA NextKeeps ==
    ASSUME Invariant, [Next]_vars
    PROVE  Invariant'
<1>1. CASE \E p \in Processes : Process(p) \/ Crash(p) \/ TransactionFails(p)
  <2>1. PICK p \in Processes : Process(p) \/ Crash(p) \/ TransactionFails(p)
    BY <1>1
  <2>2. CASE Crash(p) \/ NoticeLoss(p)
    BY <2>2, GoneKeeps DEF Crash, NoticeLoss
  <2>3. CASE TransactionFails(p)
    BY <2>3, LeaveKeeps DEF TransactionFails
  <2> QED  BY <2>1, <2>2, <2>3, AcquireKeeps, IngestKeeps, RunKeeps, CloseKeeps DEF Process
<1>2. CASE SessionLost \/ Reap
  BY <1>2, SessionKeeps
<1>3. CASE Administer
  BY <1>3, RegisterKeeps, SetEnabledKeeps, AuthorityKeeps, SurroundingsKeep DEF Administer
<1>4. CASE PostOrdinary \/ Tick
  BY <1>4, SurroundingsKeep
<1>5. CASE UNCHANGED vars
  BY <1>5, StutterKeeps
<1> QED  BY <1>1, <1>2, <1>3, <1>4, <1>5 DEF Next

\* Whatever the sources contain and however they are edited, whichever process
\* crashes or loses its session, and however administrators interfere: the page
\* an ingester holds is what lies between its snapshot and the next cursor, its
\* snapshot shows every change of authority made since, and what persist_page
\* (stores/perception.py) leaves of it is sound evidence.
THEOREM InboundStaysSound == Spec => []Invariant
<1>1. Init => Invariant
  BY InitialSound
<1>2. Invariant /\ [Next]_vars => Invariant'
  BY NextKeeps
<1> QED  BY <1>1, <1>2, PTL DEF Spec

\* docs/perception.md: the observations of a binding are exactly the items of its
\* source before its checkpoint, each identity once, in receipts that form one
\* chain ending at the checkpoint (persist_page of stores/perception.py against
\* validate_checkpoint and db/perception_checks.py), for every content of the
\* sources, any number of bindings, ingesters and runners, and any page size.
THEOREM EvidenceIsExact == Spec => []CheckpointMatchesEvidence
<1>1. Invariant => CheckpointMatchesEvidence
  BY DEF Invariant
<1> QED  BY <1>1, InboundStaysSound, PTL

LEMMA OnlyCurrentPagesAreWritten ==
    ASSUME Invariant, Next, NEW b \in Bindings, receipt'[b] # receipt[b]
    PROVE  \E p \in Ingesters : /\ mem[p].at = b /\ pc[p] = "persist"
                                /\ pc'[p] = "closing" /\ ~mem[p].revoked
<1>1. TypeOK /\ FetchSound
  BY DEF Invariant
<1>2. PICK p \in Processes : Persist(p)
  <2>1. ASSUME NEW p \in Processes,
               Acquire(p) \/ Snapshot(p) \/ Poll(p) \/ PollFails(p) \/ Run(p) \/ Close(p)
               \/ NoticeLoss(p) \/ Crash(p) \/ TransactionFails(p)
        PROVE  FALSE
    <3>1. CASE \/ Acquire(p) \/ Snapshot(p) \/ Poll(p) \/ PollFails(p) \/ Close(p)
               \/ NoticeLoss(p) \/ Crash(p) \/ TransactionFails(p)
      BY <3>1 DEF Acquire, Snapshot, Poll, PollFails, Close, NoticeLoss, Crash, TransactionFails,
                  Gone, ingress
    <3>2. CASE Run(p)
      BY <3>2 DEF Run, RunEnds, StartBlocked, Resume, Idle, ClaimFails, ClaimInbound, ClaimBatch,
                  StartCycle, FinishCycle, LeaveCycle, ingress
    <3> QED  BY <2>1, <3>1, <3>2
  <2>2. ~(SessionLost \/ Reap \/ Administer \/ PostOrdinary \/ Tick)
    BY DEF SessionLost, Reap, SessionEnds, Administer, Register, SetEnabled, ChangeLifecycle,
           UpdateGovernance, EditSource, PostOrdinary, Tick, ingress
  <2> QED  BY <2>1, <2>2 DEF Next, Process, Ingest
<1>3. /\ Owns(p, "persist") /\ Leave(p)
      /\ \E now \in mem[p].observed .. Now(p) :
            IF PersistAllowed(p, now) THEN Written(p, now) ELSE UNCHANGED <<ingress, group>>
  BY <1>2 DEF Persist
<1>4. PICK now \in mem[p].observed .. Now(p) : PersistAllowed(p, now) /\ Written(p, now)
  BY <1>3 DEF ingress
<1>5. now \in Nat /\ FetchOf(p) /\ pc[p] = "persist" /\ pc \in [Processes -> Places]
  BY <1>1, <1>3, Memory, Clocks, FetchByProcess DEF Owns, TypeOK, Places
<1>6. p \in Ingesters /\ mem[p].at \in Bindings /\ SnapshotSound(p)
  BY <1>5 DEF FetchOf
<1>7. mem[p].at = b
  <2>1. \A x \in Bindings \ {mem[p].at} : receipt'[x] = receipt[x]
    BY <1>3, <1>4, <1>5, <1>6, WrittenKeeps
  <2> QED  BY <2>1
<1>8. ~mem[p].revoked
  <2>1. Snap(b) = mem[p].snap
    BY <1>4, <1>7 DEF PersistAllowed, SnapshotCurrent
  <2>2. mem[p].snap.revision = binding[b].revision /\ mem[p].snap.epoch = epoch
    BY <2>1 DEF Snap
  <2>3. epoch[1] \in Nat /\ epoch[2] \in Nat /\ binding[b].revision \in Nat
    BY <1>1, Rows DEF TypeOK
  <2> QED  BY <1>6, <1>7, <2>2, <2>3 DEF SnapshotSound
<1>9. pc'[p] = "closing"
  BY <1>3, <1>5 DEF Leave, Goto
<1> QED  BY <1>5, <1>6, <1>7, <1>8, <1>9

\* docs/perception.md: a pause, a change of governance or of enablement between
\* the snapshot of ingest_once and its persist_page invalidates the page, even
\* when it was undone meanwhile; only the ingester that polled the page writes
\* it, and it is done with it then.
THEOREM RevokedPagesAreDropped == Spec => NothingAcrossRevocation
<1>1. Invariant /\ [Next]_vars =>
      [\A b \in Bindings : receipt'[b] # receipt[b] =>
           \E p \in Ingesters : /\ mem[p].at = b /\ pc[p] = "persist"
                                /\ pc'[p] = "closing" /\ ~mem[p].revoked]_vars
  BY OnlyCurrentPagesAreWritten
<1> QED  BY <1>1, InboundStaysSound, PTL DEF Spec, NothingAcrossRevocation

-----------------------------------------------------------------------------
(***************************************************************************)
(* The wakes of what was perceived.  A group lists its observations, each  *)
(* is in one group, and the cycle of a group agrees with it.               *)
(***************************************************************************)

Rising(s)   == \A i, j \in DOMAIN s : i < j => s[i] < s[j]
Of(seen, n) == {i \in DOMAIN seen : seen[i].wake = n}

\* InboundValid of the n-th wake of binding b, in parts.
Listed(b, n) ==
    /\ Cardinality(Members(<<b, n>>)) \in 1 .. MaxRefs
    /\ Elements(group[b][n].refs) = Members(<<b, n>>)
    /\ Rising(group[b][n].refs)

Dated(b, n) ==
    \A i \in Members(<<b, n>>) :
        /\ RecordedAt(b, i) >= group[b][n].created
        /\ group[b][n].sealed # Never => RecordedAt(b, i) <= group[b][n].sealed

Pointed(b, n) ==
    LET g == group[b][n]
    IN  IF g.sealed = Never
        THEN g.status = "pending" /\ Len(g.refs) < MaxRefs /\ binding[b].pending = n
        ELSE g.sealed >= g.created /\ binding[b].pending # n

Attended(b, n) ==
    LET g == group[b][n]
        w == <<b, n>>
    IN  IF g.status = "pending"
        THEN CyclesOf(w) = {} /\ g.claimed = Never
        ELSE /\ g.sealed # Never /\ g.claimed >= g.sealed
             /\ \E c \in DOMAIN cycles :
                 /\ CyclesOf(w) = {c} /\ cycles[c].wakes = {w}
                 /\ cycles[c].started = g.claimed /\ cycles[c].completed = g.consumed
                 /\ IF g.status = "claimed" THEN g.consumed = Never
                    ELSE g.consumed # Never /\ g.consumed >= g.claimed

LEMMA ValidInParts ==
    ASSUME NEW b, NEW n
    PROVE  InboundValid(<<b, n>>) <=> Listed(b, n) /\ Dated(b, n) /\ Pointed(b, n) /\ Attended(b, n)
<1>1. <<b, n>>[1] = b /\ <<b, n>>[2] = n
  OBVIOUS
<1> QED  BY <1>1, Zenon DEF InboundValid, Group, Listed, Dated, Pointed, Attended, Elements, Rising

LEMMA ValidNext ==
    ASSUME NEW b, NEW n, Listed(b, n)', Dated(b, n)', Pointed(b, n)', Attended(b, n)'
    PROVE  InboundValid(<<b, n>>)'
<1>1. <<b, n>>[1] = b /\ <<b, n>>[2] = n
  OBVIOUS
<1> QED  BY <1>1, Zenon DEF InboundValid, Group, Listed, Dated, Pointed, Attended, Elements, Rising

\* What InboundConsistent says of a binding, and that no pending wake was consumed.
WholeOf(b) ==
    /\ \A n \in DOMAIN group[b] : InboundValid(<<b, n>>)
    /\ OpenWakes(b) = {binding[b].pending} \ {Nothing}
    /\ \A i \in DOMAIN observation[b] : observation[b][i].wake \in DOMAIN group[b]
    /\ \A n \in DOMAIN group[b] : group[b][n].status = "pending" => group[b][n].consumed = Never

\* No cycle has a wake that is not there.
CyclesKnown ==
    \A c \in DOMAIN cycles, b \in Bindings, n \in Nat :
        <<b, n>> \in cycles[c].wakes => n \in DOMAIN group[b]

ClockOf(p) ==
    /\ pc[p] \in {"ready", "cycle"} => p \in Runners
    /\ pc[p] = "ready" => mem[p].started >= 1
    /\ pc[p] = "persist" => mem[p].observed >= 1

\* No clock of a runner is behind the start of the cycle that runs.
Timely ==
    /\ clock >= 1
    /\ \A p \in Processes : ClockOf(p)
    /\ Running => \A p \in Runners : Latest(cycles).started <= Now(p)

WholeInvariant == Invariant /\ (\A b \in Bindings : WholeOf(b)) /\ CyclesKnown /\ Timely

-----------------------------------------------------------------------------
(* What a page adds to the groups *)

LEMMA RisingCounts ==
    ASSUME NEW s \in Seq(Nat), Rising(s)
    PROVE  IsFiniteSet(Elements(s)) /\ Cardinality(Elements(s)) = Len(s)
<1> DEFINE T == Elements(s)
           n == Len(s)
<1>1. n \in Nat /\ DOMAIN s = 1 .. n /\ \A i \in 1 .. n : s[i] \in Nat
  OBVIOUS
<1>2. s \in [1 .. n -> T]
  BY <1>1 DEF Elements
<1>3. \A i, j \in 1 .. n : s[i] = s[j] => i = j
  <2> SUFFICES ASSUME NEW i \in 1 .. n, NEW j \in 1 .. n, s[i] = s[j], i # j PROVE FALSE
    OBVIOUS
  <2>1. i < j \/ j < i
    OBVIOUS
  <2>2. s[i] < s[j] \/ s[j] < s[i]
    BY <1>1, <2>1 DEF Rising
  <2> QED  BY <1>1, <2>2
<1>4. \A t \in T : \E i \in 1 .. n : s[i] = t
  BY <1>1 DEF Elements
<1> HIDE DEF T, n
<1>5. s \in Bijection(1 .. n, T)
  BY <1>2, <1>3, <1>4, Fun_IsBij
<1>6. ExistsBijection(1 .. n, T)
  BY <1>5 DEF ExistsBijection
<1>7. IsFiniteSet(T)
  BY <1>1, <1>6, FS_NatBijection
<1>8. Cardinality(T) = n
  BY <1>1, <1>6, FS_CountingElements
<1> QED  BY <1>7, <1>8 DEF T, n

\* An open group of before takes more and may be sealed; a sealed one is as it was.
Continues(old, g, now) ==
    /\ g.created = old.created /\ g.claimed = old.claimed /\ g.consumed = old.consumed
    /\ g.status = old.status
    /\ old.sealed # Never => g = old
    /\ g.sealed \in {old.sealed, now}

Opened(g, now) ==
    /\ g.created = now /\ g.claimed = Never /\ g.consumed = Never /\ g.status = "pending"
    /\ g.sealed \in {Never, now}

Since(b, n, g, now) ==
    IF n \in DOMAIN group[b] THEN Continues(group[b][n], g, now) ELSE Opened(g, now)

Holds(files, n) ==
    LET g == files.groups[n]
    IN  /\ Elements(g.refs) = Of(files.seen, n) /\ Rising(g.refs)
        /\ Len(g.refs) \in 1 .. MaxRefs
        /\ g.sealed = Never => files.open = n /\ Len(g.refs) < MaxRefs
        /\ files.open = n => g.sealed = Never

\* After some items of a page.
Grouped(files, b, now) ==
    /\ \A n \in DOMAIN files.groups : Holds(files, n) /\ Since(b, n, files.groups[n], now)
    /\ \A i \in DOMAIN files.seen : files.seen[i].wake \in DOMAIN files.groups
    /\ DOMAIN group[b] \subseteq DOMAIN files.groups

LEMMA RisesOn ==
    ASSUME NEW s \in Seq(Nat), Rising(s), NEW N \in Nat, \A i \in DOMAIN s : s[i] < N
    PROVE  /\ Append(s, N) \in Seq(Nat) /\ Rising(Append(s, N))
           /\ Elements(Append(s, N)) = Elements(s) \cup {N}
           /\ Len(Append(s, N)) = Len(s) + 1 /\ Len(s) \in Nat
<1> DEFINE t == Append(s, N)
<1>1. /\ t \in Seq(Nat) /\ Len(t) = Len(s) + 1 /\ Len(s) \in Nat
      /\ DOMAIN t = DOMAIN s \cup {Len(s) + 1} /\ DOMAIN s = 1 .. Len(s)
      /\ \A i \in DOMAIN s : t[i] = s[i] /\ s[i] \in Nat
      /\ t[Len(s) + 1] = N
  BY AppendedTo
<1> HIDE DEF t
<1>2. Rising(t)
  <2> SUFFICES ASSUME NEW i \in DOMAIN t, NEW j \in DOMAIN t, i < j PROVE t[i] < t[j]
    BY DEF Rising
  <2>1. i \in DOMAIN s
    BY <1>1
  <2>2. CASE j \in DOMAIN s
    BY <1>1, <2>1, <2>2 DEF Rising
  <2>3. CASE j = Len(s) + 1
    BY <1>1, <2>1, <2>3
  <2> QED  BY <1>1, <2>2, <2>3
<1>3. Elements(t) = Elements(s) \cup {N}
  BY <1>1 DEF Elements
<1> QED  BY <1>1, <1>2, <1>3 DEF t

\* One more observation, of wake w.
LEMMA OfMore ==
    ASSUME NEW seen \in Seq(ObservationRecords), NEW new \in ObservationRecords
    PROVE  /\ Of(Append(seen, new), new.wake) = Of(seen, new.wake) \cup {Len(seen) + 1}
           /\ \A n : n # new.wake => Of(Append(seen, new), n) = Of(seen, n)
           /\ \A n : \A i \in Of(seen, n) : i \in Nat /\ i < Len(seen) + 1
<1> DEFINE more == Append(seen, new)
           N    == Len(seen) + 1
<1>1. /\ DOMAIN more = DOMAIN seen \cup {N} /\ DOMAIN seen = 1 .. Len(seen) /\ Len(seen) \in Nat
      /\ \A i \in DOMAIN seen : more[i] = seen[i]
      /\ more[N] = new
  BY AppendedTo
<1> HIDE DEF more
<1>2. Of(more, new.wake) = Of(seen, new.wake) \cup {N}
  BY <1>1 DEF Of
<1>3. ASSUME NEW n, n # new.wake PROVE Of(more, n) = Of(seen, n)
  BY <1>1, <1>3 DEF Of
<1>4. \A n : \A i \in Of(seen, n) : i \in Nat /\ i < N
  BY <1>1 DEF Of
<1> QED  BY <1>2, <1>3, <1>4 DEF more

\* The group an item is filed in, with what is added to it.
Filled(h, refs, sealed) == [h EXCEPT !.refs = refs, !.sealed = sealed]

Fillable(b, n, h, now) == h \in GroupRecords /\ h.sealed = Never /\ Since(b, n, h, now)

Fills(refs, sealed, now) == refs \in Seq(Nat) /\ sealed \in {Never, now}

Takes(b, n, g, refs, sealed, now) ==
    g \in GroupRecords /\ g.refs = refs /\ g.sealed = sealed /\ Since(b, n, g, now)

LEMMA GroupTakes ==
    ASSUME NEW b, NEW n, NEW now \in Nat \ {0}, NEW h, Fillable(b, n, h, now),
           NEW refs, NEW sealed, Fills(refs, sealed, now)
    PROVE  Takes(b, n, Filled(h, refs, sealed), refs, sealed, now)
<1> DEFINE g == Filled(h, refs, sealed)
<1>1. /\ sealed \in Nat /\ h \in GroupRecords /\ h.sealed = Never /\ Since(b, n, h, now)
      /\ refs \in Seq(Nat) /\ sealed \in {Never, now}
  BY DEF Never, Fillable, Fills
<1>2. /\ g \in GroupRecords /\ g.refs = refs /\ g.sealed = sealed
      /\ g.created = h.created /\ g.claimed = h.claimed /\ g.consumed = h.consumed
      /\ g.status = h.status
  BY <1>1 DEF GroupRecords, Filled
<1> HIDE DEF g
<1>3. ASSUME n \in DOMAIN group[b] PROVE Since(b, n, g, now)
  <2>1. Continues(group[b][n], h, now)
    BY <1>1, <1>3 DEF Since
  <2>2. group[b][n].sealed = Never
    BY <1>1, <2>1 DEF Continues
  <2>3. Continues(group[b][n], g, now)
    BY <1>1, <1>2, <2>1, <2>2 DEF Continues
  <2> QED  BY <1>3, <2>3 DEF Since
<1>4. ASSUME n \notin DOMAIN group[b] PROVE Since(b, n, g, now)
  <2>1. Opened(h, now)
    BY <1>1, <1>4 DEF Since
  <2>2. Opened(g, now)
    BY <1>1, <1>2, <2>1 DEF Opened
  <2> QED  BY <1>4, <2>2 DEF Since
<1> QED  BY <1>2, <1>3, <1>4 DEF Takes, g

LEMMA FileGroups ==
    ASSUME NEW b, NEW now \in Nat \ {0}, NEW files, FilesTyped(files), Grouped(files, b, now),
           NEW item \in Items, NEW r \in Nat
    PROVE  Grouped(File(files, item, r, now), b, now)
<1> DEFINE groups == IF files.open = Nothing THEN Append(files.groups, NewGroup(now))
                                             ELSE files.groups
           w      == IF files.open = Nothing THEN Len(groups) ELSE files.open
           N      == Len(files.seen) + 1
           h      == groups[w]
           refs   == Append(h.refs, N)
           full   == Len(refs) = MaxRefs
           sealed == IF full THEN now ELSE h.sealed
           g      == [h EXCEPT !.refs = refs, !.sealed = sealed]
           next   == [groups EXCEPT ![w] = g]
           new    == [key |-> item.key, print |-> item.print, wake |-> w, receipt |-> r]
           seen   == Append(files.seen, new)
           result == File(files, item, r, now)
<1>1. /\ result.groups = next /\ result.seen = seen
      /\ result.open = IF full THEN Nothing ELSE w
  BY DEF File
<1>2. /\ files.groups \in Seq(GroupRecords) /\ files.seen \in Seq(ObservationRecords)
      /\ files.open \in DOMAIN files.groups \cup {Nothing}
      /\ DOMAIN files.groups = 1 .. Len(files.groups) /\ Len(files.groups) \in Nat
  BY DEF FilesTyped
<1>3. /\ groups \in Seq(GroupRecords) /\ w \in DOMAIN groups /\ w \in Nat /\ w # Nothing
      /\ DOMAIN groups = DOMAIN files.groups \cup {w}
      /\ \A n \in DOMAIN groups \ {w} : groups[n] = files.groups[n] /\ n # files.open /\ n # Nothing
      /\ h \in GroupRecords /\ h.sealed = Never /\ Since(b, w, h, now)
      /\ Elements(h.refs) = Of(files.seen, w) /\ Rising(h.refs) /\ Len(h.refs) < MaxRefs
  <2>1. CASE files.open = Nothing
    <3>1. NewGroup(now) \in GroupRecords
      BY DEF NewGroup, GroupRecords, Never
    <3>2. /\ groups \in Seq(GroupRecords) /\ w = Len(files.groups) + 1
          /\ DOMAIN groups = DOMAIN files.groups \cup {w}
          /\ \A n \in DOMAIN files.groups : groups[n] = files.groups[n]
          /\ h = NewGroup(now)
      <4>1. groups = Append(files.groups, NewGroup(now)) /\ w = Len(groups)
        BY <2>1
      <4> HIDE DEF groups, w
      <4> QED  BY <1>2, <3>1, <4>1, AppendedTo
    <3> HIDE DEF groups, w
    <3>3. w \notin DOMAIN files.groups /\ w \in Nat /\ w # Nothing /\ Nothing \notin DOMAIN files.groups
      BY <1>2, <3>2 DEF Nothing
    <3>4. Of(files.seen, w) = {}
      BY <3>3 DEF Of, Grouped
    <3>5. /\ h.refs = <<>> /\ h.sealed = Never /\ h.created = now /\ h.claimed = Never
          /\ h.consumed = Never /\ h.status = "pending"
      BY <3>2 DEF NewGroup
    <3>6. Since(b, w, h, now)
      <4>1. w \notin DOMAIN group[b]
        BY <3>3 DEF Grouped
      <4> QED  BY <3>5, <4>1 DEF Since, Opened
    <3>7. Elements(h.refs) = {} /\ Rising(h.refs) /\ Len(h.refs) < MaxRefs
      BY <3>5, LimitAssumption DEF Elements, Rising
    <3> QED  BY <2>1, <3>1, <3>2, <3>3, <3>4, <3>5, <3>6, <3>7
  <2>2. CASE files.open # Nothing
    <3>1. groups = files.groups /\ w = files.open /\ w \in DOMAIN files.groups /\ w \in Nat
      BY <1>2, <2>2
    <3> HIDE DEF groups, w
    <3>2. Holds(files, w) /\ Since(b, w, files.groups[w], now)
      BY <3>1 DEF Grouped
    <3>3. /\ h.sealed = Never /\ Elements(h.refs) = Of(files.seen, w) /\ Rising(h.refs)
          /\ Len(h.refs) < MaxRefs
      BY <3>1, <3>2 DEF Holds
    <3>4. Nothing \notin DOMAIN groups
      BY <1>2, <3>1 DEF Nothing
    <3>5. h \in GroupRecords /\ groups \in Seq(GroupRecords)
      BY <1>2, <3>1
    <3> QED  BY <2>2, <3>1, <3>2, <3>3, <3>4, <3>5
  <2> QED  BY <2>1, <2>2
<1> HIDE DEF groups, w, h
<1>4. h.refs \in Seq(Nat)
  <2>1. \A x \in GroupRecords : x.refs \in Seq(Nat)
    BY DEF GroupRecords
  <2> QED  BY <1>3, <2>1
<1>5. new \in ObservationRecords /\ new.wake = w
  BY <1>3 DEF ObservationRecords, Items
<1> HIDE DEF new
<1>6. /\ Of(seen, w) = Of(files.seen, w) \cup {N}
      /\ \A n : n # w => Of(seen, n) = Of(files.seen, n)
      /\ \A i \in Of(files.seen, w) : i \in Nat /\ i < N
  BY <1>2, <1>5, OfMore
<1>7. N \in Nat
  BY <1>2
<1>8. /\ DOMAIN seen = DOMAIN files.seen \cup {N} /\ seen[N] = new
      /\ \A i \in DOMAIN files.seen : seen[i] = files.seen[i]
  BY <1>2, <1>5, AppendedTo
<1> HIDE DEF seen, N
<1>9. /\ refs \in Seq(Nat) /\ Rising(refs) /\ Elements(refs) = Elements(h.refs) \cup {N}
      /\ Len(refs) = Len(h.refs) + 1 /\ Len(h.refs) \in Nat
  <2>1. \A i \in DOMAIN h.refs : h.refs[i] < N
    <3>1. \A i \in DOMAIN h.refs : h.refs[i] \in Of(files.seen, w)
      BY <1>3 DEF Elements
    <3> QED  BY <1>6, <3>1
  <2> QED  BY <1>3, <1>4, <1>7, <2>1, RisesOn
<1> HIDE DEF refs
<1>10. Len(refs) \in 1 .. MaxRefs /\ (~full => Len(refs) < MaxRefs)
  <2>1. Len(h.refs) < MaxRefs /\ MaxRefs \in Nat
    BY <1>3, LimitAssumption
  <2> QED  BY <1>9, <2>1
<1>11. /\ sealed \in {Never, now} /\ (full => sealed = now) /\ (~full => sealed = Never)
       /\ now # Never
  BY <1>3 DEF Never
<1> HIDE DEF full, sealed
<1>12. g \in GroupRecords /\ g.refs = refs /\ g.sealed = sealed /\ Since(b, w, g, now)
  <2>1. g = Filled(h, refs, sealed)
    BY DEF Filled
  <2>2. Fillable(b, w, h, now)
    BY <1>3 DEF Fillable
  <2>3. Fills(refs, sealed, now)
    BY <1>9, <1>11 DEF Fills
  <2> HIDE DEF g
  <2>4. Takes(b, w, Filled(h, refs, sealed), refs, sealed, now)
    BY <2>2, <2>3, GroupTakes, Zenon
  <2> QED  BY <2>1, <2>4 DEF Takes
<1> HIDE DEF g
<1>13. /\ DOMAIN next = DOMAIN groups /\ next[w] = g
       /\ \A n \in DOMAIN groups \ {w} : next[n] = groups[n]
  BY <1>3
<1> HIDE DEF next, result
<1>14. ASSUME NEW n \in DOMAIN result.groups
       PROVE  Holds(result, n) /\ Since(b, n, result.groups[n], now)
  <2>1. CASE n = w
    <3>1. result.groups[n] = g /\ Of(result.seen, n) = Elements(refs)
      BY <1>1, <1>3, <1>6, <1>9, <1>13, <2>1
    <3>2. result.open = n <=> ~full
      BY <1>1, <1>3, <2>1
    <3>3. Holds(result, n)
      BY <1>9, <1>10, <1>11, <1>12, <3>1, <3>2 DEF Holds
    <3> QED  BY <1>12, <2>1, <3>1, <3>3
  <2>2. CASE n # w
    <3>1. n \in DOMAIN files.groups /\ n \in DOMAIN groups \ {w}
      BY <1>1, <1>3, <1>13, <2>2
    <3>2. result.groups[n] = files.groups[n] /\ Of(result.seen, n) = Of(files.seen, n)
      BY <1>1, <1>3, <1>6, <1>13, <2>2, <3>1
    <3>3. Holds(files, n) /\ Since(b, n, files.groups[n], now) /\ files.open # n
      BY <1>3, <3>1 DEF Grouped
    <3>4. result.open # n
      BY <1>1, <1>3, <2>2, <3>1
    <3>5. Holds(result, n)
      BY <3>2, <3>3, <3>4 DEF Holds
    <3> QED  BY <3>2, <3>3, <3>5
  <2> QED  BY <2>1, <2>2
<1>15. \A i \in DOMAIN result.seen : result.seen[i].wake \in DOMAIN result.groups
  <2> SUFFICES ASSUME NEW i \in DOMAIN seen PROVE seen[i].wake \in DOMAIN groups
    BY <1>1, <1>13
  <2>1. CASE i = N
    BY <1>3, <1>5, <1>8, <2>1
  <2>2. CASE i \in DOMAIN files.seen
    BY <1>3, <1>8, <2>2 DEF Grouped
  <2> QED  BY <1>8, <2>1, <2>2
<1>16. DOMAIN group[b] \subseteq DOMAIN result.groups
  BY <1>1, <1>3, <1>13 DEF Grouped
<1>17. Grouped(result, b, now)
  BY <1>14, <1>15, <1>16 DEF Grouped
<1> QED  BY <1>17 DEF result

\* stores/perception.py, persist_page: the loop over the items.
LEMMA PageGrouped ==
    ASSUME NEW b, FilesTyped(Start(b)), NEW page \in Seq(Items), NEW r \in Nat,
           NEW now \in Nat \ {0}, Grouped(Start(b), b, now)
    PROVE  Grouped(Filed(b, page, r, now), b, now)
<1> DEFINE files   == Filings(b, page, r, now)
           Good(n) == FilesTyped(files[n]) /\ Grouped(files[n], b, now)
           Bad     == {n \in 0 .. Len(page) : ~Good(n)}
<1>1. Len(page) \in Nat /\ \A n \in 1 .. Len(page) : page[n] \in Items
  OBVIOUS
<1>2. files[0] = Start(b)
  BY <1>1, FilingsSteps
<1>3. \A n \in 1 .. Len(page) : files[n] = AddNew(files[n - 1], page[n], r, now)
  BY <1>1, FilingsSteps
<1> HIDE DEF files
<1>4. ASSUME Bad # {} PROVE FALSE
  <2>1. PICK n \in Bad : \A k \in Bad : n <= k
    <3>1. Bad \in SUBSET Nat
      BY <1>1
    <3> QED  BY <1>4, <3>1, LeastExists
  <2>2. n \in 0 .. Len(page) /\ ~Good(n)
    BY <2>1
  <2>3. n # 0
    BY <1>2, <2>2
  <2>4. n - 1 \in 0 .. Len(page) /\ n \in 1 .. Len(page) /\ ~(n <= n - 1)
    BY <1>1, <2>2, <2>3
  <2>5. Good(n - 1)
    BY <2>1, <2>4
  <2>6. page[n] \in Items /\ files[n] = AddNew(files[n - 1], page[n], r, now)
    BY <1>1, <1>3, <2>4
  <2>7. FilesTyped(files[n]) /\ Grouped(files[n], b, now)
    <3>1. FilesTyped(File(files[n - 1], page[n], r, now))
      BY <2>5, <2>6, FileTyped
    <3>2. Grouped(File(files[n - 1], page[n], r, now), b, now)
      BY <2>5, <2>6, FileGroups
    <3> QED  BY <2>5, <2>6, <3>1, <3>2 DEF AddNew
  <2> QED  BY <2>2, <2>7
<1>5. Len(page) \in 0 .. Len(page)
  BY <1>1
<1> QED  BY <1>4, <1>5 DEF Filed, files

-----------------------------------------------------------------------------
(* A page and the groups of its binding *)

LEMMA MembersNext ==
    ASSUME NEW b, NEW n
    PROVE  /\ Members(<<b, n>>) = Of(observation[b], n)
           /\ Members(<<b, n>>)' = Of(observation'[b], n)
<1>1. <<b, n>>[1] = b /\ <<b, n>>[2] = n
  OBVIOUS
<1> QED  BY <1>1 DEF Members, Of

LEMMA WholeParts ==
    ASSUME NEW b, WholeOf(b), NEW n \in DOMAIN group[b]
    PROVE  Listed(b, n) /\ Dated(b, n) /\ Pointed(b, n) /\ Attended(b, n)
<1>1. InboundValid(<<b, n>>)
  BY DEF WholeOf
<1> QED  BY <1>1, ValidInParts

\* Whatever happens to the cycles, it does not happen to those of a wake.
CyclesStay(b, n) ==
    /\ CyclesOf(<<b, n>>)' = CyclesOf(<<b, n>>)
    /\ \A c \in CyclesOf(<<b, n>>) : cycles'[c] = cycles[c]

\* A wake that is left alone.
LEMMA ValidStays ==
    ASSUME NEW b, NEW n, Listed(b, n), Dated(b, n), Pointed(b, n), Attended(b, n),
           group'[b][n] = group[b][n], observation'[b] = observation[b], receipt'[b] = receipt[b],
           binding'[b].pending = n <=> binding[b].pending = n,
           CyclesStay(b, n)
    PROVE  InboundValid(<<b, n>>)'
<1>1. Members(<<b, n>>)' = Members(<<b, n>>)
  BY MembersNext
<1>2. Listed(b, n)'
  BY <1>1 DEF Listed
<1>3. Dated(b, n)'
  BY <1>1 DEF Dated, RecordedAt
<1>4. Pointed(b, n)'
  BY DEF Pointed
<1>5. Attended(b, n)'
  <2>1. \A c \in CyclesOf(<<b, n>>) : c \in DOMAIN cycles /\ c \in DOMAIN cycles'
    BY DEF CyclesStay, CyclesOf
  <2> QED  BY <2>1 DEF Attended, CyclesStay
<1> QED  BY <1>2, <1>3, <1>4, <1>5, ValidNext

LEMMA WholeStays ==
    ASSUME NEW b, WholeOf(b), group'[b] = group[b], observation'[b] = observation[b],
           receipt'[b] = receipt[b], binding'[b].pending = binding[b].pending,
           \A n \in DOMAIN group[b] : CyclesStay(b, n)
    PROVE  WholeOf(b)'
<1>1. ASSUME NEW n \in DOMAIN group[b] PROVE InboundValid(<<b, n>>)'
  BY WholeParts, ValidStays
<1> QED  BY <1>1 DEF WholeOf, OpenWakes

LEMMA GroupsStart ==
    ASSUME TypeOK, NEW b \in Bindings, WholeOf(b), NEW now
    PROVE  Grouped(Start(b), b, now)
<1>1. ASSUME NEW n \in DOMAIN group[b]
      PROVE  Holds(Start(b), n) /\ Since(b, n, group[b][n], now)
  <2>1. Listed(b, n) /\ Pointed(b, n)
    BY WholeParts
  <2>2. group[b][n].refs \in Seq(Nat)
    BY GroupRow
  <2>3. Cardinality(Elements(group[b][n].refs)) = Len(group[b][n].refs)
    BY <2>1, <2>2, RisingCounts DEF Listed
  <2>4. Len(group[b][n].refs) \in 1 .. MaxRefs
    BY <2>1, <2>3 DEF Listed
  <2>5. Elements(group[b][n].refs) = Of(observation[b], n) /\ Rising(group[b][n].refs)
    BY <2>1, MembersNext DEF Listed
  <2>6. Holds(Start(b), n)
    BY <2>1, <2>4, <2>5 DEF Holds, Start, Pointed
  <2>7. Since(b, n, group[b][n], now)
    BY DEF Since, Continues
  <2> QED  BY <2>6, <2>7
<1> QED  BY <1>1 DEF Grouped, Start, WholeOf

\* What was recorded before, and what is now.
LEMMA RecordedNext ==
    ASSUME TypeOK, NEW b \in Bindings, RowsSound(b), EvidenceOf(b),
           NEW r, r = Len(receipt[b]) + 1, NEW now \in Nat, now >= binding[b].updated,
           NEW new \in ReceiptRecords, new.recorded = now,
           receipt'[b] = Append(receipt[b], new),
           DOMAIN observation[b] \subseteq DOMAIN observation'[b],
           \A i \in DOMAIN observation[b] : observation'[b][i] = observation[b][i],
           \A i \in DOMAIN observation'[b] \ DOMAIN observation[b] :
               observation'[b][i].receipt = r
    PROVE  /\ \A i \in DOMAIN observation[b] :
                 /\ RecordedAt(b, i)' = RecordedAt(b, i) /\ RecordedAt(b, i) \in Nat
                 /\ RecordedAt(b, i) <= binding[b].updated /\ RecordedAt(b, i) <= now
           /\ \A i \in DOMAIN observation'[b] \ DOMAIN observation[b] : RecordedAt(b, i)' = now
<1>1. /\ receipt[b] \in Seq(ReceiptRecords) /\ binding[b].updated \in Nat
      /\ \A n \in DOMAIN receipt[b] : receipt[b][n].recorded \in Nat
  BY Rows
<1>2. /\ \A n \in DOMAIN receipt[b] : receipt'[b][n] = receipt[b][n]
      /\ receipt'[b][r] = new
  BY <1>1, AppendedTo
<1>3. ASSUME NEW i \in DOMAIN observation[b]
      PROVE  /\ RecordedAt(b, i)' = RecordedAt(b, i) /\ RecordedAt(b, i) \in Nat
             /\ RecordedAt(b, i) <= binding[b].updated /\ RecordedAt(b, i) <= now
  <2>1. observation[b][i].receipt \in DOMAIN receipt[b]
    BY DEF RowsSound
  <2>2. ReceiptSound(b, observation[b][i].receipt)
    BY <2>1 DEF EvidenceOf
  <2>3. RecordedAt(b, i) <= binding[b].updated /\ RecordedAt(b, i) \in Nat
    BY <1>1, <2>1, <2>2 DEF ReceiptSound, RecordedAt
  <2> QED  BY <1>1, <1>2, <2>1, <2>3 DEF RecordedAt
<1>4. ASSUME NEW i \in DOMAIN observation'[b] \ DOMAIN observation[b]
      PROVE  RecordedAt(b, i)' = now
  BY <1>2 DEF RecordedAt
<1> QED  BY <1>3, <1>4

LEMMA PageWhole ==
    ASSUME TypeOK, NEW b \in Bindings, RowsSound(b), EvidenceOf(b), WholeOf(b), CyclesKnown,
           NEW r, r = Len(receipt[b]) + 1, NEW now \in Nat \ {0}, now >= binding[b].updated,
           NEW new \in ReceiptRecords, new.recorded = now,
           NEW files, FilesTyped(files), Grouped(files, b, now),
           group'[b] = files.groups, observation'[b] = files.seen,
           receipt'[b] = Append(receipt[b], new), binding'[b].pending = files.open,
           cycles' = cycles,
           DOMAIN observation[b] \subseteq DOMAIN files.seen,
           \A i \in DOMAIN observation[b] : files.seen[i] = observation[b][i],
           \A i \in DOMAIN files.seen \ DOMAIN observation[b] : files.seen[i].receipt = r
    PROVE  WholeOf(b)'
<1>1. /\ \A i \in DOMAIN observation[b] :
            /\ RecordedAt(b, i)' = RecordedAt(b, i) /\ RecordedAt(b, i) \in Nat
            /\ RecordedAt(b, i) <= binding[b].updated /\ RecordedAt(b, i) <= now
      /\ \A i \in DOMAIN files.seen \ DOMAIN observation[b] : RecordedAt(b, i)' = now
  BY RecordedNext
<1>2. /\ files.groups \in Seq(GroupRecords) /\ files.open \in DOMAIN files.groups \cup {Nothing}
      /\ DOMAIN files.groups = 1 .. Len(files.groups)
  BY DEF FilesTyped
<1>a. binding[b].updated \in Nat
  BY Rows
<1>3. ASSUME NEW n \in DOMAIN files.groups PROVE InboundValid(<<b, n>>)'
  <2> DEFINE g == files.groups[n]
             M == Of(files.seen, n)
  <2>1. Holds(files, n) /\ Since(b, n, g, now)
    BY DEF Grouped
  <2>2. /\ Elements(g.refs) = M /\ Rising(g.refs) /\ Len(g.refs) \in 1 .. MaxRefs
        /\ g.sealed = Never => files.open = n /\ Len(g.refs) < MaxRefs
        /\ files.open = n => g.sealed = Never
    BY <2>1 DEF Holds
  <2>3. Members(<<b, n>>)' = M /\ group'[b][n] = g
    BY MembersNext
  <2>4. g \in GroupRecords /\ n \in Nat
    BY <1>2
  <2> HIDE DEF g, M
  <2>5. g.refs \in Seq(Nat)
    BY <2>4 DEF GroupRecords
  <2>6. Listed(b, n)'
    <3>1. Cardinality(M) = Len(g.refs)
      BY <2>2, <2>5, RisingCounts
    <3> QED  BY <2>2, <2>3, <3>1 DEF Listed
  <2>7. CASE n \in DOMAIN group[b]
    <3> DEFINE h == group[b][n]
    <3>1. Continues(h, g, now)
      BY <2>1, <2>7 DEF Since
    <3>2. Listed(b, n) /\ Dated(b, n) /\ Pointed(b, n) /\ Attended(b, n)
      BY <2>7, WholeParts
    <3>3. h.created \in Nat /\ h.sealed \in Nat
      BY <2>7, GroupRow
    <3>4. CyclesOf(<<b, n>>)' = CyclesOf(<<b, n>>)
      BY DEF CyclesOf
    <3>5. Members(<<b, n>>) = Of(observation[b], n)
      BY MembersNext
    <3>6. CASE h.sealed # Never
      <4>1. g = h
        BY <3>1, <3>6 DEF Continues
      <4>2. M = Members(<<b, n>>)
        BY <2>2, <3>2, <4>1 DEF Listed
      <4>3. M \subseteq DOMAIN observation[b]
        BY <3>5, <4>2 DEF Of
      <4>4. Dated(b, n)'
        BY <1>1, <2>3, <3>2, <4>1, <4>2, <4>3 DEF Dated
      <4>5. Pointed(b, n)'
        <5>1. g.sealed # Never /\ g.sealed >= g.created /\ files.open # n
          BY <2>2, <3>2, <3>6, <4>1 DEF Pointed
        <5> QED  BY <2>3, <5>1 DEF Pointed
      <4>6. Attended(b, n)'
        BY <2>3, <3>2, <3>4, <4>1 DEF Attended
      <4> QED  BY <2>6, <4>4, <4>5, <4>6, ValidNext
    <3>7. CASE h.sealed = Never
      <4>1. /\ g.created = h.created /\ g.claimed = h.claimed /\ g.status = h.status
            /\ g.sealed \in {Never, now} /\ h.status = "pending"
        BY <3>1, <3>2, <3>7 DEF Continues, Pointed
      <4>2. h.created <= now
        <5>1. Members(<<b, n>>) # {}
          <6>1. Cardinality(Members(<<b, n>>)) # 0
            BY <3>2 DEF Listed
          <6> QED  BY <6>1, FS_EmptySet
        <5>2. PICK i \in Members(<<b, n>>) : TRUE
          BY <5>1
        <5>3. i \in DOMAIN observation[b] /\ RecordedAt(b, i) >= h.created
          BY <3>2, <3>5, <5>2 DEF Of, Dated
        <5> QED  BY <1>1, <3>3, <5>3
      <4>3. Dated(b, n)'
        <5> SUFFICES ASSUME NEW i \in M
                     PROVE  /\ RecordedAt(b, i)' >= g.created
                            /\ g.sealed # Never => RecordedAt(b, i)' <= g.sealed
          BY <2>3 DEF Dated
        <5>1. CASE i \in DOMAIN observation[b]
          <6>1. i \in Members(<<b, n>>)
            BY <3>5, <5>1 DEF M, Of
          <6>2. RecordedAt(b, i) >= h.created
            BY <3>2, <6>1 DEF Dated
          <6> QED  BY <1>1, <4>1, <5>1, <6>2
        <5>2. CASE i \notin DOMAIN observation[b]
          <6>1. RecordedAt(b, i)' = now
            BY <1>1, <5>2 DEF M, Of
          <6> QED  BY <3>3, <4>1, <4>2, <6>1
        <5> QED  BY <5>1, <5>2
      <4>4. Pointed(b, n)'
        BY <2>2, <2>3, <3>3, <4>1, <4>2 DEF Pointed
      <4>5. Attended(b, n)'
        BY <2>3, <3>2, <3>4, <4>1 DEF Attended
      <4> QED  BY <2>6, <4>3, <4>4, <4>5, ValidNext
    <3> QED  BY <3>6, <3>7
  <2>8. CASE n \notin DOMAIN group[b]
    <3>1. Opened(g, now)
      BY <2>1, <2>8 DEF Since
    <3>2. /\ g.created = now /\ g.claimed = Never /\ g.status = "pending"
          /\ g.sealed \in {Never, now}
      BY <3>1 DEF Opened
    <3>3. CyclesOf(<<b, n>>)' = {}
      BY <2>4, <2>8 DEF CyclesOf, CyclesKnown
    <3>4. ASSUME NEW i \in M PROVE RecordedAt(b, i)' = now
      <4>1. i \in DOMAIN files.seen /\ files.seen[i].wake = n
        BY DEF M, Of
      <4>2. i \notin DOMAIN observation[b]
        BY <2>8, <4>1 DEF WholeOf
      <4> QED  BY <1>1, <4>1, <4>2
    <3>5. Dated(b, n)'
      BY <2>3, <3>2, <3>4 DEF Dated
    <3>6. Pointed(b, n)'
      BY <2>2, <2>3, <3>2 DEF Pointed
    <3>7. Attended(b, n)'
      BY <2>3, <3>2, <3>3 DEF Attended
    <3> QED  BY <2>6, <3>5, <3>6, <3>7, ValidNext
  <2> QED  BY <2>7, <2>8
<1>4. OpenWakes(b)' = {binding'[b].pending} \ {Nothing}
  <2>1. ASSUME NEW n \in DOMAIN files.groups
        PROVE  files.groups[n].sealed = Never <=> files.open = n
    <3>1. Holds(files, n)
      BY DEF Grouped
    <3> QED  BY <3>1 DEF Holds
  <2>2. Nothing \notin DOMAIN files.groups
    BY <1>2 DEF Nothing
  <2> QED  BY <1>2, <2>1, <2>2 DEF OpenWakes
<1>5. ASSUME NEW n \in DOMAIN files.groups, files.groups[n].status = "pending"
      PROVE  files.groups[n].consumed = Never
  <2>1. Since(b, n, files.groups[n], now)
    BY DEF Grouped
  <2>2. CASE n \in DOMAIN group[b]
    <3>1. group[b][n].status = "pending" => group[b][n].consumed = Never
      BY <2>2 DEF WholeOf
    <3> QED  BY <1>5, <2>1, <2>2, <3>1 DEF Since, Continues
  <2>3. CASE n \notin DOMAIN group[b]
    BY <2>1, <2>3 DEF Since, Opened
  <2> QED  BY <2>2, <2>3
<1> QED  BY <1>3, <1>4, <1>5 DEF WholeOf, Grouped

-----------------------------------------------------------------------------
(* Time *)

LEMMA LesserOf ==
    ASSUME NEW x \in Nat, NEW y \in Nat
    PROVE  Min({x, y}) = IF x <= y THEN x ELSE y
<1>1. \E u \in {x, y} : \A v \in {x, y} : u <= v
  OBVIOUS
<1> QED  BY <1>1 DEF Min

LEMMA ClockPositive ==
    ASSUME TypeOK, Timely, NEW p \in Processes
    PROVE  Now(p) >= 1
<1>1. clock + Skew[p] \in Nat /\ clock + Skew[p] >= 1 /\ Horizon \in Nat /\ Horizon >= 1
  BY ProcessAssumption, PerceptionBounds DEF TypeOK, Timely
<1>2. Min({clock + Skew[p], Horizon}) = IF clock + Skew[p] <= Horizon THEN clock + Skew[p] ELSE Horizon
  BY <1>1, LesserOf
<1> QED  BY <1>1, <1>2 DEF Now

LEMMA ClockGoesOn ==
    ASSUME TypeOK, clock' \in Nat, clock' >= clock, NEW p \in Processes
    PROVE  Now(p)' >= Now(p) /\ Now(p)' \in Nat
<1>1. /\ clock + Skew[p] \in Nat /\ clock' + Skew[p] \in Nat /\ Horizon \in Nat
      /\ clock' + Skew[p] >= clock + Skew[p]
  BY ProcessAssumption, PerceptionBounds DEF TypeOK
<1>2. /\ Min({clock + Skew[p], Horizon}) = IF clock + Skew[p] <= Horizon THEN clock + Skew[p] ELSE Horizon
      /\ Min({clock' + Skew[p], Horizon})
             = IF clock' + Skew[p] <= Horizon THEN clock' + Skew[p] ELSE Horizon
  BY <1>1, LesserOf
<1> QED  BY <1>1, <1>2 DEF Now

LEMMA Placed ==
    ASSUME TypeOK, NEW p \in Processes, NEW place, Goto(p, place)
    PROVE  pc'[p] = place /\ \A q \in Processes \ {p} : pc'[q] = pc[q]
BY DEF TypeOK, Goto

LEMMA Elsewhere ==
    ASSUME TypeOK, NEW p \in Processes, NEW m, mem' = [mem EXCEPT ![p] = m]
    PROVE  mem'[p] = m /\ \A q \in Processes \ {p} : mem'[q] = mem[q]
BY DEF TypeOK

\* Every process has its time, whatever one of them does.
LEMMA ClocksOfAll ==
    ASSUME Timely, NEW p \in Processes,
           \A q \in Processes \ {p} : pc'[q] = pc[q] /\ mem'[q] = mem[q], ClockOf(p)'
    PROVE  \A q \in Processes : ClockOf(q)'
BY DEF Timely, ClockOf

LEMMA ClockOfResting ==
    ASSUME TypeOK, Timely, NEW p \in Processes, NEW place,
           place \notin {"ready", "cycle", "persist"}, Goto(p, place), NEW m,
           mem' = [mem EXCEPT ![p] = m]
    PROVE  \A q \in Processes : ClockOf(q)'
<1>1. ClockOf(p)'
  BY Placed DEF ClockOf
<1> QED  BY <1>1, Placed, Elsewhere, ClocksOfAll

LEMMA ClockOfLeaving ==
    ASSUME TypeOK, Timely, NEW p \in Processes, Leave(p)
    PROVE  \A q \in Processes : ClockOf(q)'
BY ClockOfResting DEF Leave

LEMMA ClockOfRunning ==
    ASSUME TypeOK, Timely, NEW p \in Processes, Owns(p, "ready"), Goto(p, "cycle"), mem' = mem
    PROVE  \A q \in Processes : ClockOf(q)'
<1>1. p \in Runners
  BY DEF Owns, Timely, ClockOf
<1>2. ClockOf(p)'
  BY <1>1, Placed DEF ClockOf
<1> QED  BY <1>2, Placed, ClocksOfAll

LEMMA ClocksAfterProcess ==
    ASSUME TypeOK, Timely, NEW p \in Processes, Process(p) \/ Crash(p) \/ TransactionFails(p)
    PROVE  \A q \in Processes : ClockOf(q)'
<1>1. CASE Leave(p)
  BY <1>1, ClockOfLeaving
<1>2. CASE Acquire(p)
  <2>1. Now(p) >= 1
    BY ClockPositive
  <2>2. CASE Goto(p, "snapshot") /\ \E b \in Bindings : mem' = [mem EXCEPT ![p] = [NoMem EXCEPT !.at = b]]
    BY <2>2, ClockOfResting
  <2>3. CASE /\ p \in Runners /\ Goto(p, "ready")
             /\ mem' = [mem EXCEPT ![p] = [NoMem EXCEPT !.started = Now(p)]]
    <3> DEFINE t == Now(p)
               m == [NoMem EXCEPT !.started = t]
    <3>1. m.started = t
      BY DEF NoMem
    <3>2. mem' = [mem EXCEPT ![p] = m]
      BY <2>3
    <3> HIDE DEF t, m
    <3>3. mem'[p] = m /\ \A q \in Processes \ {p} : mem'[q] = mem[q]
      BY <3>2, Elsewhere
    <3>4. pc'[p] = "ready" /\ \A q \in Processes \ {p} : pc'[q] = pc[q]
      BY <2>3, Placed
    <3>5. t >= 1
      BY <2>1 DEF t
    <3>6. ClockOf(p)'
      BY <2>3, <3>1, <3>3, <3>4, <3>5 DEF ClockOf
    <3> QED  BY <3>3, <3>4, <3>6, ClocksOfAll
  <2> QED  BY <1>2, <2>2, <2>3 DEF Acquire
<1>3. CASE Snapshot(p)
  <2>1. CASE Goto(p, "poll") /\ mem' = [mem EXCEPT ![p].snap = Snap(mem[p].at)]
    <3>1. PICK m : m = [mem[p] EXCEPT !.snap = Snap(mem[p].at)]
      OBVIOUS
    <3>2. mem' = [mem EXCEPT ![p] = m]
      BY <2>1, <3>1
    <3> QED  BY <2>1, <3>2, ClockOfResting
  <2> QED  BY <1>1, <1>3, <2>1 DEF Snapshot
<1>4. CASE Poll(p)
  <2>1. PICK page, d : mem' = [mem EXCEPT ![p].page = page, ![p].next = d, ![p].observed = Now(p)]
    BY <1>4 DEF Poll
  <2>2. PICK t : t = Now(p)
    OBVIOUS
  <2>3. t >= 1
    BY <2>2, ClockPositive
  <2>4. mem \in [Processes -> MemRecords] /\ mem[p] \in MemRecords
    BY DEF TypeOK
  <2>5. mem'[p].observed = t /\ \A q \in Processes \ {p} : mem'[q] = mem[q]
    BY <2>1, <2>2, <2>4 DEF MemRecords
  <2>6. pc'[p] = "persist" /\ \A q \in Processes \ {p} : pc'[q] = pc[q]
    BY <1>4, Placed DEF Poll
  <2>7. ClockOf(p)'
    BY <2>3, <2>5, <2>6 DEF ClockOf
  <2> QED  BY <2>5, <2>6, <2>7, ClocksOfAll
<1>5. CASE Close(p)
  <2>1. mem' = [mem EXCEPT ![p] = mem[p]] /\ Goto(p, "idle")
    BY <1>5 DEF Close, TypeOK
  <2> QED  BY <2>1, ClockOfResting
<1>6. CASE NoticeLoss(p) \/ Crash(p)
  BY <1>6, ClockOfResting DEF NoticeLoss, Crash, Gone
<1>7. CASE Resume(p) \/ ClaimInbound(p) \/ ClaimBatch(p)
  <2>1. Owns(p, "ready") /\ Goto(p, "cycle") /\ mem' = mem
    BY <1>7 DEF Resume, ClaimInbound, ClaimBatch, Starting, StartCycle
  <2> QED  BY <2>1, ClockOfRunning
<1>8. CASE Run(p)
  BY <1>1, <1>7, <1>8 DEF Run, RunEnds, StartBlocked, Idle, ClaimFails, FinishCycle, LeaveCycle
<1>9. CASE Ingest(p)
  BY <1>1, <1>3, <1>4, <1>9 DEF Ingest, PollFails, Persist
<1> QED  BY <1>1, <1>2, <1>5, <1>6, <1>8, <1>9 DEF Process, TransactionFails

LEMMA ClocksAfterOthers ==
    ASSUME TypeOK, Timely,
           SessionLost \/ Reap \/ Administer \/ PostOrdinary \/ Tick \/ UNCHANGED vars
    PROVE  \A q \in Processes : ClockOf(q)'
<1>1. /\ pc' = pc
      /\ \A q \in Processes : /\ mem'[q].started = mem[q].started
                              /\ mem'[q].observed = mem[q].observed
  <2>1. CASE pc' = pc /\ mem' = mem
    BY <2>1
  <2>2. CASE pc' = pc /\ \E B \in SUBSET Bindings : Revoke(B)
    <3>1. PICK B : Revoke(B)
      BY <2>2
    <3>2. \A q \in Processes : mem'[q] = IF pc[q] \in {"poll", "persist"} /\ mem[q].at \in B
                                         THEN [mem[q] EXCEPT !.revoked = TRUE] ELSE mem[q]
      BY <3>1 DEF Revoke
    <3>3. ASSUME NEW q \in Processes
          PROVE  /\ mem'[q].started = mem[q].started /\ mem'[q].observed = mem[q].observed
      <4>1. mem[q] \in MemRecords
        BY DEF TypeOK
      <4>2. /\ [mem[q] EXCEPT !.revoked = TRUE].started = mem[q].started
            /\ [mem[q] EXCEPT !.revoked = TRUE].observed = mem[q].observed
        BY <4>1 DEF MemRecords
      <4> QED  BY <3>2, <4>2
    <3> QED  BY <2>2, <3>3
  <2>3. CASE SetEnabled
    <3>1. PICK b \in Bindings : Revoke({b})
      BY <2>3 DEF SetEnabled
    <3> QED  BY <2>2, <2>3, <3>1 DEF SetEnabled
  <2>4. CASE ChangeLifecycle \/ UpdateGovernance
    BY <2>2, <2>4 DEF ChangeLifecycle, UpdateGovernance
  <2> QED  BY <2>1, <2>3, <2>4 DEF SessionLost, Reap, SessionEnds, Administer, Register, EditSource,
                                   PostOrdinary, Tick, vars, process
<1> QED  BY <1>1 DEF Timely, ClockOf

-----------------------------------------------------------------------------
(* Cycles and the groups they attend to *)

LEMMA CycleAppended ==
    ASSUME TypeOK, NEW e \in CycleRecords, cycles' = Append(cycles, e)
    PROVE  /\ \A w : w \notin e.wakes => /\ CyclesOf(w)' = CyclesOf(w)
                                         /\ \A c \in CyclesOf(w) : cycles'[c] = cycles[c]
           /\ \A w : w \in e.wakes => CyclesOf(w)' = CyclesOf(w) \cup {Len(cycles) + 1}
           /\ cycles'[Len(cycles) + 1] = e /\ Len(cycles) + 1 \in DOMAIN cycles'
           /\ DOMAIN cycles' = DOMAIN cycles \cup {Len(cycles) + 1}
           /\ \A c \in DOMAIN cycles : cycles'[c] = cycles[c]
           /\ Latest(cycles)' = e /\ cycles' # <<>>
<1>1. cycles \in Seq(CycleRecords)
  BY DEF TypeOK
<1>2. /\ cycles' \in Seq(CycleRecords) /\ Len(cycles') = Len(cycles) + 1
      /\ DOMAIN cycles' = DOMAIN cycles \cup {Len(cycles) + 1}
      /\ \A c \in DOMAIN cycles : cycles'[c] = cycles[c]
      /\ cycles'[Len(cycles) + 1] = e
  BY <1>1, AppendedTo
<1>3. Len(cycles) + 1 \notin DOMAIN cycles
  BY <1>1
<1>4. Latest(cycles)' = e /\ cycles' # <<>>
  BY <1>2 DEF Latest
<1>5. ASSUME NEW w, w \notin e.wakes
      PROVE  CyclesOf(w)' = CyclesOf(w) /\ \A c \in CyclesOf(w) : cycles'[c] = cycles[c]
  BY <1>2, <1>5 DEF CyclesOf
<1>6. ASSUME NEW w, w \in e.wakes PROVE CyclesOf(w)' = CyclesOf(w) \cup {Len(cycles) + 1}
  BY <1>2, <1>6 DEF CyclesOf
<1> QED  BY <1>2, <1>4, <1>5, <1>6

LEMMA QuietWhole ==
    ASSUME \A b \in Bindings : WholeOf(b), CyclesKnown,
           UNCHANGED <<receipt, observation, group, cycles>>,
           \A b \in Bindings : binding'[b].pending = binding[b].pending
    PROVE  (\A b \in Bindings : WholeOf(b)') /\ CyclesKnown'
<1>1. \A b, n : CyclesStay(b, n)
  BY DEF CyclesStay, CyclesOf
<1>2. \A b \in Bindings : WholeOf(b)'
  BY <1>1, WholeStays
<1>3. CyclesKnown'
  BY DEF CyclesKnown
<1> QED  BY <1>2, <1>3

LEMMA PersistWhole ==
    ASSUME WholeInvariant, NEW p \in Processes, Persist(p)
    PROVE  (\A b \in Bindings : WholeOf(b)') /\ CyclesKnown'
<1>1. /\ TypeOK /\ FetchSound /\ Timely /\ CyclesKnown
      /\ \A b \in Bindings : RowsSound(b) /\ EvidenceOf(b) /\ WholeOf(b)
  BY EvidenceByBinding DEF WholeInvariant, Invariant
<1>2. Owns(p, "persist") /\ cycles' = cycles
  BY DEF Persist
<1>3. PICK now \in mem[p].observed .. Now(p) :
          IF PersistAllowed(p, now) THEN Written(p, now) ELSE UNCHANGED <<ingress, group>>
  BY DEF Persist
<1>4. now \in Nat \ {0}
  <2>1. mem[p].observed >= 1
    BY <1>1, <1>2 DEF Timely, ClockOf, Owns
  <2>2. mem[p].observed \in Nat /\ Now(p) \in Nat
    BY <1>1, Memory, Clocks
  <2> QED  BY <2>1, <2>2
<1>5. CASE UNCHANGED <<ingress, group>>
  BY <1>1, <1>2, <1>5, QuietWhole DEF ingress
<1>6. CASE PersistAllowed(p, now) /\ Written(p, now)
  <2>b. mem[p].at \in Bindings
    BY <1>2, <1>4, <1>6, Persistable DEF WholeInvariant
  <2>c. PICK b \in Bindings : b = mem[p].at
    BY <2>b
  <2> DEFINE page  == mem[p].page
             r     == Len(receipt[b]) + 1
             files == Filed(b, page, r, now)
             fresh == Len(files.seen) - Len(observation[b])
             new   == NewReceipt(p, fresh, now)
             row   == [binding[b] EXCEPT
                          !.cursor = mem[p].next,
                          !.cursorRevision = mem[p].snap.cursorRevision + 1,
                          !.latest = r, !.pending = files.open,
                          !.revision = mem[p].snap.revision + 1, !.updated = now]
  <2>a. \/ UNCHANGED <<ingress, group>>
        \/ /\ group' = [group EXCEPT ![b] = files.groups]
           /\ observation' = [observation EXCEPT ![b] = files.seen]
           /\ receipt' = [receipt EXCEPT ![b] = Append(receipt[b], new)]
           /\ binding' = [binding EXCEPT ![b] = row]
    BY <1>6, <2>c DEF Written, ingress
  <2>1. CASE UNCHANGED <<ingress, group>>
    BY <1>5, <2>1
  <2>2. CASE /\ group' = [group EXCEPT ![b] = files.groups]
             /\ observation' = [observation EXCEPT ![b] = files.seen]
             /\ receipt' = [receipt EXCEPT ![b] = Append(receipt[b], new)]
             /\ binding' = [binding EXCEPT ![b] = row]
    <3>1. /\ b \in Bindings /\ now >= binding[b].updated /\ page \in Seq(Items)
          /\ ~Conflicts(b, page)
      BY <1>2, <1>4, <1>6, <2>c, Persistable DEF WholeInvariant
    <3>2. RowsSound(b) /\ EvidenceOf(b) /\ WholeOf(b)
      BY <1>1, <3>1
    <3>3. FilesTyped(Start(b)) /\ r \in Nat /\ binding[b] \in BindingRecords
      BY <1>1, <3>1, <3>2, Rows DEF FilesTyped, Start, RowsSound
    <3>4. Grouped(Start(b), b, now)
      BY <1>1, <3>1, <3>2, GroupsStart
    <3>5. Grouped(files, b, now)
      <4> HIDE DEF page, r
      <4> QED  BY <1>4, <3>1, <3>3, <3>4, PageGrouped
    <3>6. Taken(files, b, page, r, Len(page))
      <4>1. \A i, j \in DOMAIN observation[b] :
                observation[b][i].key = observation[b][j].key => i = j
        BY <3>2 DEF EvidenceOf, OnceEach
      <4> HIDE DEF page, r
      <4> QED  BY <1>4, <3>1, <3>3, <4>1, PageTaken
    <3>7. /\ FilesTyped(files)
          /\ DOMAIN observation[b] \subseteq DOMAIN files.seen
          /\ \A i \in DOMAIN observation[b] : files.seen[i] = observation[b][i]
          /\ \A i \in DOMAIN files.seen \ DOMAIN observation[b] : files.seen[i].receipt = r
      BY <3>6 DEF Taken
    <3>8. new.recorded = now
      BY DEF NewReceipt, Advanced
    <3> HIDE DEF files, page, fresh, new
    <3>9. new \in ReceiptRecords
      <4>1. Invariant'
        BY PersistKeeps DEF WholeInvariant
      <4>2. receipt'[b] \in Seq(ReceiptRecords)
        BY <3>1, <4>1 DEF Invariant, TypeOK
      <4>3. receipt'[b] = Append(receipt[b], new) /\ receipt[b] \in Seq(ReceiptRecords)
        BY <1>1, <2>2, <3>1 DEF TypeOK
      <4>4. Len(receipt'[b]) \in DOMAIN receipt'[b] /\ receipt'[b][Len(receipt'[b])] = new
        BY <4>3
      <4> QED  BY <4>2, <4>4
    <3>10. /\ group'[b] = files.groups /\ observation'[b] = files.seen
           /\ receipt'[b] = Append(receipt[b], new)
      BY <1>1, <2>2, <3>1 DEF TypeOK
    <3>11. binding'[b].pending = files.open
      <4>1. row.pending = files.open
        BY <3>3 DEF BindingRecords
      <4> HIDE DEF row
      <4> QED  BY <1>1, <2>2, <4>1 DEF TypeOK
    <3>12. r = Len(receipt[b]) + 1
      OBVIOUS
    <3> HIDE DEF r
    <3>13. WholeOf(b)'
      BY <1>1, <1>2, <1>4, <3>1, <3>2, <3>5, <3>7, <3>8, <3>9, <3>10, <3>11, <3>12, PageWhole
    <3>14. \A x \in Bindings \ {b} : /\ group'[x] = group[x] /\ observation'[x] = observation[x]
                                     /\ receipt'[x] = receipt[x] /\ binding'[x] = binding[x]
      BY <1>1, <2>2 DEF TypeOK
    <3>15. \A x \in Bindings : WholeOf(x)'
      <4>1. \A x, n : CyclesStay(x, n)
        BY <1>2 DEF CyclesStay, CyclesOf
      <4>2. ASSUME NEW x \in Bindings \ {b} PROVE WholeOf(x)'
        <5>1. WholeOf(x) /\ binding'[x].pending = binding[x].pending
          BY <1>1, <3>14
        <5> QED  BY <3>14, <4>1, <5>1, WholeStays
      <4> QED  BY <3>13, <4>2
    <3>16. \A x \in Bindings : DOMAIN group[x] \subseteq DOMAIN group'[x]
      BY <3>5, <3>10, <3>14 DEF Grouped
    <3>17. CyclesKnown'
      BY <1>1, <1>2, <3>16 DEF CyclesKnown
    <3> QED  BY <3>15, <3>17
  <2> QED  BY <2>a, <2>1, <2>2
<1> QED  BY <1>3, <1>5, <1>6

\* A batch of ordinary wakes.
LEMMA ClaimBatchWhole ==
    ASSUME WholeInvariant, NEW p \in Processes, ClaimBatch(p)
    PROVE  (\A b \in Bindings : WholeOf(b)') /\ CyclesKnown'
<1>1. TypeOK /\ CyclesKnown /\ \A b \in Bindings : WholeOf(b)
  BY DEF WholeInvariant, Invariant
<1>2. PICK now \in Instants(p) : \E B \in SUBSET Ordinary : StartCycle(p, B, now)
  BY DEF ClaimBatch, Batches, DueOrdinary
<1>3. PICK B \in SUBSET Ordinary : StartCycle(p, B, now)
  BY <1>2
<1> DEFINE e == [wakes |-> B, started |-> now, completed |-> Never]
<1>4. now \in Nat
  BY <1>1, Instant
<1>5. e \in CycleRecords /\ e.wakes = B
  BY <1>4 DEF CycleRecords, Never
<1>6. cycles' = Append(cycles, e)
  BY <1>3 DEF StartCycle
<1> HIDE DEF e
<1>7. UNCHANGED <<binding, group, receipt, observation>>
  BY <1>3 DEF ClaimBatch, StartCycle
<1>8. \A b \in Bindings, n \in Nat : <<b, n>> \notin B
  BY WakeAssumption
<1>9. \A b \in Bindings, n \in Nat : CyclesStay(b, n)
  BY <1>1, <1>5, <1>6, <1>8, CycleAppended DEF CyclesStay
<1>10. \A b \in Bindings : WholeOf(b)'
  <2>1. \A b \in Bindings : \A n \in DOMAIN group[b] : n \in Nat
    BY <1>1, GroupRow
  <2> QED  BY <1>1, <1>7, <1>9, <2>1, WholeStays
<1>11. CyclesKnown'
  <2>1. /\ DOMAIN cycles' = DOMAIN cycles \cup {Len(cycles) + 1} /\ cycles'[Len(cycles) + 1] = e
        /\ \A c \in DOMAIN cycles : cycles'[c] = cycles[c]
    BY <1>1, <1>5, <1>6, CycleAppended
  <2> QED  BY <1>1, <1>5, <1>7, <1>8, <2>1 DEF CyclesKnown
<1> QED  BY <1>10, <1>11

LEMMA RecordedBefore ==
    ASSUME TypeOK, NEW b \in Bindings, RowsSound(b), EvidenceOf(b), NEW i \in DOMAIN observation[b]
    PROVE  RecordedAt(b, i) \in Nat /\ RecordedAt(b, i) <= binding[b].updated
<1>1. observation[b][i].receipt \in DOMAIN receipt[b]
  BY DEF RowsSound
<1>2. ReceiptSound(b, observation[b][i].receipt)
  BY <1>1 DEF EvidenceOf
<1> QED  BY <1>1, <1>2, Rows DEF ReceiptSound, RecordedAt

\* The claim of a wake seals it, if no page has.
LEMMA ClaimedWhole ==
    ASSUME TypeOK, NEW b \in Bindings, RowsSound(b), EvidenceOf(b), WholeOf(b),
           NEW n \in DOMAIN group[b], NEW now \in Nat \ {0},
           group[b][n].status = "pending", ~SealRefused(<<b, n>>, now),
           group'[b] = [group[b] EXCEPT ![n] = ClaimedGroup(group[b][n], now)],
           receipt'[b] = receipt[b], observation'[b] = observation[b],
           binding'[b].pending = IF group[b][n].sealed = Never THEN Nothing ELSE binding[b].pending,
           cycles' = Append(cycles, [wakes |-> {<<b, n>>}, started |-> now, completed |-> Never])
    PROVE  WholeOf(b)'
<1> DEFINE w == <<b, n>>
           e == [wakes |-> {w}, started |-> now, completed |-> Never]
           h == group[b][n]
           g == group'[b][n]
           s == IF h.sealed = Never THEN now ELSE h.sealed
<1>1. n \in Nat /\ h \in GroupRecords /\ h.created \in Nat /\ h.sealed \in Nat /\ binding[b].updated \in Nat
  BY GroupRow, Rows
<1>2. Listed(b, n) /\ Dated(b, n) /\ Pointed(b, n) /\ Attended(b, n)
  BY WholeParts
<1>3. h.consumed = Never /\ CyclesOf(w) = {}
  BY <1>2 DEF WholeOf, Attended
<1>4. /\ now >= h.created
      /\ h.sealed = Never => now >= binding[b].updated
      /\ h.sealed # Never => now >= h.sealed
  <2>1. Group(w) = h /\ w[1] = b
    BY DEF Group
  <2>2. h.sealed = Never => ~(now < h.created) /\ ~(now < binding[b].updated)
    BY <2>1 DEF SealRefused
  <2>3. h.sealed # Never => ~(now < h.sealed)
    BY <2>1 DEF SealRefused
  <2>4. h.sealed # Never => h.sealed >= h.created
    BY <1>2 DEF Pointed
  <2> HIDE DEF h
  <2> QED  BY <1>1, <2>2, <2>3, <2>4
<1>5. /\ DOMAIN group'[b] = DOMAIN group[b]
      /\ g = ClaimedGroup(h, now)
      /\ \A m \in DOMAIN group[b] \ {n} : group'[b][m] = group[b][m]
  OBVIOUS
<1>6. /\ g.refs = h.refs /\ g.created = h.created /\ g.sealed = s /\ g.claimed = now
      /\ g.status = "claimed" /\ g.consumed = h.consumed
  <2>1. ClaimedGroup(h, now) = [h EXCEPT !.status = "claimed", !.claimed = now, !.sealed = s]
    BY DEF ClaimedGroup
  <2> HIDE DEF h, g, s
  <2> QED  BY <1>1, <1>5, <2>1 DEF GroupRecords
<1>7. /\ s # Never /\ s >= h.created /\ now >= s /\ s \in Nat
  BY <1>1, <1>2, <1>4 DEF Never, Pointed
<1>8. e \in CycleRecords /\ e.wakes = {w} /\ e.started = now /\ e.completed = Never
  <2>1. {w} \in SUBSET (Ordinary \cup (Bindings \X Nat))
    BY <1>1
  <2> HIDE DEF w
  <2> QED  BY <2>1 DEF CycleRecords, Never
<1> HIDE DEF h, g, s, e
<1>9. /\ \A x : x \notin e.wakes => /\ CyclesOf(x)' = CyclesOf(x)
                                    /\ \A c \in CyclesOf(x) : cycles'[c] = cycles[c]
      /\ \A x : x \in e.wakes => CyclesOf(x)' = CyclesOf(x) \cup {Len(cycles) + 1}
      /\ cycles'[Len(cycles) + 1] = e /\ Len(cycles) + 1 \in DOMAIN cycles'
  <2>1. cycles' = Append(cycles, e)
    BY DEF e
  <2> QED  BY <1>8, <2>1, CycleAppended
<1>10. Members(w)' = Members(w) /\ Members(w) = Of(observation[b], n)
  BY MembersNext
<1>11. InboundValid(w)'
  <2>1. Listed(b, n)'
    BY <1>2, <1>6, <1>10 DEF Listed, g, h
  <2>2. Dated(b, n)'
    <3>1. ASSUME NEW i \in Members(w)
          PROVE  RecordedAt(b, i)' >= h.created /\ RecordedAt(b, i)' <= s
      <4>1. RecordedAt(b, i)' = RecordedAt(b, i)
        BY DEF RecordedAt
      <4>2. RecordedAt(b, i) >= h.created /\ (h.sealed # Never => RecordedAt(b, i) <= h.sealed)
        BY <1>2 DEF Dated, h
      <4>3. RecordedAt(b, i) \in Nat /\ RecordedAt(b, i) <= binding[b].updated
        <5>1. i \in DOMAIN observation[b]
          BY <1>10 DEF Of
        <5> QED  BY <5>1, RecordedBefore
      <4> QED  BY <1>1, <1>4, <4>1, <4>2, <4>3 DEF s
    <3> QED  BY <1>6, <1>10, <3>1 DEF Dated, g
  <2>3. Pointed(b, n)'
    <3>1. n # Nothing
      BY Rows DEF Nothing
    <3>2. h.sealed # Never => binding[b].pending # n
      BY <1>2 DEF Pointed, h
    <3>3. binding'[b].pending # n
      BY <3>1, <3>2 DEF h
    <3> QED  BY <1>6, <1>7, <3>3 DEF Pointed, g
  <2>4. Attended(b, n)'
    <3>1. CyclesOf(w)' = {Len(cycles) + 1}
      BY <1>3, <1>8, <1>9
    <3> QED  BY <1>3, <1>6, <1>7, <1>8, <1>9, <3>1 DEF Attended, g
  <2> QED  BY <2>1, <2>2, <2>3, <2>4, ValidNext
<1>12. ASSUME NEW m \in DOMAIN group[b] \ {n} PROVE InboundValid(<<b, m>>)'
  <2>1. Listed(b, m) /\ Dated(b, m) /\ Pointed(b, m) /\ Attended(b, m)
    BY WholeParts
  <2>2. <<b, m>> \notin e.wakes
    BY <1>8
  <2>3. CyclesStay(b, m)
    BY <1>9, <2>2 DEF CyclesStay
  <2>4. binding'[b].pending = m <=> binding[b].pending = m
    <3>1. m # Nothing
      BY GroupRow, Rows DEF Nothing
    <3>2. h.sealed = Never => binding[b].pending = n
      BY <1>2 DEF Pointed, h
    <3> QED  BY <3>1, <3>2 DEF h
  <2> QED  BY <1>5, <2>1, <2>3, <2>4, ValidStays
<1>13. OpenWakes(b)' = {binding'[b].pending} \ {Nothing}
  <2>1. \A m \in DOMAIN group[b] : group'[b][m].sealed = Never <=> group[b][m].sealed = Never /\ m # n
    BY <1>5, <1>6, <1>7 DEF g
  <2>2. OpenWakes(b)' = OpenWakes(b) \ {n}
    BY <1>5, <2>1 DEF OpenWakes
  <2>3. OpenWakes(b) = {binding[b].pending} \ {Nothing}
    BY DEF WholeOf
  <2>4. IF h.sealed = Never THEN binding[b].pending = n ELSE binding[b].pending # n
    BY <1>2 DEF Pointed, h
  <2> QED  BY <2>2, <2>3, <2>4 DEF h
<1>14. \A m \in DOMAIN group[b] : group'[b][m].status = "pending" => group'[b][m].consumed = Never
  BY <1>5, <1>6 DEF WholeOf, g
<1> QED  BY <1>5, <1>11, <1>12, <1>13, <1>14 DEF WholeOf

LEMMA ClaimInboundWhole ==
    ASSUME WholeInvariant, NEW p \in Processes, ClaimInbound(p)
    PROVE  (\A b \in Bindings : WholeOf(b)') /\ CyclesKnown'
<1>1. /\ TypeOK /\ Timely /\ CyclesKnown
      /\ \A b \in Bindings : RowsSound(b) /\ EvidenceOf(b) /\ WholeOf(b)
  BY EvidenceByBinding DEF WholeInvariant, Invariant
<1>2. PICK now \in Instants(p) :
        /\ Starting(p, now)
        /\ \E w \in DueInbound(now) :
            /\ ~SealRefused(w, now) /\ StartCycle(p, {w}, now)
            /\ group' = [group EXCEPT ![w[1]][w[2]] = ClaimedGroup(@, now)]
            /\ binding' = IF Group(w).sealed = Never
                          THEN [binding EXCEPT ![w[1]] = Unpointed(@, now)] ELSE binding
  <2>1. \A now : \A w \in Earliest(DueWakes(now)) \cap InboundWakes : w \in DueInbound(now)
    <3>1. ASSUME NEW w \in Ordinary, w \in InboundWakes PROVE FALSE
      <4>1. PICK b \in Bindings : \E n \in DOMAIN group[b] : w = <<b, n>>
        BY <3>1 DEF InboundWakes
      <4>2. PICK n \in DOMAIN group[b] : w = <<b, n>>
        BY <4>1
      <4>3. n \in Nat
        BY <1>1, GroupRow
      <4> QED  BY <4>2, <4>3, WakeAssumption
    <3> QED  BY <3>1 DEF Earliest, DueWakes, DueOrdinary
  <2> QED  BY <2>1 DEF ClaimInbound
<1>3. PICK w \in DueInbound(now) :
        /\ ~SealRefused(w, now) /\ StartCycle(p, {w}, now)
        /\ group' = [group EXCEPT ![w[1]][w[2]] = ClaimedGroup(@, now)]
        /\ binding' = IF Group(w).sealed = Never
                      THEN [binding EXCEPT ![w[1]] = Unpointed(@, now)] ELSE binding
  BY <1>2
<1>d. PICK b \in Bindings : \E n \in DOMAIN group[b] : w = <<b, n>>
  BY DEF DueInbound, InboundWakes
<1>4. PICK n \in DOMAIN group[b] : w = <<b, n>>
  BY <1>d
<1>5. w[1] = b /\ w[2] = n /\ Group(w) = group[b][n] /\ group[b][n].status = "pending"
  BY <1>4 DEF Group, DueInbound
<1>6. now \in Nat \ {0}
  <2>1. mem[p].started >= 1
    BY <1>1, <1>2 DEF Starting, Owns, Timely, ClockOf
  <2>2. mem[p].started \in Nat /\ Now(p) \in Nat
    BY <1>1, Memory, Clocks
  <2> QED  BY <2>1, <2>2 DEF Instants
<1>7. /\ group \in [Bindings -> Seq(GroupRecords)] /\ binding \in [Bindings -> BindingRecords]
      /\ binding[b] \in BindingRecords
  BY <1>1 DEF TypeOK
<1>8. group' = [group EXCEPT ![b] = [group[b] EXCEPT ![n] = ClaimedGroup(group[b][n], now)]]
  BY <1>3, <1>5
<1>9. /\ group'[b] = [group[b] EXCEPT ![n] = ClaimedGroup(group[b][n], now)]
      /\ \A x \in Bindings \ {b} : group'[x] = group[x]
  BY <1>7, <1>8
<1>10. receipt' = receipt /\ observation' = observation
  BY <1>3 DEF StartCycle
<1>11. /\ binding'[b].pending = IF group[b][n].sealed = Never THEN Nothing ELSE binding[b].pending
       /\ \A x \in Bindings \ {b} : binding'[x] = binding[x]
  <2>1. CASE group[b][n].sealed = Never
    <3>1. binding' = [binding EXCEPT ![b] = Unpointed(binding[b], now)]
      BY <1>3, <1>5, <2>1
    <3>2. Unpointed(binding[b], now).pending = Nothing
      BY <1>7 DEF Unpointed, BindingRecords
    <3> QED  BY <1>7, <2>1, <3>1, <3>2
  <2>2. CASE group[b][n].sealed # Never
    BY <1>3, <1>5, <2>2
  <2> QED  BY <2>1, <2>2
<1> DEFINE e == [wakes |-> {<<b, n>>}, started |-> now, completed |-> Never]
<1>12. cycles' = Append(cycles, e)
  BY <1>3, <1>4 DEF StartCycle
<1>13. WholeOf(b)'
  <2>1. ~SealRefused(<<b, n>>, now) /\ RowsSound(b) /\ EvidenceOf(b) /\ WholeOf(b)
    BY <1>1, <1>3, <1>4
  <2> QED  BY <1>1, <1>5, <1>6, <1>9, <1>10, <1>11, <1>12, <2>1, ClaimedWhole
<1>14. n \in Nat
  BY <1>1, GroupRow
<1>15. e \in CycleRecords /\ e.wakes = {<<b, n>>}
  <2>1. {<<b, n>>} \in SUBSET (Ordinary \cup (Bindings \X Nat))
    BY <1>14
  <2> QED  BY <1>6, <2>1 DEF CycleRecords, Never
<1> HIDE DEF e
<1>16. /\ \A v : v \notin e.wakes => /\ CyclesOf(v)' = CyclesOf(v)
                                     /\ \A c \in CyclesOf(v) : cycles'[c] = cycles[c]
       /\ DOMAIN cycles' = DOMAIN cycles \cup {Len(cycles) + 1} /\ cycles'[Len(cycles) + 1] = e
       /\ \A c \in DOMAIN cycles : cycles'[c] = cycles[c]
  BY <1>1, <1>12, <1>15, CycleAppended
<1>17. ASSUME NEW x \in Bindings \ {b} PROVE WholeOf(x)'
  <2>1. WholeOf(x) /\ binding'[x].pending = binding[x].pending
    BY <1>1, <1>11
  <2>2. \A m : CyclesStay(x, m)
    BY <1>15, <1>16 DEF CyclesStay
  <2> QED  BY <1>9, <1>10, <2>1, <2>2, WholeStays
<1>18. CyclesKnown'
  <2>1. \A x \in Bindings : DOMAIN group'[x] = DOMAIN group[x]
    BY <1>9
  <2>2. ASSUME NEW c \in DOMAIN cycles', NEW x \in Bindings, NEW m \in Nat, <<x, m>> \in cycles'[c].wakes
        PROVE  m \in DOMAIN group[x]
    <3>1. CASE c \in DOMAIN cycles
      BY <1>1, <1>16, <2>2, <3>1 DEF CyclesKnown
    <3>2. CASE c = Len(cycles) + 1
      <4>1. <<x, m>> = <<b, n>>
        BY <1>15, <1>16, <2>2, <3>2
      <4>2. x = b /\ m = n
        BY <4>1
      <4> QED  BY <4>2
    <3> QED  BY <1>16, <3>1, <3>2
  <2> QED  BY <2>1, <2>2 DEF CyclesKnown
<1> QED  BY <1>13, <1>17, <1>18

\* However the cycle ends, its wake is consumed with it.
LEMMA FinishCycleWhole ==
    ASSUME WholeInvariant, \A p, q \in Runners : Skew[p] = Skew[q],
           NEW p \in Processes, FinishCycle(p)
    PROVE  (\A b \in Bindings : WholeOf(b)') /\ CyclesKnown'
<1>1. TypeOK /\ Timely /\ CyclesKnown /\ \A b \in Bindings : WholeOf(b)
  BY DEF WholeInvariant, Invariant
<1>2. PICK now : now = Now(p)
  OBVIOUS
<1>3. PICK L : L = Len(cycles)
  OBVIOUS
<1>4. PICK W : W = cycles[L].wakes
  OBVIOUS
<1>5. /\ Running /\ cycles' = [cycles EXCEPT ![L].completed = now]
      /\ UNCHANGED <<binding, receipt, observation>>
      /\ group' = [b \in Bindings |-> [n \in DOMAIN group[b] |->
                      IF <<b, n>> \in W
                      THEN [group[b][n] EXCEPT !.status = "consumed", !.consumed = now]
                      ELSE group[b][n]]]
  BY <1>2, <1>3, <1>4 DEF FinishCycle, Latest, ingress
<1>6. now \in Nat /\ now # Never /\ cycles[L].started <= now
  <2>1. now \in Nat /\ now >= 1
    BY <1>1, <1>2, Clocks, ClockPositive
  <2>2. p \in Runners
    BY <1>1 DEF FinishCycle, Owns, Timely, ClockOf
  <2>3. cycles[L].started <= now
    BY <1>1, <1>2, <1>3, <1>5, <2>2 DEF Timely, Latest
  <2> QED  BY <2>1, <2>3 DEF Never
<1>7. /\ cycles \in Seq(CycleRecords) /\ L \in DOMAIN cycles /\ cycles[L] \in CycleRecords
      /\ cycles[L].completed = Never
  <2>1. cycles \in Seq(CycleRecords) /\ cycles # <<>>
    BY <1>1, <1>5 DEF TypeOK, Running
  <2>2. L \in DOMAIN cycles /\ cycles[L] \in CycleRecords
    BY <1>3, <2>1
  <2> QED  BY <1>3, <1>5, <2>1, <2>2 DEF Running, Latest
<1>8. /\ DOMAIN cycles' = DOMAIN cycles
      /\ \A c \in DOMAIN cycles \ {L} : cycles'[c] = cycles[c]
      /\ cycles'[L].wakes = cycles[L].wakes /\ cycles'[L].started = cycles[L].started
      /\ cycles'[L].completed = now
  <2> DEFINE e == [cycles[L] EXCEPT !.completed = now]
  <2>1. e.wakes = cycles[L].wakes /\ e.started = cycles[L].started /\ e.completed = now
    BY <1>7 DEF CycleRecords
  <2>2. cycles' = [cycles EXCEPT ![L] = e]
    BY <1>5
  <2> HIDE DEF e
  <2> QED  BY <1>7, <2>1, <2>2
<1>9. \A c \in DOMAIN cycles : cycles'[c].wakes = cycles[c].wakes
  BY <1>8
<1>10. \A w : CyclesOf(w)' = CyclesOf(w)
  BY <1>8, <1>9 DEF CyclesOf
<1>11. ASSUME NEW b \in Bindings
       PROVE  /\ DOMAIN group'[b] = DOMAIN group[b]
              /\ \A n \in DOMAIN group[b] :
                    group'[b][n] = IF <<b, n>> \in W
                                   THEN [group[b][n] EXCEPT !.status = "consumed", !.consumed = now]
                                   ELSE group[b][n]
  BY <1>5
<1>12. ASSUME NEW b \in Bindings, NEW n \in DOMAIN group[b], <<b, n>> \in W
       PROVE  InboundValid(<<b, n>>)' /\ group'[b][n].status = "consumed"
              /\ group'[b][n].sealed = group[b][n].sealed
  <2> DEFINE h == group[b][n]
             g == group'[b][n]
             w == <<b, n>>
  <2>1. Listed(b, n) /\ Dated(b, n) /\ Pointed(b, n) /\ Attended(b, n)
    BY <1>1, WholeParts
  <2>2. /\ g.refs = h.refs /\ g.created = h.created /\ g.sealed = h.sealed
        /\ g.claimed = h.claimed /\ g.status = "consumed" /\ g.consumed = now
    <3>1. h \in GroupRecords
      BY <1>1, GroupRow
    <3>2. g = [h EXCEPT !.status = "consumed", !.consumed = now]
      BY <1>11, <1>12
    <3> HIDE DEF g, h
    <3> QED  BY <3>1, <3>2 DEF GroupRecords
  <2>3. Members(w)' = Members(w)
    BY <1>5, MembersNext
  <2>4. L \in CyclesOf(w)
    BY <1>4, <1>7, <1>12 DEF CyclesOf
  <2>5. h.status # "pending" /\ h.sealed # Never /\ h.claimed >= h.sealed
    BY <2>1, <2>4 DEF Attended
  <2>6. CyclesOf(w) = {L} /\ cycles[L].wakes = {w} /\ cycles[L].started = h.claimed
    BY <2>1, <2>4, <2>5 DEF Attended
  <2> HIDE DEF h, g
  <2>7. Listed(b, n)'
    BY <2>1, <2>2, <2>3 DEF Listed, g, h
  <2>8. Dated(b, n)'
    BY <1>5, <2>1, <2>2, <2>3 DEF Dated, RecordedAt, g, h
  <2>9. Pointed(b, n)'
    BY <1>5, <2>1, <2>2, <2>5 DEF Pointed, g, h
  <2>10. Attended(b, n)'
    <3>1. cycles[L].started \in Nat
      BY <1>7 DEF CycleRecords
    <3>2. now >= h.claimed
      BY <1>6, <2>6, <3>1
    <3>3. /\ CyclesOf(w)' = {L} /\ cycles'[L].wakes = {w} /\ cycles'[L].started = g.claimed
          /\ cycles'[L].completed = g.consumed /\ L \in DOMAIN cycles'
      BY <1>7, <1>8, <1>10, <2>2, <2>6
    <3> QED  BY <1>6, <2>2, <2>5, <3>2, <3>3 DEF Attended, g
  <2> QED  BY <2>2, <2>7, <2>8, <2>9, <2>10, ValidNext DEF g, h
<1>13. ASSUME NEW b \in Bindings, NEW n \in DOMAIN group[b], <<b, n>> \notin W
       PROVE  InboundValid(<<b, n>>)' /\ group'[b][n] = group[b][n]
  <2>1. Listed(b, n) /\ Dated(b, n) /\ Pointed(b, n) /\ Attended(b, n)
    BY <1>1, WholeParts
  <2>2. group'[b][n] = group[b][n]
    BY <1>11, <1>13
  <2>3. L \notin CyclesOf(<<b, n>>)
    BY <1>4, <1>13 DEF CyclesOf
  <2>4. CyclesStay(b, n)
    BY <1>8, <1>10, <2>3 DEF CyclesStay, CyclesOf
  <2> QED  BY <1>5, <2>1, <2>2, <2>4, ValidStays
<1>14. ASSUME NEW b \in Bindings PROVE WholeOf(b)'
  <2>1. \A n \in DOMAIN group[b] : InboundValid(<<b, n>>)' /\ group'[b][n].sealed = group[b][n].sealed
    BY <1>12, <1>13
  <2>2. ASSUME NEW n \in DOMAIN group[b], group'[b][n].status = "pending"
        PROVE  group'[b][n].consumed = Never
    <3>1. group[b][n].status = "pending" => group[b][n].consumed = Never
      BY <1>1 DEF WholeOf
    <3>2. group'[b][n] = group[b][n]
      <4>1. <<b, n>> \notin W
        BY <1>12, <2>2
      <4> QED  BY <1>13, <4>1
    <3> QED  BY <2>2, <3>1, <3>2
  <2>3. OpenWakes(b)' = OpenWakes(b)
    BY <1>11, <2>1 DEF OpenWakes
  <2> QED  BY <1>1, <1>5, <1>11, <2>1, <2>2, <2>3 DEF WholeOf
<1>15. CyclesKnown'
  BY <1>1, <1>8, <1>9, <1>11 DEF CyclesKnown
<1> QED  BY <1>14, <1>15

-----------------------------------------------------------------------------
(* Every step *)

LEMMA WholeNext ==
    ASSUME WholeInvariant, \A p, q \in Runners : Skew[p] = Skew[q], [Next]_vars
    PROVE  (\A b \in Bindings : WholeOf(b)') /\ CyclesKnown'
<1>1. TypeOK /\ CyclesKnown /\ \A b \in Bindings : RowsSound(b) /\ WholeOf(b)
  BY DEF WholeInvariant, Invariant
<1>2. CASE \E p \in Processes : Persist(p) \/ ClaimInbound(p) \/ ClaimBatch(p) \/ FinishCycle(p)
  BY <1>2, PersistWhole, ClaimInboundWhole, ClaimBatchWhole, FinishCycleWhole
<1>3. CASE UNCHANGED <<ingress, group, cycles>>
  BY <1>1, <1>3, QuietWhole DEF ingress
<1>4. CASE Register \/ SetEnabled
  <2>1. UNCHANGED <<receipt, observation, group, cycles>>
    BY <1>4 DEF Register, SetEnabled, attention
  <2>2. \E b \in Bindings : \E row :
            binding' = [binding EXCEPT ![b] = row] /\ row.pending = binding[b].pending
    <3>1. CASE Register
      <4>1. PICK b \in Bindings, e \in BOOLEAN, now \in AdminNow :
                ~binding[b].registered /\ binding' = [binding EXCEPT ![b] = NewBinding(e, now)]
        BY <3>1 DEF Register
      <4>2. NewBinding(e, now).pending = binding[b].pending
        BY <1>1, <4>1 DEF RowsSound, NewBinding
      <4> QED  BY <4>1, <4>2
    <3>2. CASE SetEnabled
      <4>1. PICK b \in Bindings, e \in BOOLEAN, now \in AdminNow :
                binding' = [binding EXCEPT ![b] = Switched(binding[b], e, now)]
        BY <3>2 DEF SetEnabled
      <4>2. binding[b] \in BindingRecords
        BY <1>1 DEF TypeOK
      <4>3. Switched(binding[b], e, now).pending = binding[b].pending
        BY <4>2 DEF Switched, BindingRecords
      <4> QED  BY <4>1, <4>3
    <3> QED  BY <1>4, <3>1, <3>2
  <2>3. \A x \in Bindings : binding'[x].pending = binding[x].pending
    BY <1>1, <2>2 DEF TypeOK
  <2> QED  BY <1>1, <2>1, <2>3, QuietWhole
<1>5. CASE \E p \in Processes : Process(p) \/ Crash(p) \/ TransactionFails(p)
  <2>1. PICK p \in Processes : Process(p) \/ Crash(p) \/ TransactionFails(p)
    BY <1>5
  <2>2. CASE Run(p)
    BY <1>2, <1>3, <2>2 DEF Run, RunEnds, StartBlocked, Resume, Idle, ClaimFails, LeaveCycle, attention
  <2>3. CASE Ingest(p)
    BY <1>2, <1>3, <2>3 DEF Ingest, Snapshot, Poll, PollFails, attention
  <2> QED  BY <1>3, <2>1, <2>2, <2>3
           DEF Process, Acquire, Close, NoticeLoss, Crash, Gone, TransactionFails, attention
<1>6. CASE SessionLost \/ Reap \/ Administer \/ PostOrdinary \/ Tick
  BY <1>3, <1>4, <1>6
     DEF SessionLost, Reap, SessionEnds, Administer, ChangeLifecycle, UpdateGovernance, EditSource,
         PostOrdinary, Tick, attention, ingress
<1>7. CASE UNCHANGED vars
  BY <1>3, <1>7 DEF vars, attention
<1> QED  BY <1>5, <1>6, <1>7 DEF Next

LEMMA TimelyNext ==
    ASSUME WholeInvariant, \A p, q \in Runners : Skew[p] = Skew[q], [Next]_vars
    PROVE  Timely'
<1>1. TypeOK /\ Timely /\ TypeOK'
  BY NextKeeps DEF WholeInvariant, Invariant
<1>2. clock \in Nat /\ clock' \in Nat /\ clock' >= clock /\ clock' >= 1
  <2>1. clock' = clock \/ clock' = clock + 1
    <3>1. CASE \E p \in Processes : Process(p) \/ Crash(p) \/ TransactionFails(p)
      <4>1. PICK p \in Processes : Process(p) \/ Crash(p) \/ TransactionFails(p)
        BY <3>1
      <4>2. CASE Run(p)
        BY <4>2 DEF Run, RunEnds, StartBlocked, Resume, Idle, ClaimFails, LeaveCycle, ClaimInbound,
                    ClaimBatch, FinishCycle, StartCycle
      <4>3. CASE Ingest(p)
        BY <4>3 DEF Ingest, Snapshot, Poll, PollFails, Persist
      <4> QED  BY <4>1, <4>2, <4>3
               DEF Process, Acquire, Close, NoticeLoss, Crash, Gone, TransactionFails
    <3>2. CASE SessionLost \/ Reap \/ Administer \/ PostOrdinary \/ Tick
      BY <3>2 DEF SessionLost, Reap, SessionEnds, Administer, Register, SetEnabled, ChangeLifecycle,
                  UpdateGovernance, EditSource, PostOrdinary, Tick
    <3>3. CASE UNCHANGED vars
      BY <3>3 DEF vars
    <3> QED  BY <3>1, <3>2, <3>3 DEF Next
  <2> QED  BY <1>1, <2>1 DEF TypeOK, Timely
<1>3. \A q \in Processes : ClockOf(q)'
  BY <1>1, ClocksAfterProcess, ClocksAfterOthers DEF Next
<1>4. \A q \in Processes : Now(q) \in Nat /\ Now(q)' \in Nat /\ Now(q)' >= Now(q)
  BY <1>1, <1>2, Clocks, ClockGoesOn
<1>5. Running' => \A q \in Runners : Latest(cycles)'.started <= Now(q)'
  <2>1. CASE cycles' = cycles
    <3> SUFFICES ASSUME Running, NEW q \in Runners PROVE Latest(cycles).started <= Now(q)'
      BY <2>1 DEF Running, Latest
    <3>1. Latest(cycles).started <= Now(q) /\ q \in Processes
      BY <1>1 DEF Timely, Processes
    <3>2. Latest(cycles).started \in Nat
      <4>1. cycles \in Seq(CycleRecords) /\ cycles # <<>>
        BY <1>1 DEF TypeOK, Running
      <4>2. Latest(cycles) \in CycleRecords
        BY <4>1 DEF Latest
      <4> QED  BY <4>2 DEF CycleRecords
    <3>3. Now(q) \in Nat /\ Now(q)' \in Nat /\ Now(q)' >= Now(q)
      BY <1>4, <3>1
    <3> QED  BY <3>1, <3>2, <3>3
  <2>2. ASSUME NEW p \in Processes, NEW now \in Instants(p), Owns(p, "ready"),
               NEW e \in CycleRecords, e.started = now, cycles' = Append(cycles, e)
        PROVE  \A q \in Runners : Latest(cycles)'.started <= Now(q)'
    <3> SUFFICES ASSUME NEW q \in Runners PROVE Latest(cycles)'.started <= Now(q)'
      OBVIOUS
    <3>1. Latest(cycles)' = e
      BY <1>1, <2>2, CycleAppended
    <3>2. p \in Runners /\ q \in Processes
      BY <1>1, <2>2 DEF Owns, Timely, ClockOf, Processes
    <3>3. Now(p) = Now(q)
      BY <3>2 DEF Now
    <3>4. now \in Nat /\ now <= Now(p)
      <4>1. mem[p].started \in Nat /\ Now(p) \in Nat
        BY <1>1, Memory, Clocks
      <4> QED  BY <4>1, <2>2 DEF Instants
    <3>5. Now(q) \in Nat /\ Now(q)' \in Nat /\ Now(q)' >= Now(q)
      BY <1>4, <3>2
    <3>6. now <= Now(q)'
      BY <3>3, <3>4, <3>5
    <3> QED  BY <2>2, <3>1, <3>6
  <2>3. CASE \E p \in Processes : ClaimInbound(p) \/ ClaimBatch(p)
    <3>1. PICK p \in Processes : ClaimInbound(p) \/ ClaimBatch(p)
      BY <2>3
    <3>2. PICK now \in Instants(p) : \E W : StartCycle(p, W, now) /\ Owns(p, "ready")
      BY <3>1 DEF ClaimInbound, ClaimBatch, Starting
    <3>3. PICK W : StartCycle(p, W, now) /\ Owns(p, "ready")
      BY <3>2
    <3> DEFINE e == [wakes |-> W, started |-> now, completed |-> Never]
    <3>4. cycles' = Append(cycles, e)
      BY <3>3 DEF StartCycle
    <3>5. e \in CycleRecords
      <4>1. cycles' \in Seq(CycleRecords) /\ cycles \in Seq(CycleRecords)
        BY <1>1 DEF TypeOK
      <4> HIDE DEF e
      <4>2. Len(cycles') \in DOMAIN cycles' /\ cycles'[Len(cycles')] = e
        BY <3>4, <4>1
      <4> QED  BY <4>1, <4>2
    <3>6. e.started = now
      OBVIOUS
    <3> HIDE DEF e
    <3> QED  BY <2>2, <3>3, <3>4, <3>5, <3>6
  <2>4. CASE \E p \in Processes : FinishCycle(p)
    <3>1. PICK p \in Processes : FinishCycle(p)
      BY <2>4
    <3>2. PICK now : now = Now(p)
      OBVIOUS
    <3>3. now >= 1 /\ now \in Nat
      BY <1>1, <3>2, Clocks, ClockPositive
    <3>4. PICK L : L = Len(cycles)
      OBVIOUS
    <3>5. cycles' = [cycles EXCEPT ![L].completed = now] /\ cycles # <<>>
      BY <3>1, <3>2, <3>4 DEF FinishCycle, Running
    <3>6. cycles \in Seq(CycleRecords)
      BY <1>1 DEF TypeOK
    <3>7. L \in DOMAIN cycles /\ cycles[L] \in CycleRecords
      BY <3>4, <3>5, <3>6
    <3>8. [cycles[L] EXCEPT !.completed = now].completed = now
      BY <3>7 DEF CycleRecords
    <3>9. cycles'[L] = [cycles[L] EXCEPT !.completed = now] /\ Len(cycles') = L
      BY <3>4, <3>5, <3>6, <3>7
    <3>10. Latest(cycles)'.completed = now
      BY <3>8, <3>9 DEF Latest
    <3>11. ~Running'
      BY <3>3, <3>10 DEF Running, Never
    <3> QED  BY <3>11
  <2>5. \/ cycles' = cycles
        \/ \E p \in Processes : ClaimInbound(p) \/ ClaimBatch(p) \/ FinishCycle(p)
    <3>1. CASE \E p \in Processes : Process(p) \/ Crash(p) \/ TransactionFails(p)
      <4>1. PICK p \in Processes : Process(p) \/ Crash(p) \/ TransactionFails(p)
        BY <3>1
      <4>2. CASE Run(p)
        BY <4>2 DEF Run, RunEnds, StartBlocked, Resume, Idle, ClaimFails, LeaveCycle, attention
      <4>3. CASE Ingest(p)
        BY <4>3 DEF Ingest, Snapshot, Poll, PollFails, Persist, attention
      <4> QED  BY <4>1, <4>2, <4>3
               DEF Process, Acquire, Close, NoticeLoss, Crash, Gone, TransactionFails, attention
    <3>2. CASE SessionLost \/ Reap \/ Administer \/ PostOrdinary \/ Tick
      BY <3>2 DEF SessionLost, Reap, SessionEnds, Administer, Register, SetEnabled, ChangeLifecycle,
                  UpdateGovernance, EditSource, PostOrdinary, Tick, attention
    <3>3. CASE UNCHANGED vars
      BY <3>3 DEF vars, attention
    <3> QED  BY <3>1, <3>2, <3>3 DEF Next
  <2> QED  BY <2>1, <2>3, <2>4, <2>5
<1> QED  BY <1>2, <1>3, <1>5 DEF Timely

LEMMA WholeAtFirst == Init => WholeInvariant
<1> SUFFICES ASSUME Init PROVE WholeInvariant
  OBVIOUS
<1>1. Invariant
  BY InitialSound
<1>2. ASSUME NEW b \in Bindings PROVE WholeOf(b)
  <2>1. group[b] = <<>> /\ observation[b] = <<>> /\ binding[b].pending = Nothing
    BY DEF Init, NewBinding, NoRow
  <2> QED  BY <2>1 DEF WholeOf, OpenWakes
<1>3. CyclesKnown
  BY DEF Init, CyclesKnown
<1>4. Timely
  BY DEF Init, Timely, ClockOf, Running
<1> QED  BY <1>1, <1>2, <1>3, <1>4 DEF WholeInvariant

\* db/perception_checks.py, perception_inbound, with the claims of
\* stores/inbound_scope.py and stores/cognition.py: when the clocks of the
\* runners agree, every group of observations lists exactly its members and no
\* more than fit, was sealed between what it holds and its claim, is the one its
\* binding points to as long as it is open, and has the one cycle that claimed
\* it and consumes it, however ingesters, runners and administrators interleave
\* and fail.  (With a runner behind the others the run perception_skew shows
\* how a cycle ends before it started.)
THEOREM InboundStaysWhole ==
    ASSUME \A p, q \in Runners : Skew[p] = Skew[q]
    PROVE  Spec => []WholeInvariant
<1>1. Init => WholeInvariant
  BY WholeAtFirst
<1>2. WholeInvariant /\ [Next]_vars => WholeInvariant'
  <2> SUFFICES ASSUME WholeInvariant, [Next]_vars PROVE WholeInvariant'
    OBVIOUS
  <2>1. Invariant'
    BY NextKeeps DEF WholeInvariant
  <2> QED  BY <2>1, WholeNext, TimelyNext DEF WholeInvariant
<1> QED  BY <1>1, <1>2, PTL DEF Spec

\* The same as the consistency the checker of the code tests.
THEOREM InboundStaysConsistent ==
    ASSUME \A p, q \in Runners : Skew[p] = Skew[q]
    PROVE  Spec => []InboundConsistent
<1>1. WholeInvariant => InboundConsistent
  <2> SUFFICES ASSUME WholeInvariant PROVE InboundConsistent
    OBVIOUS
  <2>1. TypeOK /\ \A b \in Bindings : WholeOf(b)
    BY DEF WholeInvariant, Invariant
  <2>2. \A w \in InboundWakes : InboundValid(w)
    BY <2>1 DEF InboundWakes, WholeOf
  <2> QED  BY <2>1, <2>2 DEF InboundConsistent, WholeOf
<1>2. Spec => []WholeInvariant
  BY InboundStaysWhole
<1> QED  BY <1>1, <1>2, PTL

=============================================================================
