------------------------- MODULE DashboardCacheProofs -------------------------
(***************************************************************************)
(* TLAPS proofs about the dashboard's stats cache, for any number of rows, *)
(* values, writers, dashboard requests and writes.                         *)
(***************************************************************************)
EXTENDS DashboardCache, FiniteSetTheorems, FunctionTheorems, WellFoundedInduction, TLAPS

Tables   == [Ids -> Row \cup {None}]
Tx       == [kind: {"create", "update", "destroy"}, id: Ids, base: Row \cup {None}, row: Row]
Snapshots == SUBSET (Ids \X Vals)
Key      == [count: Nat, latest: Nat, date: Nat]
Reading  == [at: {"keyed", "counted"}, key: Key, counts: Snapshots]

\* The types of everything.
Typed ==
  /\ TypeOK
  /\ Live(rows) \subseteq used
  /\ tx \in [Writers -> Tx \cup {None}]
  /\ read \in [Readers -> Reading \cup {None}]
  /\ \A e \in cache : e.key \in Key
  /\ seen \subseteq Key \X Snapshots

\* A create in flight is alone with its id, and the other writes started from a row.
WritesInv ==
  \A w \in Writers : tx[w] # None =>
    /\ tx[w].kind = "create" <=> tx[w].base = None
    /\ tx[w].kind = "create" =>
         /\ rows[tx[w].id] = None
         /\ \A v \in Writers \ {w} : tx[v] # None => tx[v].id # tx[w].id

\* Stamps in flight are distinct, and newer than every stamp the table has had.
StampsInv ==
  /\ \A w \in Writers : tx[w] # None => tx[w].row.stamp <= clock
  /\ \A v, w \in Writers :
       tx[v] # None /\ tx[w] # None /\ tx[v].row.stamp = tx[w].row.stamp => v = w
  /\ \A x \in seen : x[1].latest <= clock
  /\ \A x \in seen, w \in Writers : Stamping(w) => x[1].latest < tx[w].row.stamp

\* The rows whose stamp an earlier state had reached were in that state as they are now.
SeenInv ==
  /\ <<KeyOf(rows, date), Snapshot(rows)>> \in seen
  /\ \A x \in seen :
       /\ IsFiniteSet(x[2]) /\ Cardinality(x[2]) = x[1].count
       /\ \A i \in Live(rows) : rows[i].stamp <= x[1].latest => <<i, rows[i].val>> \in x[2]

KeyLeq(k, l) == k.count <= l.count /\ k.latest <= l.latest /\ k.date <= l.date

\* While no row has been deleted, no key is ahead of the rows, and what was read under the
\* key they have now is what they hold.
CacheInv ==
  Intact =>
    /\ \A e \in cache : /\ KeyLeq(e.key, KeyOf(rows, date))
                        /\ e.key = KeyOf(rows, date) => e.payload = Stats
    /\ \A r \in Readers : read[r] # None =>
         /\ KeyLeq(read[r].key, KeyOf(rows, date))
         /\ read[r].at = "counted" /\ read[r].key = KeyOf(rows, date) =>
              read[r].counts = Snapshot(rows)

IInv == Typed /\ WritesInv /\ StampsInv /\ SeenInv /\ KeyNamesRows /\ CacheInv

-------------------------------------------------------------------------------
\* Facts about the operators of the key.

\* A set of naturals that is not empty has a least element.
LEMMA Least ==
  ASSUME NEW T \in SUBSET Nat, T # {}
  PROVE  \E x \in T : \A y \in T : x <= y
<1> DEFINE R == {ss \in Nat \X Nat : ss[1] < ss[2]}
<1>1. IsWellFoundedOn(R, Nat)
  BY NatLessThanWellFounded DEF OpToRel
<1>2. \A x, y \in Nat : x < y => <<x, y>> \in R
  OBVIOUS
<1> HIDE DEF R
<1>3. PICK x \in T : \A y \in T : ~(<<y, x>> \in R)
  BY <1>1, WFMin
<1>4. ASSUME NEW y \in T PROVE x <= y
  <2>1. x \in Nat /\ y \in Nat
    OBVIOUS
  <2>2. ~(y < x)
    BY <1>2, <1>3, <2>1
  <2> QED BY <2>1, <2>2
<1> QED BY <1>4

\* A bounded set of positive numbers that is not empty has a greatest element.
LEMMA Greatest ==
  ASSUME NEW n \in Nat, NEW T \in SUBSET (1..n), T # {}
  PROVE  \E x \in T : \A y \in T : y <= x
<1> DEFINE U == {m \in Nat : \A y \in T : y <= m}
<1>1. n \in U
  OBVIOUS
<1>2. PICK u \in U : \A m \in U : u <= m
  <2>1. U \in SUBSET Nat /\ U # {}
    BY <1>1
  <2> HIDE DEF U
  <2> QED BY <2>1, Least
<1>3. u \in Nat /\ \A y \in T : y <= u /\ y \in Nat \ {0}
  BY <1>2
<1>4. u \in T
  <2>1. SUFFICES ASSUME u \notin T PROVE FALSE
    OBVIOUS
  <2>2. \A y \in T : y < u
    <3>1. \A y \in T : y # u
      BY <2>1
    <3> QED BY <1>3, <3>1
  <2>3. u # 0
    <3>1. PICK y \in T : TRUE
      OBVIOUS
    <3>2. y \in Nat /\ y < u
      BY <1>3, <2>2
    <3> QED BY <1>3, <3>2
  <2>4. u - 1 \in U
    BY <1>3, <2>2, <2>3
  <2> QED BY <1>2, <1>3, <2>4
<1> QED BY <1>3, <1>4

\* MAX(updated_at) is a stamp of the table, and no stamp is above it.
LEMMA LatestIsGreatest ==
  ASSUME NEW rs \in Tables
  PROVE  /\ Latest(rs) \in Nat
         /\ \A i \in Live(rs) : rs[i].stamp \in Nat /\ rs[i].stamp <= Latest(rs)
         /\ Latest(rs) # 0 => \E i \in Live(rs) : Latest(rs) = rs[i].stamp
<1>1. \A i \in Live(rs) : /\ rs[i] \in Row /\ rs[i].stamp \in 1..MaxClock
                          /\ rs[i].stamp \in Stamps(rs)
  BY DEF Live, Tables, Row, Stamps
<1>2. Stamps(rs) \in SUBSET (1..MaxClock) /\ MaxClock \in Nat
  BY <1>1, DashboardAssumption DEF Stamps
<1>3. CASE Stamps(rs) = {}
  <2>1. Latest(rs) = 0
    BY <1>3 DEF Latest
  <2> QED BY <1>1, <1>2, <1>3, <2>1
<1>4. CASE Stamps(rs) # {}
  <2>1. \E s \in Stamps(rs) : \A x \in Stamps(rs) : x <= s
    BY <1>2, <1>4, Greatest
  <2>2. Latest(rs) \in Stamps(rs) /\ \A x \in Stamps(rs) : x <= Latest(rs)
    BY <1>4, <2>1 DEF Latest
  <2>3. \E i \in Live(rs) : Latest(rs) = rs[i].stamp
    BY <2>2 DEF Stamps
  <2> QED BY <1>1, <1>2, <2>2, <2>3
<1> QED BY <1>3, <1>4

\* A snapshot is finite and has as many rows as COUNT(*) says.
LEMMA SnapshotCounted ==
  ASSUME NEW rs \in Tables
  PROVE  /\ IsFiniteSet(Live(rs)) /\ Cardinality(Live(rs)) \in Nat
         /\ IsFiniteSet(Snapshot(rs)) /\ Cardinality(Snapshot(rs)) = Cardinality(Live(rs))
         /\ Snapshot(rs) \in Snapshots
<1>1. IsFiniteSet(Live(rs)) /\ Cardinality(Live(rs)) \in Nat
  <2>1. Live(rs) \subseteq Ids
    BY DEF Live
  <2> QED BY <2>1, DashboardAssumption, FS_Subset, FS_CardinalityType
<1> DEFINE f == [i \in Live(rs) |-> <<i, rs[i].val>>]
<1>2. f \in Bijection(Live(rs), Snapshot(rs))
  <2>1. f \in [Live(rs) -> Snapshot(rs)]
    BY DEF Snapshot
  <2>2. \A i, j \in Live(rs) : f[i] = f[j] => i = j
    OBVIOUS
  <2>3. \A p \in Snapshot(rs) : \E i \in Live(rs) : f[i] = p
    BY DEF Snapshot
  <2> HIDE DEF f
  <2> QED BY <2>1, <2>2, <2>3, Fun_IsBij
<1>3. ExistsBijection(Live(rs), Snapshot(rs))
  BY <1>2 DEF ExistsBijection
<1>4. Snapshot(rs) \in Snapshots
  BY DEF Snapshot, Snapshots, Live, Tables, Row
<1> QED BY <1>1, <1>3, <1>4, FS_Bijection

\* A row written with a stamp above all others: it is the latest, and none is lost.
LEMMA RowStamped ==
  ASSUME NEW rs \in Tables, NEW i \in Ids, NEW row \in Row, Latest(rs) < row.stamp,
         NEW new, new = [rs EXCEPT ![i] = row]
  PROVE  /\ Latest(new) = row.stamp
         /\ Cardinality(Live(rs)) <= Cardinality(Live(new))
<1>1. /\ new \in Tables /\ new[i] = row /\ row # None
      /\ \A j \in Ids \ {i} : new[j] = rs[j]
  BY DashboardAssumption DEF Tables
<1>2. Live(new) = Live(rs) \cup {i}
  BY <1>1 DEF Live
<1>3. Cardinality(Live(rs)) <= Cardinality(Live(new))
  BY <1>1, <1>2, SnapshotCounted, FS_Subset
<1>4. /\ Latest(rs) \in Nat /\ Latest(new) \in Nat /\ row.stamp \in Nat
      /\ \A j \in Live(rs) : rs[j].stamp \in Nat /\ rs[j].stamp <= Latest(rs)
      /\ \A j \in Live(new) : new[j].stamp \in Nat /\ new[j].stamp <= Latest(new)
      /\ Latest(new) # 0 => \E j \in Live(new) : Latest(new) = new[j].stamp
  <2>1. /\ Latest(rs) \in Nat
        /\ \A j \in Live(rs) : rs[j].stamp \in Nat /\ rs[j].stamp <= Latest(rs)
    BY LatestIsGreatest
  <2>2. /\ Latest(new) \in Nat
        /\ \A j \in Live(new) : new[j].stamp \in Nat /\ new[j].stamp <= Latest(new)
        /\ Latest(new) # 0 => \E j \in Live(new) : Latest(new) = new[j].stamp
    BY <1>1, LatestIsGreatest
  <2>3. row.stamp \in Nat
    BY DashboardAssumption DEF Row
  <2> QED BY <2>1, <2>2, <2>3
<1>5. row.stamp <= Latest(new)
  BY <1>1, <1>2, <1>4
<1>6. \A j \in Live(new) : new[j].stamp <= row.stamp
  <2> SUFFICES ASSUME NEW j \in Live(new), j # i PROVE new[j].stamp <= row.stamp
    BY <1>1, <1>4
  <2>1. j \in Live(rs) /\ new[j] = rs[j]
    BY <1>1, <1>2 DEF Live
  <2> QED BY <1>4, <2>1
<1>7. PICK j \in Live(new) : Latest(new) = new[j].stamp
  <2>1. Latest(new) # 0
    BY <1>4, <1>5
  <2> QED BY <1>4, <2>1
<1>8. Latest(new) <= row.stamp
  BY <1>6, <1>7
<1>9. Latest(new) = row.stamp
  BY <1>4, <1>5, <1>8
<1> QED BY <1>3, <1>9

\* A row deleted: one row fewer, and no newer stamp.
LEMMA RowDropped ==
  ASSUME NEW rs \in Tables, NEW i \in Ids, rs[i] # None,
         NEW new, new = [rs EXCEPT ![i] = None]
  PROVE  /\ Latest(new) <= Latest(rs)
         /\ Cardinality(Live(new)) = Cardinality(Live(rs)) - 1
<1>1. new \in Tables /\ new[i] = None /\ \A j \in Ids \ {i} : new[j] = rs[j]
  BY DEF Tables
<1>2. Live(new) = Live(rs) \ {i} /\ i \in Live(rs)
  BY <1>1 DEF Live
<1>3. Cardinality(Live(new)) = Cardinality(Live(rs)) - 1
  BY <1>2, SnapshotCounted, FS_RemoveElement
<1>4. \A j \in Live(new) : j \in Live(rs) /\ new[j] = rs[j]
  BY <1>1, <1>2 DEF Live
<1>5. /\ Latest(rs) \in Nat
      /\ \A j \in Live(rs) : rs[j].stamp \in Nat /\ rs[j].stamp <= Latest(rs)
  BY LatestIsGreatest
<1>6. /\ Latest(new) \in Nat
      /\ Latest(new) # 0 => \E j \in Live(new) : Latest(new) = new[j].stamp
  BY <1>1, LatestIsGreatest
<1>7. Latest(new) <= Latest(rs)
  <2>1. CASE Latest(new) = 0
    BY <1>5, <2>1
  <2>2. CASE Latest(new) # 0
    <3>1. PICK j \in Live(new) : Latest(new) = new[j].stamp
      BY <1>6, <2>2
    <3> QED BY <1>4, <1>5, <3>1
  <2> QED BY <2>1, <2>2
<1> QED BY <1>3, <1>7

\* The key of a table is a key.
LEMMA KeyOfType ==
  ASSUME NEW rs \in Tables, NEW d \in Nat
  PROVE  KeyOf(rs, d) \in Key
BY SnapshotCounted, LatestIsGreatest, DashboardAssumption DEF KeyOf, Key

-------------------------------------------------------------------------------
\* Types.

LEMMA TypedInit == Init => Typed
<1> SUFFICES ASSUME Init PROVE Typed
  OBVIOUS
<1>1. rows \in Tables /\ Live(rows) = {}
  BY DEF Init, Tables, Live
<1>2. KeyOf(rows, 0) \in Key
  BY <1>1, KeyOfType
<1>3. 0 \in 0..MaxClock /\ 0 \in 0..MaxDate
  BY DashboardAssumption
<1>4. seen \subseteq Key \X Snapshots
  BY <1>2 DEF Init, Snapshots
<1> QED BY <1>1, <1>3, <1>4 DEF Init, Typed, TypeOK, Tables

\* What Typed says in the names of this module.
LEMMA TypedFacts ==
  ASSUME Typed
  PROVE  /\ rows \in Tables /\ clock \in Nat /\ date \in Nat
         /\ KeyOf(rows, date) \in Key
         /\ \A w \in Writers : tx[w] # None =>
              /\ tx[w] \in Tx /\ tx[w].id \in used /\ tx[w].id \in Ids
              /\ tx[w].row.stamp \in Nat \ {0}
         /\ \A r \in Readers : read[r] # None => read[r] \in Reading
<1>1. rows \in Tables /\ clock \in Nat /\ date \in Nat
  BY DashboardAssumption DEF Typed, TypeOK, Tables
<1>2. KeyOf(rows, date) \in Key
  BY <1>1, KeyOfType
<1>3. \A w \in Writers : tx[w] # None =>
              /\ tx[w] \in Tx /\ tx[w].id \in used /\ tx[w].id \in Ids
              /\ tx[w].row.stamp \in Nat \ {0}
  BY DashboardAssumption DEF Typed, TypeOK, Tx, Row
<1>4. \A r \in Readers : read[r] # None => read[r] \in Reading
  BY DEF Typed
<1> QED BY <1>1, <1>2, <1>3, <1>4

\* The table after a commit, and whether it changed.
LEMMA CommitWrites ==
  ASSUME Typed, NEW w \in Writers, Commit(w)
  PROVE  LET t == tx[w]
         IN  /\ t \in Tx /\ t # None
             /\ rows' \in Tables
             /\ \/ rows' = rows
                \/ /\ rows[t.id] = t.base
                   /\ rows' = [rows EXCEPT ![t.id] = Written(t)]
                   /\ Written(t) \in Row \cup {None}
             /\ tx' \in [Writers -> Tx \cup {None}]
             /\ tx'[w] = None /\ \A v \in Writers \ {w} : tx'[v] = tx[v]
<1>1. tx[w] \in Tx /\ tx[w] # None /\ rows \in Tables
  BY TypedFacts DEF Commit
<1>2. Written(tx[w]) \in Row \cup {None}
  BY <1>1 DEF Written, Tx
<1>3. /\ tx' \in [Writers -> Tx \cup {None}]
      /\ tx'[w] = None /\ \A v \in Writers \ {w} : tx'[v] = tx[v]
  BY DEF Commit, Typed
<1>4. \/ rows' = rows
      \/ /\ rows[tx[w].id] = tx[w].base
         /\ rows' = [rows EXCEPT ![tx[w].id] = Written(tx[w])]
  BY DEF Commit
<1>5. rows' \in Tables
  BY <1>1, <1>2, <1>4 DEF Tables
<1> QED BY <1>1, <1>2, <1>3, <1>4, <1>5

LEMMA TypedWrite ==
  ASSUME Typed, NEW w \in Writers, NEW k \in Kinds, NEW i \in Ids, NEW v \in Vals,
         Write(w, k, i, v)
  PROVE  Typed'
<1>1. rows \in Tables /\ clock \in Nat /\ MaxClock \in Nat
  BY TypedFacts, DashboardAssumption
<1>2. clock + 1 \in 1..MaxClock
  BY <1>1 DEF Write
<1>3. i \in used'
  BY <1>1 DEF Write, Typed, Live
<1>4. used' \subseteq Ids /\ used \subseteq used'
  BY DEF Write, Typed, TypeOK
<1> DEFINE t == [kind |-> k, id |-> i, base |-> rows[i], row |-> [stamp |-> clock + 1, val |-> v]]
<1>5. t \in Tx
  BY <1>1, <1>2, DashboardAssumption DEF Tables, Tx, Row
<1>6. tx' = [tx EXCEPT ![w] = t]
  BY DEF Write
<1>7. t.id = i
  OBVIOUS
<1> HIDE DEF t
<1>8. tx' \in [Writers -> Tx \cup {None}]
  BY <1>5, <1>6 DEF Typed
<1>9. \A x \in Writers : tx'[x] # None => /\ tx'[x].id \in used'
                                          /\ tx'[x].row \in Row
                                          /\ tx'[x].base \in Row \cup {None}
  <2> SUFFICES ASSUME NEW x \in Writers, tx'[x] # None
               PROVE  tx'[x].id \in used' /\ tx'[x] \in Tx
    BY DEF Tx
  <2>1. CASE x = w
    BY <1>3, <1>5, <1>6, <1>7, <2>1 DEF Typed
  <2>2. CASE x # w
    BY <1>4, <1>6, <2>2 DEF Typed, TypeOK
  <2> QED BY <2>1, <2>2
<1>10. UNCHANGED <<rows, date, read, cache, seen>> /\ clock' \in 0..MaxClock
  BY <1>1, <1>2 DEF Write
<1> QED BY <1>4, <1>8, <1>9, <1>10 DEF Typed, TypeOK, Live

LEMMA TypedCommit ==
  ASSUME Typed, NEW w \in Writers, Commit(w)
  PROVE  Typed'
<1>1. rows' \in Tables /\ UNCHANGED <<used, clock, date, read, cache>>
  BY CommitWrites DEF Commit
<1>2. /\ tx' \in [Writers -> Tx \cup {None}]
      /\ tx'[w] = None /\ \A v \in Writers \ {w} : tx'[v] = tx[v]
  BY CommitWrites
<1>3. Live(rows') \subseteq used
  <2>1. tx[w].id \in used
    BY TypedFacts DEF Commit
  <2>2. \A i \in Ids : i # tx[w].id => rows'[i] = rows[i]
    BY TypedFacts DEF Commit, Tables
  <2> QED BY <2>1, <2>2 DEF Live, Typed
<1>4. seen' \subseteq Key \X Snapshots
  <2>1. KeyOf(rows', date) \in Key /\ Snapshot(rows') \in Snapshots
    BY <1>1, TypedFacts, KeyOfType, SnapshotCounted
  <2> QED BY <2>1 DEF Commit, Typed
<1>5. \A x \in Writers : tx'[x] # None => /\ tx'[x].id \in used
                                          /\ tx'[x].row \in Row
                                          /\ tx'[x].base \in Row \cup {None}
  BY <1>2 DEF Typed, TypeOK
<1> QED BY <1>1, <1>2, <1>3, <1>4, <1>5 DEF Typed, TypeOK, Tables

LEMMA TypedRead ==
  ASSUME Typed, NEW r \in Readers,
         ReadKey(r) \/ Hit(r) \/ ComputeCounts(r) \/ ComputeRates(r)
  PROVE  Typed'
<1>1. UNCHANGED <<rows, used, clock, date, tx, seen>>
  BY DEF ReadKey, Hit, ComputeCounts, ComputeRates
<1>2. KeyOf(rows, date) \in Key /\ rows \in Tables
  BY TypedFacts
<1>3. CASE ReadKey(r)
  <2>1. [at |-> "keyed", key |-> KeyOf(rows, date), counts |-> {}] \in Reading
    BY <1>2 DEF Reading, Snapshots
  <2>2. read' \in [Readers -> Reading \cup {None}]
    BY <1>3, <2>1 DEF ReadKey, Typed
  <2> QED BY <1>1, <1>3, <2>2 DEF ReadKey, Typed, TypeOK
<1>4. CASE Hit(r)
  BY <1>1, <1>4 DEF Hit, Typed, TypeOK
<1>5. CASE ComputeCounts(r)
  <2>1. Snapshot(rows) \in Snapshots
    BY <1>2, SnapshotCounted
  <2>2. read[r] \in Reading
    BY <1>5, TypedFacts DEF ComputeCounts, InStep
  <2>3. [read[r] EXCEPT !.at = "counted", !.counts = Snapshot(rows)] \in Reading
    BY <2>1, <2>2 DEF Reading
  <2>4. read' = [read EXCEPT ![r] = [read[r] EXCEPT !.at = "counted", !.counts = Snapshot(rows)]]
    BY <1>5 DEF ComputeCounts, Typed
  <2>5. read' \in [Readers -> Reading \cup {None}]
    BY <2>3, <2>4 DEF Typed
  <2> QED BY <1>1, <1>5, <2>5 DEF ComputeCounts, Typed, TypeOK
<1>6. CASE ComputeRates(r)
  <2>1. read[r].key \in Key
    BY <1>6, TypedFacts DEF ComputeRates, InStep, Reading
  <2>2. read' \in [Readers -> Reading \cup {None}]
    BY <1>6 DEF ComputeRates, Typed
  <2> DEFINE new == [key |-> read[r].key,
                     payload |-> Payload(read[r].counts, Snapshot(rows), date)]
  <2>3. cache' = (cache \ Hits(r)) \cup {new} /\ new.key = read[r].key
    BY <1>6 DEF ComputeRates
  <2> HIDE DEF new
  <2>4. \A e \in cache' : e.key \in Key
    BY <2>1, <2>3 DEF Typed
  <2>5. \A e, f \in cache' : e.key = f.key => e = f
    BY <2>3 DEF Hits, Typed, TypeOK
  <2> QED BY <1>1, <2>2, <2>4, <2>5 DEF Typed, TypeOK
<1> QED BY <1>3, <1>4, <1>5, <1>6

LEMMA TypedStep == Typed /\ [Next]_vars => Typed'
<1> SUFFICES ASSUME Typed, [Next]_vars PROVE Typed'
  OBVIOUS
<1>1. CASE UNCHANGED vars
  BY <1>1 DEF vars, Typed, TypeOK, Live
<1>2. ASSUME NEW w \in Writers, Commit(w) PROVE Typed'
  BY <1>2, TypedCommit
<1>3. ASSUME NEW w \in Writers, NEW k \in Kinds, NEW i \in Ids, NEW v \in Vals, Write(w, k, i, v)
      PROVE  Typed'
  BY <1>3, TypedWrite
<1>4. ASSUME NEW r \in Readers, ReadKey(r) \/ Hit(r) \/ ComputeCounts(r) \/ ComputeRates(r)
      PROVE  Typed'
  BY <1>4, TypedRead
<1>5. ASSUME NEW e \in cache, Expire(e) PROVE Typed'
  BY <1>5 DEF Expire, Typed, TypeOK, Live
<1>6. CASE Midnight
  <2>1. date' \in 0..MaxDate /\ UNCHANGED <<rows, used, clock, tx, read, cache>>
    BY <1>6, TypedFacts, DashboardAssumption DEF Midnight
  <2>2. KeyOf(rows, date') \in Key /\ Snapshot(rows) \in Snapshots
    BY <2>1, TypedFacts, KeyOfType, SnapshotCounted
  <2>3. seen' \subseteq Key \X Snapshots
    BY <1>6, <2>2 DEF Midnight, Typed
  <2> QED BY <2>1, <2>3 DEF Typed, TypeOK, Live
<1> QED BY <1>1, <1>2, <1>3, <1>4, <1>5, <1>6 DEF Next

\* Every behaviour keeps the types of the rows, the requests and the store, and one entry
\* per key.
THEOREM TypeCorrect == Spec => []TypeOK
<1>1. Typed => TypeOK
  BY DEF Typed
<1> QED BY TypedInit, TypedStep, <1>1, PTL DEF Spec

-------------------------------------------------------------------------------
\* Writes in flight.

\* A create that is under way keeps its id to itself.
LEMMA WritesStep == Typed /\ WritesInv /\ [Next]_vars => WritesInv'
<1> SUFFICES ASSUME Typed, WritesInv, [Next]_vars PROVE WritesInv'
  OBVIOUS
<1>1. CASE UNCHANGED <<rows, tx>>
  BY <1>1 DEF WritesInv
<1>2. ASSUME NEW w \in Writers, NEW k \in Kinds, NEW i \in Ids, NEW v \in Vals, Write(w, k, i, v)
      PROVE  WritesInv'
  <2> DEFINE t == [kind |-> k, id |-> i, base |-> rows[i], row |-> [stamp |-> clock + 1, val |-> v]]
  <2>1. tx' = [tx EXCEPT ![w] = t] /\ tx[w] = None /\ UNCHANGED rows
    BY <1>2 DEF Write
  <2>2. t.kind = k /\ t.id = i /\ t.base = rows[i]
    OBVIOUS
  <2> HIDE DEF t
  <2>3. /\ tx'[w] = t /\ \A x \in Writers \ {w} : tx'[x] = tx[x]
    BY <2>1 DEF Typed
  <2>4. k = "create" => i \notin used
    BY <1>2 DEF Write
  <2>5. i \notin used => rows[i] = None /\ \A x \in Writers : tx[x] # None => tx[x].id # i
    BY TypedFacts DEF Typed, Live
  <2>6. k # "create" => rows[i] # None
    BY <1>2 DEF Write
  <2>7. ASSUME NEW x \in Writers, tx'[x] # None
        PROVE  /\ tx'[x].kind = "create" <=> tx'[x].base = None
               /\ tx'[x].kind = "create" =>
                    /\ rows[tx'[x].id] = None
                    /\ \A y \in Writers \ {x} : tx'[y] # None => tx'[y].id # tx'[x].id
    <3>1. CASE x = w
      BY <2>2, <2>3, <2>4, <2>5, <2>6, <3>1
    <3>2. CASE x # w
      <4>1. tx'[x] = tx[x] /\ tx[x] # None
        BY <2>3, <2>7, <3>2
      <4>2. ASSUME tx[x].kind = "create" PROVE i # tx[x].id
        <5>1. rows[tx[x].id] = None /\ tx[x].id \in used
          BY <4>1, <4>2, TypedFacts DEF WritesInv
        <5> QED BY <2>4, <2>6, <5>1
      <4>3. \A y \in Writers \ {x} : tx'[y] = tx[y] \/ (y = w /\ tx'[y].id = i)
        BY <2>2, <2>3
      <4>4. tx[x].kind = "create" => \A y \in Writers \ {x} : tx'[y] # None => tx'[y].id # tx[x].id
        BY <4>1, <4>2, <4>3 DEF WritesInv
      <4> QED BY <4>1, <4>4 DEF WritesInv
    <3> QED BY <3>1, <3>2
  <2> QED BY <2>1, <2>7 DEF WritesInv
<1>3. ASSUME NEW w \in Writers, Commit(w) PROVE WritesInv'
  <2>1. tx'[w] = None /\ (\A v \in Writers \ {w} : tx'[v] = tx[v]) /\ tx[w] # None
    BY <1>3, CommitWrites
  <2>2. ASSUME NEW x \in Writers \ {w}, tx[x] # None, tx[x].kind = "create"
        PROVE  rows'[tx[x].id] = None
    <3>1. rows[tx[x].id] = None /\ tx[x].id # tx[w].id
      BY <2>1, <2>2 DEF WritesInv
    <3> QED BY <1>3, <2>2, <3>1, TypedFacts DEF Commit, Tables
  <2> QED BY <2>1, <2>2 DEF WritesInv
<1>4. ASSUME NEW r \in Readers, ReadKey(r) \/ Hit(r) \/ ComputeCounts(r) \/ ComputeRates(r)
      PROVE  WritesInv'
  BY <1>1, <1>4 DEF ReadKey, Hit, ComputeCounts, ComputeRates
<1>5. ASSUME NEW e \in cache, Expire(e) PROVE WritesInv'
  BY <1>1, <1>5 DEF Expire
<1>6. CASE Midnight
  BY <1>1, <1>6 DEF Midnight
<1> QED BY <1>1, <1>2, <1>3, <1>4, <1>5, <1>6 DEF Next, vars

\* What a commit does to the key: nothing, a new latest stamp, or one row fewer.
LEMMA CommitMovesKey ==
  ASSUME Typed, WritesInv, StampsInv, SeenInv, NEW w \in Writers, Commit(w)
  PROVE  \/ rows' = rows
         \/ /\ Stamping(w)
            /\ rows' = [rows EXCEPT ![tx[w].id] = tx[w].row]
            /\ Latest(rows) < tx[w].row.stamp /\ Latest(rows') = tx[w].row.stamp
            /\ Cardinality(Live(rows)) <= Cardinality(Live(rows'))
         \/ /\ tx[w].kind = "destroy"
            /\ rows' = [rows EXCEPT ![tx[w].id] = None]
            /\ Latest(rows') <= Latest(rows)
            /\ Cardinality(Live(rows')) = Cardinality(Live(rows)) - 1
<1> SUFFICES ASSUME rows' # rows
      PROVE \/ /\ Stamping(w)
               /\ rows' = [rows EXCEPT ![tx[w].id] = tx[w].row]
               /\ Latest(rows) < tx[w].row.stamp /\ Latest(rows') = tx[w].row.stamp
               /\ Cardinality(Live(rows)) <= Cardinality(Live(rows'))
            \/ /\ tx[w].kind = "destroy"
               /\ rows' = [rows EXCEPT ![tx[w].id] = None]
               /\ Latest(rows') <= Latest(rows)
               /\ Cardinality(Live(rows')) = Cardinality(Live(rows)) - 1
  OBVIOUS
<1>1. /\ tx[w] \in Tx /\ tx[w] # None /\ tx[w].id \in Ids /\ tx[w].row \in Row
      /\ rows \in Tables
      /\ rows[tx[w].id] = tx[w].base /\ rows' = [rows EXCEPT ![tx[w].id] = Written(tx[w])]
  BY TypedFacts, CommitWrites DEF Tx
<1>2. CASE tx[w].kind = "destroy"
  <2>1. Written(tx[w]) = None /\ rows[tx[w].id] # None
    BY <1>1, <1>2 DEF Written, WritesInv
  <2> QED BY <1>1, <1>2, <2>1, RowDropped
<1>3. CASE tx[w].kind # "destroy"
  <2>1. Written(tx[w]) = tx[w].row /\ Stamping(w)
    BY <1>1, <1>3 DEF Written, Stamping
  <2>2. Latest(rows) < tx[w].row.stamp
    <3>1. <<KeyOf(rows, date), Snapshot(rows)>>[1].latest < tx[w].row.stamp
      BY <2>1 DEF SeenInv, StampsInv
    <3> QED BY <3>1 DEF KeyOf
  <2> QED BY <1>1, <2>1, <2>2, RowStamped
<1> QED BY <1>2, <1>3

\* The steps that leave the rows, the writes and the date alone.
LEMMA Otherwise ==
  ASSUME [Next]_vars,
         ~\E w \in Writers : \/ Commit(w)
                             \/ \E k \in Kinds, i \in Ids, v \in Vals : Write(w, k, i, v),
         ~Midnight
  PROVE  UNCHANGED <<rows, used, clock, date, tx, seen>>
BY DEF Next, vars, ReadKey, Hit, ComputeCounts, ComputeRates, Expire

LEMMA StampsStep ==
  ASSUME Typed, WritesInv, StampsInv, SeenInv, [Next /\ InOrder]_vars
  PROVE  StampsInv'
<1>1. clock \in Nat /\ \A x \in seen : x[1].latest \in Nat
  BY TypedFacts DEF Typed, Key
<1>2. ASSUME NEW w \in Writers, NEW k \in Kinds, NEW i \in Ids, NEW v \in Vals, Write(w, k, i, v)
      PROVE  StampsInv'
  <2>1. tx'[w].row.stamp = clock + 1 /\ \A x \in Writers \ {w} : tx'[x] = tx[x]
    BY <1>2 DEF Write, Typed
  <2>2. clock' = clock + 1 /\ seen' = seen /\ tx[w] = None
    BY <1>2 DEF Write
  <2>3. \A x \in Writers : tx[x] # None => tx[x].row.stamp \in Nat
    BY TypedFacts
  <2>4. \A x \in Writers : tx'[x] # None => x = w \/ (tx'[x] = tx[x] /\ tx[x].row.stamp < clock + 1)
    BY <1>1, <2>1, <2>3 DEF StampsInv
  <2>5. \A x \in Writers : tx'[x] # None => tx'[x].row.stamp <= clock'
    BY <1>1, <2>1, <2>2, <2>3, <2>4
  <2>6. \A x, y \in Writers :
          tx'[x] # None /\ tx'[y] # None /\ tx'[x].row.stamp = tx'[y].row.stamp => x = y
    <3> SUFFICES ASSUME NEW x \in Writers, NEW y \in Writers, tx'[x] # None, tx'[y] # None,
                        tx'[x].row.stamp = tx'[y].row.stamp
                 PROVE  x = y
      OBVIOUS
    <3>1. CASE x # w /\ y # w
      BY <2>1, <3>1 DEF StampsInv
    <3>2. CASE x = w \/ y = w
      BY <1>1, <2>1, <2>3, <2>4, <3>2
    <3> QED BY <3>1, <3>2
  <2>7. \A x \in seen : x[1].latest < clock + 1
    BY <1>1 DEF StampsInv
  <2>8. \A x \in seen, y \in Writers : Stamping(y)' => x[1].latest < tx'[y].row.stamp
    <3> SUFFICES ASSUME NEW x \in seen, NEW y \in Writers, Stamping(y)'
                 PROVE  x[1].latest < tx'[y].row.stamp
      OBVIOUS
    <3>1. CASE y = w
      BY <2>1, <2>7, <3>1
    <3>2. CASE y # w
      BY <2>1, <3>2 DEF StampsInv, Stamping
    <3> QED BY <3>1, <3>2
  <2>9. \A x \in seen' : x[1].latest <= clock'
    BY <1>1, <2>2, <2>7
  <2> QED BY <2>2, <2>5, <2>6, <2>8, <2>9 DEF StampsInv
<1>3. ASSUME NEW w \in Writers, Commit(w) PROVE StampsInv'
  <2>1. tx'[w] = None /\ (\A v \in Writers \ {w} : tx'[v] = tx[v]) /\ tx[w] # None
    BY <1>3, CommitWrites
  <2>2. seen' = seen \cup {<<KeyOf(rows', date), Snapshot(rows')>>} /\ clock' = clock
    BY <1>3 DEF Commit
  <2>3. rows \in Tables /\ rows' \in Tables
    BY <1>3, TypedFacts, CommitWrites
  <2>4. Latest(rows) \in Nat /\ Latest(rows') \in Nat
    BY <2>3, LatestIsGreatest
  <2>5. /\ Latest(rows) <= clock
        /\ \A y \in Writers : Stamping(y) => Latest(rows) < tx[y].row.stamp
    <3>1. <<KeyOf(rows, date), Snapshot(rows)>>[1].latest = Latest(rows)
      BY DEF KeyOf
    <3> QED BY <3>1 DEF SeenInv, StampsInv
  <2>6. \A x \in Writers : tx[x] # None => tx[x].row.stamp \in Nat
    BY TypedFacts
  <2>7. Latest(rows') <= clock
    <3>1. CASE rows' = rows
      BY <2>5, <3>1
    <3>2. CASE Stamping(w) /\ Latest(rows') = tx[w].row.stamp
      BY <2>1, <3>2 DEF StampsInv
    <3>3. CASE Latest(rows') <= Latest(rows)
      BY <1>1, <2>4, <2>5, <3>3
    <3> QED BY <1>3, <3>1, <3>2, <3>3, CommitMovesKey
  <2>8. ASSUME NEW y \in Writers, Stamping(y)' PROVE Latest(rows') < tx'[y].row.stamp
    <3>1. y # w /\ tx'[y] = tx[y] /\ tx[y] # None /\ Stamping(y)
      BY <2>1, <2>8 DEF Stamping
    <3>2. CASE rows' = rows
      BY <2>5, <3>1, <3>2
    <3>3. CASE Stamping(w) /\ Latest(rows') = tx[w].row.stamp
      <4>1. InOrder
        BY <1>3, <2>1 DEF vars
      <4>2. tx[w].row.stamp <= tx[y].row.stamp
        BY <1>3, <3>1, <3>3, <4>1 DEF InOrder
      <4>3. tx[w].row.stamp # tx[y].row.stamp
        BY <2>1, <3>1 DEF StampsInv
      <4> QED BY <2>1, <2>6, <3>1, <3>3, <4>2, <4>3
    <3>4. CASE Latest(rows') <= Latest(rows)
      BY <2>4, <2>5, <2>6, <3>1, <3>4
    <3> QED BY <1>3, <3>2, <3>3, <3>4, CommitMovesKey
  <2>9. <<KeyOf(rows', date), Snapshot(rows')>>[1].latest = Latest(rows')
    BY DEF KeyOf
  <2>10. \A x \in seen' : x[1].latest <= clock'
    BY <2>2, <2>7, <2>9 DEF StampsInv
  <2>11. \A x \in seen', y \in Writers : Stamping(y)' => x[1].latest < tx'[y].row.stamp
    <3> SUFFICES ASSUME NEW x \in seen', NEW y \in Writers, Stamping(y)'
                 PROVE  x[1].latest < tx'[y].row.stamp
      OBVIOUS
    <3>1. CASE x \in seen
      <4>1. y # w /\ tx'[y] = tx[y] /\ Stamping(y)
        BY <2>1 DEF Stamping
      <4> QED BY <3>1, <4>1 DEF StampsInv
    <3>2. CASE x = <<KeyOf(rows', date), Snapshot(rows')>>
      BY <2>8, <2>9, <3>2
    <3> QED BY <2>2, <3>1, <3>2
  <2>12. \A x \in Writers : tx'[x] # None => x # w /\ tx'[x] = tx[x]
    BY <2>1
  <2>13. /\ \A x \in Writers : tx'[x] # None => tx'[x].row.stamp <= clock'
         /\ \A x, y \in Writers :
              tx'[x] # None /\ tx'[y] # None /\ tx'[x].row.stamp = tx'[y].row.stamp => x = y
    BY <2>2, <2>12 DEF StampsInv
  <2> QED BY <2>10, <2>11, <2>13 DEF StampsInv
<1>4. CASE Midnight
  <2>1. <<KeyOf(rows, date'), Snapshot(rows)>>[1].latest = <<KeyOf(rows, date), Snapshot(rows)>>[1].latest
    BY DEF KeyOf
  <2>2. \A x \in seen' : \E y \in seen : x[1].latest = y[1].latest
    BY <1>4, <2>1 DEF Midnight, SeenInv
  <2>3. UNCHANGED <<clock, tx>>
    BY <1>4 DEF Midnight
  <2> QED BY <2>2, <2>3 DEF StampsInv, Stamping
<1>5. CASE UNCHANGED <<clock, tx, seen>>
  BY <1>5 DEF StampsInv, Stamping
<1> QED BY <1>2, <1>3, <1>4, <1>5, Otherwise

-------------------------------------------------------------------------------
\* The history: what an earlier state tells of the rows.

\* What SeenInv says of the state of a key and a snapshot, about the table rs.
Tells(x, rs) ==
  /\ IsFiniteSet(x[2]) /\ Cardinality(x[2]) = x[1].count
  /\ \A i \in Live(rs) : rs[i].stamp <= x[1].latest => <<i, rs[i].val>> \in x[2]

\* A state tells all about itself ...
LEMMA TellsItself ==
  ASSUME NEW rs \in Tables, NEW d
  PROVE  Tells(<<KeyOf(rs, d), Snapshot(rs)>>, rs)
<1>1. <<KeyOf(rs, d), Snapshot(rs)>>[1].count = Cardinality(Live(rs))
  BY DEF KeyOf
<1>2. <<KeyOf(rs, d), Snapshot(rs)>>[2] = Snapshot(rs)
  OBVIOUS
<1> QED BY <1>1, <1>2, SnapshotCounted DEF Tells, Snapshot

\* ... and a table whose key is that of an earlier state has its rows: each of them is in
\* the older snapshot, which has no room for another.
LEMMA SameKeySameRows ==
  ASSUME NEW rs \in Tables, NEW d, NEW x, Tells(x, rs), x[1] = KeyOf(rs, d)
  PROVE  x[2] = Snapshot(rs)
<1>1. x[1].latest = Latest(rs) /\ x[1].count = Cardinality(Live(rs))
  BY DEF KeyOf
<1>2. Snapshot(rs) \subseteq x[2]
  BY <1>1, LatestIsGreatest DEF Snapshot, Tells
<1>3. Cardinality(Snapshot(rs)) = Cardinality(x[2]) /\ IsFiniteSet(x[2])
  BY <1>1, SnapshotCounted DEF Tells
<1> QED BY <1>2, <1>3, FS_Subset

\* A commit brings no row back that an earlier state did not have as it is now.
LEMMA CommitKeepsTelling ==
  ASSUME Typed, WritesInv, StampsInv, SeenInv, NEW w \in Writers, Commit(w), NEW x \in seen
  PROVE  Tells(x, rows')
<1>1. Tells(x, rows)
  BY DEF SeenInv, Tells
<1>2. SUFFICES ASSUME NEW i \in Live(rows'), rows'[i].stamp <= x[1].latest
               PROVE  <<i, rows'[i].val>> \in x[2]
  BY <1>1 DEF Tells
<1>3. CASE i \in Live(rows) /\ rows'[i] = rows[i]
  BY <1>1, <1>2, <1>3 DEF Tells
<1>4. CASE i \in Ids /\ Stamping(w) /\ rows' = [rows EXCEPT ![tx[w].id] = tx[w].row]
  <2>1. CASE i = tx[w].id
    <3>1. rows'[i] = tx[w].row
      BY <1>4, <2>1, TypedFacts DEF Tables
    <3>2. x[1].latest < tx[w].row.stamp /\ x[1].latest \in Nat /\ tx[w].row.stamp \in Nat
      BY <1>4, TypedFacts DEF StampsInv, Typed, Key, Stamping
    <3> QED BY <1>2, <3>1, <3>2
  <2>2. CASE i # tx[w].id
    BY <1>3, <1>4, <2>2, TypedFacts DEF Tables, Live
  <2> QED BY <2>1, <2>2
<1>5. CASE i \in Ids /\ rows' = [rows EXCEPT ![tx[w].id] = None]
  BY <1>2, <1>3, <1>5, TypedFacts DEF Tables, Live
<1>6. CASE rows' = rows
  BY <1>2, <1>3, <1>6
<1>7. i \in Ids
  BY <1>2 DEF Live
<1> QED BY <1>4, <1>5, <1>6, <1>7, CommitMovesKey

\* With a new state added, the history still tells all about the table.
LEMMA HistoryGrows ==
  ASSUME KeyNamesRows,
         NEW rs \in Tables, NEW d, \A x \in seen : Tells(x, rs),
         rs = rows', d = date', seen' = seen \cup {<<KeyOf(rs, d), Snapshot(rs)>>}
  PROVE  SeenInv' /\ KeyNamesRows'
<1> DEFINE now == <<KeyOf(rs, d), Snapshot(rs)>>
<1>1. now[1] = KeyOf(rs, d) /\ now[2] = Snapshot(rs) /\ Tells(now, rs)
  BY TellsItself
<1> HIDE DEF now
<1>2. seen' = seen \cup {now}
  BY DEF now
<1>3. \A x \in seen' : Tells(x, rs)
  BY <1>1, <1>2
<1>4. SeenInv'
  BY <1>3 DEF SeenInv, Tells, now
<1>5. \A x \in seen' : x[1] = now[1] => x[2] = now[2]
  BY <1>1, <1>3, SameKeySameRows
<1>6. KeyNamesRows'
  BY <1>2, <1>5 DEF KeyNamesRows
<1> QED BY <1>4, <1>6

LEMMA SeenStep ==
  ASSUME Typed, WritesInv, StampsInv, SeenInv, KeyNamesRows, [Next]_vars
  PROVE  SeenInv' /\ KeyNamesRows'
<1>1. ASSUME NEW w \in Writers, Commit(w) PROVE SeenInv' /\ KeyNamesRows'
  <2>1. rows' \in Tables /\ \A x \in seen : Tells(x, rows')
    BY <1>1, CommitWrites, CommitKeepsTelling
  <2>2. seen' = seen \cup {<<KeyOf(rows', date'), Snapshot(rows')>>}
    BY <1>1 DEF Commit
  <2> QED BY <2>1, <2>2, HistoryGrows
<1>2. CASE Midnight
  <2>1. rows' = rows /\ rows' \in Tables /\ seen' = seen \cup {<<KeyOf(rows', date'), Snapshot(rows')>>}
    BY <1>2, TypedFacts DEF Midnight
  <2>2. \A x \in seen : Tells(x, rows')
    BY <2>1 DEF SeenInv, Tells
  <2> QED BY <2>1, <2>2, HistoryGrows
<1>3. CASE UNCHANGED <<rows, date, seen>>
  BY <1>3 DEF SeenInv, KeyNamesRows
<1>4. ASSUME NEW w \in Writers, NEW k \in Kinds, NEW i \in Ids, NEW v \in Vals, Write(w, k, i, v)
      PROVE  SeenInv' /\ KeyNamesRows'
  BY <1>3, <1>4 DEF Write
<1> QED BY <1>1, <1>2, <1>3, <1>4, Otherwise

-------------------------------------------------------------------------------
\* The cache.

\* A deleted row does not come back.
LEMMA IntactBefore == Typed /\ WritesInv /\ [Next]_vars /\ Intact' => Intact
<1> SUFFICES ASSUME Typed, WritesInv, [Next]_vars, Intact', NEW i \in used
             PROVE  \/ rows[i] # None
                    \/ \E w \in Writers : tx[w] # None /\ tx[w].kind = "create" /\ tx[w].id = i
  BY DEF Intact
<1>1. ASSUME NEW w \in Writers, NEW k \in Kinds, NEW j \in Ids, NEW v \in Vals, Write(w, k, j, v),
             rows[i] = None
      PROVE  \E x \in Writers : tx[x] # None /\ tx[x].kind = "create" /\ tx[x].id = i
  <2>1. tx'[w].kind = k /\ tx'[w].id = j /\ \A x \in Writers \ {w} : tx'[x] = tx[x]
    BY <1>1 DEF Write, Typed
  <2>2. i \in used' /\ rows'[i] = None
    BY <1>1 DEF Write
  <2>3. PICK x \in Writers : tx'[x] # None /\ tx'[x].kind = "create" /\ tx'[x].id = i
    BY <2>2 DEF Intact
  <2>4. x # w
    BY <1>1, <2>1, <2>3 DEF Write
  <2> QED BY <2>1, <2>3, <2>4
<1>2. ASSUME NEW w \in Writers, Commit(w), rows[i] = None
      PROVE  \E x \in Writers : tx[x] # None /\ tx[x].kind = "create" /\ tx[x].id = i
  <2>1. i \in used' /\ i \in Ids /\ rows \in Tables
    BY <1>2, TypedFacts DEF Commit, Typed, TypeOK
  <2>2. tx'[w] = None /\ (\A v \in Writers \ {w} : tx'[v] = tx[v]) /\ tx[w] # None
    BY <1>2, CommitWrites
  <2>3. CASE rows'[i] = None
    <3>1. PICK x \in Writers : tx'[x] # None /\ tx'[x].kind = "create" /\ tx'[x].id = i
      BY <2>1, <2>3 DEF Intact
    <3> QED BY <2>2, <3>1
  <2>4. CASE rows'[i] # None
    <3>1. rows' = [rows EXCEPT ![tx[w].id] = Written(tx[w])] /\ rows[tx[w].id] = tx[w].base
      BY <1>2, <2>4 DEF Commit
    <3>2. i = tx[w].id
      BY <1>2, <2>1, <2>4, <3>1 DEF Tables
    <3>3. tx[w].kind = "create"
      BY <1>2, <2>2, <3>1, <3>2 DEF WritesInv
    <3> QED BY <2>2, <3>2, <3>3
  <2> QED BY <2>3, <2>4
<1>3. CASE UNCHANGED <<rows, used, tx>>
  BY <1>3 DEF Intact
<1>4. CASE Midnight
  BY <1>3, <1>4 DEF Midnight
<1> QED BY <1>1, <1>2, <1>3, <1>4, Otherwise

\* A commit leaves the rows alone, deletes one, or puts the key ahead.
LEMMA CommitGoesAhead ==
  ASSUME Typed, WritesInv, StampsInv, SeenInv, NEW w \in Writers, Commit(w), rows' # rows
  PROVE  /\ KeyOf(rows, date) # KeyOf(rows', date')
         /\ Intact' => KeyLeq(KeyOf(rows, date), KeyOf(rows', date'))
<1>1. date' = date /\ date \in Nat /\ rows \in Tables /\ rows' \in Tables
  BY TypedFacts, CommitWrites DEF Commit
<1>2. /\ Latest(rows) \in Nat /\ Latest(rows') \in Nat
      /\ Cardinality(Live(rows)) \in Nat /\ Cardinality(Live(rows')) \in Nat
  BY <1>1, LatestIsGreatest, SnapshotCounted
<1>3. CASE /\ Latest(rows) < tx[w].row.stamp /\ Latest(rows') = tx[w].row.stamp
           /\ Cardinality(Live(rows)) <= Cardinality(Live(rows'))
  <2>1. Latest(rows) < Latest(rows')
    BY <1>3
  <2> QED BY <1>1, <1>2, <1>3, <2>1 DEF KeyOf, KeyLeq
<1>4. CASE /\ tx[w].kind = "destroy"
           /\ rows' = [rows EXCEPT ![tx[w].id] = None]
           /\ Cardinality(Live(rows')) = Cardinality(Live(rows)) - 1
  <2>1. Cardinality(Live(rows')) # Cardinality(Live(rows))
    BY <1>2, <1>4
  <2>2. KeyOf(rows, date) # KeyOf(rows', date')
    BY <2>1 DEF KeyOf
  <2>3. ~Intact'
    <3>1. tx'[w] = None /\ (\A v \in Writers \ {w} : tx'[v] = tx[v]) /\ tx[w] # None
      BY CommitWrites
    <3>2. tx[w].id \in used' /\ rows'[tx[w].id] = None
      BY <1>1, <1>4, <3>1, TypedFacts DEF Commit, Tables
    <3>3. \A v \in Writers \ {w} : tx[v] # None /\ tx[v].kind = "create" => tx[v].id # tx[w].id
      BY <3>1 DEF WritesInv
    <3> QED BY <3>1, <3>2, <3>3 DEF Intact
  <2> QED BY <2>2, <2>3
<1> QED BY <1>3, <1>4, CommitMovesKey

\* Behind one key is behind the next.
LEMMA KeyBehind ==
  ASSUME NEW k \in Key, NEW l \in Key, NEW m \in Key, KeyLeq(k, l), KeyLeq(l, m), l # m
  PROVE  KeyLeq(k, m) /\ k # m
BY DEF Key, KeyLeq

\* When the key goes ahead, nothing that was stored or read is served under the new one.
LEMMA CacheLeftBehind ==
  ASSUME Typed, Typed', CacheInv, UNCHANGED <<cache, read>>, Intact' => Intact,
         KeyOf(rows, date) # KeyOf(rows', date'),
         Intact' => KeyLeq(KeyOf(rows, date), KeyOf(rows', date'))
  PROVE  CacheInv'
<1> SUFFICES ASSUME Intact' PROVE CacheInv'
  BY DEF CacheInv
<1>1. /\ \A e \in cache : KeyLeq(e.key, KeyOf(rows, date)) /\ e.key \in Key
      /\ \A r \in Readers : read[r] # None => KeyLeq(read[r].key, KeyOf(rows, date)) /\ read[r].key \in Key
  BY TypedFacts DEF CacheInv, Typed, Reading
<1>2. KeyOf(rows, date) \in Key /\ KeyOf(rows', date') \in Key
  <2>1. KeyOf(rows, date) \in Key
    BY TypedFacts
  <2>2. rows' \in Tables /\ date' \in Nat
    BY DashboardAssumption DEF Typed, TypeOK, Tables
  <2> QED BY <2>1, <2>2, KeyOfType
<1>3. /\ \A e \in cache : KeyLeq(e.key, KeyOf(rows', date')) /\ e.key # KeyOf(rows', date')
      /\ \A r \in Readers : read[r] # None =>
           KeyLeq(read[r].key, KeyOf(rows', date')) /\ read[r].key # KeyOf(rows', date')
  BY <1>1, <1>2, KeyBehind
<1> QED BY <1>3 DEF CacheInv

LEMMA CacheStep ==
  ASSUME IInv, Typed', [Next]_vars
  PROVE  CacheInv'
<1>1. Intact' => Intact
  BY IntactBefore DEF IInv
<1>2. CASE UNCHANGED <<rows, date, cache, read>>
  <2>1. UNCHANGED <<Stats, Snapshot(rows), KeyOf(rows, date)>>
    BY <1>2 DEF Stats
  <2> QED BY <1>1, <1>2, <2>1 DEF IInv, CacheInv
<1>3. ASSUME NEW w \in Writers, Commit(w) PROVE CacheInv'
  <2>1. UNCHANGED <<date, cache, read>>
    BY <1>3 DEF Commit
  <2>2. CASE rows' = rows
    BY <1>2, <2>1, <2>2
  <2>3. CASE rows' # rows
    BY <1>1, <1>3, <2>1, <2>3, CommitGoesAhead, CacheLeftBehind DEF IInv
  <2> QED BY <2>2, <2>3
<1>4. CASE Midnight
  <2>1. UNCHANGED <<rows, cache, read>> /\ date' = date + 1
    BY <1>4 DEF Midnight
  <2>2. date \in Nat /\ rows \in Tables
    BY TypedFacts DEF IInv
  <2>3. Latest(rows) \in Nat /\ Cardinality(Live(rows)) \in Nat
    BY <2>2, LatestIsGreatest, SnapshotCounted
  <2>4. /\ KeyOf(rows, date) # KeyOf(rows', date')
        /\ KeyLeq(KeyOf(rows, date), KeyOf(rows', date'))
    BY <2>1, <2>2, <2>3 DEF KeyOf, KeyLeq
  <2> QED BY <1>1, <2>1, <2>4, CacheLeftBehind DEF IInv
<1>5. ASSUME NEW w \in Writers, NEW k \in Kinds, NEW i \in Ids, NEW v \in Vals, Write(w, k, i, v)
      PROVE  CacheInv'
  BY <1>2, <1>5 DEF Write
<1>6. ASSUME NEW r \in Readers, ReadKey(r) \/ Hit(r) \/ ComputeCounts(r) \/ ComputeRates(r), Intact'
      PROVE  CacheInv'
  <2>1. UNCHANGED <<rows, date>>
    BY <1>6 DEF ReadKey, Hit, ComputeCounts, ComputeRates
  <2> DEFINE now == KeyOf(rows, date)
             Served(x) == KeyLeq(x.key, now) /\ (x.key = now => x.payload = Stats)
             Held(x) == /\ KeyLeq(x.key, now)
                        /\ x.at = "counted" /\ x.key = now => x.counts = Snapshot(rows)
  <2>2. SUFFICES /\ \A x \in cache' : Served(x)
                 /\ \A x \in Readers : read'[x] # None => Held(read'[x])
    BY <2>1 DEF CacheInv, Stats
  <2>3. /\ \A x \in cache : Served(x)
        /\ \A x \in Readers : read[x] # None => Held(read[x])
    BY <1>1, <1>6 DEF IInv, CacheInv
  <2>4. \A x \in Readers \ {r} : read'[x] = read[x]
    BY <1>6 DEF ReadKey, Hit, ComputeCounts, ComputeRates, IInv, Typed
  <2>5. CASE ReadKey(r)
    <3>1. read'[r] = [at |-> "keyed", key |-> now, counts |-> {}] /\ cache' = cache
      BY <2>5 DEF ReadKey, IInv, Typed
    <3>2. KeyLeq(now, now)
      BY TypedFacts DEF KeyLeq, Key, IInv
    <3>3. Held(read'[r])
      BY <3>1, <3>2
    <3> HIDE DEF Served, Held
    <3> QED BY <2>3, <2>4, <3>1, <3>3
  <2>6. CASE Hit(r)
    <3>1. read'[r] = None /\ cache' = cache
      BY <2>6 DEF Hit, IInv, Typed
    <3> HIDE DEF Served, Held
    <3> QED BY <2>3, <2>4, <3>1
  <2>7. CASE ComputeCounts(r)
    <3>1. /\ read'[r] = [read[r] EXCEPT !.at = "counted", !.counts = Snapshot(rows)]
          /\ read[r] # None /\ cache' = cache
      BY <2>7 DEF ComputeCounts, InStep, IInv, Typed
    <3>2. read[r] \in Reading
      BY <3>1, TypedFacts DEF IInv
    <3>3. read'[r].key = read[r].key /\ read'[r].counts = Snapshot(rows)
      BY <3>1, <3>2 DEF Reading
    <3>4. Held(read'[r])
      BY <2>3, <3>1, <3>3
    <3> HIDE DEF Served, Held
    <3> QED BY <2>3, <2>4, <3>1, <3>4
  <2>8. CASE ComputeRates(r)
    <3> DEFINE new == [key |-> read[r].key,
                       payload |-> Payload(read[r].counts, Snapshot(rows), date)]
    <3>1. /\ read'[r] = None /\ read[r] # None /\ read[r].at = "counted"
          /\ cache' \subseteq cache \cup {new}
      BY <2>8 DEF ComputeRates, InStep, IInv, Typed
    <3>2. new.key = read[r].key /\ new.payload = Payload(read[r].counts, Snapshot(rows), date)
      OBVIOUS
    <3> HIDE DEF new
    <3>3. Served(new)
      BY <2>3, <3>1, <3>2 DEF Stats
    <3> HIDE DEF Served, Held
    <3> QED BY <2>3, <2>4, <3>1, <3>3
  <2> QED BY <1>6, <2>5, <2>6, <2>7, <2>8
<1>7. ASSUME NEW e \in cache, Expire(e), Intact' PROVE CacheInv'
  <2>1. cache' \subseteq cache /\ UNCHANGED <<rows, date, read>>
    BY <1>7 DEF Expire
  <2>2. UNCHANGED <<Stats, Snapshot(rows), KeyOf(rows, date)>>
    BY <2>1 DEF Stats
  <2> QED BY <1>1, <1>7, <2>1, <2>2 DEF IInv, CacheInv
<1>8. ~Intact' => CacheInv'
  BY DEF CacheInv
<1> QED BY <1>2, <1>3, <1>4, <1>5, <1>6, <1>7, <1>8 DEF Next, vars

-------------------------------------------------------------------------------
\* The inductive invariant, and what follows from it.

LEMMA IInvInit == Init => IInv
<1> SUFFICES ASSUME Init PROVE IInv
  OBVIOUS
<1>1. Typed
  BY TypedInit
<1>2. rows \in Tables /\ Live(rows) = {} /\ Snapshot(rows) = {}
  BY DEF Init, Tables, Live, Snapshot
<1>3. Latest(rows) = 0
  BY <1>2 DEF Latest, Stamps
<1>4. seen = {<<KeyOf(rows, date), Snapshot(rows)>>} /\ clock = 0
  BY <1>2 DEF Init
<1>5. SeenInv
  BY <1>2, <1>4, TellsItself DEF SeenInv, Tells
<1>6. <<KeyOf(rows, date), Snapshot(rows)>>[1].latest = 0
  BY <1>3 DEF KeyOf
<1>7. WritesInv /\ StampsInv /\ CacheInv
  BY <1>4, <1>6 DEF Init, WritesInv, StampsInv, CacheInv, Stamping
<1>8. KeyNamesRows
  BY <1>4 DEF KeyNamesRows
<1> QED BY <1>1, <1>5, <1>7, <1>8 DEF IInv

LEMMA IInvStep == IInv /\ [Next /\ InOrder]_vars => IInv'
<1> SUFFICES ASSUME IInv, [Next /\ InOrder]_vars PROVE IInv'
  OBVIOUS
<1>1. [Next]_vars
  OBVIOUS
<1>2. Typed' /\ WritesInv'
  BY <1>1, TypedStep, WritesStep DEF IInv
<1>3. StampsInv'
  BY StampsStep DEF IInv
<1>4. SeenInv' /\ KeyNamesRows'
  BY <1>1, SeenStep DEF IInv
<1>5. CacheInv'
  BY <1>1, <1>2, CacheStep
<1> QED BY <1>2, <1>3, <1>4, <1>5 DEF IInv

\* Stamps are distinct and newer than the table's, the history tells the rows by their
\* stamps, and no key is ahead of the rows, in every behaviour whose rows reach the table in
\* the order of their stamps.
THEOREM Invariant == OrderedSpec => []IInv
BY IInvInit, IInvStep, PTL DEF OrderedSpec

\* Count and latest updated_at name the rows: two states of the table under one key are the
\* same state, whatever was written and deleted between them.
THEOREM KeysNameRows == OrderedSpec => []KeyNamesRows
<1>1. IInv => KeyNamesRows
  BY DEF IInv
<1> QED BY Invariant, <1>1, PTL

\* Until a row is deleted, an entry under the present key holds the present stats.
THEOREM CacheCorrect == OrderedSpec => []CacheIsTrue
<1>1. IInv => CacheIsTrue
  BY DEF IInv, CacheInv, CacheIsTrue
<1> QED BY Invariant, <1>1, PTL

\* A step that changes what the stats read, or the date, changes the key: nothing has to be
\* invalidated by hand.
THEOREM KeyChanges == OrderedSpec => KeyChangesWithStats
<1>1. IInv /\ [Next /\ InOrder]_vars =>
        [Stats' # Stats => KeyOf(rows, date)' # KeyOf(rows, date)]_vars
  <2> SUFFICES ASSUME IInv, [Next]_vars, Stats' # Stats
               PROVE  KeyOf(rows, date)' # KeyOf(rows, date)
    OBVIOUS
  <2>1. rows' # rows \/ date' # date
    BY DEF Stats
  <2>2. ASSUME NEW w \in Writers, Commit(w), rows' # rows
        PROVE  KeyOf(rows, date)' # KeyOf(rows, date)
    BY <2>2, CommitGoesAhead DEF IInv
  <2>3. CASE date' # date
    BY <2>3 DEF KeyOf
  <2>4. ASSUME NEW w \in Writers, NEW k \in Kinds, NEW i \in Ids, NEW v \in Vals, Write(w, k, i, v)
        PROVE  UNCHANGED <<rows, date>>
    BY <2>4 DEF Write
  <2>5. Midnight => rows' = rows
    BY DEF Midnight
  <2> QED BY <2>1, <2>2, <2>3, <2>4, <2>5, Otherwise
<1> QED BY Invariant, <1>1, PTL DEF OrderedSpec, KeyChangesWithStats

\* With one write under way at a time the rows reach the table in order, and nothing has to
\* be assumed.
THEOREM OneWriterIsInOrder == (\A v, w \in Writers : v = w) /\ Spec => OrderedSpec
<1> SUFFICES ASSUME \A v, w \in Writers : v = w PROVE Spec => OrderedSpec
  OBVIOUS
<1>1. Typed /\ [Next]_vars => [Next /\ InOrder]_vars
  <2> SUFFICES ASSUME Typed, NEW v \in Writers, NEW w \in Writers, Stamping(w)
               PROVE  tx[w].row.stamp <= tx[v].row.stamp
    BY DEF InOrder
  <2>1. tx[w].row.stamp \in Nat
    BY TypedFacts DEF Stamping
  <2> QED BY <2>1
<1> QED BY <1>1, TypedInit, TypedStep, PTL DEF Spec, OrderedSpec
===============================================================================
