---------------------------- MODULE DashboardCache ----------------------------
(***************************************************************************)
(* The dashboard's stats cache.  A request computes a key from the user's  *)
(* rows (their count, their latest updated_at, the date), and on a miss    *)
(* reads the rows again, query by query, and stores the result under that  *)
(* key.  Nothing ever invalidates an entry: the key is meant to change     *)
(* whenever the stats could.  Meanwhile writers stamp updated_at when they *)
(* build their UPDATE and commit later, and the date changes.              *)
(***************************************************************************)
EXTENDS Naturals, FiniteSets

CONSTANTS Ids,       \* primary keys of one user's applications, never reused
          Vals,      \* the columns the stats read (stage, company, board, ...)
          Writers,   \* writing requests in flight
          Readers,   \* dashboard requests in flight
          Kinds,     \* the kinds of write explored
          None,
          MaxClock,  \* bound of the exploration: writes
          MaxDate    \* bound of the exploration: midnights

Row == [stamp: 1..MaxClock, val: Vals]

ASSUME DashboardAssumption ==
  /\ IsFiniteSet(Ids)
  /\ Kinds \subseteq {"create", "update", "destroy"}
  /\ MaxClock \in Nat /\ MaxDate \in Nat
  /\ None \notin Row

VARIABLES
  rows,   \* rows[i]: the committed application i
  used,   \* ids handed out
  clock,  \* distinct values of Time.current handed out so far
  date,   \* Date.current
  tx,     \* tx[w]: the write request w has sent to the database
  read,   \* read[r]: the dashboard request r
  cache,  \* entries of the store: a key and a payload
  seen    \* history: <<key, snapshot>> of every committed state

vars == <<rows, used, clock, date, tx, read, cache, seen>>

Live(rs)     == { i \in Ids : rs[i] # None }
Stamps(rs)   == { rs[i].stamp : i \in Live(rs) }
Latest(rs)   == IF Stamps(rs) = {} THEN 0
                ELSE CHOOSE s \in Stamps(rs) : \A x \in Stamps(rs) : x <= s

\* Mutant: the key is the count and the date alone.
KeyOf_NoStamp(rs, d) == [count |-> Cardinality(Live(rs)), latest |-> 0, date |-> d]

\* Mutant: the key's date is not renewed at midnight.
KeyOf_NoDate(rs, d) == [count |-> Cardinality(Live(rs)), latest |-> Latest(rs), date |-> 0]

\* COUNT(*), MAX(updated_at), Date.current (the user and the payload version are fixed)
KeyOf(rs, d) == [count |-> Cardinality(Live(rs)), latest |-> Latest(rs), date |-> d]

\* What one query of compute_stats sees.
Snapshot(rs) == { <<i, rs[i].val>> : i \in Live(rs) }

\* compute_stats is several queries; two stand for all: the stage and facet counts, and
\* the rates and ghost risk, which also depend on the date.
Payload(first, second, d) == [counts |-> first, rates |-> second, date |-> d]
Stats == Payload(Snapshot(rows), Snapshot(rows), date)

Init == /\ rows = [i \in Ids |-> None]
        /\ used = {}
        /\ clock = 0
        /\ date = 0
        /\ tx = [w \in Writers |-> None]
        /\ read = [r \in Readers |-> None]
        /\ cache = {}
        /\ seen = {<<KeyOf(rows, 0), {}>>}

-------------------------------------------------------------------------------
\* A write builds its statement: Rails sets updated_at from the clock here, before the
\* row is locked or the transaction commits.
Write(w, kind, i, v) ==
  /\ tx[w] = None
  /\ kind \in Kinds
  /\ clock < MaxClock
  /\ kind = "create" => i \notin used /\ used' = used \cup {i}
  /\ kind # "create" => rows[i] # None /\ UNCHANGED used
  /\ kind = "update" => v # rows[i].val
  /\ clock' = clock + 1
  /\ tx' = [tx EXCEPT ![w] = [kind |-> kind, id |-> i, base |-> rows[i],
                              row |-> [stamp |-> clock + 1, val |-> v]]]
  /\ UNCHANGED <<rows, date, read, cache, seen>>

\* Mutant: update_column, which leaves updated_at alone.
Written_Untouched(t) == IF t.kind = "destroy" THEN None
                        ELSE IF t.kind = "update" THEN [t.row EXCEPT !.stamp = t.base.stamp]
                        ELSE t.row

Written(t) == IF t.kind = "destroy" THEN None ELSE t.row

\* COMMIT; a row that changed since it was loaded is a stale record, and nothing is written.
Commit(w) ==
  LET t == tx[w]
  IN  /\ t # None
      /\ rows' = IF rows[t.id] = t.base THEN [rows EXCEPT ![t.id] = Written(t)] ELSE rows
      /\ tx' = [tx EXCEPT ![w] = None]
      /\ seen' = seen \cup {<<KeyOf(rows', date), Snapshot(rows')>>}
      /\ UNCHANGED <<used, clock, date, read, cache>>

-------------------------------------------------------------------------------
\* cached_stats: the key, in a query of its own.
ReadKey(r) ==
  /\ read[r] = None
  /\ read' = [read EXCEPT ![r] = [at |-> "keyed", key |-> KeyOf(rows, date), counts |-> {}]]
  /\ UNCHANGED <<rows, used, clock, date, tx, cache, seen>>

InStep(r, step) == read[r] # None /\ read[r].at = step

Hits(r) == { e \in cache : e.key = read[r].key }

\* Rails.cache.fetch: a hit is served as it is.
Hit(r) ==
  /\ InStep(r, "keyed") /\ Hits(r) # {}
  /\ read' = [read EXCEPT ![r] = None]
  /\ UNCHANGED <<rows, used, clock, date, tx, cache, seen>>

\* A miss: compute_stats, first part ...
ComputeCounts(r) ==
  /\ InStep(r, "keyed") /\ Hits(r) = {}
  /\ read' = [read EXCEPT ![r].at = "counted", ![r].counts = Snapshot(rows)]
  /\ UNCHANGED <<rows, used, clock, date, tx, cache, seen>>

\* Mutant: the key is worked out again for the store.
ComputeRates_NewKey(r) ==
  /\ InStep(r, "counted")
  /\ cache' = (cache \ Hits(r)) \cup
       {[key |-> KeyOf(rows, date), payload |-> Payload(read[r].counts, Snapshot(rows), date)]}
  /\ read' = [read EXCEPT ![r] = None]
  /\ UNCHANGED <<rows, used, clock, date, tx, seen>>

\* ... and second part; the store then replaces whatever the key holds.
ComputeRates(r) ==
  /\ InStep(r, "counted")
  /\ cache' = (cache \ Hits(r)) \cup
       {[key |-> read[r].key, payload |-> Payload(read[r].counts, Snapshot(rows), date)]}
  /\ read' = [read EXCEPT ![r] = None]
  /\ UNCHANGED <<rows, used, clock, date, tx, seen>>

\* expires_in: 12.hours, or an eviction.
Expire(e) ==
  /\ e \in cache
  /\ cache' = cache \ {e}
  /\ UNCHANGED <<rows, used, clock, date, tx, read, seen>>

Midnight ==
  /\ date < MaxDate
  /\ date' = date + 1
  /\ seen' = seen \cup {<<KeyOf(rows, date'), Snapshot(rows)>>}
  /\ UNCHANGED <<rows, used, clock, tx, read, cache>>

Next == \/ \E w \in Writers : \/ Commit(w)
                              \/ \E k \in Kinds, i \in Ids, v \in Vals : Write(w, k, i, v)
        \/ \E r \in Readers : ReadKey(r) \/ Hit(r) \/ ComputeCounts(r) \/ ComputeRates(r)
        \/ \E e \in cache : Expire(e)
        \/ Midnight

Spec == Init /\ [][Next]_vars

\* What the key relies on: stamped rows reach the table in the order of their stamps.
\* Nothing in the code enforces it; with one write under way at a time it holds.
Stamping(w) == tx[w] # None /\ tx[w].kind # "destroy"
InOrder == \A v, w \in Writers :
             Commit(w) /\ Stamping(w) /\ Stamping(v) => tx[w].row.stamp <= tx[v].row.stamp

OrderedSpec == Init /\ [][Next /\ InOrder]_vars
-------------------------------------------------------------------------------
\* The rows, the requests in flight and the store are well formed, and the store holds
\* one entry per key.
TypeOK ==
  /\ rows \in [Ids -> Row \cup {None}]
  /\ used \subseteq Ids
  /\ clock \in 0..MaxClock /\ date \in 0..MaxDate
  /\ \A w \in Writers : tx[w] # None => /\ tx[w].id \in used
                                        /\ tx[w].row \in Row
                                        /\ tx[w].base \in Row \cup {None}
  /\ \A e, f \in cache : e.key = f.key => e = f

\* Two committed states of the user's rows with the same key have the same rows, however
\* many writes lie between them and rows are deleted on the way: count and latest updated_at
\* name the rows (what the key's comment relies on).
KeyNamesRows == \A x, y \in seen : x[1] = y[1] => x[2] = y[2]

\* DashboardController: "the key changes exactly when the stats could change".  Stated: a
\* commit that changes what the stats read, or a midnight, changes the key.
KeyChangesWithStats == [][Stats' # Stats => KeyOf(rows, date)' # KeyOf(rows, date)]_vars

\* No row has been deleted: each id handed out has its row, or a create still to commit.
Intact == \A i \in used :
            rows[i] # None \/ \E w \in Writers : tx[w] # None /\ tx[w].kind = "create" /\ tx[w].id = i

\* What a hit would serve now is what the stats are now ("a self-expiring key, no manual
\* invalidation"), over interleaved requests, midnights and writes, as long as no row has
\* been deleted: after a delete an older key may come back, with rows read under it later.
CacheIsTrue ==
  Intact => \A e \in cache : e.key = KeyOf(rows, date) => e.payload = Stats
===============================================================================
