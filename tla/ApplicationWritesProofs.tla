----------------------- MODULE ApplicationWritesProofs -----------------------
(***************************************************************************)
(* TLAPS proofs about ApplicationWrites, for any set of tabs, ids, details *)
(* and reminder keys and any exploration bound.                            *)
(***************************************************************************)
EXTENDS ApplicationWrites, SequenceTheorems, TLAPS

(***************************************************************************)
(* The stage machine.                                                      *)
(***************************************************************************)

\* Every stage named by the table, as a list.
LEMMA ValidStatesList ==
  VALID_STATES = {"wishlist", "draft", "applied", "phone_screen", "technical",
                  "final_round", "offer", "accepted", "declined", "archived",
                  "rejected", "ghosted", "withdrawn"}
<1> DEFINE Stages == {"wishlist", "draft", "applied", "phone_screen", "technical",
                      "final_round", "offer", "accepted", "declined", "archived",
                      "rejected", "ghosted", "withdrawn"}
<1>1. VALID_STATES \subseteq Stages
  <2>1. \A e \in TRANSITIONS : e.from \in Stages /\ e.to \in Stages
    BY DEF TRANSITIONS, InterviewStages, Edge
  <2> QED BY <2>1 DEF VALID_STATES, TERMINAL_STATES
<1>2. Stages \subseteq VALID_STATES
  <2>1. \A from, to : Edge(from, to) \in TRANSITIONS => {from, to} \subseteq VALID_STATES
    BY DEF VALID_STATES, Edge
  <2>2. /\ Edge("wishlist", "draft") \in TRANSITIONS
        /\ Edge("applied", "phone_screen") \in TRANSITIONS
        /\ Edge("technical", "final_round") \in TRANSITIONS
        /\ Edge("offer", "accepted") \in TRANSITIONS
        /\ Edge("offer", "declined") \in TRANSITIONS
    BY DEF TRANSITIONS
  <2>3. \A e \in {"rejected", "ghosted", "withdrawn"} : Edge(e, "applied") \in TRANSITIONS
    BY DEF TRANSITIONS
  <2> QED BY <2>1, <2>2, <2>3 DEF VALID_STATES, TERMINAL_STATES
<1> QED BY <1>1, <1>2

\* Creation only enters stages of the machine.
LEMMA EntryStatesValid == ENTRY_STATES \subseteq VALID_STATES
  BY ValidStatesList DEF ENTRY_STATES

\* The moves the client offers from a stage are exactly the moves the API accepts.
THEOREM OffersMatchGuard ==
  \A from \in VALID_STATES :
    valid_next_states(from) = { to \in VALID_STATES : assert_transition(from, to) }
<1> SUFFICES ASSUME NEW from \in VALID_STATES, NEW to
             PROVE  to \in valid_next_states(from)
                      <=> to \in VALID_STATES /\ assert_transition(from, to)
  BY DEF valid_next_states
<1> DEFINE nexts == { e.to : e \in { x \in TRANSITIONS : x.from = from } }
<1>1. \A x : x \in nexts <=> Edge(from, x) \in TRANSITIONS
  <2>1. \A e \in TRANSITIONS : e = Edge(e.from, e.to)
    BY DEF TRANSITIONS, InterviewStages, Edge
  <2> QED BY <2>1 DEF Edge
<1>2. to \in nexts => to \in VALID_STATES
  BY DEF VALID_STATES
<1>3. "archived" \in VALID_STATES
  BY DEF VALID_STATES, TERMINAL_STATES
<1>4. from \in TERMINAL_STATES => Edge(from, to) \notin TRANSITIONS
  BY DEF TERMINAL_STATES, TRANSITIONS, InterviewStages, Edge
<1>5. from \notin TERMINAL_STATES => nexts # {}
  <2> HIDE DEF nexts
  <2>1. \/ Edge(from, "draft") \in TRANSITIONS \/ Edge(from, "applied") \in TRANSITIONS
        \/ Edge(from, "rejected") \in TRANSITIONS \/ from \in TERMINAL_STATES
    BY ValidStatesList DEF TERMINAL_STATES, TRANSITIONS, InterviewStages
  <2> QED BY <1>1, <2>1
<1> QED
  BY <1>1, <1>2, <1>3, <1>4, <1>5 DEF valid_next_states, assert_transition

(***************************************************************************)
(* Type correctness.                                                       *)
(***************************************************************************)

\* The empty tables are well formed.
LEMMA TypeInit == Init => TypeOK
  BY DEF Init, TypeOK

\* The row a transition's UPDATE writes is a row.
LEMMA MovedRow ==
  ASSUME NEW r \in Row, NEW to \in VALID_STATES
  PROVE  Moved(r, to) \in Row
<1>1. (r.applied \/ to = "applied") \in BOOLEAN /\ r.version + 1 \in Nat /\ r.details \in Details
  BY DEF Row
<1> QED BY <1>1 DEF Row, Moved

\* The row a details UPDATE writes is a row.
LEMMA EditedRow ==
  ASSUME NEW r \in Row, NEW d \in Details, NEW v \in Nat
  PROVE  Edited(r, d, v) \in Row
  BY DEF Row, Edited

\* A step that replaces one request by a well-formed one, or by none, keeps them all
\* well formed.
LEMMA RequestStep ==
  ASSUME TypeOK, NEW t \in Tabs, NEW q, RequestShape(q) \/ q = None,
         req' = [req EXCEPT ![t] = q]
  PROVE  /\ req' \in [Tabs -> Request \cup {None}]
         /\ \A u \in Tabs : req'[u] # None => RequestShape(req'[u])
  BY DEF TypeOK, RequestShape

\* Every operation leaves the tables, the copies and the requests well formed.
LEMMA TypeNext == TypeOK /\ [Next]_vars => TypeOK'
<1> SUFFICES ASSUME TypeOK, [Next]_vars PROVE TypeOK'
  OBVIOUS
<1>0. \A t \in Tabs : req[t] # None => RequestShape(req[t])
  BY DEF TypeOK
<1>1. ASSUME NEW t \in Tabs, NEW a \in Apps, Fetch(t, a) PROVE TypeOK'
  BY <1>1 DEF Fetch, Tables, View, TypeOK, RequestShape
<1>2. ASSUME NEW t \in Tabs, NEW a \in Apps, NEW s \in ENTRY_STATES, NEW d \in Details,
             Create(t, a, s, d)
      PROVE TypeOK'
  <2> DEFINE new == [status |-> s, applied |-> s = "applied", version |-> 0, details |-> d]
  <2>1. new \in Row
    BY EntryStatesValid DEF Row
  <2>2. row' = [row EXCEPT ![a] = new] /\ view' = [view EXCEPT ![t] = [app |-> a, row |-> new]]
    BY <1>2 DEF Create
  <2> HIDE DEF new
  <2>3. row' \in [Apps -> Row \cup {None}]
    BY <2>1, <2>2 DEF TypeOK
  <2>4. view' \in [Tabs -> View \cup {None}]
    BY <2>1, <2>2 DEF TypeOK, View
  <2>5. used' \subseteq Apps /\ UNCHANGED <<moves, claims, req>>
    BY <1>2 DEF Create, TypeOK
  <2> QED
    BY <2>3, <2>4, <2>5 DEF TypeOK, RequestShape
<1>3. ASSUME NEW t \in Tabs, NEW kind \in Kinds, NEW to \in VALID_STATES, NEW d \in Details,
             NEW checks \in BOOLEAN, Send(t, kind, to, d, checks)
      PROVE TypeOK'
  <2> DEFINE q == [app |-> view[t].app, kind |-> kind, to |-> to, details |-> d,
                   seen |-> view[t].row, checks |-> checks, at |-> "received",
                   loaded |-> None, dependents |-> {}, pending |-> None]
  <2>1. RequestShape(q)
    BY <1>3 DEF Send, RequestShape, Request, TypeOK, View, Steps
  <2>2. req' = [req EXCEPT ![t] = q]
    BY <1>3 DEF Send
  <2> HIDE DEF q
  <2> QED
    BY <1>3, <2>1, <2>2, RequestStep DEF Send, Tables, TypeOK
<1>4. ASSUME NEW t \in Tabs, Load(t) PROVE TypeOK'
  <2> DEFINE q == [req[t] EXCEPT !.loaded = row[req[t].app], !.at = "loaded"]
  <2>1. CASE row[req[t].app] = None
    BY <1>4, <2>1, RequestStep DEF Load, Answer, Tables, TypeOK
  <2>2. CASE row[req[t].app] # None
    <3>1. /\ req[t] \in Request /\ req[t].app \in Apps
          /\ row[req[t].app] \in Row /\ row[req[t].app] # None
      BY <1>4, <2>2 DEF Load, Request, TypeOK
    <3>2. q \in Request /\ q.loaded # None /\ q.at = "loaded"
      BY <3>1 DEF Request, Steps
    <3>3. RequestShape(q)
      BY <3>2 DEF RequestShape
    <3>4. req' = [req EXCEPT ![t] = q]
      BY <1>4, <2>2 DEF Load
    <3> HIDE DEF q
    <3> QED
      BY <1>4, <2>2, <3>3, <3>4, RequestStep DEF Load, Tables, TypeOK
  <2> QED BY <2>1, <2>2
<1>5. ASSUME NEW t \in Tabs, Refuse(t) \/ TransitionRollback(t) PROVE TypeOK'
  BY <1>5, RequestStep DEF Refuse, TransitionRollback, Answer, Tables, TypeOK
<1>6. ASSUME NEW t \in Tabs, TransitionUpdate(t) PROVE TypeOK'
  <2> DEFINE a == req[t].app
             new == Moved(row[a], req[t].to)
             q == [req[t] EXCEPT !.at = "updated", !.pending = new]
  <2>0. At(t, "transition", "loaded") /\ RequestShape(req[t])
    BY <1>6, <1>0 DEF TransitionUpdate, At
  <2>1. CASE Matches(req[t])
    <3>1. row[a] \in Row
      BY <2>0, <2>1 DEF Matches, TypeOK, RequestShape, Request
    <3>2. new \in Row
      <4>1. req[t].to \in VALID_STATES
        BY <2>0 DEF RequestShape, Request
      <4> QED BY <3>1, <4>1, MovedRow
    <3>3. new # None
      BY <3>2, WritesAssumption
    <3>4. req' = [req EXCEPT ![t] = q]
      BY <1>6, <2>1 DEF TransitionUpdate
    <3> HIDE DEF new
    <3>5. RequestShape(q)
      BY <2>0, <3>2, <3>3 DEF At, RequestShape, Request, Steps
    <3> HIDE DEF q
    <3> QED
      BY <1>6, <3>4, <3>5, RequestStep DEF TransitionUpdate, Tables, TypeOK
  <2>2. CASE ~Matches(req[t])
    BY <1>6, <2>2, RequestStep DEF TransitionUpdate, Answer, Tables, TypeOK
  <2> QED BY <2>1, <2>2
<1>7. ASSUME NEW t \in Tabs, TransitionCommit(t) PROVE TypeOK'
  <2> DEFINE a == req[t].app
             e == Edge(req[t].loaded.status, req[t].to)
             q == [req[t] EXCEPT !.at = "committed", !.pending = None]
  <2>0. At(t, "transition", "updated") /\ RequestShape(req[t])
    BY <1>7, <1>0 DEF TransitionCommit, At
  <2>1. RequestShape(q)
    BY <2>0 DEF At, RequestShape, Request, Steps
  <2>2. e \in [from: VALID_STATES, to: VALID_STATES]
    BY <2>0 DEF At, RequestShape, Request, Row, Edge
  <2>3. /\ req'   = [req EXCEPT ![t] = q]
        /\ moves' = [moves EXCEPT ![a] = Append(@, e)]
        /\ row'   = [row EXCEPT ![a] = req[t].pending]
        /\ UNCHANGED <<used, claims, view>>
    BY <1>7 DEF TransitionCommit
  <2> HIDE DEF q, e
  <2>4. moves' \in [Apps -> Seq([from: VALID_STATES, to: VALID_STATES])]
    <3>1. a \in Apps /\ moves[a] \in Seq([from: VALID_STATES, to: VALID_STATES])
      BY <2>0 DEF RequestShape, Request, TypeOK
    <3>2. Append(moves[a], e) \in Seq([from: VALID_STATES, to: VALID_STATES])
      BY <2>2, <3>1, AppendProperties
    <3> QED BY <2>3, <3>1, <3>2 DEF TypeOK
  <2>5. row' \in [Apps -> Row \cup {None}]
    BY <2>0, <2>3 DEF RequestShape, Request, TypeOK
  <2> QED
    BY <2>1, <2>3, <2>4, <2>5, RequestStep DEF TypeOK
<1>8. ASSUME NEW t \in Tabs, Reload(t) PROVE TypeOK'
  <2>0. At(t, "transition", "committed") /\ RequestShape(req[t])
    BY <1>8, <1>0 DEF Reload, At
  <2>1. req' = [req EXCEPT ![t] = None]
    BY <1>8 DEF Reload, Answer
  <2>2. view' \in [Tabs -> View \cup {None}]
    <3>1. req[t].app \in Apps
      BY <2>0 DEF RequestShape, Request
    <3>2. row[req[t].app] \in Row => [app |-> req[t].app, row |-> row[req[t].app]] \in View
      BY <3>1 DEF View
    <3> QED BY <1>8, <3>1, <3>2 DEF Reload, TypeOK
  <2> QED
    BY <1>8, <2>1, <2>2, RequestStep DEF Reload, Tables, TypeOK
<1>9. ASSUME NEW t \in Tabs, UpdateUnchanged(t) PROVE TypeOK'
  <2>0. At(t, "update", "loaded") /\ RequestShape(req[t])
    BY <1>9, <1>0 DEF UpdateUnchanged, At
  <2>1. req' = [req EXCEPT ![t] = None]
    BY <1>9 DEF UpdateUnchanged, Answer
  <2>2. view' \in [Tabs -> View \cup {None}]
    BY <1>9, <2>0 DEF UpdateUnchanged, At, RequestShape, Request, View, TypeOK
  <2> QED
    BY <1>9, <2>1, <2>2, RequestStep DEF UpdateUnchanged, Tables, TypeOK
<1>10. ASSUME NEW t \in Tabs, UpdateDetails(t) PROVE TypeOK'
  <2> DEFINE a == req[t].app
             new == Edited(row[a], req[t].details, row[a].version)
             body == Edited(req[t].loaded, req[t].details, Expected(req[t]))
  <2>0. At(t, "update", "loaded") /\ RequestShape(req[t])
    BY <1>10, <1>0 DEF UpdateDetails, At
  <2>1. req' = [req EXCEPT ![t] = None] /\ UNCHANGED <<used, moves, claims>>
    BY <1>10 DEF UpdateDetails, Answer
  <2>2. CASE Matches(req[t])
    <3>1. row[a] \in Row /\ a \in Apps
      BY <2>0, <2>2 DEF Matches, TypeOK, RequestShape, Request
    <3>2. new \in Row
      <4>1. req[t].details \in Details /\ row[a].version \in Nat
        BY <2>0, <3>1 DEF RequestShape, Request, Row
      <4> QED BY <3>1, <4>1, EditedRow
    <3>3. body \in Row
      <4>1. req[t].details \in Details /\ req[t].loaded \in Row /\ req[t].seen \in Row
        BY <2>0 DEF At, RequestShape, Request
      <4>2. Expected(req[t]) \in Nat
        BY <4>1 DEF Expected, Row
      <4> QED BY <4>1, <4>2, EditedRow
    <3>4. /\ row'  = [row EXCEPT ![a] = new]
          /\ view' = [view EXCEPT ![t] = [app |-> a, row |-> body]]
      BY <1>10, <2>2 DEF UpdateDetails
    <3> HIDE DEF new, body
    <3>5. row' \in [Apps -> Row \cup {None}] /\ view' \in [Tabs -> View \cup {None}]
      BY <3>1, <3>2, <3>3, <3>4 DEF TypeOK, View
    <3> QED
      BY <2>1, <3>5, RequestStep DEF TypeOK
  <2>3. CASE ~Matches(req[t])
    BY <1>10, <2>1, <2>3, RequestStep DEF UpdateDetails, TypeOK
  <2> QED BY <2>2, <2>3
<1>11. ASSUME NEW t \in Tabs, DestroyDependents(t) PROVE TypeOK'
  <2> DEFINE q == [req[t] EXCEPT !.at = "dependents", !.dependents = claims[req[t].app]]
  <2>0. At(t, "destroy", "loaded") /\ RequestShape(req[t])
    BY <1>11, <1>0 DEF DestroyDependents, At
  <2>1. RequestShape(q)
    BY <2>0 DEF At, RequestShape, Request, Steps, TypeOK
  <2>2. req' = [req EXCEPT ![t] = q]
    BY <1>11 DEF DestroyDependents
  <2> HIDE DEF q
  <2> QED
    BY <1>11, <2>1, <2>2, RequestStep DEF DestroyDependents, Tables, TypeOK
<1>12. ASSUME NEW t \in Tabs, DestroyRow(t) PROVE TypeOK'
  <2>0. At(t, "destroy", "dependents") /\ RequestShape(req[t])
    BY <1>12, <1>0 DEF DestroyRow, At
  <2>1. req' = [req EXCEPT ![t] = None]
    BY <1>12 DEF DestroyRow, Answer
  <2>2. /\ row'    \in [Apps -> Row \cup {None}]
        /\ claims' \in [Apps -> SUBSET ReminderKeys]
        /\ view'   \in [Tabs -> View \cup {None}]
        /\ used'   = used
    BY <1>12 DEF DestroyRow, Tables, TypeOK
  <2>3. moves' \in [Apps -> Seq([from: VALID_STATES, to: VALID_STATES])]
    <3>1. <<>> \in Seq([from: VALID_STATES, to: VALID_STATES])
      OBVIOUS
    <3>2. moves' = moves \/ moves' = [moves EXCEPT ![req[t].app] = <<>>]
      BY <1>12 DEF DestroyRow, Tables
    <3> QED BY <3>1, <3>2 DEF TypeOK
  <2> QED
    BY <2>1, <2>2, <2>3, RequestStep DEF TypeOK
<1>13. ASSUME NEW a \in Apps, NEW k \in ReminderKeys, ClaimReminder(a, k) PROVE TypeOK'
  BY <1>13 DEF ClaimReminder, TypeOK, RequestShape
<1>14. CASE Restart
  BY <1>14 DEF Restart, Tables, TypeOK
<1>15. CASE UNCHANGED vars
  BY <1>15 DEF vars, TypeOK, RequestShape
<1> QED
  BY <1>1, <1>2, <1>3, <1>4, <1>5, <1>6, <1>7, <1>8, <1>9, <1>10, <1>11, <1>12, <1>13,
     <1>14, <1>15
  DEF Next, User, Serve

\* Tables, copies and requests stay well formed in every behaviour.
THEOREM TypeCorrect == Spec => []TypeOK
  BY TypeInit, TypeNext, PTL DEF Spec

\* So the buttons of every rendered row are the moves the API accepts from it.
THEOREM OffersCorrect == Spec => []OffersAreTheLegalMoves
<1>1. TypeOK => OffersAreTheLegalMoves
  BY OffersMatchGuard DEF TypeOK, View, Row, OffersAreTheLegalMoves
<1> QED BY <1>1, TypeCorrect, PTL

(***************************************************************************)
(* The inductive invariant.  Rows only ever move to a higher lock_version, *)
(* so a copy stays honest; an honest copy that passes the version check is *)
(* the row; so the row a transaction locks is the row it loaded.           *)
(***************************************************************************)

\* A committed row is kept, deleted, created under a fresh id or given a higher version.
RowsAdvance ==
  /\ used \subseteq used'
  /\ \A b \in Apps : \/ row'[b] = row[b]
                     \/ row'[b] = None
                     \/ b \in used' \ used
                     \/ row[b] \in Row /\ row'[b] \in Row /\ row'[b].version > row[b].version

\* A copy that passes the version check of its request is the committed row.
LEMMA MatchIsCurrent ==
  ASSUME IInv, NEW t \in Tabs, req[t] # None, req[t].at # "received", Matches(req[t])
  PROVE  /\ row[req[t].app] \in Row
         /\ row[req[t].app] = req[t].loaded
         /\ req[t].checks => row[req[t].app] = req[t].seen
<1> DEFINE r == req[t]
           a == r.app
<1>1. r \in Request /\ r.loaded \in Row
  BY DEF IInv, TypeOK, RequestShape, Request
<1>2. a \in Apps /\ r.seen \in Row /\ row[a] \in Row
  BY <1>1 DEF IInv, TypeOK, Matches, Request
<1>3. IsCopy(a, r.seen) /\ IsCopy(a, r.loaded) /\ r.seen.version <= r.loaded.version
  BY <1>1, WritesAssumption DEF IInv, CopiesAreHonest, HonestRequest
<1>4. row[a].version = Expected(r)
  BY DEF Matches
<1>5. r.seen.version \in Nat /\ r.loaded.version \in Nat /\ row[a].version \in Nat
  BY <1>1, <1>2 DEF Row
<1>6. row[a] # None
  BY <1>2, WritesAssumption
<1> QED
  BY <1>2, <1>3, <1>4, <1>5, <1>6 DEF IsCopy, Expected

\* Every step moves rows that way: a commit writes what it holds the lock for, an update
\* what it has just matched.
LEMMA RowsAdvanceStep == IInv /\ Next => RowsAdvance
<1> SUFFICES ASSUME IInv, Next PROVE RowsAdvance
  OBVIOUS
<1>1. CASE UNCHANGED row /\ used \subseteq used'
  BY <1>1 DEF RowsAdvance
<1>2. ASSUME NEW t \in Tabs, NEW a \in Apps, NEW s \in ENTRY_STATES, NEW d \in Details,
             Create(t, a, s, d)
      PROVE RowsAdvance
  BY <1>2 DEF Create, RowsAdvance, IInv, TypeOK
<1>3. ASSUME NEW t \in Tabs, TransitionCommit(t) PROVE RowsAdvance
  <2> DEFINE a == req[t].app
  <2>1. /\ row[a] = req[t].loaded /\ req[t].pending = Moved(row[a], req[t].to)
        /\ row[a] \in Row /\ req[t].to \in VALID_STATES /\ a \in Apps
    BY <1>3 DEF TransitionCommit, At, Holds, IInv, TransactionsAreIsolated, TypeOK,
                RequestShape, Request
  <2>2. Moved(row[a], req[t].to) \in Row /\ row[a].version \in Nat
    BY <2>1, MovedRow DEF Row
  <2>3. Moved(row[a], req[t].to).version > row[a].version
    BY <2>2 DEF Moved
  <2>4. row' = [row EXCEPT ![a] = Moved(row[a], req[t].to)] /\ used' = used
    BY <1>3, <2>1 DEF TransitionCommit
  <2> QED
    BY <2>1, <2>2, <2>3, <2>4 DEF RowsAdvance, IInv, TypeOK
<1>4. ASSUME NEW t \in Tabs, UpdateDetails(t), Matches(req[t]) PROVE RowsAdvance
  <2> DEFINE a == req[t].app
             new == Edited(row[a], req[t].details, row[a].version)
  <2>1. a \in Apps /\ req[t].details \in Details /\ row[a] \in Row
    BY <1>4 DEF UpdateDetails, At, Matches, IInv, TypeOK, RequestShape, Request
  <2>2. new \in Row /\ row[a].version \in Nat
    BY <2>1, EditedRow DEF Row
  <2>3. new.version > row[a].version
    BY <2>2 DEF Edited
  <2>4. row' = [row EXCEPT ![a] = new] /\ used' = used
    BY <1>4 DEF UpdateDetails
  <2> QED
    BY <2>1, <2>2, <2>3, <2>4 DEF RowsAdvance, IInv, TypeOK
<1>5. ASSUME NEW t \in Tabs, DestroyRow(t) PROVE RowsAdvance
  BY <1>5 DEF DestroyRow, Tables, RowsAdvance, IInv, TypeOK
<1>6. ASSUME NEW t \in Tabs, NEW a \in Apps, Fetch(t, a) PROVE RowsAdvance
  BY <1>1, <1>6 DEF Fetch, Tables
<1>7. ASSUME NEW t \in Tabs, NEW kind \in Kinds, NEW to \in VALID_STATES, NEW d \in Details,
             NEW checks \in BOOLEAN, Send(t, kind, to, d, checks)
      PROVE RowsAdvance
  BY <1>1, <1>7 DEF Send, Tables
<1>8. ASSUME NEW t \in Tabs,
             Load(t) \/ Refuse(t) \/ TransitionUpdate(t) \/ TransitionRollback(t)
      PROVE RowsAdvance
  BY <1>1, <1>8 DEF Load, Refuse, TransitionUpdate, TransitionRollback, Tables
<1>9. ASSUME NEW t \in Tabs, Reload(t) \/ UpdateUnchanged(t) \/ DestroyDependents(t)
      PROVE RowsAdvance
  BY <1>1, <1>9 DEF Reload, UpdateUnchanged, DestroyDependents, Tables
<1>10. ASSUME NEW t \in Tabs, UpdateDetails(t), ~Matches(req[t]) PROVE RowsAdvance
  BY <1>1, <1>10 DEF UpdateDetails
<1>11. ASSUME NEW a \in Apps, NEW k \in ReminderKeys, ClaimReminder(a, k) PROVE RowsAdvance
  BY <1>1, <1>11 DEF ClaimReminder
<1>12. CASE Restart
  BY <1>1, <1>12 DEF Restart, Tables
<1> QED
  BY <1>2, <1>3, <1>4, <1>5, <1>6, <1>7, <1>8, <1>9, <1>10, <1>11, <1>12
  DEF Next, User, Serve

\* When rows advance, an honest copy stays honest.
LEMMA CopyStays ==
  ASSUME RowsAdvance, NEW a \in Apps, NEW r \in Row, IsCopy(a, r)
  PROVE  IsCopy(a, r)'
<1>1. r.version \in Nat
  BY DEF Row
<1>2. ASSUME row[a] \in Row, row'[a] \in Row, row'[a].version > row[a].version,
             row[a] # None
      PROVE  r.version <= row'[a].version /\ r.version # row'[a].version
  BY <1>1, <1>2 DEF IsCopy, Row
<1> QED
  BY <1>1, <1>2, WritesAssumption DEF IsCopy, RowsAdvance

\* When rows advance, the copies and requests a step does not touch stay honest.
LEMMA HonestStays ==
  ASSUME IInv, RowsAdvance, NEW t \in Tabs
  PROVE  /\ view'[t] = view[t] => HonestView(view[t])'
         /\ req'[t] = req[t]   => HonestRequest(req[t])'
<1>1. ASSUME view'[t] = view[t], view'[t] # None PROVE HonestView(view[t])'
  <2>1. view[t].app \in Apps /\ view[t].row \in Row /\ IsCopy(view[t].app, view[t].row)
    BY <1>1 DEF IInv, TypeOK, View, CopiesAreHonest, HonestView
  <2>2. IsCopy(view[t].app, view[t].row)'
    BY <1>1, <2>1, CopyStays DEF IsCopy
  <2> QED BY <2>2 DEF HonestView
<1>2. ASSUME req'[t] = req[t], req'[t] # None PROVE HonestRequest(req[t])'
  <2> DEFINE r == req[t]
  <2>1. r \in Request /\ HonestRequest(r)
    BY <1>2 DEF IInv, TypeOK, CopiesAreHonest
  <2>2. IsCopy(r.app, r.seen)'
    <3>1. r.app \in Apps /\ r.seen \in Row /\ IsCopy(r.app, r.seen)
      BY <1>2, <2>1 DEF Request, HonestRequest
    <3> QED BY <1>2, <3>1, CopyStays DEF IsCopy
  <2>3. ASSUME r.loaded # None
        PROVE  IsCopy(r.app, r.loaded)' /\ r.seen.version <= r.loaded.version
    <3>1. /\ r.app \in Apps /\ r.loaded \in Row /\ IsCopy(r.app, r.loaded)
          /\ r.seen.version <= r.loaded.version
      BY <1>2, <2>1, <2>3 DEF Request, HonestRequest
    <3> QED BY <1>2, <3>1, CopyStays DEF IsCopy
  <2> QED BY <1>2, <2>2, <2>3 DEF HonestRequest
<1> QED
  BY <1>1, <1>2 DEF HonestView, HonestRequest

\* A step that touches at most the copy and the request of one tab need only keep those
\* two honest.
LEMMA HonestStep ==
  ASSUME IInv, RowsAdvance, NEW t \in Tabs,
         \A u \in Tabs \ {t} : view'[u] = view[u] /\ req'[u] = req[u],
         view'[t] = view[t] \/ HonestView(view[t])',
         req'[t] = req[t] \/ HonestRequest(req[t])'
  PROVE  CopiesAreHonest'
  BY HonestStays DEF CopiesAreHonest

\* The committed row is an honest copy of itself.
LEMMA RowIsCopy ==
  ASSUME IInv, NEW a \in Apps, row[a] # None
  PROVE  IsCopy(a, row[a])
  BY DEF IInv, RowsAreUsed, IsCopy, TypeOK, Row

\* Every step keeps the copies of tabs and requests honest.
LEMMA CopiesNext == IInv /\ [Next]_vars => CopiesAreHonest'
<1> SUFFICES ASSUME IInv, [Next]_vars PROVE CopiesAreHonest'
  OBVIOUS
<1>0. TypeOK /\ TypeOK'
  BY TypeNext DEF IInv
<1>1. CASE UNCHANGED vars
  BY <1>1 DEF vars, IInv, CopiesAreHonest, HonestView, HonestRequest, IsCopy
<1>2. CASE Next
  <2>0. RowsAdvance
    BY <1>2, RowsAdvanceStep
  <2>1. ASSUME NEW t \in Tabs, NEW a \in Apps, Fetch(t, a) PROVE CopiesAreHonest'
    <3>1. HonestView(view[t])'
      BY <1>0, <2>1, RowIsCopy DEF Fetch, Tables, HonestView, IsCopy, TypeOK
    <3> QED
      BY <1>0, <2>0, <2>1, <3>1, HonestStep DEF Fetch, TypeOK
  <2>2. ASSUME NEW t \in Tabs, NEW a \in Apps, NEW s \in ENTRY_STATES, NEW d \in Details,
               Create(t, a, s, d)
        PROVE CopiesAreHonest'
    <3>1. view'[t].app = a /\ view'[t].row = row'[a] /\ a \in used'
      BY <1>0, <2>2 DEF Create, TypeOK
    <3>2. HonestView(view[t])'
      BY <1>0, <2>2, <3>1 DEF HonestView, IsCopy, TypeOK, Row
    <3> QED
      BY <1>0, <2>0, <2>2, <3>2, HonestStep DEF Create, TypeOK
  <2>3. ASSUME NEW t \in Tabs, NEW kind \in Kinds, NEW to \in VALID_STATES, NEW d \in Details,
               NEW checks \in BOOLEAN, Send(t, kind, to, d, checks)
        PROVE CopiesAreHonest'
    <3>1. /\ req'[t].app = view[t].app /\ req'[t].seen = view[t].row /\ req'[t].loaded = None
          /\ IsCopy(view[t].app, view[t].row)
      BY <1>0, <2>3 DEF Send, TypeOK, IInv, CopiesAreHonest, HonestView
    <3>2. HonestRequest(req[t])'
      BY <2>3, <3>1 DEF Send, Tables, HonestRequest, IsCopy
    <3> QED
      BY <1>0, <2>0, <2>3, <3>2, HonestStep DEF Send, TypeOK
  <2>4. ASSUME NEW t \in Tabs, Load(t) PROVE CopiesAreHonest'
    <3>1. HonestRequest(req[t])'
      <4>1. CASE row[req[t].app] = None
        BY <1>0, <2>4, <4>1 DEF Load, Answer, HonestRequest, TypeOK
      <4>2. CASE row[req[t].app] # None
        <5> DEFINE a == req[t].app
        <5>1. /\ a \in Apps /\ row[a] \in Row /\ req[t].seen \in Row /\ req[t] \in Request
              /\ IsCopy(a, req[t].seen)
          BY <1>0, <2>4, <4>2
          DEF Load, TypeOK, Request, IInv, CopiesAreHonest, HonestRequest
        <5>2. /\ req'[t].app = a /\ req'[t].seen = req[t].seen /\ req'[t].loaded = row[a]
              /\ row' = row /\ used' = used
          BY <1>0, <2>4, <4>2, <5>1 DEF Load, Tables, TypeOK, Request
        <5>3. IsCopy(a, row[a]) /\ req[t].seen.version <= row[a].version
          BY <4>2, <5>1, RowIsCopy DEF IsCopy
        <5> QED
          BY <5>1, <5>2, <5>3 DEF HonestRequest, IsCopy
      <4> QED BY <4>1, <4>2
    <3> QED
      BY <1>0, <2>0, <2>4, <3>1, HonestStep DEF Load, Answer, TypeOK
  <2>5. ASSUME NEW t \in Tabs, Refuse(t) \/ TransitionRollback(t) PROVE CopiesAreHonest'
    <3>1. HonestRequest(req[t])'
      BY <1>0, <2>5 DEF Refuse, TransitionRollback, Answer, HonestRequest, TypeOK
    <3> QED
      BY <1>0, <2>0, <2>5, <3>1, HonestStep DEF Refuse, TransitionRollback, Answer, TypeOK
  <2>6. ASSUME NEW t \in Tabs,
               TransitionUpdate(t) \/ TransitionCommit(t) \/ DestroyDependents(t)
        PROVE CopiesAreHonest'
    <3>1. /\ req[t] # None /\ view' = view
          /\ \A u \in Tabs \ {t} : req'[u] = req[u]
          /\ \/ req'[t] = None
             \/ /\ req'[t].app = req[t].app /\ req'[t].seen = req[t].seen
                /\ req'[t].loaded = req[t].loaded
      BY <1>0, <2>6
      DEF TransitionUpdate, TransitionCommit, DestroyDependents, At, Answer, TypeOK, Request
    <3>2. \/ req'[t] = None
          \/ HonestRequest(req[t])'
      <4> SUFFICES ASSUME req'[t] # None PROVE HonestRequest(req[t])'
        OBVIOUS
      <4>1. req[t] \in Request /\ HonestRequest(req[t])
        BY <1>0, <3>1 DEF TypeOK, IInv, CopiesAreHonest
      <4>2. IsCopy(req[t].app, req[t].seen) /\ req[t].app \in Apps /\ req[t].seen \in Row
        BY <3>1, <4>1 DEF Request, HonestRequest
      <4>3. ASSUME NEW a \in Apps, NEW r \in Row, IsCopy(a, r) PROVE IsCopy(a, r)'
        BY <2>0, <4>3, CopyStays
      <4>4. req[t].loaded # None =>
              /\ IsCopy(req[t].app, req[t].loaded) /\ req[t].loaded \in Row
              /\ req[t].seen.version <= req[t].loaded.version
        BY <3>1, <4>1 DEF Request, HonestRequest
      <4> QED
        BY <3>1, <4>2, <4>3, <4>4 DEF HonestRequest, IsCopy
    <3>3. req'[t] = req[t] \/ HonestRequest(req[t])'
      BY <3>2 DEF HonestRequest
    <3> QED
      BY <2>0, <3>1, <3>3, HonestStep
  <2>7. ASSUME NEW t \in Tabs, Reload(t) PROVE CopiesAreHonest'
    <3>1. req[t].app \in Apps /\ req[t] # None
      BY <1>0, <2>7 DEF Reload, At, TypeOK, Request
    <3>2. HonestView(view[t])'
      BY <1>0, <2>7, <3>1, RowIsCopy DEF Reload, Tables, HonestView, IsCopy, TypeOK
    <3>3. HonestRequest(req[t])'
      BY <1>0, <2>7 DEF Reload, Answer, HonestRequest, TypeOK
    <3> QED
      BY <1>0, <2>0, <2>7, <3>2, <3>3, HonestStep DEF Reload, Answer, TypeOK
  <2>8. ASSUME NEW t \in Tabs, UpdateUnchanged(t) PROVE CopiesAreHonest'
    <3>1. /\ req[t] # None /\ req[t] \in Request /\ req[t].loaded # None
          /\ IsCopy(req[t].app, req[t].loaded)
      BY <1>0, <2>8
      DEF UpdateUnchanged, At, TypeOK, RequestShape, IInv, CopiesAreHonest, HonestRequest
    <3>2. HonestView(view[t])'
      BY <1>0, <2>8, <3>1 DEF UpdateUnchanged, Tables, HonestView, IsCopy, TypeOK
    <3>3. HonestRequest(req[t])'
      BY <1>0, <2>8 DEF UpdateUnchanged, Answer, HonestRequest, TypeOK
    <3> QED
      BY <1>0, <2>0, <2>8, <3>2, <3>3, HonestStep DEF UpdateUnchanged, Answer, TypeOK
  <2>9. ASSUME NEW t \in Tabs, UpdateDetails(t) PROVE CopiesAreHonest'
    <3>1. HonestRequest(req[t])'
      BY <1>0, <2>9 DEF UpdateDetails, Answer, HonestRequest, TypeOK
    <3>2. view'[t] = view[t] \/ HonestView(view[t])'
      <4>1. CASE Matches(req[t])
        <5> DEFINE a == req[t].app
        <5>1. /\ row[a] = req[t].loaded /\ row[a] \in Row /\ Expected(req[t]) = row[a].version
              /\ a \in Apps /\ a \in used
          BY <1>0, <2>9, <4>1, MatchIsCurrent
          DEF UpdateDetails, At, Matches, TypeOK, Request, IInv, RowsAreUsed
        <5>2. /\ view'[t].app = a /\ view'[t].row = row'[a] /\ used' = used
          BY <1>0, <2>9, <4>1, <5>1 DEF UpdateDetails, TypeOK
        <5>3. row'[a] \in Row \cup {None}
          BY <1>0, <5>1 DEF TypeOK
        <5> QED
          BY <5>1, <5>2, <5>3 DEF HonestView, IsCopy, Row
      <4>2. CASE ~Matches(req[t])
        BY <2>9, <4>2 DEF UpdateDetails
      <4> QED BY <4>1, <4>2
    <3> QED
      BY <1>0, <2>0, <2>9, <3>1, <3>2, HonestStep DEF UpdateDetails, Answer, TypeOK
  <2>10. ASSUME NEW t \in Tabs, DestroyRow(t) PROVE CopiesAreHonest'
    <3>1. HonestRequest(req[t])' /\ \A u \in Tabs \ {t} : req'[u] = req[u]
      BY <1>0, <2>10 DEF DestroyRow, Answer, HonestRequest, TypeOK
    <3>2. /\ view'[t] = view[t] \/ HonestView(view[t])'
          /\ \A u \in Tabs \ {t} : view'[u] = view[u]
      BY <1>0, <2>10 DEF DestroyRow, HonestView, TypeOK
    <3> QED
      BY <2>0, <3>1, <3>2, HonestStep
  <2>11. ASSUME NEW a \in Apps, NEW k \in ReminderKeys, ClaimReminder(a, k)
         PROVE CopiesAreHonest'
    BY <2>0, <2>11, HonestStays DEF ClaimReminder, CopiesAreHonest
  <2>12. CASE Restart
    BY <1>0, <2>0, <2>12, HonestStays DEF Restart, CopiesAreHonest, HonestRequest, TypeOK
  <2> QED
    BY <1>2, <2>1, <2>2, <2>3, <2>4, <2>5, <2>6, <2>7, <2>8, <2>9, <2>10, <2>11, <2>12
    DEF Next, User, Serve
<1> QED BY <1>1, <1>2

\* A step of tab t that takes no row lock and leaves alone the rows the others hold
\* keeps every open transaction alone on its row.
LEMMA IsolationStep ==
  ASSUME IInv, NEW t \in Tabs,
         \A u \in Tabs \ {t} : /\ req'[u] = req[u]
                               /\ Holds(u) => row'[req[u].app] = row[req[u].app],
         req'[t] = None \/ req'[t].at # "updated"
  PROVE  TransactionsAreIsolated'
<1>1. ASSUME NEW u \in Tabs, Holds(u)' PROVE u # t /\ req'[u] = req[u] /\ Holds(u)
  <2>1. u # t
    BY <1>1 DEF Holds
  <2>2. req'[u] = req[u]
    BY <2>1
  <2> QED BY <1>1, <2>1, <2>2 DEF Holds
<1>2. ASSUME NEW u \in Tabs, Holds(u)'
      PROVE  /\ row'[req'[u].app] = req'[u].loaded
             /\ req'[u].checks => req'[u].seen = req'[u].loaded
             /\ req'[u].pending = Moved(req'[u].loaded, req'[u].to)
             /\ assert_transition(req'[u].loaded.status, req'[u].to)
             /\ \A w \in Tabs : Holds(w)' /\ req'[w].app = req'[u].app => w = u
  BY <1>1, <1>2 DEF IInv, TransactionsAreIsolated
<1> QED BY <1>2 DEF TransactionsAreIsolated

\* Every step keeps open transactions alone on their rows.
LEMMA IsolationNext == IInv /\ [Next]_vars => TransactionsAreIsolated'
<1> SUFFICES ASSUME IInv, [Next]_vars PROVE TransactionsAreIsolated'
  OBVIOUS
<1>0. TypeOK /\ TypeOK'
  BY TypeNext DEF IInv
<1>1. CASE UNCHANGED vars
  BY <1>1 DEF vars, IInv, TransactionsAreIsolated, Holds
<1>2. ASSUME NEW t \in Tabs, NEW a \in Apps, Fetch(t, a) PROVE TransactionsAreIsolated'
  BY <1>2 DEF Fetch, Tables, IInv, TransactionsAreIsolated, Holds
<1>3. ASSUME NEW t \in Tabs, NEW a \in Apps, NEW s \in ENTRY_STATES, NEW d \in Details,
             Create(t, a, s, d)
      PROVE TransactionsAreIsolated'
  <2>1. \A u \in Tabs : Holds(u) => req[u].app # a
    BY <1>0, <1>3
    DEF Create, Holds, IInv, TransactionsAreIsolated, RowsAreUsed, TypeOK, RequestShape
  <2>2. /\ req' = req
        /\ \A b \in Apps \ {a} : row'[b] = row[b]
        /\ \A u \in Tabs : Holds(u) => req[u].app \in Apps
    BY <1>0, <1>3 DEF Create, Holds, TypeOK, Request
  <2> QED
    BY <2>1, <2>2 DEF IInv, TransactionsAreIsolated, Holds
<1>4. ASSUME NEW t \in Tabs, NEW kind \in Kinds, NEW to \in VALID_STATES, NEW d \in Details,
             NEW checks \in BOOLEAN, Send(t, kind, to, d, checks)
      PROVE TransactionsAreIsolated'
  <2>1. req'[t].at = "received" /\ row' = row /\ \A u \in Tabs \ {t} : req'[u] = req[u]
    BY <1>0, <1>4 DEF Send, Tables, TypeOK
  <2> QED
    BY <2>1, IsolationStep
<1>5. ASSUME NEW t \in Tabs,
             \/ Load(t) \/ Refuse(t) \/ TransitionRollback(t) \/ Reload(t)
             \/ UpdateUnchanged(t) \/ DestroyDependents(t)
      PROVE TransactionsAreIsolated'
  <2>1. req'[t] = None \/ req'[t].at \in {"loaded", "dependents"}
    BY <1>0, <1>5
    DEF Load, Refuse, TransitionRollback, Reload, UpdateUnchanged, DestroyDependents, At,
        Answer, TypeOK, Request
  <2>2. row' = row /\ \A u \in Tabs \ {t} : req'[u] = req[u]
    BY <1>0, <1>5
    DEF Load, Refuse, TransitionRollback, Reload, UpdateUnchanged, DestroyDependents,
        Answer, Tables, TypeOK
  <2> QED
    BY <2>1, <2>2, IsolationStep
<1>6. ASSUME NEW t \in Tabs, TransitionUpdate(t) PROVE TransactionsAreIsolated'
  <2> DEFINE a == req[t].app
  <2>1. row' = row /\ \A u \in Tabs \ {t} : req'[u] = req[u]
    BY <1>0, <1>6 DEF TransitionUpdate, Tables, Answer, TypeOK
  <2>2. CASE Matches(req[t])
    <3>1. /\ req'[t].app = a /\ req'[t].loaded = req[t].loaded /\ req'[t].to = req[t].to
          /\ req'[t].seen = req[t].seen /\ req'[t].checks = req[t].checks
          /\ req'[t].pending = Moved(row[a], req[t].to)
          /\ assert_transition(req[t].loaded.status, req[t].to)
          /\ \A u \in Tabs : Holds(u) => req[u].app # a
      BY <1>0, <1>6, <2>2 DEF TransitionUpdate, At, Locked, Holds, TypeOK, Request
    <3>2. row[a] = req[t].loaded /\ (req[t].checks => req[t].seen = req[t].loaded)
      BY <1>6, <2>2, MatchIsCurrent DEF TransitionUpdate, At
    <3> QED
      BY <2>1, <3>1, <3>2 DEF IInv, TransactionsAreIsolated, Holds
  <2>3. CASE ~Matches(req[t])
    <3>1. req'[t] = None
      BY <1>0, <1>6, <2>3 DEF TransitionUpdate, Answer, TypeOK
    <3> QED
      BY <2>1, <3>1, IsolationStep
  <2> QED BY <2>2, <2>3
<1>7. ASSUME NEW t \in Tabs, TransitionCommit(t) PROVE TransactionsAreIsolated'
  <2>1. req'[t].at = "committed" /\ \A u \in Tabs \ {t} : req'[u] = req[u]
    BY <1>0, <1>7 DEF TransitionCommit, At, TypeOK, Request
  <2>2. \A u \in Tabs \ {t} : Holds(u) => req[u].app \in Apps /\ req[u].app # req[t].app
    BY <1>0, <1>7
    DEF TransitionCommit, At, Holds, IInv, TransactionsAreIsolated, TypeOK, Request
  <2>3. \A u \in Tabs \ {t} : Holds(u) => row'[req[u].app] = row[req[u].app]
    BY <1>0, <1>7, <2>2 DEF TransitionCommit, TypeOK
  <2> QED
    BY <2>1, <2>3, IsolationStep
<1>8. ASSUME NEW t \in Tabs, UpdateDetails(t) \/ DestroyRow(t) PROVE TransactionsAreIsolated'
  <2>1. req'[t] = None /\ \A u \in Tabs \ {t} : req'[u] = req[u]
    BY <1>0, <1>8 DEF UpdateDetails, DestroyRow, Answer, TypeOK
  <2>2. \A u \in Tabs \ {t} : Holds(u) => req[u].app \in Apps /\ req[u].app # req[t].app
    BY <1>0, <1>8 DEF UpdateDetails, DestroyRow, Locked, Holds, TypeOK, Request
  <2>3. \A b \in Apps \ {req[t].app} : row'[b] = row[b]
    BY <1>0, <1>8 DEF UpdateDetails, DestroyRow, Tables, TypeOK
  <2> QED
    BY <2>1, <2>2, <2>3, IsolationStep
<1>9. ASSUME NEW a \in Apps, NEW k \in ReminderKeys, ClaimReminder(a, k)
      PROVE TransactionsAreIsolated'
  BY <1>9 DEF ClaimReminder, IInv, TransactionsAreIsolated, Holds
<1>10. CASE Restart
  BY <1>0, <1>10 DEF Restart, TransactionsAreIsolated, Holds
<1> QED
  BY <1>1, <1>2, <1>3, <1>4, <1>5, <1>6, <1>7, <1>8, <1>9, <1>10 DEF Next, User, Serve

\* No step gives an id a row before handing it out.
LEMMA RowsAreUsedNext == IInv /\ [Next]_vars => RowsAreUsed'
<1>1. IInv /\ Next => RowsAreUsed'
  <2> SUFFICES ASSUME IInv, Next PROVE RowsAreUsed'
    OBVIOUS
  <2>1. RowsAdvance
    BY RowsAdvanceStep
  <2>2. ASSUME NEW a \in Apps, a \notin used' PROVE row'[a] = None
    <3>1. row[a] = None /\ a \notin used
      BY <2>1, <2>2, WritesAssumption DEF IInv, RowsAreUsed, RowsAdvance
    <3> QED
      BY <2>1, <2>2, <3>1, WritesAssumption DEF RowsAdvance
  <2> QED BY <2>2 DEF RowsAreUsed
<1>2. IInv /\ UNCHANGED vars => RowsAreUsed'
  BY DEF IInv, RowsAreUsed, vars
<1> QED BY <1>1, <1>2

\* The inductive invariant holds of the empty tables.
LEMMA InvInit == Init => IInv
  BY TypeInit
  DEF Init, IInv, RowsAreUsed, CopiesAreHonest, HonestView, HonestRequest,
      TransactionsAreIsolated, Holds

\* Every step keeps it.
LEMMA InvNext == IInv /\ [Next]_vars => IInv'
  BY TypeNext, CopiesNext, IsolationNext, RowsAreUsedNext DEF IInv

\* The inductive invariant holds throughout.
THEOREM Invariant == Spec => []IInv
  BY InvInit, InvNext, PTL DEF Spec

\* Every copy in a browser tab and in a request is honest: a copy at the current
\* lock_version is the current row.
THEOREM CopiesCorrect == Spec => []CopiesAreHonest
<1>1. IInv => CopiesAreHonest
  BY DEF IInv
<1> QED BY <1>1, Invariant, PTL

\* Open transactions are alone on their rows.
THEOREM IsolationCorrect == Spec => []TransactionsAreIsolated
<1>1. IInv => TransactionsAreIsolated
  BY DEF IInv
<1> QED BY <1>1, Invariant, PTL

(***************************************************************************)
(* Lost updates.                                                           *)
(***************************************************************************)

\* A step that commits the write of a request does so on the row the request loaded and
\* its user saw.
LEMMA WriteSawTheRow ==
  ASSUME IInv, [Next]_vars, NEW t \in Tabs, Writes(t)
  PROVE  /\ row[req[t].app] = req[t].loaded
         /\ req[t].checks => row[req[t].app] = req[t].seen
<1> DEFINE a == req[t].app
<1>0. TypeOK /\ req[t] # None /\ req'[t] # req[t] /\ row'[a] # row[a]
  BY DEF IInv, Writes
<1>1. CASE UNCHANGED vars
  BY <1>0, <1>1 DEF vars
<1>2. ASSUME NEW u \in Tabs, NEW b \in Apps, NEW s \in ENTRY_STATES, NEW d \in Details,
             Create(u, b, s, d)
      PROVE FALSE
  BY <1>0, <1>2 DEF Create
<1>3. ASSUME NEW u \in Tabs, TransitionCommit(u)
      PROVE row[a] = req[t].loaded /\ (req[t].checks => row[a] = req[t].seen)
  <2>1. t = u
    BY <1>0, <1>3 DEF TransitionCommit, TypeOK
  <2> QED
    BY <1>3, <2>1 DEF TransitionCommit, At, Holds, IInv, TransactionsAreIsolated
<1>4. ASSUME NEW u \in Tabs, UpdateDetails(u) \/ DestroyRow(u)
      PROVE row[a] = req[t].loaded /\ (req[t].checks => row[a] = req[t].seen)
  <2>1. t = u
    BY <1>0, <1>4 DEF UpdateDetails, DestroyRow, Answer, TypeOK
  <2>2. Matches(req[t]) /\ req[t].at # "received"
    BY <1>0, <1>4, <2>1 DEF UpdateDetails, DestroyRow, Tables, At
  <2> QED
    BY <1>0, <2>2, MatchIsCurrent
<1>5. ASSUME row' = row PROVE FALSE
  BY <1>0, <1>5
<1>6. ASSUME NEW u \in Tabs, NEW b \in Apps, Fetch(u, b) PROVE row' = row
  BY <1>6 DEF Fetch, Tables
<1>7. ASSUME NEW u \in Tabs, NEW kind \in Kinds, NEW to \in VALID_STATES, NEW d \in Details,
             NEW checks \in BOOLEAN, Send(u, kind, to, d, checks)
      PROVE row' = row
  BY <1>7 DEF Send, Tables
<1>8. ASSUME NEW u \in Tabs,
             Load(u) \/ Refuse(u) \/ TransitionUpdate(u) \/ TransitionRollback(u)
      PROVE row' = row
  BY <1>8 DEF Load, Refuse, TransitionUpdate, TransitionRollback, Tables
<1>9. ASSUME NEW u \in Tabs, Reload(u) \/ UpdateUnchanged(u) \/ DestroyDependents(u)
      PROVE row' = row
  BY <1>9 DEF Reload, UpdateUnchanged, DestroyDependents, Tables
<1>10. ASSUME NEW b \in Apps, NEW k \in ReminderKeys, ClaimReminder(b, k) PROVE row' = row
  BY <1>10 DEF ClaimReminder
<1>11. CASE Restart
  BY <1>5, <1>11 DEF Restart, Tables
<1>12. CASE Next
  BY <1>2, <1>3, <1>4, <1>5, <1>6, <1>7, <1>8, <1>9, <1>10, <1>11, <1>12
  DEF Next, User, Serve
<1> QED
  BY <1>1, <1>12

\* No write that carries a lock_version lands on a row its user did not see, and none
\* lands on a row its request did not load.
THEOREM NoOverwrite == Spec => NoSilentOverwrite
<1>1. IInv /\ [Next]_vars =>
        [\A t \in Tabs : Writes(t) => /\ row[req[t].app] = req[t].loaded
                                      /\ req[t].checks => row[req[t].app] = req[t].seen]_vars
  BY WriteSawTheRow
<1> QED
  BY <1>1, Invariant, PTL DEF Spec, NoSilentOverwrite

(***************************************************************************)
(* The audit trail.  A commit is a move of the abstract trail because its  *)
(* row is still the one it loaded; every other write of a row leaves its   *)
(* stage alone.                                                            *)
(***************************************************************************)

\* The abstract module's machine is this one.
LEMMA SameMachine ==
  /\ Trail!ENTRY_STATES = ENTRY_STATES /\ Trail!VALID_STATES = VALID_STATES
  /\ \A from, to : /\ Trail!Edge(from, to) = Edge(from, to)
                   /\ Trail!assert_transition(from, to) <=> assert_transition(from, to)
  BY DEF ENTRY_STATES, VALID_STATES, TERMINAL_STATES, TRANSITIONS, InterviewStages, Edge,
         assert_transition, Trail!ENTRY_STATES, Trail!VALID_STATES, Trail!TERMINAL_STATES,
         Trail!TRANSITIONS, Trail!InterviewStages, Trail!Edge, Trail!assert_transition

\* A status that a step may give to one application.
LEMMA StatusExcept ==
  ASSUME NEW a \in Apps, NEW r, row \in [Apps -> Row \cup {None}],
         row' = [row EXCEPT ![a] = r]
  PROVE  Status' = [Status EXCEPT ![a] = IF r = None THEN "none" ELSE r.status]
  BY DEF Status

\* The empty tables are the empty trail.
LEMMA TrailInit == Init => Trail!Init
  BY DEF Init, Trail!Init, Trail!NoStatus, Status

\* Every step of the tables is a step of the abstract trail, or none.
LEMMA TrailNext == IInv /\ [Next]_vars => [Trail!Next]_<<Status, moves>>
<1> SUFFICES ASSUME IInv, [Next]_vars PROVE [Trail!Next]_<<Status, moves>>
  OBVIOUS
<1>0. TypeOK
  BY DEF IInv
<1>1. ASSUME row' = row, moves' = moves PROVE UNCHANGED <<Status, moves>>
  BY <1>1 DEF Status
<1>2. CASE UNCHANGED vars
  BY <1>1, <1>2 DEF vars
<1>3. ASSUME NEW t \in Tabs, NEW a \in Apps, NEW s \in ENTRY_STATES, NEW d \in Details,
             Create(t, a, s, d)
      PROVE Trail!Next
  <2> DEFINE new == [status |-> s, applied |-> s = "applied", version |-> 0, details |-> d]
  <2>1. row' = [row EXCEPT ![a] = new] /\ moves' = moves /\ row[a] = None
    BY <1>3 DEF Create, IInv, RowsAreUsed
  <2>2. new \in Row
    BY EntryStatesValid DEF Row
  <2>3. Status' = [Status EXCEPT ![a] = s] /\ Status[a] = "none"
    BY <1>0, <2>1, <2>2, StatusExcept, WritesAssumption DEF TypeOK, Status
  <2>4. Trail!Create(a, s)
    BY <2>1, <2>3 DEF Trail!Create, Trail!NoStatus
  <2> QED
    BY <2>4, SameMachine DEF Trail!Next
<1>4. ASSUME NEW t \in Tabs, TransitionCommit(t) PROVE Trail!Next
  <2> DEFINE a  == req[t].app
             to == req[t].to
             l  == req[t].loaded
  <2>1. /\ a \in Apps /\ to \in VALID_STATES /\ l \in Row /\ row[a] = l
        /\ req[t].pending = Moved(l, to) /\ assert_transition(l.status, to)
    BY <1>0, <1>4 DEF TransitionCommit, At, Holds, IInv, TransactionsAreIsolated, TypeOK,
                      RequestShape, Request
  <2>2. Moved(l, to) \in Row /\ Moved(l, to).status = to
    BY <2>1, MovedRow DEF Moved
  <2>3. row' = [row EXCEPT ![a] = Moved(l, to)]
    BY <1>4, <2>1 DEF TransitionCommit
  <2>4. Status' = [Status EXCEPT ![a] = to] /\ Status[a] = l.status
    BY <1>0, <2>1, <2>2, <2>3, StatusExcept, WritesAssumption DEF TypeOK, Status
  <2>5. moves' = [moves EXCEPT ![a] = Append(@, Edge(Status[a], to))]
    BY <1>4, <2>4 DEF TransitionCommit
  <2>6. Status[a] # "none"
    BY <2>1, <2>4, ValidStatesList DEF Row
  <2>7. Trail!Move(a, to)
    BY <2>1, <2>4, <2>5, <2>6, SameMachine DEF Trail!Move, Trail!NoStatus
  <2> QED
    BY <2>1, <2>7, SameMachine DEF Trail!Next
<1>5. ASSUME NEW t \in Tabs, UpdateDetails(t) PROVE UNCHANGED <<Status, moves>>
  <2> DEFINE a == req[t].app
             e == Edited(row[a], req[t].details, row[a].version)
  <2>1. CASE ~Matches(req[t])
    BY <1>1, <1>5, <2>1 DEF UpdateDetails
  <2>2. CASE Matches(req[t])
    <3>1. a \in Apps /\ row[a] \in Row /\ req[t].details \in Details /\ row[a] # None
      BY <1>0, <1>5, <2>2 DEF UpdateDetails, At, Matches, TypeOK, Request
    <3>2. e \in Row /\ e.status = row[a].status
      BY <3>1, EditedRow DEF Row, Edited
    <3>3. row' = [row EXCEPT ![a] = e] /\ moves' = moves
      BY <1>5, <2>2 DEF UpdateDetails
    <3>4. Status' = [Status EXCEPT ![a] = Status[a]]
      BY <1>0, <3>1, <3>2, <3>3, StatusExcept, WritesAssumption DEF TypeOK, Status
    <3> QED
      BY <3>3, <3>4 DEF Status
  <2> QED BY <2>1, <2>2
<1>6. ASSUME NEW t \in Tabs, DestroyRow(t) PROVE [Trail!Next]_<<Status, moves>>
  <2> DEFINE a == req[t].app
  <2>1. CASE row' = row /\ moves' = moves
    BY <1>1, <2>1
  <2>2. CASE /\ Matches(req[t])
             /\ row'   = [row EXCEPT ![a] = None]
             /\ moves' = [moves EXCEPT ![a] = <<>>]
    <3>1. a \in Apps /\ row[a] \in Row /\ row[a] # None
      BY <1>0, <1>6, <2>2 DEF DestroyRow, At, Matches, TypeOK, Request
    <3>2. Status' = [Status EXCEPT ![a] = "none"]
      BY <1>0, <2>2, <3>1, StatusExcept DEF TypeOK
    <3>3. Status[a] # "none"
      BY <3>1, ValidStatesList DEF Status, Row
    <3>4. Trail!Delete(a)
      BY <2>2, <3>2, <3>3 DEF Trail!Delete, Trail!NoStatus
    <3> QED
      BY <3>1, <3>4 DEF Trail!Next
  <2> QED
    BY <1>6, <2>1, <2>2 DEF DestroyRow, Tables
<1>7. ASSUME NEW t \in Tabs, NEW a \in Apps, Fetch(t, a) PROVE UNCHANGED <<row, moves>>
  BY <1>7 DEF Fetch, Tables
<1>8. ASSUME NEW t \in Tabs, NEW kind \in Kinds, NEW to \in VALID_STATES, NEW d \in Details,
             NEW checks \in BOOLEAN, Send(t, kind, to, d, checks)
      PROVE UNCHANGED <<row, moves>>
  BY <1>8 DEF Send, Tables
<1>9. ASSUME NEW t \in Tabs,
             Load(t) \/ Refuse(t) \/ TransitionUpdate(t) \/ TransitionRollback(t)
      PROVE UNCHANGED <<row, moves>>
  BY <1>9 DEF Load, Refuse, TransitionUpdate, TransitionRollback, Tables
<1>10. ASSUME NEW t \in Tabs, Reload(t) \/ UpdateUnchanged(t) \/ DestroyDependents(t)
       PROVE UNCHANGED <<row, moves>>
  BY <1>10 DEF Reload, UpdateUnchanged, DestroyDependents, Tables
<1>11. ASSUME NEW a \in Apps, NEW k \in ReminderKeys, ClaimReminder(a, k)
       PROVE UNCHANGED <<row, moves>>
  BY <1>11 DEF ClaimReminder
<1>12. CASE Restart
  BY <1>1, <1>12 DEF Restart, Tables
<1>13. CASE Next
  BY <1>1, <1>3, <1>4, <1>5, <1>6, <1>7, <1>8, <1>9, <1>10, <1>11, <1>12, <1>13
  DEF Next, User, Serve
<1> QED
  BY <1>1, <1>2, <1>13

\* The tables implement the abstract trail: status and stage changes move together, one
\* legal edge at a time, in every interleaving.
THEOREM TrailRefined == Spec => ImplementsAuditTrail
<1>1. IInv /\ [Next]_vars => [Trail!Next]_(Trail!vars)
  BY TrailNext DEF Trail!vars
<1> QED
  BY <1>1, TrailInit, Invariant, PTL DEF Spec, ImplementsAuditTrail, Trail!Spec

-------------------------------------------------------------------------------
\* The abstract trail explains the status.

TrailChange == [from: Trail!VALID_STATES, to: Trail!VALID_STATES]

TrailType == /\ Status \in [Apps -> Trail!VALID_STATES \cup {Trail!NoStatus}]
             /\ moves \in [Apps -> Seq(TrailChange)]

\* The part of TrailExplainsStatus that speaks of one application.
Explains(st, tr) ==
  /\ Trail!IsWalk(tr)
  /\ st = Trail!NoStatus => tr = <<>>
  /\ st # Trail!NoStatus /\ tr = <<>> => st \in Trail!ENTRY_STATES
  /\ tr # <<>> => st = tr[Len(tr)].to

\* NoStatus is not a stage.
LEMMA NoStatusIsNone == Trail!NoStatus \notin Trail!VALID_STATES
  BY DEF Trail!NoStatus, Trail!VALID_STATES, Trail!TERMINAL_STATES, Trail!TRANSITIONS,
         Trail!InterviewStages, Trail!Edge

\* Creation enters a stage of the machine.
LEMMA EntryIsValid == Trail!ENTRY_STATES \subseteq Trail!VALID_STATES
<1>1. \A e \in {"wishlist", "draft", "applied"} : \E x : Trail!Edge(e, x) \in Trail!TRANSITIONS
  <2>1. /\ Trail!Edge("wishlist", "draft") \in Trail!TRANSITIONS
        /\ Trail!Edge("draft", "applied") \in Trail!TRANSITIONS
        /\ Trail!Edge("applied", "phone_screen") \in Trail!TRANSITIONS
    BY DEF Trail!TRANSITIONS
  <2> QED BY <2>1
<1>2. \A e, x : Trail!Edge(e, x) \in Trail!TRANSITIONS => e \in Trail!VALID_STATES
  BY DEF Trail!VALID_STATES, Trail!Edge
<1> QED BY <1>1, <1>2 DEF Trail!ENTRY_STATES

\* A walk followed by a legal move from where it ends is a walk.
LEMMA WalkGrows ==
  ASSUME NEW st \in Trail!VALID_STATES, NEW to \in Trail!VALID_STATES,
         NEW tr \in Seq(TrailChange), Explains(st, tr), Trail!assert_transition(st, to)
  PROVE  Explains(to, Append(tr, Trail!Edge(st, to)))
<1> DEFINE new == Append(tr, Trail!Edge(st, to))
           n   == Len(tr)
<1>1. /\ Trail!Edge(st, to) \in TrailChange /\ n \in Nat
      /\ Trail!Edge(st, to).from = st /\ Trail!Edge(st, to).to = to
  BY DEF Trail!Edge, TrailChange
<1>2. /\ Len(new) = n + 1 /\ new[n + 1] = Trail!Edge(st, to) /\ new # <<>>
      /\ \A i \in 1..n : new[i] = tr[i]
  BY <1>1
<1>3. tr # <<>> => n \in 1..n /\ n > 0 /\ st = tr[n].to /\ 1 \in 1..n
  BY <1>1 DEF Explains
<1>4. tr = <<>> => n = 0 /\ st \in Trail!ENTRY_STATES
  BY NoStatusIsNone DEF Explains
<1>5. \A i \in 1..Len(new) : Trail!assert_transition(new[i].from, new[i].to)
  BY <1>1, <1>2 DEF Explains, Trail!IsWalk
<1>6. \A i \in 1..(Len(new) - 1) : new[i].to = new[i + 1].from
  <2> SUFFICES ASSUME NEW i \in 1..n PROVE new[i].to = new[i + 1].from
    BY <1>1, <1>2
  <2>1. CASE i = n
    BY <1>1, <1>2, <1>3, <1>4, <2>1
  <2>2. CASE i # n
    <3>1. i \in 1..(n - 1) /\ i + 1 \in 1..n
      BY <1>1, <2>2
    <3> QED BY <1>2, <3>1 DEF Explains, Trail!IsWalk
  <2> QED BY <2>1, <2>2
<1>7. new[1].from \in Trail!ENTRY_STATES
  BY <1>1, <1>2, <1>3, <1>4 DEF Explains, Trail!IsWalk
<1>8. to # Trail!NoStatus
  BY NoStatusIsNone
<1> QED
  BY <1>1, <1>2, <1>5, <1>6, <1>7, <1>8 DEF Explains, Trail!IsWalk

\* The empty trail explains a stage that creation may enter, and no row at all.
LEMMA EmptyWalk ==
  ASSUME NEW st \in Trail!ENTRY_STATES \cup {Trail!NoStatus}
  PROVE  Explains(st, <<>>)
<1>1. /\ \A i \in 1..Len(<<>>) : FALSE
      /\ \A i \in 1..(Len(<<>>) - 1) : FALSE
  OBVIOUS
<1> QED
  BY <1>1 DEF Explains, Trail!IsWalk

\* Every step of the abstract trail keeps status and trail together.
LEMMA AbstractStep ==
  TrailType /\ Trail!TrailExplainsStatus /\ [Trail!Next]_(Trail!vars) =>
    (TrailType /\ Trail!TrailExplainsStatus)'
<1> SUFFICES ASSUME TrailType, Trail!TrailExplainsStatus, [Trail!Next]_(Trail!vars)
             PROVE  (TrailType /\ Trail!TrailExplainsStatus)'
  OBVIOUS
<1>0. \A b \in Apps : Explains(Status[b], moves[b])
  BY DEF Trail!TrailExplainsStatus, Explains
<1>1. CASE UNCHANGED Trail!vars
  BY <1>1 DEF Trail!vars, TrailType, Trail!TrailExplainsStatus, Trail!IsWalk
<1>2. ASSUME NEW a \in Apps, NEW st \in Trail!VALID_STATES \cup {Trail!NoStatus},
             NEW tr \in Seq(TrailChange),
             Status' = [Status EXCEPT ![a] = st], moves' = [moves EXCEPT ![a] = tr],
             Explains(st, tr)
      PROVE  (TrailType /\ Trail!TrailExplainsStatus)'
  <2>1. TrailType'
    BY <1>2 DEF TrailType
  <2>2. \A b \in Apps : Explains(Status'[b], moves'[b])
    BY <1>0, <1>2 DEF TrailType
  <2> QED
    BY <2>1, <2>2 DEF Trail!TrailExplainsStatus, Explains, Trail!IsWalk
<1>3. ASSUME NEW a \in Apps, NEW s \in Trail!ENTRY_STATES, Trail!Create(a, s)
      PROVE  (TrailType /\ Trail!TrailExplainsStatus)'
  <2>1. moves[a] = <<>> /\ moves' = [moves EXCEPT ![a] = <<>>]
    BY <1>3 DEF Trail!Create, Trail!TrailExplainsStatus, TrailType
  <2>2. <<>> \in Seq(TrailChange) /\ Explains(s, <<>>)
    BY EmptyWalk
  <2>3. s \in Trail!VALID_STATES \cup {Trail!NoStatus} /\ Status' = [Status EXCEPT ![a] = s]
    BY <1>3, EntryIsValid DEF Trail!Create
  <2> QED
    BY <1>2, <2>1, <2>2, <2>3
<1>4. ASSUME NEW a \in Apps, NEW to \in Trail!VALID_STATES, Trail!Move(a, to)
      PROVE  (TrailType /\ Trail!TrailExplainsStatus)'
  <2>1. Status[a] \in Trail!VALID_STATES /\ moves[a] \in Seq(TrailChange)
    BY <1>4 DEF Trail!Move, TrailType
  <2>2. Append(moves[a], Trail!Edge(Status[a], to)) \in Seq(TrailChange)
    BY <2>1 DEF Trail!Edge, TrailChange
  <2>3. Explains(to, Append(moves[a], Trail!Edge(Status[a], to)))
    BY <1>0, <1>4, <2>1, WalkGrows DEF Trail!Move
  <2> QED
    BY <1>2, <1>4, <2>2, <2>3 DEF Trail!Move
<1>5. ASSUME NEW a \in Apps, Trail!Delete(a) PROVE (TrailType /\ Trail!TrailExplainsStatus)'
  <2>1. <<>> \in Seq(TrailChange) /\ Explains(Trail!NoStatus, <<>>)
    BY EmptyWalk
  <2> QED
    BY <1>2, <1>5, <2>1 DEF Trail!Delete
<1> QED
  BY <1>1, <1>3, <1>4, <1>5 DEF Trail!Next

\* Of the abstract specification: replaying an application's stage changes reaches its stage.
THEOREM TrailCorrect == Trail!Spec => []Trail!TrailExplainsStatus
<1>1. Trail!Init => TrailType /\ Trail!TrailExplainsStatus
  <2> SUFFICES ASSUME Trail!Init PROVE TrailType /\ Trail!TrailExplainsStatus
    OBVIOUS
  <2>1. \A a \in Apps : Explains(Status[a], moves[a])
    BY EmptyWalk DEF Trail!Init
  <2> QED
    BY <2>1 DEF Trail!Init, TrailType, Trail!TrailExplainsStatus, Explains
<1> QED
  BY <1>1, AbstractStep, PTL DEF Trail!Spec

\* So the committed stage changes of a row always replay to its committed status.
THEOREM TrailExplained == Spec => []TrailExplainsStatus
BY TrailRefined, TrailCorrect, PTL DEF ImplementsAuditTrail, TrailExplainsStatus

(***************************************************************************)
(* applied_at and the dashboard's rates.                                   *)
(***************************************************************************)

\* The stages that lie behind applied: no edge enters one from outside.
StampedStages == {"applied", "phone_screen", "technical", "final_round", "offer", "accepted",
                  "declined", "rejected", "ghosted", "withdrawn"}

\* Only applied leads into them.
LEMMA BehindApplied ==
  ASSUME NEW from \in VALID_STATES, NEW to \in StampedStages, assert_transition(from, to)
  PROVE  to = "applied" \/ from \in StampedStages
<1>1. to # "archived"
  BY DEF StampedStages
<1>2. Edge(from, to) \in TRANSITIONS
  BY <1>1 DEF assert_transition
<1> QED BY <1>2 DEF TRANSITIONS, InterviewStages, Edge, StampedStages

\* What one application's row and trail say of applied_at.
Stamped(a) ==
  /\ row[a] = None => moves[a] = <<>>
  /\ row[a] # None => /\ row[a].status \in StampedStages => row[a].applied
                      /\ row[a].applied <=> WentThroughApplied(a)
  /\ \A i \in 1..Len(moves[a]) :
       moves[a][i].to \in RESPONSE_STATES \cup {"ghosted"} => row[a].applied
StampInv == IInv /\ \A a \in Apps : Stamped(a)

\* What a step may do to the row and the trail of one application: nothing, its
\* creation, an edit, a move with its entry, its deletion.
RowChange(a) ==
  \/ row'[a] = row[a] /\ moves'[a] = moves[a]
  \/ /\ row[a] = None /\ row'[a] # None /\ moves'[a] = moves[a]
     /\ row'[a].status \in ENTRY_STATES
     /\ row'[a].applied = (row'[a].status = "applied")
  \/ /\ row[a] # None /\ row'[a] # None /\ moves'[a] = moves[a]
     /\ row'[a].status = row[a].status /\ row'[a].applied = row[a].applied
  \/ /\ row[a] # None /\ row[a] \in Row
     /\ \E to \in VALID_STATES :
          /\ assert_transition(row[a].status, to)
          /\ row'[a] = Moved(row[a], to) /\ row'[a] # None
          /\ moves'[a] = Append(moves[a], Edge(row[a].status, to))
  \/ row'[a] = None /\ moves'[a] = <<>>

\* Every step is one of these for every application.
LEMMA RowStep ==
  ASSUME IInv, [Next]_vars, NEW a \in Apps
  PROVE  RowChange(a)
<1>0. TypeOK
  BY DEF IInv
<1>1. CASE UNCHANGED <<row, moves>>
  BY <1>1 DEF RowChange
<1>2. CASE UNCHANGED vars
  BY <1>2 DEF vars, RowChange
<1>3. ASSUME NEW t \in Tabs, NEW b \in Apps, NEW s \in ENTRY_STATES, NEW d \in Details,
             Create(t, b, s, d)
      PROVE RowChange(a)
  <2> DEFINE new == [status |-> s, applied |-> s = "applied", version |-> 0, details |-> d]
  <2>1. row' = [row EXCEPT ![b] = new] /\ moves' = moves /\ row[b] = None
    BY <1>3 DEF Create, IInv, RowsAreUsed
  <2>2. new \in Row /\ new.status = s /\ new.applied = (s = "applied")
    BY EntryStatesValid DEF Row
  <2> HIDE DEF new
  <2>3. new # None
    BY <2>2, WritesAssumption
  <2>4. row'[a] = IF a = b THEN new ELSE row[a]
    BY <1>0, <2>1 DEF TypeOK
  <2> QED BY <2>1, <2>2, <2>3, <2>4 DEF RowChange
<1>4. ASSUME NEW t \in Tabs, TransitionCommit(t) PROVE RowChange(a)
  <2> DEFINE b  == req[t].app
             to == req[t].to
             l  == req[t].loaded
  <2>1. /\ b \in Apps /\ to \in VALID_STATES /\ l \in Row /\ row[b] = l
        /\ req[t].pending = Moved(l, to) /\ assert_transition(l.status, to)
    BY <1>0, <1>4 DEF TransitionCommit, At, Holds, IInv, TransactionsAreIsolated, TypeOK,
                      RequestShape, Request
  <2>2. Moved(l, to) \in Row /\ Moved(l, to) # None /\ l # None
    BY <2>1, MovedRow, WritesAssumption
  <2>3. /\ row' = [row EXCEPT ![b] = Moved(l, to)]
        /\ moves' = [moves EXCEPT ![b] = Append(@, Edge(l.status, to))]
    BY <1>4, <2>1 DEF TransitionCommit
  <2> HIDE DEF b, to, l
  <2>4. CASE a = b
    <3>1. row'[a] = Moved(row[a], to) /\ moves'[a] = Append(moves[a], Edge(row[a].status, to))
      BY <1>0, <2>1, <2>3, <2>4 DEF TypeOK
    <3> QED BY <2>1, <2>2, <2>4, <3>1 DEF RowChange
  <2>5. CASE a # b
    BY <1>0, <2>3, <2>5 DEF TypeOK, RowChange
  <2> QED BY <2>4, <2>5
<1>5. ASSUME NEW t \in Tabs, UpdateDetails(t) PROVE RowChange(a)
  <2> DEFINE b == req[t].app
             e == Edited(row[b], req[t].details, row[b].version)
  <2>1. CASE ~Matches(req[t])
    BY <1>1, <1>5, <2>1 DEF UpdateDetails
  <2>2. CASE Matches(req[t])
    <3>1. b \in Apps /\ row[b] \in Row /\ req[t].details \in Details /\ row[b] # None
      BY <1>0, <1>5, <2>2 DEF UpdateDetails, At, Matches, TypeOK, Request
    <3>2. e \in Row /\ e.status = row[b].status /\ e.applied = row[b].applied
      BY <3>1, EditedRow DEF Row, Edited
    <3>3. row' = [row EXCEPT ![b] = e] /\ moves' = moves
      BY <1>5, <2>2 DEF UpdateDetails
    <3> HIDE DEF b, e
    <3>4. e # None /\ row'[a] = IF a = b THEN e ELSE row[a]
      BY <1>0, <3>2, <3>3, WritesAssumption DEF TypeOK
    <3> QED BY <3>1, <3>2, <3>3, <3>4 DEF RowChange
  <2> QED BY <2>1, <2>2
<1>6. ASSUME NEW t \in Tabs, DestroyRow(t) PROVE RowChange(a)
  <2> DEFINE b == req[t].app
  <2>1. CASE UNCHANGED <<row, moves>>
    BY <1>1, <2>1
  <2>2. CASE row' = [row EXCEPT ![b] = None] /\ moves' = [moves EXCEPT ![b] = <<>>]
    <3>1. \/ row'[a] = row[a] /\ moves'[a] = moves[a]
          \/ row'[a] = None /\ moves'[a] = <<>>
      BY <1>0, <2>2 DEF TypeOK
    <3> QED BY <3>1 DEF RowChange
  <2> QED
    BY <1>6, <2>1, <2>2 DEF DestroyRow, Tables
<1>7. ASSUME NEW t \in Tabs, NEW b \in Apps, Fetch(t, b) PROVE UNCHANGED <<row, moves>>
  BY <1>7 DEF Fetch, Tables
<1>8. ASSUME NEW t \in Tabs, NEW kind \in Kinds, NEW to \in VALID_STATES, NEW d \in Details,
             NEW checks \in BOOLEAN, Send(t, kind, to, d, checks)
      PROVE UNCHANGED <<row, moves>>
  BY <1>8 DEF Send, Tables
<1>9. ASSUME NEW t \in Tabs,
             Load(t) \/ Refuse(t) \/ TransitionUpdate(t) \/ TransitionRollback(t)
      PROVE UNCHANGED <<row, moves>>
  BY <1>9 DEF Load, Refuse, TransitionUpdate, TransitionRollback, Tables
<1>10. ASSUME NEW t \in Tabs, Reload(t) \/ UpdateUnchanged(t) \/ DestroyDependents(t)
       PROVE UNCHANGED <<row, moves>>
  BY <1>10 DEF Reload, UpdateUnchanged, DestroyDependents, Tables
<1>11. ASSUME NEW b \in Apps, NEW k \in ReminderKeys, ClaimReminder(b, k)
       PROVE UNCHANGED <<row, moves>>
  BY <1>11 DEF ClaimReminder
<1>12. CASE Restart
  BY <1>1, <1>12 DEF Restart, Tables
<1>13. CASE Next
  <2>1. ASSUME NEW t \in Tabs, User(t) PROVE RowChange(a)
    BY <1>1, <1>3, <1>7, <1>8, <2>1 DEF User
  <2>2. ASSUME NEW t \in Tabs, Serve(t) PROVE RowChange(a)
    BY <1>1, <1>4, <1>5, <1>6, <1>9, <1>10, <2>2 DEF Serve
  <2>3. ASSUME NEW b \in Apps, NEW k \in ReminderKeys, ClaimReminder(b, k) PROVE RowChange(a)
    BY <1>1, <1>11, <2>3
  <2> QED BY <1>12, <1>13, <2>1, <2>2, <2>3 DEF Next
<1>14. RowChange(a)
  BY <1>2, <1>13
<1> QED BY <1>14

\* A move keeps what row and trail say of applied_at.
LEMMA StampMove ==
  ASSUME IInv, NEW a \in Apps, Stamped(a), row[a] # None, row[a] \in Row,
         NEW to \in VALID_STATES, assert_transition(row[a].status, to),
         row'[a] = Moved(row[a], to), row'[a] # None,
         moves'[a] = Append(moves[a], Edge(row[a].status, to))
  PROVE  Stamped(a)'
<1> DEFINE m == moves[a]
           n == moves'[a]
           from == row[a].status
           e == Edge(from, to)
<1>1. m \in Seq([from: VALID_STATES, to: VALID_STATES])
  BY DEF IInv, TypeOK
<1>2. from \in VALID_STATES /\ row[a].applied \in BOOLEAN
  BY DEF Row
<1>3. e \in [from: VALID_STATES, to: VALID_STATES] /\ e.from = from /\ e.to = to
  BY <1>2 DEF Edge
<1>4. /\ Len(n) = Len(m) + 1 /\ Len(m) \in Nat
      /\ \A i \in 1..Len(m) : n[i] = m[i]
      /\ n[Len(m) + 1] = e
  <2>1. n = Append(m, e)
    OBVIOUS
  <2> HIDE DEF e, n, m
  <2> QED BY <1>1, <1>3, <2>1
<1>5. row'[a].status = to /\ row'[a].applied = (row[a].applied \/ to = "applied")
  BY DEF Moved
<1>6. /\ from \in StampedStages => row[a].applied
      /\ row[a].applied <=> WentThroughApplied(a)
      /\ \A i \in 1..Len(m) : m[i].to \in RESPONSE_STATES \cup {"ghosted"} => row[a].applied
  BY DEF Stamped
<1>7. to \in StampedStages => row'[a].applied
  BY <1>2, <1>5, <1>6, BehindApplied
<1>8. "applied" \in StampedStages /\ RESPONSE_STATES \cup {"ghosted"} \subseteq StampedStages
  BY DEF StampedStages, RESPONSE_STATES, ADVANCED_STATES
<1>9. WentThroughApplied(a) <=> \/ m = <<>> /\ from = "applied"
                                \/ \E i \in 1..Len(m) : "applied" \in {m[i].from, m[i].to}
  BY DEF WentThroughApplied
<1>10. WentThroughApplied(a)' <=> \/ n = <<>> /\ row'[a].status = "applied"
                                  \/ \E i \in 1..Len(n) : "applied" \in {n[i].from, n[i].to}
  BY DEF WentThroughApplied
<1> HIDE DEF m, n, from, e
<1>11. n # <<>>
  BY <1>4
<1>12. (\E i \in 1..Len(n) : "applied" \in {n[i].from, n[i].to})
         <=> \/ \E i \in 1..Len(m) : "applied" \in {m[i].from, m[i].to}
             \/ "applied" \in {from, to}
  <2>1. \A i \in 1..Len(n) : i \in 1..Len(m) \/ i = Len(m) + 1
    BY <1>4
  <2>2. \A i \in 1..Len(m) : i \in 1..Len(n)
    BY <1>4
  <2>3. Len(m) + 1 \in 1..Len(n)
    BY <1>4
  <2>4. ASSUME NEW i \in 1..Len(n), "applied" \in {n[i].from, n[i].to}
        PROVE  \/ \E j \in 1..Len(m) : "applied" \in {m[j].from, m[j].to}
               \/ "applied" \in {from, to}
    BY <1>3, <1>4, <2>1, <2>4
  <2>5. ASSUME NEW i \in 1..Len(m), "applied" \in {m[i].from, m[i].to}
        PROVE  \E j \in 1..Len(n) : "applied" \in {n[j].from, n[j].to}
    BY <1>4, <2>2, <2>5
  <2>6. ASSUME "applied" \in {from, to}
        PROVE  \E j \in 1..Len(n) : "applied" \in {n[j].from, n[j].to}
    BY <1>3, <1>4, <2>3, <2>6
  <2> QED BY <2>4, <2>5, <2>6
<1>13. row'[a].applied <=> WentThroughApplied(a)'
  <2>1. row'[a].applied <=> (row[a].applied \/ to = "applied")
    BY <1>5
  <2>2. from = "applied" => row[a].applied
    BY <1>6, <1>8
  <2>3. m = <<>> => ~(\E i \in 1..Len(m) : "applied" \in {m[i].from, m[i].to})
    OBVIOUS
  <2>4. WentThroughApplied(a)' <=> \/ \E i \in 1..Len(m) : "applied" \in {m[i].from, m[i].to}
                                   \/ from = "applied" \/ to = "applied"
    BY <1>10, <1>11, <1>12
  <2> QED BY <1>6, <1>9, <2>1, <2>2, <2>4
<1>14. ASSUME NEW i \in 1..Len(n), n[i].to \in RESPONSE_STATES \cup {"ghosted"}
       PROVE  row'[a].applied
  <2>1. CASE i \in 1..Len(m)
    BY <1>4, <1>5, <1>6, <1>14, <2>1
  <2>2. CASE i = Len(m) + 1
    BY <1>3, <1>4, <1>7, <1>8, <1>14, <2>2
  <2> QED BY <1>4, <2>1, <2>2
<1> QED BY <1>5, <1>7, <1>13, <1>14 DEF Stamped, n

\* The rows and trails start without contradiction.
LEMMA StampInit == Init => StampInv
<1> SUFFICES ASSUME Init PROVE StampInv
  OBVIOUS
<1>1. IInv
  BY InvInit
<1>2. \A a \in Apps : row[a] = None /\ moves[a] = <<>>
  BY DEF Init
<1> QED BY <1>1, <1>2 DEF StampInv, Stamped

\* No step puts applied_at at odds with the trail.
LEMMA StampNext == StampInv /\ [Next]_vars => StampInv'
<1> SUFFICES ASSUME StampInv, [Next]_vars PROVE StampInv'
  OBVIOUS
<1>1. IInv /\ IInv'
  BY InvNext DEF StampInv
<1>2. ASSUME NEW a \in Apps PROVE Stamped(a)'
  <2>0. Stamped(a)
    BY DEF StampInv
  <2>1. CASE row'[a] = row[a] /\ moves'[a] = moves[a]
    BY <2>0, <2>1 DEF Stamped, WentThroughApplied
  <2>2. CASE /\ row[a] = None /\ row'[a] # None /\ moves'[a] = moves[a]
             /\ row'[a].status \in ENTRY_STATES
             /\ row'[a].applied = (row'[a].status = "applied")
    <3>1. moves'[a] = <<>> /\ Len(moves'[a]) = 0
      BY <2>0, <2>2 DEF Stamped
    <3>2. row'[a].status \in StampedStages => row'[a].status = "applied"
      BY <2>2 DEF StampedStages, ENTRY_STATES
    <3>3. WentThroughApplied(a)' <=> row'[a].status = "applied"
      BY <3>1 DEF WentThroughApplied
    <3>4. \A i \in 1..Len(moves'[a]) : FALSE
      BY <3>1
    <3>5. row'[a].applied <=> row'[a].status = "applied"
      BY <2>2
    <3> QED BY <2>2, <3>1, <3>2, <3>3, <3>4, <3>5 DEF Stamped
  <2>3. CASE /\ row[a] # None /\ row'[a] # None /\ moves'[a] = moves[a]
             /\ row'[a].status = row[a].status /\ row'[a].applied = row[a].applied
    BY <2>0, <2>3 DEF Stamped, WentThroughApplied
  <2>4. CASE /\ row[a] # None /\ row[a] \in Row
             /\ \E to \in VALID_STATES :
                  /\ assert_transition(row[a].status, to)
                  /\ row'[a] = Moved(row[a], to) /\ row'[a] # None
                  /\ moves'[a] = Append(moves[a], Edge(row[a].status, to))
    BY <1>1, <2>0, <2>4, StampMove
  <2>5. CASE row'[a] = None /\ moves'[a] = <<>>
    BY <2>5 DEF Stamped
  <2> QED BY <1>1, <2>1, <2>2, <2>3, <2>4, <2>5, RowStep
     DEF RowChange
<1> QED BY <1>1, <1>2 DEF StampInv

\* The stamp invariant holds throughout.
LEMMA StampCorrect == Spec => []StampInv
<1> QED BY StampInit, StampNext, PTL DEF Spec

\* applied_at is set on a row exactly when its trail says the application was applied
\* to (TransitionService#call, Application's creation), whatever requests race.
THEOREM AppliedAtExplained == Spec => []AppliedAtMatchesTrail
<1>1. StampInv => AppliedAtMatchesTrail
  BY DEF StampInv, Stamped, AppliedAtMatchesTrail
<1> QED BY <1>1, StampCorrect, PTL

\* No rate of the dashboard passes 100%: what DashboardController counts in a numerator
\* is always in its denominator.
THEOREM RatesAreFractionsOfApplied == Spec => []RatesAreFractions
<1>1. StampInv => RatesAreFractions
  BY DEF StampInv, Stamped, RatesAreFractions
<1> QED BY <1>1, StampCorrect, PTL
===============================================================================
