-------------------------- MODULE ApplicationWrites --------------------------
(***************************************************************************)
(* Concurrent writers of the applications and timeline_entries tables.     *)
(*                                                                         *)
(* A tab of the web client holds a copy of a row and sends one request at  *)
(* a time.  The API serves a request in the SQL statements the Rails code  *)
(* issues: load the record, check the loaded copy, UPDATE ... WHERE        *)
(* lock_version, INSERT the timeline entry, COMMIT, reload.  Between two    *)
(* statements every other request, and the reminder job, may run.          *)
(*                                                                         *)
(* row, moves and claims are what is committed.  A transaction's own       *)
(* writes stay in its request until it commits.                            *)
(***************************************************************************)
EXTENDS ApplicationFSM, Naturals, Sequences

CONSTANTS Tabs,        \* browser tabs: at most one request in flight each
          Apps,        \* primary keys of applications, never reused
          Details,     \* contents of the columns the details form and uploads write
          ReminderKeys,\* idempotency keys of the reminder job's timeline entries
          None,        \* no row, no request, no copy
          MaxVersion   \* bound of the exploration on lock_version, see BelowBound

Row == [status: VALID_STATES, applied: BOOLEAN, version: Nat, details: Details]

ASSUME WritesAssumption == /\ None \notin Row
                           /\ MaxVersion \in Nat

VARIABLES
  row,      \* row[a]: the committed row of application a (applied: applied_at is set)
  used,     \* ids the sequence has handed out
  moves,    \* moves[a]: committed timeline entries that changed the stage, oldest first
  claims,   \* claims[a]: committed timeline entries of the reminder job, by key
  view,     \* view[t]: the copy tab t renders
  req       \* req[t]: the request of tab t the API is working on

vars == <<row, used, moves, claims, view, req>>

Kinds   == {"transition", "update", "destroy"}
Steps   == {"received", "loaded", "dependents", "updated", "committed"}

View == [app: Apps, row: Row]

\* to and details are the payload, seen is the tab's copy the user acted on,
\* checks is whether the payload carries that copy's lock_version.  loaded is the
\* in-memory record of the request, dependents the reminder entries a destroy has
\* read, pending the row version an open transaction has written.
Request == [app: Apps, kind: Kinds, to: VALID_STATES, details: Details,
            seen: Row, checks: BOOLEAN, at: Steps,
            loaded: Row \cup {None}, dependents: SUBSET ReminderKeys,
            pending: Row \cup {None}]

Init == /\ row    = [a \in Apps |-> None]
        /\ used   = {}
        /\ moves  = [a \in Apps |-> <<>>]
        /\ claims = [a \in Apps |-> {}]
        /\ view   = [t \in Tabs |-> None]
        /\ req    = [t \in Tabs |-> None]

-------------------------------------------------------------------------------
At(t, kind, step) == req[t] # None /\ req[t].kind = kind /\ req[t].at = step

\* Mutant: a transaction takes no row lock.
Locked_Never(a) == FALSE

\* The transaction that updated a row owns its row lock until it ends.
Locked(a) == \E t \in Tabs : req[t] # None /\ req[t].app = a /\ req[t].at = "updated"

\* Mutant: the payload's lock_version is not permitted, so only the load is compared.
Expected_Loaded(r) == r.loaded.version

\* The lock_version in the WHERE clause: the client's when it sent one (it is then a
\* changed attribute of the loaded record), else the loaded one.
Expected(r) == IF r.checks THEN r.seen.version ELSE r.loaded.version

\* Mutant: only the first creation as applied stamps applied_at.
Moved_NoStamp(r, to) == [status  |-> to,            applied |-> r.applied,
                         version |-> r.version + 1, details |-> r.details]
\* Mutant: update_columns, which skips the lock.
Edited_NoBump(r, d, v) == [status  |-> r.status, applied |-> r.applied,
                           version |-> v,        details |-> d]

\* What the two UPDATE statements write: only the columns the save changed (applied_at
\* only by a move into applied), and the next lock_version.
Moved(r, to)    == [status  |-> to,            applied |-> r.applied \/ to = "applied",
                    version |-> r.version + 1, details |-> r.details]
Edited(r, d, v) == [status  |-> r.status,      applied |-> r.applied,
                    version |-> v + 1,         details |-> d]

\* Mutant: the WHERE clause names the id only.
Matches_AnyVersion(r) == row[r.app] # None

Matches(r) == row[r.app] # None /\ row[r.app].version = Expected(r)

\* The request ends: its answer leaves, its transaction (if any) is over.
Answer(t) == req' = [req EXCEPT ![t] = None]

Tables == <<row, used, moves, claims>>

-------------------------------------------------------------------------------
\* GET show or index: the tab renders the committed row, or its 404.
Fetch(t, a) ==
  /\ req[t] = None
  /\ view' = [view EXCEPT ![t] = IF row[a] = None THEN None
                                 ELSE [app |-> a, row |-> row[a]]]
  /\ UNCHANGED <<Tables, req>>

Create(t, a, s, d) ==
  LET new == [status |-> s, applied |-> s = "applied", version |-> 0, details |-> d]
  IN  /\ req[t] = None
      /\ a \notin used
      /\ used'  = used \cup {a}
      /\ row'   = [row EXCEPT ![a] = new]
      /\ view'  = [view EXCEPT ![t] = [app |-> a, row |-> new]]
      /\ UNCHANGED <<moves, claims, req>>

\* Exploration bound, not in the code: no request starts on a row this far on.
BelowBound(a) == row[a] # None => row[a].version < MaxVersion

\* The payload of a request: a transition names a stage, an update carries new
\* details (a details form with the copy's lock_version, an upload without), a
\* destroy carries nothing at all.
Send(t, kind, to, d, checks) ==
  /\ req[t] = None
  /\ view[t] # None
  /\ BelowBound(view[t].app)
  /\ kind # "transition" => to = view[t].row.status
  /\ kind # "update"     => d = view[t].row.details
  /\ kind = "destroy"    => ~checks
  /\ req' = [req EXCEPT ![t] =
       [app |-> view[t].app, kind |-> kind, to |-> to, details |-> d,
        seen |-> view[t].row, checks |-> checks, at |-> "received",
        loaded |-> None, dependents |-> {}, pending |-> None]]
  /\ UNCHANGED <<Tables, view>>

-------------------------------------------------------------------------------
\* before_action :set_application
Load(t) ==
  /\ req[t] # None /\ req[t].at = "received"
  /\ IF row[req[t].app] = None
     THEN Answer(t)
     ELSE req' = [req EXCEPT ![t].loaded = row[req[t].app], ![t].at = "loaded"]
  /\ UNCHANGED <<Tables, view>>

\* assert_transition! on the loaded copy; an update may fail its validations.
Refuse(t) ==
  /\ \/ /\ At(t, "transition", "loaded")
        /\ ~assert_transition(req[t].loaded.status, req[t].to)
     \/ At(t, "update", "loaded")
  /\ Answer(t)
  /\ UNCHANGED <<Tables, view>>

\* BEGIN; UPDATE applications SET status, applied_at, lock_version WHERE ...
\* The UPDATE waits for the row lock and then tests the newest committed row.
TransitionUpdate(t) ==
  LET r == req[t]
      a == r.app
  IN  /\ At(t, "transition", "loaded")
      /\ assert_transition(r.loaded.status, r.to)
      /\ ~Locked(a)
      /\ IF Matches(r)
         THEN req' = [req EXCEPT ![t].at = "updated", ![t].pending = Moved(row[a], r.to)]
         ELSE Answer(t)
      /\ UNCHANGED <<Tables, view>>

\* Mutant: from_status is read after the save.
TransitionCommit_LateFrom(t) ==
  LET r == req[t]
      a == r.app
  IN  /\ At(t, "transition", "updated")
      /\ row'   = [row EXCEPT ![a] = r.pending]
      /\ moves' = [moves EXCEPT ![a] = Append(@, Edge(r.pending.status, r.to))]
      /\ req'   = [req EXCEPT ![t].at = "committed", ![t].pending = None]
      /\ UNCHANGED <<used, claims, view>>

\* INSERT INTO timeline_entries; COMMIT.  from_status is the in-memory record's
\* status before the save.
TransitionCommit(t) ==
  LET r == req[t]
      a == r.app
  IN  /\ At(t, "transition", "updated")
      /\ row'   = [row EXCEPT ![a] = r.pending]
      /\ moves' = [moves EXCEPT ![a] = Append(@, Edge(r.loaded.status, r.to))]
      /\ req'   = [req EXCEPT ![t].at = "committed", ![t].pending = None]
      /\ UNCHANGED <<used, claims, view>>

\* The entry's validation fails (a note over NOTE_MAX_LENGTH): ROLLBACK.
TransitionRollback(t) ==
  /\ At(t, "transition", "updated")
  /\ Answer(t)
  /\ UNCHANGED <<Tables, view>>

\* Mutant: the reload waits for the row instead of answering 404.
Reload_Waits(t) ==
  LET a == req[t].app
  IN  /\ At(t, "transition", "committed")
      /\ row[a] # None
      /\ Answer(t)
      /\ view' = [view EXCEPT ![t] = [app |-> a, row |-> row[a]]]
      /\ UNCHANGED Tables

\* The response is rendered from a reload, after the transaction.
Reload(t) ==
  LET a == req[t].app
  IN  /\ At(t, "transition", "committed")
      /\ IF row[a] = None
         THEN Answer(t) /\ view' = [view EXCEPT ![t] = None]
         ELSE Answer(t) /\ view' = [view EXCEPT ![t] = [app |-> a, row |-> row[a]]]
      /\ UNCHANGED Tables

\* The record is unchanged by the payload: no statement, so no version check either.
NothingToSave(r) == r.details = r.loaded.details /\ Expected(r) = r.loaded.version

UpdateUnchanged(t) ==
  LET r == req[t]
  IN  /\ At(t, "update", "loaded")
      /\ NothingToSave(r)
      /\ view' = [view EXCEPT ![t] = [app |-> r.app, row |-> r.loaded]]
      /\ Answer(t)
      /\ UNCHANGED Tables

\* UPDATE of the changed columns only; the response renders the in-memory record.
UpdateDetails(t) ==
  LET r == req[t]
      a == r.app
  IN  /\ At(t, "update", "loaded")
      /\ ~NothingToSave(r)
      /\ ~Locked(a)
      /\ IF Matches(r)
         THEN /\ row'  = [row EXCEPT ![a] = Edited(row[a], r.details, row[a].version)]
              /\ view' = [view EXCEPT ![t] =
                   [app |-> a, row |-> Edited(r.loaded, r.details, Expected(r))]]
              /\ Answer(t)
         ELSE UNCHANGED <<row, view>> /\ Answer(t)
      /\ UNCHANGED <<used, moves, claims>>

\* dependent: :destroy reads the timeline entries and deletes them one by one.  The
\* stage changes among them need no snapshot: they come with a new lock_version.
DestroyDependents(t) ==
  /\ At(t, "destroy", "loaded")
  /\ req' = [req EXCEPT ![t].at = "dependents", ![t].dependents = claims[req[t].app]]
  /\ UNCHANGED <<Tables, view>>

\* DELETE FROM applications WHERE id AND lock_version; COMMIT.  An entry inserted
\* since the read keeps its foreign key, and the whole transaction rolls back.
DestroyRow(t) ==
  LET r == req[t]
      a == r.app
  IN  /\ At(t, "destroy", "dependents")
      /\ ~Locked(a)
      /\ IF ~Matches(r)
         THEN UNCHANGED <<Tables, view>> /\ Answer(t)
         ELSE IF claims[a] # r.dependents
         THEN UNCHANGED <<Tables, view>> /\ Answer(t)
         ELSE /\ row'    = [row EXCEPT ![a] = None]
              /\ moves'  = [moves EXCEPT ![a] = <<>>]
              /\ claims' = [claims EXCEPT ![a] = {}]
              /\ view'   = [view EXCEPT ![t] = None]
              /\ Answer(t)
              /\ UNCHANGED used

\* FollowUpReminderJob#claim: one autocommitted INSERT.  It takes a key-share lock on
\* the row, which an UPDATE of other columns does not block.
ClaimReminder(a, k) ==
  /\ row[a] # None
  /\ k \notin claims[a]
  /\ claims' = [claims EXCEPT ![a] = @ \cup {k}]
  /\ UNCHANGED <<row, used, moves, view, req>>

\* A deploy or a crash of the one process: open transactions roll back, and no tab
\* learns what became of its request.
Restart ==
  /\ \E t \in Tabs : req[t] # None
  /\ req' = [t \in Tabs |-> None]
  /\ UNCHANGED <<Tables, view>>

Serve(t) == \/ Load(t) \/ Refuse(t)
            \/ TransitionUpdate(t) \/ TransitionCommit(t) \/ TransitionRollback(t)
            \/ Reload(t)
            \/ UpdateUnchanged(t) \/ UpdateDetails(t)
            \/ DestroyDependents(t) \/ DestroyRow(t)

User(t) == \/ \E a \in Apps : \/ Fetch(t, a)
                              \/ \E s \in ENTRY_STATES, d \in Details : Create(t, a, s, d)
           \/ \E kind \in Kinds, to \in VALID_STATES, d \in Details, checks \in BOOLEAN :
                Send(t, kind, to, d, checks)

Next == \/ \E t \in Tabs : User(t) \/ Serve(t)
        \/ \E a \in Apps, k \in ReminderKeys : ClaimReminder(a, k)
        \/ Restart

Spec == Init /\ [][Next]_vars

\* Puma finishes what it started unless the process dies (weak fairness), and Postgres
\* serves the waiters of a row lock in order (strong fairness of the statements that
\* wait).  Users, the reminder job and restarts owe nothing.
FairSpec ==
  /\ Spec
  /\ \A t \in Tabs : /\ WF_vars(Serve(t))
                     /\ SF_vars(TransitionUpdate(t))
                     /\ SF_vars(UpdateDetails(t))
                     /\ SF_vars(DestroyRow(t))
-------------------------------------------------------------------------------
\* A request past set_application has a record, and one that holds a row lock is a
\* transition with a written row.
RequestShape(r) == /\ r \in Request
                   /\ r.at # "received" => r.loaded # None
                   /\ r.at = "updated" => r.kind = "transition" /\ r.pending # None

\* The committed tables and every record in flight are well formed.
TypeOK ==
  /\ row    \in [Apps -> Row \cup {None}]
  /\ used   \subseteq Apps
  /\ moves  \in [Apps -> Seq([from: VALID_STATES, to: VALID_STATES])]
  /\ claims \in [Apps -> SUBSET ReminderKeys]
  /\ view   \in [Tabs -> View \cup {None}]
  /\ req    \in [Tabs -> Request \cup {None}]
  /\ \A t \in Tabs : req[t] # None => RequestShape(req[t])

Status == [a \in Apps |-> IF row[a] = None THEN "none" ELSE row[a].status]

\* The abstract specification this module implements.
Trail == INSTANCE AuditTrail WITH status <- Status, trail <- moves

\* Through every interleaving of requests, the committed status and the committed
\* stage changes move as the abstract audit trail does: together, one legal edge at a
\* time (TransitionService#call inside its transaction, under optimistic locking).
ImplementsAuditTrail == Trail!Spec

\* The same promise read off a state: replaying a row's stage changes reaches its
\* current status, whatever requests raced to write them.
TrailExplainsStatus == Trail!TrailExplainsStatus

\* A record copy whose lock_version is the current one is the current row, column for
\* column; otherwise it is older.  This is what makes lock_version stand for the row.
IsCopy(a, r) ==
  /\ a \in used
  /\ row[a] # None => /\ r.version <= row[a].version
                      /\ (r.version = row[a].version => r = row[a])

HonestView(v) == v # None => IsCopy(v.app, v.row)

HonestRequest(r) ==
  r # None => /\ IsCopy(r.app, r.seen)
              /\ r.loaded # None => /\ IsCopy(r.app, r.loaded)
                                    /\ r.seen.version <= r.loaded.version

\* Every copy a tab renders (after a show, a create, an update rendered from memory or
\* a transition rendered from a reload) and every record a request holds is an honest
\* copy, so a later request that carries its lock_version is judged correctly.
CopiesAreHonest == \A t \in Tabs : HonestView(view[t]) /\ HonestRequest(req[t])

Holds(t) == req[t] # None /\ req[t].at = "updated"

\* An open transaction is alone on its row: what is committed stays what it loaded and
\* what its user saw, and what it will commit is one legal move of exactly that.
TransactionsAreIsolated ==
  \A t \in Tabs : Holds(t) =>
    /\ row[req[t].app] = req[t].loaded
    /\ req[t].checks => req[t].seen = req[t].loaded
    /\ req[t].pending = Moved(req[t].loaded, req[t].to)
    /\ assert_transition(req[t].loaded.status, req[t].to)
    /\ \A u \in Tabs : Holds(u) /\ req[u].app = req[t].app => u = t

\* Ids come from the sequence: no row before its create.
RowsAreUsed == \A a \in Apps \ used : row[a] = None

\* The inductive invariant behind the safety properties.
IInv == TypeOK /\ RowsAreUsed /\ CopiesAreHonest /\ TransactionsAreIsolated

WentThroughApplied(a) ==
  \/ moves[a] = <<>> /\ row[a].status = "applied"
  \/ \E i \in 1..Len(moves[a]) : "applied" \in {moves[a][i].from, moves[a][i].to}

\* applied_at "is written exactly when an application becomes one ... and never
\* cleared" (DashboardController#outcome_rates): it is set on a row exactly when the
\* row was created as applied or its trail passes through applied.
AppliedAtMatchesTrail ==
  \A a \in Apps : row[a] # None => (row[a].applied <=> WentThroughApplied(a))

ADVANCED_STATES == {"phone_screen", "technical", "final_round", "offer"}
RESPONSE_STATES == ADVANCED_STATES \cup {"rejected"}

\* Each application in the numerator of a dashboard rate (a response, an advance or a
\* ghosting in its trail) is in the denominator (applied_at is set): no rate passes
\* 100%.
RatesAreFractions ==
  \A a \in Apps : \A i \in 1..Len(moves[a]) :
    moves[a][i].to \in RESPONSE_STATES \cup {"ghosted"} => row[a].applied

\* Request t commits a change of its row in this step.
Writes(t) == /\ req[t] # None
             /\ req'[t] # req[t]
             /\ row'[req[t].app] # row[req[t].app]

\* A write that carries a lock_version lands only on the row the user was looking at,
\* and a write that carries none lands only on the row the request loaded: nothing
\* committed in between is overwritten.
NoSilentOverwrite ==
  [][\A t \in Tabs : Writes(t) =>
       /\ row[req[t].app] = req[t].loaded
       /\ (req[t].checks => row[req[t].app] = req[t].seen)]_vars

\* The stages a tab offers for the row it renders are exactly the moves the API
\* accepts from that row's status: no button is refused, no legal move is hidden.
OffersAreTheLegalMoves ==
  \A t \in Tabs : view[t] # None =>
    valid_next_states(view[t].row.status) =
      { to \in VALID_STATES : assert_transition(view[t].row.status, to) }

\* Every request is answered or lost to a restart: no request waits on a row lock for
\* ever, and no order of transactions on one row blocks the others.
RequestsEnd == \A t \in Tabs : req[t] # None ~> req[t] = None
===============================================================================
