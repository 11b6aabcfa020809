--------------------------- MODULE ApplicationsList ----------------------------
(***************************************************************************)
(* The dashboard's list in one tab: filters, search box, cursor pages and  *)
(* the address that mirrors them, over requests that overlap, fail and     *)
(* come back in any order, while the rows change elsewhere; and the pins   *)
(* the tabs of the browser share.                                          *)
(***************************************************************************)
EXTENDS ApplicationFSM, Pins, SequencesExt

CONSTANTS
  None,
  Limit,         \* rows per page (10)
  MaxId,         \* bound: applications ever created
  Stages,        \* bound: stages other tabs move them to
  Tables,        \* bound: the table when the page is opened
  Company, Source, Level,         \* attributes of an application, by id
  Companies, Sources, Levels,     \* bound: those the user picks in the selects
  Terms,         \* bound: search terms the user enters
  Mentions,      \* the ids each term finds
  Transitions,   \* bound: the active stages /transitions names, {} when it fails
  Pinnable,      \* bound: applications whose pin is pressed
  Junk,          \* bound: what an earlier build may have left in local storage
  MaxTickets,    \* bound: requests under way at once, and after them
  MaxWrites,     \* bound: writes of other tabs
  Outages        \* bound: whether requests may fail

Ids == 1..MaxId

ASSUME ListAssumption ==
  /\ Limit \in Nat \ {0} /\ MaxId \in Nat
  /\ Stages \subseteq VALID_STATES /\ None \notin VALID_STATES \cup Terms
  /\ None \notin Nat /\ \A S \in SUBSET VALID_STATES : None # S
  /\ Tables \subseteq [Ids -> VALID_STATES \cup {None}]
  /\ None \notin { Company[i] : i \in Ids } \cup { Source[i] : i \in Ids }
  /\ Mentions \in [Terms -> SUBSET Ids]
  /\ Transitions \subseteq {ACTIVE_STATES, {}}
  /\ Pinnable \subseteq Ids /\ Junk \subseteq Seq(Nat)
  /\ MaxTickets \in Nat /\ MaxWrites \in Nat /\ Outages \in BOOLEAN

VARIABLES
  stage,      \* the table: the stage of every application, None when there is none
  born,       \* ids given out
  writes,     \* writes of other tabs
  active,     \* props of the last server render: the active stages, {} if not fetched,
  listed,     \*   and the rows its chips, options and counts are made of
  filters, items, next, loading, box,  \* state of the component
  seq,        \* the newest ticket
  requests,   \* requests on their way
  url,        \* the address: the query the filters were mirrored into
  stored,     \* local storage: the raw list of pinned ids
  asOf        \* history: writes when the first page was read, or None when that page was
              \* read for other stages than the chips claim
table  == <<stage, born, writes>>
props  == <<active, listed>>
view   == <<filters, items, next>>
vars   == <<table, props, view, box, loading, seq, requests, url, stored, asOf>>

Row(i)   == [id |-> i, stage |-> stage[i]]
Existing == { i \in Ids : stage[i] # None }
rendered == { r.stage : r \in listed }
Current  == { Row(i) : i \in { j \in Existing : stage[j] # "archived" } }

-------------------------------------------------------------------------------
\* The queries.

Filters == [statuses: SUBSET VALID_STATES, company: Companies \cup {None},
            source: Sources \cup {None}, level: Levels \cup {None}, q: Terms \cup {None}]

\* filter_by_status reads an empty list as no filter.
Finds(f, i) ==
  /\ f.statuses = {} \/ stage[i] \in f.statuses
  /\ f.company \in {None, Company[i]}
  /\ f.source  \in {None, Source[i]}
  /\ f.level   \in {None, Level[i]}
  /\ f.q # None => i \in Mentions[f.q]

Wanted(f, after) == { i \in Existing : Finds(f, i) /\ (after # None => i < after) }

\* Mutant: the cursor is taken before the extra row is cut off.
ListQuery_Skips(f, after) ==
  LET found == Descending(Wanted(f, after))
      more  == Cardinality(Wanted(f, after)) > Limit
  IN  [ok   |-> TRUE,
       rows |-> [k \in 1..(IF more THEN Limit ELSE Cardinality(Wanted(f, after))) |-> Row(found[k])],
       next |-> IF more THEN found[Limit + 1] ELSE None,
       at   |-> writes]

\* Applications::ListQuery: newest first, strictly older than the cursor (ids stand for
\* creation times), one row too many to know whether there are more.
ListQuery(f, after) ==
  LET found == Descending(Wanted(f, after))
      more  == Cardinality(Wanted(f, after)) > Limit
  IN  [ok   |-> TRUE,
       rows |-> [k \in 1..(IF more THEN Limit ELSE Cardinality(Wanted(f, after))) |-> Row(found[k])],
       next |-> IF more THEN found[Limit] ELSE None,
       at   |-> writes]

STATUS_PRIORITY(s) ==
  CASE s \in {"phone_screen", "technical", "final_round", "offer"}      -> 0
    [] s \in {"accepted", "applied", "draft"}                           -> 1
    [] s \in {"wishlist", "declined", "rejected", "withdrawn"}          -> 2
    [] s \in {"ghosted", "archived"}                                    -> 3

sortByImportance(rows) ==
  Sorted(rows, [k \in DOMAIN rows |-> STATUS_PRIORITY(rows[k].stage)])

notArchived(rows) == Kept(rows, { k \in DOMAIN rows : rows[k].stage # "archived" })

activeRendered == rendered \cap active
Default(stages, actives) == IF stages \cap actives # {} THEN stages \cap actives ELSE stages
defaultStages == Default(rendered, active)
noFilters == [statuses |-> defaultStages, company |-> None, source |-> None,
              level |-> None, q |-> None]

noStages == rendered # {} /\ filters.statuses = {}

-------------------------------------------------------------------------------
\* The numbers beside the options and the chips.

Key(r, dim) == CASE dim = "company" -> Company[r.id] [] dim = "source" -> Source[r.id]
                 [] dim = "level"   -> Level[r.id]   [] dim = "status" -> r.stage

\* Mutant: a facet is narrowed by its own selection too.
matchesExcept_Own(r, except) ==
  /\ \A dim \in {"company", "source", "level"} : filters[dim] \in {None, Key(r, dim)}
  /\ r.stage \in filters.statuses

matchesExcept(r, except) ==
  /\ \A dim \in {"company", "source", "level"} \ {except} : filters[dim] \in {None, Key(r, dim)}
  /\ \/ except = "status" \/ r.stage \in filters.statuses
     \/ Cardinality(filters.statuses) >= Cardinality(rendered)

countBy(dim, key) == Cardinality({ r \in listed : matchesExcept(r, dim) /\ Key(r, dim) = key })

-------------------------------------------------------------------------------
\* The page.

\* What dashboard/page.tsx asks for: the stages of the address; else the active ones, or
\* all but archived when the account has none of them; else, without /transitions, those
\* that have rows.
defaultStatus(u, stages, actives) ==
  CASE u.statuses # None -> u.statuses
    [] u.statuses = None /\ actives = {} -> stages
    [] u.statuses = None /\ actives # {} ->
         IF stages \cap actives = {} THEN VALID_STATES \ {"archived"} ELSE actives

\* What the list makes of the address: the stages it has chips for, else its default.
Claimed(u, stages, actives) ==
  IF u.statuses # None /\ stages \cap u.statuses # {} THEN stages \cap u.statuses
  ELSE Default(stages, actives)

\* The first paint of an address.
Painted(u, actives) ==
  LET stages == { r.stage : r \in Current }
      page   == ListQuery([u EXCEPT !.statuses = defaultStatus(u, stages, actives)], None)
  IN  [filters |-> [u EXCEPT !.statuses = Claimed(u, stages, actives)],
       items   |-> sortByImportance(notArchived(page.rows)),
       next    |-> page.next,
       asOf    |-> IF u.statuses = None \/ stages \cap u.statuses # {} THEN page.at ELSE None]

Bare == [statuses |-> None, company |-> None, source |-> None, level |-> None, q |-> None]

Init ==
  /\ stage \in Tables /\ born = Cardinality(Existing)
  /\ writes = 0
  /\ active \in Transitions /\ listed = Current
  /\ LET p == Painted(Bare, active)
     IN  filters = p.filters /\ items = p.items /\ next = p.next /\ asOf = p.asOf
  /\ box = None /\ url = Bare
  /\ loading = FALSE /\ seq = 0 /\ requests = {}
  /\ stored \in Junk

\* The address is opened again: a reload, or the way back from another page.
Reload ==
  /\ active' \in Transitions /\ listed' = Current
  /\ LET p == Painted(url, active')
     IN  filters' = p.filters /\ items' = p.items /\ next' = p.next /\ asOf' = p.asOf
  /\ box' = url.q
  /\ loading' = FALSE /\ seq' = 0 /\ requests' = {}
  /\ UNCHANGED <<table, url, stored>>

-------------------------------------------------------------------------------
\* Filtering.  Every handler starts from the filters applied at the last render.

\* The default view, and the one that shows nothing, keep a bare address.  The router
\* commits the address together with a new server render of the page, whose props reach
\* the same component.
syncUrl(f, default) ==
  /\ url' = [f EXCEPT !.statuses = IF @ \in {{}, default} THEN None ELSE @]
  /\ active' \in Transitions /\ listed' = Current

Request(f, after) ==
  /\ seq < MaxTickets
  /\ seq' = seq + 1
  /\ loading' = TRUE
  /\ requests' = requests \cup {[ticket |-> seq', for |-> f, default |-> defaultStages,
                                 after |-> after, answer |-> None]}

applyFilters(f) ==
  /\ IF f.statuses = {}
     THEN /\ filters' = f /\ syncUrl(f, defaultStages)
          /\ UNCHANGED <<loading, seq, requests>>
     ELSE /\ Request(f, None)
          /\ UNCHANGED <<filters, url, props>>
  /\ UNCHANGED <<table, items, next, stored, asOf>>

toggleStatus(s) ==
  /\ applyFilters([filters EXCEPT !.statuses = IF s \in @ THEN @ \ {s} ELSE rendered \cap (@ \cup {s})])
  /\ UNCHANGED box

\* All, Active and None, and the way out of None.
Preset ==
  /\ \E stages \in {rendered, activeRendered, {}} :
       /\ stages = activeRendered => activeRendered # {}
       /\ applyFilters([filters EXCEPT !.statuses = stages])
  /\ UNCHANGED box

\* Filtering by what no row has together with the other filter drops the other one.
Together(c, s) == \E r \in listed : Company[r.id] = c /\ Source[r.id] = s

changeCompany(c) ==
  /\ applyFilters([filters EXCEPT !.company = c,
       !.source = IF c # None /\ @ # None /\ ~Together(c, @) THEN None ELSE @])
  /\ UNCHANGED box

changeSource(s) ==
  /\ applyFilters([filters EXCEPT !.source = s,
       !.company = IF s # None /\ @ # None /\ ~Together(@, s) THEN None ELSE @])
  /\ UNCHANGED box

changeLevel(l) ==
  /\ applyFilters([filters EXCEPT !.level = l])
  /\ UNCHANGED box

\* Typing waits for Enter ...
Type(term) ==
  /\ box # term /\ box' = term
  /\ UNCHANGED <<table, props, view, loading, seq, requests, url, stored, asOf>>

submitSearch == applyFilters([filters EXCEPT !.q = box]) /\ UNCHANGED box

\* ... and emptying the box does not.
ClearBox ==
  /\ box # None /\ box' = None
  /\ IF filters.q # None THEN applyFilters([filters EXCEPT !.q = None])
     ELSE UNCHANGED <<table, props, view, loading, seq, requests, url, stored, asOf>>

hasActiveFilter == filters # noFilters

clearAllFilters ==
  /\ hasActiveFilter /\ ~loading
  /\ box' = None
  /\ applyFilters(noFilters)

loadMore ==
  /\ ~noStages /\ next # None /\ ~loading
  /\ Request(filters, next)
  /\ UNCHANGED <<table, props, view, box, url, stored, asOf>>

-------------------------------------------------------------------------------
\* Answers.

Answered(r, answer) == requests' = (requests \ {r}) \cup {[r EXCEPT !.answer = answer]}

\* The API reads the rows, at any moment between the request and its answer.
Serve(r) ==
  /\ r.answer = None
  /\ Answered(r, ListQuery(r.for, r.after))
  /\ UNCHANGED <<table, props, view, box, loading, seq, url, stored, asOf>>

\* A status of 400 or above, or a fetch that rejects.
Fail(r) ==
  /\ r.answer = None /\ Outages
  /\ Answered(r, [ok |-> FALSE])
  /\ UNCHANGED <<table, props, view, box, loading, seq, url, stored, asOf>>

\* Mutant: the count starts over with every answer.
Done_Restart(r) ==
  /\ requests' = requests \ {r}
  /\ seq' = 0

\* Tickets are only compared with those under way, so their count starts over with none.
Done(r) ==
  /\ requests' = requests \ {r}
  /\ seq' = IF requests' = {} THEN 0 ELSE seq

\* Mutant: any answer may write.
Newest_Any(r) == TRUE

Newest(r) == r.ticket = seq

\* Mutant: any answer ends the loading.
Drop_Stops(r) ==
  /\ r.answer # None /\ ~Newest(r)
  /\ Done(r)
  /\ loading' = FALSE
  /\ UNCHANGED <<table, props, view, box, url, stored, asOf>>

\* An answer of an older request is dropped.
Drop(r) ==
  /\ r.answer # None /\ ~Newest(r)
  /\ Done(r)
  /\ UNCHANGED <<table, props, view, box, loading, url, stored, asOf>>

Land(r) ==
  /\ r.answer # None /\ Newest(r)
  /\ Done(r)
  /\ loading' = FALSE
  /\ UNCHANGED <<table, box, stored>>

\* The error toast; the filters stay as they were.
Toast(r) ==
  /\ Land(r) /\ ~r.answer.ok
  /\ UNCHANGED <<view, url, props, asOf>>

\* The first page of other filters.
ShowPage(r) ==
  /\ Land(r) /\ r.answer.ok /\ r.after = None
  /\ filters' = r.for /\ syncUrl(r.for, r.default)
  /\ items' = sortByImportance(notArchived(r.answer.rows))
  /\ next' = r.answer.next
  /\ asOf' = r.answer.at

\* Mutant: the accumulated list is sorted again.
Appended_Sorted(rows) == sortByImportance(items \o notArchived(rows))

\* In the order of the server.
Appended(rows) == items \o notArchived(rows)

AppendPage(r) ==
  /\ Land(r) /\ r.answer.ok /\ r.after # None
  /\ items' = Appended(r.answer.rows)
  /\ next' = r.answer.next
  /\ UNCHANGED <<filters, url, props, asOf>>

-------------------------------------------------------------------------------
\* Pins, and other tabs.

pins  == parsePins(stored)
Shown == IF noStages THEN <<>> ELSE sortPinnedFirst(items, pins)

\* A pin button: of a row shown here, or of another tab's list.  Local storage may refuse.
onPinToggle(id) ==
  /\ id \in Existing \cup { Shown[k].id : k \in DOMAIN Shown }
  /\ ~Full(pins, id) /\ stored' = togglePin(pins, id)
  /\ UNCHANGED <<table, props, view, box, loading, seq, requests, url, asOf>>

\* The way out of pins whose rows are not shown, under a list that shows some.
clearPins ==
  /\ Shown # <<>> /\ hiddenPins(items, pins) # {}
  /\ stored' = <<>>
  /\ UNCHANGED <<table, props, view, box, loading, seq, requests, url, asOf>>

Write ==
  /\ writes < MaxWrites /\ writes' = writes + 1
  /\ \/ \E i \in Existing, s \in Stages \cup {None} :
          s # stage[i] /\ stage' = [stage EXCEPT ![i] = s] /\ UNCHANGED born
     \/ \E s \in Stages :
          born < MaxId /\ born' = born + 1 /\ stage' = [stage EXCEPT ![born'] = s]
  /\ UNCHANGED <<props, view, box, loading, seq, requests, url, stored, asOf>>

Next ==
  \/ Reload
  \/ \E s \in rendered : toggleStatus(s)
  \/ Preset
  \/ \E c \in Companies \cup {None} : changeCompany(c)
  \/ \E s \in Sources \cup {None} : changeSource(s)
  \/ \E l \in Levels \cup {None} : changeLevel(l)
  \/ \E term \in Terms : Type(term)
  \/ submitSearch \/ ClearBox \/ clearAllFilters \/ loadMore
  \/ \E r \in requests : Serve(r) \/ Fail(r) \/ Drop(r) \/ Toast(r) \/ ShowPage(r) \/ AppendPage(r)
  \/ \E id \in Pinnable : onPinToggle(id)
  \/ clearPins
  \/ Write

Spec == Init /\ [][Next]_vars

-------------------------------------------------------------------------------
Rows == [id: Ids, stage: VALID_STATES]

\* Everything keeps its type.
TypeOK ==
  /\ stage \in [Ids -> VALID_STATES \cup {None}]
  /\ filters \in Filters
  /\ \A r \in listed : r \in Rows /\ r.stage # "archived"
  /\ \A k \in DOMAIN items : items[k] \in Rows /\ items[k].stage # "archived"
  /\ next \in Ids \cup {None}
  /\ box \in Terms \cup {None}
  /\ \A r \in requests : r.ticket <= seq
  /\ \A k \in DOMAIN stored : stored[k] \in Nat

\* The list holds rows of one result set, each once: whatever order answers come back in
\* and whatever other tabs write, no row is listed that the filters beside it rule out and
\* no row twice (applications-list.tsx:220-222, 262-264; ListQuery's cursor).
OneResultSet ==
  /\ filters.statuses # {} => \A k \in DOMAIN items : items[k].stage \in filters.statuses
  /\ \A j, k \in DOMAIN items : items[j].id = items[k].id => j = k

\* Pages have no gap: as long as no other tab has written since the first page was read,
\* the list is the newest rows of the filters, down to the cursor, and all of them when there
\* is none (ListQuery, page.tsx:65-90).
PagesHaveNoGaps ==
  asOf = writes /\ filters.statuses # {} =>
    { items[k] : k \in DOMAIN items }
      = { Row(i) : i \in { j \in Existing : Finds(filters, j) /\ (next # None => j >= next) } }

\* Every number on a chip or in a select is the number of rows that picking it alone finds,
\* the server's rules and the page's facets being two programs, as long as the page knows
\* the rows there are and the stages it filters by (applications-list.tsx:305-346).
CountsAreHonest ==
  listed = Current /\ filters.q = None /\ filters.statuses # {} /\ filters.statuses \subseteq rendered =>
    \A i \in { r.id : r \in listed } :
      LET Found(f) == Cardinality({ j \in Existing : Finds(f, j) })
      IN  /\ countBy("company", Company[i]) = Found([filters EXCEPT !.company = Company[i]])
          /\ countBy("source", Source[i])   = Found([filters EXCEPT !.source = Source[i]])
          /\ Level[i] # None =>
               countBy("level", Level[i])   = Found([filters EXCEPT !.level = Level[i]])
          /\ countBy("status", stage[i])    = Found([filters EXCEPT !.statuses = {stage[i]}])

Loosened(list, fixed) == Kept(list, { k \in DOMAIN list : list[k].id \notin fixed })

\* The rows of no pin, before or after, stay in front in their order.
Unmoved ==
  \E was \in {Shown}, now \in {sortPinnedFirst(items', pins')},
     fixed \in {Pinned(pins) \cup Pinned(pins')} :
       IsPrefix(Loosened(was, fixed), Loosened(now, fixed))

\* Rows the user is reading do not move: until another first page is shown, pages come
\* behind what is there and a pin moves only its own row (applications-list.tsx:49-53,
\* pins.ts:75-82).
NothingMoves ==
  [][\/ noStages' \/ Unmoved
     \/ Reload \/ \E r \in requests : ShowPage(r)]_<<items, stored, filters, listed>>

\* The list is dimmed for as long as the newest request is under way and no longer,
\* whichever older answers are dropped or fail meanwhile, and after Show none: it neither
\* stays dimmed for good nor offers "Load more" over an answer yet to come
\* (applications-list.tsx:241-244, 257).
LoadingMeansWaiting == loading <=> \E r \in requests : Newest(r)
===============================================================================
