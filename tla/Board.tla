--------------------------------- MODULE Board ---------------------------------
(***************************************************************************)
(* One tab on /board: the fetched applications, the optimistic moves shown *)
(* over them, dragging, the card menu, and the browser's queue of server   *)
(* actions, while other tabs move the same rows.                           *)
(***************************************************************************)
EXTENDS ApplicationApi, Sequences

CONSTANTS
  Apps,         \* the user's applications
  Starts,       \* stages they may be in when the board opens
  MaxVersion,   \* bound: no write is started that could pass this lock_version
  MaxQueue      \* bound: actions and refreshes the browser holds at once

ASSUME BoardAssumption ==
  /\ None \notin Apps \cup VALID_STATES
  /\ Starts \subseteq VALID_STATES
  /\ MaxVersion \in Nat
  /\ MaxQueue \in Nat

VARIABLES
  rows,      \* the applications table
  base,      \* the list of the last render; None when the page shows its error
  overlay,   \* useOptimistic: the stage each moved card shows instead
  dragging,  \* the card picked up and the stage it showed then
  menu,      \* the one open card menu
  queue,     \* server actions and refreshes the tab still has to run, in order
  told,      \* history: the version the last 200 or 409 spoke of, by row
  behind     \* history: rows changed since the last render by anything but this
             \* tab's answered moves
vars == <<rows, base, overlay, dragging, menu, queue, told, behind>>

Row  == [status: VALID_STATES, version: Nat]
Drag == [id: Apps, from: ACTIVE_STATES]
Menu == [id: Apps, confirming: VALID_STATES \cup {None}, reason: BOOLEAN]

\* saw, alone and met are history: the fetched row and whether the board was up to
\* date and idle on it at the gesture, and the row an accepted move met.
Move == [id: Apps, to: VALID_STATES, note: BOOLEAN, saw: Row, alone: BOOLEAN,
         answer: {0, Ok, NotFound, Conflict, Invalid, Unavailable},
         met: Row \cup {None}]
refresh == [kind |-> "refresh"]
Job     == Move \cup {refresh}

Still == [a \in Apps |-> None]

Init == /\ rows \in [Apps -> { [status |-> s, version |-> 0] : s \in Starts }]
        /\ base = rows
        /\ overlay  = Still
        /\ dragging = None
        /\ menu     = None
        /\ queue    = <<>>
        /\ told     = [a \in Apps |-> 0]
        /\ behind   = {}

-------------------------------------------------------------------------------
\* What the board shows.

Listed(a) == base # None /\ base[a] # None
Shown(a)  == IF overlay[a] # None THEN overlay[a] ELSE base[a].status

Moving(a, q)   == \E i \in DOMAIN q : q[i] # refresh /\ q[i].id = a
AnyMoving(q)   == \E i \in DOMAIN q : q[i] # refresh

columns == ACTIVE_STATES

\* Only a stage's own column lights up, and never the one the drag came from.
isLegalTarget(c) == /\ dragging # None
                    /\ dragging.from # c
                    /\ c \in valid_next_states(dragging.from)

\* A card that changes column is a new <Card>: its menu closes.
Remount(base2, overlay2) ==
  menu' = IF menu # None /\ (base2 = None \/ base2[menu.id] = None
                             \/ Shown(menu.id) # (IF overlay2[menu.id] # None
                                                  THEN overlay2[menu.id]
                                                  ELSE base2[menu.id].status))
          THEN None ELSE menu

-------------------------------------------------------------------------------
\* Exploration bounds, not in the code.
Room(a) == /\ Len(queue) < MaxQueue
           /\ rows[a] # None => rows[a].version + Len(queue) < MaxVersion

\* move: shown at once, sent with the lock_version of the fetched row.
move(a, to, note) ==
  /\ Room(a)
  /\ overlay' = [overlay EXCEPT ![a] = to]
  /\ queue' = Append(queue, [id |-> a, to |-> to, note |-> note, saw |-> base[a],
                             alone |-> a \notin behind /\ ~Moving(a, queue),
                             answer |-> 0, met |-> None])
  /\ UNCHANGED <<rows, base, told, behind>>

\* Cards of the active columns can be picked up.
onDragStart(a) ==
  /\ Listed(a) /\ dragging = None /\ menu = None
  /\ Shown(a) \in columns
  /\ dragging' = [id |-> a, from |-> Shown(a)]
  /\ UNCHANGED <<rows, base, overlay, menu, queue, told, behind>>

onDragEnd ==
  /\ dragging # None
  /\ dragging' = None
  /\ UNCHANGED <<rows, base, overlay, menu, queue, told, behind>>

\* The legality is the dragged stage's, the application the one now in the list.
onDrop(c) ==
  /\ c \in columns
  /\ isLegalTarget(c)
  /\ dragging' = None
  /\ IF Listed(dragging.id)
     THEN move(dragging.id, c, FALSE)
     ELSE UNCHANGED <<rows, base, overlay, queue, told, behind>>
  /\ UNCHANGED menu

\* The trigger of a card; closing is Escape, a click on the trigger or losing focus.
setOpen(a) ==
  /\ Listed(a) /\ menu = None /\ dragging = None
  /\ valid_next_states(Shown(a)) # {}
  /\ menu' = [id |-> a, confirming |-> None, reason |-> FALSE]
  /\ UNCHANGED <<rows, base, overlay, dragging, queue, told, behind>>

close ==
  /\ menu # None
  /\ menu' = None
  /\ UNCHANGED <<rows, base, overlay, dragging, queue, told, behind>>

isRevival(a) == canRevive(Shown(a), TRUE)

pick(to) ==
  /\ menu # None /\ menu.confirming = None
  /\ to \in valid_next_states(Shown(menu.id))
  /\ IF isRevival(menu.id) /\ to = "applied"
     THEN /\ menu' = [menu EXCEPT !.confirming = to, !.reason = FALSE]
          /\ UNCHANGED <<rows, base, overlay, queue, told, behind>>
     ELSE IF to \in CONFIRM_REQUIRED
     THEN /\ menu' = [menu EXCEPT !.confirming = to]
          /\ UNCHANGED <<rows, base, overlay, queue, told, behind>>
     ELSE menu' = None /\ move(menu.id, to, FALSE)
  /\ UNCHANGED dragging

\* Escaping the confirmation alone; the reason stays.
cancelConfirm ==
  /\ menu # None /\ menu.confirming # None
  /\ menu' = [menu EXCEPT !.confirming = None]
  /\ UNCHANGED <<rows, base, overlay, dragging, queue, told, behind>>

setReason(b) ==
  /\ menu # None /\ menu.confirming = "applied" /\ isRevival(menu.id)
  /\ menu' = [menu EXCEPT !.reason = b]
  /\ UNCHANGED <<rows, base, overlay, dragging, queue, told, behind>>

confirm ==
  /\ menu # None /\ menu.confirming # None
  /\ LET revival == menu.confirming = "applied" /\ isRevival(menu.id)
     IN  /\ revival => menu.reason
         /\ move(menu.id, menu.confirming, revival)
  /\ menu' = None
  /\ UNCHANGED dragging

-------------------------------------------------------------------------------
\* Mutant: the version is read when the request leaves.
Version_Late(job) == IF Listed(job.id) THEN base[job.id].version ELSE job.saw.version

Version(job) == job.saw.version

Reply(job, x) == [job EXCEPT !.answer = x, !.met = IF x = Ok THEN rows[job.id] ELSE None]

\* transitionStatus, up to the API's answer or the ten seconds apiFetch waits for it.
Serve ==
  /\ queue # <<>>
  /\ LET job     == Head(queue)
         a       == job.id
         answers == TransitionAnswers(rows[a], job.to, Version(job))
         moved   == [rows EXCEPT ![a] = [status |-> job.to, version |-> rows[a].version + 1]]
     IN  /\ job # refresh /\ job.answer = 0
         /\ \E x \in apiFetch(answers) :
              /\ \/ x = Ok /\ rows' = moved /\ UNCHANGED behind
                 \/ x = Unavailable /\ Ok \in answers /\ rows' = moved /\ behind' = behind \cup {a}
                 \/ x # Ok /\ UNCHANGED <<rows, behind>>
              /\ queue' = [queue EXCEPT ![1] = Reply(job, x)]
              /\ told'  = CASE x = Ok       -> [told EXCEPT ![a] = rows'[a].version]
                            [] x = Conflict -> [told EXCEPT ![a] = rows[a].version]
                            [] OTHER        -> told
  /\ UNCHANGED <<base, overlay, dragging, menu>>

\* The optimistic view lasts until no move is under way.
Kept(q) == IF AnyMoving(q) THEN overlay ELSE Still

\* Render rows over the moves still under way, or the page's error: everything
\* unmounts.
Render(q) ==
  \/ /\ base'    = rows
     /\ overlay' = Kept(q)
     /\ Remount(rows, Kept(q))
     /\ behind'  = {}
     /\ UNCHANGED dragging
  \/ /\ base'     = None
     /\ overlay'  = Still
     /\ menu'     = None
     /\ dragging' = None
     /\ UNCHANGED behind

\* Mutant: the board is not among the paths a transition revalidates.
Revalidates_DetailOnly(job) == FALSE

\* revalidateApplication: an accepted move's answer carries the page rendered anew.
Revalidates(job) == job.answer = Ok

\* Mutant: a 409 is toasted and that is all.
Refreshes_Never(job) == FALSE

Refreshes(job) == job.answer = Conflict

\* A refused move ends with its card where the fetched list has it, once no other move
\* is under way.
Settle ==
  /\ queue # <<>> /\ Head(queue) # refresh /\ Head(queue).answer # 0
  /\ LET job  == Head(queue)
         rest == IF Refreshes(job) THEN Append(Tail(queue), refresh) ELSE Tail(queue)
     IN  /\ queue' = rest
         /\ IF Revalidates(job)
            THEN Render(rest)
            ELSE /\ overlay' = Kept(rest)
                 /\ IF base = None THEN UNCHANGED menu ELSE Remount(base, Kept(rest))
                 /\ UNCHANGED <<base, dragging, behind>>
  /\ UNCHANGED <<rows, told>>

\* router.refresh()
Refresh ==
  /\ queue # <<>> /\ Head(queue) = refresh
  /\ queue' = Tail(queue)
  /\ Render(Tail(queue))
  /\ UNCHANGED <<rows, told>>

-------------------------------------------------------------------------------
\* Other tabs, the detail page and the API's own jobs.
Elsewhere(a) ==
  /\ rows[a] # None
  /\ \/ /\ Room(a)
        /\ \E to \in valid_next_states(rows[a].status) :
             rows' = [rows EXCEPT ![a] = [status |-> to, version |-> rows[a].version + 1]]
     \/ rows' = [rows EXCEPT ![a] = None]
  /\ behind' = behind \cup {a}
  /\ UNCHANGED <<base, overlay, dragging, menu, queue, told>>

User == \/ \E a \in Apps : onDragStart(a) \/ setOpen(a)
        \/ \E s \in VALID_STATES : onDrop(s) \/ pick(s)
        \/ onDragEnd \/ close \/ cancelConfirm \/ confirm
        \/ \E b \in BOOLEAN : setReason(b)

Next == User \/ Serve \/ Settle \/ Refresh \/ \E a \in Apps : Elsewhere(a)

Spec == Init /\ [][Next]_vars

\* As for the detail page: the browser works its queue off, users owe nothing.
FairSpec == Spec /\ WF_vars(Serve) /\ WF_vars(Settle) /\ WF_vars(Refresh)

-------------------------------------------------------------------------------
\* A type invariant over everything the tab and the rows can hold; only open cards are
\* ever dragged.
TypeOK ==
  /\ rows     \in [Apps -> Row \cup {None}]
  /\ base     \in [Apps -> Row \cup {None}] \cup {None}
  /\ overlay  \in [Apps -> VALID_STATES \cup {None}]
  /\ dragging \in Drag \cup {None}
  /\ menu     \in Menu \cup {None}
  /\ queue    \in Seq(Job)
  /\ told     \in [Apps -> Nat]
  /\ behind   \subseteq Apps

Answered(x) == IF queue # <<>> /\ Head(queue) # refresh /\ Head(queue).answer = x
               THEN {Head(queue)} ELSE {}

\* An accepted move takes the row out of the stage the board had fetched for it at the
\* gesture, also when the card showed an optimistic one.
MovesLandOnTheFetchedRow == \A job \in Answered(Ok) : job.met.status = job.saw.status

\* A user who moves a card that is up to date and not being moved is never refused by
\* their own earlier moves: when a 409 comes, someone else has written, either since
\* the last render or before one that came after the gesture (board.tsx:90-92).
ConflictsHaveACause ==
  \A job \in Answered(Conflict) :
    job.alone => job.id \in behind \/ ~Listed(job.id) \/ base[job.id] # job.saw

\* Whatever version of a row an answer has told the board of, it comes to show it or a
\* later one, or the card or the board goes.
KnownVersionsAreShown == \A a \in Apps : []<>(~Listed(a) \/ base[a].version >= told[a])
===============================================================================
