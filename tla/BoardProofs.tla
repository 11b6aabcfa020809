------------------------------ MODULE BoardProofs ------------------------------
(***************************************************************************)
(* For every number of cards, every table of starting stages and every     *)
(* bound: the board's types, where accepted moves land, and what a refused *)
(* move means.                                                             *)
(***************************************************************************)
EXTENDS Board, TLAPS

-------------------------------------------------------------------------------
\* The browser's queue of server actions: what joins it at the tail, what is replaced or
\* taken at the head, and which jobs are in it afterwards.

Jobs(q) == {q[i] : i \in DOMAIN q}

\* A queue holds jobs only, and its head is one of them.
LEMMA QueueHolds ==
  ASSUME NEW S, NEW q \in Seq(S)
  PROVE  /\ Jobs(q) \subseteq S
         /\ q # <<>> => Head(q) \in Jobs(q) /\ Head(q) \in S
<1>1. DOMAIN q = 1..Len(q) /\ Len(q) \in Nat /\ \A i \in 1..Len(q) : q[i] \in S
  OBVIOUS
<1>2. q # <<>> => 1 \in DOMAIN q /\ Head(q) = q[1]
  OBVIOUS
<1> QED BY <1>1, <1>2 DEF Jobs

\* An empty queue has no jobs.
LEMMA QueueEmpty == ASSUME NEW S PROVE <<>> \in Seq(S) /\ Jobs(<<>>) = {}
BY DEF Jobs

\* A job joins at the tail.
LEMMA QueueJoin ==
  ASSUME NEW S, NEW q \in Seq(S), NEW job \in S
  PROVE  /\ Append(q, job) \in Seq(S)
         /\ Append(q, job) # <<>>
         /\ Jobs(Append(q, job)) = Jobs(q) \cup {job}
         /\ q # <<>> => Head(Append(q, job)) = Head(q)
<1>1. /\ Append(q, job) \in Seq(S)
      /\ DOMAIN q = 1..Len(q) /\ Len(q) \in Nat
      /\ DOMAIN Append(q, job) = 1..Len(q) + 1
      /\ Append(q, job)[Len(q) + 1] = job
      /\ \A i \in 1..Len(q) : Append(q, job)[i] = q[i]
  OBVIOUS
<1>2. Append(q, job) # <<>> /\ (q # <<>> => Head(Append(q, job)) = Head(q))
  <2>1. q # <<>> => 1 \in 1..Len(q) /\ Head(q) = q[1]
    OBVIOUS
  <2>2. Len(Append(q, job)) # 0 /\ Head(Append(q, job)) = Append(q, job)[1]
    BY <1>1
  <2> QED BY <1>1, <2>1, <2>2
<1> DEFINE r == Append(q, job)
<1> HIDE DEF r
<1>3. ASSUME NEW x \in Jobs(r) PROVE x \in Jobs(q) \cup {job}
  <2>1. PICK i \in DOMAIN r : x = r[i]
    BY DEF Jobs
  <2> QED BY <1>1, <2>1 DEF Jobs, r
<1>4. ASSUME NEW x \in Jobs(q) PROVE x \in Jobs(r)
  <2>1. PICK i \in DOMAIN q : x = q[i]
    BY DEF Jobs
  <2> QED BY <1>1, <2>1 DEF Jobs, r
<1>5. job \in Jobs(r)
  BY <1>1 DEF Jobs, r
<1> QED BY <1>2, <1>3, <1>4, <1>5 DEF r

\* The head leaves.
LEMMA QueueLeave ==
  ASSUME NEW S, NEW q \in Seq(S), q # <<>>
  PROVE  Tail(q) \in Seq(S) /\ Jobs(Tail(q)) \subseteq Jobs(q)
<1>1. /\ Tail(q) \in Seq(S)
      /\ DOMAIN q = 1..Len(q) /\ Len(q) \in Nat \ {0}
      /\ DOMAIN Tail(q) = 1..Len(q) - 1
      /\ \A i \in 1..Len(q) - 1 : Tail(q)[i] = q[i + 1]
  OBVIOUS
<1> DEFINE r == Tail(q)
<1>2. ASSUME NEW x \in Jobs(r) PROVE x \in Jobs(q)
  <2>1. PICK i \in DOMAIN r : x = r[i]
    BY DEF Jobs
  <2>2. i + 1 \in DOMAIN q /\ x = q[i + 1]
    BY <1>1, <2>1
  <2> QED BY <2>2 DEF Jobs
<1> QED BY <1>1, <1>2

\* The head is replaced by the same job with its answer.
LEMMA QueueAnswer ==
  ASSUME NEW S, NEW q \in Seq(S), q # <<>>, NEW job \in S
  PROVE  /\ [q EXCEPT ![1] = job] \in Seq(S)
         /\ [q EXCEPT ![1] = job] # <<>>
         /\ Head([q EXCEPT ![1] = job]) = job
         /\ Jobs([q EXCEPT ![1] = job]) \subseteq Jobs(q) \cup {job}
<1> DEFINE r == [q EXCEPT ![1] = job]
<1>1. /\ r \in Seq(S) /\ DOMAIN r = DOMAIN q /\ DOMAIN q = 1..Len(q) /\ Len(q) \in Nat \ {0}
      /\ r[1] = job /\ \A i \in DOMAIN q : i # 1 => r[i] = q[i]
  OBVIOUS
<1> HIDE DEF r
<1>2. r # <<>> /\ Head(r) = job
  BY <1>1
<1>3. ASSUME NEW x \in Jobs(r) PROVE x \in Jobs(q) \cup {job}
  <2>1. PICK i \in DOMAIN r : x = r[i]
    BY DEF Jobs
  <2> QED BY <1>1, <2>1 DEF Jobs
<1> QED BY <1>1, <1>2, <1>3 DEF r

-------------------------------------------------------------------------------
\* The stages.

\* What the table offers is a stage, and so are the board's columns.
LEMMA Stages ==
  /\ \A s \in VALID_STATES : valid_next_states(s) \subseteq VALID_STATES
  /\ ACTIVE_STATES \subseteq VALID_STATES
  /\ "applied" \in VALID_STATES
<1>1. "archived" \in VALID_STATES
  BY DEF VALID_STATES, TERMINAL_STATES
<1>2. \A s \in VALID_STATES : valid_next_states(s) \subseteq VALID_STATES
  BY <1>1 DEF valid_next_states, VALID_STATES
<1>3. ACTIVE_STATES \subseteq VALID_STATES
  BY DEF ACTIVE_STATES
<1>4. "applied" \in VALID_STATES
  <2>1. Edge("draft", "applied") \in TRANSITIONS
    BY DEF TRANSITIONS
  <2> QED BY <2>1 DEF VALID_STATES, Edge
<1> QED BY <1>2, <1>3, <1>4

\* The answers to a move are among those a job can hold, and Ok and Conflict tell of
\* the version.
LEMMA MoveAnswers ==
  ASSUME NEW r, NEW to, NEW v, NEW x \in apiFetch(TransitionAnswers(r, to, v))
  PROVE  /\ x \in {Ok, NotFound, Conflict, Invalid, Unavailable}
         /\ x = Ok => r # None /\ r.version = v
         /\ x = Conflict => r # None /\ r.version # v
         /\ Ok \in TransitionAnswers(r, to, v) => r # None
BY DEF apiFetch, TransitionAnswers, Ok, NotFound, Conflict, Invalid, Unavailable

-------------------------------------------------------------------------------
\* Types.

MenuIsListed == menu # None => Listed(menu.id)

Typed == TypeOK /\ MenuIsListed

\* The row the board has fetched for a listed card.
LEMMA ListedRow ==
  ASSUME Typed, NEW a \in Apps, Listed(a)
  PROVE  base[a] \in Row /\ Shown(a) \in VALID_STATES
<1>1. base \in [Apps -> Row \cup {None}] /\ base[a] # None
  BY DEF Typed, TypeOK, Listed
<1>2. base[a] \in Row /\ base[a].status \in VALID_STATES
  BY <1>1 DEF Row
<1>3. overlay[a] # None => overlay[a] \in VALID_STATES
  BY DEF Typed, TypeOK
<1> QED BY <1>2, <1>3 DEF Shown

\* A gesture that moves a card.
LEMMA TypeMove ==
  ASSUME Typed, NEW a \in Apps, Listed(a), NEW to \in VALID_STATES, NEW note \in BOOLEAN,
         move(a, to, note)
  PROVE  /\ queue' \in Seq(Job)
         /\ overlay' \in [Apps -> VALID_STATES \cup {None}]
         /\ UNCHANGED <<rows, base, told, behind>>
<1> DEFINE alone == a \notin behind /\ ~Moving(a, queue)
           job == [id |-> a, to |-> to, note |-> note, saw |-> base[a], alone |-> alone,
                   answer |-> 0, met |-> None]
<1>1. alone \in BOOLEAN
  OBVIOUS
<1> HIDE DEF alone
<1>2. job \in Job
  BY <1>1, ListedRow DEF Job, Move
<1>3. queue' = Append(queue, job) /\ overlay' = [overlay EXCEPT ![a] = to]
      /\ UNCHANGED <<rows, base, told, behind>>
  BY DEF move, alone
<1> HIDE DEF job
<1> QED BY <1>2, <1>3, QueueJoin DEF Typed, TypeOK

\* Every gesture keeps the types.
LEMMA TypeUser == Typed /\ User => Typed'
<1> SUFFICES ASSUME Typed, User PROVE Typed'
  OBVIOUS
<1>1. ASSUME NEW a \in Apps, onDragStart(a) PROVE Typed'
  <2>1. [id |-> a, from |-> Shown(a)] \in Drag
    BY <1>1 DEF onDragStart, Drag, columns
  <2> QED BY <1>1, <2>1 DEF onDragStart, Typed, TypeOK, MenuIsListed, Listed
<1>2. ASSUME NEW a \in Apps, setOpen(a) PROVE Typed'
  <2>1. [id |-> a, confirming |-> None, reason |-> FALSE] \in Menu
    BY DEF Menu
  <2> QED BY <1>2, <2>1 DEF setOpen, Typed, TypeOK, MenuIsListed, Listed
<1>3. ASSUME NEW c \in VALID_STATES, onDrop(c) PROVE Typed'
  <2>1. dragging # None /\ dragging.id \in Apps
    BY <1>3 DEF onDrop, isLegalTarget, Typed, TypeOK, Drag
  <2>2. CASE Listed(dragging.id) /\ move(dragging.id, c, FALSE)
    BY <1>3, <2>1, <2>2, TypeMove DEF onDrop, Typed, TypeOK, MenuIsListed, Listed
  <2>3. CASE UNCHANGED <<rows, base, overlay, queue, told, behind>>
    BY <1>3, <2>3 DEF onDrop, Typed, TypeOK, MenuIsListed, Listed
  <2> QED BY <1>3, <2>2, <2>3 DEF onDrop
<1>4. ASSUME menu # None
      PROVE  /\ menu \in Menu /\ menu.id \in Apps /\ Listed(menu.id)
             /\ menu.confirming \in VALID_STATES \cup {None}
             /\ valid_next_states(Shown(menu.id)) \subseteq VALID_STATES
  <2>1. menu \in Menu /\ menu.id \in Apps /\ Listed(menu.id)
        /\ menu.confirming \in VALID_STATES \cup {None}
    BY <1>4 DEF Typed, TypeOK, MenuIsListed, Menu
  <2> QED BY <2>1, ListedRow, Stages
<1>5. ASSUME NEW s \in VALID_STATES, pick(s) PROVE Typed'
  <2>1. menu # None /\ UNCHANGED dragging
    BY <1>5 DEF pick
  <2>2. CASE /\ \/ menu' = [menu EXCEPT !.confirming = s, !.reason = FALSE]
                \/ menu' = [menu EXCEPT !.confirming = s]
             /\ UNCHANGED <<rows, base, overlay, queue, told, behind>>
    <3>1. menu' \in Menu /\ menu'.id = menu.id
      BY <1>4, <2>1, <2>2 DEF Menu
    <3> QED BY <1>4, <2>1, <2>2, <3>1 DEF Typed, TypeOK, MenuIsListed, Listed
  <2>3. CASE menu' = None /\ move(menu.id, s, FALSE)
    BY <1>4, <2>1, <2>3, TypeMove DEF Typed, TypeOK, MenuIsListed
  <2> QED BY <1>5, <2>2, <2>3 DEF pick
<1>6. CASE onDragEnd
  BY <1>6 DEF onDragEnd, Typed, TypeOK, MenuIsListed, Listed
<1>7. CASE close
  BY <1>7 DEF close, Typed, TypeOK, MenuIsListed, Listed
<1>8. CASE cancelConfirm
  <2>1. menu' \in Menu /\ menu'.id = menu.id
    BY <1>4, <1>8 DEF cancelConfirm, Menu
  <2> QED BY <1>4, <1>8, <2>1 DEF cancelConfirm, Typed, TypeOK, MenuIsListed, Listed
<1>9. ASSUME NEW b \in BOOLEAN, setReason(b) PROVE Typed'
  <2>1. menu' \in Menu /\ menu'.id = menu.id
    BY <1>4, <1>9 DEF setReason, Menu
  <2> QED BY <1>4, <1>9, <2>1 DEF setReason, Typed, TypeOK, MenuIsListed, Listed
<1>10. CASE confirm
  <2> DEFINE revival == menu.confirming = "applied" /\ isRevival(menu.id)
  <2>1. /\ menu # None /\ menu.confirming # None /\ menu' = None /\ UNCHANGED dragging
        /\ revival \in BOOLEAN /\ move(menu.id, menu.confirming, revival)
    BY <1>10 DEF confirm
  <2> HIDE DEF revival
  <2> QED BY <1>4, <2>1, TypeMove DEF Typed, TypeOK, MenuIsListed
<1> QED BY <1>1, <1>2, <1>3, <1>5, <1>6, <1>7, <1>8, <1>9, <1>10 DEF User

\* A render keeps them, whatever is left in the queue.
LEMMA TypeRender ==
  ASSUME Typed, NEW q \in Seq(Job), Render(q), queue' = q, UNCHANGED <<rows, told>>
  PROVE  Typed'
<1>1. Kept(q) \in [Apps -> VALID_STATES \cup {None}] /\ Still \in [Apps -> VALID_STATES \cup {None}]
  BY DEF Kept, Still, Typed, TypeOK
<1>2. CASE /\ base'    = rows
           /\ overlay' = Kept(q)
           /\ Remount(rows, Kept(q))
           /\ behind'  = {}
           /\ UNCHANGED dragging
  <2>1. menu' # None => menu' = menu /\ rows # None /\ rows[menu.id] # None
    BY <1>2 DEF Remount
  <2> QED BY <1>1, <1>2, <2>1 DEF Typed, TypeOK, MenuIsListed, Listed
<1>3. CASE /\ base' = None /\ overlay' = Still /\ menu' = None /\ dragging' = None
           /\ UNCHANGED behind
  BY <1>1, <1>3 DEF Typed, TypeOK, MenuIsListed
<1> QED BY <1>2, <1>3 DEF Render

\* The queue's own steps keep them.
LEMMA TypeQueue == Typed /\ (Serve \/ Settle \/ Refresh) => Typed'
<1> SUFFICES ASSUME Typed, Serve \/ Settle \/ Refresh PROVE Typed'
  OBVIOUS
<1>1. /\ queue \in Seq(Job) /\ queue # <<>> /\ Head(queue) \in Job
      /\ Tail(queue) \in Seq(Job) /\ refresh \in Job
  <2>1. queue \in Seq(Job) /\ queue # <<>>
    BY DEF Typed, TypeOK, Serve, Settle, Refresh
  <2> QED BY <2>1, QueueHolds, QueueLeave DEF Job
<1>2. CASE Serve
  <2> DEFINE job == Head(queue)
             a == job.id
  <2>1. job \in Move /\ a \in Apps /\ job.to \in VALID_STATES
    BY <1>1, <1>2 DEF Serve, Job, Move
  <2>2. PICK x \in apiFetch(TransitionAnswers(rows[a], job.to, Version(job))) :
          /\ \/ /\ \/ x = Ok
                   \/ x = Unavailable /\ Ok \in TransitionAnswers(rows[a], job.to, Version(job))
                /\ rows' = [rows EXCEPT ![a] = [status |-> job.to, version |-> rows[a].version + 1]]
                /\ behind' = behind \/ behind' = behind \cup {a}
             \/ x # Ok /\ UNCHANGED <<rows, behind>>
          /\ queue' = [queue EXCEPT ![1] = Reply(job, x)]
          /\ told' = CASE x = Ok       -> [told EXCEPT ![a] = rows'[a].version]
                       [] x = Conflict -> [told EXCEPT ![a] = rows[a].version]
                       [] OTHER        -> told
    BY <1>2 DEF Serve
  <2>3. UNCHANGED <<base, overlay, dragging, menu>>
    BY <1>2 DEF Serve
  <2>4. /\ rows \in [Apps -> Row \cup {None}]
        /\ rows[a] # None => rows[a] \in Row /\ rows[a].version \in Nat
    BY <2>1 DEF Typed, TypeOK, Row
  <2>5. rows' \in [Apps -> Row \cup {None}]
    BY <2>1, <2>2, <2>4, MoveAnswers DEF Row
  <2>6. told' \in [Apps -> Nat]
    <3>1. x = Ok => rows[a] # None /\ rows'[a].version = rows[a].version + 1
      <4> SUFFICES ASSUME x = Ok PROVE rows[a] # None /\ rows'[a].version = rows[a].version + 1
        OBVIOUS
      <4>1. rows' = [rows EXCEPT ![a] = [status |-> job.to, version |-> rows[a].version + 1]]
        BY <2>2
      <4>2. rows'[a] = [status |-> job.to, version |-> rows[a].version + 1]
        BY <2>1, <2>4, <4>1
      <4> QED BY <2>2, <4>2, MoveAnswers
    <3>2. x = Conflict => rows[a] # None
      BY <2>2, MoveAnswers
    <3> QED BY <2>1, <2>2, <2>4, <3>1, <3>2 DEF Typed, TypeOK
  <2>7. Reply(job, x) \in Job
    <3>1. (IF x = Ok THEN rows[a] ELSE None) \in Row \cup {None}
      BY <2>4
    <3>2. x \in {0, Ok, NotFound, Conflict, Invalid, Unavailable}
      BY <2>2, MoveAnswers
    <3> QED BY <2>1, <3>1, <3>2 DEF Reply, Move, Job
  <2>8. queue' \in Seq(Job)
    BY <1>1, <2>2, <2>7, QueueAnswer
  <2> QED BY <2>1, <2>2, <2>3, <2>5, <2>6, <2>8 DEF Typed, TypeOK, MenuIsListed, Listed
<1>3. CASE Settle
  <2> DEFINE job == Head(queue)
             rest == IF Refreshes(job) THEN Append(Tail(queue), refresh) ELSE Tail(queue)
  <2>1. rest \in Seq(Job)
    BY <1>1, QueueJoin
  <2>2. /\ queue' = rest /\ UNCHANGED <<rows, told>>
        /\ IF Revalidates(job)
           THEN Render(rest)
           ELSE /\ overlay' = Kept(rest)
                /\ IF base = None THEN UNCHANGED menu ELSE Remount(base, Kept(rest))
                /\ UNCHANGED <<base, dragging, behind>>
    BY <1>3 DEF Settle
  <2> HIDE DEF rest
  <2>3. CASE Revalidates(job)
    BY <2>1, <2>2, <2>3, TypeRender
  <2>4. CASE ~Revalidates(job)
    <3>1. Kept(rest) \in [Apps -> VALID_STATES \cup {None}]
      BY DEF Kept, Still, Typed, TypeOK
    <3>2. menu' = menu \/ menu' = None
      BY <2>2, <2>4 DEF Remount
    <3> QED BY <2>1, <2>2, <2>4, <3>1, <3>2 DEF Typed, TypeOK, MenuIsListed, Listed
  <2> QED BY <2>3, <2>4
<1>4. CASE Refresh
  BY <1>1, <1>4, TypeRender DEF Refresh
<1> QED BY <1>2, <1>3, <1>4

\* Every step keeps the types.
LEMMA TypeStep == Typed /\ [Next]_vars => Typed'
<1> SUFFICES ASSUME Typed, [Next]_vars PROVE Typed'
  OBVIOUS
<1>1. ASSUME NEW a \in Apps, Elsewhere(a) PROVE Typed'
  <2>1. rows[a] \in Row /\ rows[a].version \in Nat
    BY <1>1 DEF Elsewhere, Typed, TypeOK, Row
  <2>2. \A to \in valid_next_states(rows[a].status) : to \in VALID_STATES
    BY <2>1, Stages DEF Row
  <2>3. \/ \E to \in valid_next_states(rows[a].status) :
             rows' = [rows EXCEPT ![a] = [status |-> to, version |-> rows[a].version + 1]]
        \/ rows' = [rows EXCEPT ![a] = None]
    BY <1>1 DEF Elsewhere
  <2>4. rows' \in [Apps -> Row \cup {None}]
    <3>1. \A to \in valid_next_states(rows[a].status) :
            [status |-> to, version |-> rows[a].version + 1] \in Row
      BY <2>1, <2>2 DEF Row
    <3> QED BY <2>3, <3>1 DEF Typed, TypeOK
  <2> QED BY <1>1, <2>4 DEF Elsewhere, Typed, TypeOK, MenuIsListed, Listed
<1>2. CASE UNCHANGED vars
  BY <1>2 DEF vars, Typed, TypeOK, MenuIsListed, Listed
<1> QED BY <1>1, <1>2, TypeUser, TypeQueue DEF Next

\* The board starts well formed, with the rows it fetched.
LEMMA TypeInit == Init => Typed
<1> SUFFICES ASSUME Init PROVE Typed
  OBVIOUS
<1>1. rows \in [Apps -> Row \cup {None}]
  BY BoardAssumption DEF Init, Row
<1> QED BY <1>1, QueueEmpty DEF Init, Typed, TypeOK, MenuIsListed, Still

\* TypeOK: whatever is listed, dragged, opened or queued stays well formed, and only
\* listed cards have an open menu.
THEOREM TypeCorrect == Spec => []TypeOK
<1>1. Typed => TypeOK
  BY DEF Typed
<1> QED BY <1>1, TypeInit, TypeStep, PTL DEF Spec

-------------------------------------------------------------------------------
\* Where an accepted move lands.

\* A copy of a row: not ahead of it, and the row itself while the versions agree.
CopyOf(copy, r) == copy.version <= r.version /\ (copy.version = r.version => copy = r)

CopiesAreHonest ==
  \A a \in Apps : rows[a] # None =>
    /\ Listed(a) => CopyOf(base[a], rows[a])
    /\ \A job \in Jobs(queue) : job # refresh /\ job.id = a => CopyOf(job.saw, rows[a])

MovesLand ==
  \A job \in Jobs(queue) : job # refresh /\ job.answer = Ok => job.met.status = job.saw.status

LandingInv == Typed /\ CopiesAreHonest /\ MovesLand

\* A gesture sends the row the board has fetched.
LEMMA LandingMove ==
  ASSUME LandingInv, NEW a \in Apps, Listed(a), NEW to \in VALID_STATES, NEW note \in BOOLEAN,
         move(a, to, note)
  PROVE  CopiesAreHonest' /\ MovesLand'
<1> DEFINE alone == a \notin behind /\ ~Moving(a, queue)
           job == [id |-> a, to |-> to, note |-> note, saw |-> base[a], alone |-> alone,
                   answer |-> 0, met |-> None]
<1>1. alone \in BOOLEAN
  OBVIOUS
<1>2. queue' = Append(queue, job) /\ UNCHANGED <<rows, base>>
  BY DEF move
<1> HIDE DEF alone
<1>3. job \in Job /\ job.id = a /\ job.saw = base[a] /\ job.answer # Ok
  BY <1>1, ListedRow DEF Job, Move, LandingInv, Ok
<1> HIDE DEF job
<1>4. Jobs(queue') = Jobs(queue) \cup {job}
  BY <1>2, <1>3, QueueJoin DEF LandingInv, Typed, TypeOK
<1> QED BY <1>2, <1>3, <1>4 DEF LandingInv, CopiesAreHonest, MovesLand, Listed

\* A step that neither touches the rows nor adds a move, over the same list.
LEMMA LandingKept ==
  ASSUME LandingInv, UNCHANGED <<rows, base>>, Jobs(queue') \subseteq Jobs(queue) \cup {refresh}
  PROVE  CopiesAreHonest' /\ MovesLand'
BY DEF LandingInv, CopiesAreHonest, MovesLand, Listed

\* A render fetches the rows themselves.
LEMMA LandingRender ==
  ASSUME LandingInv, NEW q \in Seq(Job), Render(q), queue' = q, UNCHANGED rows,
         Jobs(q) \subseteq Jobs(queue) \cup {refresh}
  PROVE  CopiesAreHonest' /\ MovesLand'
<1>1. \A a \in Apps : rows[a] # None => CopyOf(rows[a], rows[a])
  BY DEF LandingInv, Typed, TypeOK, Row, CopyOf
<1>2. base' = rows \/ base' = None
  BY DEF Render
<1> QED BY <1>1, <1>2 DEF LandingInv, CopiesAreHonest, MovesLand, Listed

\* A row written on moves past every copy of it.
LEMMA Overtaken ==
  ASSUME NEW copy \in Row, NEW r \in Row, NEW w \in Row, w.version = r.version + 1, CopyOf(copy, r)
  PROVE  CopyOf(copy, w)
BY DEF Row, CopyOf

\* The copies of a queue and a list, after one row was written or deleted.
LEMMA LandingWrite ==
  ASSUME LandingInv, NEW a \in Apps, UNCHANGED base, rows[a] # None, NEW w,
         w = None \/ (w \in Row /\ w.version = rows[a].version + 1),
         rows' = [rows EXCEPT ![a] = w],
         \A job \in Jobs(queue') : job # refresh =>
           /\ job.id \in Apps /\ job.saw \in Row
           /\ rows[job.id] # None => CopyOf(job.saw, rows[job.id])
  PROVE  CopiesAreHonest'
<1> SUFFICES ASSUME NEW b \in Apps, rows'[b] # None
             PROVE  /\ Listed(b) => CopyOf(base[b], rows'[b])
                    /\ \A job \in Jobs(queue') :
                         job # refresh /\ job.id = b => CopyOf(job.saw, rows'[b])
  BY DEF CopiesAreHonest, Listed
<1>1. rows \in [Apps -> Row \cup {None}] /\ Typed
  BY DEF LandingInv, Typed, TypeOK
<1>2. CASE b # a
  <2>1. rows'[b] = rows[b]
    BY <1>1, <1>2
  <2> QED BY <2>1 DEF LandingInv, CopiesAreHonest
<1>3. CASE b = a
  <2>1. rows'[a] = w /\ w \in Row /\ w.version = rows[a].version + 1 /\ rows[a] \in Row
    BY <1>1, <1>3
  <2>2. Listed(a) => CopyOf(base[a], rows[a]) /\ base[a] \in Row
    BY <1>1, ListedRow DEF LandingInv, CopiesAreHonest
  <2> QED BY <1>3, <2>1, <2>2, Overtaken
<1> QED BY <1>2, <1>3

\* A move is accepted only by the row its card was fetched with.
LEMMA LandingServe == LandingInv /\ Serve => CopiesAreHonest' /\ MovesLand'
<1> SUFFICES ASSUME LandingInv, Serve PROVE CopiesAreHonest' /\ MovesLand'
  OBVIOUS
<1> DEFINE job == Head(queue)
           a == job.id
<1>1. queue \in Seq(Job) /\ queue # <<>> /\ job \in Job /\ job \in Jobs(queue)
  <2>1. queue \in Seq(Job) /\ queue # <<>>
    BY DEF LandingInv, Typed, TypeOK, Serve
  <2> QED BY <2>1, QueueHolds
<1>2. /\ job \in Move /\ job # refresh /\ a \in Apps /\ job.to \in VALID_STATES
      /\ job.saw \in Row
  BY <1>1 DEF Serve, Job, Move
<1>3. PICK x \in apiFetch(TransitionAnswers(rows[a], job.to, Version(job))) :
        /\ \/ /\ x = Ok \/ (x = Unavailable /\ Ok \in TransitionAnswers(rows[a], job.to, Version(job)))
              /\ rows' = [rows EXCEPT ![a] = [status |-> job.to, version |-> rows[a].version + 1]]
           \/ x # Ok /\ UNCHANGED rows
        /\ queue' = [queue EXCEPT ![1] = Reply(job, x)]
        /\ UNCHANGED base
  BY DEF Serve
<1> DEFINE answered == Reply(job, x)
<1>4. /\ answered \in Job /\ answered.id = a /\ answered.saw = job.saw
      /\ answered.answer = x /\ answered.met = IF x = Ok THEN rows[a] ELSE None
  <2>1. (IF x = Ok THEN rows[a] ELSE None) \in Row \cup {None}
    BY <1>2 DEF LandingInv, Typed, TypeOK
  <2>2. x \in {0, Ok, NotFound, Conflict, Invalid, Unavailable}
    BY <1>3, MoveAnswers
  <2> QED BY <1>2, <2>1, <2>2 DEF Reply, Move, Job
<1> HIDE DEF answered
<1>5. Jobs(queue') \subseteq Jobs(queue) \cup {answered}
  BY <1>1, <1>3, <1>4, QueueAnswer DEF answered
<1>6. rows[a] # None => CopyOf(job.saw, rows[a])
  BY <1>1, <1>2 DEF LandingInv, CopiesAreHonest
<1>7. MovesLand'
  <2>1. x = Ok => rows[a] # None /\ rows[a].version = job.saw.version
    BY <1>3, MoveAnswers DEF Version
  <2>2. x = Ok => answered.met.status = answered.saw.status
    BY <1>4, <1>6, <2>1 DEF CopyOf
  <2> QED BY <1>4, <1>5, <2>2 DEF LandingInv, MovesLand
<1>8. \A j \in Jobs(queue') : j # refresh =>
        /\ j.id \in Apps /\ j.saw \in Row
        /\ rows[j.id] # None => CopyOf(j.saw, rows[j.id])
  <2>1. \A j \in Jobs(queue) : j # refresh => j.id \in Apps /\ j.saw \in Row
    BY <1>1, QueueHolds DEF Job, Move
  <2> QED BY <1>2, <1>4, <1>5, <1>6, <2>1 DEF LandingInv, CopiesAreHonest
<1>9. CopiesAreHonest'
  <2>1. CASE UNCHANGED rows
    BY <1>2, <1>3, <1>4, <1>5, <1>6, <2>1 DEF LandingInv, CopiesAreHonest, Listed
  <2>2. CASE /\ rows' = [rows EXCEPT ![a] = [status |-> job.to, version |-> rows[a].version + 1]]
             /\ rows[a] # None
    <3> DEFINE w == [status |-> job.to, version |-> rows[a].version + 1]
    <3>1. rows[a].version \in Nat
      BY <1>2, <2>2 DEF LandingInv, Typed, TypeOK, Row
    <3>2. w \in Row /\ w.version = rows[a].version + 1 /\ rows' = [rows EXCEPT ![a] = w]
      BY <1>2, <2>2, <3>1 DEF Row
    <3> HIDE DEF w
    <3> QED BY <1>2, <1>3, <1>8, <2>2, <3>2, LandingWrite
  <2> QED BY <1>3, <2>1, <2>2, MoveAnswers
<1> QED BY <1>7, <1>9

\* LandingInv is inductive.
LEMMA LandingStep == LandingInv /\ [Next]_vars => LandingInv'
<1> SUFFICES ASSUME LandingInv, [Next]_vars PROVE CopiesAreHonest' /\ MovesLand'
  BY TypeStep DEF LandingInv
<1>1. /\ Typed /\ queue \in Seq(Job)
  BY DEF LandingInv, Typed, TypeOK
<1>2. CASE User
  <2>1. CASE UNCHANGED <<rows, base, queue>>
    BY <2>1, LandingKept
  <2>2. ASSUME NEW a \in Apps, Listed(a), NEW to \in VALID_STATES, NEW note \in BOOLEAN,
               move(a, to, note)
        PROVE  CopiesAreHonest' /\ MovesLand'
    BY <2>2, LandingMove
  <2>3. ASSUME NEW c \in VALID_STATES, onDrop(c) PROVE CopiesAreHonest' /\ MovesLand'
    <3>1. dragging # None /\ dragging.id \in Apps
      BY <1>1, <2>3 DEF onDrop, isLegalTarget, Typed, TypeOK, Drag
    <3> QED BY <2>1, <2>2, <2>3, <3>1 DEF onDrop
  <2>4. menu # None => /\ menu.id \in Apps /\ Listed(menu.id)
                       /\ menu.confirming \in VALID_STATES \cup {None}
    BY <1>1 DEF Typed, TypeOK, MenuIsListed, Menu
  <2>5. ASSUME NEW s \in VALID_STATES, pick(s) PROVE CopiesAreHonest' /\ MovesLand'
    <3>1. menu # None
      BY <2>5 DEF pick
    <3>2. UNCHANGED <<rows, base, queue>> \/ move(menu.id, s, FALSE)
      BY <2>5 DEF pick
    <3> QED BY <2>1, <2>2, <2>4, <3>1, <3>2
  <2>6. CASE confirm
    <3> DEFINE revival == menu.confirming = "applied" /\ isRevival(menu.id)
    <3>1. /\ menu # None /\ menu.confirming # None
          /\ revival \in BOOLEAN /\ move(menu.id, menu.confirming, revival)
      BY <2>6 DEF confirm
    <3> HIDE DEF revival
    <3> QED BY <2>2, <2>4, <3>1
  <2> QED BY <1>2, <2>1, <2>3, <2>5, <2>6
          DEF User, onDragStart, setOpen, onDragEnd, close, cancelConfirm, setReason
<1>3. CASE Serve
  BY <1>3, LandingServe
<1>4. queue # <<>> => /\ Tail(queue) \in Seq(Job) /\ Jobs(Tail(queue)) \subseteq Jobs(queue)
                      /\ Append(Tail(queue), refresh) \in Seq(Job)
                      /\ Jobs(Append(Tail(queue), refresh)) \subseteq Jobs(queue) \cup {refresh}
  <2>1. refresh \in Job
    BY DEF Job
  <2>2. queue # <<>> => Tail(queue) \in Seq(Job) /\ Jobs(Tail(queue)) \subseteq Jobs(queue)
    BY <1>1, QueueLeave
  <2>3. \A q \in Seq(Job) : /\ Append(q, refresh) \in Seq(Job)
                            /\ Jobs(Append(q, refresh)) = Jobs(q) \cup {refresh}
    BY <2>1, QueueJoin
  <2> QED BY <2>2, <2>3
<1>5. CASE Settle
  <2> DEFINE rest == IF Refreshes(Head(queue)) THEN Append(Tail(queue), refresh) ELSE Tail(queue)
  <2>1. /\ queue # <<>> /\ queue' = rest /\ UNCHANGED rows
        /\ Render(rest) \/ UNCHANGED base
    BY <1>5 DEF Settle
  <2>2. rest \in Seq(Job) /\ Jobs(rest) \subseteq Jobs(queue) \cup {refresh}
    BY <1>4, <2>1
  <2> HIDE DEF rest
  <2> QED BY <2>1, <2>2, LandingRender, LandingKept
<1>6. CASE Refresh
  BY <1>4, <1>6, LandingRender DEF Refresh
<1>7. ASSUME NEW a \in Apps, Elsewhere(a) PROVE CopiesAreHonest' /\ MovesLand'
  <2>1. rows[a] # None /\ rows[a] \in Row /\ rows[a].version \in Nat
    BY <1>1, <1>7 DEF Elsewhere, Typed, TypeOK, Row
  <2>2. \E w : /\ w = None \/ (w \in Row /\ w.version = rows[a].version + 1)
               /\ rows' = [rows EXCEPT ![a] = w]
    <3>1. CASE rows' = [rows EXCEPT ![a] = None]
      BY <3>1
    <3>2. ASSUME NEW to \in valid_next_states(rows[a].status),
                 rows' = [rows EXCEPT ![a] = [status |-> to, version |-> rows[a].version + 1]]
          PROVE  \E w \in Row : w.version = rows[a].version + 1 /\ rows' = [rows EXCEPT ![a] = w]
      <4>1. [status |-> to, version |-> rows[a].version + 1] \in Row
        BY <2>1, <3>2, Stages DEF Row
      <4> QED BY <3>2, <4>1
    <3> QED BY <1>7, <3>1, <3>2 DEF Elsewhere
  <2>3. UNCHANGED <<base, queue>>
    BY <1>7 DEF Elsewhere
  <2>4. \A job \in Jobs(queue) : job # refresh =>
          /\ job.id \in Apps /\ job.saw \in Row
          /\ rows[job.id] # None => CopyOf(job.saw, rows[job.id])
    <3>1. \A job \in Jobs(queue) : job # refresh => job.id \in Apps /\ job.saw \in Row
      BY <1>1, QueueHolds DEF Job, Move
    <3> QED BY <3>1 DEF LandingInv, CopiesAreHonest
  <2>5. CopiesAreHonest'
    BY <2>1, <2>2, <2>3, <2>4, LandingWrite
  <2> QED BY <2>3, <2>5 DEF LandingInv, MovesLand
<1>8. CASE UNCHANGED vars
  BY <1>8, LandingKept DEF vars
<1> QED BY <1>2, <1>3, <1>5, <1>6, <1>7, <1>8 DEF Next

\* MovesLandOnTheFetchedRow: an accepted move takes its card out of the stage the board
\* had fetched for it, whatever was shown, moved or written meanwhile.
THEOREM MovesLandWhereFetched == Spec => []MovesLandOnTheFetchedRow
<1>1. Init => LandingInv
  <2> SUFFICES ASSUME Init PROVE CopiesAreHonest /\ MovesLand
    BY TypeInit DEF LandingInv
  <2>1. Jobs(queue) = {} /\ base = rows
    BY QueueEmpty DEF Init
  <2>2. \A a \in Apps : rows[a] # None => CopyOf(rows[a], rows[a])
    BY TypeInit DEF Typed, TypeOK, Row, CopyOf
  <2> QED BY <2>1, <2>2 DEF CopiesAreHonest, MovesLand
<1>2. LandingInv => MovesLandOnTheFetchedRow
  <2> SUFFICES ASSUME LandingInv, queue # <<>>, Head(queue) # refresh, Head(queue).answer = Ok
               PROVE  Head(queue).met.status = Head(queue).saw.status
    BY DEF MovesLandOnTheFetchedRow, Answered
  <2>1. Head(queue) \in Jobs(queue)
    BY QueueHolds DEF LandingInv, Typed, TypeOK
  <2> QED BY <2>1 DEF LandingInv, MovesLand
<1> QED BY <1>1, <1>2, LandingStep, PTL DEF Spec

-------------------------------------------------------------------------------
\* What a refused move means.

HeadDone(a) == /\ queue # <<>> /\ Head(queue) # refresh
               /\ Head(queue).answer = Ok /\ Head(queue).id = a

\* The list shows a row as it is unless someone else wrote it, or an accepted move of
\* this tab is about to be rendered.
FreshUnlessBehind == base # None => \A a \in Apps \ behind : base[a] = rows[a] \/ HeadDone(a)

Caused(job) == job.id \in behind \/ ~Listed(job.id) \/ base[job.id] # job.saw

HeadIsCaused ==
  queue # <<>> /\ Head(queue) # refresh /\ Head(queue).answer = Conflict => Caused(Head(queue))

\* No job but the head has been answered.
TailWaits == queue # <<>> => \A job \in Jobs(Tail(queue)) : job # refresh => job.answer = 0

ConflictInv == Typed /\ FreshUnlessBehind /\ HeadIsCaused /\ TailWaits

\* The tail grows by one job, and an empty queue gets a head.
LEMMA TailGrows ==
  ASSUME NEW q \in Seq(Job), NEW job \in Job
  PROVE  /\ q # <<>> => Jobs(Tail(Append(q, job))) \subseteq Jobs(Tail(q)) \cup {job}
         /\ q = <<>> => Head(Append(q, job)) = job /\ Jobs(Tail(Append(q, job))) = {}
<1>1. q # <<>> => Tail(Append(q, job)) = Append(Tail(q), job) /\ Tail(q) \in Seq(Job)
  OBVIOUS
<1>2. q = <<>> => Head(Append(q, job)) = job /\ Tail(Append(q, job)) = <<>>
  OBVIOUS
<1>3. \A r \in Seq(Job) : Jobs(Append(r, job)) = Jobs(r) \cup {job}
  BY QueueJoin
<1> QED BY <1>1, <1>2, <1>3, QueueEmpty

\* A job without an answer joins the queue.
LEMMA ConflictJoin ==
  ASSUME ConflictInv, NEW job \in Job, job # refresh => job.answer = 0,
         queue' = Append(queue, job), UNCHANGED <<rows, base, behind>>
  PROVE  FreshUnlessBehind' /\ HeadIsCaused' /\ TailWaits'
<1>1. queue \in Seq(Job)
  BY DEF ConflictInv, Typed, TypeOK
<1>2. queue' # <<>> /\ (queue # <<>> => Head(queue') = Head(queue))
  BY <1>1, QueueJoin
<1>3. queue = <<>> => Head(queue') = job
  BY <1>1, TailGrows
<1>4. FreshUnlessBehind'
  BY <1>2 DEF ConflictInv, FreshUnlessBehind, HeadDone
<1>5. HeadIsCaused'
  BY <1>2, <1>3 DEF ConflictInv, HeadIsCaused, Caused, Listed, Conflict
<1>6. TailWaits'
  BY <1>1, TailGrows DEF ConflictInv, TailWaits
<1> QED BY <1>4, <1>5, <1>6

\* What follows an answered head has no answer yet: neither its head nor its tail.
LEMMA NextWaits ==
  ASSUME ConflictInv, queue # <<>>, NEW q,
         q = Tail(queue) \/ q = Append(Tail(queue), refresh)
  PROVE  /\ q # <<>> /\ Head(q) # refresh => Head(q).answer = 0
         /\ q # <<>> => \A job \in Jobs(Tail(q)) : job # refresh => job.answer = 0
<1>1. /\ Tail(queue) \in Seq(Job) /\ refresh \in Job
      /\ \A job \in Jobs(Tail(queue)) : job # refresh => job.answer = 0
  BY QueueLeave DEF ConflictInv, Typed, TypeOK, TailWaits, Job
<1>2. q \in Seq(Job) /\ Jobs(q) \subseteq Jobs(Tail(queue)) \cup {refresh}
  <2>1. \A r \in Seq(Job) : /\ Append(r, refresh) \in Seq(Job)
                            /\ Jobs(Append(r, refresh)) = Jobs(r) \cup {refresh}
    BY <1>1, QueueJoin
  <2> QED BY <1>1, <2>1
<1>3. q # <<>> => Head(q) \in Jobs(q) /\ Jobs(Tail(q)) \subseteq Jobs(q)
  BY <1>2, QueueHolds, QueueLeave
<1> QED BY <1>1, <1>2, <1>3

\* The head leaves: the list is rendered anew, or stays after a refusal.
LEMMA ConflictLeave ==
  ASSUME ConflictInv, queue # <<>>,
         queue' = Tail(queue) \/ queue' = Append(Tail(queue), refresh),
         UNCHANGED rows,
         \/ base' = rows
         \/ base' = None
         \/ UNCHANGED <<base, behind>> /\ ~(Head(queue) # refresh /\ Head(queue).answer = Ok)
  PROVE  FreshUnlessBehind' /\ HeadIsCaused' /\ TailWaits'
<1>1. TailWaits'
  BY NextWaits DEF TailWaits
<1>2. HeadIsCaused'
  BY NextWaits DEF HeadIsCaused, Conflict
<1>3. FreshUnlessBehind'
  BY DEF ConflictInv, FreshUnlessBehind, HeadDone
<1> QED BY <1>1, <1>2, <1>3

\* A move is served.
LEMMA ConflictServe == ConflictInv /\ Serve => FreshUnlessBehind' /\ HeadIsCaused' /\ TailWaits'
<1> SUFFICES ASSUME ConflictInv, Serve PROVE FreshUnlessBehind' /\ HeadIsCaused' /\ TailWaits'
  OBVIOUS
<1> DEFINE job == Head(queue)
           a == job.id
<1>1. queue \in Seq(Job) /\ queue # <<>> /\ job \in Job /\ job # refresh /\ job.answer = 0
  <2>1. queue \in Seq(Job) /\ queue # <<>>
    BY DEF ConflictInv, Typed, TypeOK, Serve
  <2> QED BY <2>1, QueueHolds DEF Serve
<1>2. job \in Move /\ a \in Apps
  BY <1>1 DEF Job, Move
<1>3. PICK x \in apiFetch(TransitionAnswers(rows[a], job.to, Version(job))) :
        /\ \/ /\ x = Ok /\ UNCHANGED behind
              /\ rows' = [rows EXCEPT ![a] = [status |-> job.to, version |-> rows[a].version + 1]]
           \/ /\ x = Unavailable /\ behind' = behind \cup {a}
              /\ rows' = [rows EXCEPT ![a] = [status |-> job.to, version |-> rows[a].version + 1]]
           \/ x # Ok /\ UNCHANGED <<rows, behind>>
        /\ queue' = [queue EXCEPT ![1] = Reply(job, x)]
        /\ UNCHANGED base
  BY DEF Serve
<1> DEFINE answered == Reply(job, x)
<1>4. /\ answered \in Job /\ answered # refresh /\ answered.id = a
      /\ answered.saw = job.saw /\ answered.answer = x
  <2>1. (IF x = Ok THEN rows[a] ELSE None) \in Row \cup {None}
    BY <1>2 DEF ConflictInv, Typed, TypeOK
  <2>2. x \in {0, Ok, NotFound, Conflict, Invalid, Unavailable}
    BY <1>3, MoveAnswers
  <2>3. answered \in Move
    BY <1>2, <2>1, <2>2 DEF Reply, Move
  <2>4. DOMAIN answered # DOMAIN refresh
    <3>1. "id" \in DOMAIN answered /\ "id" \notin DOMAIN refresh
      BY <2>3 DEF Move, refresh
    <3> QED BY <3>1
  <2> QED BY <1>2, <2>3, <2>4 DEF Reply, Move, Job
<1> HIDE DEF answered
<1>5. queue' # <<>> /\ Head(queue') = answered /\ Tail(queue') = Tail(queue)
  <2>1. queue' = [queue EXCEPT ![1] = answered] /\ queue' # <<>> /\ Head(queue') = answered
    BY <1>1, <1>3, <1>4, QueueAnswer DEF answered
  <2>2. Tail([queue EXCEPT ![1] = answered]) = Tail(queue)
    BY <1>1, <1>4
  <2> QED BY <2>1, <2>2
<1>6. \A b \in Apps \ behind : base # None => base[b] = rows[b]
  BY <1>1 DEF ConflictInv, FreshUnlessBehind, HeadDone, Ok
<1>7. FreshUnlessBehind'
  <2> SUFFICES ASSUME base # None, NEW b \in Apps \ behind' PROVE base[b] = rows'[b] \/ HeadDone(b)'
    BY <1>3 DEF FreshUnlessBehind
  <2>1. b \notin behind
    BY <1>3
  <2>2. rows' = rows \/ b # a => rows'[b] = rows[b]
    BY <1>2, <1>3 DEF ConflictInv, Typed, TypeOK
  <2>3. b = a /\ rows' # rows => HeadDone(b)'
    BY <1>3, <1>4, <1>5 DEF HeadDone
  <2> QED BY <1>6, <2>1, <2>2, <2>3
<1>8. HeadIsCaused'
  <2> SUFFICES ASSUME x = Conflict, a \notin behind, Listed(a), base[a] = job.saw PROVE FALSE
    BY <1>3, <1>4, <1>5 DEF HeadIsCaused, Caused, Listed
  <2>1. rows[a] = job.saw
    BY <1>2, <1>6 DEF Listed
  <2> QED BY <1>3, <2>1, MoveAnswers DEF Version
<1>9. TailWaits'
  BY <1>1, <1>5 DEF ConflictInv, TailWaits
<1> QED BY <1>7, <1>8, <1>9

\* ConflictInv is inductive.
LEMMA ConflictStep == ConflictInv /\ [Next]_vars => ConflictInv'
<1> SUFFICES ASSUME ConflictInv, [Next]_vars
             PROVE  FreshUnlessBehind' /\ HeadIsCaused' /\ TailWaits'
  BY TypeStep DEF ConflictInv
<1>1. Typed /\ queue \in Seq(Job)
  BY DEF ConflictInv, Typed, TypeOK
<1>2. CASE UNCHANGED <<rows, base, queue, behind>>
  BY <1>2 DEF ConflictInv, FreshUnlessBehind, HeadDone, HeadIsCaused, Caused, Listed, TailWaits
<1>3. CASE User
  <2>1. ASSUME NEW a \in Apps, Listed(a), NEW to \in VALID_STATES, NEW note \in BOOLEAN,
               move(a, to, note)
        PROVE  FreshUnlessBehind' /\ HeadIsCaused' /\ TailWaits'
    <3> DEFINE alone == a \notin behind /\ ~Moving(a, queue)
               job == [id |-> a, to |-> to, note |-> note, saw |-> base[a], alone |-> alone,
                       answer |-> 0, met |-> None]
    <3>1. alone \in BOOLEAN
      OBVIOUS
    <3>2. queue' = Append(queue, job) /\ UNCHANGED <<rows, base, behind>>
      BY <2>1 DEF move
    <3> HIDE DEF alone
    <3>3. job \in Job /\ job.answer = 0
      BY <1>1, <2>1, <3>1, ListedRow DEF Job, Move
    <3> HIDE DEF job
    <3> QED BY <3>2, <3>3, ConflictJoin
  <2>2. ASSUME NEW c \in VALID_STATES, onDrop(c)
        PROVE  FreshUnlessBehind' /\ HeadIsCaused' /\ TailWaits'
    <3>1. dragging # None /\ dragging.id \in Apps
      BY <1>1, <2>2 DEF onDrop, isLegalTarget, Typed, TypeOK, Drag
    <3> QED BY <1>2, <2>1, <2>2, <3>1 DEF onDrop
  <2>3. menu # None => /\ menu.id \in Apps /\ Listed(menu.id)
                       /\ menu.confirming \in VALID_STATES \cup {None}
    BY <1>1 DEF Typed, TypeOK, MenuIsListed, Menu
  <2>4. ASSUME NEW s \in VALID_STATES, pick(s)
        PROVE  FreshUnlessBehind' /\ HeadIsCaused' /\ TailWaits'
    <3>1. menu # None
      BY <2>4 DEF pick
    <3>2. UNCHANGED <<rows, base, queue, behind>> \/ move(menu.id, s, FALSE)
      BY <2>4 DEF pick
    <3> QED BY <1>2, <2>1, <2>3, <3>1, <3>2
  <2>5. CASE confirm
    <3> DEFINE revival == menu.confirming = "applied" /\ isRevival(menu.id)
    <3>1. /\ menu # None /\ menu.confirming # None
          /\ revival \in BOOLEAN /\ move(menu.id, menu.confirming, revival)
      BY <2>5 DEF confirm
    <3> HIDE DEF revival
    <3> QED BY <2>1, <2>3, <3>1
  <2> QED BY <1>2, <1>3, <2>2, <2>4, <2>5
          DEF User, onDragStart, setOpen, onDragEnd, close, cancelConfirm, setReason
<1>4. CASE Serve
  BY <1>4, ConflictServe
<1>5. CASE Settle
  <2>1. /\ queue # <<>> /\ Head(queue) # refresh
        /\ queue' = Tail(queue) \/ queue' = Append(Tail(queue), refresh)
        /\ UNCHANGED rows
        /\ \/ base' = rows
           \/ base' = None
           \/ UNCHANGED <<base, behind>> /\ Head(queue).answer # Ok
    BY <1>5 DEF Settle, Render, Revalidates
  <2> QED BY <2>1, ConflictLeave
<1>6. CASE Refresh
  BY <1>6, ConflictLeave DEF Refresh, Render
<1>7. ASSUME NEW a \in Apps, Elsewhere(a) PROVE FreshUnlessBehind' /\ HeadIsCaused' /\ TailWaits'
  <2>1. \A b \in Apps : b # a => rows'[b] = rows[b]
    BY <1>1, <1>7 DEF Elsewhere, Typed, TypeOK
  <2>2. behind' = behind \cup {a} /\ UNCHANGED <<base, queue>>
    BY <1>7 DEF Elsewhere
  <2> QED BY <2>1, <2>2
          DEF ConflictInv, FreshUnlessBehind, HeadDone, HeadIsCaused, Caused, Listed, TailWaits
<1> QED BY <1>2, <1>3, <1>4, <1>5, <1>6, <1>7 DEF Next, vars

\* ConflictsHaveACause: when a move is refused with a 409, the row was written by someone
\* else, or had been rendered anew since the gesture.
THEOREM RefusalsHaveACause == Spec => []ConflictsHaveACause
<1>1. Init => ConflictInv
  BY TypeInit DEF Init, ConflictInv, FreshUnlessBehind, HeadIsCaused, TailWaits
<1>2. ConflictInv => ConflictsHaveACause
  BY DEF ConflictInv, HeadIsCaused, Caused, ConflictsHaveACause, Answered
<1> QED BY <1>1, <1>2, ConflictStep, PTL DEF Spec
===============================================================================
