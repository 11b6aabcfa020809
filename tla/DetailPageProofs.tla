--------------------------- MODULE DetailPageProofs ---------------------------
(***************************************************************************)
(* For every content of the inputs, every starting stage and every bound:  *)
(* the page's types, where an accepted transition and an accepted save     *)
(* land, and that a re-opening says why.                                   *)
(***************************************************************************)
EXTENDS DetailPage, TLAPS

-------------------------------------------------------------------------------
\* The browser's queue of server actions: what joins it at the tail, what is replaced or
\* taken at the head, and which jobs are in it afterwards.

Jobs(q) == {q[i] : i \in DOMAIN q}

\* A queue holds jobs only, and its head is one of them.
LEMMA QueueHolds ==
  ASSUME NEW S, NEW q \in Seq(S)
  PROVE  /\ Jobs(q) \subseteq S
         /\ q # <<>> => Head(q) \in Jobs(q) /\ Head(q) \in S
<1>1. DOMAIN q = 1..Len(q) /\ Len(q) \in Nat /\ \A i \in 1..Len(q) : q[i] \in S
  OBVIOUS
<1>2. q # <<>> => 1 \in DOMAIN q /\ Head(q) = q[1]
  OBVIOUS
<1> QED BY <1>1, <1>2 DEF Jobs

\* An empty queue has no jobs.
LEMMA QueueEmpty == ASSUME NEW S PROVE <<>> \in Seq(S) /\ Jobs(<<>>) = {}
BY DEF Jobs

\* A job joins at the tail.
LEMMA QueueJoin ==
  ASSUME NEW S, NEW q \in Seq(S), NEW job \in S
  PROVE  /\ Append(q, job) \in Seq(S)
         /\ Append(q, job) # <<>>
         /\ Jobs(Append(q, job)) = Jobs(q) \cup {job}
         /\ q # <<>> => Head(Append(q, job)) = Head(q)
<1>1. /\ Append(q, job) \in Seq(S)
      /\ DOMAIN q = 1..Len(q) /\ Len(q) \in Nat
      /\ DOMAIN Append(q, job) = 1..Len(q) + 1
      /\ Append(q, job)[Len(q) + 1] = job
      /\ \A i \in 1..Len(q) : Append(q, job)[i] = q[i]
  OBVIOUS
<1>2. Append(q, job) # <<>> /\ (q # <<>> => Head(Append(q, job)) = Head(q))
  <2>1. q # <<>> => 1 \in 1..Len(q) /\ Head(q) = q[1]
    OBVIOUS
  <2>2. Len(Append(q, job)) # 0 /\ Head(Append(q, job)) = Append(q, job)[1]
    BY <1>1
  <2> QED BY <1>1, <2>1, <2>2
<1> DEFINE r == Append(q, job)
<1> HIDE DEF r
<1>3. ASSUME NEW x \in Jobs(r) PROVE x \in Jobs(q) \cup {job}
  <2>1. PICK i \in DOMAIN r : x = r[i]
    BY DEF Jobs
  <2> QED BY <1>1, <2>1 DEF Jobs, r
<1>4. ASSUME NEW x \in Jobs(q) PROVE x \in Jobs(r)
  <2>1. PICK i \in DOMAIN q : x = q[i]
    BY DEF Jobs
  <2> QED BY <1>1, <2>1 DEF Jobs, r
<1>5. job \in Jobs(r)
  BY <1>1 DEF Jobs, r
<1> QED BY <1>2, <1>3, <1>4, <1>5 DEF r

\* The head leaves.
LEMMA QueueLeave ==
  ASSUME NEW S, NEW q \in Seq(S), q # <<>>
  PROVE  Tail(q) \in Seq(S) /\ Jobs(Tail(q)) \subseteq Jobs(q)
<1>1. /\ Tail(q) \in Seq(S)
      /\ DOMAIN q = 1..Len(q) /\ Len(q) \in Nat \ {0}
      /\ DOMAIN Tail(q) = 1..Len(q) - 1
      /\ \A i \in 1..Len(q) - 1 : Tail(q)[i] = q[i + 1]
  OBVIOUS
<1> DEFINE r == Tail(q)
<1>2. ASSUME NEW x \in Jobs(r) PROVE x \in Jobs(q)
  <2>1. PICK i \in DOMAIN r : x = r[i]
    BY DEF Jobs
  <2>2. i + 1 \in DOMAIN q /\ x = q[i + 1]
    BY <1>1, <2>1
  <2> QED BY <2>2 DEF Jobs
<1> QED BY <1>1, <1>2

\* The head is replaced by the same job with its answer.
LEMMA QueueAnswer ==
  ASSUME NEW S, NEW q \in Seq(S), q # <<>>, NEW job \in S
  PROVE  /\ [q EXCEPT ![1] = job] \in Seq(S)
         /\ [q EXCEPT ![1] = job] # <<>>
         /\ Head([q EXCEPT ![1] = job]) = job
         /\ Jobs([q EXCEPT ![1] = job]) \subseteq Jobs(q) \cup {job}
<1> DEFINE r == [q EXCEPT ![1] = job]
<1>1. /\ r \in Seq(S) /\ DOMAIN r = DOMAIN q /\ DOMAIN q = 1..Len(q) /\ Len(q) \in Nat \ {0}
      /\ r[1] = job /\ \A i \in DOMAIN q : i # 1 => r[i] = q[i]
  OBVIOUS
<1> HIDE DEF r
<1>2. r # <<>> /\ Head(r) = job
  BY <1>1
<1>3. ASSUME NEW x \in Jobs(r) PROVE x \in Jobs(q) \cup {job}
  <2>1. PICK i \in DOMAIN r : x = r[i]
    BY DEF Jobs
  <2> QED BY <1>1, <2>1 DEF Jobs
<1> QED BY <1>1, <1>2, <1>3 DEF r

-------------------------------------------------------------------------------
\* The stages and the API.

\* What the table offers is a stage; "applied" is offered only along an edge.
LEMMA Stages ==
  /\ \A s \in VALID_STATES : valid_next_states(s) \subseteq VALID_STATES
  /\ \A s \in VALID_STATES :
       "applied" \in valid_next_states(s) => Edge(s, "applied") \in TRANSITIONS
  /\ "applied" \in VALID_STATES
<1>1. "archived" \in VALID_STATES
  BY DEF VALID_STATES, TERMINAL_STATES
<1>2. \A s \in VALID_STATES : valid_next_states(s) \subseteq VALID_STATES
  BY <1>1 DEF valid_next_states, VALID_STATES
<1>3. ASSUME NEW s \in VALID_STATES, "applied" \in valid_next_states(s)
      PROVE  Edge(s, "applied") \in TRANSITIONS
  <2>1. PICK e \in TRANSITIONS : e.from = s /\ e.to = "applied"
    BY <1>3 DEF valid_next_states
  <2>2. \E f, t : e = Edge(f, t)
    BY <2>1 DEF TRANSITIONS
  <2>3. e = Edge(s, "applied")
    BY <2>1, <2>2 DEF Edge
  <2> QED BY <2>1, <2>3
<1>4. "applied" \in VALID_STATES
  <2>1. Edge("draft", "applied") \in TRANSITIONS
    BY DEF TRANSITIONS
  <2> QED BY <2>1 DEF VALID_STATES, Edge
<1> QED BY <1>2, <1>3, <1>4

\* Ok and Conflict tell of the row, and of its version when the action names one.
LEMMA JobAnswers ==
  ASSUME NEW job \in Action, NEW a \in apiFetch(Answers(job))
  PROVE  /\ a \in {Ok, NotFound, Conflict, Invalid, Unavailable}
         /\ a = Ok => row # None
         /\ Ok \in Answers(job) => row # None
         /\ a = Conflict => row # None
         /\ a = Ok /\ job.kind \in {"transition", "update"} => row.version = job.saw.version
<1>1. job.kind \in {"transition", "update", "upload", "delete"}
  BY DEF Action, Kinds
<1>2. CASE job.kind = "transition"
  BY <1>2 DEF Answers, Version, apiFetch, TransitionAnswers,
              Ok, NotFound, Conflict, Invalid, Unavailable
<1>3. CASE job.kind = "update"
  BY <1>3 DEF Answers, Version, apiFetch, UpdateAnswers,
              Ok, NotFound, Conflict, Invalid, Unavailable
<1>4. CASE job.kind = "upload"
  BY <1>4 DEF Answers, apiFetch, UploadAnswers, Ok, NotFound, Conflict, Invalid, Unavailable
<1>5. CASE job.kind = "delete"
  BY <1>5 DEF Answers, apiFetch, DestroyAnswers, Ok, NotFound, Conflict, Invalid, Unavailable
<1> QED BY <1>1, <1>2, <1>3, <1>4, <1>5

\* The rows a transition and an edit write.
LEMMA WrittenRow ==
  ASSUME NEW r \in Row, NEW s \in VALID_STATES, NEW v \in Texts, NEW c \in Channels
  PROVE  /\ [r EXCEPT !.status = s, !.version = @ + 1] \in Row
         /\ [r EXCEPT !.status = s, !.version = @ + 1].version = r.version + 1
         /\ [r EXCEPT !.text = v, !.channel = c, !.version = @ + 1] \in Row
         /\ [r EXCEPT !.text = v, !.channel = c, !.version = @ + 1].version = r.version + 1
<1>1. /\ r.version + 1 \in Nat /\ r.status \in VALID_STATES
      /\ r.text \in Texts /\ r.channel \in Channels
  BY DEF Row
<1>2. /\ [r EXCEPT !.status = s, !.version = @ + 1] \in Row
      /\ [r EXCEPT !.text = v, !.channel = c, !.version = @ + 1] \in Row
  BY <1>1 DEF Row
<1>3. [r EXCEPT !.status = s, !.version = @ + 1].version = r.version + 1
  BY <1>1 DEF Row
<1>4. [r EXCEPT !.text = v, !.channel = c, !.version = @ + 1].version = r.version + 1
  BY <1>1 DEF Row
<1> QED BY <1>2, <1>3, <1>4

\* A write moves the row on, deletes it, or leaves it as it was.
LEMMA DoneRow ==
  ASSUME NEW job \in Action, row \in Row
  PROVE  /\ job.kind = "delete" => Done(job) = None
         /\ job.kind # "delete" => /\ Done(job) \in Row
                                   /\ Done(job) = row \/ Done(job).version = row.version + 1
<1>1. job.kind \in {"transition", "update", "upload", "delete"}
  BY DEF Action, Kinds
<1>2. row.version \in Nat /\ job.to \in VALID_STATES /\ job.text \in Texts /\ job.channel \in Channels
  BY DEF Row, Action
<1>3. CASE job.kind = "transition"
  <2>1. Done(job) = [row EXCEPT !.status = job.to, !.version = @ + 1]
    BY <1>3 DEF Done
  <2> QED BY <1>2, <1>3, <2>1, WrittenRow
<1>4. CASE job.kind = "update"
  <2> DEFINE saved == [row EXCEPT !.text = job.text, !.channel = job.channel]
  <2>1. saved \in Row /\ saved.version = row.version
    BY <1>2 DEF Row
  <2>2. Done(job) = IF saved = row THEN row ELSE [saved EXCEPT !.version = @ + 1]
    BY <1>4 DEF Done
  <2> HIDE DEF saved
  <2> DEFINE bumped == [saved EXCEPT !.version = @ + 1]
  <2>3. bumped \in Row /\ bumped.version = row.version + 1
    BY <1>2, <2>1 DEF Row
  <2> HIDE DEF bumped
  <2>4. Done(job) = row \/ Done(job) = bumped
    BY <2>2 DEF bumped
  <2> QED BY <1>4, <2>3, <2>4
<1>5. CASE job.kind = "upload"
  BY <1>2, <1>5 DEF Done, Row
<1>6. CASE job.kind = "delete"
  BY <1>6 DEF Done
<1> QED BY <1>1, <1>3, <1>4, <1>5, <1>6

-------------------------------------------------------------------------------
\* Types.

\* What the tab holds of the page and its components.
TypedTab ==
  /\ page    \in Page \cup {None}
  /\ buttons \in Buttons
  /\ editor  \in Editor
  /\ confirmingDelete \in BOOLEAN

\* Closing the panels and forgetting edits is well formed.
LEMMA Rest ==
  /\ Closed \in Buttons
  /\ \A r \in Row : Unedited(r) \in Editor
BY DEF Closed, Buttons, Unedited, Editor, Row

\* A render keeps the types.
LEMMA ShowTypes ==
  ASSUME TypedTab, NEW r \in Row, NEW t \in BOOLEAN, NEW e \in Editor, Show(r, t, e),
         confirmingDelete' \in BOOLEAN
  PROVE  TypedTab'
<1>1. [row |-> r, table |-> t] \in Page
  BY DEF Page
<1> QED BY <1>1, Rest DEF Show, TypedTab

\* So does taking everything down.
LEMMA UnmountTypes == TypedTab /\ Unmount => TypedTab'
<1> SUFFICES ASSUME TypedTab, Unmount PROVE TypedTab'
  OBVIOUS
<1>1. [editor EXCEPT !.editing = FALSE, !.text = None, !.chose = FALSE] \in Editor
  BY DEF TypedTab, Editor
<1> QED BY <1>1, Rest DEF Unmount, TypedTab

\* The action a component starts from the props of its render.
LEMMA BlankAction ==
  ASSUME TypeOK, page # None, NEW kind \in Kinds
  PROVE  /\ Blank(kind) \in Action
         /\ Blank(kind).kind = kind /\ Blank(kind).saw = page.row
         /\ Blank(kind).to = page.row.status /\ Blank(kind).table = page.table
         /\ Blank(kind).text = page.row.text /\ Blank(kind).typed = FALSE
         /\ Blank(kind).answer = 0
<1>1. page \in Page /\ page.row \in Row /\ page.table \in BOOLEAN
  BY DEF TypeOK, Page
<1>2. /\ page.row.status \in VALID_STATES /\ page.row.text \in Texts
      /\ page.row.channel \in Channels
  BY <1>1 DEF Row
<1> QED BY <1>1, <1>2 DEF Blank, Action

\* The job each gesture adds to the queue.
Transition(to, note) == [Blank("transition") EXCEPT !.to = to, !.note = note]
Update == [Blank("update") EXCEPT
             !.text    = IF editor.text = None THEN page.row.text ELSE editor.text,
             !.typed   = editor.text # None,
             !.channel = editor.channel,
             !.chose   = editor.chose]

\* A transition's job.
LEMMA TransitionJob ==
  ASSUME TypeOK, page # None, NEW to \in VALID_STATES, NEW note \in BOOLEAN
  PROVE  /\ Transition(to, note) \in Action
         /\ Transition(to, note).kind = "transition" /\ Transition(to, note).saw = page.row
         /\ Transition(to, note).to = to /\ Transition(to, note).note = note
         /\ Transition(to, note).table = page.table /\ Transition(to, note).answer = 0
<1>1. /\ Blank("transition") \in Action /\ Blank("transition").kind = "transition"
      /\ Blank("transition").saw = page.row /\ Blank("transition").table = page.table
      /\ Blank("transition").answer = 0
  BY BlankAction DEF Kinds
<1> HIDE DEF Blank
<1> QED BY <1>1 DEF Transition, Action

\* A save's job sends an untouched input as the props have it.
LEMMA UpdateJob ==
  ASSUME TypeOK, page # None
  PROVE  /\ Update \in Action
         /\ Update.kind = "update" /\ Update.saw = page.row /\ Update.answer = 0
         /\ ~Update.typed => Update.text = page.row.text
<1>1. /\ Blank("update") \in Action /\ Blank("update").kind = "update"
      /\ Blank("update").saw = page.row /\ Blank("update").answer = 0
  BY BlankAction DEF Kinds
<1>2. /\ editor.text \in Texts \cup {None} /\ editor.channel \in Channels
      /\ editor.chose \in BOOLEAN /\ page.row.text \in Texts
  BY DEF TypeOK, Editor, Page, Row
<1> DEFINE text == IF editor.text = None THEN page.row.text ELSE editor.text
           typed == editor.text # None
<1>3. text \in Texts /\ typed \in BOOLEAN /\ (~typed => text = page.row.text)
  BY <1>2
<1>4. Update = [Blank("update") EXCEPT !.text = text, !.typed = typed,
                                       !.channel = editor.channel, !.chose = editor.chose]
  BY DEF Update
<1> HIDE DEF text, typed
<1> QED BY <1>1, <1>2, <1>3, <1>4 DEF Action

\* Every gesture keeps the types.
LEMMA TypeUser == TypeOK /\ User => TypeOK'
<1> SUFFICES ASSUME TypeOK, User PROVE TypeOK'
  OBVIOUS
<1>1. /\ row \in Row \cup {None} /\ queue \in Seq(Job) /\ told \in Nat /\ TypedTab
      /\ confirmingDelete \in BOOLEAN
  BY DEF TypeOK, TypedTab
<1>2. page # None => /\ page \in Page /\ page.row \in Row /\ page.row.status \in VALID_STATES
                     /\ valid_next_states(page.row.status) \subseteq VALID_STATES
  BY Stages DEF TypeOK, Page, Row
<1>3. ASSUME UNCHANGED <<row, told>>, TypedTab',
             UNCHANGED queue \/ \E job \in Action : queue' = Append(queue, job)
      PROVE  TypeOK'
  <2>1. queue' \in Seq(Job)
    BY <1>1, <1>3, QueueJoin DEF Job
  <2> QED BY <1>1, <1>3, <2>1 DEF TypeOK, TypedTab
<1>4. ASSUME page # None, NEW to \in VALID_STATES, NEW note \in BOOLEAN, go(to, note)
      PROVE  TypeOK'
  <2>1. queue' = Append(queue, Transition(to, note)) /\ Transition(to, note) \in Action
    BY <1>4, TransitionJob DEF go, Enqueue, Transition
  <2> QED BY <1>1, <1>3, <1>4, <2>1, Rest DEF go, TypedTab
<1>5. ASSUME buttons' \in Buttons, UNCHANGED <<row, page, editor, confirmingDelete, queue, told>>
      PROVE  TypeOK'
  BY <1>1, <1>3, <1>5 DEF TypedTab
<1>6. ASSUME editor' \in Editor, UNCHANGED <<row, page, buttons, confirmingDelete, queue, told>>
      PROVE  TypeOK'
  BY <1>1, <1>3, <1>6 DEF TypedTab
<1>7. ASSUME NEW s \in VALID_STATES, handleClick(s) PROVE TypeOK'
  <2>1. [buttons EXCEPT !.confirming = s, !.reason = FALSE] \in Buttons
        /\ [buttons EXCEPT !.confirming = s, !.note = FALSE] \in Buttons
    BY <1>1 DEF TypedTab, Buttons
  <2> QED BY <1>4, <1>5, <1>7, <2>1 DEF handleClick
<1>8. ASSUME NEW b \in BOOLEAN, TypeNote(b) PROVE TypeOK'
  <2>1. [buttons EXCEPT !.reason = b] \in Buttons /\ [buttons EXCEPT !.note = b] \in Buttons
    BY <1>1 DEF TypedTab, Buttons
  <2> QED BY <1>5, <1>8, <2>1 DEF TypeNote
<1>9. CASE Confirm
  <2>1. page # None /\ buttons.confirming \in VALID_STATES /\ buttons.note \in BOOLEAN
    BY <1>1, <1>2, <1>9 DEF Confirm, PanelOpen, TypedTab, Buttons
  <2> QED BY <1>4, <1>9, <2>1, Stages DEF Confirm
<1>10. CASE cancelConfirm
  BY <1>5, <1>10, Rest DEF cancelConfirm
<1>11. CASE Edit \/ CancelEdit
  <2>1. [editor EXCEPT !.editing = TRUE, !.text = None] \in Editor
        /\ [editor EXCEPT !.editing = FALSE, !.text = None] \in Editor
    BY <1>1 DEF TypedTab, Editor
  <2> QED BY <1>6, <1>11, <2>1 DEF Edit, CancelEdit
<1>12. ASSUME NEW v \in Texts \cup {editor.text}, NEW c \in Channels, setChannel(v, c)
       PROVE  TypeOK'
  <2>1. v \in Texts \cup {None} /\ editor \in Editor /\ editor.chose \in BOOLEAN
    BY <1>1 DEF TypedTab, Editor
  <2>2. (editor.chose \/ c # editor.channel) \in BOOLEAN
    BY <2>1
  <2>3. editor' \in Editor
    BY <1>12, <2>1, <2>2 DEF setChannel, Editor
  <2> QED BY <1>6, <1>12, <2>3 DEF setChannel
<1>13. CASE onSubmit
  <2>1. queue' = Append(queue, Update) /\ Update \in Action
    BY <1>13, UpdateJob DEF onSubmit, Enqueue, Update
  <2> QED BY <1>1, <1>3, <1>13, <2>1 DEF onSubmit, TypedTab
<1>14. CASE onChange
  BY <1>1, <1>3, <1>14, BlankAction DEF onChange, Enqueue, Kinds, TypedTab
<1>15. CASE ConfirmDelete
  BY <1>1, <1>3, <1>15, BlankAction DEF ConfirmDelete, Enqueue, Kinds, TypedTab
<1>16. ASSUME NEW b \in BOOLEAN, setConfirmingDelete(b) PROVE TypeOK'
  BY <1>1, <1>3, <1>16 DEF setConfirmingDelete, TypedTab
<1>17. CASE Reload
  <2>1. PICK t \in BOOLEAN : page' = [row |-> row, table |-> t]
    BY <1>17 DEF Reload
  <2>2. row \in Row /\ page' \in Page
    BY <1>1, <1>17, <2>1 DEF Reload, Page
  <2>3. Unedited(row) \in Editor /\ Closed \in Buttons /\ <<>> \in Seq(Job)
    BY <2>2, Rest, QueueEmpty
  <2> QED BY <1>1, <1>17, <2>2, <2>3 DEF Reload, TypeOK
<1> QED BY <1>7, <1>8, <1>9, <1>10, <1>11, <1>12, <1>13, <1>14, <1>15, <1>16, <1>17 DEF User

\* A job is served.
LEMMA TypeServe == TypeOK /\ Serve => TypeOK'
<1> SUFFICES ASSUME TypeOK, Serve PROVE TypeOK'
  OBVIOUS
<1> DEFINE job == Head(queue)
<1>1. /\ queue \in Seq(Job) /\ queue # <<>> /\ job \in Action /\ job # refresh
      /\ row \in Row \cup {None} /\ told \in Nat
      /\ UNCHANGED <<page, buttons, editor, confirmingDelete>>
  <2>1. queue \in Seq(Job) /\ queue # <<>> /\ job # refresh
    BY DEF TypeOK, Serve
  <2>2. job \in Action
    BY <2>1, QueueHolds DEF Job
  <2> QED BY <2>1, <2>2 DEF TypeOK, Serve
<1>2. PICK a \in apiFetch(Answers(job)) :
        /\ \/ a = Ok /\ row' = Done(job)
           \/ a = Unavailable /\ Ok \in Answers(job) /\ row' = Done(job)
           \/ a # Ok /\ row' = row
        /\ queue' = [queue EXCEPT ![1] = Reply(job, a)]
        /\ told'  = IF a = Ok /\ job.kind # "delete" THEN row'.version
                    ELSE IF a = Conflict /\ job.kind \in {"transition", "update"}
                    THEN row.version ELSE told
  BY DEF Serve
<1>3. row # None => row \in Row /\ row.version \in Nat
  BY <1>1 DEF Row
<1>4. row' \in Row \cup {None}
  BY <1>1, <1>2, <1>3, JobAnswers, DoneRow
<1>5. told' \in Nat
  <2>1. a = Ok /\ job.kind # "delete" => row'.version \in Nat
    <3> SUFFICES ASSUME a = Ok, job.kind # "delete" PROVE row'.version \in Nat
      OBVIOUS
    <3>1. row \in Row /\ row' = Done(job)
      BY <1>1, <1>2, <1>3, JobAnswers
    <3> QED BY <1>1, <3>1, DoneRow DEF Row
  <2>2. a = Conflict => row.version \in Nat
    BY <1>1, <1>2, <1>3, JobAnswers
  <2> QED BY <1>1, <1>2, <2>1, <2>2
<1>6. queue' \in Seq(Job)
  <2>1. (IF a = Ok THEN row ELSE None) \in Row \cup {None}
    BY <1>1
  <2>2. a \in {0, Ok, NotFound, Conflict, Invalid, Unavailable}
    BY <1>1, <1>2, JobAnswers
  <2>3. Reply(job, a) \in Job
    BY <1>1, <2>1, <2>2 DEF Reply, Action, Job
  <2> QED BY <1>1, <1>2, <2>3, QueueAnswer
<1> QED BY <1>1, <1>4, <1>5, <1>6 DEF TypeOK

\* An answer reaches the tab, or the page is rendered again.
LEMMA TypeSettle == TypeOK /\ (Settle \/ Refresh) => TypeOK'
<1> SUFFICES ASSUME TypeOK, Settle \/ Refresh PROVE TypeOK'
  OBVIOUS
<1>1. /\ queue \in Seq(Job) /\ queue # <<>> /\ Tail(queue) \in Seq(Job)
      /\ row \in Row \cup {None} /\ told \in Nat /\ TypedTab /\ UNCHANGED <<row, told>>
      /\ editor \in Editor /\ confirmingDelete \in BOOLEAN
  BY QueueLeave DEF TypeOK, TypedTab, Settle, Refresh
<1>2. \A q \in Seq(Job) : Append(q, refresh) \in Seq(Job)
  <2>1. refresh \in Job
    BY DEF Job
  <2> QED BY <2>1, QueueJoin
<1>3. SUFFICES TypedTab' /\ queue' \in Seq(Job)
  BY <1>1 DEF TypeOK, TypedTab
<1>4. CASE Settle
  <2> DEFINE job == Head(queue)
             e == IF job.kind # "update" THEN editor
                  ELSE [editor EXCEPT !.text = None, !.editing = @ /\ job.answer # Ok,
                                      !.chose = @ /\ job.answer # Ok]
  <2>1. e \in Editor
    <3>1. (editor.editing /\ job.answer # Ok) \in BOOLEAN /\ (editor.chose /\ job.answer # Ok) \in BOOLEAN
      OBVIOUS
    <3>2. [editor EXCEPT !.text = None, !.editing = (editor.editing /\ job.answer # Ok),
                         !.chose = (editor.chose /\ job.answer # Ok)] \in Editor
      BY <1>1, <3>1 DEF Editor
    <3> QED BY <1>1, <3>2
  <2>2. /\ IF job.answer # Ok
           THEN /\ editor' = e
                /\ confirmingDelete' = (confirmingDelete /\ job.kind # "delete")
                /\ UNCHANGED <<page, buttons>>
           ELSE IF job.kind = "delete" \/ row = None
           THEN Unmount
           ELSE (\E t \in BOOLEAN : Show(row, t, e)) /\ UNCHANGED confirmingDelete
        /\ queue' = IF Refreshes(job) THEN Append(Tail(queue), refresh) ELSE Tail(queue)
    BY <1>4 DEF Settle
  <2> HIDE DEF e
  <2>3. CASE job.answer # Ok
    BY <1>1, <1>2, <2>1, <2>2, <2>3 DEF TypedTab
  <2>4. CASE Unmount
    BY <1>1, <1>2, <2>2, <2>4, UnmountTypes
  <2>5. ASSUME row # None, NEW t \in BOOLEAN, Show(row, t, e), UNCHANGED confirmingDelete
        PROVE  TypedTab'
    BY <1>1, <2>1, <2>5, ShowTypes
  <2>6. queue' \in Seq(Job)
    BY <1>1, <1>2, <2>2
  <2> QED BY <2>2, <2>3, <2>4, <2>5, <2>6
<1>5. CASE Refresh
  <2>1. ASSUME row # None, NEW t \in BOOLEAN, Show(row, t, editor), UNCHANGED confirmingDelete
        PROVE  TypedTab'
    BY <1>1, <2>1, ShowTypes
  <2> QED BY <1>1, <1>5, <2>1, UnmountTypes DEF Refresh
<1> QED BY <1>4, <1>5

\* Every step keeps the types.
LEMMA TypeStep == TypeOK /\ [Next]_vars => TypeOK'
<1> SUFFICES ASSUME TypeOK, [Next]_vars PROVE TypeOK'
  OBVIOUS
<1>1. CASE Elsewhere
  <2>1. row \in Row /\ row.version \in Nat /\ row.status \in VALID_STATES
    BY <1>1 DEF Elsewhere, TypeOK, Row
  <2>2. \A to \in valid_next_states(row.status) :
          [row EXCEPT !.status = to, !.version = @ + 1] \in Row
    BY <2>1, Stages, WrittenRow, DetailPageAssumption
  <2>3. \A v \in Texts, c \in Channels :
          [row EXCEPT !.text = v, !.channel = c, !.version = @ + 1] \in Row
    BY <2>1, WrittenRow
  <2>4. row' \in Row \cup {None}
    BY <1>1, <2>2, <2>3 DEF Elsewhere
  <2> QED BY <1>1, <2>4 DEF Elsewhere, TypeOK
<1>2. CASE UNCHANGED vars
  BY <1>2 DEF vars, TypeOK
<1> QED BY <1>1, <1>2, TypeUser, TypeServe, TypeSettle DEF Next

\* The page opens well formed.
LEMMA TypeInit == Init => TypeOK
<1> SUFFICES ASSUME Init PROVE TypeOK
  OBVIOUS
<1>1. PICK s \in Starts, t \in BOOLEAN :
        /\ row = [status  |-> s,                       version |-> 0,
                  text    |-> CHOOSE v \in Texts : TRUE,
                  channel |-> CHOOSE c \in Channels : TRUE]
        /\ page    = [row |-> row, table |-> t]
        /\ buttons = Closed
        /\ editor  = Unedited(row)
        /\ confirmingDelete = FALSE
        /\ queue   = <<>>
        /\ told    = 0
  BY DEF Init
<1>2. row \in Row
  <2>1. (CHOOSE v \in Texts : TRUE) \in Texts /\ (CHOOSE c \in Channels : TRUE) \in Channels
    BY DetailPageAssumption
  <2> QED BY <1>1, <2>1, DetailPageAssumption DEF Row
<1> QED BY <1>1, <1>2, Rest, QueueEmpty DEF TypeOK, Page

\* TypeOK: props, panels, form and queue stay well formed.
THEOREM TypeCorrect == Spec => []TypeOK
BY TypeInit, TypeStep, PTL DEF Spec

-------------------------------------------------------------------------------
\* Where accepted actions land.

\* A copy of a row: not ahead of it, and the row itself while the versions agree.
CopyOf(copy, r) == copy.version <= r.version /\ (copy.version = r.version => copy = r)

PageIsHonest == page # None /\ row # None => CopyOf(page.row, row)

\* What an action says of the render it was started from.
SaysWhatItSaw(job) ==
  /\ job.kind = "update" /\ ~job.typed => job.text = job.saw.text
  /\ job.kind = "transition" /\ job.to = "applied" /\ job.saw.status \notin ACTIVE_STATES
       /\ job.table => job.note

\* An accepted action met the row it was started from.
MetWhatItSaw(job) ==
  job.answer = Ok =>
    /\ job.kind = "transition" => job.met.status = job.saw.status
    /\ job.kind = "update" => job.met = job.saw

QueueIsHonest ==
  \A job \in Jobs(queue) : job # refresh =>
    /\ row # None => CopyOf(job.saw, row)
    /\ SaysWhatItSaw(job)
    /\ MetWhatItSaw(job)

LandingInv == TypeOK /\ PageIsHonest /\ QueueIsHonest

\* A gesture adds an action that says what it saw, or none.
LEMMA LandingJoin ==
  ASSUME LandingInv, page # None, NEW job \in Action, queue' = Append(queue, job),
         job.saw = page.row, job.answer = 0, SaysWhatItSaw(job),
         UNCHANGED <<row, page>>
  PROVE  PageIsHonest' /\ QueueIsHonest'
<1>1. Jobs(queue') = Jobs(queue) \cup {job}
  BY QueueJoin DEF LandingInv, TypeOK, Job
<1>2. MetWhatItSaw(job)
  BY DEF MetWhatItSaw, Ok
<1> QED BY <1>1, <1>2 DEF LandingInv, PageIsHonest, QueueIsHonest

\* Nothing new is said of the row, and the page shows none or a later one.
LEMMA LandingKept ==
  ASSUME LandingInv, UNCHANGED row, UNCHANGED page \/ page' = None \/ page'.row = row,
         Jobs(queue') \subseteq Jobs(queue) \cup {refresh}
  PROVE  PageIsHonest' /\ QueueIsHonest'
<1>1. row # None => CopyOf(row, row)
  BY DEF LandingInv, TypeOK, Row, CopyOf
<1>2. PageIsHonest'
  BY <1>1 DEF LandingInv, PageIsHonest
<1> QED BY <1>2 DEF LandingInv, QueueIsHonest

\* A written row moves past every copy.
LEMMA Overtaken ==
  ASSUME NEW copy \in Row, NEW r \in Row, NEW w \in Row, w = r \/ w.version = r.version + 1,
         CopyOf(copy, r)
  PROVE  CopyOf(copy, w)
BY DEF Row, CopyOf

\* The user's gestures.
LEMMA LandingUser == LandingInv /\ User => PageIsHonest' /\ QueueIsHonest'
<1> SUFFICES ASSUME LandingInv, User PROVE PageIsHonest' /\ QueueIsHonest'
  OBVIOUS
<1>1. TypeOK
  BY DEF LandingInv
<1>2. CASE UNCHANGED <<row, page, queue>>
  BY <1>2, LandingKept
<1>3. page # None => /\ page.row.status \in VALID_STATES
                     /\ valid_next_states(page.row.status) \subseteq VALID_STATES
  BY <1>1, Stages DEF TypeOK, Page, Row
<1>4. ASSUME page # None, NEW to \in valid_next_states(page.row.status), NEW note \in BOOLEAN,
             RevivalPanel(to) => note, go(to, note)
      PROVE  PageIsHonest' /\ QueueIsHonest'
  <2> DEFINE job == Transition(to, note)
  <2>1. /\ job \in Action /\ job.kind = "transition" /\ job.saw = page.row
        /\ job.to = to /\ job.note = note /\ job.table = page.table /\ job.answer = 0
    BY <1>1, <1>3, <1>4, TransitionJob
  <2>2. queue' = Append(queue, job) /\ UNCHANGED <<row, page>>
    BY <1>4 DEF go, Enqueue, Transition
  <2> HIDE DEF job
  <2>3. to = "applied" /\ page.row.status \notin ACTIVE_STATES /\ page.table => note
    BY <1>3, <1>4, Stages DEF RevivalPanel, revivable, canRevive
  <2>4. SaysWhatItSaw(job)
    BY <2>1, <2>3 DEF SaysWhatItSaw
  <2> QED BY <1>4, <2>1, <2>2, <2>4, LandingJoin
<1>5. ASSUME NEW s \in VALID_STATES, handleClick(s) PROVE PageIsHonest' /\ QueueIsHonest'
  BY <1>2, <1>4, <1>5 DEF handleClick, Panel
<1>6. CASE Confirm
  <2>1. /\ page # None /\ buttons.confirming \in valid_next_states(page.row.status)
        /\ buttons.note \in BOOLEAN
    BY <1>1, <1>6 DEF Confirm, PanelOpen, TypeOK, Buttons
  <2>2. CASE RevivalPanel(buttons.confirming)
    <3>1. buttons.confirming = "applied" /\ go("applied", TRUE)
      BY <1>6, <2>2 DEF Confirm, RevivalPanel
    <3> QED BY <1>4, <2>1, <3>1
  <2>3. CASE ~RevivalPanel(buttons.confirming)
    BY <1>4, <1>6, <2>1, <2>3 DEF Confirm
  <2> QED BY <2>2, <2>3
<1>7. CASE onSubmit
  <2>1. page # None /\ queue' = Append(queue, Update) /\ UNCHANGED <<row, page>>
    BY <1>7 DEF onSubmit, Enqueue, Update
  <2>2. /\ Update \in Action /\ Update.kind = "update" /\ Update.saw = page.row
        /\ Update.answer = 0 /\ (~Update.typed => Update.text = page.row.text)
    BY <1>1, <2>1, UpdateJob
  <2>3. SaysWhatItSaw(Update)
    BY <2>2 DEF SaysWhatItSaw
  <2> QED BY <2>1, <2>2, <2>3, LandingJoin
<1>8. ASSUME NEW kind \in {"upload", "delete"}, page # None, Enqueue(Blank(kind)),
             UNCHANGED <<row, page>>
      PROVE  PageIsHonest' /\ QueueIsHonest'
  <2>1. /\ Blank(kind) \in Action /\ Blank(kind).kind = kind /\ Blank(kind).saw = page.row
        /\ Blank(kind).answer = 0
    BY <1>1, <1>8, BlankAction DEF Kinds
  <2>2. SaysWhatItSaw(Blank(kind))
    BY <2>1 DEF SaysWhatItSaw
  <2> QED BY <1>8, <2>1, <2>2, LandingJoin DEF Enqueue
<1>9. CASE onChange \/ ConfirmDelete
  BY <1>8, <1>9 DEF onChange, ConfirmDelete
<1>10. CASE Reload
  <2>1. UNCHANGED row /\ page'.row = row /\ Jobs(queue') = {}
    BY <1>10, QueueEmpty DEF Reload
  <2> QED BY <2>1, LandingKept
<1> QED BY <1>2, <1>5, <1>6, <1>7, <1>9, <1>10
        DEF User, TypeNote, setConfirmingDelete, cancelConfirm, Edit, CancelEdit, setChannel

\* An action is accepted only by the row it was started from, unless it names none.
LEMMA LandingServe == LandingInv /\ Serve => PageIsHonest' /\ QueueIsHonest'
<1> SUFFICES ASSUME LandingInv, Serve PROVE PageIsHonest' /\ QueueIsHonest'
  OBVIOUS
<1> DEFINE job == Head(queue)
<1>1. /\ queue \in Seq(Job) /\ queue # <<>> /\ job \in Action /\ job \in Jobs(queue)
      /\ job # refresh /\ row \in Row \cup {None} /\ UNCHANGED page
  <2>1. queue \in Seq(Job) /\ queue # <<>> /\ job # refresh /\ UNCHANGED page
    BY DEF LandingInv, TypeOK, Serve
  <2> QED BY <2>1, QueueHolds DEF LandingInv, TypeOK, Job
<1>2. PICK a \in apiFetch(Answers(job)) :
        /\ \/ a = Ok /\ row' = Done(job)
           \/ a = Unavailable /\ Ok \in Answers(job) /\ row' = Done(job)
           \/ a # Ok /\ row' = row
        /\ queue' = [queue EXCEPT ![1] = Reply(job, a)]
  BY DEF Serve
<1> DEFINE answered == Reply(job, a)
<1>3. /\ answered \in Action /\ answered.kind = job.kind /\ answered.saw = job.saw
      /\ answered.answer = a /\ answered.met = IF a = Ok THEN row ELSE None
      /\ SaysWhatItSaw(job) => SaysWhatItSaw(answered)
  <2>1. (IF a = Ok THEN row ELSE None) \in Row \cup {None}
    BY <1>1
  <2>2. a \in {0, Ok, NotFound, Conflict, Invalid, Unavailable}
    BY <1>1, <1>2, JobAnswers
  <2>3. answered \in Action
    BY <1>1, <2>1, <2>2 DEF Reply, Action
  <2> QED BY <1>1, <2>3 DEF Reply, Action, SaysWhatItSaw
<1>4. Jobs(queue') \subseteq Jobs(queue) \cup {answered}
  <2>1. answered \in Job
    BY <1>3 DEF Job
  <2> QED BY <1>1, <1>2, <2>1, QueueAnswer
<1> HIDE DEF answered
<1>5. /\ row # None => CopyOf(job.saw, row) /\ row \in Row
      /\ SaysWhatItSaw(answered)
  BY <1>1, <1>3 DEF LandingInv, QueueIsHonest
<1>6. MetWhatItSaw(answered)
  <2> SUFFICES ASSUME a = Ok, job.kind \in {"transition", "update"} PROVE row = job.saw
    BY <1>3 DEF MetWhatItSaw
  <2> QED BY <1>1, <1>2, <1>5, JobAnswers DEF CopyOf
<1>7. \/ UNCHANGED row
      \/ row \in Row /\ row # None /\ row' = None
      \/ row \in Row /\ row # None /\ row' \in Row /\ (row' = row \/ row'.version = row.version + 1)
  BY <1>1, <1>2, JobAnswers, DoneRow
<1>8. ASSUME NEW copy \in Row, row # None => CopyOf(copy, row), row' # None
      PROVE  CopyOf(copy, row')
  BY <1>7, <1>8, Overtaken
<1>9. PageIsHonest'
  BY <1>1, <1>7, <1>8 DEF LandingInv, PageIsHonest, TypeOK, Page
<1>10. QueueIsHonest'
  <2> SUFFICES ASSUME NEW j \in Jobs(queue'), j # refresh
               PROVE  /\ row' # None => CopyOf(j.saw, row')
                      /\ SaysWhatItSaw(j) /\ MetWhatItSaw(j)
    BY DEF QueueIsHonest
  <2>1. CASE j = answered
    <3>1. job.saw \in Row
      BY <1>1 DEF Action
    <3> QED BY <1>3, <1>5, <1>6, <1>8, <2>1, <3>1
  <2>2. CASE j \in Jobs(queue)
    <3>1. j.saw \in Row
      BY <1>1, <2>2, QueueHolds DEF Job, Action
    <3> QED BY <1>8, <2>2, <3>1 DEF LandingInv, QueueIsHonest
  <2> QED BY <1>4, <2>1, <2>2
<1> QED BY <1>9, <1>10

\* LandingInv is inductive.
LEMMA LandingStep == LandingInv /\ [Next]_vars => LandingInv'
<1> SUFFICES ASSUME LandingInv, [Next]_vars PROVE PageIsHonest' /\ QueueIsHonest'
  BY TypeStep DEF LandingInv
<1>1. TypeOK /\ queue \in Seq(Job)
  BY DEF LandingInv, TypeOK
<1>2. queue # <<>> => /\ Tail(queue) \in Seq(Job) /\ Jobs(Tail(queue)) \subseteq Jobs(queue)
                      /\ Jobs(Append(Tail(queue), refresh)) \subseteq Jobs(queue) \cup {refresh}
  <2>1. queue # <<>> => Tail(queue) \in Seq(Job) /\ Jobs(Tail(queue)) \subseteq Jobs(queue)
    BY <1>1, QueueLeave
  <2>2. \A q \in Seq(Job) : Jobs(Append(q, refresh)) = Jobs(q) \cup {refresh}
    <3>1. refresh \in Job
      BY DEF Job
    <3> QED BY <3>1, QueueJoin
  <2> QED BY <2>1, <2>2
<1>3. CASE Settle
  <2>1. /\ queue # <<>> /\ UNCHANGED row
        /\ queue' = Tail(queue) \/ queue' = Append(Tail(queue), refresh)
        /\ UNCHANGED page \/ page' = None \/ page'.row = row
    BY <1>3 DEF Settle, Show, Unmount
  <2> QED BY <1>2, <2>1, LandingKept
<1>4. CASE Refresh
  <2>1. /\ queue # <<>> /\ UNCHANGED row /\ queue' = Tail(queue)
        /\ page' = None \/ page'.row = row
    BY <1>4 DEF Refresh, Show, Unmount
  <2> QED BY <1>2, <2>1, LandingKept
<1>5. CASE Elsewhere
  <2>1. row \in Row /\ row # None /\ row.version \in Nat /\ row.status \in VALID_STATES
    BY <1>1, <1>5 DEF Elsewhere, TypeOK, Row
  <2>2. \A to \in valid_next_states(row.status) :
          /\ [row EXCEPT !.status = to, !.version = @ + 1] \in Row
          /\ [row EXCEPT !.status = to, !.version = @ + 1].version = row.version + 1
    BY <2>1, Stages, WrittenRow, DetailPageAssumption
  <2>3. \A v \in Texts, c \in Channels :
          /\ [row EXCEPT !.text = v, !.channel = c, !.version = @ + 1] \in Row
          /\ [row EXCEPT !.text = v, !.channel = c, !.version = @ + 1].version = row.version + 1
    BY <2>1, WrittenRow
  <2>4. row' = None \/ (row' \in Row /\ row'.version = row.version + 1)
    BY <1>5, <2>2, <2>3 DEF Elsewhere
  <2>5. UNCHANGED <<page, queue>>
    BY <1>5 DEF Elsewhere
  <2>6. ASSUME NEW copy \in Row, CopyOf(copy, row), row' # None PROVE CopyOf(copy, row')
    BY <2>1, <2>4, <2>6, Overtaken
  <2>7. PageIsHonest'
    BY <1>1, <2>1, <2>5, <2>6 DEF LandingInv, PageIsHonest, TypeOK, Page
  <2>8. QueueIsHonest'
    <3>1. \A j \in Jobs(queue) : j # refresh => j.saw \in Row
      BY <1>1, QueueHolds DEF Job, Action
    <3> QED BY <2>1, <2>5, <2>6, <3>1 DEF LandingInv, QueueIsHonest
  <2> QED BY <2>7, <2>8
<1>6. CASE UNCHANGED vars
  BY <1>6, LandingKept DEF vars
<1> QED BY <1>3, <1>4, <1>5, <1>6, LandingUser, LandingServe DEF Next

\* LandingInv holds.
LEMMA Landing == Spec => []LandingInv
<1>1. Init => LandingInv
  <2> SUFFICES ASSUME Init PROVE PageIsHonest /\ QueueIsHonest
    BY TypeInit DEF LandingInv
  <2>1. Jobs(queue) = {} /\ page.row = row
    BY QueueEmpty DEF Init
  <2>2. row # None => CopyOf(row, row)
    BY TypeInit DEF TypeOK, Row, CopyOf
  <2> QED BY <2>1, <2>2 DEF PageIsHonest, QueueIsHonest
<1> QED BY <1>1, LandingStep, PTL DEF Spec

\* The head of the queue is among its jobs.
LEMMA AnsweredJobs ==
  ASSUME LandingInv, NEW kind, NEW job \in Answered(kind)
  PROVE  /\ job \in Jobs(queue) /\ job # refresh /\ job.kind = kind /\ job.answer = Ok
<1>1. queue # <<>> /\ job = Head(queue) /\ job # refresh /\ job.kind = kind /\ job.answer = Ok
  BY DEF Answered
<1> QED BY <1>1, QueueHolds DEF LandingInv, TypeOK

\* TransitionLandsWhereSeen: an accepted transition moved the row from the stage the
\* user saw, whatever was queued, refreshed or written in between.
THEOREM TransitionsLandWhereSeen == Spec => []TransitionLandsWhereSeen
<1>1. LandingInv => TransitionLandsWhereSeen
  BY AnsweredJobs DEF LandingInv, QueueIsHonest, MetWhatItSaw, TransitionLandsWhereSeen
<1> QED BY <1>1, Landing, PTL

\* RevivalsCarryReason: a re-opening accepted from a page with the table carries a note.
THEOREM RevivalsSayWhy == Spec => []RevivalsCarryReason
<1>1. LandingInv => RevivalsCarryReason
  BY AnsweredJobs
  DEF LandingInv, QueueIsHonest, MetWhatItSaw, SaysWhatItSaw, RevivalsCarryReason
<1> QED BY <1>1, Landing, PTL

\* UntouchedInputsAreKept: an accepted save writes nothing into an input left alone.
THEOREM SavesKeepUntouchedInputs == Spec => []UntouchedInputsAreKept
<1>1. LandingInv => UntouchedInputsAreKept
  BY AnsweredJobs
  DEF LandingInv, QueueIsHonest, MetWhatItSaw, SaysWhatItSaw, UntouchedInputsAreKept
<1> QED BY <1>1, Landing, PTL

\* An accepted save met the very row its page showed when the user pressed Save, every
\* field of it: what a select kept in useState overwrites then was on that page
\* (details-editor.tsx:113, applications_controller.rb's update under lock_version).
SavesMeetTheRowShown == \A job \in Answered("update") : job.met = job.saw

\* However many refreshes and other tabs came between, and although a save that changes
\* nothing keeps the version.
THEOREM SavesMeetTheirRow == Spec => []SavesMeetTheRowShown
<1>1. LandingInv => SavesMeetTheRowShown
  BY AnsweredJobs DEF LandingInv, QueueIsHonest, MetWhatItSaw, SavesMeetTheRowShown
<1> QED BY <1>1, Landing, PTL
===============================================================================
