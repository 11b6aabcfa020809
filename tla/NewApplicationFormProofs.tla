----------------------- MODULE NewApplicationFormProofs -----------------------
(***************************************************************************)
(* For every set of names and postings, every reading of them, and every   *)
(* bound: the types, that what is stored was shown, where the ownership    *)
(* warning ends up, and when one visit can make two applications.          *)
(***************************************************************************)
EXTENDS NewApplicationForm, TLAPS

-------------------------------------------------------------------------------
\* The queue.

\* What appending a job does to the queue.
LEMMA Appended ==
  ASSUME NEW q \in Seq(Job), NEW job \in Job
  PROVE  /\ Append(q, job) \in Seq(Job)
         /\ DOMAIN Append(q, job) = 1..Len(q) + 1
         /\ Append(q, job)[Len(q) + 1] = job
         /\ \A i \in 1..Len(q) : Append(q, job)[i] = q[i]
OBVIOUS

\* What taking the head off does.
LEMMA Popped ==
  ASSUME NEW q \in Seq(Job), q # <<>>
  PROVE  /\ Tail(q) \in Seq(Job)
         /\ Len(q) \in Nat \ {0}
         /\ Head(q) = q[1] /\ q[1] \in Job
         /\ DOMAIN q = 1..Len(q)
         /\ DOMAIN Tail(q) = 1..Len(q) - 1
         /\ \A i \in 1..Len(q) - 1 : Tail(q)[i] = q[i + 1]
OBVIOUS

\* What replacing the head does.
LEMMA Replaced ==
  ASSUME NEW q \in Seq(Job), q # <<>>, NEW job \in Job
  PROVE  /\ [q EXCEPT ![1] = job] \in Seq(Job)
         /\ DOMAIN [q EXCEPT ![1] = job] = DOMAIN q
         /\ 1 \in DOMAIN q
         /\ [q EXCEPT ![1] = job][1] = job
         /\ \A i \in DOMAIN q : i # 1 => [q EXCEPT ![1] = job][i] = q[i]
OBVIOUS

\* The kind of a job tells its fields.
LEMMA JobKinds ==
  ASSUME NEW job \in Job
  PROVE  /\ job.kind \in {"prefill", "check", "create"}
         /\ job.kind = "prefill" => job \in Prefill
         /\ job.kind = "check" => job \in Check
         /\ job.kind = "create" => job \in Create
BY DEF Job, Prefill, Check, Create

\* An answer, and the application a create stored, keep a job's kind and type.
LEMMA Replied ==
  ASSUME NEW job \in Job, NEW a \in Answers, NEW made \in BOOLEAN,
         made => job.kind = "create"
  PROVE  /\ Reply(job, a, made) \in Job
         /\ Reply(job, a, made).kind = job.kind
         /\ Reply(job, a, made).answer = a
         /\ job.kind = "check" => Reply(job, a, made).name = job.name
         /\ job.kind = "create" => /\ Reply(job, a, made).shown = job.shown
                                   /\ Reply(job, a, made).made = IF made THEN job.shown ELSE job.made
<1>1. CASE job.kind = "prefill"
  BY <1>1, JobKinds DEF Reply, Prefill, Job
<1>2. CASE job.kind = "check"
  BY <1>2, JobKinds DEF Reply, Check, Job
<1>3. CASE job.kind = "create"
  <2>1. job \in Create
    BY <1>3, JobKinds
  <2>2. Reply(job, a, made) \in Create
    BY <2>1 DEF Reply, createApplication, Create
  <2> QED BY <1>3, <2>1, <2>2 DEF Reply, createApplication, Create, Job
<1> QED BY <1>1, <1>2, <1>3, JobKinds

-------------------------------------------------------------------------------
\* Types.

\* A fresh visit is well formed, whatever was shared.
LEMMA FreshTypes ==
  ASSUME NEW share \in Postings \cup {None}
  PROVE  /\ FormFor(share) \in Form
         /\ (share \in Pastes) \in BOOLEAN
         /\ QueueFor(share) \in Seq(Job)
         /\ Fresh \in Past
<1>1. FormFor(share) \in Form
  BY DEF FormFor, Form
<1>2. QueueFor(share) \in Seq(Job)
  <2>1. CASE share \in Links
    <3>1. prefill(share, share) \in Job
      BY <2>1 DEF prefill, Prefill, Job, Postings, Answers
    <3> QED BY <2>1, <3>1 DEF QueueFor
  <2>2. CASE share \notin Links
    BY <2>2 DEF QueueFor
  <2> QED BY <2>1, <2>2
<1>3. Fresh \in Past
  BY NewApplicationFormAssumption DEF Fresh, Past
<1> QED BY <1>1, <1>2, <1>3

\* What a pre-fill leaves in the fields is well formed.
LEMMA FilledType ==
  ASSUME NEW f \in Form, NEW job \in Prefill
  PROVE  /\ Filled(f, job) \in Form
         /\ extract[job.from].company \in Companies \cup {None}
<1>1. extract[job.from] \in Extracted
  BY NewApplicationFormAssumption DEF Prefill
<1>2. job.from \in Postings /\ job.url \in Links \cup {None}
  BY DEF Prefill
<1> DEFINE read == extract[job.from]
<1>3. /\ Or(read.company, f.company) \in Companies \cup {None}
      /\ Or(read.channel, f.channel) \in Channels \cup {None}
      /\ Or(read.agency, f.agency) \in Agencies \cup {None}
      /\ Or(job.url, f.url) \in Links \cup {None}
  BY <1>1, <1>2 DEF Or, Extracted, Form
<1>4. Filled(f, job) = [f EXCEPT !.company = Or(read.company, f.company),
                                 !.channel = Or(read.channel, f.channel),
                                 !.agency  = Or(read.agency, f.agency),
                                 !.text    = job.from,
                                 !.url     = Or(job.url, f.url)]
  BY DEF Filled
<1>5. Filled(f, job) \in Form
  <2> HIDE DEF read
  <2> QED BY <1>2, <1>3, <1>4 DEF Form
<1> QED BY <1>1, <1>5 DEF Extracted

\* Checking a name, or none, leaves the queue and the warning well formed.
LEMMA CheckTypes ==
  ASSUME TypeOK, NEW name \in Companies \cup {None}, NEW rest \in Seq(Job),
         runOwnershipCheck(name, rest)
  PROVE  queue' \in Seq(Job) /\ ownership' \in Companies \cup {None}
<1>1. CASE name = None
  BY <1>1 DEF runOwnershipCheck, TypeOK
<1>2. CASE name # None
  <2>1. [kind |-> "check", name |-> name, answer |-> 0] \in Job
    BY <1>2 DEF Check, Job, Answers
  <2> QED BY <1>2, <2>1, Appended DEF runOwnershipCheck, TypeOK
<1> QED BY <1>1, <1>2

\* Steps that start a job.
LEMMA TypeStarts ==
  ASSUME TypeOK, Blur \/ onPrefill \/ onPrefillFromPaste \/ onSubmit
  PROVE  TypeOK'
<1>1. CASE Blur
  <2>1. form.company \in Companies \cup {None}
    BY DEF TypeOK, Form
  <2>2. queue' \in Seq(Job) /\ ownership' \in Companies \cup {None}
    BY <1>1, <2>1, CheckTypes DEF Blur, TypeOK
  <2>3. past' \in Past
    BY <1>1, <2>1 DEF Blur, TypeOK, Past
  <2> QED BY <1>1, <2>2, <2>3 DEF Blur, TypeOK
<1>2. ASSUME NEW p \in Postings \cup {None}, startPrefill(p, form.url) PROVE TypeOK'
  <2>1. form.url \in Links \cup {None}
    BY DEF TypeOK, Form
  <2>2. prefill(p, form.url) \in Job
    BY <1>2, <2>1 DEF startPrefill, prefill, Prefill, Job, Answers
  <2> QED BY <1>2, <2>2, Appended DEF startPrefill, TypeOK
<1>3. CASE onPrefill
  BY <1>2, <1>3 DEF onPrefill, TypeOK, Form, Postings
<1>4. CASE onPrefillFromPaste
  BY <1>2, <1>4 DEF onPrefillFromPaste, TypeOK, Form, Postings
<1>5. CASE onSubmit
  <2>1. Shown \in Body
    BY <1>5 DEF onSubmit, Submit, Shown, Body, TypeOK, Form
  <2>2. [kind |-> "create", shown |-> Shown, answer |-> 0, made |-> None] \in Job
    BY <2>1 DEF Create, Job, Answers
  <2> QED BY <1>5, <2>2, Appended DEF onSubmit, Submit, TypeOK
<1> QED BY <1>1, <1>3, <1>4, <1>5

\* The API's answer to the head of the queue.
LEMMA TypeServe == TypeOK /\ Serve => TypeOK'
<1> SUFFICES ASSUME TypeOK, Serve PROVE TypeOK'
  OBVIOUS
<1>1. /\ queue \in Seq(Job) /\ queue # <<>> /\ past \in Past
      /\ UNCHANGED <<form, pasteOpen, ownership, open>>
  BY DEF TypeOK, Serve
<1>2. Head(queue) \in Job
  BY <1>1, Popped
<1>3. PICK a \in Answers, made \in BOOLEAN :
        /\ made => Head(queue).kind = "create"
        /\ made => past.created < MaxCreates
        /\ Head(queue).kind = "create" /\ a = Unavailable => past.lost < MaxLost
        /\ queue' = [queue EXCEPT ![1] = Reply(Head(queue), a, made)]
        /\ past' = [past EXCEPT
             !.created = IF made THEN @ + 1 ELSE @,
             !.lost    = IF Head(queue).kind = "create" /\ a = Unavailable THEN @ + 1 ELSE @]
  BY <1>2, JobKinds DEF Serve, apiFetch, Answers
<1>4. queue' \in Seq(Job)
  BY <1>1, <1>2, <1>3, Replied, Replaced
<1>5. past' \in Past
  <2>1. past.created \in 0..MaxCreates /\ past.lost \in 0..MaxLost
    BY <1>1 DEF Past
  <2>2. /\ (IF made THEN past.created + 1 ELSE past.created) \in 0..MaxCreates
        /\ (IF Head(queue).kind = "create" /\ a = Unavailable THEN past.lost + 1 ELSE past.lost)
             \in 0..MaxLost
    BY <1>3, <2>1, NewApplicationFormAssumption
  <2> QED BY <1>1, <1>3, <2>2 DEF Past
<1> QED BY <1>1, <1>4, <1>5 DEF TypeOK

\* An answer reaches the tab.
LEMMA TypeSettle == TypeOK /\ Settle => TypeOK'
<1> SUFFICES ASSUME TypeOK, Settle PROVE TypeOK'
  OBVIOUS
<1> DEFINE job == Head(queue)
<1>1. /\ queue \in Seq(Job) /\ queue # <<>> /\ job \in Job /\ Tail(queue) \in Seq(Job)
      /\ form \in Form /\ past \in Past /\ ownership \in Companies \cup {None}
      /\ pasteOpen \in BOOLEAN /\ open \in BOOLEAN
  BY Popped DEF TypeOK, Settle
<1>2. CASE ~open /\ queue' = Tail(queue) /\ UNCHANGED <<form, pasteOpen, ownership, open, past>>
  BY <1>1, <1>2 DEF TypeOK
<1>3. CASE /\ job.kind = "check"
           /\ ownership' = IF job.answer = Ok THEN job.name ELSE None
           /\ past'  = [past EXCEPT !.unchecked = job.answer # Ok]
           /\ queue' = Tail(queue)
           /\ UNCHANGED <<form, pasteOpen, open>>
  <2>1. job.name \in Companies
    BY <1>1, <1>3, JobKinds DEF Check
  <2>2. past' \in Past
    BY <1>1, <1>3 DEF Past
  <2> QED BY <1>1, <1>3, <2>1, <2>2 DEF TypeOK
<1>4. CASE job.kind = "prefill" /\ applyPrefill(job)
  <2>1. job \in Prefill
    BY <1>1, <1>4, JobKinds
  <2> DEFINE name == extract[job.from].company
  <2>2. Filled(form, job) \in Form /\ name \in Companies \cup {None}
    BY <1>1, <2>1, FilledType
  <2>3. /\ form' = Filled(form, job)
        /\ IF name = None THEN queue' = Tail(queue) /\ UNCHANGED ownership
                          ELSE runOwnershipCheck(name, Tail(queue))
        /\ past' = [past EXCEPT !.settled = Or(name, @)]
        /\ UNCHANGED <<pasteOpen, open>>
    BY <1>4 DEF applyPrefill
  <2>4. queue' \in Seq(Job) /\ ownership' \in Companies \cup {None}
    BY <1>1, <2>2, <2>3, CheckTypes
  <2>5. past' \in Past
    <3>1. Or(name, past.settled) \in Companies \cup {None}
      BY <1>1, <2>2 DEF Or, Past
    <3> HIDE DEF name
    <3> QED BY <1>1, <2>3, <3>1 DEF Past
  <2> QED BY <1>1, <2>2, <2>3, <2>4, <2>5 DEF TypeOK
<1>5. CASE PrefillFails(job)
  BY <1>1, <1>5 DEF PrefillFails, TypeOK
<1>6. CASE /\ open' = (job.answer # Ok)
           /\ form' = IF job.answer = Ok THEN FormFor(None) ELSE [form EXCEPT !.rest = FALSE]
           /\ pasteOpen' = (pasteOpen /\ job.answer # Ok)
           /\ ownership' = IF job.answer = Ok THEN None ELSE ownership
           /\ queue' = Tail(queue)
           /\ UNCHANGED past
  <2>1. form' \in Form
    BY <1>1, <1>6, FreshTypes DEF Form
  <2> QED BY <1>1, <1>6, <2>1 DEF TypeOK
<1> QED BY <1>2, <1>3, <1>4, <1>5, <1>6 DEF Settle

\* Every step keeps the types.
LEMMA TypeStep == TypeOK /\ [Next]_vars => TypeOK'
<1> SUFFICES ASSUME TypeOK, [Next]_vars PROVE TypeOK'
  OBVIOUS
<1>1. ASSUME NEW f \in OneField, Type(f) PROVE TypeOK'
  <2>1. f \in Form
    BY DEF TypeOK, OneField, Form
  <2> QED BY <1>1, <2>1 DEF Type, TypeOK
<1>2. ASSUME NEW v \in BOOLEAN, Attach(v) PROVE TypeOK'
  BY <1>2 DEF Attach, TypeOK, Form
<1>3. CASE Blur \/ onPrefill \/ onPrefillFromPaste \/ onSubmit
  BY <1>3, TypeStarts
<1>4. CASE Serve
  BY <1>4, TypeServe
<1>5. CASE Settle
  BY <1>5, TypeSettle
<1>6. CASE Visit
  BY <1>6, FreshTypes DEF Visit, TypeOK
<1>7. CASE UNCHANGED vars
  BY <1>7 DEF vars, TypeOK
<1> QED BY <1>1, <1>2, <1>3, <1>4, <1>5, <1>6, <1>7 DEF Next

\* TypeOK: the fields, the queue and the history stay well formed.
THEOREM TypeCorrect == Spec => []TypeOK
<1>1. Init => TypeOK
  BY FreshTypes DEF Init, TypeOK
<1> QED BY <1>1, TypeStep, PTL DEF Spec

-------------------------------------------------------------------------------
\* What is stored was shown.

\* The queue runOwnershipCheck leaves.
Checked(name, rest) ==
  IF name = None THEN rest
                 ELSE Append(rest, [kind |-> "check", name |-> name, answer |-> 0])

\* Asking for a check of what the answer at the head brought stores nothing.
LEMMA CheckStoresNothing ==
  ASSUME TypeOK, CreatedAsShown, NEW name \in Companies \cup {None}, NEW rest \in Seq(Job),
         queue # <<>>, rest = Tail(queue),
         queue' = Checked(name, rest)
  PROVE  CreatedAsShown'
<1>1. \A i \in DOMAIN rest :
        rest[i].kind = "create" /\ rest[i].made # None => rest[i].made = rest[i].shown
  BY Popped DEF CreatedAsShown, TypeOK
<1>2. CASE name = None
  BY <1>1, <1>2 DEF Checked, CreatedAsShown
<1>3. CASE name # None
  <2> DEFINE job == [kind |-> "check", name |-> name, answer |-> 0]
  <2>1. job \in Job /\ job.kind # "create"
    BY <1>3 DEF Check, Job, Answers
  <2>2. queue' = Append(rest, job)
    BY <1>3 DEF Checked
  <2> HIDE DEF job
  <2> QED BY <1>1, <2>1, <2>2, Appended DEF CreatedAsShown
<1> QED BY <1>2, <1>3

\* CreatedAsShown is inductive together with the types.
LEMMA ShownStep == TypeOK /\ CreatedAsShown /\ [Next]_vars => CreatedAsShown'
<1> SUFFICES ASSUME TypeOK, CreatedAsShown, [Next]_vars PROVE CreatedAsShown'
  OBVIOUS
<1>1. queue \in Seq(Job)
  BY DEF TypeOK
<1>2. ASSUME NEW job \in Job, job.kind = "create" => job.made = None,
             queue' = Append(queue, job)
      PROVE  CreatedAsShown'
  BY <1>1, <1>2, Appended DEF CreatedAsShown
<1>3. ASSUME queue # <<>>, queue' = Tail(queue) PROVE CreatedAsShown'
  BY <1>1, <1>3, Popped DEF CreatedAsShown
<1>4. CASE UNCHANGED queue
  BY <1>4 DEF CreatedAsShown
<1>6. CASE Blur
  <2>1. form.company \in Companies \cup {None}
    BY DEF TypeOK, Form
  <2>2. queue' = Checked(form.company, queue)
    BY <1>6 DEF Blur, runOwnershipCheck, Checked
  <2>3. CASE form.company = None
    BY <1>4, <2>2, <2>3 DEF Checked
  <2>4. CASE form.company # None
    <3> DEFINE job == [kind |-> "check", name |-> form.company, answer |-> 0]
    <3>1. job \in Job /\ job.kind # "create"
      BY <2>1, <2>4 DEF Check, Job, Answers
    <3>2. queue' = Append(queue, job)
      BY <2>2, <2>4 DEF Checked
    <3> HIDE DEF job
    <3> QED BY <1>2, <3>1, <3>2
  <2> QED BY <2>3, <2>4
<1>7. ASSUME NEW p \in Postings \cup {None}, startPrefill(p, form.url) PROVE CreatedAsShown'
  <2>1. prefill(p, form.url) \in Job /\ prefill(p, form.url).kind # "create"
    BY <1>7 DEF startPrefill, prefill, Prefill, Job, Answers, TypeOK, Form
  <2> QED BY <1>2, <1>7, <2>1 DEF startPrefill
<1>8. CASE onSubmit
  <2>1. Shown \in Body
    BY <1>8 DEF onSubmit, Submit, Shown, Body, TypeOK, Form
  <2> DEFINE job == [kind |-> "create", shown |-> Shown, answer |-> 0, made |-> None]
  <2>2. job \in Job /\ job.made = None
    BY <2>1 DEF Create, Job, Answers
  <2>3. queue' = Append(queue, job)
    BY <1>8 DEF onSubmit, Submit
  <2> HIDE DEF job
  <2> QED BY <1>2, <2>2, <2>3
<1>9. CASE Serve
  <2>1. queue # <<>> /\ Head(queue) \in Job
    BY <1>1, <1>9, Popped DEF Serve
  <2>2. PICK a \in Answers, made \in BOOLEAN :
          /\ made => Head(queue).kind = "create"
          /\ queue' = [queue EXCEPT ![1] = Reply(Head(queue), a, made)]
    BY <1>9, <2>1, JobKinds DEF Serve, apiFetch, Answers
  <2> DEFINE job == Reply(Head(queue), a, made)
  <2>3. job \in Job /\ (job.kind = "create" /\ job.made # None => job.made = job.shown)
    BY <1>1, <2>1, <2>2, Replied, Popped DEF CreatedAsShown
  <2> HIDE DEF job
  <2>4. queue' = [queue EXCEPT ![1] = job]
    BY <2>2 DEF job
  <2>5. /\ DOMAIN queue' = DOMAIN queue
        /\ queue'[1] = job
        /\ \A i \in DOMAIN queue : i # 1 => queue'[i] = queue[i]
    BY <1>1, <2>1, <2>3, <2>4, Replaced
  <2> QED BY <2>3, <2>5 DEF CreatedAsShown
<1>10. CASE Settle
  <2>1. queue # <<>> /\ Head(queue) \in Job
    BY <1>1, <1>10, Popped DEF Settle
  <2>2. CASE queue' = Tail(queue)
    BY <1>3, <2>1, <2>2
  <2>3. CASE Head(queue).kind = "prefill" /\ applyPrefill(Head(queue))
    <3>1. Head(queue) \in Prefill
      BY <2>1, <2>3, JobKinds
    <3>2. extract[Head(queue).from].company \in Companies \cup {None}
      BY <3>1, FilledType DEF TypeOK
    <3>3. CASE extract[Head(queue).from].company = None
      BY <2>2, <2>3, <3>3 DEF applyPrefill
    <3>4. CASE extract[Head(queue).from].company # None
      <4>1. queue' = Checked(extract[Head(queue).from].company, Tail(queue))
        BY <2>3, <3>4 DEF applyPrefill, runOwnershipCheck, Checked
      <4> QED BY <1>1, <2>1, <3>2, <4>1, Popped, CheckStoresNothing
    <3> QED BY <3>3, <3>4
  <2> QED BY <1>10, <2>2, <2>3 DEF Settle, PrefillFails
<1>11. CASE Visit
  <2>1. PICK share \in Postings \cup {None} : queue' = QueueFor(share)
    BY <1>11 DEF Visit
  <2>2. \A i \in DOMAIN QueueFor(share) : QueueFor(share)[i].kind # "create"
    BY DEF QueueFor, prefill
  <2> QED BY <2>1, <2>2 DEF CreatedAsShown
<1> QED
  BY <1>4, <1>6, <1>7, <1>8, <1>9, <1>10, <1>11
  DEF Next, vars, Type, Attach, onPrefill, onPrefillFromPaste, TypeOK, Form, Postings

\* CreatedAsShown: what a create stores is what the form showed when it was submitted.
THEOREM StoredAsShown == Spec => []CreatedAsShown
<1>1. Init => CreatedAsShown
  BY DEF Init, QueueFor, prefill, CreatedAsShown
<1> QED BY <1>1, ShownStep, TypeCorrect, PTL DEF Spec

-------------------------------------------------------------------------------
\* When one visit makes two applications.

OneCreate ==
  \A i, j \in DOMAIN queue : queue[i].kind = "create" /\ queue[j].kind = "create" => i = j

\* A closed form has no create left; an open one has stored no more than were lost,
\* unless the create that stored the last one is about to redirect.
CreatesAreCounted ==
  /\ past.created <= past.lost + 1
  /\ ~open => \A i \in DOMAIN queue : queue[i].kind # "create"
  /\ open => \/ past.created <= past.lost
             \/ \E i \in DOMAIN queue : queue[i].kind = "create" /\ queue[i].answer = Ok

CreatesInv == OneCreate /\ CreatesAreCounted

\* A job that is not a create, queued on an open form, disturbs no count.
LEMMA CreatesKeptByAppend ==
  ASSUME TypeOK, CreatesInv, NEW job \in Job, queue' = Append(queue, job),
         open, UNCHANGED open, past'.created = past.created, past'.lost = past.lost,
         job.kind = "create" => \A i \in DOMAIN queue : queue[i].kind # "create"
  PROVE  CreatesInv'
<1>1. queue \in Seq(Job) /\ DOMAIN queue = 1..Len(queue) /\ Len(queue) \in Nat
  BY DEF TypeOK
<1>2. /\ DOMAIN queue' = 1..Len(queue) + 1
      /\ queue'[Len(queue) + 1] = job
      /\ \A i \in 1..Len(queue) : queue'[i] = queue[i]
  BY <1>1, Appended
<1>3. OneCreate'
  BY <1>1, <1>2 DEF CreatesInv, OneCreate
<1>4. CreatesAreCounted'
  BY <1>1, <1>2 DEF CreatesInv, CreatesAreCounted
<1> QED BY <1>3, <1>4 DEF CreatesInv

\* So does taking off a head that is no create, or a create that stored nothing.
LEMMA CreatesKeptByPop ==
  ASSUME TypeOK, CreatesInv, queue # <<>>, queue' = Tail(queue),
         UNCHANGED open, past'.created = past.created, past'.lost = past.lost,
         Head(queue).kind = "create" => Head(queue).answer # Ok
  PROVE  CreatesInv'
<1>1. /\ DOMAIN queue = 1..Len(queue) /\ Len(queue) \in Nat \ {0}
      /\ Head(queue) = queue[1]
      /\ DOMAIN queue' = 1..Len(queue) - 1
      /\ \A i \in 1..Len(queue) - 1 : queue'[i] = queue[i + 1]
  BY Popped DEF TypeOK
<1>2. \A i \in DOMAIN queue' : i + 1 \in DOMAIN queue
  BY <1>1
<1>3. OneCreate'
  <2> SUFFICES ASSUME NEW i \in DOMAIN queue', NEW j \in DOMAIN queue',
                      queue'[i].kind = "create", queue'[j].kind = "create"
               PROVE  i = j
    BY DEF OneCreate
  <2>1. i + 1 = j + 1
    BY <1>1, <1>2 DEF CreatesInv, OneCreate
  <2> QED BY <1>1, <2>1
<1>4. (past.created <= past.lost + 1)' /\ (~open => \A i \in DOMAIN queue : queue[i].kind # "create")'
  BY <1>1, <1>2 DEF CreatesInv, CreatesAreCounted
<1>5. ASSUME open, NEW i \in DOMAIN queue, queue[i].kind = "create", queue[i].answer = Ok
      PROVE  \E j \in DOMAIN queue' : queue'[j].kind = "create" /\ queue'[j].answer = Ok
  <2>1. i # 1
    BY <1>1, <1>5
  <2>2. i - 1 \in DOMAIN queue' /\ queue'[i - 1] = queue[i]
    BY <1>1, <2>1
  <2> QED BY <1>5, <2>2
<1>6. (open => \/ past.created <= past.lost
               \/ \E i \in DOMAIN queue : queue[i].kind = "create" /\ queue[i].answer = Ok)'
  BY <1>5 DEF CreatesInv, CreatesAreCounted
<1> QED BY <1>3, <1>4, <1>6 DEF CreatesInv, CreatesAreCounted

\* The answer to the head counts what was stored and what was lost.
LEMMA CreatesKeptByServe == TypeOK /\ CreatesInv /\ Serve => CreatesInv'
<1> SUFFICES ASSUME TypeOK, CreatesInv, Serve PROVE CreatesInv'
  OBVIOUS
<1>1. /\ queue \in Seq(Job) /\ queue # <<>> /\ past \in Past
      /\ Head(queue) \in Job /\ Head(queue) = queue[1] /\ Head(queue).answer = 0
      /\ 1 \in DOMAIN queue /\ UNCHANGED open
  BY Popped, Replaced DEF TypeOK, Serve
<1>2. PICK a \in Answers, made \in BOOLEAN :
        /\ made => Head(queue).kind = "create" /\ a \in {Ok, Unavailable}
        /\ queue' = [queue EXCEPT ![1] = Reply(Head(queue), a, made)]
        /\ past' = [past EXCEPT
             !.created = IF made THEN @ + 1 ELSE @,
             !.lost    = IF Head(queue).kind = "create" /\ a = Unavailable THEN @ + 1 ELSE @]
  BY <1>1, JobKinds DEF Serve, apiFetch, Answers
<1> DEFINE job == Reply(Head(queue), a, made)
<1>3. job \in Job /\ job.kind = Head(queue).kind /\ job.answer = a
  BY <1>1, <1>2, Replied
<1>4. queue' = [queue EXCEPT ![1] = job]
  BY <1>2
<1> HIDE DEF job
<1>5. /\ DOMAIN queue' = DOMAIN queue
      /\ queue'[1] = job
      /\ \A i \in DOMAIN queue : i # 1 => queue'[i] = queue[i]
  BY <1>1, <1>3, <1>4, Replaced
<1>6. \A i \in DOMAIN queue : queue'[i].kind = queue[i].kind
  BY <1>1, <1>3, <1>5
<1>7. past.created \in Nat /\ past.lost \in Nat
  BY <1>1, NewApplicationFormAssumption DEF Past
<1>8. /\ past'.created = IF made THEN past.created + 1 ELSE past.created
      /\ past'.lost = IF Head(queue).kind = "create" /\ a = Unavailable
                      THEN past.lost + 1 ELSE past.lost
  BY <1>1, <1>2 DEF Past
<1>9. OneCreate'
  BY <1>5, <1>6 DEF CreatesInv, OneCreate
<1>10. CASE Head(queue).kind # "create"
  <2>1. past'.created = past.created /\ past'.lost = past.lost
    BY <1>2, <1>8, <1>10
  <2>2. \A i \in DOMAIN queue : queue[i].kind = "create" => queue'[i] = queue[i]
    BY <1>1, <1>5, <1>10
  <2> QED BY <1>1, <1>5, <1>6, <1>9, <2>1, <2>2 DEF CreatesInv, CreatesAreCounted
<1>11. CASE Head(queue).kind = "create"
  <2>1. open /\ past.created <= past.lost
    <3>1. open
      BY <1>1, <1>11 DEF CreatesInv, CreatesAreCounted
    <3>2. \A i \in DOMAIN queue : queue[i].kind = "create" => queue[i].answer = 0
      BY <1>1, <1>11 DEF CreatesInv, OneCreate
    <3> QED BY <3>1, <3>2 DEF CreatesInv, CreatesAreCounted, Ok
  <2>2. made => a = Unavailable \/ job.answer = Ok
    BY <1>2, <1>3
  <2>3. 1 \in DOMAIN queue' /\ queue'[1].kind = "create"
    BY <1>1, <1>3, <1>5, <1>11
  <2>4. past'.created <= past'.lost \/ (made /\ job.answer = Ok)
    <3>1. CASE ~made
      BY <1>7, <1>8, <2>1, <3>1
    <3>2. CASE made /\ a = Unavailable
      BY <1>7, <1>8, <1>11, <2>1, <3>2
    <3> QED BY <2>2, <3>1, <3>2
  <2>5. past'.created <= past'.lost + 1
    <3>1. past.created + 1 <= past.lost + 1
      BY <1>7, <2>1
    <3>2. past'.lost \in {past.lost, past.lost + 1} /\ past'.created \in {past.created, past.created + 1}
      BY <1>8
    <3> QED BY <1>7, <2>1, <3>1, <3>2
  <2> QED BY <1>1, <1>5, <1>9, <2>1, <2>3, <2>4, <2>5 DEF CreatesInv, CreatesAreCounted
<1> QED BY <1>10, <1>11

\* The answer to the create either closes the form or stored nothing.
LEMMA CreatesKeptBySettle == TypeOK /\ CreatesInv /\ Settle => CreatesInv'
<1> SUFFICES ASSUME TypeOK, CreatesInv, Settle PROVE CreatesInv'
  OBVIOUS
<1> DEFINE job == Head(queue)
<1>1. /\ queue \in Seq(Job) /\ queue # <<>> /\ past \in Past /\ job \in Job
      /\ DOMAIN queue = 1..Len(queue) /\ Len(queue) \in Nat \ {0}
      /\ job = queue[1] /\ 1 \in DOMAIN queue
  BY Popped DEF TypeOK, Settle
<1>2. CASE ~open /\ queue' = Tail(queue) /\ UNCHANGED <<form, pasteOpen, ownership, open, past>>
  <2>1. job.kind # "create"
    BY <1>1, <1>2 DEF CreatesInv, CreatesAreCounted
  <2> QED BY <1>1, <1>2, <2>1, CreatesKeptByPop
<1>3. CASE /\ job.kind = "check"
           /\ past'  = [past EXCEPT !.unchecked = job.answer # Ok]
           /\ queue' = Tail(queue)
           /\ UNCHANGED open
  <2>1. past'.created = past.created /\ past'.lost = past.lost
    BY <1>1, <1>3 DEF Past
  <2> QED BY <1>1, <1>3, <2>1, CreatesKeptByPop
<1>4. CASE open /\ job.kind = "prefill" /\ applyPrefill(job)
  <2>1. job \in Prefill
    BY <1>1, <1>4, JobKinds
  <2> DEFINE name == extract[job.from].company
  <2>2. name \in Companies \cup {None}
    BY <1>1, <2>1, FilledType DEF TypeOK
  <2>3. /\ queue' = Checked(name, Tail(queue))
        /\ past' = [past EXCEPT !.settled = Or(name, @)]
        /\ UNCHANGED open
    BY <1>4 DEF applyPrefill, runOwnershipCheck, Checked
  <2>4. past'.created = past.created /\ past'.lost = past.lost
    BY <1>1, <2>3 DEF Past
  <2>5. CASE name = None
    BY <1>1, <1>4, <2>3, <2>4, <2>5, CreatesKeptByPop DEF Checked
  <2>6. CASE name # None
    <3> DEFINE check == [kind |-> "check", name |-> name, answer |-> 0]
    <3>1. check \in Job /\ check.kind # "create"
      BY <2>2, <2>6 DEF Check, Job, Answers
    <3>2. queue' = Append(Tail(queue), check)
      BY <2>3, <2>6 DEF Checked
    <3> HIDE DEF check, name
    <3>3. /\ DOMAIN Tail(queue) = 1..Len(queue) - 1
          /\ DOMAIN queue' = 1..Len(queue)
          /\ \A i \in 1..Len(queue) - 1 : queue'[i] = queue[i + 1]
          /\ queue'[Len(queue)] = check
      <4>1. Tail(queue) \in Seq(Job) /\ DOMAIN Tail(queue) = 1..Len(queue) - 1
            /\ \A i \in 1..Len(queue) - 1 : Tail(queue)[i] = queue[i + 1]
        BY <1>1, Popped
      <4>2. Len(Tail(queue)) = Len(queue) - 1
        BY <1>1
      <4> QED BY <1>1, <3>1, <3>2, <4>1, <4>2, Appended
    <3>4. \A i \in DOMAIN queue' : queue'[i].kind = "create" =>
            i + 1 \in DOMAIN queue /\ queue'[i] = queue[i + 1]
      BY <1>1, <3>1, <3>3
    <3>5. OneCreate'
      <4> SUFFICES ASSUME NEW i \in DOMAIN queue', NEW j \in DOMAIN queue',
                          queue'[i].kind = "create", queue'[j].kind = "create"
                   PROVE  i = j
        BY DEF OneCreate
      <4>1. i + 1 = j + 1
        BY <3>4 DEF CreatesInv, OneCreate
      <4> QED BY <1>1, <3>3, <4>1
    <3>6. ASSUME NEW i \in DOMAIN queue, queue[i].kind = "create"
          PROVE  i - 1 \in DOMAIN queue' /\ queue'[i - 1] = queue[i]
      <4>1. i # 1
        BY <1>1, <1>4, <3>6
      <4> QED BY <1>1, <3>3, <4>1
    <3>7. CreatesAreCounted'
      BY <1>4, <2>3, <2>4, <3>6 DEF CreatesInv, CreatesAreCounted
    <3> QED BY <3>5, <3>7 DEF CreatesInv
  <2> QED BY <2>5, <2>6
<1>5. CASE job.kind = "prefill" /\ PrefillFails(job)
  BY <1>1, <1>5, CreatesKeptByPop DEF PrefillFails
<1>6. CASE /\ open /\ job.kind = "create"
           /\ open' = (job.answer # Ok)
           /\ queue' = Tail(queue)
           /\ UNCHANGED past
  <2>1. CASE job.answer # Ok
    BY <1>1, <1>6, <2>1, CreatesKeptByPop
  <2>2. CASE job.answer = Ok
    <3>1. /\ DOMAIN queue' = 1..Len(queue) - 1
          /\ \A i \in 1..Len(queue) - 1 : queue'[i] = queue[i + 1]
      BY <1>1, <1>6, Popped
    <3>2. \A i \in DOMAIN queue' : queue'[i].kind # "create"
      <4> SUFFICES ASSUME NEW i \in DOMAIN queue', queue'[i].kind = "create" PROVE FALSE
        OBVIOUS
      <4>1. i + 1 \in DOMAIN queue /\ queue[i + 1].kind = "create"
        BY <1>1, <3>1
      <4>2. i + 1 = 1
        BY <1>1, <1>6, <4>1 DEF CreatesInv, OneCreate
      <4> QED BY <1>1, <3>1, <4>2
    <3>3. past'.created <= past'.lost + 1 /\ ~open'
      BY <1>6, <2>2 DEF CreatesInv, CreatesAreCounted
    <3> QED BY <3>2, <3>3 DEF CreatesInv, CreatesAreCounted, OneCreate
  <2> QED BY <2>1, <2>2
<1> QED BY <1>2, <1>3, <1>4, <1>5, <1>6 DEF Settle

\* CreatesInv is inductive together with the types.
LEMMA CreatesStep == TypeOK /\ CreatesInv /\ [Next]_vars => CreatesInv'
<1> SUFFICES ASSUME TypeOK, CreatesInv, [Next]_vars PROVE CreatesInv'
  OBVIOUS
<1>1. CASE UNCHANGED <<queue, open, past>>
  BY <1>1 DEF CreatesInv, OneCreate, CreatesAreCounted
<1>2. CASE Blur
  <2>1. /\ open /\ UNCHANGED open
        /\ queue' = Checked(form.company, queue)
        /\ past' = [past EXCEPT !.settled = form.company]
        /\ form.company \in Companies \cup {None}
    BY <1>2 DEF Blur, runOwnershipCheck, Checked, TypeOK, Form
  <2>2. past'.created = past.created /\ past'.lost = past.lost
    BY <2>1 DEF TypeOK, Past
  <2>3. CASE form.company = None
    BY <2>1, <2>2, <2>3 DEF Checked, CreatesInv, OneCreate, CreatesAreCounted
  <2>4. CASE form.company # None
    <3> DEFINE job == [kind |-> "check", name |-> form.company, answer |-> 0]
    <3>1. job \in Job /\ job.kind # "create"
      BY <2>1, <2>4 DEF Check, Job, Answers
    <3>2. queue' = Append(queue, job)
      BY <2>1, <2>4 DEF Checked
    <3> HIDE DEF job
    <3> QED BY <2>1, <2>2, <3>1, <3>2, CreatesKeptByAppend
  <2> QED BY <2>3, <2>4
<1>3. ASSUME NEW p \in Postings \cup {None}, startPrefill(p, form.url) PROVE CreatesInv'
  <2>1. prefill(p, form.url) \in Job /\ prefill(p, form.url).kind # "create"
    BY <1>3 DEF startPrefill, prefill, Prefill, Job, Answers, TypeOK, Form
  <2> QED BY <1>3, <2>1, CreatesKeptByAppend DEF startPrefill
<1>4. CASE onSubmit
  <2>1. Shown \in Body
    BY <1>4 DEF onSubmit, Submit, Shown, Body, TypeOK, Form
  <2> DEFINE job == [kind |-> "create", shown |-> Shown, answer |-> 0, made |-> None]
  <2>2. job \in Job
    BY <2>1 DEF Create, Job, Answers
  <2>3. queue' = Append(queue, job) /\ open /\ UNCHANGED <<open, past>>
        /\ \A i \in DOMAIN queue : queue[i].kind # "create"
    BY <1>4 DEF onSubmit, Submit, Pending
  <2> HIDE DEF job
  <2> QED BY <2>2, <2>3, CreatesKeptByAppend
<1>5. CASE Serve
  BY <1>5, CreatesKeptByServe
<1>6. CASE Settle
  BY <1>6, CreatesKeptBySettle
<1>7. CASE Visit
  <2>1. PICK share \in Postings \cup {None} :
          queue' = QueueFor(share) /\ past' = Fresh /\ open' = TRUE
    BY <1>7 DEF Visit
  <2>2. \A i \in DOMAIN QueueFor(share) : QueueFor(share)[i].kind # "create"
    BY DEF QueueFor, prefill
  <2> QED BY <2>1, <2>2 DEF CreatesInv, OneCreate, CreatesAreCounted, Fresh
<1> QED
  BY <1>1, <1>2, <1>3, <1>4, <1>5, <1>6, <1>7
  DEF Next, vars, Type, Attach, onPrefill, onPrefillFromPaste, TypeOK, Form, Postings

\* DuplicatesNeedALostAnswer: a visit makes a second application only after a create
\* whose answer did not arrive, and no more of them than it lost answers.
THEOREM SecondApplicationNeedsALostAnswer == Spec => []DuplicatesNeedALostAnswer
<1>1. Init => CreatesInv
  BY DEF Init, QueueFor, prefill, Fresh, CreatesInv, OneCreate, CreatesAreCounted
<1>2. CreatesInv => DuplicatesNeedALostAnswer
  BY DEF CreatesInv, CreatesAreCounted, DuplicatesNeedALostAnswer
<1> QED BY <1>1, <1>2, CreatesStep, TypeCorrect, PTL DEF Spec

-------------------------------------------------------------------------------
\* Where the ownership warning ends up.

NoCheck(q) == \A i \in DOMAIN q : q[i].kind # "check"

\* The last check of q, when it has one, is about name.
LastIsAbout(q, name) ==
  \A i \in DOMAIN q :
    q[i].kind = "check" /\ (\A j \in DOMAIN q : j > i => q[j].kind # "check")
      => q[i].name = name

\* The warning is about the settled company, or a check of that company is the last to come.
WarningInv ==
  open /\ past.settled # None =>
    /\ LastIsAbout(queue, past.settled)
    /\ NoCheck(queue) => past.unchecked \/ ownership = past.settled

\* Any other job at the end leaves the last check where it is.
LEMMA OtherAppended ==
  ASSUME NEW q \in Seq(Job), NEW job \in Job, job.kind # "check", NEW name
  PROVE  /\ LastIsAbout(q, name) => LastIsAbout(Append(q, job), name)
         /\ NoCheck(Append(q, job)) => NoCheck(q)
<1>1. /\ DOMAIN q = 1..Len(q) /\ Len(q) \in Nat
      /\ DOMAIN Append(q, job) = 1..Len(q) + 1
      /\ Append(q, job)[Len(q) + 1] = job
      /\ \A i \in 1..Len(q) : Append(q, job)[i] = q[i]
  BY Appended
<1> DEFINE r == Append(q, job)
<1> HIDE DEF r
<1>2. ASSUME LastIsAbout(q, name) PROVE LastIsAbout(r, name)
  <2> SUFFICES ASSUME NEW i \in DOMAIN r, r[i].kind = "check",
                      \A j \in DOMAIN r : j > i => r[j].kind # "check"
               PROVE  r[i].name = name
    BY DEF LastIsAbout
  <2>1. i \in 1..Len(q) /\ r[i] = q[i]
    BY <1>1 DEF r
  <2>2. \A j \in DOMAIN q : j > i => q[j].kind # "check"
    BY <1>1 DEF r
  <2> QED BY <1>1, <1>2, <2>1, <2>2 DEF LastIsAbout
<1>3. NoCheck(r) => NoCheck(q)
  BY <1>1 DEF NoCheck, r
<1> QED BY <1>2, <1>3 DEF r

\* A check at the end is the last one.
LEMMA CheckAppended ==
  ASSUME NEW q \in Seq(Job), NEW name \in Companies
  PROVE  LastIsAbout(Checked(name, q), name) /\ ~NoCheck(Checked(name, q))
<1> DEFINE job == [kind |-> "check", name |-> name, answer |-> 0]
<1>1. job \in Job /\ job.kind = "check" /\ job.name = name
  BY DEF Check, Job, Answers
<1> HIDE DEF job
<1> DEFINE r == Append(q, job)
<1>2. DOMAIN r = 1..Len(q) + 1 /\ Len(q) \in Nat /\ r[Len(q) + 1] = job
  BY <1>1, Appended
<1> HIDE DEF r
<1>3. LastIsAbout(r, name)
  <2> SUFFICES ASSUME NEW i \in DOMAIN r, r[i].kind = "check",
                      \A j \in DOMAIN r : j > i => r[j].kind # "check"
               PROVE  r[i].name = name
    BY DEF LastIsAbout
  <2>1. i = Len(q) + 1
    BY <1>1, <1>2
  <2> QED BY <1>1, <1>2, <2>1
<1>4. ~NoCheck(r)
  BY <1>1, <1>2 DEF NoCheck
<1>5. Checked(name, q) = r
  BY NewApplicationFormAssumption DEF Checked, job, r
<1> QED BY <1>3, <1>4, <1>5

\* Taking the head off.
LEMMA HeadTaken ==
  ASSUME NEW q \in Seq(Job), q # <<>>, NEW name, LastIsAbout(q, name)
  PROVE  /\ LastIsAbout(Tail(q), name)
         /\ NoCheck(Tail(q)) => NoCheck(q) \/ (Head(q).kind = "check" /\ Head(q).name = name)
<1>1. /\ DOMAIN q = 1..Len(q) /\ Len(q) \in Nat \ {0} /\ Head(q) = q[1]
      /\ DOMAIN Tail(q) = 1..Len(q) - 1
      /\ \A i \in 1..Len(q) - 1 : Tail(q)[i] = q[i + 1]
  BY Popped
<1> DEFINE r == Tail(q)
<1>2. \A i \in DOMAIN q : i # 1 => i - 1 \in DOMAIN r /\ r[i - 1] = q[i]
  BY <1>1
<1> HIDE DEF r
<1>3. LastIsAbout(r, name)
  <2> SUFFICES ASSUME NEW i \in DOMAIN r, r[i].kind = "check",
                      \A j \in DOMAIN r : j > i => r[j].kind # "check"
               PROVE  r[i].name = name
    BY DEF LastIsAbout
  <2>1. i + 1 \in DOMAIN q /\ q[i + 1] = r[i]
    BY <1>1 DEF r
  <2>2. ASSUME NEW j \in DOMAIN q, j > i + 1 PROVE q[j].kind # "check"
    <3>1. j - 1 \in DOMAIN r /\ r[j - 1] = q[j] /\ j - 1 > i
      BY <1>1, <1>2, <2>2 DEF r
    <3> QED BY <3>1
  <2> QED BY <2>1, <2>2 DEF LastIsAbout
<1>4. ASSUME NoCheck(r), ~NoCheck(q) PROVE Head(q).kind = "check" /\ Head(q).name = name
  <2>1. \A i \in DOMAIN q : i # 1 => q[i].kind # "check"
    BY <1>2, <1>4 DEF NoCheck
  <2>2. 1 \in DOMAIN q /\ q[1].kind = "check"
    BY <1>4, <2>1, <1>1 DEF NoCheck
  <2>3. \A j \in DOMAIN q : j > 1 => q[j].kind # "check"
    BY <1>1, <2>1
  <2> QED BY <1>1, <2>2, <2>3 DEF LastIsAbout
<1> QED BY <1>3, <1>4 DEF r

\* An answer to the head moves no check.
LEMMA HeadAnswered ==
  ASSUME NEW q \in Seq(Job), q # <<>>, NEW a \in Answers, NEW made \in BOOLEAN,
         made => Head(q).kind = "create", NEW name
  PROVE  /\ LastIsAbout(q, name) => LastIsAbout([q EXCEPT ![1] = Reply(Head(q), a, made)], name)
         /\ NoCheck([q EXCEPT ![1] = Reply(Head(q), a, made)]) => NoCheck(q)
<1> DEFINE job == Reply(Head(q), a, made)
           r == [q EXCEPT ![1] = job]
<1>1. /\ Head(q) \in Job /\ Head(q) = q[1]
      /\ job \in Job /\ job.kind = q[1].kind
      /\ job.kind = "check" => job.name = q[1].name
  BY Popped, Replied
<1> HIDE DEF job
<1>2. /\ DOMAIN r = DOMAIN q /\ 1 \in DOMAIN q /\ r[1] = job
      /\ \A i \in DOMAIN q : i # 1 => r[i] = q[i]
  BY <1>1, Replaced
<1> HIDE DEF r
<1>3. \A i \in DOMAIN q : r[i].kind = q[i].kind /\ (r[i].kind = "check" => r[i].name = q[i].name)
  BY <1>1, <1>2
<1>4. LastIsAbout(q, name) => LastIsAbout(r, name)
  BY <1>2, <1>3 DEF LastIsAbout
<1>5. NoCheck(r) => NoCheck(q)
  BY <1>2, <1>3 DEF NoCheck
<1> QED BY <1>4, <1>5 DEF job, r

\* Answers reaching the form keep WarningInv.
LEMMA WarningKeptBySettle == TypeOK /\ WarningInv /\ Settle => WarningInv'
<1> SUFFICES ASSUME TypeOK, WarningInv, Settle, open', past'.settled # None
             PROVE  /\ LastIsAbout(queue', past'.settled)
                    /\ NoCheck(queue') => past'.unchecked \/ ownership' = past'.settled
  BY DEF WarningInv
<1> DEFINE job == Head(queue)
<1>1. /\ queue \in Seq(Job) /\ queue # <<>> /\ past \in Past /\ job \in Job
      /\ Tail(queue) \in Seq(Job)
  BY Popped DEF TypeOK, Settle
<1>2. ASSUME open, queue' = Tail(queue), past'.settled = past.settled,
             job.kind # "check", UNCHANGED ownership, past'.unchecked = past.unchecked
      PROVE  /\ LastIsAbout(queue', past'.settled)
             /\ NoCheck(queue') => past'.unchecked \/ ownership' = past'.settled
  BY <1>1, <1>2, HeadTaken DEF WarningInv
<1>3. CASE /\ open /\ job.kind = "check"
           /\ ownership' = IF job.answer = Ok THEN job.name ELSE None
           /\ past'  = [past EXCEPT !.unchecked = job.answer # Ok]
           /\ queue' = Tail(queue)
  <2>1. past'.settled = past.settled /\ past'.unchecked = (job.answer # Ok)
    BY <1>1, <1>3 DEF Past
  <2>2. LastIsAbout(queue, past.settled) /\ (NoCheck(queue) => FALSE)
    BY <1>1, <1>3, <2>1, Popped DEF WarningInv, NoCheck
  <2> QED BY <1>1, <1>3, <2>1, <2>2, HeadTaken
<1>4. CASE open /\ job.kind = "prefill" /\ applyPrefill(job)
  <2>1. job \in Prefill
    BY <1>1, <1>4, JobKinds
  <2> DEFINE name == extract[job.from].company
  <2>2. name \in Companies \cup {None}
    BY <1>1, <2>1, FilledType DEF TypeOK
  <2>3. /\ queue' = Checked(name, Tail(queue))
        /\ name = None => UNCHANGED ownership
        /\ past' = [past EXCEPT !.settled = Or(name, @)]
    BY <1>4 DEF applyPrefill, runOwnershipCheck, Checked
  <2> HIDE DEF name
  <2>4. past'.settled = Or(name, past.settled) /\ past'.unchecked = past.unchecked
    BY <1>1, <2>3 DEF Past
  <2>5. CASE name = None
    <3>1. queue' = Tail(queue) /\ past'.settled = past.settled
      BY <2>3, <2>4, <2>5 DEF Checked, Or
    <3> QED BY <1>2, <1>4, <2>3, <2>4, <2>5, <3>1
  <2>6. CASE name # None
    <3>1. past'.settled = name /\ name \in Companies
      BY <2>2, <2>4, <2>6 DEF Or
    <3> QED BY <1>1, <2>3, <2>6, <3>1, CheckAppended
  <2> QED BY <2>5, <2>6
<1>5. CASE open /\ job.kind = "prefill" /\ PrefillFails(job)
  BY <1>2, <1>5 DEF PrefillFails
<1>6. CASE /\ open /\ job.kind = "create"
           /\ open' = (job.answer # Ok)
           /\ ownership' = IF job.answer = Ok THEN None ELSE ownership
           /\ queue' = Tail(queue)
           /\ UNCHANGED past
  BY <1>2, <1>6
<1> QED BY <1>3, <1>4, <1>5, <1>6 DEF Settle

\* WarningInv is inductive together with the types.
LEMMA WarningStep == TypeOK /\ WarningInv /\ [Next]_vars => WarningInv'
<1> SUFFICES ASSUME TypeOK, WarningInv, [Next]_vars PROVE WarningInv'
  OBVIOUS
<1>1. queue \in Seq(Job) /\ past \in Past
  BY DEF TypeOK
<1>2. CASE UNCHANGED <<queue, ownership, open, past>>
  BY <1>2 DEF WarningInv
<1>3. ASSUME NEW job \in Job, job.kind # "check", queue' = Append(queue, job),
             UNCHANGED <<ownership, open, past>>
      PROVE  WarningInv'
  BY <1>1, <1>3, OtherAppended DEF WarningInv
<1>4. CASE Blur
  <2>1. /\ queue' = Checked(form.company, queue)
        /\ past' = [past EXCEPT !.settled = form.company]
        /\ form.company \in Companies \cup {None}
    BY <1>4 DEF Blur, runOwnershipCheck, Checked, TypeOK, Form
  <2>2. past'.settled = form.company
    BY <1>1, <2>1 DEF Past
  <2>3. CASE form.company = None
    BY <2>2, <2>3 DEF WarningInv
  <2>4. CASE form.company # None
    BY <1>1, <2>1, <2>2, <2>4, CheckAppended DEF WarningInv
  <2> QED BY <2>3, <2>4
<1>5. ASSUME NEW p \in Postings \cup {None}, startPrefill(p, form.url) PROVE WarningInv'
  <2>1. prefill(p, form.url) \in Job /\ prefill(p, form.url).kind # "check"
    BY <1>5 DEF startPrefill, prefill, Prefill, Job, Answers, TypeOK, Form
  <2> QED BY <1>3, <1>5, <2>1 DEF startPrefill
<1>6. CASE onSubmit
  <2>1. Shown \in Body
    BY <1>6 DEF onSubmit, Submit, Shown, Body, TypeOK, Form
  <2> DEFINE job == [kind |-> "create", shown |-> Shown, answer |-> 0, made |-> None]
  <2>2. job \in Job /\ job.kind # "check"
    BY <2>1 DEF Create, Job, Answers
  <2>3. queue' = Append(queue, job) /\ UNCHANGED <<ownership, open, past>>
    BY <1>6 DEF onSubmit, Submit
  <2> HIDE DEF job
  <2> QED BY <1>3, <2>2, <2>3
<1>7. CASE Serve
  <2>1. queue # <<>> /\ Head(queue) \in Job
    BY <1>1, <1>7, Popped DEF Serve
  <2>2. PICK a \in Answers, made \in BOOLEAN :
          /\ made => Head(queue).kind = "create"
          /\ queue' = [queue EXCEPT ![1] = Reply(Head(queue), a, made)]
          /\ past' = [past EXCEPT
               !.created = IF made THEN @ + 1 ELSE @,
               !.lost    = IF Head(queue).kind = "create" /\ a = Unavailable THEN @ + 1 ELSE @]
    BY <1>7, <2>1, JobKinds DEF Serve, apiFetch, Answers
  <2>3. past'.settled = past.settled /\ past'.unchecked = past.unchecked
    BY <1>1, <2>2 DEF Past
  <2>4. UNCHANGED <<ownership, open>>
    BY <1>7 DEF Serve
  <2> QED BY <1>1, <2>1, <2>2, <2>3, <2>4, HeadAnswered DEF WarningInv
<1>8. CASE Settle
  BY <1>8, WarningKeptBySettle
<1>9. CASE Visit
  BY <1>9 DEF Visit, Fresh, WarningInv
<1> QED
  BY <1>2, <1>4, <1>5, <1>6, <1>7, <1>8, <1>9
  DEF Next, vars, Type, Attach, onPrefill, onPrefillFromPaste, TypeOK, Form, Postings

\* WarningIsOfTheSettledCompany: with nothing in flight the warning is about the company
\* the field settled on, unless its check failed.
THEOREM WarningFollowsTheField == Spec => []WarningIsOfTheSettledCompany
<1>1. Init => WarningInv
  BY DEF Init, Fresh, WarningInv
<1>2. TypeOK /\ WarningInv => WarningIsOfTheSettledCompany
  <2>1. queue = <<>> => NoCheck(queue)
    BY DEF NoCheck
  <2> QED BY <2>1 DEF WarningInv, WarningIsOfTheSettledCompany
<1> QED BY <1>1, <1>2, WarningStep, TypeCorrect, PTL DEF Spec
===============================================================================
