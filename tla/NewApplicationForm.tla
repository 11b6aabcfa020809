-------------------------- MODULE NewApplicationForm --------------------------
(***************************************************************************)
(* One tab on /applications/new: the fields, the pre-fill from a link or a *)
(* pasted posting, the ownership warning and the create, which share the   *)
(* browser's queue of server actions.  The fields answers may overwrite    *)
(* are the company, the channel with the agency it shows, and the hidden   *)
(* text of the posting; status with applied_at and sponsorship with the    *)
(* residence status have the shape of channel with agency.                 *)
(***************************************************************************)
EXTENDS ApplicationApi, Sequences

CONSTANTS
  Companies,   \* names the company field may hold
  Channels,    \* options of the channel select, besides none
  Agencies,    \* names the agency field may hold
  Links,       \* postings with an address
  Pastes,      \* postings the user can paste
  extract,     \* what is read from a posting: its company, channel and agency or None
  MaxCreates,  \* bound: no create is asked for once a visit made this many
  MaxLost,     \* bound: creates of one visit that are not answered
  MaxQueue     \* bound: server actions the browser holds at once

Postings == Links \cup Pastes
Extracted == [company: Companies \cup {None}, channel: Channels \cup {None},
              agency: Agencies \cup {None}]

ASSUME NewApplicationFormAssumption ==
  /\ "agent" \in Channels
  /\ None \notin Companies \cup Agencies \cup Postings \cup Channels
  /\ extract \in [Postings -> Extracted]
  /\ MaxCreates \in Nat
  /\ MaxLost \in Nat
  /\ MaxQueue \in Nat

VARIABLES
  form,       \* what the inputs hold
  pasteOpen,  \* the paste box has been opened
  ownership,  \* the company the warning's data are about, None when there are none
  queue,      \* server actions the tab still has to run, in order
  open,       \* the form is mounted
  past        \* history of this visit: see Past
vars == <<form, pasteOpen, ownership, queue, open, past>>

\* None is an empty field.  rest: something is in the inputs React leaves uncontrolled,
\* the follow-up date and the two files.
Form == [url: Links \cup {None}, paste: Pastes \cup {None},
         company: Companies \cup {None}, channel: Channels \cup {None},
         agency: Agencies \cup {None}, text: Postings \cup {None}, rest: BOOLEAN]

\* settled: the company when the field last settled.  unchecked: the last answer about
\* ownership was a failure.  created: applications made.  lost: creates without answer.
Past == [settled: Companies \cup {None}, unchecked: BOOLEAN,
         created: 0..MaxCreates, lost: 0..MaxLost]

Body == [company: Companies, channel: Channels \cup {None}, agency: Agencies \cup {None},
         text: Postings \cup {None}, rest: BOOLEAN]

\* answer 0: not answered yet.  Of a create, shown is what the form showed and made the
\* application that was stored.
Blocked == 403
Answers == {0, Ok, Blocked, Invalid, Unavailable}
Prefill == [kind: {"prefill"}, from: Postings, url: Links \cup {None}, answer: Answers]
Check   == [kind: {"check"}, name: Companies, answer: Answers]
Create  == [kind: {"create"}, shown: Body, answer: Answers, made: Body \cup {None}]
Job     == Prefill \cup Check \cup Create

\* Exploration bound, not in the code.
Room(q) == Len(q) < MaxQueue

Pending(kind) == \E i \in DOMAIN queue : queue[i].kind = kind

prefill(p, url) == [kind |-> "prefill", from |-> p, url |-> url, answer |-> 0]

FormFor(share) ==
  [url     |-> IF share \in Links THEN share ELSE None,
   paste   |-> IF share \in Pastes THEN share ELSE None,
   company |-> None, channel |-> None, agency |-> None, text |-> None, rest |-> FALSE]
QueueFor(share) == IF share \in Links THEN <<prefill(share, share)>> ELSE <<>>
Fresh == [settled |-> None, unchecked |-> FALSE, created |-> 0, lost |-> 0]

\* A shared link pre-fills on arrival, before the user can act; shared text opens and
\* seeds the paste box, and runs nothing.
Init == \E share \in Postings \cup {None} :
          /\ form  = FormFor(share)
          /\ pasteOpen = (share \in Pastes)
          /\ queue = QueueFor(share)
          /\ ownership = None
          /\ open  = TRUE
          /\ past  = Fresh

-------------------------------------------------------------------------------
\* Typing and choosing.

\* The agency field exists on the agent channel only, the paste box once it is open.
Type(f) ==
  /\ open
  /\ f # form
  /\ f.agency # form.agency => form.channel = "agent"
  /\ f.paste # form.paste => pasteOpen
  /\ form' = f
  /\ UNCHANGED <<pasteOpen, ownership, queue, open, past>>

OneField == {[form EXCEPT !.url = v] : v \in Links \cup {None}}
       \cup {[form EXCEPT !.paste = v] : v \in Pastes \cup {None}}
       \cup {[form EXCEPT !.company = v] : v \in Companies \cup {None}}
       \cup {[form EXCEPT !.channel = v] : v \in Channels \cup {None}}
       \cup {[form EXCEPT !.agency = v] : v \in Agencies \cup {None}}

\* The follow-up date and the two file inputs; an oversized file is taken out again.
Attach(v) ==
  /\ open
  /\ v # form.rest
  /\ form' = [form EXCEPT !.rest = v]
  /\ UNCHANGED <<pasteOpen, ownership, queue, open, past>>

-------------------------------------------------------------------------------
\* The ownership warning.

\* What follows in the queue, and the warning at once, when a name is to be checked.
runOwnershipCheck(name, rest) ==
  IF name = None
  THEN ownership' = None /\ queue' = rest
  ELSE UNCHANGED ownership /\ queue' = Append(rest, [kind |-> "check", name |-> name, answer |-> 0])

\* The company field loses the focus.
Blur ==
  /\ open /\ Room(queue)
  /\ runOwnershipCheck(form.company, queue)
  /\ past' = [past EXCEPT !.settled = form.company]
  /\ UNCHANGED <<form, pasteOpen, open>>

-------------------------------------------------------------------------------
\* Pre-fill, from the link or from the paste box.

startPrefill(p, url) ==
  /\ open /\ Room(queue)
  /\ p # None
  /\ ~Pending("prefill")
  /\ queue' = Append(queue, prefill(p, url))
  /\ UNCHANGED <<form, pasteOpen, ownership, open, past>>

onPrefill == startPrefill(form.url, form.url)
onPrefillFromPaste == pasteOpen /\ startPrefill(form.paste, form.url)

\* A value read from the posting replaces the field, whatever was typed meanwhile; a
\* posting silent about a field leaves it alone.
Or(read, held) == IF read = None THEN held ELSE read

Filled(f, job) ==
  LET read == extract[job.from]
  IN  [f EXCEPT !.company = Or(read.company, @), !.channel = Or(read.channel, @),
                !.agency  = Or(read.agency, @),  !.text    = job.from,
                !.url     = Or(job.url, @)]

\* Mutant: the name a pre-fill brings is not checked.
applyPrefill_Unchecked(job) ==
  /\ form'  = Filled(form, job)
  /\ queue' = Tail(queue)
  /\ past'  = [past EXCEPT !.settled = Or(extract[job.from].company, @)]
  /\ UNCHANGED <<pasteOpen, ownership, open>>

applyPrefill(job) ==
  LET name == extract[job.from].company
  IN  /\ form'  = Filled(form, job)
      /\ IF name = None THEN queue' = Tail(queue) /\ UNCHANGED ownership
                        ELSE runOwnershipCheck(name, Tail(queue))
      /\ past'  = [past EXCEPT !.settled = Or(name, @)]
      /\ UNCHANGED <<pasteOpen, open>>

\* A failure that pasting cures opens the paste box, for good.
PrefillFails(job) ==
  /\ pasteOpen' = (pasteOpen \/ job.answer = Blocked)
  /\ queue' = Tail(queue)
  /\ UNCHANGED <<form, ownership, open, past>>

-------------------------------------------------------------------------------
\* The create.

\* The inputs the form renders: no agency away from the agent channel.
Shown == [company |-> form.company, channel |-> form.channel,
          agency  |-> IF form.channel = "agent" THEN form.agency ELSE None,
          text    |-> form.text, rest |-> form.rest]

Submit ==
  /\ Room(queue) /\ past.created < MaxCreates
  /\ open
  /\ form.company # None
  /\ queue' = Append(queue, [kind |-> "create", shown |-> Shown, answer |-> 0, made |-> None])
  /\ UNCHANGED <<form, pasteOpen, ownership, open, past>>

\* Mutant: the button stays enabled while a create is under way.
onSubmit_Twice == Submit

\* FormData is read when the user submits; the browser asks for a company and a role.
onSubmit == ~Pending("create") /\ Submit

-------------------------------------------------------------------------------
\* The browser runs its queue one action at a time.

\* Mutant: the fields are read when the request leaves.
createApplication_Late(job) == IF open /\ form.company # None THEN Shown ELSE job.shown

createApplication(job) == job.shown

Reply(job, a, made) ==
  IF made THEN [job EXCEPT !.answer = a, !.made = createApplication(job)]
          ELSE [job EXCEPT !.answer = a]

\* Up to the API's answer.  When none comes in time the create may have been done.
Serve ==
  /\ queue # <<>> /\ Head(queue).answer = 0
  /\ LET job == Head(queue)
         replies == CASE job.kind = "check"  -> {Ok}
                      [] job.kind = "create" -> {Ok, Invalid}
                      [] job.kind = "prefill" -> {Ok, Invalid, Blocked}
     IN  \E a \in apiFetch(replies), made \in BOOLEAN :
           /\ made => job.kind = "create" /\ a \in {Ok, Unavailable}
           /\ a = Ok /\ job.kind = "create" => made
           /\ made => past.created < MaxCreates
           /\ job.kind = "create" /\ a = Unavailable => past.lost < MaxLost
           /\ queue' = [queue EXCEPT ![1] = Reply(job, a, made)]
           /\ past' = [past EXCEPT
                !.created = IF made THEN @ + 1 ELSE @,
                !.lost    = IF job.kind = "create" /\ a = Unavailable THEN @ + 1 ELSE @]
  /\ UNCHANGED <<form, pasteOpen, ownership, open>>

\* The answer reaches the tab; once the form is gone its setters do nothing.  A create
\* that succeeded redirects; one that failed says so, and React resets the inputs it
\* does not control.
Settle ==
  /\ queue # <<>> /\ Head(queue).answer # 0
  /\ LET job == Head(queue)
     IN  \/ /\ ~open
            /\ queue' = Tail(queue)
            /\ UNCHANGED <<form, pasteOpen, ownership, open, past>>
         \/ /\ open /\ job.kind = "check"
            /\ ownership' = IF job.answer = Ok THEN job.name ELSE None
            /\ past'  = [past EXCEPT !.unchecked = job.answer # Ok]
            /\ queue' = Tail(queue)
            /\ UNCHANGED <<form, pasteOpen, open>>
         \/ open /\ job.kind = "prefill" /\ job.answer = Ok /\ applyPrefill(job)
         \/ open /\ job.kind = "prefill" /\ job.answer # Ok /\ PrefillFails(job)
         \/ /\ open /\ job.kind = "create"
            /\ open'  = (job.answer # Ok)
            /\ form'  = IF job.answer = Ok THEN FormFor(None) ELSE [form EXCEPT !.rest = FALSE]
            /\ pasteOpen' = (pasteOpen /\ job.answer # Ok)
            /\ ownership' = IF job.answer = Ok THEN None ELSE ownership
            /\ queue' = Tail(queue)
            /\ UNCHANGED past

\* The user opens the form afresh: another visit, with a queue of its own.
Visit == \E share \in Postings \cup {None} :
           /\ form'  = FormFor(share)
           /\ pasteOpen' = (share \in Pastes)
           /\ queue' = QueueFor(share)
           /\ ownership' = None
           /\ open'  = TRUE
           /\ past'  = Fresh

Next == \/ \E f \in OneField : Type(f)
        \/ \E v \in BOOLEAN : Attach(v)
        \/ Blur \/ onPrefill \/ onPrefillFromPaste \/ onSubmit
        \/ Serve \/ Settle \/ Visit

Spec == Init /\ [][Next]_vars

-------------------------------------------------------------------------------
\* A type invariant over everything the tab can hold.
TypeOK ==
  /\ form  \in Form
  /\ pasteOpen \in BOOLEAN
  /\ ownership \in Companies \cup {None}
  /\ queue \in Seq(Job)
  /\ open  \in BOOLEAN
  /\ past  \in Past

\* What is stored is what the user saw when submitting: no field of it comes from a
\* pre-fill that was answered between the click and the request, from an input that
\* was hidden, or from typing that went on (new-application-form.tsx:251).
CreatedAsShown ==
  \A i \in DOMAIN queue :
    queue[i].kind = "create" /\ queue[i].made # None => queue[i].made = queue[i].shown

\* When nothing is in flight, the warning is about the company the field last settled
\* on, by the user leaving it or by a pre-fill filling it, unless that very check failed,
\* although checks and pre-fills overlap (new-application-form.tsx:134).
WarningIsOfTheSettledCompany ==
  open /\ queue = <<>> /\ past.settled # None /\ ~past.unchecked
    => ownership = past.settled

\* One visit makes a second application only after a create whose answer was lost.
DuplicatesNeedALostAnswer == past.created <= past.lost + 1
===============================================================================
