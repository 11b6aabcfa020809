------------------------------ MODULE DetailPage ------------------------------
(***************************************************************************)
(* One tab on /applications/[id]: the transition buttons with their        *)
(* confirm panels, the details form, the file inputs and the delete        *)
(* button, sharing the props of the last render and the browser's queue of *)
(* server actions, while other tabs write the same row.                    *)
(***************************************************************************)
EXTENDS ApplicationApi, Sequences

CONSTANTS
  Texts,        \* contents of an input of the form
  Channels,     \* options of a select of the form
  Starts,       \* stages the application may be in when the page opens
  MaxVersion,   \* bound: no write is started that could pass this lock_version
  MaxQueue      \* bound: actions and refreshes the browser holds at once

ASSUME DetailPageAssumption ==
  /\ Texts # {} /\ None \notin Texts
  /\ Channels # {} /\ None \notin Channels
  /\ Starts \subseteq VALID_STATES
  /\ MaxVersion \in Nat
  /\ MaxQueue \in Nat

VARIABLES
  row,       \* the application's row, None once deleted
  page,      \* what the last render received: the row and whether the table arrived;
             \* None when the tab shows no application (404, failed load, left)
  buttons,   \* TransitionButtons: the open panel and its two notes
  editor,    \* DetailsEditor: open, the typed text, the channel select
  confirmingDelete,
  queue,     \* server actions and refreshes the tab still has to run, in order
  told       \* history: the row version the last 200 or 409 spoke of
vars == <<row, page, buttons, editor, confirmingDelete, queue, told>>

\* text stands for the inputs React leaves uncontrolled, channel for the selects kept
\* in useState (channel and sponsorship).
Row  == [status: VALID_STATES, version: Nat, text: Texts, channel: Channels]
Page == [row: Row, table: BOOLEAN]

\* confirming = None: no panel.  reason and note: whether something was typed.
Buttons == [confirming: VALID_STATES \cup {None}, reason: BOOLEAN, note: BOOLEAN]

\* text = None: the inputs were not typed in and show their default.  chose is history:
\* the user changed the select since the page opened or last saved.
Editor == [editing: BOOLEAN, text: Texts \cup {None}, channel: Channels, chose: BOOLEAN]

Kinds == {"transition", "update", "upload", "delete"}

\* answer 0: not answered yet.  saw, typed, chose and met are history: the page's row
\* when the user acted, whether the inputs were typed in and the select was ever changed,
\* and the row an accepted write met.
Action == [kind: Kinds, to: VALID_STATES, note: BOOLEAN, table: BOOLEAN,
           text: Texts, typed: BOOLEAN, channel: Channels, chose: BOOLEAN, saw: Row,
           answer: {0, Ok, NotFound, Conflict, Invalid, Unavailable},
           met: Row \cup {None}]
refresh == [kind |-> "refresh"]
Job     == Action \cup {refresh}

Closed == [confirming |-> None, reason |-> FALSE, note |-> FALSE]

Unedited(r) == [editing |-> FALSE, text |-> None, channel |-> r.channel, chose |-> FALSE]

\* Which contents the row starts with makes no difference: they are interchangeable.
Init == \E s \in Starts, t \in BOOLEAN :
          /\ row     = [status  |-> s,                       version |-> 0,
                        text    |-> CHOOSE v \in Texts : TRUE,
                        channel |-> CHOOSE c \in Channels : TRUE]
          /\ page    = [row |-> row, table |-> t]
          /\ buttons = Closed
          /\ editor  = Unedited(row)
          /\ confirmingDelete = FALSE
          /\ queue   = <<>>
          /\ told    = 0

-------------------------------------------------------------------------------
\* Rendering.

\* Same components, new props, and e in the editor: useState never looks at new props.
\* The transition buttons give way to a sentence at a final stage, and lose their state.
\* A tab that showed the failed-load message mounts everything.
Show(r, t, e) ==
  /\ page'    = [row |-> r, table |-> t]
  /\ buttons' = IF valid_next_states(r.status) = {} THEN Closed ELSE buttons
  /\ editor'  = IF page = None THEN Unedited(r) ELSE e

\* notFound(), the failed-load message, or another page: everything unmounts.
Unmount ==
  /\ page'    = None
  /\ buttons' = Closed
  /\ editor'  = [editor EXCEPT !.editing = FALSE, !.text = None, !.chose = FALSE]
  /\ confirmingDelete' = FALSE

\* Whether a component has an action in flight; its own controls are then disabled.
Pending(kind) == \E i \in DOMAIN queue : queue[i].kind = kind

revivable == canRevive(page.row.status, page.table)
RevivalPanel(s) == revivable /\ s = "applied"
Panel(s) == RevivalPanel(s) \/ s \in STAGE_NOTE_STATES \cup CONFIRM_REQUIRED

PanelOpen == /\ page # None
             /\ buttons.confirming \in valid_next_states(page.row.status)
             /\ ~Pending("transition")

\* Exploration bounds, not in the code.
Room == /\ Len(queue) < MaxQueue
        /\ row # None => row.version + Len(SelectSeq(queue, LAMBDA j : j # refresh)) < MaxVersion

Blank(kind) ==
  [kind |-> kind, to |-> page.row.status, note |-> FALSE, table |-> page.table,
   text |-> page.row.text, typed |-> FALSE, channel |-> page.row.channel, chose |-> FALSE,
   saw |-> page.row, answer |-> 0, met |-> None]

Enqueue(job) == Room /\ queue' = Append(queue, job)

-------------------------------------------------------------------------------
\* TransitionButtons.

\* go: the panel closes and the action takes the props of this render.
go(to, note) ==
  /\ buttons' = Closed
  /\ Enqueue([Blank("transition") EXCEPT !.to = to, !.note = note])
  /\ UNCHANGED <<row, page, editor, confirmingDelete, told>>

handleClick(s) ==
  /\ page # None
  /\ s \in valid_next_states(page.row.status)
  /\ buttons.confirming # s
  /\ ~Pending("transition")
  /\ IF Panel(s)
     THEN /\ buttons' = IF RevivalPanel(s) THEN [buttons EXCEPT !.confirming = s, !.reason = FALSE]
                                           ELSE [buttons EXCEPT !.confirming = s, !.note = FALSE]
          /\ UNCHANGED <<row, page, editor, confirmingDelete, queue, told>>
     ELSE go(s, FALSE)

\* A preset or a typed reason, or the optional note; FALSE when emptied again.
TypeNote(b) ==
  /\ page # None
  /\ buttons.confirming \in valid_next_states(page.row.status)
  /\ buttons' = IF RevivalPanel(buttons.confirming) THEN [buttons EXCEPT !.reason = b]
                                                    ELSE [buttons EXCEPT !.note = b]
  /\ UNCHANGED <<row, page, editor, confirmingDelete, queue, told>>

\* Mutant: confirming a re-opening does not wait for a reason.
Confirm_NoReason ==
  /\ PanelOpen
  /\ go(buttons.confirming, IF RevivalPanel(buttons.confirming) THEN buttons.reason ELSE buttons.note)

Confirm ==
  /\ PanelOpen
  /\ IF RevivalPanel(buttons.confirming)
     THEN buttons.reason /\ go("applied", TRUE)
     ELSE go(buttons.confirming, buttons.note)

cancelConfirm ==
  /\ PanelOpen
  /\ buttons' = Closed
  /\ UNCHANGED <<row, page, editor, confirmingDelete, queue, told>>

-------------------------------------------------------------------------------
\* DetailsEditor.

\* The form mounts: its inputs take their defaults, the select its remembered state.
Edit ==
  /\ page # None /\ ~editor.editing
  /\ editor' = [editor EXCEPT !.editing = TRUE, !.text = None]
  /\ UNCHANGED <<row, page, buttons, confirmingDelete, queue, told>>

\* Typing in the inputs and choosing in the selects, which remember it in useState.
setChannel(v, c) ==
  /\ page # None /\ editor.editing
  /\ editor' = [editor EXCEPT !.text = v, !.channel = c, !.chose = @ \/ c # editor.channel]
  /\ UNCHANGED <<row, page, buttons, confirmingDelete, queue, told>>

CancelEdit ==
  /\ page # None /\ editor.editing /\ ~Pending("update")
  /\ editor' = [editor EXCEPT !.editing = FALSE, !.text = None]
  /\ UNCHANGED <<row, page, buttons, confirmingDelete, queue, told>>

\* Every field rides along, with the lock_version of the current props.
onSubmit ==
  /\ page # None /\ editor.editing /\ ~Pending("update")
  /\ Enqueue([Blank("update") EXCEPT
                !.text    = IF editor.text = None THEN page.row.text ELSE editor.text,
                !.typed   = editor.text # None,
                !.channel = editor.channel,
                !.chose   = editor.chose])
  /\ UNCHANGED <<row, page, buttons, editor, confirmingDelete, told>>

-------------------------------------------------------------------------------
\* FileUpload and DeleteButton.

onChange ==
  /\ page # None /\ ~Pending("upload")
  /\ Enqueue(Blank("upload"))
  /\ UNCHANGED <<row, page, buttons, editor, confirmingDelete, told>>

setConfirmingDelete(b) ==
  /\ page # None /\ ~Pending("delete")
  /\ confirmingDelete # b
  /\ confirmingDelete' = b
  /\ UNCHANGED <<row, page, buttons, editor, queue, told>>

ConfirmDelete ==
  /\ page # None /\ confirmingDelete /\ ~Pending("delete")
  /\ Enqueue(Blank("delete"))
  /\ UNCHANGED <<row, page, buttons, editor, confirmingDelete, told>>

-------------------------------------------------------------------------------
\* The browser runs its queue one action at a time.

\* Mutant: the version is read when the request leaves, not when the user acted.
Version_Late(job) == IF page = None THEN job.saw.version ELSE page.row.version

Version(job) == job.saw.version

Answers(job) ==
  CASE job.kind = "transition" -> TransitionAnswers(row, job.to, Version(job))
    [] job.kind = "update"     -> UpdateAnswers(row, Version(job))
    [] job.kind = "upload"     -> UploadAnswers(row)
    [] job.kind = "delete"     -> DestroyAnswers(row)

\* An update writes the columns whose value differs; one that changes nothing issues
\* no UPDATE and keeps the version.
Done(job) ==
  CASE job.kind = "transition" -> [row EXCEPT !.status = job.to, !.version = @ + 1]
    [] job.kind = "update"     ->
         LET saved == [row EXCEPT !.text = job.text, !.channel = job.channel]
         IN  IF saved = row THEN row ELSE [saved EXCEPT !.version = @ + 1]
    [] job.kind = "upload"     -> [row EXCEPT !.version = @ + 1]
    [] job.kind = "delete"     -> None

Reply(job, a) == [job EXCEPT !.answer = a, !.met = IF a = Ok THEN row ELSE None]

\* The server action and its request to the API, up to the answer.  When none comes in
\* time, what the API would have done may have been done.
Serve ==
  /\ queue # <<>>
  /\ LET job == Head(queue)
     IN  /\ job # refresh /\ job.answer = 0
         /\ \E a \in apiFetch(Answers(job)) :
              /\ \/ a = Ok /\ row' = Done(job)
                 \/ a = Unavailable /\ Ok \in Answers(job) /\ row' = Done(job)
                 \/ a # Ok /\ row' = row
              /\ queue' = [queue EXCEPT ![1] = Reply(job, a)]
              /\ told'  = IF a = Ok /\ job.kind # "delete" THEN row'.version
                          ELSE IF a = Conflict /\ job.kind \in {"transition", "update"}
                          THEN row.version ELSE told
  /\ UNCHANGED <<page, buttons, editor, confirmingDelete>>

\* Mutant: the error of a 409 is shown and that is all.
Refreshes_OnSave(job) == job.kind = "update" /\ job.answer = Ok

\* Who asks for a refresh: a save, and a transition or save that met a newer row.
Refreshes(job) == \/ job.kind = "update" /\ job.answer = Ok
                  \/ job.kind \in {"transition", "update"} /\ job.answer = Conflict

\* The answer reaches the tab.  A success of anything but a delete revalidates the
\* page, so its answer carries the page rendered from the row as it is now; a delete
\* redirects.  React resets the inputs of a form whose action has ended.
Settle ==
  /\ queue # <<>> /\ Head(queue) # refresh /\ Head(queue).answer # 0
  /\ LET job == Head(queue)
         e   == IF job.kind # "update" THEN editor
                ELSE [editor EXCEPT !.text = None, !.editing = @ /\ job.answer # Ok,
                                    !.chose = @ /\ job.answer # Ok]
     IN  /\ IF job.answer # Ok
            THEN /\ editor' = e
                 /\ confirmingDelete' = (confirmingDelete /\ job.kind # "delete")
                 /\ UNCHANGED <<page, buttons>>
            ELSE IF job.kind = "delete" \/ row = None
            THEN Unmount
            ELSE (\E t \in BOOLEAN : Show(row, t, e)) /\ UNCHANGED confirmingDelete
         /\ queue' = IF Refreshes(job) THEN Append(Tail(queue), refresh) ELSE Tail(queue)
  /\ UNCHANGED <<row, told>>

\* router.refresh(): the page is rendered again, is gone, or fails to load.
Refresh ==
  /\ queue # <<>> /\ Head(queue) = refresh
  /\ queue' = Tail(queue)
  /\ \/ /\ row # None
        /\ \E t \in BOOLEAN : Show(row, t, editor)
        /\ UNCHANGED confirmingDelete
     \/ Unmount
  /\ UNCHANGED <<row, told>>

\* The user reloads or comes back: a new mount, and nothing of the queue survives.  An
\* action already sent may still be served, which is another tab's write from here.
Reload ==
  /\ row # None
  /\ \E t \in BOOLEAN : page' = [row |-> row, table |-> t]
  /\ buttons' = Closed
  /\ editor'  = Unedited(row)
  /\ confirmingDelete' = FALSE
  /\ queue'   = <<>>
  /\ UNCHANGED <<row, told>>

-------------------------------------------------------------------------------
\* Other tabs and the board, from a copy that is up to date.
Elsewhere ==
  /\ row # None
  /\ \/ /\ Room
        /\ \/ \E to \in valid_next_states(row.status) :
                row' = [row EXCEPT !.status = to, !.version = @ + 1]
           \/ \E v \in Texts, c \in Channels :
                /\ <<v, c>> # <<row.text, row.channel>>
                /\ row' = [row EXCEPT !.text = v, !.channel = c, !.version = @ + 1]
     \/ row' = None
  /\ UNCHANGED <<page, buttons, editor, confirmingDelete, queue, told>>

User == \/ \E s \in VALID_STATES : handleClick(s)
        \/ \E b \in BOOLEAN : TypeNote(b) \/ setConfirmingDelete(b)
        \/ Confirm \/ cancelConfirm
        \/ Edit \/ CancelEdit \/ onSubmit
        \/ \E v \in Texts \cup {editor.text}, c \in Channels : setChannel(v, c)
        \/ onChange \/ ConfirmDelete \/ Reload

Next == User \/ Serve \/ Settle \/ Refresh \/ Elsewhere

Spec == Init /\ [][Next]_vars

\* apiFetch gives up after ten seconds, so every request is answered; the browser takes
\* the next entry of its queue when one has settled.  Users and other tabs owe nothing.
FairSpec == Spec /\ WF_vars(Serve) /\ WF_vars(Settle) /\ WF_vars(Refresh)

-------------------------------------------------------------------------------
\* A type invariant over everything the tab and the row can hold.
TypeOK ==
  /\ row     \in Row \cup {None}
  /\ page    \in Page \cup {None}
  /\ buttons \in Buttons
  /\ editor  \in Editor
  /\ confirmingDelete \in BOOLEAN
  /\ queue   \in Seq(Job)
  /\ told    \in Nat

Answered(kind) == IF queue # <<>> /\ Head(queue) # refresh /\ Head(queue).answer = Ok
                     /\ Head(queue).kind = kind THEN {Head(queue)} ELSE {}

\* A move that was accepted moved the row the user was looking at when clicking, however
\* many refreshes, other actions and other tabs came between the click and the request.
TransitionLandsWhereSeen ==
  \A job \in Answered("transition") : job.met.status = job.saw.status

\* A re-opening accepted from a page that had the table says why, although the panel is
\* chosen from one render and the row is moved from another (transitions.ts:35-37).
RevivalsCarryReason ==
  \A job \in Answered("transition") :
    job.to = "applied" /\ job.met.status \notin ACTIVE_STATES /\ job.table => job.note

\* A save leaves an input the user did not type in as the row has it, although it sends
\* every field and the form may have been open across refreshes and conflicts.
UntouchedInputsAreKept ==
  \A job \in Answered("update") : ~job.typed => job.text = job.met.text

\* The same of a select kept in useState that the user has never changed: a save does
\* not put back what another tab has replaced (README.md:21).
UntouchedSelectsAreKept ==
  \A job \in Answered("update") : ~job.chose => job.channel = job.met.channel

\* Whatever version of the row an answer has told the tab of (its own accepted write, or
\* the one that beat it), the page comes to show it or a later one, or closes.
KnownVersionsAreShown == []<>(page = None \/ page.row.version >= told)
===============================================================================
