--------------------------- MODULE FollowUpReminder ---------------------------
(***************************************************************************)
(* The daily follow-up digest: the recurring job, its claims in the        *)
(* timeline, and the mail and push jobs it enqueues, against users who     *)
(* move dates, change stages and delete applications meanwhile.            *)
(*                                                                         *)
(* A run loads what is due, claims it one autocommitted INSERT at a time,  *)
(* and enqueues one mail and one push job per user after all of that       *)
(* user's claims.  Solid Queue delivers a run at least once.               *)
(***************************************************************************)
EXTENDS Integers

CONSTANTS Apps, Users,
          Owner,        \* Owner[a]: the user of application a
          Runs,         \* slots for executions of FollowUpReminderJob in progress
          LastDay,      \* bound of the exploration on the calendar
          BusinessDays, \* JapanCalendar's answer for each of them
          Dates,        \* follow-up dates a user picks
          NoDate,       \* follow_up_at IS NULL
          None,         \* a deleted application, an idle run slot
          LOOKBACK,     \* days
          Attempts,     \* of a mail delivery
          VapidConfigured,
          MaxRestarts   \* bound of the exploration: restarts and missed schedules

Days == 0..LastDay

ASSUME RemindersAssumption ==
  /\ Owner \in [Apps -> Users]
  /\ LastDay \in Nat
  /\ BusinessDays \subseteq Days
  /\ Dates \subseteq Int /\ NoDate \notin Int
  /\ LOOKBACK \in Nat /\ Attempts \in Nat \ {0} /\ MaxRestarts \in Nat
  /\ VapidConfigured \in BOOLEAN
  /\ None \notin [due: Dates \cup {NoDate}, active: BOOLEAN]

VARIABLES
  today,
  scheduled,  \* the scheduler has enqueued today's run
  app,        \* app[a]: its follow-up date and whether it is in ACTIVE_STATES
  claims,     \* timeline entries with an idempotency key
  run,        \* run[j]: an execution of the job
  mails,      \* mail delivery jobs not finished
  enqueued,   \* history: how many mail jobs carried this reminder
  pushed,     \* history: how many push jobs carried this reminder
  sent,       \* history: how many times the SMTP server accepted it
  restarts

vars == <<today, scheduled, app, claims, run, mails, enqueued, pushed, sent, restarts>>

\* idempotency_key: "reminder-<id>-<follow-up date>".  A reminder is its key.
Keys == [app: Apps, due: Dates]
UserOf(k) == Owner[k.app]

Row == [due: Dates \cup {NoDate}, active: BOOLEAN]

\* rest holds the loaded records of users to come, left those of the current user not
\* yet tried, won the ones this run claimed for the current user.
Run  == [at: {"ready", "claiming", "push"}, rest: SUBSET Keys, left: SUBSET Keys,
         won: SUBSET Keys]
Mail == [user: Users, keys: SUBSET Keys, attempt: 1..Attempts]

\* An idle slot holds no execution.
ASSUME IdleAssumption == None \notin Run

ReadyRun == [at |-> "ready", rest |-> {}, left |-> {}, won |-> {}]

\* An application whose date was never set stands for one not yet created.
Init == /\ today = 0
        /\ scheduled = FALSE
        /\ app \in [Apps -> Row]
        /\ claims = {}
        /\ run = [j \in Runs |-> None]
        /\ mails = {}
        /\ enqueued = [k \in Keys |-> 0]
        /\ pushed = [k \in Keys |-> 0]
        /\ sent = [k \in Keys |-> 0]
        /\ restarts = 0

Counted(f, K) == [k \in Keys |-> IF k \in K THEN f[k] + 1 ELSE f[k]]

-------------------------------------------------------------------------------
\* recurring.yml: every day at 08:15.
Schedule(j) ==
  /\ ~scheduled
  /\ run[j] = None
  /\ scheduled' = TRUE
  /\ run' = [run EXCEPT ![j] = ReadyRun]
  /\ UNCHANGED <<today, app, claims, mails, enqueued, pushed, sent, restarts>>

\* Mutant: only what is due exactly today.
DueKeys_Today(d) == { k \in Keys : /\ app[k.app] # None
                                   /\ app[k.app].due = k.due
                                   /\ app[k.app].active
                                   /\ k.due = d }

\* due_on_or_before
DueKeys(d) == { k \in Keys : /\ app[k.app] # None
                             /\ app[k.app].due = k.due
                             /\ app[k.app].active
                             /\ k.due \in (d - LOOKBACK)..d }

\* hold_for_dead_zone, or the one query; the date is that of the run, not of its
\* scheduling.
Perform(j) ==
  /\ run[j] # None /\ run[j].at = "ready"
  /\ run' = [run EXCEPT ![j] = IF today \notin BusinessDays THEN None
                               ELSE [@ EXCEPT !.at = "claiming", !.rest = DueKeys(today)]]
  /\ UNCHANGED <<today, scheduled, app, claims, mails, enqueued, pushed, sent, restarts>>

Claiming(j) == run[j] # None /\ run[j].at = "claiming"

\* Mutant: one digest for everything due.
NextUser_All(j) ==
  /\ Claiming(j) /\ run[j].left = {} /\ run[j].won = {}
  /\ run' = [run EXCEPT ![j] = IF @.rest = {} THEN None
                               ELSE [@ EXCEPT !.left = run[j].rest, !.rest = {}]]
  /\ UNCHANGED <<today, scheduled, app, claims, mails, enqueued, pushed, sent, restarts>>

\* The next group of group_by(&:user), or the end of the run.
NextUser(j) ==
  /\ Claiming(j) /\ run[j].left = {} /\ run[j].won = {}
  /\ IF run[j].rest = {} THEN run' = [run EXCEPT ![j] = None]
     ELSE \E k \in run[j].rest :
            LET group == { x \in run[j].rest : UserOf(x) = UserOf(k) }
            IN  run' = [run EXCEPT ![j].left = group, ![j].rest = @ \ group]
  /\ UNCHANGED <<today, scheduled, app, claims, mails, enqueued, pushed, sent, restarts>>

\* Mutant: exists? then create!, without the unique index.
Claim_NotUnique(j, k) ==
  /\ Claiming(j) /\ k \in run[j].left
  /\ claims' = claims \cup {k}
  /\ run' = [run EXCEPT ![j].left = @ \ {k}, ![j].won = @ \cup {k}]
  /\ UNCHANGED <<today, scheduled, app, mails, enqueued, pushed, sent, restarts>>

\* TimelineEntry.create!: the unique index refuses a second claim (the run moves on), the
\* foreign key an application deleted since the load (not rescued: the run fails).
Claim(j, k) ==
  /\ Claiming(j) /\ k \in run[j].left
  /\ \/ /\ app[k.app] = None
        /\ run' = [run EXCEPT ![j] = None]
        /\ UNCHANGED claims
     \/ /\ app[k.app] # None /\ k \in claims
        /\ run' = [run EXCEPT ![j].left = @ \ {k}]
        /\ UNCHANGED claims
     \/ /\ app[k.app] # None /\ k \notin claims
        /\ run' = [run EXCEPT ![j].left = @ \ {k}, ![j].won = @ \cup {k}]
        /\ claims' = claims \cup {k}
  /\ UNCHANGED <<today, scheduled, app, mails, enqueued, pushed, sent, restarts>>

\* Mutant: the push job is enqueued before the mail.
EnqueuePush_Early(j) ==
  /\ Claiming(j) /\ run[j].left = {} /\ run[j].won # {}
  /\ pushed' = Counted(pushed, run[j].won)
  /\ run' = [run EXCEPT ![j].at = "push"]
  /\ UNCHANGED <<today, scheduled, app, claims, mails, enqueued, sent, restarts>>

\* FollowUpMailer.digest(user, ids).deliver_later
EnqueueMail(j) ==
  /\ Claiming(j) /\ run[j].left = {} /\ run[j].won # {}
  /\ \E k \in run[j].won :
       mails' = mails \cup {[user |-> UserOf(k), keys |-> run[j].won, attempt |-> 1]}
  /\ enqueued' = Counted(enqueued, run[j].won)
  /\ run' = [run EXCEPT ![j].at = "push"]
  /\ UNCHANGED <<today, scheduled, app, claims, pushed, sent, restarts>>

\* PushDigestJob.perform_later, when the server has push keys.
EnqueuePush(j) ==
  /\ run[j] # None /\ run[j].at = "push"
  /\ pushed' = IF VapidConfigured THEN Counted(pushed, run[j].won) ELSE pushed
  /\ run' = [run EXCEPT ![j].at = "claiming", ![j].won = {}]
  /\ UNCHANGED <<today, scheduled, app, claims, mails, enqueued, sent, restarts>>

-------------------------------------------------------------------------------
\* The mailer loads the rows at delivery; none left, no mail.
Recipients(m) == { k \in m.keys : app[k.app] # None }

\* Mutant: retry_on without a limit on attempts.
Retried_Forever(m) == mails

Retried(m) == (mails \ {m}) \cup
              (IF m.attempt < Attempts THEN {[m EXCEPT !.attempt = @ + 1]} ELSE {})

\* RetryingMailDeliveryJob.  A transient error may come before the server has the
\* message or, as Net::ReadTimeout, after; a permanent one fails the job at once.
Deliver(m) ==
  /\ m \in mails
  /\ \/ /\ Recipients(m) = {}
        /\ mails' = mails \ {m}
        /\ UNCHANGED sent
     \/ /\ Recipients(m) # {}
        /\ \/ mails' = mails \ {m}  /\ sent' = Counted(sent, Recipients(m))
           \/ mails' = Retried(m)   /\ sent' = Counted(sent, Recipients(m))
           \/ mails' = Retried(m)   /\ UNCHANGED sent
           \/ mails' = mails \ {m}  /\ UNCHANGED sent
  /\ UNCHANGED <<today, scheduled, app, claims, run, enqueued, pushed, restarts>>

-------------------------------------------------------------------------------
\* PATCH follow_up_at, a transition in or out of ACTIVE_STATES.
Edit(a, d, act) ==
  /\ app[a] # None
  /\ app' = [app EXCEPT ![a] = [due |-> d, active |-> act]]
  /\ app' # app
  /\ UNCHANGED <<today, scheduled, claims, run, mails, enqueued, pushed, sent, restarts>>

\* DELETE takes the timeline entries, claims included.
Delete(a) ==
  /\ app[a] # None
  /\ app' = [app EXCEPT ![a] = None]
  /\ claims' = { k \in claims : k.app # a }
  /\ UNCHANGED <<today, scheduled, run, mails, enqueued, pushed, sent, restarts>>

\* The process stops.  Solid Queue releases an execution it can (it runs again from
\* the start) and fails the others.
Restart ==
  /\ restarts < MaxRestarts
  /\ \E j \in Runs : run[j] # None
  /\ \E back \in SUBSET { j \in Runs : run[j] # None } :
       run' = [j \in Runs |-> IF j \in back THEN ReadyRun ELSE None]
  /\ restarts' = restarts + 1
  /\ UNCHANGED <<today, scheduled, app, claims, mails, enqueued, pushed, sent>>

\* An operator retries a failed execution, or the schedule fires in two processes.
Again(j) ==
  /\ restarts < MaxRestarts
  /\ run[j] = None
  /\ run' = [run EXCEPT ![j] = ReadyRun]
  /\ restarts' = restarts + 1
  /\ UNCHANGED <<today, scheduled, app, claims, mails, enqueued, pushed, sent>>

\* Midnight.  A run takes minutes, so none spans two days; a schedule missed while the
\* process was down is not made up for.
Tick ==
  /\ today < LastDay
  /\ \A j \in Runs : run[j] = None
  /\ \/ scheduled /\ UNCHANGED restarts
     \/ ~scheduled /\ restarts < MaxRestarts /\ restarts' = restarts + 1
  /\ today' = today + 1
  /\ scheduled' = FALSE
  /\ UNCHANGED <<app, claims, run, mails, enqueued, pushed, sent>>

Work(j) == \/ Perform(j) \/ NextUser(j)
           \/ \E k \in Keys : Claim(j, k)
           \/ EnqueueMail(j) \/ EnqueuePush(j)

Next == \/ \E j \in Runs : Schedule(j) \/ Work(j) \/ Again(j)
        \/ \E m \in mails : Deliver(m)
        \/ \E a \in Apps : \/ Delete(a)
                           \/ \E d \in Dates \cup {NoDate}, act \in BOOLEAN : Edit(a, d, act)
        \/ Restart
        \/ Tick

Spec == Init /\ [][Next]_vars

\* The scheduler, the workers and the clock run; users and restarts owe nothing.
FairSpec ==
  /\ Spec
  /\ WF_vars(\E j \in Runs : Schedule(j))
  /\ \A j \in Runs : WF_vars(Work(j))
  /\ WF_vars(\E m \in mails : Deliver(m))
  /\ WF_vars(Tick)
-------------------------------------------------------------------------------
\* The rows, the jobs and the history are well formed.
TypeOK ==
  /\ today \in Days /\ scheduled \in BOOLEAN
  /\ app \in [Apps -> Row \cup {None}]
  /\ claims \subseteq Keys
  /\ run \in [Runs -> Run \cup {None}]
  /\ mails \subseteq Mail
  /\ enqueued \in [Keys -> Nat]
  /\ pushed \in [Keys -> Nat]
  /\ sent \in [Keys -> Nat]
  /\ restarts \in 0..MaxRestarts

\* A reminder is one nudge: whatever runs overlap, restart or are repeated, however
\* dates move back and forth, at most one mail job and one push job ever carry it
\* (FollowUpReminderJob: the timeline entry is "the exactly-once anchor for both").
AtMostOneDigest == \A k \in Keys : enqueued[k] <= 1 /\ pushed[k] <= 1

\* What makes it so: a reminder a run has won is claimed in the timeline, by no other
\* run, and not yet enqueued; and a claim outlives its run unless the application goes.
ClaimsAreExclusive ==
  /\ \A k \in Keys : enqueued[k] > 0 => k \in claims \/ app[k.app] = None
  /\ \A j \in Runs : run[j] # None =>
       \A k \in run[j].won :
         /\ k \in claims \/ app[k.app] = None
         /\ pushed[k] = 0
         /\ enqueued[k] = IF run[j].at = "push" THEN 1 ELSE 0
  /\ \A i, j \in Runs : i # j /\ run[i] # None /\ run[j] # None
                        => run[i].won \cap run[j].won = {}

\* The push is the second channel of a digest that already has its mail: no device shows
\* a reminder that no mail job carries.
PushFollowsMail == \A k \in Keys : pushed[k] <= enqueued[k]

\* The inductive invariant behind AtMostOneDigest and PushFollowsMail.
IInv == TypeOK /\ AtMostOneDigest /\ ClaimsAreExclusive /\ PushFollowsMail

\* A digest names its reader's applications only.
DigestsArePersonal == \A m \in mails : \A k \in m.keys : UserOf(k) = m.user

\* However often the SMTP server answers too late, a reminder is mailed at most as often
\* as one delivery job may try (attempts: 10).
DeliveriesAreBounded ==
  /\ \A k \in Keys : sent[k] <= Attempts
  /\ \A m \in mails : \A k \in m.keys : sent[k] < m.attempt

Armed(k) == app[k.app] # None /\ app[k.app].due = k.due /\ app[k.app].active

\* A reminder whose date has not passed, on an application left alone, is claimed in the
\* end: a run held for a dead zone, a missed schedule and a crashed run only delay it,
\* as long as they are shorter than LOOKBACK (JapanCalendar, due_on_or_before).
HeldRemindersFire ==
  \A k \in Keys : (Armed(k) /\ today <= k.due) ~> (k \in claims \/ ~Armed(k))

\* ARCHITECTURE.md: "The reminder email delays messages, but never loses them".  Stated:
\* a claimed reminder has a mail job, or a run that is about to enqueue one.
ClaimedIsNeverLost ==
  \A k \in claims : enqueued[k] > 0 \/ \E j \in Runs : run[j] # None /\ k \in run[j].won
===============================================================================
