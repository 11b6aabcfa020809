------------------------ MODULE FollowUpReminderProofs ------------------------
(***************************************************************************)
(* For every set of applications, users, runs and days: the types, and     *)
(* that one reminder is carried by at most one mail job and one push job.  *)
(***************************************************************************)
EXTENDS ReminderCalendar, TLAPS

\* No row is the deleted marker, and an idle slot is not a run.
LEMMA NoneIsNoRow == None \notin Row
BY RemindersAssumption DEF Row

\* Counting one more keeps the counters natural numbers.
LEMMA CountedType ==
  ASSUME NEW f \in [Keys -> Nat], NEW K
  PROVE  /\ Counted(f, K) \in [Keys -> Nat]
         /\ \A k \in Keys : Counted(f, K)[k] = IF k \in K THEN f[k] + 1 ELSE f[k]
BY DEF Counted

\* The initial state is well formed.
LEMMA TypeInit == Init => TypeOK
<1> SUFFICES ASSUME Init PROVE TypeOK
  OBVIOUS
<1>1. today \in Days /\ restarts \in 0..MaxRestarts
  BY RemindersAssumption DEF Init, Days
<1>2. app \in [Apps -> Row \cup {None}]
  BY DEF Init
<1>3. run \in [Runs -> Run \cup {None}]
  BY DEF Init
<1>4. enqueued \in [Keys -> Nat] /\ pushed \in [Keys -> Nat] /\ sent \in [Keys -> Nat]
  BY DEF Init
<1> QED
  BY <1>1, <1>2, <1>3, <1>4 DEF Init, TypeOK

\* A step that puts one well-formed run, or none, in a slot keeps them well formed.
LEMMA RunStep ==
  ASSUME run \in [Runs -> Run \cup {None}], NEW j \in Runs, NEW q \in Run \cup {None},
         run' = [run EXCEPT ![j] = q]
  PROVE  /\ run' \in [Runs -> Run \cup {None}]
         /\ run'[j] = q
         /\ \A i \in Runs : i # j => run'[i] = run[i]
OBVIOUS

\* Every field of a run may be replaced by one of its type.
LEMMA RunFields ==
  ASSUME NEW r \in Run, NEW at \in {"ready", "claiming", "push"},
         NEW rest \in SUBSET Keys, NEW left \in SUBSET Keys, NEW won \in SUBSET Keys
  PROVE  /\ r.rest \in SUBSET Keys /\ r.left \in SUBSET Keys /\ r.won \in SUBSET Keys
         /\ [at |-> at, rest |-> rest, left |-> left, won |-> won] \in Run
BY DEF Run

\* What each step of a run does to its slot, field by field.
LEMMA NextUserSlot ==
  ASSUME TypeOK, NEW j \in Runs, NextUser(j)
  PROVE  \E q \in Run \cup {None} :
           /\ run' = [run EXCEPT ![j] = q]
           /\ q # None => q.at = "claiming" /\ q.won = {}
<1>1. CASE run[j].rest = {}
  BY <1>1 DEF NextUser, TypeOK
<1>2. CASE run[j].rest # {}
  <2>1. PICK k \in run[j].rest :
          run' = [run EXCEPT ![j].left = { x \in run[j].rest : UserOf(x) = UserOf(k) },
                             ![j].rest = @ \ { x \in run[j].rest : UserOf(x) = UserOf(k) }]
    BY <1>2 DEF NextUser
  <2> DEFINE group == { x \in run[j].rest : UserOf(x) = UserOf(k) }
             q == [run[j] EXCEPT !.left = group, !.rest = @ \ group]
  <2>2. run[j] \in Run /\ run[j].at = "claiming" /\ run[j].won = {}
    BY DEF NextUser, Claiming, TypeOK
  <2>3. q \in Run /\ q.at = "claiming" /\ q.won = {}
    BY <2>2 DEF Run
  <2>4. run' = [run EXCEPT ![j] = q]
    BY <2>1, <2>2 DEF TypeOK
  <2> QED BY <2>3, <2>4
<1> QED BY <1>1, <1>2

\* A claim leaves a run and the claims well formed.
LEMMA ClaimSlot ==
  ASSUME TypeOK, NEW j \in Runs, NEW k \in Keys, Claim(j, k)
  PROVE  \E q \in Run \cup {None} :
           /\ run' = [run EXCEPT ![j] = q]
           /\ q # None => q.at = "claiming"
           /\ \/ claims' = claims /\ (q # None => q.won = run[j].won)
              \/ /\ app[k.app] # None /\ k \notin claims /\ claims' = claims \cup {k}
                 /\ q # None => q.won = run[j].won \cup {k}
<1>1. run[j] \in Run /\ run[j].at = "claiming"
  BY DEF Claim, Claiming, TypeOK
<1>2. CASE app[k.app] = None
  BY <1>2 DEF Claim
<1>3. CASE app[k.app] # None /\ k \in claims
  <2> DEFINE q == [run[j] EXCEPT !.left = @ \ {k}]
  <2>1. q \in Run /\ q.at = "claiming" /\ q.won = run[j].won
    BY <1>1 DEF Run
  <2>2. run' = [run EXCEPT ![j] = q] /\ claims' = claims
    BY <1>3 DEF Claim, TypeOK
  <2> QED BY <2>1, <2>2
<1>4. CASE app[k.app] # None /\ k \notin claims
  <2> DEFINE q == [run[j] EXCEPT !.left = @ \ {k}, !.won = @ \cup {k}]
  <2>1. q \in Run /\ q.at = "claiming" /\ q.won = run[j].won \cup {k}
    BY <1>1 DEF Run
  <2>2. run' = [run EXCEPT ![j] = q] /\ claims' = claims \cup {k}
    BY <1>4 DEF Claim, TypeOK
  <2> HIDE DEF q
  <2> QED BY <1>4, <2>1, <2>2
<1> QED BY <1>2, <1>3, <1>4

\* A run that loads what is due is well formed.
LEMMA PerformSlot ==
  ASSUME TypeOK, NEW j \in Runs, Perform(j)
  PROVE  \E q \in Run \cup {None} :
           /\ run' = [run EXCEPT ![j] = q]
           /\ q # None => q.at = "claiming" /\ q.won = run[j].won
<1>1. run[j] \in Run /\ run[j].at = "ready"
  BY DEF Perform, TypeOK
<1> DEFINE q == [run[j] EXCEPT !.at = "claiming", !.rest = DueKeys(today)]
<1>2. DueKeys(today) \in SUBSET Keys
  BY DEF DueKeys
<1>3. q \in Run /\ q.at = "claiming" /\ q.won = run[j].won
  BY <1>1, <1>2 DEF Run
<1>4. run' = [run EXCEPT ![j] = IF today \notin BusinessDays THEN None ELSE q]
  BY DEF Perform
<1> HIDE DEF q
<1> QED BY <1>3, <1>4

\* Enqueueing a mail leaves the run, the mails and their history well formed.
LEMMA EnqueueMailSlot ==
  ASSUME TypeOK, NEW j \in Runs, EnqueueMail(j)
  PROVE  \E q \in Run : /\ run' = [run EXCEPT ![j] = q]
                        /\ q.at = "push" /\ q.won = run[j].won
<1>1. run[j] \in Run
  BY DEF EnqueueMail, Claiming, TypeOK
<1> DEFINE q == [run[j] EXCEPT !.at = "push"]
<1>2. q \in Run /\ q.at = "push" /\ q.won = run[j].won
  BY <1>1 DEF Run
<1>3. run' = [run EXCEPT ![j] = q]
  BY DEF EnqueueMail, TypeOK
<1> QED BY <1>2, <1>3

\* Enqueueing a push leaves the run and its history well formed.
LEMMA EnqueuePushSlot ==
  ASSUME TypeOK, NEW j \in Runs, EnqueuePush(j)
  PROVE  \E q \in Run : /\ run' = [run EXCEPT ![j] = q]
                        /\ q.at = "claiming" /\ q.won = {}
<1>1. run[j] \in Run
  BY DEF EnqueuePush, TypeOK
<1> DEFINE q == [run[j] EXCEPT !.at = "claiming", !.won = {}]
<1>2. q \in Run /\ q.at = "claiming" /\ q.won = {}
  BY <1>1 DEF Run
<1>3. run' = [run EXCEPT ![j] = q]
  BY DEF EnqueuePush, TypeOK
<1> QED BY <1>2, <1>3

\* The user edits their row: nothing but app and claims changes, no row is deleted.
LEMMA EditKeepsRows ==
  ASSUME TypeOK, NEW a \in Apps, NEW d \in Dates \cup {NoDate}, NEW act \in BOOLEAN,
         Edit(a, d, act)
  PROVE  /\ app' \in [Apps -> Row \cup {None}]
         /\ \A x \in Apps : app[x] = None <=> app'[x] = None
<1>1. [due |-> d, active |-> act] \in Row
  BY DEF Row
<1>2. app' = [app EXCEPT ![a] = [due |-> d, active |-> act]] /\ app[a] # None
  BY DEF Edit
<1> QED BY <1>1, <1>2, NoneIsNoRow DEF TypeOK

\* The safety part of the invariant.
Safety == AtMostOneDigest /\ ClaimsAreExclusive /\ PushFollowsMail

\* A step that changes one slot keeps the invariant when the run there has won nothing, or
\* keeps what it had won and stays on the same side of the mail.
LEMMA SlotStep ==
  ASSUME IInv, UNCHANGED <<app, claims, enqueued, pushed>>,
         NEW j \in Runs, NEW q \in Run \cup {None}, run' = [run EXCEPT ![j] = q],
         q # None => \/ q.won = {}
                     \/ /\ run[j] # None /\ q.won = run[j].won
                        /\ q.at = "push" <=> run[j].at = "push"
  PROVE  Safety'
<1>1. \A i \in Runs : run'[i] = IF i = j THEN q ELSE run[i]
  BY DEF IInv, TypeOK
<1>2. \A i \in Runs : run'[i] # None =>
        \/ run'[i].won = {}
        \/ /\ run[i] # None /\ run'[i].won = run[i].won
           /\ run'[i].at = "push" <=> run[i].at = "push"
  BY <1>1
<1>3. AtMostOneDigest' /\ PushFollowsMail'
  BY DEF IInv, AtMostOneDigest, PushFollowsMail
<1>4. ClaimsAreExclusive'
  BY <1>2 DEF IInv, ClaimsAreExclusive
<1> QED BY <1>3, <1>4 DEF Safety

\* Every step keeps the types.
LEMMA TypeNext == TypeOK /\ [Next]_vars => TypeOK'
<1> SUFFICES ASSUME TypeOK, [Next]_vars PROVE TypeOK'
  OBVIOUS
<1>ready. ReadyRun \in Run
  BY DEF ReadyRun, Run
<1>1. ASSUME NEW j \in Runs, Schedule(j) PROVE TypeOK'
  <2>1. run' \in [Runs -> Run \cup {None}]
    BY <1>1, <1>ready DEF Schedule, TypeOK
  <2> QED BY <1>1, <2>1 DEF Schedule, TypeOK
<1>2. ASSUME NEW j \in Runs, Again(j) PROVE TypeOK'
  <2>1. run' \in [Runs -> Run \cup {None}]
    BY <1>2, <1>ready DEF Again, TypeOK
  <2>2. restarts' \in 0..MaxRestarts
    BY <1>2, RemindersAssumption DEF Again, TypeOK
  <2> QED BY <1>2, <2>1, <2>2 DEF Again, TypeOK
<1>3. ASSUME NEW j \in Runs, Perform(j) PROVE TypeOK'
  BY <1>3, PerformSlot, RunStep DEF Perform, TypeOK
<1>4. ASSUME NEW j \in Runs, NextUser(j) PROVE TypeOK'
  BY <1>4, NextUserSlot, RunStep DEF NextUser, TypeOK
<1>5. ASSUME NEW j \in Runs, NEW k \in Keys, Claim(j, k) PROVE TypeOK'
  <2>1. claims' \subseteq Keys
    BY <1>5, ClaimSlot DEF TypeOK
  <2>2. run' \in [Runs -> Run \cup {None}]
    BY <1>5, ClaimSlot, RunStep DEF TypeOK
  <2> QED BY <1>5, <2>1, <2>2 DEF Claim, TypeOK
<1>6. ASSUME NEW j \in Runs, EnqueueMail(j) PROVE TypeOK'
  <2>1. PICK k \in run[j].won :
          mails' = mails \cup {[user |-> UserOf(k), keys |-> run[j].won, attempt |-> 1]}
    BY <1>6 DEF EnqueueMail
  <2>2. run[j].won \in SUBSET Keys
    BY <1>6, RunFields DEF EnqueueMail, Claiming, TypeOK
  <2>3. UserOf(k) \in Users
    BY <2>2, RemindersAssumption DEF UserOf, Keys
  <2>4. mails' \subseteq Mail
    BY <2>1, <2>2, <2>3, RemindersAssumption DEF Mail, TypeOK
  <2>5. enqueued' \in [Keys -> Nat]
    BY <1>6, CountedType DEF EnqueueMail, TypeOK
  <2>6. run' \in [Runs -> Run \cup {None}]
    BY <1>6, EnqueueMailSlot, RunStep DEF TypeOK
  <2> QED BY <1>6, <2>4, <2>5, <2>6 DEF EnqueueMail, TypeOK
<1>7. ASSUME NEW j \in Runs, EnqueuePush(j) PROVE TypeOK'
  <2>1. pushed' \in [Keys -> Nat]
    BY <1>7, CountedType DEF EnqueuePush, TypeOK
  <2>2. run' \in [Runs -> Run \cup {None}]
    BY <1>7, EnqueuePushSlot, RunStep DEF TypeOK
  <2> QED BY <1>7, <2>1, <2>2 DEF EnqueuePush, TypeOK
<1>8. ASSUME NEW m \in mails, Deliver(m) PROVE TypeOK'
  <2>1. m \in Mail /\ mails \subseteq Mail
    BY DEF TypeOK
  <2>2. Retried(m) \subseteq Mail
    BY <2>1, RemindersAssumption DEF Retried, Mail
  <2>3. mails' \subseteq Mail
    BY <1>8, <2>1, <2>2 DEF Deliver
  <2>4. sent' \in [Keys -> Nat]
    BY <1>8, CountedType DEF Deliver, TypeOK
  <2> QED BY <1>8, <2>3, <2>4 DEF Deliver, TypeOK
<1>9. ASSUME NEW a \in Apps, NEW d \in Dates \cup {NoDate}, NEW act \in BOOLEAN, Edit(a, d, act)
      PROVE TypeOK'
  BY <1>9, EditKeepsRows DEF Edit, TypeOK
<1>10. ASSUME NEW a \in Apps, Delete(a) PROVE TypeOK'
  BY <1>10 DEF Delete, TypeOK
<1>11. ASSUME Restart PROVE TypeOK'
  <2>1. run' \in [Runs -> Run \cup {None}]
    BY <1>11, <1>ready DEF Restart
  <2>2. restarts' \in 0..MaxRestarts
    BY <1>11, RemindersAssumption DEF Restart, TypeOK
  <2> QED BY <1>11, <2>1, <2>2 DEF Restart, TypeOK
<1>12. ASSUME Tick PROVE TypeOK'
  <2>1. today' \in Days
    BY <1>12, RemindersAssumption DEF Tick, TypeOK, Days
  <2>2. restarts' \in 0..MaxRestarts
    BY <1>12, RemindersAssumption DEF Tick, TypeOK
  <2> QED BY <1>12, <2>1, <2>2 DEF Tick, TypeOK
<1>13. CASE UNCHANGED vars
  BY <1>13 DEF vars, TypeOK
<1> QED
  BY <1>1, <1>2, <1>3, <1>4, <1>5, <1>6, <1>7, <1>8, <1>9, <1>10, <1>11, <1>12, <1>13
  DEF Next, Work

\* The tables, jobs and history stay well formed, whatever the constants.
THEOREM TypeCorrect == Spec => []TypeOK
<1>1. Init => TypeOK
  BY TypeInit
<1>2. TypeOK /\ [Next]_vars => TypeOK'
  BY TypeNext
<1> QED BY <1>1, <1>2, PTL DEF Spec

\* The initial state satisfies the invariant.
LEMMA InvInit == Init => IInv
<1> SUFFICES ASSUME Init PROVE IInv
  OBVIOUS
<1>1. \A k \in Keys : enqueued[k] = 0 /\ pushed[k] = 0
  BY DEF Init
<1>2. \A j \in Runs : run[j] = None
  BY DEF Init
<1>3. AtMostOneDigest /\ PushFollowsMail
  BY <1>1 DEF AtMostOneDigest, PushFollowsMail
<1>4. ClaimsAreExclusive
  BY <1>1, <1>2 DEF ClaimsAreExclusive
<1> QED BY <1>3, <1>4, TypeInit DEF IInv

\* Winning a claim: the reminder was in no other hands and has not been enqueued.
LEMMA ClaimKeepsSafety ==
  ASSUME IInv, NEW j \in Runs, NEW k \in Keys, Claim(j, k)
  PROVE  Safety'
<1>0. TypeOK /\ AtMostOneDigest /\ ClaimsAreExclusive /\ PushFollowsMail
  BY DEF IInv
<1>1. UNCHANGED <<app, enqueued, pushed>> /\ run[j] # None /\ run[j].at = "claiming"
  BY DEF Claim, Claiming
<1>2. PICK q \in Run \cup {None} :
        /\ run' = [run EXCEPT ![j] = q]
        /\ q # None => q.at = "claiming"
        /\ \/ claims' = claims /\ (q # None => q.won = run[j].won)
           \/ /\ app[k.app] # None /\ k \notin claims /\ claims' = claims \cup {k}
              /\ q # None => q.won = run[j].won \cup {k}
  BY <1>0, ClaimSlot
<1>3. CASE claims' = claims /\ (q # None => q.won = run[j].won)
  BY <1>1, <1>2, <1>3, SlotStep
<1>4. CASE /\ app[k.app] # None /\ k \notin claims /\ claims' = claims \cup {k}
           /\ q # None => q.won = run[j].won \cup {k}
  <2>1. enqueued[k] = 0 /\ pushed[k] = 0
    BY <1>0, <1>4 DEF TypeOK, ClaimsAreExclusive, PushFollowsMail
  <2>2. \A i \in Runs : run[i] # None => k \notin run[i].won
    BY <1>0, <1>4 DEF ClaimsAreExclusive
  <2>3. \A i \in Runs : run'[i] = IF i = j THEN q ELSE run[i]
    BY <1>0, <1>2 DEF TypeOK
  <2>4. \A x \in Keys : x \in claims \/ app[x.app] = None => x \in claims' \/ app'[x.app] = None
    BY <1>1, <1>4
  <2>5. \A i \in Runs : run'[i] # None =>
          \A x \in run'[i].won : /\ x \in claims' \/ app'[x.app] = None
                                 /\ pushed'[x] = 0
                                 /\ enqueued'[x] = IF run'[i].at = "push" THEN 1 ELSE 0
    <3> SUFFICES ASSUME NEW i \in Runs, run'[i] # None, NEW x \in run'[i].won
                 PROVE  /\ x \in claims' \/ app'[x.app] = None
                        /\ pushed'[x] = 0
                        /\ enqueued'[x] = IF run'[i].at = "push" THEN 1 ELSE 0
      OBVIOUS
    <3>1. CASE i = j /\ x = k
      BY <3>1, <1>1, <1>2, <1>4, <2>1, <2>3
    <3>2. CASE i # j
      BY <3>2, <1>0, <1>1, <1>4, <2>3 DEF ClaimsAreExclusive
    <3>3. CASE i = j /\ x # k
      <4>1. x \in run[j].won /\ run'[i].at = "claiming"
        BY <3>3, <1>2, <1>4, <2>3
      <4> QED BY <4>1, <1>0, <1>1, <1>4 DEF ClaimsAreExclusive
    <3> QED BY <3>1, <3>2, <3>3
  <2>6. \A i, l \in Runs : i # l /\ run'[i] # None /\ run'[l] # None
                           => run'[i].won \cap run'[l].won = {}
    BY <1>0, <1>1, <1>4, <2>2, <2>3 DEF ClaimsAreExclusive
  <2>7. \A x \in Keys : enqueued'[x] > 0 => x \in claims' \/ app'[x.app] = None
    BY <1>0, <1>1, <2>4 DEF ClaimsAreExclusive
  <2>8. AtMostOneDigest' /\ PushFollowsMail'
    BY <1>0, <1>1 DEF AtMostOneDigest, PushFollowsMail
  <2> QED BY <2>5, <2>6, <2>7, <2>8 DEF Safety, ClaimsAreExclusive
<1> QED BY <1>2, <1>3, <1>4

\* Enqueuing the mail moves every reminder the run has won from zero to one.
LEMMA MailKeepsSafety ==
  ASSUME IInv, NEW j \in Runs, EnqueueMail(j)
  PROVE  Safety'
<1>0. TypeOK /\ AtMostOneDigest /\ ClaimsAreExclusive /\ PushFollowsMail
  BY DEF IInv
<1>1. /\ UNCHANGED <<app, claims, pushed>> /\ run[j] # None /\ run[j].at = "claiming"
      /\ enqueued' = Counted(enqueued, run[j].won)
  BY DEF EnqueueMail, Claiming
<1>2. PICK q \in Run : run' = [run EXCEPT ![j] = q] /\ q.at = "push" /\ q.won = run[j].won
  BY <1>0, EnqueueMailSlot
<1>3. \A i \in Runs : run'[i] = IF i = j THEN q ELSE run[i]
  BY <1>0, <1>2 DEF TypeOK
<1>4. \A k \in Keys : enqueued'[k] = IF k \in run[j].won THEN enqueued[k] + 1 ELSE enqueued[k]
  BY <1>0, <1>1, CountedType DEF TypeOK
<1>5. run[j].won \subseteq Keys /\ \A i \in Runs : run[i] # None => run[i].won \subseteq Keys
  BY <1>0, <1>1, RunFields DEF TypeOK
<1>6. \A k \in run[j].won : /\ enqueued[k] = 0 /\ pushed[k] = 0
                            /\ k \in claims \/ app[k.app] = None
  BY <1>0, <1>1 DEF ClaimsAreExclusive
<1>7. AtMostOneDigest' /\ PushFollowsMail'
  BY <1>0, <1>1, <1>4, <1>6 DEF AtMostOneDigest, PushFollowsMail, TypeOK
<1>8. \A k \in Keys : enqueued'[k] > 0 => k \in claims' \/ app'[k.app] = None
  BY <1>0, <1>1, <1>4, <1>6 DEF ClaimsAreExclusive, TypeOK
<1>9. \A i \in Runs : run'[i] # None =>
        \A x \in run'[i].won : /\ x \in claims' \/ app'[x.app] = None
                               /\ pushed'[x] = 0
                               /\ enqueued'[x] = IF run'[i].at = "push" THEN 1 ELSE 0
  <2> SUFFICES ASSUME NEW i \in Runs, run'[i] # None, NEW x \in run'[i].won
               PROVE  /\ x \in claims' \/ app'[x.app] = None
                      /\ pushed'[x] = 0
                      /\ enqueued'[x] = IF run'[i].at = "push" THEN 1 ELSE 0
    OBVIOUS
  <2>1. CASE i = j
    BY <2>1, <1>1, <1>2, <1>3, <1>4, <1>5, <1>6
  <2>2. CASE i # j
    <3>1. run'[i] = run[i] /\ x \in Keys /\ x \notin run[j].won
      BY <2>2, <1>0, <1>1, <1>3, <1>5 DEF ClaimsAreExclusive
    <3>2. enqueued'[x] = enqueued[x]
      BY <3>1, <1>4
    <3> QED BY <3>1, <3>2, <1>0, <1>1 DEF ClaimsAreExclusive
  <2> QED BY <2>1, <2>2
<1>10. \A i, l \in Runs : i # l /\ run'[i] # None /\ run'[l] # None
                          => run'[i].won \cap run'[l].won = {}
  BY <1>0, <1>1, <1>2, <1>3 DEF ClaimsAreExclusive
<1> QED BY <1>7, <1>8, <1>9, <1>10 DEF Safety, ClaimsAreExclusive

\* Enqueuing the push does the same for the second channel, and the run lets go.
LEMMA PushKeepsSafety ==
  ASSUME IInv, NEW j \in Runs, EnqueuePush(j)
  PROVE  Safety'
<1>0. TypeOK /\ AtMostOneDigest /\ ClaimsAreExclusive /\ PushFollowsMail
  BY DEF IInv
<1>1. /\ UNCHANGED <<app, claims, enqueued>> /\ run[j] # None /\ run[j].at = "push"
      /\ pushed' = IF VapidConfigured THEN Counted(pushed, run[j].won) ELSE pushed
  BY DEF EnqueuePush
<1>2. PICK q \in Run : run' = [run EXCEPT ![j] = q] /\ q.at = "claiming" /\ q.won = {}
  BY <1>0, EnqueuePushSlot
<1>3. \A i \in Runs : run'[i] = IF i = j THEN q ELSE run[i]
  BY <1>0, <1>2 DEF TypeOK
<1>4. \A k \in Keys : \/ pushed'[k] = pushed[k]
                      \/ k \in run[j].won /\ pushed'[k] = pushed[k] + 1
  BY <1>0, <1>1, CountedType DEF TypeOK
<1>5. \A k \in run[j].won : enqueued[k] = 1 /\ pushed[k] = 0
  BY <1>0, <1>1 DEF ClaimsAreExclusive
<1>6. AtMostOneDigest' /\ PushFollowsMail'
  BY <1>0, <1>1, <1>4, <1>5 DEF AtMostOneDigest, PushFollowsMail, TypeOK
<1>7. \A i \in Runs : run'[i] # None =>
        \A x \in run'[i].won : /\ x \in claims' \/ app'[x.app] = None
                               /\ pushed'[x] = 0
                               /\ enqueued'[x] = IF run'[i].at = "push" THEN 1 ELSE 0
  <2> SUFFICES ASSUME NEW i \in Runs, run'[i] # None, NEW x \in run'[i].won
               PROVE  /\ x \in claims' \/ app'[x.app] = None
                      /\ pushed'[x] = 0
                      /\ enqueued'[x] = IF run'[i].at = "push" THEN 1 ELSE 0
    OBVIOUS
  <2>1. i # j
    BY <1>2, <1>3
  <2>2. run'[i] = run[i] /\ run[i] \in Run /\ x \notin run[j].won
    BY <2>1, <1>0, <1>1, <1>3 DEF ClaimsAreExclusive, TypeOK
  <2>3. x \in Keys
    BY <2>2, RunFields
  <2>4. pushed'[x] = pushed[x]
    BY <2>2, <2>3, <1>4
  <2> QED BY <2>2, <2>4, <1>0, <1>1 DEF ClaimsAreExclusive
<1>8. \A i, l \in Runs : i # l /\ run'[i] # None /\ run'[l] # None
                         => run'[i].won \cap run'[l].won = {}
  BY <1>0, <1>2, <1>3 DEF ClaimsAreExclusive
<1>9. \A k \in Keys : enqueued'[k] > 0 => k \in claims' \/ app'[k.app] = None
  BY <1>0, <1>1 DEF ClaimsAreExclusive
<1> QED BY <1>6, <1>7, <1>8, <1>9 DEF Safety, ClaimsAreExclusive

\* The users' steps leave the runs alone, and a claim goes only with its application.
LEMMA UsersKeepSafety ==
  ASSUME IInv, UNCHANGED <<run, enqueued, pushed>>,
         \A x \in Apps : app[x] = None => app'[x] = None,
         \A k \in claims : k \in claims' \/ app'[k.app] = None
  PROVE  Safety'
<1>0. TypeOK /\ AtMostOneDigest /\ ClaimsAreExclusive /\ PushFollowsMail
  BY DEF IInv
<1>1. \A k \in Keys : k \in claims \/ app[k.app] = None => k \in claims' \/ app'[k.app] = None
  BY DEF Keys
<1>2. \A j \in Runs : run[j] # None => run[j].won \subseteq Keys
  BY <1>0, RunFields DEF TypeOK
<1>3. ClaimsAreExclusive'
  BY <1>0, <1>1, <1>2 DEF ClaimsAreExclusive
<1> QED BY <1>0, <1>3 DEF Safety, AtMostOneDigest, PushFollowsMail

\* Every step keeps the invariant.
LEMMA InvNext == IInv /\ [Next]_vars => IInv'
<1> SUFFICES ASSUME IInv, [Next]_vars PROVE Safety'
  BY TypeNext DEF IInv, Safety
<1>0. TypeOK /\ AtMostOneDigest /\ ClaimsAreExclusive /\ PushFollowsMail
  BY DEF IInv
<1>ready. ReadyRun \in Run /\ ReadyRun.won = {}
  BY DEF ReadyRun, Run
<1>1. ASSUME NEW j \in Runs, Schedule(j) \/ Again(j) PROVE Safety'
  BY <1>1, <1>ready, SlotStep DEF Schedule, Again
<1>2. ASSUME NEW j \in Runs, Perform(j) PROVE Safety'
  <2>1. UNCHANGED <<app, claims, enqueued, pushed>> /\ run[j] # None /\ run[j].at = "ready"
    BY <1>2 DEF Perform
  <2> QED BY <1>0, <1>2, <2>1, PerformSlot, SlotStep
<1>3. ASSUME NEW j \in Runs, NextUser(j) PROVE Safety'
  <2>1. UNCHANGED <<app, claims, enqueued, pushed>>
    BY <1>3 DEF NextUser
  <2> QED BY <1>0, <1>3, <2>1, NextUserSlot, SlotStep
<1>4. ASSUME NEW j \in Runs, NEW k \in Keys, Claim(j, k) PROVE Safety'
  BY <1>4, ClaimKeepsSafety
<1>5. ASSUME NEW j \in Runs, EnqueueMail(j) PROVE Safety'
  BY <1>5, MailKeepsSafety
<1>6. ASSUME NEW j \in Runs, EnqueuePush(j) PROVE Safety'
  BY <1>6, PushKeepsSafety
<1>7. ASSUME NEW m \in mails, Deliver(m) PROVE Safety'
  BY <1>7, UsersKeepSafety DEF Deliver
<1>8. ASSUME NEW a \in Apps, NEW d \in Dates \cup {NoDate}, NEW act \in BOOLEAN, Edit(a, d, act)
      PROVE Safety'
  BY <1>0, <1>8, EditKeepsRows, UsersKeepSafety DEF Edit
<1>9. ASSUME NEW a \in Apps, Delete(a) PROVE Safety'
  <2>1. \A x \in Apps : app[x] = None => app'[x] = None
    BY <1>0, <1>9 DEF Delete, TypeOK
  <2>2. \A k \in claims : k \in claims' \/ app'[k.app] = None
    BY <1>0, <1>9 DEF Delete, TypeOK, Keys
  <2> QED BY <1>9, <2>1, <2>2, UsersKeepSafety DEF Delete
<1>10. ASSUME Restart PROVE Safety'
  <2>1. \A j \in Runs : run'[j] # None => run'[j].won = {}
    BY <1>10, <1>ready DEF Restart
  <2>2. UNCHANGED <<app, claims, enqueued, pushed>>
    BY <1>10 DEF Restart
  <2> QED BY <1>0, <2>1, <2>2
          DEF Safety, AtMostOneDigest, PushFollowsMail, ClaimsAreExclusive
<1>11. ASSUME Tick PROVE Safety'
  BY <1>11, UsersKeepSafety DEF Tick
<1>12. CASE UNCHANGED vars
  BY <1>12, UsersKeepSafety DEF vars
<1> QED
  BY <1>1, <1>2, <1>3, <1>4, <1>5, <1>6, <1>7, <1>8, <1>9, <1>10, <1>11, <1>12
  DEF Next, Work

\* The invariant holds in every reachable state, whatever the constants.
THEOREM Invariant == Spec => []IInv
<1>1. Init => IInv
  BY InvInit
<1>2. IInv /\ [Next]_vars => IInv'
  BY InvNext
<1> QED BY <1>1, <1>2, PTL DEF Spec

\* No reminder is carried by two mail jobs or by two push jobs, whatever runs overlap,
\* restart or are repeated (the idempotency key of FollowUpReminderJob#claim).
THEOREM OneDigest == Spec => []AtMostOneDigest
<1>1. IInv => AtMostOneDigest
  BY DEF IInv
<1> QED BY <1>1, Invariant, PTL

\* A reminder a run has won is claimed, unsent, and in no other run's hands.
THEOREM ExclusiveClaims == Spec => []ClaimsAreExclusive
<1>1. IInv => ClaimsAreExclusive
  BY DEF IInv
<1> QED BY <1>1, Invariant, PTL

\* No push without its mail.
THEOREM PushAfterMail == Spec => []PushFollowsMail
<1>1. IInv => PushFollowsMail
  BY DEF IInv
<1> QED BY <1>1, Invariant, PTL

-------------------------------------------------------------------------------
\* The reminders a run holds for the user it works on are one user's.
OneReader(q) == \A x, y \in q.left \cup q.won : UserOf(x) = UserOf(y)

Readers == \A j \in Runs : run[j] # None => OneReader(run[j])

PersonalInv == TypeOK /\ Readers /\ DigestsArePersonal

\* A new group is one user's, and what is left of it or moved to won stays so.
LEMMA ReaderSlot ==
  ASSUME TypeOK, NEW j \in Runs, run[j] # None, OneReader(run[j]),
         \/ Perform(j) \/ NextUser(j) \/ EnqueueMail(j) \/ EnqueuePush(j)
         \/ \E k \in Keys : Claim(j, k)
  PROVE  \E q : run' = [run EXCEPT ![j] = q] /\ (q # None => OneReader(q))
<1>0. run[j] \in Run
  BY DEF TypeOK
<1> DEFINE Same(q) == /\ run' = [run EXCEPT ![j] = q]
                      /\ q.left \subseteq run[j].left \cup run[j].won
                      /\ q.won \subseteq run[j].left \cup run[j].won
<1>1. ASSUME NEW q, Same(q)
      PROVE  \E p : run' = [run EXCEPT ![j] = p] /\ (p # None => OneReader(p))
  BY <1>1 DEF OneReader
<1>2. ASSUME run' = [run EXCEPT ![j] = None]
      PROVE  \E p : run' = [run EXCEPT ![j] = p] /\ (p # None => OneReader(p))
  BY <1>2
<1> HIDE DEF Same
<1>3. CASE Perform(j)
  <2> DEFINE q == [run[j] EXCEPT !.at = "claiming", !.rest = DueKeys(today)]
  <2>1. q.left = run[j].left /\ q.won = run[j].won
    BY <1>0 DEF Run
  <2>2. run' = [run EXCEPT ![j] = IF today \notin BusinessDays THEN None ELSE q]
    BY <1>3 DEF Perform
  <2> HIDE DEF q
  <2>3. CASE today \notin BusinessDays
    BY <1>2, <2>2, <2>3
  <2>4. CASE today \in BusinessDays
    <3>1. Same(q)
      BY <2>1, <2>2, <2>4 DEF Same
    <3> QED BY <1>1, <3>1
  <2> QED BY <2>3, <2>4
<1>4. CASE NextUser(j)
  <2>1. CASE run[j].rest = {}
    BY <1>2, <1>4, <2>1 DEF NextUser
  <2>2. CASE run[j].rest # {}
    <3>1. PICK k \in run[j].rest :
            run' = [run EXCEPT ![j].left = { x \in run[j].rest : UserOf(x) = UserOf(k) },
                               ![j].rest = @ \ { x \in run[j].rest : UserOf(x) = UserOf(k) }]
      BY <1>4, <2>2 DEF NextUser
    <3> DEFINE group == { x \in run[j].rest : UserOf(x) = UserOf(k) }
               q == [run[j] EXCEPT !.left = group, !.rest = @ \ group]
    <3>2. run[j].won = {}
      BY <1>4 DEF NextUser
    <3>3. q.left = group /\ q.won = {}
      BY <1>0, <3>2 DEF Run
    <3>4. run' = [run EXCEPT ![j] = q]
      BY <3>1 DEF TypeOK
    <3>5. \A x \in group : UserOf(x) = UserOf(k)
      OBVIOUS
    <3> HIDE DEF q, group
    <3>6. OneReader(q)
      BY <3>3, <3>5 DEF OneReader
    <3> QED BY <3>4, <3>6
  <2> QED BY <2>1, <2>2
<1>5. CASE EnqueueMail(j)
  <2> DEFINE q == [run[j] EXCEPT !.at = "push"]
  <2>1. q.left = run[j].left /\ q.won = run[j].won
    BY <1>0 DEF Run
  <2>2. run' = [run EXCEPT ![j] = q]
    BY <1>5 DEF EnqueueMail, TypeOK
  <2> HIDE DEF q
  <2>3. Same(q)
    BY <2>1, <2>2 DEF Same
  <2> QED BY <1>1, <2>3
<1>6. CASE EnqueuePush(j)
  <2> DEFINE q == [run[j] EXCEPT !.at = "claiming", !.won = {}]
  <2>1. q.left = run[j].left /\ q.won = {}
    BY <1>0 DEF Run
  <2>2. run' = [run EXCEPT ![j] = q]
    BY <1>6 DEF EnqueuePush, TypeOK
  <2> HIDE DEF q
  <2>3. Same(q)
    BY <2>1, <2>2 DEF Same
  <2> QED BY <1>1, <2>3
<1>7. ASSUME NEW k \in Keys, Claim(j, k)
      PROVE  \E p : run' = [run EXCEPT ![j] = p] /\ (p # None => OneReader(p))
  <2>0. k \in run[j].left
    BY <1>7 DEF Claim
  <2>1. CASE app[k.app] = None
    BY <1>2, <1>7, <2>1 DEF Claim
  <2>2. CASE app[k.app] # None /\ k \in claims
    <3> DEFINE q == [run[j] EXCEPT !.left = @ \ {k}]
    <3>1. q.left = run[j].left \ {k} /\ q.won = run[j].won
      BY <1>0 DEF Run
    <3>2. run' = [run EXCEPT ![j] = q]
      BY <1>7, <2>2 DEF Claim, TypeOK
    <3> HIDE DEF q
    <3>3. Same(q)
      BY <3>1, <3>2 DEF Same
    <3> QED BY <1>1, <3>3
  <2>3. CASE app[k.app] # None /\ k \notin claims
    <3> DEFINE q == [run[j] EXCEPT !.left = @ \ {k}, !.won = @ \cup {k}]
    <3>1. q.left = run[j].left \ {k} /\ q.won = run[j].won \cup {k}
      BY <1>0 DEF Run
    <3>2. run' = [run EXCEPT ![j] = q]
      BY <1>7, <2>3 DEF Claim, TypeOK
    <3> HIDE DEF q
    <3>3. Same(q)
      BY <2>0, <3>1, <3>2 DEF Same
    <3> QED BY <1>1, <3>3
  <2> QED BY <2>1, <2>2, <2>3
<1> QED BY <1>3, <1>4, <1>5, <1>6, <1>7

\* Every step keeps the readers apart.
LEMMA PersonalNext == PersonalInv /\ [Next]_vars => PersonalInv'
<1> SUFFICES ASSUME PersonalInv, [Next]_vars PROVE PersonalInv'
  OBVIOUS
<1>0. TypeOK /\ TypeOK'
  BY TypeNext DEF PersonalInv
<1>r. Readers /\ DigestsArePersonal
  BY DEF PersonalInv
<1>ready. OneReader(ReadyRun)
  BY DEF ReadyRun, OneReader
<1>1. ASSUME NEW j \in Runs, Schedule(j) \/ Again(j) PROVE Readers' /\ DigestsArePersonal'
  <2>1. run' = [run EXCEPT ![j] = ReadyRun] /\ mails' = mails
    BY <1>1 DEF Schedule, Again
  <2>2. \A i \in Runs : run'[i] = IF i = j THEN ReadyRun ELSE run[i]
    BY <1>0, <2>1 DEF TypeOK
  <2>3. Readers'
    BY <1>r, <1>ready, <2>2 DEF OneReader, Readers
  <2> QED BY <1>r, <2>1, <2>3 DEF DigestsArePersonal
<1>2. ASSUME NEW j \in Runs, Work(j) PROVE Readers' /\ DigestsArePersonal'
  <2>0. run[j] # None
    BY <1>2 DEF Work, Perform, NextUser, Claim, EnqueueMail, EnqueuePush, Claiming
  <2>1. PICK q : run' = [run EXCEPT ![j] = q] /\ (q # None => OneReader(q))
    <3>1. OneReader(run[j])
      BY <1>r, <2>0 DEF Readers
    <3> QED BY <1>0, <1>2, <2>0, <3>1, ReaderSlot DEF Work
  <2>2. \A i \in Runs : run'[i] = IF i = j THEN q ELSE run[i]
    BY <1>0, <2>1 DEF TypeOK
  <2>3. Readers'
    BY <1>r, <2>1, <2>2 DEF OneReader, Readers
  <2>4. CASE EnqueueMail(j)
    <3>1. PICK k \in run[j].won :
            mails' = mails \cup {[user |-> UserOf(k), keys |-> run[j].won, attempt |-> 1]}
      BY <2>4 DEF EnqueueMail
    <3>2. \A x \in run[j].won : UserOf(x) = UserOf(k)
      BY <1>r, <2>0 DEF OneReader, Readers
    <3> QED BY <1>r, <2>3, <3>1, <3>2 DEF DigestsArePersonal
  <2>5. CASE ~EnqueueMail(j)
    <3>1. mails' = mails
      BY <1>2, <2>5 DEF Work, Perform, NextUser, Claim, EnqueuePush
    <3> QED BY <1>r, <2>3, <3>1 DEF DigestsArePersonal
  <2> QED BY <2>4, <2>5
<1>3. ASSUME NEW m \in mails, Deliver(m) PROVE Readers' /\ DigestsArePersonal'
  <2>1. m \in Mail
    BY <1>0 DEF TypeOK
  <2>2. \A n \in Retried(m) : n \in mails \/ (n.user = m.user /\ n.keys = m.keys)
    BY <2>1 DEF Retried, Mail
  <2>3. \A n \in mails' : n \in mails \/ (n.user = m.user /\ n.keys = m.keys)
    BY <1>3, <2>2 DEF Deliver
  <2>4. run' = run
    BY <1>3 DEF Deliver
  <2>5. Readers'
    BY <1>r, <2>4 DEF OneReader, Readers
  <2> QED BY <1>r, <2>3, <2>5 DEF DigestsArePersonal
<1>4. ASSUME Restart PROVE Readers' /\ DigestsArePersonal'
  <2>1. mails' = mails /\ \A j \in Runs : run'[j] \in {None, ReadyRun}
    BY <1>4 DEF Restart
  <2>2. Readers'
    BY <1>ready, <2>1 DEF OneReader, Readers
  <2> QED BY <1>r, <2>1, <2>2 DEF DigestsArePersonal
<1>5. ASSUME run' = run, mails' = mails PROVE Readers' /\ DigestsArePersonal'
  BY <1>r, <1>5 DEF OneReader, Readers, DigestsArePersonal
<1>6. ASSUME NEW a \in Apps, Delete(a) PROVE Readers' /\ DigestsArePersonal'
  BY <1>5, <1>6 DEF Delete
<1>7. ASSUME NEW a \in Apps, NEW d \in Dates \cup {NoDate}, NEW act \in BOOLEAN, Edit(a, d, act)
      PROVE  Readers' /\ DigestsArePersonal'
  BY <1>5, <1>7 DEF Edit
<1>8. ASSUME Tick PROVE Readers' /\ DigestsArePersonal'
  BY <1>5, <1>8 DEF Tick
<1>9. ASSUME UNCHANGED vars PROVE Readers' /\ DigestsArePersonal'
  BY <1>5, <1>9 DEF vars
<1>10. Readers' /\ DigestsArePersonal'
  BY <1>1, <1>2, <1>3, <1>4, <1>6, <1>7, <1>8, <1>9 DEF Next
<1> QED BY <1>0, <1>10 DEF PersonalInv

\* A digest names its reader's applications only (group_by(&:user)), however runs restart,
\* overlap and lose claims to one another.
THEOREM PersonalDigests == Spec => []DigestsArePersonal
<1>1. Init => PersonalInv
  BY TypeInit DEF Init, PersonalInv, Readers, DigestsArePersonal
<1>2. PersonalInv => DigestsArePersonal
  BY DEF PersonalInv
<1> QED BY <1>1, <1>2, PersonalNext, PTL DEF Spec

-------------------------------------------------------------------------------
\* A reminder nobody enqueued was not sent; one that a mail job carries was enqueued and
\* is in no other mail job.
MailsAreAccounted ==
  /\ \A k \in Keys : enqueued[k] = 0 => sent[k] = 0
  /\ \A m \in mails : \A k \in m.keys : enqueued[k] # 0
  /\ \A m, n \in mails : m # n => m.keys \cap n.keys = {}

Accounts == MailsAreAccounted /\ DeliveriesAreBounded

\* The mail job a run enqueues carries reminders no mail job ever carried.
LEMMA MailKeepsAccounts ==
  ASSUME IInv, Accounts, NEW j \in Runs, EnqueueMail(j)
  PROVE  Accounts'
<1>0. TypeOK /\ ClaimsAreExclusive
  BY DEF IInv
<1> DEFINE K == run[j].won
<1>1. PICK u : mails' = mails \cup {[user |-> u, keys |-> K, attempt |-> 1]}
  BY DEF EnqueueMail
<1> DEFINE new == [user |-> u, keys |-> K, attempt |-> 1]
<1>2. K \in SUBSET Keys
  BY <1>0, RunFields DEF EnqueueMail, Claiming, TypeOK
<1>3. sent' = sent /\ enqueued' = Counted(enqueued, K)
  BY DEF EnqueueMail
<1>4. \A k \in K : enqueued[k] = 0 /\ sent[k] = 0
  BY <1>0, <1>2 DEF ClaimsAreExclusive, EnqueueMail, Claiming, Accounts, MailsAreAccounted
<1>5. \A k \in Keys : enqueued'[k] = IF k \in K THEN enqueued[k] + 1 ELSE enqueued[k]
  BY <1>0, <1>3, CountedType DEF TypeOK
<1>6. new.keys = K /\ new.attempt = 1
  OBVIOUS
<1>7. \A m \in mails : m.keys \subseteq Keys
  BY <1>0 DEF TypeOK, Mail
<1> HIDE DEF K, new
<1>8. \A k \in Keys : enqueued[k] \in Nat /\ sent[k] \in Nat
  BY <1>0 DEF TypeOK
<1>9. \A k \in Keys : enqueued'[k] = 0 => sent'[k] = 0
  BY <1>3, <1>5, <1>8 DEF Accounts, MailsAreAccounted
<1>10. mails' = mails \cup {new}
  BY <1>1 DEF new
<1>11. \A m \in mails' : \A k \in m.keys : enqueued'[k] # 0
  <2>1. \A k \in K : enqueued'[k] # 0
    BY <1>2, <1>4, <1>5
  <2>2. ASSUME NEW m \in mails, NEW k \in m.keys PROVE enqueued'[k] # 0
    BY <1>5, <1>7, <1>8 DEF Accounts, MailsAreAccounted
  <2> QED BY <1>6, <1>10, <2>1, <2>2
<1>12. \A m \in mails : m.keys \cap K = {}
  BY <1>4 DEF Accounts, MailsAreAccounted
<1>13. \A m, n \in mails' : m # n => m.keys \cap n.keys = {}
  BY <1>6, <1>10, <1>12 DEF Accounts, MailsAreAccounted
<1>14. \A m \in mails' : \A k \in m.keys : sent'[k] < m.attempt
  BY <1>3, <1>4, <1>6, <1>10 DEF Accounts, DeliveriesAreBounded
<1>15. \A k \in Keys : sent'[k] <= Attempts
  BY <1>3 DEF Accounts, DeliveriesAreBounded
<1> QED BY <1>9, <1>11, <1>13, <1>14, <1>15 DEF Accounts, MailsAreAccounted, DeliveriesAreBounded

\* A delivery touches the reminders of its own job only, once per attempt.
LEMMA DeliverKeepsAccounts ==
  ASSUME TypeOK, Accounts, NEW m \in mails, Deliver(m)
  PROVE  Accounts'
<1>0. m \in Mail /\ mails \subseteq Mail
  BY DEF TypeOK
<1>1. m.keys \subseteq Keys /\ m.attempt \in 1..Attempts /\ Attempts \in Nat
  BY <1>0, RemindersAssumption DEF Mail
<1>2. enqueued' = enqueued
  BY DEF Deliver
<1>3. \A k \in Keys : \/ sent'[k] = sent[k]
                      \/ k \in m.keys /\ sent'[k] = sent[k] + 1
  <2>1. Recipients(m) \subseteq m.keys
    BY DEF Recipients
  <2>2. sent' = sent \/ sent' = Counted(sent, Recipients(m))
    BY DEF Deliver
  <2> QED BY <2>1, <2>2, CountedType DEF TypeOK
<1>4. \A k \in Keys : sent[k] \in Nat
  BY DEF TypeOK
<1>5. \A n \in mails' : \/ n \in mails /\ n # m
                        \/ n.keys = m.keys /\ n.attempt = m.attempt + 1
  <2>1. \A n \in Retried(m) : \/ n \in mails /\ n # m
                              \/ n.keys = m.keys /\ n.attempt = m.attempt + 1
    BY <1>0 DEF Retried, Mail
  <2>2. mails' = mails \ {m} \/ mails' = Retried(m)
    BY DEF Deliver
  <2> QED BY <2>1, <2>2
<1>6. \A n, o \in mails' : \/ n = o \/ n \in mails \ {m} \/ o \in mails \ {m}
  <2>1. CASE mails' = mails \ {m}
    BY <2>1
  <2>2. CASE mails' = Retried(m)
    BY <2>2 DEF Retried
  <2> QED BY <2>1, <2>2 DEF Deliver
<1>7. \A n \in mails : n # m => n.keys \subseteq Keys /\ n.keys \cap m.keys = {}
  BY <1>0 DEF Mail, Accounts, MailsAreAccounted
<1>8. \A k \in m.keys : sent[k] < m.attempt /\ enqueued[k] # 0
  BY DEF Accounts, MailsAreAccounted, DeliveriesAreBounded
<1>9. \A k \in Keys : sent'[k] <= Attempts
  <2>1. ASSUME NEW k \in Keys PROVE sent'[k] <= Attempts
    <3>1. sent[k] <= Attempts
      BY DEF Accounts, DeliveriesAreBounded
    <3> QED BY <1>1, <1>3, <1>4, <1>8, <3>1
  <2> QED BY <2>1
<1>10. \A k \in Keys : enqueued'[k] = 0 => sent'[k] = 0
  BY <1>2, <1>3, <1>8 DEF Accounts, MailsAreAccounted
<1>11. \A n \in mails' : \A k \in n.keys : enqueued'[k] # 0
  BY <1>2, <1>5, <1>8 DEF Accounts, MailsAreAccounted
<1>12. \A n, o \in mails' : n # o => n.keys \cap o.keys = {}
  <2>1. ASSUME NEW n \in mails', NEW o \in mails', n # o, n \in mails \ {m}
        PROVE  n.keys \cap o.keys = {}
    BY <1>5, <1>7, <2>1 DEF Accounts, MailsAreAccounted
  <2> QED BY <1>6, <2>1
<1>13. \A n \in mails' : \A k \in n.keys : sent'[k] < n.attempt
  <2>1. ASSUME NEW n \in mails', NEW k \in n.keys PROVE sent'[k] < n.attempt
    <3>1. CASE n \in mails /\ n # m
      <4>1. k \in Keys /\ k \notin m.keys /\ sent[k] < n.attempt
        BY <1>7, <3>1 DEF Accounts, DeliveriesAreBounded
      <4> QED BY <1>3, <4>1
    <3>2. CASE n.keys = m.keys /\ n.attempt = m.attempt + 1
      <4>1. k \in Keys /\ sent[k] < m.attempt
        BY <1>1, <1>8, <3>2
      <4> QED BY <1>1, <1>3, <1>4, <3>2, <4>1
    <3> QED BY <1>5, <3>1, <3>2
  <2> QED BY <2>1
<1> QED BY <1>9, <1>10, <1>11, <1>12, <1>13 DEF Accounts, MailsAreAccounted, DeliveriesAreBounded

\* Every step keeps the accounts.
LEMMA AccountsNext == IInv /\ Accounts /\ [Next]_vars => Accounts'
<1> SUFFICES ASSUME IInv, Accounts, [Next]_vars PROVE Accounts'
  OBVIOUS
<1>0. TypeOK
  BY DEF IInv
<1>1. ASSUME UNCHANGED <<mails, enqueued, sent>> PROVE Accounts'
  BY <1>1 DEF Accounts, MailsAreAccounted, DeliveriesAreBounded
<1>2. ASSUME NEW j \in Runs, EnqueueMail(j) PROVE Accounts'
  BY <1>2, MailKeepsAccounts
<1>3. ASSUME NEW m \in mails, Deliver(m) PROVE Accounts'
  BY <1>0, <1>3, DeliverKeepsAccounts
<1>4. ASSUME NEW j \in Runs, Schedule(j) \/ Again(j) \/ Perform(j) \/ NextUser(j)
      PROVE  Accounts'
  BY <1>1, <1>4 DEF Schedule, Again, Perform, NextUser
<1>5. ASSUME NEW j \in Runs, NEW k \in Keys, Claim(j, k) PROVE Accounts'
  BY <1>1, <1>5 DEF Claim
<1>6. ASSUME NEW j \in Runs, EnqueuePush(j) PROVE Accounts'
  BY <1>1, <1>6 DEF EnqueuePush
<1>7. ASSUME NEW a \in Apps, Delete(a) PROVE Accounts'
  BY <1>1, <1>7 DEF Delete
<1>8. ASSUME NEW a \in Apps, NEW d \in Dates \cup {NoDate}, NEW act \in BOOLEAN, Edit(a, d, act)
      PROVE  Accounts'
  BY <1>1, <1>8 DEF Edit
<1>9. CASE Restart \/ Tick
  BY <1>1, <1>9 DEF Restart, Tick
<1>10. CASE UNCHANGED vars
  BY <1>1, <1>10 DEF vars
<1> QED BY <1>2, <1>3, <1>4, <1>5, <1>6, <1>7, <1>8, <1>9, <1>10 DEF Next, Work

\* However often the server answers too late, a reminder is mailed at most as often as one
\* delivery job may try: no second job ever carries it (RetryingMailDeliveryJob).
THEOREM BoundedDeliveries == Spec => []DeliveriesAreBounded
<1>1. Init => Accounts
  BY RemindersAssumption DEF Init, Accounts, MailsAreAccounted, DeliveriesAreBounded
<1>2. Accounts => DeliveriesAreBounded
  BY DEF Accounts
<1> QED BY <1>1, <1>2, InvInit, InvNext, AccountsNext, PTL DEF Spec
-------------------------------------------------------------------------------
\* How a claimed reminder is lost.

\* No run that has yet to load its reminders has won any.
ReadyIsEmpty == \A j \in Runs : run[j] # None /\ run[j].at = "ready" => run[j].won = {}

\* A reminder that is claimed in the timeline, that no mail job carries, and that no run is
\* about to hand to one.
Lost(k) == /\ k \in claims /\ enqueued[k] = 0
           /\ \A j \in Runs : run[j] # None => k \notin run[j].won

\* The run tries to claim a reminder of an application deleted since it was loaded.
Fails(j) == \E x \in Keys : Claim(j, x) /\ app[x.app] = None

\* A reminder is lost in one place only, between its own claim and the mail job of the
\* same run, and there by two things only: the process stops, or the run fails at another
\* claim because that application is gone (follow_up_reminder_job.rb:19-24, 79).
LossHasACause ==
  [][\A k \in Keys : Lost(k)' =>
       \/ Lost(k)
       \/ \E j \in Runs : /\ run[j] # None /\ run[j].at = "claiming" /\ k \in run[j].won
                          /\ Restart \/ Fails(j)]_vars

\* A lost reminder is lost for good: no later run, repeat or retry makes up for it, as long
\* as its application is there (follow_up_reminder_job.rb:79: a taken claim is skipped).
LossIsForGood == [][\A k \in Keys : Lost(k) => Lost(k)' \/ Delete(k.app)]_vars

\* Nothing but a run enqueues mail.
LEMMA OnlyRunsEnqueue ==
  ASSUME [Next]_vars, enqueued' # enqueued
  PROVE  \E j \in Runs : EnqueueMail(j)
BY DEF Next, Work, vars, Schedule, Again, Perform, NextUser, Claim, EnqueuePush, Deliver, Delete,
       Edit, Restart, Tick

\* A reminder becomes claimed by being won.
LEMMA NewClaims ==
  ASSUME TypeOK, [Next]_vars, NEW k \in claims', k \notin claims
  PROVE  \E j \in Runs : run'[j] # None /\ k \in run'[j].won
<1>1. PICK j \in Runs, x \in Keys : Claim(j, x)
  BY DEF Next, Work, vars, Schedule, Again, Perform, NextUser, EnqueueMail, EnqueuePush, Deliver,
         Delete, Edit, Restart, Tick
<1>2. x = k /\ app[k.app] # None /\ run[j] \in Run
  BY <1>1 DEF Claim, Claiming, TypeOK
<1>3. run'[j] \in Run /\ k \in run'[j].won
  BY <1>1, <1>2 DEF Claim, TypeOK, Run
<1> QED BY <1>3, IdleAssumption

\* No step takes a mail job back.
LEMMA EnqueuedGrows ==
  ASSUME TypeOK, [Next]_vars, NEW k \in Keys
  PROVE  /\ enqueued[k] \in Nat /\ enqueued[k] <= enqueued'[k]
         /\ enqueued'[k] # enqueued[k] => \E j \in Runs : EnqueueMail(j) /\ k \in run[j].won
<1>1. enqueued[k] \in Nat
  BY DEF TypeOK
<1>2. CASE enqueued' = enqueued
  BY <1>1, <1>2
<1>3. CASE enqueued' # enqueued
  <2>1. PICK j \in Runs : EnqueueMail(j)
    BY <1>3, OnlyRunsEnqueue
  <2>2. enqueued'[k] = IF k \in run[j].won THEN enqueued[k] + 1 ELSE enqueued[k]
    BY <2>1, CountedType DEF EnqueueMail, TypeOK
  <2> QED BY <1>1, <2>1, <2>2
<1> QED BY <1>2, <1>3

\* Runs start empty-handed.
LEMMA ReadyNext == TypeOK /\ ReadyIsEmpty /\ [Next]_vars => ReadyIsEmpty'
<1> SUFFICES ASSUME TypeOK, ReadyIsEmpty, [Next]_vars PROVE ReadyIsEmpty'
  OBVIOUS
<1>1. ASSUME NEW j \in Runs, NEW q, run' = [run EXCEPT ![j] = q],
             q # None /\ q.at = "ready" => q.won = {}
      PROVE  ReadyIsEmpty'
  <2>1. \A i \in Runs : run'[i] = IF i = j THEN q ELSE run[i]
    BY <1>1 DEF TypeOK
  <2> QED BY <1>1, <2>1 DEF ReadyIsEmpty
<1>2. ASSUME UNCHANGED run PROVE ReadyIsEmpty'
  BY <1>2 DEF ReadyIsEmpty
<1>3. ASSUME NEW j \in Runs, Schedule(j) \/ Again(j) PROVE ReadyIsEmpty'
  <2>1. run' = [run EXCEPT ![j] = ReadyRun]
    BY <1>3 DEF Schedule, Again
  <2> QED BY <1>1, <2>1 DEF ReadyRun
<1>4. ASSUME NEW j \in Runs, Perform(j) PROVE ReadyIsEmpty'
  <2>1. PICK q : run' = [run EXCEPT ![j] = q] /\ (q # None => q.at = "claiming")
    BY <1>4, PerformSlot
  <2> QED BY <1>1, <2>1
<1>5. ASSUME NEW j \in Runs, NextUser(j) PROVE ReadyIsEmpty'
  <2>1. PICK q : run' = [run EXCEPT ![j] = q] /\ (q # None => q.at = "claiming")
    BY <1>5, NextUserSlot
  <2> QED BY <1>1, <2>1
<1>6. ASSUME NEW j \in Runs, NEW k \in Keys, Claim(j, k) PROVE ReadyIsEmpty'
  <2>1. PICK q : run' = [run EXCEPT ![j] = q] /\ (q # None => q.at = "claiming")
    BY <1>6, ClaimSlot
  <2> QED BY <1>1, <2>1
<1>7. ASSUME NEW j \in Runs, EnqueueMail(j) PROVE ReadyIsEmpty'
  <2>1. PICK q : run' = [run EXCEPT ![j] = q] /\ q.at = "push"
    BY <1>7, EnqueueMailSlot
  <2> QED BY <1>1, <2>1
<1>8. ASSUME NEW j \in Runs, EnqueuePush(j) PROVE ReadyIsEmpty'
  <2>1. PICK q : run' = [run EXCEPT ![j] = q] /\ q.at = "claiming"
    BY <1>8, EnqueuePushSlot
  <2> QED BY <1>1, <2>1
<1>9. ASSUME NEW m \in mails, Deliver(m) PROVE ReadyIsEmpty'
  BY <1>2, <1>9 DEF Deliver
<1>10. ASSUME NEW a \in Apps, Delete(a) PROVE ReadyIsEmpty'
  BY <1>2, <1>10 DEF Delete
<1>11. ASSUME NEW a \in Apps, NEW d \in Dates \cup {NoDate}, NEW act \in BOOLEAN, Edit(a, d, act)
       PROVE  ReadyIsEmpty'
  BY <1>2, <1>11 DEF Edit
<1>12. ASSUME Restart PROVE ReadyIsEmpty'
  BY <1>12 DEF Restart, ReadyIsEmpty, ReadyRun
<1>13. CASE Tick \/ UNCHANGED vars
  BY <1>2, <1>13 DEF Tick, vars
<1> QED BY <1>3, <1>4, <1>5, <1>6, <1>7, <1>8, <1>9, <1>10, <1>11, <1>12, <1>13 DEF Next, Work

\* Before its mail job a run holds on to what it has won, unless it stops or fails.
LEMMA WonStays ==
  ASSUME TypeOK, ReadyIsEmpty, [Next]_vars, NEW j \in Runs, run[j] # None,
         run[j].at = "claiming", NEW k \in run[j].won
  PROVE  \/ run'[j] # None /\ k \in run'[j].won
         \/ Restart \/ Fails(j)
<1> DEFINE Held == run'[j] # None /\ k \in run'[j].won
<1>1. ASSUME NEW i \in Runs, NEW q, run' = [run EXCEPT ![i] = q],
             i = j => q # None /\ k \in q.won
      PROVE  Held
  <2>1. run'[j] = IF i = j THEN q ELSE run[j]
    BY <1>1 DEF TypeOK
  <2> QED BY <1>1, <2>1
<1>2. ASSUME UNCHANGED run PROVE Held
  BY <1>2
<1> HIDE DEF Held
<1>3. ASSUME NEW i \in Runs, Schedule(i) \/ Again(i) \/ Perform(i) \/ NextUser(i) \/ EnqueuePush(i)
      PROVE  Held
  <2>1. i # j
    BY <1>3 DEF Schedule, Again, Perform, NextUser, EnqueuePush
  <2>2. \E q : run' = [run EXCEPT ![i] = q]
    BY <1>3, PerformSlot, NextUserSlot, EnqueuePushSlot DEF Schedule, Again
  <2> QED BY <1>1, <2>1, <2>2
<1>4. ASSUME NEW i \in Runs, EnqueueMail(i) PROVE Held
  <2>1. PICK q \in Run : run' = [run EXCEPT ![i] = q] /\ q.won = run[i].won
    BY <1>4, EnqueueMailSlot
  <2> QED BY <1>1, <2>1, IdleAssumption
<1>5. ASSUME NEW i \in Runs, NEW x \in Keys, Claim(i, x) PROVE Held \/ Fails(j)
  <2>1. PICK q : /\ run' = [run EXCEPT ![i] = q]
                 /\ q # None => run[i].won \subseteq q.won
    BY <1>5, ClaimSlot
  <2>2. CASE app[x.app] = None /\ i = j
    BY <1>5, <2>2 DEF Fails
  <2>3. CASE app[x.app] # None
    <3>1. run[i] \in Run
      BY <1>5 DEF Claim, Claiming, TypeOK
    <3>2. run'[i] \in Run
      BY <1>5, <2>3, <3>1 DEF Claim, TypeOK, Run
    <3>3. q # None
      BY <1>5, <2>1, <3>2, IdleAssumption DEF TypeOK
    <3> QED BY <1>1, <2>1, <3>3
  <2>4. CASE i # j
    BY <1>1, <2>1, <2>4
  <2> QED BY <2>2, <2>3, <2>4
<1>6. ASSUME NEW m \in mails, Deliver(m) PROVE Held
  BY <1>2, <1>6 DEF Deliver
<1>7. ASSUME NEW a \in Apps, Delete(a) PROVE Held
  BY <1>2, <1>7 DEF Delete
<1>8. ASSUME NEW a \in Apps, NEW d \in Dates \cup {NoDate}, NEW act \in BOOLEAN, Edit(a, d, act)
      PROVE  Held
  BY <1>2, <1>8 DEF Edit
<1>9. CASE Tick \/ UNCHANGED vars
  BY <1>2, <1>9 DEF Tick, vars
<1> QED BY <1>3, <1>4, <1>5, <1>6, <1>7, <1>8, <1>9 DEF Next, Work, Held

\* An execution that loses a claim stops or fails between the claim and the mail job.
THEOREM LossIsExplained == Spec => LossHasACause
<1>1. Init => ReadyIsEmpty
  BY DEF Init, ReadyIsEmpty
<1>2. IInv /\ ReadyIsEmpty /\ [Next]_vars =>
        [\A k \in Keys : Lost(k)' =>
           \/ Lost(k)
           \/ \E j \in Runs : /\ run[j] # None /\ run[j].at = "claiming" /\ k \in run[j].won
                              /\ Restart \/ Fails(j)]_vars
  <2> SUFFICES ASSUME IInv, ReadyIsEmpty, [Next]_vars, NEW k \in Keys, Lost(k)'
               PROVE  \/ Lost(k)
                      \/ \E j \in Runs : /\ run[j] # None /\ run[j].at = "claiming"
                                         /\ k \in run[j].won
                                         /\ Restart \/ Fails(j)
    OBVIOUS
  <2>0. TypeOK /\ ClaimsAreExclusive
    BY DEF IInv
  <2>1. k \in claims' /\ enqueued'[k] = 0 /\ \A j \in Runs : run'[j] # None => k \notin run'[j].won
    BY DEF Lost
  <2>2. k \in claims
    BY <2>0, <2>1, NewClaims
  <2>3. enqueued[k] = 0
    BY <2>0, <2>1, EnqueuedGrows
  <2>4. CASE ~Lost(k)
    <3>1. PICK j \in Runs : run[j] # None /\ k \in run[j].won
      BY <2>2, <2>3, <2>4 DEF Lost
    <3>2. run[j].at = "claiming"
      <4>1. run[j] \in Run
        BY <2>0, <3>1 DEF TypeOK
      <4>2. run[j].at # "push"
        BY <2>0, <2>3, <3>1 DEF ClaimsAreExclusive
      <4>3. run[j].at # "ready"
        BY <3>1 DEF ReadyIsEmpty
      <4> QED BY <4>1, <4>2, <4>3 DEF Run
    <3> QED BY <2>0, <2>1, <3>1, <3>2, WonStays
  <2> QED BY <2>4
<1>3. IInv => TypeOK
  BY DEF IInv
<1> QED BY <1>1, <1>2, <1>3, InvInit, InvNext, ReadyNext, PTL DEF Spec, LossHasACause

\* What is won is won once: a claim that is taken is passed over.
LEMMA WonIsNew ==
  ASSUME TypeOK, [Next]_vars, NEW j \in Runs, run'[j] # None, NEW k \in run'[j].won
  PROVE  (run[j] # None /\ k \in run[j].won) \/ k \notin claims
<1> DEFINE Old == run[j] # None /\ k \in run[j].won
<1>1. ASSUME NEW i \in Runs, NEW q, run' = [run EXCEPT ![i] = q],
             i = j /\ q # None /\ k \in q.won => Old \/ k \notin claims
      PROVE  Old \/ k \notin claims
  <2>1. run'[j] = IF i = j THEN q ELSE run[j]
    BY <1>1 DEF TypeOK
  <2> QED BY <1>1, <2>1
<1>2. ASSUME UNCHANGED run PROVE Old
  BY <1>2
<1>3. ASSUME NEW i \in Runs, Schedule(i) \/ Again(i) PROVE Old \/ k \notin claims
  <2>1. run' = [run EXCEPT ![i] = ReadyRun]
    BY <1>3 DEF Schedule, Again
  <2> QED BY <1>1, <2>1 DEF ReadyRun
<1>4. ASSUME NEW i \in Runs, Perform(i) \/ EnqueueMail(i) PROVE Old \/ k \notin claims
  <2>1. PICK q : run' = [run EXCEPT ![i] = q] /\ (q # None => q.won = run[i].won)
    BY <1>4, PerformSlot, EnqueueMailSlot
  <2>2. run[i] # None
    BY <1>4 DEF Perform, EnqueueMail, Claiming
  <2> QED BY <1>1, <2>1, <2>2
<1>5. ASSUME NEW i \in Runs, NextUser(i) \/ EnqueuePush(i) PROVE Old \/ k \notin claims
  <2>1. PICK q : run' = [run EXCEPT ![i] = q] /\ (q # None => q.won = {})
    BY <1>5, NextUserSlot, EnqueuePushSlot
  <2> QED BY <1>1, <2>1
<1>6. ASSUME NEW i \in Runs, NEW x \in Keys, Claim(i, x) PROVE Old \/ k \notin claims
  <2>1. PICK q : /\ run' = [run EXCEPT ![i] = q]
                 /\ q # None => \/ q.won = run[i].won
                                \/ x \notin claims /\ q.won = run[i].won \cup {x}
    BY <1>6, ClaimSlot
  <2>2. run[i] # None
    BY <1>6 DEF Claim, Claiming
  <2> QED BY <1>1, <2>1, <2>2
<1>7. CASE Restart
  BY <1>7 DEF Restart, ReadyRun
<1>8. ASSUME NEW m \in mails, Deliver(m) PROVE Old
  BY <1>2, <1>8 DEF Deliver
<1>9. ASSUME NEW a \in Apps, Delete(a) PROVE Old
  BY <1>2, <1>9 DEF Delete
<1>10. ASSUME NEW a \in Apps, NEW d \in Dates \cup {NoDate}, NEW act \in BOOLEAN, Edit(a, d, act)
       PROVE  Old
  BY <1>2, <1>10 DEF Edit
<1>11. CASE Tick \/ UNCHANGED vars
  BY <1>2, <1>11 DEF Tick, vars
<1> HIDE DEF Old
<1> QED
  BY <1>3, <1>4, <1>5, <1>6, <1>7, <1>8, <1>9, <1>10, <1>11 DEF Next, Work, Old

\* What the claim says is taken stays taken: only deleting the application frees it.
THEOREM LossIsFinal == Spec => LossIsForGood
<1>1. ASSUME TypeOK, [Next]_vars, NEW k \in Keys, Lost(k), ~Delete(k.app) PROVE Lost(k)'
  <2>0. k \in claims /\ enqueued[k] = 0 /\ \A j \in Runs : run[j] # None => k \notin run[j].won
    BY <1>1 DEF Lost
  <2>1. k \in claims'
    <3>1. CASE \E a \in Apps : Delete(a)
      BY <1>1, <2>0, <3>1 DEF Delete
    <3>2. CASE \E j \in Runs, x \in Keys : Claim(j, x)
      BY <2>0, <3>2 DEF Claim
    <3>3. CASE ~(\E a \in Apps : Delete(a)) /\ ~(\E j \in Runs, x \in Keys : Claim(j, x))
      BY <1>1, <2>0, <3>3 DEF Next, Work, vars, Schedule, Again, Perform, NextUser, EnqueueMail,
         EnqueuePush, Deliver, Edit, Restart, Tick
    <3> QED BY <3>1, <3>2, <3>3
  <2>2. enqueued'[k] = 0
    <3>1. ~\E j \in Runs : EnqueueMail(j) /\ k \in run[j].won
      BY <2>0 DEF EnqueueMail, Claiming
    <3> QED BY <1>1, <2>0, <3>1, EnqueuedGrows
  <2>3. \A j \in Runs : run'[j] # None => k \notin run'[j].won
    BY <1>1, <2>0, WonIsNew
  <2> QED BY <2>1, <2>2, <2>3 DEF Lost
<1>2. TypeOK /\ [Next]_vars => [\A k \in Keys : Lost(k) => Lost(k)' \/ Delete(k.app)]_vars
  <2> SUFFICES ASSUME TypeOK, [Next]_vars, NEW k \in Keys, Lost(k)
               PROVE  Lost(k)' \/ Delete(k.app)
    OBVIOUS
  <2> QED BY <1>1
<1> QED BY <1>2, TypeInit, TypeNext, PTL DEF Spec, LossIsForGood
-------------------------------------------------------------------------------
\* A run that has got past the calendar's question did so today.
RunsAreOpen == \A j \in Runs : run[j] # None /\ run[j].at # "ready" => today \in BusinessDays

\* A run that loads its reminders asks first; midnight waits for the runs.
LEMMA OpenNext == TypeOK /\ RunsAreOpen /\ [Next]_vars => RunsAreOpen'
<1> SUFFICES ASSUME TypeOK, RunsAreOpen, [Next]_vars PROVE RunsAreOpen'
  OBVIOUS
<1>1. ASSUME NEW j \in Runs, NEW q, run' = [run EXCEPT ![j] = q], UNCHANGED today,
             q = None \/ q.at = "ready" \/ today \in BusinessDays
      PROVE  RunsAreOpen'
  <2>1. \A i \in Runs : run'[i] = IF i = j THEN q ELSE run[i]
    BY <1>1 DEF TypeOK
  <2> QED BY <1>1, <2>1 DEF RunsAreOpen
<1>2. ASSUME UNCHANGED <<run, today>> PROVE RunsAreOpen'
  BY <1>2 DEF RunsAreOpen
<1>3. ASSUME NEW j \in Runs, Schedule(j) \/ Again(j) PROVE RunsAreOpen'
  <2>1. run' = [run EXCEPT ![j] = ReadyRun] /\ UNCHANGED today
    BY <1>3 DEF Schedule, Again
  <2> QED BY <1>1, <2>1 DEF ReadyRun
<1>4. ASSUME NEW j \in Runs, Perform(j) PROVE RunsAreOpen'
  <2> DEFINE q == IF today \notin BusinessDays THEN None
                  ELSE [run[j] EXCEPT !.at = "claiming", !.rest = DueKeys(today)]
  <2>1. run' = [run EXCEPT ![j] = q] /\ UNCHANGED today
    BY <1>4 DEF Perform
  <2>2. q = None \/ today \in BusinessDays
    OBVIOUS
  <2> HIDE DEF q
  <2> QED BY <1>1, <2>1, <2>2
<1>5. ASSUME NEW j \in Runs, run[j] # None, run[j].at # "ready", UNCHANGED today,
             NEW q, run' = [run EXCEPT ![j] = q]
      PROVE  RunsAreOpen'
  BY <1>1, <1>5 DEF RunsAreOpen
<1>6. ASSUME NEW j \in Runs, NextUser(j) PROVE RunsAreOpen'
  <2>1. run[j] # None /\ run[j].at # "ready" /\ UNCHANGED today
    BY <1>6 DEF NextUser, Claiming
  <2>2. \E q : run' = [run EXCEPT ![j] = q]
    BY <1>6, NextUserSlot
  <2> QED BY <1>5, <2>1, <2>2
<1>7. ASSUME NEW j \in Runs, NEW k \in Keys, Claim(j, k) PROVE RunsAreOpen'
  <2>1. run[j] # None /\ run[j].at # "ready" /\ UNCHANGED today
    BY <1>7 DEF Claim, Claiming
  <2>2. \E q : run' = [run EXCEPT ![j] = q]
    BY <1>7, ClaimSlot
  <2> QED BY <1>5, <2>1, <2>2
<1>8. ASSUME NEW j \in Runs, EnqueueMail(j) \/ EnqueuePush(j) PROVE RunsAreOpen'
  <2>1. run[j] # None /\ run[j].at # "ready" /\ UNCHANGED today
    BY <1>8 DEF EnqueueMail, EnqueuePush, Claiming
  <2>2. \E q : run' = [run EXCEPT ![j] = q]
    BY <1>8, EnqueueMailSlot, EnqueuePushSlot
  <2> QED BY <1>5, <2>1, <2>2
<1>9. ASSUME NEW m \in mails, Deliver(m) PROVE RunsAreOpen'
  BY <1>2, <1>9 DEF Deliver
<1>10. ASSUME NEW a \in Apps, Delete(a) PROVE RunsAreOpen'
  BY <1>2, <1>10 DEF Delete
<1>11. ASSUME NEW a \in Apps, NEW d \in Dates \cup {NoDate}, NEW act \in BOOLEAN, Edit(a, d, act)
       PROVE  RunsAreOpen'
  BY <1>2, <1>11 DEF Edit
<1>12. ASSUME Restart PROVE RunsAreOpen'
  BY <1>12 DEF Restart, RunsAreOpen, ReadyRun
<1>13. ASSUME Tick PROVE RunsAreOpen'
  BY <1>13 DEF Tick, RunsAreOpen
<1>14. CASE UNCHANGED vars
  BY <1>2, <1>14 DEF vars
<1> QED BY <1>3, <1>4, <1>6, <1>7, <1>8, <1>9, <1>10, <1>11, <1>12, <1>13, <1>14 DEF Next, Work

\* No day of the New Year is a business day, in any calendar and whatever weekdays and
\* holidays fall on it (japan_calendar.rb:23-24).
LEMMA NewYearIsClosed ==
  ASSUME NEW n \in DOMAIN Calendar, NewYear(Calendar[n])
  PROVE  n \notin OpenDays
<1> DEFINE date == Calendar[n]
<1>1. date.month \in 1..12 /\ date.day \in 1..31
  BY CalendarAssumption DEF Date
<1>2. Span(12, 29, 12, 31) \in DEAD_ZONES /\ Span(1, 1, 1, 3) \in DEAD_ZONES
  BY DEF DEAD_ZONES
<1>3. CASE date.month = 12 /\ date.day >= 29
  <2>1. month_day(date.month, date.day) \in Span(12, 29, 12, 31).from..Span(12, 29, 12, 31).to
    BY <1>1, <1>3 DEF month_day, Span
  <2> QED BY <1>2, <2>1 DEF OpenDays, business_day, seasonal_dead_zone
<1>4. CASE date.month = 1 /\ date.day <= 3
  <2>1. month_day(date.month, date.day) \in Span(1, 1, 1, 3).from..Span(1, 1, 1, 3).to
    BY <1>1, <1>4 DEF month_day, Span
  <2> QED BY <1>2, <2>1 DEF OpenDays, business_day, seasonal_dead_zone
<1> QED BY <1>3, <1>4 DEF NewYear

\* No mail job is enqueued over any New Year, whatever runs are held, repeated, restarted or
\* made up for (FollowUpReminderJob#hold_for_dead_zone).
THEOREM NewYearIsQuiet == Spec => QuietOverNewYear
<1>1. Init => RunsAreOpen
  BY DEF Init, RunsAreOpen
<1>2. TypeOK /\ RunsAreOpen /\ [Next]_vars =>
        [enqueued' # enqueued => ~NewYear(Calendar[today])]_vars
  <2> SUFFICES ASSUME RunsAreOpen, [Next]_vars, enqueued' # enqueued
               PROVE  ~NewYear(Calendar[today])
    OBVIOUS
  <2>1. PICK j \in Runs : EnqueueMail(j)
    BY OnlyRunsEnqueue
  <2>2. today \in OpenDays
    BY <2>1, RemindersAskTheCalendar DEF EnqueueMail, Claiming, RunsAreOpen
  <2> QED BY <2>2, NewYearIsClosed DEF OpenDays
<1> QED BY <1>1, <1>2, TypeInit, TypeNext, OpenNext, PTL DEF Spec, QuietOverNewYear
===============================================================================
