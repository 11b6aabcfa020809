-------------------------- MODULE MCFollowUpReminder --------------------------
(***************************************************************************)
(* Model checking FollowUpReminder, with JapanCalendar's answers over the  *)
(* New Year of 2027: Monday 28 December is day 0, Tuesday 5 January day 8. *)
(***************************************************************************)
EXTENDS ReminderCalendar, TLC

CONSTANTS a1, a2, a3, u1, u2

TwoUsers == (a1 :> u1) @@ (a2 :> u1) @@ (a3 :> u2)
OneApp   == a1 :> u1

\* The span, and the one national holiday in it.
NewYear2027 == [n \in 0..9 |-> [month |-> IF n <= 3 THEN 12 ELSE 1,
                                day   |-> IF n <= 3 THEN 28 + n ELSE n - 3,
                                wday  |-> (n + 1) % 7]]
NewYearsDay == { [month |-> 1, day |-> 1] }

\* With TwoUsers: a1 and a2 belong to the same user.
SymmetryPair == Permutations(Runs) \cup Permutations({a1, a2})
===============================================================================
