--------------------------- MODULE ReminderCalendar ---------------------------
(***************************************************************************)
(* The reminder job with the calendar it asks.                             *)
(***************************************************************************)
EXTENDS FollowUpReminder, JapanCalendar

\* The job's business days are the calendar's (FollowUpReminderJob#hold_for_dead_zone).
ASSUME RemindersAskTheCalendar == BusinessDays = OpenDays \cap Days

NewYear(date) == \/ date.month = 12 /\ date.day >= 29
                 \/ date.month = 1  /\ date.day <= 3

\* "A reminder that fires on 1 January is noise" (FollowUpReminderJob#hold_for_dead_zone):
\* from 29 December to 3 January, whichever of the calendar's rules covers a day, no mail
\* job is enqueued, whatever is due, retried, repeated or made up for.
QuietOverNewYear == [][enqueued' # enqueued => ~NewYear(Calendar[today])]_vars
===============================================================================
