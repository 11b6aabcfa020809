----------------------------- MODULE JapanCalendar -----------------------------
(***************************************************************************)
(* What a business day in Japan is.  Dates and the national holidays come  *)
(* from libraries: a date is its month, its day and its weekday (0 is      *)
(* Sunday), and Calendar says which date a day number of the model is.     *)
(***************************************************************************)
EXTENDS Naturals

CONSTANTS Calendar,         \* Calendar[n]: the date of day n, the days in order
          national_holidays \* the [month, day] pairs the holidays gem knows in that span

Date == [month: 1..12, day: 1..31, wday: 0..6]

ASSUME CalendarAssumption == \A n \in DOMAIN Calendar : n \in Nat /\ Calendar[n] \in Date

month_day(month, day) == month * 100 + day

Span(m1, d1, m2, d2) == [from |-> month_day(m1, d1), to |-> month_day(m2, d2)]

\* Mutant: the New Year as the one span it is.
DEAD_ZONES_OneNewYear == { Span(12, 29, 1, 3), Span(4, 29, 5, 5), Span(8, 13, 8, 16) }

\* The New Year is two spans, since none may wrap the end of the year.
DEAD_ZONES == { Span(12, 29, 12, 31), Span(1, 1, 1, 3),
                Span(4, 29, 5, 5), Span(8, 13, 8, 16) }

weekend(date)            == date.wday \in {0, 6}
national_holiday(date)   == [month |-> date.month, day |-> date.day] \in national_holidays
seasonal_dead_zone(date) ==
  \E zone \in DEAD_ZONES : month_day(date.month, date.day) \in zone.from..zone.to

business_day(date) ==
  ~weekend(date) /\ ~national_holiday(date) /\ ~seasonal_dead_zone(date)

\* The day numbers on which a nudge is read, as the reminder job asks for them.
OpenDays == { n \in DOMAIN Calendar : business_day(Calendar[n]) }
================================================================================
