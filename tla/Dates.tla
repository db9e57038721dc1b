-------------------------------- MODULE Dates ---------------------------------
(***************************************************************************)
(* A date as a request writes it, and the day that is stored for it        *)
(* (packages/shared/src/validation.ts; requireValidDate, parseFromDate in  *)
(* the party service).                                                     *)
(*                                                                         *)
(* A written date is a record: the form it has, its digits, and an offset  *)
(* in hours that only the form "offset" shows.  An instant is a number of  *)
(* hours in UTC.  The Date constructor is external: it reads a date and    *)
(* time without an offset as the host's local time, and lets a day past    *)
(* the end of its month roll over into the next.                           *)
(***************************************************************************)
EXTENDS Integers

VARIABLES
    written,        \* the argument
    zone,           \* the offset of the host, in hours
    moment,         \* the instant stored
    verdict         \* where the call is

dates == <<written, zone, moment, verdict>>

Forms == {"blank", "loose", "date", "dateZ", "naive", "utc", "offset"}
Timed == {"naive", "utc", "offset"}
Now   == -1                 \* stands for the time of the call

-----------------------------------------------------------------------------
(* Date, external.                                                         *)

Leap(y) == IF y % 100 = 0 THEN (y \div 100) % 4 = 0 ELSE y % 4 = 0

MonthDays(y, m) ==
    CASE m \in {4, 6, 9, 11} -> 30 [] m = 2 -> (IF Leap(y) THEN 29 ELSE 28) [] OTHER -> 31

\* Days before a month in a common year.
Before == <<0, 31, 59, 90, 120, 151, 181, 212, 243, 273, 304, 334>>

\* Days from the first of January of year 1 to the first of a month.
FirstOf(y, m) ==
    LET past == y - 1
    IN  365 * past + past \div 4 - past \div 100 + past \div 400
          + Before[m] + (IF m > 2 /\ Leap(y) THEN 1 ELSE 0)

DateOf(w, host) ==
    LET day    == FirstOf(w.year, w.month) + w.day - 1
        hour   == IF w.form \in Timed THEN w.hour ELSE 0
        offset == CASE w.form = "offset" -> w.offset [] w.form = "naive" -> host [] OTHER -> 0
    IN  24 * day + hour - offset

\* The month and the day an instant shows in UTC.
Shows(instant, y, m, d) == instant \div 24 = FirstOf(y, m) + d - 1 /\ d \in 1..MonthDays(y, m)

-----------------------------------------------------------------------------
(* validation.ts                                                           *)

DAYS_IN_MONTH == <<31, 29, 31, 30, 31, 30, 31, 31, 30, 31, 30, 31>>

\* Variant: a date and time without an offset is left as it is.
AsItIs(w) == w

normalizeISODateTimeToUTC(w) == IF w.form = "naive" THEN [w EXCEPT !.form = "utc"] ELSE w

\* ISO_DATE_REGEX
IsIsoDate(w) == w.form \notin {"blank", "loose"} /\ w.month \in 1..12 /\ w.day \in 1..31

isLeap(y) == (y % 4 = 0 /\ y % 100 # 0) \/ y % 400 = 0

isRealCalendarDate(y, m, d) ==
    /\ m \in 1..12 /\ d \in 1..DAYS_IN_MONTH[m]
    /\ m = 2 /\ d = 29 => isLeap(y)

isValidISODate(w) ==
    /\ IsIsoDate(w)
    /\ w.year \in 1700..2200
    /\ w.day <= DAYS_IN_MONTH[w.month]
    /\ w.month = 2 /\ w.day = 29 => isLeap(w.year)

-----------------------------------------------------------------------------
(* The party service.                                                      *)

DatesInit ==
    /\ written = [form |-> "blank", year |-> 0, month |-> 0, day |-> 0, hour |-> 0, offset |-> 0]
    /\ zone = 0 /\ moment = Now /\ verdict = "idle"

Write(w, host) ==
    /\ verdict = "idle"
    /\ written' = w /\ zone' = host
    /\ verdict' = "asked"
    /\ UNCHANGED moment

\* parseFromDate: no date means now.
DefaultToNow ==
    /\ verdict = "asked" /\ written.form = "blank"
    /\ verdict' = "stored"
    /\ UNCHANGED <<written, zone, moment>>

\* requireValidDate
RequireValidDate ==
    /\ verdict = "asked" /\ written.form # "blank"
    /\ verdict' = IF isValidISODate(written) THEN "valid" ELSE "refused"
    /\ UNCHANGED <<written, zone, moment>>

parseISODateTimeAsUTC ==
    /\ verdict = "valid"
    /\ IF isRealCalendarDate(written.year, written.month, written.day)
       THEN /\ verdict' = "stored"
            /\ moment' = DateOf(normalizeISODateTimeToUTC(written), zone)
       ELSE verdict' = "threw" /\ UNCHANGED moment
    /\ UNCHANGED <<written, zone>>

DatesNext == DefaultToNow \/ RequireValidDate \/ parseISODateTimeAsUTC

\* Whatever digits a date is written with, on a host of any time zone.
Written == [form : Forms, year : Nat, month : Nat, day : Nat, hour : 0..23, offset : Int]

DatesSpec ==
    DatesInit /\ [][DatesNext \/ \E w \in Written, host \in Int : Write(w, host)]_dates

-----------------------------------------------------------------------------
(* Properties                                                              *)

\* A date is accepted exactly when the calendar has it and its year is one a
\* business record can carry; an accepted one never throws later on; what is
\* stored for it shows, in UTC, the very day that was written, wherever the
\* host is, and with an offset the instant it names ("storage does not depend
\* on the server's timezone", parseISODateTimeAsUTC).
DatesKeepTheirDay ==
    LET w == written
        real == /\ w.form \notin {"blank", "loose"} /\ w.year \in 1700..2200
                /\ w.month \in 1..12 /\ w.day \in 1..MonthDays(w.year, w.month)
    IN  /\ verdict # "threw"
        /\ verdict = "refused" => ~real
        /\ verdict = "stored" /\ w.form # "blank" =>
             /\ real
             /\ Shows(moment + IF w.form = "offset" THEN w.offset ELSE 0, w.year, w.month, w.day)
             /\ w.form \in Timed =>
                  (moment + IF w.form = "offset" THEN w.offset ELSE 0) % 24 = w.hour

=============================================================================
