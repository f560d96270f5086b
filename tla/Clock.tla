------------------------------- MODULE Clock -------------------------------
(***************************************************************************)
(* The real-time clock of time/mod.rs: reading eight CMOS registers one by *)
(* one while the chip goes on counting, decoding them, and the conversions *)
(* between dates and seconds since 1970 (time/mod.rs, time/formats.rs).    *)
(*                                                                         *)
(* The chip is external.  Once a second it raises UIP, steps its registers *)
(* and clears UIP; a register that is read meanwhile shows the old or the  *)
(* new value.  Nothing bounds the time between two reads of the kernel.    *)
(***************************************************************************)
EXTENDS Integers, SequencesExt

CONSTANTS
    Rollovers,  \* dates at which a reading may start
    Readings,   \* dates a reading may have returned, for the conversions
    Modes,      \* the formats the chip may be in
    MaxUpdates, \* bound: seconds that pass during one reading
    NoReading   \* stands for Option::None

ASSUME ClockAssumption ==
    /\ Modes \subseteq [binary : BOOLEAN, h24 : BOOLEAN, century : BOOLEAN]
    /\ MaxUpdates \in Nat

-----------------------------------------------------------------------------
(* Conversions. *)

is_leap_year(y) == (y % 4 = 0 /\ y % 100 # 0) \/ y % 400 = 0

YearDays(y) == IF is_leap_year(y) THEN 366 ELSE 365

DAYS_IN_MONTH == <<31, 28, 31, 30, 31, 30, 31, 31, 30, 31, 30, 31>>
MonthDays(y, m) == DAYS_IN_MONTH[m] + IF m = 2 /\ is_leap_year(y) THEN 1 ELSE 0

(* datetime_to_unix_timestamp: whole years, whole months, days, seconds. *)
Days(dt) ==
    MapThenSumSet(YearDays, 1970 .. dt.year - 1)
    + MapThenSumSet(LAMBDA m : MonthDays(dt.year, m), 1 .. dt.month - 1)
    + dt.day - 1

DaySeconds(dt) == dt.hour * 3600 + dt.minute * 60 + dt.second

datetime_to_unix_timestamp(dt) == Days(dt) * 86400 + DaySeconds(dt)

(* The remainder of Rust, which has the sign of the dividend. *)
Rem(a, b) == IF a >= 0 THEN a % b ELSE -((-a) % b)

(* Mutant: January and February belong to their own year. *)
calculate_weekday_NoShift(year, month, day) ==
    LET k == year % 100
        j == year \div 100
    IN  Rem(Rem(day + (13 * (month + 1)) \div 5 + k + k \div 4 + j \div 4 - 2 * j, 7) + 6, 7)

calculate_weekday(year, month, day) ==
    LET m == IF month < 3 THEN month + 12 ELSE month
        y == IF month < 3 THEN year - 1 ELSE year
        k == y % 100
        j == y \div 100
        h == Rem(day + (13 * (m + 1)) \div 5 + k + k \div 4 + j \div 4 - 2 * j, 7)
    IN  Rem(h + 6, 7)

(* The two loops of unix_timestamp_to_datetime: whole years, then whole    *)
(* months, are taken off the days.                                         *)
RECURSIVE TakeYears(_, _)
TakeYears(days, year) ==
    IF days < YearDays(year) THEN <<days, year>>
    ELSE TakeYears(days - YearDays(year), year + 1)

RECURSIVE TakeMonths(_, _, _)
TakeMonths(days, year, month) ==
    IF month > 12 \/ days < MonthDays(year, month) THEN <<days, month>>
    ELSE TakeMonths(days - MonthDays(year, month), year, month + 1)

unix_timestamp_to_datetime(t) ==
    LET years  == TakeYears(t \div 86400, 1970)
        year   == years[2]
        months == TakeMonths(years[1], year, 1)
        secs   == t % 86400
        day    == months[1] + 1
    IN  [second |-> secs % 60, minute |-> (secs % 3600) \div 60, hour |-> secs \div 3600,
         day |-> day, month |-> months[2], year |-> year,
         weekday |-> calculate_weekday(year, months[2], day)]

(* formats.rs: the time stamps of the file system. *)
rtc_to_posix(dt) ==
    LET y == IF dt.month <= 2 THEN dt.year - 1 ELSE dt.year
        m == IF dt.month <= 2 THEN dt.month + 12 ELSE dt.month
        days == 365 * y + y \div 4 - y \div 100 + y \div 400
                + (153 * m - 457) \div 5 + dt.day - 719528
    IN  days * 86400 + DaySeconds(dt)

-----------------------------------------------------------------------------
(* The chip: how it shows a date in its registers. *)

RegisterOrder == <<"second", "minute", "hour", "day", "month", "year", "century">>

ToBcd(n) == (n \div 10) * 16 + (n % 10)

Shown(mode, n) == IF mode.binary THEN n ELSE ToBcd(n)

HourShown(mode, h) ==
    IF mode.h24 THEN Shown(mode, h)
    ELSE Shown(mode, IF h % 12 = 0 THEN 12 ELSE h % 12) + IF h >= 12 THEN 128 ELSE 0

Registers(mode, dt) ==
    [second |-> Shown(mode, dt.second), minute |-> Shown(mode, dt.minute),
     hour |-> HourShown(mode, dt.hour), day |-> Shown(mode, dt.day),
     month |-> Shown(mode, dt.month), year |-> Shown(mode, dt.year % 100),
     century |-> IF mode.century THEN Shown(mode, dt.year \div 100) ELSE 0]

(* The date a second later: a field that is full starts again and carries  *)
(* into the next.  The weekday, which the kernel passes on as it reads it, *)
(* is left out.                                                            *)
Stepped(value, carry, full, first) ==
    IF full THEN first ELSE IF carry THEN value + 1 ELSE value

NextSecond(dt) ==
    LET s == dt.second = 59
        m == s /\ dt.minute = 59
        h == m /\ dt.hour = 23
        d == h /\ dt.day = MonthDays(dt.year, dt.month)
        y == d /\ dt.month = 12
    IN  [second |-> Stepped(dt.second, TRUE, s, 0), minute |-> Stepped(dt.minute, s, m, 0),
         hour |-> Stepped(dt.hour, m, h, 0), day |-> Stepped(dt.day, h, d, 1),
         month |-> Stepped(dt.month, d, y, 1), year |-> IF y THEN dt.year + 1 ELSE dt.year]

-----------------------------------------------------------------------------
(* The decoding at the end of read_datetime. *)

bcd_to_binary(b) == (b \div 16) * 10 + (b % 16)

Decoded(mode, b) == IF mode.binary THEN b ELSE bcd_to_binary(b)

(* The top bit of the hour marks the afternoon; for BCD it is masked out   *)
(* before the conversion.                                                  *)
Hour(mode, reg) ==
    LET hour == IF mode.binary THEN reg ELSE bcd_to_binary(reg % 128)
        pm   == hour >= 128
        h    == hour % 128
    IN  IF mode.h24 THEN hour
        ELSE IF pm /\ h # 12 THEN h + 12
        ELSE IF ~pm /\ h = 12 THEN 0
        ELSE h

Year(mode, regs) ==
    LET century == Decoded(mode, regs.century)
        year    == Decoded(mode, regs.year)
    IN  IF century > 0 /\ century < 99 THEN century * 100 + year
        ELSE IF year < 80 THEN 2000 + year
        ELSE 1900 + year

Decode(mode, regs) ==
    [second |-> Decoded(mode, regs.second), minute |-> Decoded(mode, regs.minute),
     hour |-> Hour(mode, regs.hour), day |-> Decoded(mode, regs.day),
     month |-> Decoded(mode, regs.month), year |-> Year(mode, regs)]

-----------------------------------------------------------------------------
VARIABLES
    rpc,        \* the reader: "wait", "read", "check", "done" or "panic"
    mode,       \* status register B
    rtc,        \* the date the chip shows
    uip,        \* the UIP bit of status register A
    regs,       \* the values of the registers read so far
    attempt,    \* of read_datetime_reliable
    retries,    \* read_datetime_reliable, or read_datetime on its own
    reading,    \* what the reader returned, or NoReading
    seen,       \* the date when it began (not in the code)
    updates,    \* updates that ended so far (not in the code)
    inside      \* between the looks at UIP an update "begun", or was "whole"
                \* (not in the code)

clockVars == <<rpc, mode, rtc, uip, regs, attempt, retries, reading, seen, updates, inside>>

ClockRest(dt, m) ==
    /\ mode = m
    /\ rtc = dt /\ seen = dt
    /\ uip = FALSE
    /\ regs = <<>>
    /\ attempt = 1
    /\ updates = 0 /\ inside = "no"

ClockInit ==
    \/ /\ \E dt \in Rollovers, m \in Modes : ClockRest(dt, m)
       /\ rpc = "wait" /\ reading = NoReading /\ retries \in BOOLEAN
    \/ \E dt \in Readings :
         /\ ClockRest(dt, [binary |-> TRUE, h24 |-> TRUE, century |-> TRUE])
         /\ rpc = "done" /\ reading = dt /\ retries = FALSE

-----------------------------------------------------------------------------
(* The chip. *)
UpdateBegins ==
    /\ rpc \in {"wait", "read", "check"} /\ ~uip /\ updates < MaxUpdates
    /\ uip' = TRUE
    /\ inside' = IF rpc # "wait" /\ inside = "no" THEN "begun" ELSE inside
    /\ UNCHANGED <<rpc, mode, rtc, regs, attempt, retries, reading, seen, updates>>

UpdateEnds ==
    /\ rpc \in {"wait", "read", "check"} /\ uip
    /\ uip' = FALSE
    /\ rtc' = NextSecond(rtc)
    /\ updates' = updates + 1
    /\ inside' = IF inside = "begun" THEN "whole" ELSE inside
    /\ UNCHANGED <<rpc, mode, regs, attempt, retries, reading, seen>>

(* read_datetime: wait until no update is in progress.  Mutant: do not.    *)
WaitForUpdate_Not ==
    /\ rpc = "wait"
    /\ rpc' = "read"
    /\ seen' = rtc /\ inside' = "no"
    /\ UNCHANGED <<mode, rtc, uip, regs, attempt, retries, reading, updates>>

WaitForUpdate ==
    /\ rpc = "wait"
    /\ ~uip
    /\ rpc' = "read"
    /\ seen' = rtc /\ inside' = "no"
    /\ UNCHANGED <<mode, rtc, uip, regs, attempt, retries, reading, updates>>

(* The next register. *)
ReadRegister ==
    LET name == RegisterOrder[Len(regs) + 1]
    IN  /\ rpc = "read"
        /\ \E dt \in IF uip THEN {rtc, NextSecond(rtc)} ELSE {rtc} :
             regs' = Append(regs, Registers(mode, dt)[name])
        /\ rpc' = IF name = "century" THEN "check" ELSE "read"
        /\ UNCHANGED <<mode, rtc, uip, attempt, retries, reading, seen, updates, inside>>

RegsRead ==
    [f \in Range(RegisterOrder) |-> regs[CHOOSE i \in DOMAIN RegisterOrder : RegisterOrder[i] = f]]

(* read_datetime_reliable tries up to five times and then panics. *)
NoneRead ==
    /\ IF retries /\ attempt < 5 THEN attempt' = attempt + 1 /\ rpc' = "wait"
       ELSE rpc' = (IF retries THEN "panic" ELSE "done") /\ UNCHANGED attempt
    /\ UNCHANGED reading

(* The second look at UIP: return None, or decode. *)
CheckUpdate ==
    /\ rpc = "check"
    /\ \/ uip /\ NoneRead
       \/ ~uip /\ reading' = Decode(mode, RegsRead) /\ rpc' = "done" /\ UNCHANGED attempt
    /\ regs' = <<>>
    /\ UNCHANGED <<mode, rtc, uip, retries, seen, updates, inside>>

ClockNext ==
    \/ UpdateBegins \/ UpdateEnds
    \/ WaitForUpdate \/ ReadRegister \/ CheckUpdate

ClockSpec == ClockInit /\ [][ClockNext]_clockVars

-----------------------------------------------------------------------------
(* A reading is the date the chip showed when it was begun, in the formats *)
(* of Modes (12-hour BCD is not one for which it holds: read_datetime      *)
(* masks the PM bit out before it looks at it), unless a whole update fell *)
(* between the two looks at UIP (a pause of two milliseconds, which        *)
(* nothing in read_datetime notices).                                      *)
ReadingIsConsistent == rpc = "done" /\ reading # NoReading /\ inside # "whole" => reading = seen

Date(dt) == [f \in {"second", "minute", "hour", "day", "month", "year"} |-> dt[f]]

(* Reference: the number of days from 1970-01-01 to a date of the          *)
(* Gregorian calendar, counted from March.                                 *)
DaysFromMarch(dt) ==
    LET y == IF dt.month <= 2 THEN dt.year - 1 ELSE dt.year
        m == (dt.month + 9) % 12
    IN  365 * y + y \div 4 - y \div 100 + y \div 400 + (153 * m + 2) \div 5
        + dt.day - 1 - 719468

(* For the date that was read, datetime_to_unix_timestamp counts the days  *)
(* as the calendar does, unix_timestamp_to_datetime is its inverse, and    *)
(* the weekday it adds is the right one (1970-01-01 was a Thursday, 4).    *)
ConversionsAgree ==
    rpc = "done" /\ reading # NoReading /\ inside # "whole" =>
        LET t  == datetime_to_unix_timestamp(reading)
            dt == unix_timestamp_to_datetime(t)
        IN  /\ Days(reading) = DaysFromMarch(reading)
            /\ Date(dt) = reading
            /\ dt.weekday = (DaysFromMarch(reading) + 4) % 7

(* rtc_to_posix is the "Helper function to convert RtcDateTime to POSIX    *)
(* timestamp" (formats.rs:3): it agrees with datetime_to_unix_timestamp.   *)
PosixIsUnixTime ==
    rpc = "done" /\ reading # NoReading =>
        rtc_to_posix(reading) = datetime_to_unix_timestamp(reading)
=============================================================================
