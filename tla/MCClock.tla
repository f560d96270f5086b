------------------------------ MODULE MCClock ------------------------------
(* Clock for TLC. *)
EXTENDS Clock

At(y, mo, d, h, mi, s) ==
    [year |-> y, month |-> mo, day |-> d, hour |-> h, minute |-> mi, second |-> s]

(* Seconds at which every field of the clock, or the half of the day,      *)
(* changes.                                                                *)
MCRollovers == {At(2025, 12, 31, 23, 59, 59), At(2024, 2, 28, 11, 59, 59),
                At(1999, 12, 31, 12, 0, 58)}

(* The first and the last days of all the months of common and leap years, *)
(* up to the last year whose seconds fit 31 bits.                          *)
MCReadings ==
    UNION {{At(y, m, 1, 0, 0, 0), At(y, m, 28, 12, 30, 0), At(y, m, MonthDays(y, m), 23, 59, 59)} :
             y \in {1970, 1971, 1972, 1999, 2000, 2001, 2024, 2025, 2026, 2036, 2037}, m \in 1 .. 12}

(* Every format but 12 hours in BCD, for which Hour loses the afternoon.   *)
MCModes == {md \in [binary : BOOLEAN, h24 : BOOLEAN, century : BOOLEAN] : md.binary \/ md.h24}
=============================================================================
