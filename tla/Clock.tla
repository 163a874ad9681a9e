-------------------------------- MODULE Clock --------------------------------
(***************************************************************************)
(* The wall clock: tasks read the CMOS clock register by register through  *)
(* the two ports all of them share, while the chip updates its registers   *)
(* once a second; dates become Unix seconds. The chip finishes an update   *)
(* within the million polls after which the code would give up waiting.    *)
(***************************************************************************)
EXTENDS Integers, Sequences, FiniteSets

CONSTANTS
    Readers,        \* the tasks that call now_unix
    Moments,        \* times to start at: <<year, month, day, hour, minute, second>>
    Formats,        \* of the registers: [binary, hour24]
    MaxUpdates

VARIABLES
    format,     \* status register B
    instants,   \* the times since the start; the last one is now
    chip,       \* [regs, uip, step]
    cmosAddr,   \* the index port
    rtc         \* reader -> its place in now_unix

clockVars == <<format, instants, chip, cmosAddr, rtc>>

REG_STATUS_A == 7
REG_STATUS_B == 8
Registers == 1..6       \* seconds, minutes, hours, day, month, year

Reading == [phase |-> "idle", reg |-> 0, selected |-> FALSE, prev |-> <<>>, cur |-> <<>>,
            from |-> 0, seconds |-> <<>>]

Init ==
    /\ format = [binary |-> FALSE, hour24 |-> FALSE] /\ instants = <<>>
    /\ chip = [regs |-> <<>>, uip |-> FALSE, step |-> 0]
    /\ cmosAddr = 0 /\ rtc = [r \in Readers |-> Reading]

-----------------------------------------------------------------------------
Leap(y) == (y % 4 = 0 /\ y % 100 # 0) \/ y % 400 = 0
days_in_month(y, m) ==
    CASE m \in {1, 3, 5, 7, 8, 10, 12} -> 31 [] m \in {4, 6, 9, 11} -> 30
      [] m = 2 -> IF Leap(y) THEN 29 ELSE 28 [] OTHER -> 0

days_from_civil(y0, m, d) ==
    LET y == IF m <= 2 THEN y0 - 1 ELSE y0
        era == y \div 400
        yoe == y - era * 400
        doy == (153 * (IF m > 2 THEN m - 3 ELSE m + 9) + 2) \div 5 + d - 1
        doe == yoe * 365 + yoe \div 4 - yoe \div 100 + doy
    IN  era * 146097 + doe - 719468
\* days and seconds of the day apart: a number of seconds is beyond TLC's integers
civil_to_unix(y, mo, d, h, mi, s) == <<days_from_civil(y, mo, d), h * 3600 + mi * 60 + s>>

\* decode_asn1_time: the digits as numbers; a year of two digits is in 1950..2049
decode_asn1_time(tag, t) ==
    LET year == IF tag = "UTCTime" THEN (IF t[1] >= 50 THEN 1900 ELSE 2000) + t[1] ELSE t[1] IN
    IF \/ t[2] = 0 \/ t[3] = 0 \/ t[3] > days_in_month(year, t[2])
       \/ t[4] > 23 \/ t[5] > 59 \/ t[6] > 60
    THEN <<>> ELSE civil_to_unix(year, t[2], t[3], t[4], t[5], t[6])

bcd_to_bin(v) == (v \div 16) * 10 + (v % 16)

\* read_date: what the registers say, given status register B
Decoded(raw, b) ==
    LET decode(v) == IF b.binary THEN v ELSE bcd_to_bin(v)
        pm == ~b.hour24 /\ raw[3] >= 128
        hour_val == decode(raw[3] % 128)
        hour == IF b.hour24 THEN hour_val ELSE (hour_val % 12) + (IF pm THEN 12 ELSE 0)
    IN  <<2000 + decode(raw[6]), decode(raw[5]), decode(raw[4]), hour, decode(raw[2]), decode(raw[1])>>
now_unix(raw, b) ==
    LET d == Decoded(raw, b) IN civil_to_unix(d[1], d[2], d[3], d[4], d[5], d[6])

-----------------------------------------------------------------------------
\* the chip: how it shows a time, and the second after a time
Shown(t, b) ==
    LET code(v) == IF b.binary THEN v ELSE (v \div 10) * 16 + (v % 10)
        hour == IF b.hour24 THEN code(t[4])
                ELSE code(IF t[4] % 12 = 0 THEN 12 ELSE t[4] % 12) + (IF t[4] >= 12 THEN 128 ELSE 0)
    IN  <<code(t[6]), code(t[5]), hour, code(t[3]), code(t[2]), code(t[1] % 100)>>
After(t) ==
    LET s == t[6] + 1
        mi == t[5] + s \div 60
        h == t[4] + mi \div 60
        d == t[3] + h \div 24
        last == days_in_month(t[1], t[2])
        mo == t[2] + (IF d > last THEN 1 ELSE 0)
    IN  <<t[1] + (IF mo > 12 THEN 1 ELSE 0), IF mo > 12 THEN 1 ELSE mo,
          IF d > last THEN 1 ELSE d, h % 24, mi % 60, s % 60>>

PowerOn ==
    /\ instants = <<>>
    /\ \E t \in Moments, b \in Formats :
        /\ format' = b /\ instants' = <<t>>
        /\ chip' = [chip EXCEPT !.regs = Shown(t, b)]
    /\ UNCHANGED <<cmosAddr, rtc>>

UpdateBegins ==
    /\ instants # <<>> /\ ~chip.uip /\ Len(instants) <= MaxUpdates
    /\ \E r \in Readers : rtc[r].phase # "done"
    /\ instants' = Append(instants, After(instants[Len(instants)]))
    /\ chip' = [chip EXCEPT !.uip = TRUE, !.step = 1]
    /\ UNCHANGED <<format, cmosAddr, rtc>>

\* one register that changes, or the end of the update
UpdateStep ==
    /\ chip.uip
    /\ LET new == Shown(instants[Len(instants)], format)
           left == {i \in Registers : chip.regs[i] # new[i]}
       IN  chip' = IF left = {} THEN [chip EXCEPT !.uip = FALSE, !.step = 0]
                   ELSE LET i == CHOOSE i \in left : \A j \in left : i <= j
                        IN  [chip EXCEPT !.regs[i] = new[i]]
    /\ UNCHANGED <<format, instants, cmosAddr, rtc>>

-----------------------------------------------------------------------------
\* read_cmos, first half: the index port
Select(r) ==
    /\ instants # <<>> /\ rtc[r].phase # "done" /\ ~rtc[r].selected
    /\ rtc' = IF rtc[r].phase = "idle"
              THEN [rtc EXCEPT ![r].phase = "first wait", ![r].reg = REG_STATUS_A, ![r].selected = TRUE,
                               ![r].from = Len(instants)]
              ELSE [rtc EXCEPT ![r].selected = TRUE]
    /\ cmosAddr' = IF rtc[r].phase = "idle" THEN REG_STATUS_A ELSE rtc[r].reg
    /\ UNCHANGED <<format, instants, chip>>

\* what the data port holds for the register selected last, by whomever
Data == CASE cmosAddr = REG_STATUS_A -> IF chip.uip THEN 128 ELSE 0
          [] cmosAddr = REG_STATUS_B -> (IF format.binary THEN 4 ELSE 0) + (IF format.hour24 THEN 2 ELSE 0)
          [] OTHER -> chip.regs[cmosAddr]
Bit(v, b) == (v \div b) % 2 = 1

\* a mutant of Compared: one snapshot is enough
OnceRead(s, cur) == [s EXCEPT !.phase = "status b", !.prev = cur, !.cur = <<>>, !.reg = REG_STATUS_B]
\* read_date's loop: two snapshots in a row that agree, or once more
Compared(s, cur) ==
    IF cur = s.prev
    THEN [s EXCEPT !.phase = "status b", !.prev = cur, !.cur = <<>>, !.reg = REG_STATUS_B]
    ELSE [s EXCEPT !.phase = "wait", !.prev = cur, !.cur = <<>>, !.reg = REG_STATUS_A]

\* read_cmos, second half, and what read_date does up to the next register
Read(r) ==
    /\ rtc[r].selected
    /\ LET s == [rtc[r] EXCEPT !.selected = FALSE]
           cur == Append(s.cur, Data)
       IN  rtc' = [rtc EXCEPT ![r] =
            CASE s.phase = "first wait" ->
                    IF Bit(Data, 128) THEN s ELSE [s EXCEPT !.phase = "first", !.reg = 1]
              [] s.phase = "first" ->
                    IF Len(cur) < 6 THEN [s EXCEPT !.cur = cur, !.reg = @ + 1]
                    ELSE [s EXCEPT !.phase = "wait", !.prev = cur, !.cur = <<>>, !.reg = REG_STATUS_A]
              [] s.phase = "wait" ->
                    IF Bit(Data, 128) THEN s ELSE [s EXCEPT !.phase = "again", !.reg = 1]
              [] s.phase = "again" ->
                    IF Len(cur) < 6 THEN [s EXCEPT !.cur = cur, !.reg = @ + 1] ELSE Compared(s, cur)
              [] s.phase = "status b" ->
                    [s EXCEPT !.phase = "done",
                              !.seconds = now_unix(s.prev, [binary |-> Bit(Data, 4), hour24 |-> Bit(Data, 2)])]]
    /\ UNCHANGED <<format, instants, chip, cmosAddr>>

Next == PowerOn \/ UpdateBegins \/ UpdateStep \/ \E r \in Readers : Select(r) \/ Read(r)

-----------------------------------------------------------------------------
\* days and seconds of a time, counted from 1970
DaysBefore == <<0, 31, 59, 90, 120, 151, 181, 212, 243, 273, 304, 334>>
UnixOf(t) ==
    <<365 * (t[1] - 1970) + Cardinality({y \in 1970..(t[1] - 1) : Leap(y)})
        + DaysBefore[t[2]] + (IF t[2] > 2 /\ Leap(t[1]) THEN 1 ELSE 0) + t[3] - 1,
      t[4] * 3600 + t[5] * 60 + t[6]>>

\* now_unix returns a time that really was while it ran, counted in Unix seconds: reads
\* that straddle an update are never put together to a time that never was; and the same
\* time written in a certificate decodes to the same seconds, days no month has to none.
\* It holds for one reader; read_cmos has no lock between the two ports, and a second
\* reader that selects a register of its own in between breaks it.
ReadTime ==
    \A r \in DOMAIN rtc : rtc[r].phase = "done" =>
        /\ \E i \in rtc[r].from..Len(instants) : rtc[r].seconds = UnixOf(instants[i])
        /\ \A i \in DOMAIN instants : \A d \in 28..32 :
            LET t == [instants[i] EXCEPT ![3] = d]
                real == d <= (IF t[2] = 12 THEN 31 ELSE DaysBefore[t[2] + 1] - DaysBefore[t[2]])
                             + (IF t[2] = 2 /\ Leap(t[1]) THEN 1 ELSE 0)
            IN  /\ decode_asn1_time("GeneralizedTime", t) = IF real THEN UnixOf(t) ELSE <<>>
                /\ decode_asn1_time("UTCTime", [t EXCEPT ![1] = @ % 100]) =
                        IF real THEN UnixOf(IF t[1] >= 2050 THEN [t EXCEPT ![1] = @ - 100] ELSE t) ELSE <<>>
=============================================================================
