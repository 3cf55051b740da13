----------------------------- MODULE FieldValues -----------------------------
(***************************************************************************)
(* What print_data.c makes of the bytes of a field.  The first part reads  *)
(* bytes the way the program does; the second part writes them the way the *)
(* MySQL server stores a value, which is not in the repository.  The two   *)
(* agree on most values and not on all of them: Lossy says on which.       *)
(*                                                                         *)
(* A value is a sequence of numbers: the number of an integer, the parts   *)
(* of a date or a time with the fraction of a second at the end, the       *)
(* groups of nine digits of a DECIMAL behind its sign, <<n, places>> for   *)
(* n * 10^-places of a FLOAT or DOUBLE, which is its own bytes here, and   *)
(* the instant of a TIMESTAMP, in seconds since 1970, with its fraction.   *)
(***************************************************************************)
EXTENDS Integers, Sequences, SequencesExt

CONSTANTS
    LocalZone,      \* the time zone of the process that prints
    ServerZone      \* and of the session in which the server reads

Byte == 0 .. 255

\* The number that has `first' before the bytes.
Number(first, bytes) ==
    LET upto[k \in 0 .. Len(bytes)] == IF k = 0 THEN first ELSE 256 * upto[k - 1] + bytes[k]
    IN  upto[Len(bytes)]

\* mach_read_from_1, _2, _3, _4 and the high part of a dulint before the low one
BigEndian(bytes) == Number(0, bytes)

\* An integer stored with its sign bit flipped.
SignFlipped(bytes) == Number(Head(bytes) - 128, Tail(bytes))

TwosComplement(bytes) ==
    Number(IF Head(bytes) < 128 THEN Head(bytes) ELSE Head(bytes) - 256, Tail(bytes))
-----------------------------------------------------------------------------
(* Numbers                                                                 *)

\* The mask of three bytes has 22 bits. Five to seven bytes are the upper ones
\* of eight.
get_uint_value(bytes) == IF Len(bytes) = 3 THEN BigEndian(bytes) % 2^22 ELSE BigEndian(bytes)

\* A negative number of three bytes keeps 15 bits.
get_int_value(bytes) ==
    CASE Len(bytes) = 3 /\ Head(bytes) < 128 -> (BigEndian(bytes) % 2^15) - 2^15
      [] Len(bytes) \in {5, 6, 7} -> 0
      [] OTHER -> SignFlipped(bytes)

\* The bytes that a group of so many digits has.
dig2bytes == [digits \in 0 .. 9 |-> (digits + 1) \div 2 - (IF digits = 9 THEN 1 ELSE 0)]

GroupDigits(precision, digits) ==
    LET intg == precision - digits
    IN  (IF intg % 9 > 0 THEN <<intg % 9>> ELSE << >>) \o [k \in 1 .. intg \div 9 |-> 9]
        \o [k \in 1 .. digits \div 9 |-> 9] \o (IF digits % 9 > 0 THEN <<digits % 9>> ELSE << >>)

\* Cut bytes into groups.
Groups(sizes, bytes) ==
    LET begin[k \in 0 .. Len(sizes)] == IF k = 0 THEN 0 ELSE begin[k - 1] + sizes[k]
    IN  [k \in DOMAIN sizes |-> SubSeq(bytes, begin[k - 1] + 1, begin[k])]

BadNumber == << >>   \* E_DEC_BAD_NUM: the decimal becomes zero

\* printf with %f of n * 10^-places: six digits behind the point, rounded.
FloatText(n, places) ==
    IF places <= 6 THEN <<n, places>>
    ELSE <<(n + 5 * 10^(places - 7)) \div 10^(places - 6), 6>>

GroupValue(bytes, negative) ==
    IF negative THEN -1 - TwosComplement(bytes) ELSE TwosComplement(bytes)

\* bin2decimal and decimal2string. The integer digits in front of the groups of
\* nine may have one digit too many, which is not printed; other groups that
\* are too large make the number bad. (Of the digits behind the last group of
\* nine the code multiplies first, which may wrap around for 1, 3 and 5 to 8 of
\* them if they are damaged.)
Decimal(precision, digits, bytes) ==
    LET widths == GroupDigits(precision, digits)
        negative == Head(bytes) < 128
        flipped == <<(Head(bytes) + 128) % 256>> \o Tail(bytes)
        parts == Groups([k \in DOMAIN widths |-> dig2bytes[widths[k]]], flipped)
        group == [k \in DOMAIN parts |-> GroupValue(parts[k], negative)]
        Leading(k) == k = 1 /\ (precision - digits) % 9 > 0
        Limit(k) == IF Leading(k) THEN 10^(widths[k] + 1) ELSE 10^widths[k]
    IN  IF \E k \in DOMAIN group : group[k] < 0 \/ group[k] >= Limit(k)
        THEN BadNumber
        ELSE <<IF negative THEN 1 ELSE 0>> \o [k \in DOMAIN group |-> group[k] % 10^widths[k]]
-----------------------------------------------------------------------------
(* Dates and times                                                         *)

\* The quotient and the remainder of a number of eight bytes.
Divide(bytes, n) ==
    LET done[k \in 0 .. Len(bytes)] ==
            IF k = 0 THEN [quotient |-> << >>, rest |-> 0]
            ELSE LET last == done[k - 1]
                     part == 256 * last.rest + bytes[k]
                 IN  [quotient |-> Append(last.quotient, part \div n), rest |-> part % n]
    IN  done[Len(bytes)]

\* <<year, month, day, hour, minute, second>> of a number with decimal digits;
\* the sign bit does not count.
DecimalParts(bytes) ==
    LET unsigned == <<Head(bytes) % 128>> \o Tail(bytes)
        sec == Divide(unsigned, 100)
        min == Divide(sec.quotient, 100)
        hour == Divide(min.quotient, 100)
        day == Divide(hour.quotient, 100)
        month == Divide(day.quotient, 100)
    IN  <<Divide(month.quotient, 10000).rest, month.rest, day.rest, hour.rest, min.rest, sec.rest>>

\* The same of a number whose bits are the parts.
BitParts(bytes) ==
    LET yd == (bytes[1] % 128) * 1024 + bytes[2] * 4 + bytes[3] \div 64
    IN  <<yd \div 13, yd % 13, (bytes[3] % 64) \div 2, (bytes[3] % 2) * 16 + bytes[4] \div 16,
          (bytes[4] % 16) * 4 + bytes[5] \div 64, bytes[5] % 64>>

Plausible(year, parts) ==
    /\ 1990 < year /\ year < 2100
    /\ parts[2] \in 1 .. 12 /\ parts[3] \in 1 .. 31
    /\ parts[4] <= 23 /\ parts[5] <= 59 /\ parts[6] <= 59

\* 1 for decimal digits, 2 for bits, 0 if neither is plausible. The year of the
\* decimal digits is taken from the whole number, which ends with the minute
\* and the second.
guess_datetime_format(bytes) ==
    IF Plausible(Divide(bytes, 10000).rest, DecimalParts(bytes)) THEN 1
    ELSE IF Head(bytes) >= 128 /\ Plausible(BitParts(bytes)[1], BitParts(bytes)) THEN 2
    ELSE 0

\* The fraction is never read: the grammar does not set time_precision.
print_datetime(bytes) ==
    Append(IF guess_datetime_format(bytes) = 2 THEN BitParts(bytes) ELSE DecimalParts(bytes), 0)

print_date(bytes) ==
    LET ldate == BigEndian(bytes) % 2^23
    IN  <<ldate \div 512, (ldate \div 32) % 16, ldate % 32>>

TimeAsBits(fixed_length, process_56) == fixed_length > 3 \/ process_56

\* <<negative, hour, minute, second, fraction>>, never negative
print_time(bytes, process_56) ==
    LET ltime == BigEndian(SubSeq(bytes, 1, 3))
        number == ltime % 2^23
    IN  IF TimeAsBits(Len(bytes), process_56)
        THEN <<0, (ltime \div 2^12) % 2^10, (ltime \div 2^6) % 2^6, ltime % 2^6, 0>>
        ELSE <<0, (number \div 3600) % 24, (number \div 60) % 60, number % 60, 0>>
-----------------------------------------------------------------------------
(* Time zones. A zone has a standard offset from UTC and a greater one in  *)
(* its summers, the instants between the members of a pair. A local time   *)
(* is the number of seconds that a clock of the zone shows.                *)

ZoneOK(zone) ==
    /\ zone.standard \in Int /\ zone.summer \in Int /\ zone.standard < zone.summer
    /\ zone.summers \subseteq Int \X Int
    /\ \A y, z \in zone.summers : y # z => y[2] <= z[1] \/ z[2] <= y[1]

ASSUME ZoneAssumption == ZoneOK(LocalZone) /\ ZoneOK(ServerZone)

Within(t, summer) == summer[1] <= t /\ t < summer[2]
InSummer(zone, t) == \E y \in zone.summers : Within(t, y)

Offset(zone, t) == IF InSummer(zone, t) THEN zone.summer ELSE zone.standard

\* localtime_r and strftime; the fraction is never read.
print_timestamp(bytes) ==
    LET t == BigEndian(SubSeq(bytes, 1, 4)) IN <<t + Offset(LocalZone, t), 0>>

\* The server's way back from a local time. Of the two instants of an hour that
\* is repeated it takes the earlier one, and for an hour that is skipped the
\* instant at which it is skipped.
Skipped(zone, l) == ~ InSummer(zone, l - zone.summer) /\ InSummer(zone, l - zone.standard)

Instant(zone, l) ==
    CASE InSummer(zone, l - zone.summer) -> l - zone.summer
      [] Skipped(zone, l) -> (CHOOSE y \in zone.summers : Within(l - zone.standard, y))[1]
      [] OTHER -> l - zone.standard

LastInstant == 2147483647     \* 2^31 - 1

\* A TIMESTAMP that is out of range becomes zero, with a warning (LOAD DATA LOCAL).
ReadTimestamp(l) ==
    LET t == Instant(ServerZone, l) IN IF t \in 1 .. LastInstant THEN t ELSE 0
-----------------------------------------------------------------------------
(* The value that print_field_value prints for a field of a type whose     *)
(* text is not its bytes, as the server reads it, to which the local time  *)
(* of a TIMESTAMP is one of its session. `after' are the bytes that follow *)
(* in the page: eight bytes are read of every DATETIME.                    *)

Numbers == {"INT", "UINT", "BIT", "ENUM", "SET", "YEAR", "DECIMAL", "FLOAT"}
Temporals == {"DATE", "TIME", "DATETIME", "TIMESTAMP"}
Texts == {"CHAR", "TEXT", "BIN", "BLOB"}

PrintedEnum(bytes) == BigEndian(bytes)

Decoded(def, bytes, after, process_56) ==
    CASE def.type = "INT" -> <<get_int_value(bytes)>>
      [] def.type \in {"UINT", "BIT"} -> <<get_uint_value(bytes)>>
      [] def.type = "ENUM" -> <<PrintedEnum(bytes)>>
      [] def.type = "SET" -> <<Head(bytes)>>
      [] def.type = "YEAR" -> <<Head(bytes) + 1900>>
      [] def.type = "DECIMAL" -> Decimal(def.precision, def.digits, bytes)
      [] def.type = "FLOAT" -> FloatText(bytes[1], bytes[2])
      [] def.type = "DATE" -> print_date(bytes)
      [] def.type = "TIME" -> print_time(bytes, process_56)
      [] def.type = "DATETIME" -> print_datetime(SubSeq(bytes \o after, 1, 8))
      [] def.type = "TIMESTAMP" ->
            LET text == print_timestamp(bytes) IN <<ReadTimestamp(text[1]), text[2]>>
-----------------------------------------------------------------------------
(* The server                                                              *)

\* A number without its last n bytes.
Shifted(v, n) ==
    LET by[k \in 0 .. n] == IF k = 0 THEN v ELSE by[k - 1] \div 256
    IN  by[n]

\* The numbers that n bytes have room for, with a sign and without one.
SignedFits(v, n) == Shifted(v, n - 1) \in -128 .. 127
UnsignedFits(v, n) == Shifted(v, n) = 0

\* n bytes of a number, in two's complement.
ToBytes(v, n) == [k \in 1 .. n |-> Shifted(v, n - k) % 256]

FlipSign(bytes) == <<(Head(bytes) + 128) % 256>> \o Tail(bytes)

\* 100 * number + pair, on bytes.
AppendPair(bytes, pair) ==
    LET done[k \in 0 .. Len(bytes)] ==
            IF k = 0 THEN [carry |-> pair, bytes |-> << >>]
            ELSE LET last == done[k - 1]
                     part == 100 * bytes[Len(bytes) + 1 - k] + last.carry
                 IN  [carry |-> part \div 256, bytes |-> <<part % 256>> \o last.bytes]
    IN  done[Len(bytes)].bytes

\* The number that has these pairs for its digits, in eight bytes.
FromPairs(pairs) ==
    LET done[k \in 0 .. Len(pairs)] ==
            IF k = 0 THEN ToBytes(0, 8) ELSE AppendPair(done[k - 1], pairs[k])
    IN  done[Len(pairs)]

\* A sign, and a number for each group of digits.
DecimalOK(def, value) ==
    LET widths == GroupDigits(def.precision, def.digits)
    IN  /\ def.precision \in 1 .. 65 /\ def.digits \in 0 .. def.precision
        /\ value \in Seq(Nat) /\ Len(value) = Len(widths) + 1 /\ value[1] <= 1
        /\ \A k \in DOMAIN widths : value[k + 1] < 10^widths[k]

StoredDecimal(def, value) ==
    LET widths == GroupDigits(def.precision, def.digits)
        plain == FlattenSeq([k \in DOMAIN widths |-> ToBytes(value[k + 1], dig2bytes[widths[k]])])
    IN  FlipSign(IF value[1] = 1 THEN [k \in DOMAIN plain |-> 255 - plain[k]] ELSE plain)

StoredTime(def, value) ==
    LET bits == value[2] * 2^12 + value[3] * 2^6 + value[4]
        pairs == value[2] * 10000 + value[3] * 100 + value[4]
        packed == IF def.version56 THEN bits ELSE pairs
    IN  ToBytes(2^23 + (IF value[1] = 1 THEN -packed ELSE packed), 3)
        \o ToBytes(value[5], def.length - 3)

StoredDatetime(def, value) ==
    LET year == value[1]
        ym == year * 13 + value[2]
        day == value[3]
        hour == value[4]
        min == value[5]
    IN  IF def.version56
        THEN <<128 + ym \div 1024, (ym \div 4) % 256, (ym % 4) * 64 + day * 2 + hour \div 16,
               (hour % 16) * 16 + min \div 4, (min % 4) * 64 + value[6]>>
             \o ToBytes(value[7], def.length - 5)
        ELSE FlipSign(FromPairs(<<year \div 100, year % 100, value[2], day, hour, min, value[6]>>))

Clock(hour, minute, second, hours) == hour <= hours /\ minute <= 59 /\ second <= 59

\* The values that a column can have; the last digit of a FLOAT is not zero
\* behind the sixth.
ValueOK(def, value) ==
    /\ def.type \in {"INT", "UINT"} =>
          def.length \in {1, 2, 3, 4, 8} /\ value \in Seq(Int) /\ Len(value) = 1
    /\ def.type = "INT" => SignedFits(value[1], def.length)
    /\ def.type = "UINT" => UnsignedFits(value[1], def.length)
    /\ def.type \in {"BIT", "ENUM", "SET"} =>
          /\ def.length \in 1 .. 8 /\ value \in Seq(Nat) /\ Len(value) = 1
          /\ UnsignedFits(value[1], def.length)
    /\ def.type = "YEAR" => value \in Seq({0} \cup 1901 .. 2155) /\ Len(value) = 1
    /\ def.type = "DECIMAL" => DecimalOK(def, value)
    /\ def.type = "FLOAT" =>
          value \in Seq(Int) /\ Len(value) = 2 /\ (value[2] > 6 => value[1] % 10 # 0)
    /\ def.type = "DATE" =>
          /\ value \in Seq(Nat) /\ Len(value) = 3
          /\ value[1] <= 9999 /\ value[2] <= 12 /\ value[3] <= 31
    /\ def.type = "TIME" =>
          /\ value \in Seq(Nat) /\ Len(value) = 5 /\ value[1] <= 1
          /\ Clock(value[2], value[3], value[4], 838)
          /\ def.length \in 3 .. (IF def.version56 THEN 6 ELSE 3)
          /\ UnsignedFits(value[5], def.length - 3)
    /\ def.type = "DATETIME" =>
          /\ value \in Seq(Nat) /\ Len(value) = 7 /\ def.version56 \in BOOLEAN
          /\ value[1] <= 9999 /\ value[2] <= 12 /\ value[3] <= 31
          /\ Clock(value[4], value[5], value[6], 23)
          /\ IF def.version56 THEN def.length \in 5 .. 8 /\ UnsignedFits(value[7], def.length - 5)
                              ELSE value[7] = 0
    /\ def.type = "TIMESTAMP" =>
          /\ value \in Seq(Nat) /\ Len(value) = 2 /\ def.length \in 4 .. 7
          /\ value[1] <= LastInstant /\ UnsignedFits(value[2], def.length - 4)
    /\ def.type \in Texts \cup {"INTERNAL"} => value \in Seq(Byte)

\* What the server stores for a value of a column.
Stored(def, value) ==
    CASE def.type = "INT" -> FlipSign(ToBytes(value[1], def.length))
      [] def.type \in {"UINT", "BIT", "ENUM", "SET"} -> ToBytes(value[1], def.length)
      [] def.type = "YEAR" -> <<IF value[1] = 0 THEN 0 ELSE value[1] - 1900>>
      [] def.type = "DECIMAL" -> StoredDecimal(def, value)
      [] def.type = "DATE" -> FlipSign(ToBytes(value[1] * 512 + value[2] * 32 + value[3], 3))
      [] def.type = "TIME" -> StoredTime(def, value)
      [] def.type = "DATETIME" -> StoredDatetime(def, value)
      [] def.type = "TIMESTAMP" -> ToBytes(value[1], 4) \o ToBytes(value[2], def.length - 4)
      [] def.type \in Texts \cup {"FLOAT", "INTERNAL"} -> value
-----------------------------------------------------------------------------
(* The values that are not printed as they were                            *)

LossyNumber(def, value) ==
    \/ def.type = "FLOAT" /\ value[2] > 6
    \/ def.type = "INT" /\ def.length = 3 /\ value[1] < -(2^15)
    \/ def.type \in {"UINT", "BIT"} /\ def.length = 3 /\ value[1] >= 2^22
    \/ def.type = "SET" /\ def.length > 1 /\ value[1] # 0
    \/ def.type = "YEAR" /\ value[1] = 0

\* A time before 5.6 is decimal and is read as seconds; from 5.6 on it loses its
\* sign and its fraction; a table may hold both kinds, the option cannot.
LossyTime(def, value, process_56) ==
    \/ value[1] = 1 \/ value[5] # 0
    \/ /\ ~ (def.version56 /\ TimeAsBits(def.length, process_56))
       /\ (value[2] > 0 \/ value[3] > 0)

\* From 5.6 on a date is recognised only in the years of Plausible. The digits
\* of its bytes are printed for another one, and are its own for the zero date if
\* nothing follows it in the page, and hardly ever else.
LossyDatetime(def, value, after) ==
    /\ def.version56
    /\ \/ value[7] # 0
       \/ /\ ~ (1990 < value[1] /\ value[1] < 2100 /\ value[2] # 0 /\ value[3] # 0)
          /\ DecimalParts(SubSeq(StoredDatetime(def, value) \o after, 1, 8)) # SubSeq(value, 1, 6)

\* The server reads in another zone than c_parser prints in: whose clock has
\* another offset at t (unless it skips what is printed at t itself), or has
\* shown the same time before. The zero TIMESTAMP is printed as an instant.
LossyInstant(t) ==
    LET l == t + Offset(LocalZone, t)
        turn == \E y \in ServerZone.summers : y[1] = t /\ Within(l - ServerZone.standard, y)
    IN  IF t = 0 THEN ReadTimestamp(l) # 0
        ELSE \/ /\ Offset(ServerZone, t) # Offset(LocalZone, t)
                /\ ~ (Skipped(ServerZone, l) /\ turn)
             \/ /\ Offset(ServerZone, t) = ServerZone.standard
                /\ InSummer(ServerZone, t - (ServerZone.summer - ServerZone.standard))

Lossy(def, value, after, process_56) ==
    CASE def.type \in Numbers -> LossyNumber(def, value)
      [] def.type = "TIME" -> LossyTime(def, value, process_56)
      [] def.type = "DATETIME" -> LossyDatetime(def, value, after)
      [] def.type = "TIMESTAMP" -> value[2] # 0 \/ LossyInstant(value[1])
      [] OTHER -> FALSE
=============================================================================
