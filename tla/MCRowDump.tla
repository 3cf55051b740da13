------------------------------ MODULE MCRowDump -------------------------------
(***************************************************************************)
(* The fields of the instance: for every type the values at its edges, and *)
(* each field at the beginning, at the end and alone in a row.             *)
(***************************************************************************)
EXTENDS RowDump

Plain == [type |-> "INT", length |-> 0, precision |-> 0, digits |-> 0,
          version56 |-> FALSE, filters |-> << >>]

Signed(length) == [Plain EXCEPT !.length = length]
Unsigned(length) == [Plain EXCEPT !.type = "UINT", !.length = length]
Text(type) == [Plain EXCEPT !.type = type]
Dec(precision, digits) ==
    [Plain EXCEPT !.type = "DECIMAL", !.precision = precision, !.digits = digits]
Temporal(type, length, version56) ==
    [Plain EXCEPT !.type = type, !.length = length, !.version56 = version56]
Filter(def, filters) == [def EXCEPT !.filters = filters]

\* Bytes behind a field: none that count, ordinary ones, ones that look like a date.
Behind == {[k \in 1 .. 7 |-> 0], <<1, 200, 3, 0, 7, 90, 15>>, <<255, 255, 255, 255, 255, 255, 255>>}
After == <<1, 200, 3, 0, 7, 90, 15>>

Held(def, value) ==
    [def |-> def, null |-> FALSE, extern |-> FALSE, damaged |-> FALSE, value |-> value,
     bytes |-> Stored(def, value), after |-> After]
Null(def) == [Held(Text("CHAR"), << >>) EXCEPT !.def = def, !.null = TRUE]
External(f) == [f EXCEPT !.extern = TRUE]
Damaged(def, bytes) ==
    [Held(Text("CHAR"), << >>) EXCEPT !.def = def, !.damaged = TRUE, !.bytes = bytes]

IntegerFields ==
    {Held(Signed(n), <<v>>) : n \in {1, 2, 3, 4, 8}, v \in {-128, -1, 0, 1, 127}} \cup
    {Held(Signed(n), <<v>>) : n \in {3, 4, 8}, v \in {-8388608, -32769, -32768, 32768, 8388607}} \cup
    {Held(Unsigned(n), <<v>>) : n \in {1, 2, 3, 4, 8}, v \in {0, 255}} \cup
    {Held(Unsigned(3), <<v>>) : v \in {4194303, 4194304, 16777215}} \cup
    {Held([Unsigned(n) EXCEPT !.type = "BIT"], <<v>>) : n \in {1, 3, 5}, v \in {1, 200}} \cup
    {Held([Unsigned(3) EXCEPT !.type = "BIT"], <<v>>) : v \in {4194303, 4194304}} \cup
    {Held([Unsigned(n) EXCEPT !.type = "ENUM"], <<v>>) : n \in {1, 2}, v \in {1, 255}} \cup
    {Held([Unsigned(2) EXCEPT !.type = "ENUM"], <<300>>)} \cup
    {Held([Unsigned(n) EXCEPT !.type = "SET"], <<v>>) : n \in {1, 2}, v \in {0, 1, 129}} \cup
    {Held([Unsigned(2) EXCEPT !.type = "SET"], <<256>>)} \cup
    {Held([Unsigned(1) EXCEPT !.type = "YEAR"], <<v>>) : v \in {0, 1901, 2001, 2155}}

DecimalFields ==
    {Held(Dec(4, 2), <<s>> \o v) : s \in {0, 1}, v \in {<<0, 1>>, <<1, 0>>, <<99, 99>>}} \cup
    {Held(Dec(12, 2), <<s>> \o v) : s \in {0, 1}, v \in {<<0, 0, 5>>, <<9, 999999999, 99>>}} \cup
    {Held(Dec(13, 11), <<s>> \o v) : s \in {0, 1}, v \in {<<0, 123456789, 10>>}} \cup
    {Held(Dec(4, 2), <<0, 0, 0>>), Held(Dec(3, 3), <<1, 500>>), Held(Dec(3, 0), <<0, 7>>)} \cup
    {Damaged(Dec(4, 2), <<128, 100>>), Damaged(Dec(4, 2), <<228, 1>>),
     Damaged(Dec(4, 0), <<255, 255>>)}

FloatFields ==
    {Held([Plain EXCEPT !.type = "FLOAT", !.length = 4], v) :
        v \in {<<15, 1>>, <<1, 6>>, <<1, 7>>, <<15, 8>>}}

DateFields == {Held(Temporal("DATE", 3, FALSE), v) :
    v \in {<<0, 0, 0>>, <<1970, 1, 31>>, <<9999, 12, 31>>}}

TimeFields ==
    LET v == {<<s, h, m, sec>> : s \in {0, 1}, h \in {0, 1, 838}, m \in {0, 59}, sec \in {0, 59}}
             \ {<<1, 0, 0, 0>>}
    IN  {Held(Temporal("TIME", 3, new), Append(t, 0)) : new \in BOOLEAN, t \in v} \cup
        {Held(Temporal("TIME", 4, TRUE), Append(t, f)) : t \in v, f \in {0, 50}}

\* A date that is not recognised, before bytes with which it has its own digits.
ReadByChance == [Held(Temporal("DATETIME", 5, TRUE), <<1970, 1, 2, 20, 19, 7, 0>>)
                    EXCEPT !.after = <<205, 130, 51, 0, 0, 0, 0>>]

DatetimeFields ==
    LET v == {<<y, 12, 31, 23, 59, 59>> : y \in {1000, 1990, 1991, 2099, 2100, 9999}} \cup
             {<<2001, 1, 1, 0, 0, 0>>, <<2001, 0, 0, 0, 0, 0>>, <<0, 0, 0, 0, 0, 0>>}
        f == {Held(Temporal("DATETIME", 8, FALSE), Append(t, 0)) : t \in v} \cup
             {Held(Temporal("DATETIME", 5, TRUE), Append(t, 0)) : t \in v} \cup
             {Held(Temporal("DATETIME", 6, TRUE), Append(t, s)) : t \in v, s \in {0, 50}}
    IN  {[x EXCEPT !.after = b] : x \in f, b \in Behind} \cup {ReadByChance}

\* The clocks of two zones agree in winter and in the first summer; only the
\* server's has the second one. Each instant is at the edge of a summer or of the
\* hour in front of it or behind it, or early or late.
MCServerZone == [standard |-> 3600, summer |-> 7200,
                 summers |-> {<<1000000000, 1010000000>>, <<1030000000, 1040000000>>}]
MCLocalZone == [MCServerZone EXCEPT !.summers = {<<1000000000, 1010000000>>}]

TimestampFields ==
    LET turns == UNION {{y[1], y[2]} : y \in MCServerZone.summers}
        instants == {t + d : t \in turns, d \in {-3601, -3600, -1, 0, 1, 3599, 3600}} \cup
                    {0, 1, 2140000000}
    IN  {Held(Temporal("TIMESTAMP", 4, FALSE), <<t, 0>>) : t \in instants} \cup
        {Held(Temporal("TIMESTAMP", 5, TRUE), <<1000000000, f>>) : f \in {0, 50}}

\* Texts of up to three of: a letter, a quote, a backslash, N, tab, newline.
Characters == {97, Quote, Backslash, 78, Tab, Newline}
Strings == {<< >>, <<32, 97, 32>>, <<0, 8, 13>>, <<26, 37, 95>>, NullWord, <<97, Quote, Tab, 97>>} \cup
           {<<c>> : c \in Characters} \cup {<<c, d>> : c, d \in Characters} \cup
           {<<97, c, d>> : c, d \in {Quote, Backslash, Tab}}

TextFields ==
    LET f == {Held(Text(t), s) : t \in Texts, s \in Strings}
    IN  f \cup {External(x) : x \in f} \cup {Null(Text(t)) : t \in Texts}

FilteredFields ==
    {Held(Filter(Signed(n), [INT_MIN_VAL |-> -5, INT_MAX_VAL |-> 5]), <<v>>) :
        n \in {1, 2, 3, 4, 8}, v \in {-6, -5, 0, 5, 6}} \cup
    {Held(Filter(Signed(n), [CAN_BE_NULL |-> TRUE]), <<v>>) : n \in {1, 2}, v \in {-128, -127, 127}} \cup
    {Held(Filter(Signed(3), [INT_MAX_VAL |-> 5]), <<v>>) : v \in {-32769, 5, 6}} \cup
    {Held(Filter(Unsigned(n), [INT_MIN_VAL |-> 5]), <<v>>) : n \in {1, 3}, v \in {4, 5, 255}} \cup
    {Held(Filter(Unsigned(3), [INT_MIN_VAL |-> 5]), <<4194304 + 4>>)} \cup
    {Null(Filter(d, x)) : d \in {Signed(4), Text("CHAR"), Text("TEXT")},
        x \in {[CAN_BE_NULL |-> TRUE], [CAN_BE_NULL |-> FALSE], [CHAR_MIN_LEN |-> 0]}} \cup
    {Held(Filter(Text("CHAR"), x), s) :
        x \in {[CHAR_MIN_LEN |-> 1], [CHAR_MAX_LEN |-> 2], [CHAR_MIN_LEN |-> 1, CHAR_MAX_LEN |-> 2],
               [CHAR_MAX_LEN |-> 4, CHAR_ASCII_ONLY |-> TRUE],
               [CHAR_MAX_LEN |-> 4, CHAR_DIGITS_ONLY |-> TRUE]},
        s \in {<< >>, <<49>>, <<49, 50>>, <<49, 97>>, <<49, 50, 51>>, <<0>>, <<200>>}} \cup
    {Held(Filter([Unsigned(1) EXCEPT !.type = "ENUM"], [CAN_BE_NULL |-> TRUE]), <<1>>)} \cup
    {[Held(Filter(Temporal("DATE", 3, FALSE), [DATE_VALIDATION |-> TRUE]), <<1970, 1, 31>>)
        EXCEPT !.after = b] : b \in Behind} \cup
    {[Held(Filter(Temporal("DATETIME", IF new THEN 5 ELSE 8, new), [DATE_VALIDATION |-> TRUE]), v)
        EXCEPT !.after = b] :
        new \in BOOLEAN, b \in Behind,
        v \in {<<y, 1, 1, 0, 0, 0, 0>> : y \in {0, 1949, 1950, 2050, 2051}}}

Fields == IntegerFields \cup DecimalFields \cup FloatFields \cup DateFields \cup TimeFields \cup
          DatetimeFields \cup TimestampFields \cup TextFields \cup FilteredFields

\* An internal value of one byte, which ends with the digits AB, and a column
\* that any dump restores.
System == [Held(Text("CHAR"), <<171>>) EXCEPT !.def.type = "INTERNAL"]
Other == Held(Text("CHAR"), <<98, Quote>>)

MCRows == {<<f, System, Other>> : f \in Fields} \cup {<<Other, System, f>> : f \in Fields} \cup
          {<<f, System>> : f \in Fields}

\* "t", and "B", with which an internal value may end.
MCTableNames == {<<116>>, <<66>>}

MCLeftovers == {<< >>, <<Quote, Tab>>, <<46, 32>>, <<Backslash>>}
=============================================================================
