-------------------------------- MODULE Conf --------------------------------
(***************************************************************************)
(* handy/conf.cc: Conf::parse, an INI file read line by line, and get      *)
(* and getStrings.  A line is a sequence of characters: "b" is white space *)
(* (the line's end too), ";" starts a comment and stands for "#" also, the *)
(* letters are names and values.  The conversions of getInteger, getReal   *)
(* and getBoolean are left out.                                            *)
(***************************************************************************)
EXTENDS Naturals, Sequences

CONSTANTS Lines,      \* the lines a file is made of
          Lower,      \* tolower, for the characters it changes
          MaxLines    \* bound: lines read

ASSUME ConfAssumption == /\ Lines \subseteq Seq(STRING) \ {<<>>} /\ MaxLines \in Nat
                         /\ \A ln \in Lines : \A i \in DOMAIN ln : ln[i] # "end"
                         /\ \A ch \in DOMAIN Lower : ch # "." /\ Lower[ch] # "."

VARIABLES file,       \* history: the lines read so far
          section,    \* section
          key,        \* key
          values,     \* values_: for each key the values, with their lines
          err         \* what parse returns: 0, or the number of the bad line

confVars == <<file, section, key, values, err>>

ConfInit == /\ file = <<>> /\ section = <<>> /\ key = <<>> /\ err = 0
            /\ values = [name \in {} |-> <<>>]

-----------------------------------------------------------------------------
(* LineScanner: p is an index into the line, and one past it is the final \0.    *)

At(ln, p) == IF p > Len(ln) THEN "end" ELSE ln[p]
First_(P) == CHOOSE p \in P : \A q \in P : p <= q

\* skipSpaces and peekChar
SkipSpaces(ln, p) == First_({q \in p .. Len(ln) + 1 : At(ln, q) # "b"})

\* rstrip of the characters from s to before e
Rstrip(ln, s, e) ==
    LET ends == {q \in s .. e - 1 : ln[q] # "b"}
    IN  IF ends = {} THEN <<>> ELSE SubSeq(ln, s, CHOOSE q \in ends : \A r \in ends : r <= q)

\* consumeTill(c): err when there is no c.
ConsumeTill(ln, p, c) ==
    LET s == SkipSpaces(ln, p)
        hits == {q \in s .. Len(ln) + 1 : At(ln, q) = c}
    IN  IF hits = {} THEN [str |-> <<>>, p |-> s, err |-> TRUE]
        ELSE [str |-> Rstrip(ln, s, First_(hits)), p |-> First_(hits), err |-> FALSE]

\* consumeTillEnd: up to a comment sign, or past the first white space.
ConsumeTillEnd(ln, p) ==
    LET s == SkipSpaces(ln, p)
        stops == {q \in s .. Len(ln) + 1 : \/ At(ln, q) \in {"end", ";"}
                                           \/ q > s /\ At(ln, q - 1) = "b"}
    IN  Rstrip(ln, s, First_(stops))

-----------------------------------------------------------------------------

ToLower(ch) == IF ch \in DOMAIN Lower THEN Lower[ch] ELSE ch
Lowered(str) == [i \in DOMAIN str |-> ToLower(str[i])]

\* makeKey: section and name joined by a dot, in lower case.
MakeKey(sec, name) == Lowered(sec \o <<".">> \o name)

\* getStrings and get: all the values of a name, and the last one.
GetStrings(sec, name) == LET k == MakeKey(sec, name)
                         IN  IF k \in DOMAIN values THEN values[k] ELSE <<>>
Get(sec, name, default) == LET l == GetStrings(sec, name)
                           IN  IF l = <<>> THEN default ELSE l[Len(l)].value

\* values_[makeKey(section, k)].push_back(v)
Push_(k, v) == values' = [name \in DOMAIN values \cup {MakeKey(section, k)} |->
                             IF name = MakeKey(section, k)
                             THEN Append(GetStrings(section, k), [value |-> v, line |-> Len(file) + 1])
                             ELSE values[name]]
Fail == err' = Len(file) + 1

\* A line that begins with a bracket.
SectionLine(ln, p) ==
    LET r == ConsumeTill(ln, p + 1, "]")
    IN  /\ section' = r.str /\ key' = <<>>
        /\ IF r.err THEN Fail ELSE UNCHANGED err
        /\ UNCHANGED values

\* Mutant: a line that goes on is a value of the section.
Continuation_AnyKey(ln, p) == /\ Push_(key, ConsumeTill(ln, p, "end").str)
                              /\ UNCHANGED <<section, key, err>>

\* A line with leading white space goes on with the values of the last key.
Continuation(ln, p) == /\ IF key # <<>>
                          THEN Push_(key, ConsumeTill(ln, p, "end").str) /\ UNCHANGED err
                          ELSE Fail /\ UNCHANGED values
                       /\ UNCHANGED <<section, key>>

\* name = value, or name : value when there is no equals sign.  A line with neither
\* stores an empty value under the empty key before parse returns.
Assignment(ln, p) ==
    LET e == ConsumeTill(ln, p, "=")
        c == ConsumeTill(ln, p, ":")
        r == IF e.err THEN c ELSE e
    IN  /\ key' = r.str
        /\ Push_(r.str, IF r.err THEN <<>> ELSE ConsumeTillEnd(ln, r.p + 1))
        /\ IF r.err THEN Fail ELSE UNCHANGED err
        /\ UNCHANGED section

\* One turn of parse's loop.
ParseLine(ln) ==
    LET p == SkipSpaces(ln, 1)
    IN  /\ err = 0 /\ Len(file) < MaxLines
        /\ file' = Append(file, ln)
        /\ CASE At(ln, p) \in {";", "end"} -> UNCHANGED <<section, key, values, err>>
             [] At(ln, p) = "["            -> SectionLine(ln, p)
             [] OTHER -> IF ln[1] = "b" THEN Continuation(ln, p) ELSE Assignment(ln, p)

ConfNext == \E ln \in Lines : ParseLine(ln)

ParserSpec == ConfInit /\ [][ConfNext]_confVars

-----------------------------------------------------------------------------
(* What a file means, from its text alone.                                       *)

Blank(ln) == \A i \in DOMAIN ln : ln[i] = "b" \/ \E j \in 1 .. i : ln[j] = ";" /\
                                                     \A k \in 1 .. (j - 1) : ln[k] = "b"
Indented(ln) == ~Blank(ln) /\ ln[1] = "b" /\ ln[SkipSpaces(ln, 1)] # "["
Heading(ln) == ~Blank(ln) /\ ln[SkipSpaces(ln, 1)] = "["
Plain(ln) == ~Blank(ln) /\ ~Indented(ln) /\ ~Heading(ln)
Has(ln, c) == \E i \in DOMAIN ln : ln[i] = c

NameOf(ln) == ConsumeTill(ln, 1, IF Has(ln, "=") THEN "=" ELSE ":").str

\* The last line before i that is not blank, indented or a comment: 0 if there is none.
Owner(i) == LET P == {j \in 1 .. (i - 1) : Heading(file[j]) \/ Plain(file[j])}
            IN  IF P = {} THEN 0 ELSE CHOOSE j \in P : \A k \in P : k <= j

Malformed(i) == \/ Heading(file[i]) /\ ~Has(file[i], "]")
                \/ Plain(file[i]) /\ ~Has(file[i], "=") /\ ~Has(file[i], ":")
                \/ /\ Indented(file[i])
                   /\ \/ Owner(i) = 0
                      \/ Heading(file[Owner(i)])
                      \/ NameOf(file[Owner(i)]) = <<>>

SectionOf(i) == LET P == {j \in 1 .. i : Heading(file[j])}
                IN  IF P = {} THEN <<>>
                    ELSE LET ln == file[CHOOSE j \in P : \A k \in P : k <= j]
                         IN  ConsumeTill(ln, SkipSpaces(ln, 1) + 1, "]").str

\* The lines that give a value, and to which name.
Giving == {i \in DOMAIN file : Plain(file[i]) \/ Indented(file[i])}
NameAt(i) == NameOf(file[IF Plain(file[i]) THEN i ELSE Owner(i)])

\* Two lines give the same name a value: section and name agree but for case.  When a
\* section has a dot of its own the program only tells section.name apart from others,
\* so that b.c of section a and c of section a.b are one name.
SameName(i, j) ==
    IF Has(SectionOf(i), ".") \/ Has(SectionOf(j), ".")
    THEN MakeKey(SectionOf(i), NameAt(i)) = MakeKey(SectionOf(j), NameAt(j))
    ELSE /\ Lowered(SectionOf(i)) = Lowered(SectionOf(j))
         /\ Lowered(NameAt(i)) = Lowered(NameAt(j))

\* parse returns the number of the first line that the format does not allow (a section
\* without an end, a name without a value, a continuation without a name before it in
\* its section), and 0 when there is none.  Then getStrings returns one value for every
\* line that gives the name one in its section, in the file's order, and get the last:
\* names of different sections do not meet, unless a section's name has a dot, and case
\* does not matter ("make section/name lookups case-insensitive", conf.cc:12).
ParseIsRight ==
    /\ err = 0 <=> \A i \in DOMAIN file : ~Malformed(i)
    /\ err # 0 => err = Len(file) /\ Malformed(err)
    /\ err = 0 =>
           \A i \in Giving :
               LET l == GetStrings(SectionOf(i), NameAt(i))
                   same == {j \in Giving : SameName(i, j)}
               IN  /\ {l[k].line : k \in DOMAIN l} = same
                   /\ \A k, m \in DOMAIN l : k < m => l[k].line < l[m].line
                   /\ \E k \in DOMAIN l : /\ \A j \in same : j <= l[k].line
                                          /\ l[k].value = Get(SectionOf(i), NameAt(i), <<>>)
    /\ err = 0 => UNION {{values[n][k].line : k \in DOMAIN values[n]} : n \in DOMAIN values} = Giving

\* The comments of test/files/normal.ini: a comment sign inside a value starts no
\* comment unless there is white space before it, and white space inside a value
\* belongs to it.  So a value ends with its line or before a comment.
ValueToComment ==
    \A ln \in {file[i] : i \in DOMAIN file} : Plain(ln) /\ Has(ln, "=") /\ err = 0 =>
        LET p == First_({i \in DOMAIN ln : ln[i] = "="})
            comment == {i \in p + 1 .. Len(ln) : ln[i] = ";" /\ ln[i - 1] = "b"}
            e == IF comment = {} THEN Len(ln) + 1 ELSE First_(comment)
        IN  \E n \in DOMAIN values : \E k \in DOMAIN values[n] :
                values[n][k].value = Rstrip(ln, SkipSpaces(ln, p + 1), e)
=============================================================================
