----------------------------- MODULE QueryFilters -----------------------------
(***************************************************************************)
(* The headers Filter, And, Or and Negate of a query, WaitCondition... and *)
(* Stats..., src/src/Query.cc, with the filters they build (AndingFilter,  *)
(* OringFilter, NegatingFilter), and what the tables make of them: a log   *)
(* query looks only at a range of times and at some classes of messages,   *)
(* and a query of objects only at those of one group or host.  The header  *)
(* Localtime is to move the times that filters compare with.               *)
(*                                                                         *)
(* Each of the three kinds of headers has a stack.  A filter is what can   *)
(* be observed of it: the rows it accepts, what it makes of an interval of *)
(* times, the bits it keeps of a mask, and the key it has for an index.    *)
(***************************************************************************)
EXTENDS ColumnFilters, Sequences

CONSTANTS
    Rows,       \* the rows of a table
    Value,      \* [Rows -> [columns -> values]]
    Kind,       \* [columns -> kinds]
    Samples,    \* headers with filters of columns
    Headers,    \* the headers a query may have
    MaxHeaders  \* bound: how many of them

Nothing == [stack |-> "none"]
NoKey == <<>>
Stacks == {"filter", "wait", "stats"}
Columns == DOMAIN Kind

Numbers == {"int", "time", "double"}
Lists == {"hosts", "list", "services", "descriptions", "masters", "dependencies"}
Sets == Lists \cup {"names", "values"}
Kinds == Numbers \cup {"timeval", "string", "attributes", "dict"} \cup Sets

\* The name of a host and the description of a service, neither of them empty.
ServiceNames == (Nat \ {0}) \X (Nat \ {0})

\* Seconds and microseconds.
Million == 1000000
Times == Int \X (0 .. Million - 1)

ASSUME FiltersAssumption ==
    /\ {"class", "time"} \subseteq Columns /\ Kind["class"] = "int" /\ Kind["time"] = "time"
    /\ \A r \in Rows : Value[r]["class"] \in Bits /\ Value[r]["time"] \in 0 .. MaxTime - 1
    /\ MaxHeaders \in Nat

\* The values that columns have, and those that they are compared with.
ASSUME ValuesAssumption ==
    \A c \in Columns :
        /\ Kind[c] \in Kinds
        /\ \A r \in Rows :
            /\ Kind[c] \in Numbers \cup {"string"} => Value[r][c] \in Int
            /\ Kind[c] = "timeval" => Value[r][c] \in Times
            /\ Kind[c] = "attributes" => Value[r][c] \subseteq Attributes
            /\ Kind[c] = "dict" => \A v \in DOMAIN Value[r][c] : Value[r][c][v] \in Int
            /\ Kind[c] = "services" => Value[r][c] \subseteq ServiceNames
            /\ Kind[c] = "dependencies" => \A d \in Value[r][c] : d.master \in ServiceNames

Reference(kind, ref) ==
    /\ kind \in Numbers \cup {"string"} => ref \in Int
    /\ kind = "timeval" => ref \in Times
    /\ kind = "attributes" => ref \subseteq Attributes
    /\ kind = "dict" => ref[2] \in Int
    /\ kind \in {"services", "descriptions", "dependencies"} => ref \in Seq(Nat) \ {<<>>}

ASSUME HeadersAssumption ==
    /\ \A h \in Headers \cup Samples :
        /\ h.does \in {"column", "aggregate", "And", "Or", "Negate", "Localtime", "invalid"}
        /\ IF h.does = "Localtime" THEN h.offset \in Int ELSE h.stack \in Stacks
        /\ h.does \in {"And", "Or"} => h.count \in Nat
        /\ h.does = "column" =>
              /\ h.sign \in Signs /\ h.not \in BOOLEAN
              /\ h.column \in Columns => Reference(Kind[h.column], h.ref)
              /\ h.column = "time" => h.ref \in 0 .. MaxTime - 1
    /\ \A h \in Samples :
        h.does = "column" /\ h.column \in Columns /\ LookupOperator(h.not, h.sign) # OP_INVALID

VARIABLES
    phase,      \* "headers", "limits", "done", or "refused"
    stack,      \* _filter, _wait_condition, _stats_columns
    making,     \* the filter that an And or Or is being made of, or Nothing
    error,      \* whether the output has an error
    lines,      \* how many headers were read
    interval,   \* since and until of a log query
    mask,       \* its classmask
    answer,     \* the rows that are left
    timezone,   \* _timezone_offset: how much later it is where the client is
    meant,      \* history: the sets of rows that the headers describe
    shifted     \* history: whether times were compared while there was an offset

localtime == <<timezone, shifted>>
vars == <<phase, stack, making, error, lines, interval, mask, answer, meant, localtime>>

-----------------------------------------------------------------------------
(* Filters                                                                 *)

Identity == [i \in Intervals |-> i]

\* "Offset to be added each time we output our time and subtracted from reference
\* value by filter headers" (Query.cc:786).
Localized(kind, ref) ==
    CASE kind = "time"    -> ref - timezone
      [] kind = "timeval" -> <<ref[1] - timezone, ref[2]>>
      [] OTHER            -> ref

\* convertRefValue() asks for the offset if the filter has a query.  The constructor
\* calls it, when Filter() has set _query to 0 and setQuery() is yet to come.
HasQuery == FALSE
ConvertRefValue(kind, ref) == IF HasQuery THEN Localized(kind, ref) ELSE ref

\* Whatever is not said of a filter is as in class Filter: no limits, no bits
\* are removed, no key.  A history field tells whether an Or is in it.
Filter(accepts) ==
    [accepts |-> accepts, limits |-> Identity, masked |-> FALSE, keep |-> Bits,
     key |-> NoKey, count |-> TRUE, ored |-> FALSE]

Accepting(h) ==
    LET ref == ConvertRefValue(Kind[h.column], h.ref) IN
    {r \in Rows : Accepts(Kind[h.column], LookupOperator(h.not, h.sign), ref, Value[r][h.column])}
LimitsOf(opid, ref) == [i \in Intervals |-> TimeLimits(opid, ref, i)]

\* findTimeLimits of a column of times, optimizeBitmask of one of numbers, and
\* the indexFilter of a column of names or lists.
TimeFilter(h, opid) ==
    [Filter(Accepting(h)) EXCEPT !.limits = LimitsOf(opid, ConvertRefValue("time", h.ref))]
ClassFilter(h, opid) ==
    [Filter(Accepting(h)) EXCEPT !.masked = Optimized(opid, h.ref), !.keep = BitsKept(opid, h.ref)]
KeyFilter(h) == [Filter(Accepting(h)) EXCEPT !.key = <<h.column, h.ref>>]

\* Column::createFilter
ColumnFilter(h) ==
    LET opid == LookupOperator(h.not, h.sign)
        kind == Kind[h.column]
    IN
    CASE h.column = "time"  -> TimeFilter(h, opid)
      [] h.column = "class" -> ClassFilter(h, opid)
      [] (kind = "string" /\ opid = OP_EQUAL) \/ (kind = "list" /\ opid = -OP_LESS) -> KeyFilter(h)
      [] OTHER -> Filter(Accepting(h))

\* EmptyFilter stands in for a column that does not exist.  Its constructor does
\* not set _negate, so that it accepts every row or none.
EmptyFilters == {Filter({}), Filter(Rows)}

NegatingFilter(f) == [Filter(Rows \ f.accepts) EXCEPT !.ored = f.ored]

\* A new AndingFilter or OringFilter.
Combination(kind) ==
    IF kind = "And" THEN Filter(Rows)
    ELSE [Filter({}) EXCEPT !.masked = TRUE, !.keep = {}, !.ored = TRUE]

\* Mutant: a filter that says nothing of the mask is left out of an Or's.
AddSubfilterMasked(kind, g, f) ==
    [g EXCEPT
        !.accepts = IF kind = "And" THEN @ \cap f.accepts ELSE @ \cup f.accepts,
        !.limits = [i \in Intervals |-> f.limits[g.limits[i]]],
        !.masked = @ \/ f.masked,
        !.keep = IF kind = "And" THEN @ \cap f.keep
                 ELSE IF f.masked THEN @ \cup f.keep ELSE @,
        !.ored = @ \/ f.ored]

\* addSubfilter, as accepts, findTimeLimits and optimizeBitmask see it later: an
\* Or "can only optimize, if all subfilters are filters for the same column", but
\* it inherits findTimeLimits from And.
AddSubfilter(kind, g, f) ==
    [g EXCEPT
        !.accepts = IF kind = "And" THEN @ \cap f.accepts ELSE @ \cup f.accepts,
        !.limits = [i \in Intervals |-> f.limits[g.limits[i]]],
        !.masked = IF kind = "And" THEN @ \/ f.masked ELSE @ /\ f.masked,
        !.keep = IF kind = "And" THEN @ \cap f.keep
                 ELSE IF f.masked THEN @ \cup f.keep ELSE Bits,
        !.ored = @ \/ f.ored]

-----------------------------------------------------------------------------
(* Headers                                                                 *)

Last(s) == s[Len(s)]
Front(s) == SubSeq(s, 1, Len(s) - 1)

\* Whether the last one on a stack is a filter: a column that counts rows.
EndsCounting(s) == IF s = <<>> THEN FALSE ELSE Last(s).count

Header(does) == {h \in Headers : h.does = does}

Reading == phase = "headers" /\ making = Nothing /\ lines < MaxHeaders
Read(h) == Reading /\ lines' = lines + 1

Push(s, f) == stack' = [stack EXCEPT ![s] = Append(@, f)]

\* What an operator says, written down as people do, for the kinds of columns that
\* have it.
Member(kind, ref, value) ==
    CASE kind \in {"hosts", "list"}              -> ref \in value
      [] kind = "services"                       -> ref \in value
      [] kind = "descriptions"                   -> \E s \in value : s[2] = ref[1]
      [] kind \in {"masters", "dependencies"}    -> \E d \in value : d.master = ref
      [] kind = "names"                          -> ref \in DOMAIN value \ Hidden
      [] kind = "values"                         -> \E v \in DOMAIN value \ Hidden : value[v] = ref
Comparisons == {"=", "<", "<=", ">", ">="}
Compares(sign, below, same) ==
    CASE sign = "=" -> same   [] sign = "<" -> below  [] sign = "<=" -> below \/ same
      [] sign = ">=" -> ~below [] sign = ">" -> ~(below \/ same)

\* Of two sets of bits, the greater one has the highest bit that they do not share.
Below(kind, a, b) ==
    CASE kind = "timeval"    -> a[1] * Million + a[2] < b[1] * Million + b[2]
      [] kind = "attributes" -> \E n \in b \ a : \A m \in a \ b : m < n
      [] OTHER               -> a < b

SaidOfText(sign, ref, text) ==
    CASE sign = "=~" -> Lower[text] = Lower[ref]
      [] sign = "~"  -> text \in Matching[FALSE][ref]
      [] sign = "~~" -> text \in Matching[TRUE][ref]
      [] OTHER       -> Compares(sign, Below("string", text, ref), text = ref)
Said(kind, sign, ref, value) ==
    CASE kind \in Sets /\ sign = ">=" -> Member(kind, ref, value)
      [] kind \in Sets /\ sign = "<"  -> ~Member(kind, ref, value)
      [] kind \in Sets /\ sign = "="  -> value = {}
      [] kind = "string" -> SaidOfText(sign, ref, value)
      [] kind = "dict"   ->
            SaidOfText(sign, ref[2], IF ref[1] \in DOMAIN value \ Hidden THEN value[ref[1]] ELSE 0)
      [] kind = "attributes" /\ sign = "~"  -> ref \subseteq value
      [] kind = "attributes" /\ sign = "~~" -> ref \cap value # {}
      [] OTHER -> Compares(sign, Below(kind, value, ref), value = ref)

IsEmpty(kind, ref) ==
    IF kind \in {"services", "descriptions", "dependencies"} THEN \A n \in DOMAIN ref : ref[n] = 0
    ELSE ref = 0
Implemented(kind, sign, ref) ==
    CASE kind \in Sets ->
            sign \in {"<", ">="} \/ (sign = "=" /\ kind \in Lists /\ IsEmpty(kind, ref))
      [] kind \in {"string", "dict"} -> sign \in Comparisons \cup {"=~", "~", "~~"}
      [] kind = "attributes" -> sign \in Comparisons \cup {"~", "~~"}
      [] OTHER -> sign \in Comparisons

\* An operator that is not implemented says nothing, and means what the filter makes
\* of it.
Meaning(h, value) ==
    LET kind == Kind[h.column] IN
    IF Implemented(kind, h.sign, h.ref)
    THEN LET said == Said(kind, h.sign, Localized(kind, h.ref), value) IN
         IF h.not THEN ~said ELSE said
    ELSE Accepts(kind, LookupOperator(h.not, h.sign), h.ref, value)

\* Times that are compared while there is an offset.
Shifts(h) == timezone # 0 /\ Kind[h.column] \in {"time", "timeval"}

\* A regular expression, of a string or of a variable, has to be one.
Compiles(h) ==
    LET opid == LookupOperator(h.not, h.sign) IN
    /\ Kind[h.column] = "string" => RegexOk(opid, h.ref)
    /\ Kind[h.column] = "dict" => RegexOk(opid, h.ref[2])

Means(s, rows) == meant' = [meant EXCEPT ![s] = Append(@, rows)]

\* parseFilterLine() and the filters of parseStatsLine().
ParseColumnLine ==
    \E h \in Header("column") :
        /\ h.column \in Columns /\ LookupOperator(h.not, h.sign) # OP_INVALID
        /\ Compiles(h)
        /\ Read(h) /\ Push(h.stack, ColumnFilter(h))
        /\ Means(h.stack, {r \in Rows : Meaning(h, Value[r][h.column])})
        /\ shifted' = (shifted \/ Shifts(h))
        /\ UNCHANGED <<phase, making, error, interval, mask, answer, timezone>>

ParseUnknownColumn ==
    \E h \in Header("column") : \E f \in EmptyFilters :
        /\ h.column \notin Columns /\ LookupOperator(h.not, h.sign) # OP_INVALID
        /\ Read(h) /\ Push(h.stack, f) /\ Means(h.stack, f.accepts)
        /\ UNCHANGED <<phase, making, error, interval, mask, answer, localtime>>

\* The aggregating functions of parseStatsLine(): a column without a filter.
ParseAggregate ==
    \E h \in Header("aggregate") :
        /\ Read(h) /\ Push(h.stack, [Filter(Rows) EXCEPT !.count = FALSE])
        /\ Means(h.stack, Rows)
        /\ UNCHANGED <<phase, making, error, interval, mask, answer, localtime>>

\* Every line that is refused sets an error; the next ones are read all the same.
ParseInvalid ==
    \E h \in Headers :
        /\ \/ h.does = "invalid"
           \/ h.does = "column" /\ LookupOperator(h.not, h.sign) = OP_INVALID
           \/ h.does = "column" /\ h.column \in Columns /\ ~Compiles(h)
           \/ h.does = "Negate" /\ ~EndsCounting(stack[h.stack])
           \/ h.does \in {"And", "Or"} /\ h.stack # "stats" /\ h.count > Len(stack[h.stack])
        /\ Read(h) /\ error' = TRUE
        /\ UNCHANGED <<phase, stack, making, interval, mask, answer, meant, localtime>>

\* parseAndOrLine(), combineFilters() and parseStatsAndOrLine() begin.
ParseAndOrLine ==
    \E h \in Header("And") \cup Header("Or") :
        LET s == h.stack
            n == Len(meant[s])
            taken == {meant[s][k] : k \in n - h.count + 1 .. n}
        IN
        /\ s # "stats" => h.count <= Len(stack[s])
        /\ Read(h)
        /\ making' = [stack |-> s, kind |-> h.does, left |-> h.count, filter |-> Combination(h.does)]
        /\ meant' = IF h.count > n THEN meant
                    ELSE [meant EXCEPT ![s] = Append(SubSeq(@, 1, n - h.count),
                            IF h.does = "Or" THEN UNION taken
                            ELSE {r \in Rows : \A rows \in taken : r \in rows})]
        /\ UNCHANGED <<phase, stack, error, interval, mask, answer, localtime>>

\* The last filter of the stack moves into the new one.
TakeSubfilter ==
    /\ making # Nothing /\ making.left > 0
    /\ EndsCounting(stack[making.stack])
    /\ making' = [making EXCEPT !.left = @ - 1,
                    !.filter = AddSubfilter(making.kind, @, Last(stack[making.stack]))]
    /\ stack' = [stack EXCEPT ![making.stack] = Front(@)]
    /\ UNCHANGED <<phase, error, lines, interval, mask, answer, meant, localtime>>

\* parseStatsAndOrLine() finds too few columns, or one that does not count: those
\* that it took already are lost.
TooFewStats ==
    /\ making # Nothing /\ making.left > 0
    /\ ~EndsCounting(stack[making.stack])
    /\ error' = TRUE /\ making' = Nothing
    /\ UNCHANGED <<phase, stack, lines, interval, mask, answer, meant, localtime>>

\* Mutant: one filter more than asked for is combined.
CombineLate ==
    /\ making # Nothing /\ making.left = 0
    /\ stack' = [stack EXCEPT ![making.stack] =
                    IF @ = <<>> THEN <<making.filter>>
                    ELSE Append(Front(@), AddSubfilter(making.kind, making.filter, Last(@)))]
    /\ making' = Nothing
    /\ UNCHANGED <<phase, error, lines, interval, mask, answer, meant, localtime>>

Combine ==
    /\ making # Nothing /\ making.left = 0
    /\ Push(making.stack, making.filter) /\ making' = Nothing
    /\ UNCHANGED <<phase, error, lines, interval, mask, answer, meant, localtime>>

\* parseNegateLine() and parseStatsNegateLine()
ParseNegateLine ==
    \E h \in Header("Negate") :
        LET s == h.stack IN
        /\ EndsCounting(stack[s])
        /\ Read(h)
        /\ stack' = [stack EXCEPT ![s] = Append(Front(@), NegatingFilter(Last(@)))]
        /\ meant' = [meant EXCEPT ![s] = Append(Front(@), Rows \ Last(@))]
        /\ UNCHANGED <<phase, making, error, interval, mask, answer, localtime>>

\* parseLocaltimeLine()
ParseLocaltimeLine ==
    \E h \in Header("Localtime") :
        /\ Read(h) /\ timezone' = h.offset
        /\ UNCHANGED <<phase, stack, making, error, interval, mask, answer, meant, shifted>>

-----------------------------------------------------------------------------
(* The tables                                                              *)

\* A request with an error is not executed.
HeadersEnd ==
    /\ phase = "headers" /\ making = Nothing
    /\ phase' = IF error THEN "refused" ELSE "limits"
    /\ UNCHANGED <<stack, making, error, lines, interval, mask, answer, meant, localtime>>

Filters == stack["filter"]
Accepted(rows) == {r \in rows : \A n \in DOMAIN Filters : r \in Filters[n].accepts}

\* The limits and the mask that the query's filters leave, one after the other.
Limits ==
    LET after[n \in 0 .. Len(Filters)] ==
            IF n = 0 THEN [lower |-> 0, upper |-> MaxTime] ELSE Filters[n].limits[after[n - 1]]
    IN  after[Len(Filters)]
Mask == {b \in Bits : \A n \in DOMAIN Filters : b \in Filters[n].keep}

\* TableLog::answerQuery: the entries of the interval whose class is loaded.
AnswerLog ==
    /\ phase = "limits" /\ phase' = "done"
    /\ interval' = Limits /\ mask' = Mask
    /\ answer' = Accepted({r \in Rows : /\ Value[r]["class"] \in mask'
                                        /\ Value[r]["time"] >= interval'.lower
                                        /\ Value[r]["time"] < interval'.upper})
    /\ UNCHANGED <<stack, making, error, lines, meant, localtime>>

\* findIndexFilter(): the first of the query's filters that has a key for the
\* column.  It does not look into those that were combined.
FindIndexFilter(column) ==
    LET fit == {n \in DOMAIN Filters : Filters[n].key # NoKey /\ Filters[n].key[1] = column} IN
    {Filters[n].key[2] : n \in {n \in fit : \A k \in fit : n <= k}}

Holds(r, column, ref) ==
    IF Kind[column] = "list" THEN ref \in Value[r][column] ELSE Value[r][column] = ref

\* TableHosts::answerQuery, TableServices::answerQuery: the rows of the group or
\* the host that a filter asks for, or all rows.
AnswerObjects ==
    /\ phase = "limits" /\ phase' = "done"
    /\ LET found == {c \in Columns : FindIndexFilter(c) # {}} IN
        IF found = {} THEN answer' = Accepted(Rows)
        ELSE \E c \in found : \E ref \in FindIndexFilter(c) :
                answer' = Accepted({r \in Rows : Holds(r, c, ref)})
    /\ UNCHANGED <<stack, making, error, lines, interval, mask, meant, localtime>>

Init ==
    /\ phase = "headers" /\ stack = [s \in Stacks |-> <<>>] /\ making = Nothing
    /\ error = FALSE /\ lines = 0
    /\ interval = [lower |-> 0, upper |-> MaxTime] /\ mask = Bits
    /\ answer = {} /\ meant = [s \in Stacks |-> <<>>]
    /\ timezone = 0 /\ shifted = FALSE

Next ==
    \/ ParseColumnLine \/ ParseUnknownColumn \/ ParseAggregate \/ ParseInvalid
    \/ ParseAndOrLine \/ TakeSubfilter \/ TooFewStats \/ Combine \/ ParseNegateLine
    \/ ParseLocaltimeLine \/ HeadersEnd \/ AnswerLog \/ AnswerObjects

Spec == Init /\ [][Next]_vars

-----------------------------------------------------------------------------
(* Properties                                                              *)

TypeOK ==
    /\ phase \in {"headers", "limits", "done", "refused"} /\ error \in BOOLEAN
    /\ lines \in 0 .. MaxHeaders /\ interval \in Intervals /\ mask \subseteq Bits
    /\ answer \subseteq Rows /\ timezone \in Int /\ shifted \in BOOLEAN
    /\ \A s \in Stacks : \A n \in DOMAIN stack[s] :
        LET f == stack[s][n] IN
        /\ f.accepts \subseteq Rows /\ f.keep \subseteq Bits
        /\ \A i \in Intervals : f.limits[i] \in Intervals

\* Every operator that a kind of column has accepts what it says, negated or not.  Not
\* so the times of a query with the header Localtime, whose offset is not subtracted
\* although Query.cc:786 says that it is; of operators that a column does not have
\* nothing is claimed.
ColumnFiltersMean ==
    lines <= 1 /\ phase = "headers" => \A h \in Samples :
        Implemented(Kind[h.column], h.sign, h.ref) /\ ~Shifts(h) =>
            ColumnFilter(h).accepts = {r \in Rows : Meaning(h, Value[r][h.column])}

\* The filters that exist: those on a stack and the one in the making.
AllFilters ==
    (UNION {{stack[s][n] : n \in DOMAIN stack[s]} : s \in Stacks})
        \cup {m.filter : m \in {making} \ {Nothing}}

\* As long as there was no error, and no time was compared after a header Localtime,
\* the filters on the stacks accept what the headers say, in the order of the headers;
\* a combination takes just as many as it was told.
FiltersMean ==
    ~error /\ ~shifted /\ making = Nothing => \A s \in Stacks :
        /\ Len(stack[s]) = Len(meant[s])
        /\ \A n \in DOMAIN stack[s] : stack[s][n].accepts = meant[s][n]

\* No class of messages is left out that a filter accepts: "We want to load only
\* those log type that are queried" (TableLog.cc:107).
MaskSound ==
    \A f \in AllFilters : \A r \in f.accepts : Value[r]["class"] \in f.keep

\* No time is left out that a filter accepts, if there is no Or in it.
TimesSound ==
    \A f \in AllFilters : ~f.ored =>
        \A r \in f.accepts, i \in Intervals :
            LET t == Value[r]["time"]
                in == f.limits[i]
            IN  i.lower <= t /\ t < i.upper => in.lower <= t /\ t < in.upper

\* The same of every filter: "Optimize time interval for the query" (TableLog.cc:97)
\* is to find the same entries, and an Or "can only optimize, if *all* subfilters
\* are filters for the same column" (OringFilter.cc:23).
LimitsSound ==
    \A f \in AllFilters : \A r \in f.accepts, i \in Intervals :
        LET t == Value[r]["time"]
            in == f.limits[i]
        IN  i.lower <= t /\ t < i.upper => in.lower <= t /\ t < in.upper

\* An answer has all rows that the headers ask for and no others, whatever was
\* skipped by limits, mask and index, if no time was compared after a header
\* Localtime.
AnswerMeant ==
    phase = "done" /\ ~shifted /\ (\A n \in DOMAIN Filters : ~Filters[n].ored) =>
        answer = {r \in Rows : \A n \in DOMAIN meant["filter"] : r \in meant["filter"][n]}
=============================================================================
