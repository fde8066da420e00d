------------------------- MODULE QueryFilters_proofs -------------------------
(***************************************************************************)
(* For every table, every header and any number of them: a filter accepts  *)
(* what the headers say, and a query is answered with the rows that its    *)
(* filters accept.                                                         *)
(*                                                                         *)
(* IInv says of each filter by itself that it is sound: that the mask of   *)
(* classes that it leaves, without an Or the range of times, and its key   *)
(* for an index, are right for all rows that it accepts.  The filters of   *)
(* columns are, and And, Or and Negate keep it.  MeantInv adds that the    *)
(* stacks accept what was said, and of one that a combination is being     *)
(* made of, that it will when the combination is finished.  AnswerInv adds *)
(* the answer; the limits, which are the solution of a recursion over the  *)
(* filters, are shown to exist and to be right by contradiction with the   *)
(* first filter for which they would not.                                  *)
(***************************************************************************)
EXTENDS QueryFilters, TLAPS, NaturalsInduction, WellFoundedInduction

Keys == {NoKey} \cup {<<h.column, h.ref>> : h \in Headers}

FilterType ==
    [accepts : SUBSET Rows, limits : [Intervals -> Intervals], masked : BOOLEAN,
     keep : SUBSET Bits, key : Keys, count : BOOLEAN, ored : BOOLEAN]

Within(t, i) == i.lower <= t /\ t < i.upper

MaskKept(f) == \A r \in f.accepts : Value[r]["class"] \in f.keep
TimesKept(f) ==
    ~f.ored => \A r \in f.accepts, i \in Intervals :
        Within(Value[r]["time"], i) => Within(Value[r]["time"], f.limits[i])

KeyKept(f) == f.key # NoKey => \A r \in f.accepts : Holds(r, f.key[1], f.key[2])

SoundFilters == {f \in FilterType : MaskKept(f) /\ TimesKept(f) /\ KeyKept(f)}

Makings == [stack : Stacks, kind : {"And", "Or"}, left : Nat, filter : SoundFilters]

IInv ==
    /\ stack \in [Stacks -> Seq(SoundFilters)]
    /\ making = Nothing \/ (/\ making \in Makings /\ making.filter.key = NoKey
                            /\ making.kind = "Or" => making.filter.ored)

-----------------------------------------------------------------------------
(* What operators mean                                                     *)

\* The sign that is read as an operator, one case per sign.
LEMMA Operators ==
    ASSUME NEW not \in BOOLEAN
    PROVE  /\ LookupOperator(not, "=")  = IF not THEN -1 ELSE 1
           /\ LookupOperator(not, "~")  = IF not THEN -2 ELSE 2
           /\ LookupOperator(not, "=~") = IF not THEN -3 ELSE 3
           /\ LookupOperator(not, "~~") = IF not THEN -4 ELSE 4
           /\ LookupOperator(not, ">")  = IF not THEN -5 ELSE 5
           /\ LookupOperator(not, "<")  = IF not THEN -6 ELSE 6
           /\ LookupOperator(not, ">=") = IF not THEN 6 ELSE -6
           /\ LookupOperator(not, "<=") = IF not THEN 5 ELSE -5
           /\ LookupOperator(not, "?")  = 0
<1> DEFINE opid(sign) ==
        CASE sign = "="  -> OP_EQUAL       [] sign = "~"  -> OP_REGEX
          [] sign = "=~" -> OP_EQUAL_ICASE [] sign = "~~" -> OP_REGEX_ICASE
          [] sign = ">"  -> OP_GREATER     [] sign = "<"  -> OP_LESS
          [] sign = ">=" -> -OP_LESS       [] sign = "<=" -> -OP_GREATER
          [] OTHER       -> OP_INVALID
<1>1. /\ opid("=") = 1 /\ opid("~") = 2 /\ opid("=~") = 3 /\ opid("~~") = 4
      /\ opid(">") = 5 /\ opid("<") = 6 /\ opid(">=") = -6 /\ opid("<=") = -5
      /\ opid("?") = 0
    BY DEF OP_INVALID, OP_EQUAL, OP_REGEX, OP_EQUAL_ICASE, OP_REGEX_ICASE, OP_GREATER, OP_LESS
<1>2. \A sign : LookupOperator(not, sign) = IF not THEN -opid(sign) ELSE opid(sign)
    BY DEF LookupOperator
<1> HIDE DEF opid
<1> QED BY <1>1, <1>2

\* The signs that are operators.
Operator == Signs \ {"?"}

LEMMA AbsType == \A n \in 1 .. 6 : Abs(n) = n /\ Abs(-n) = n
BY DEF Abs

\* A negated operator is its negation, for all columns that are no sets.
LEMMA OrderedFlips ==
    ASSUME NEW n \in 1 .. 6, NEW ref, NEW value
    PROVE  Ordered(-n, ref, value) <=> ~Ordered(n, ref, value)
<1> DEFINE Pass(m) == CASE m = OP_EQUAL   -> value = ref
                        [] m = OP_GREATER -> value > ref
                        [] m = OP_LESS    -> value < ref
                        [] OTHER          -> TRUE
<1>1. Abs(n) = n /\ Abs(-n) = n
    BY AbsType
<1>2. \A opid : Ordered(opid, ref, value) <=> IF opid < 0 THEN ~Pass(Abs(opid)) ELSE Pass(Abs(opid))
    BY DEF Ordered, Negated
<1> HIDE DEF Pass
<1> QED BY <1>1, <1>2

LEMMA StringFlips ==
    ASSUME NEW n \in 1 .. 6, NEW ref, NEW value
    PROVE  StringColumnFilter(-n, ref, value) <=> ~StringColumnFilter(n, ref, value)
<1> DEFINE Pass(m) == CASE m = OP_EQUAL       -> value = ref
                        [] m = OP_EQUAL_ICASE -> Lower[value] = Lower[ref]
                        [] m = OP_REGEX       -> value \in Matching[FALSE][ref]
                        [] m = OP_REGEX_ICASE -> value \in Matching[TRUE][ref]
                        [] m = OP_GREATER     -> value > ref
                        [] m = OP_LESS        -> value < ref
<1>1. Abs(n) = n /\ Abs(-n) = n
    BY AbsType
<1>2. \A opid : StringColumnFilter(opid, ref, value)
                    <=> IF opid < 0 THEN ~Pass(Abs(opid)) ELSE Pass(Abs(opid))
    BY DEF StringColumnFilter, Negated
<1> HIDE DEF Pass
<1> QED BY <1>1, <1>2

LEMMA NegatedFlips ==
    ASSUME NEW kind \in Kinds \ Sets, NEW n \in 1 .. 6, NEW ref, NEW value
    PROVE  Accepts(kind, -n, ref, value) <=> ~Accepts(kind, n, ref, value)
<1>1. Abs(n) = n /\ Abs(-n) = n
    BY AbsType
<1>2. CASE kind \in Numbers
    <2>1. \A opid : Accepts(kind, opid, ref, value) = Ordered(opid, ref, value)
        BY <1>2 DEF Accepts, Numbers, IntColumnFilter, DoubleColumnFilter, TimeColumnFilter
    <2> QED BY <2>1, OrderedFlips
<1>3. CASE kind = "timeval"
    BY <1>1, <1>3 DEF Accepts, TimeValColumnFilter, Negated
<1>4. CASE kind = "string"
    BY <1>4, StringFlips DEF Accepts
<1>5. CASE kind = "attributes"
    BY <1>1, <1>5 DEF Accepts, AttributelistFilter, Negated
<1>6. CASE kind = "dict"
    <2>1. \A opid : Accepts(kind, opid, ref, value)
                        = StringColumnFilter(opid, ref[2], GetVariable(value, ref[1]))
        BY <1>6 DEF Accepts, CustomVarsFilter
    <2> QED BY <2>1, StringFlips
<1> QED BY <1>2, <1>3, <1>4, <1>5, <1>6 DEF Kinds

\* The filter's five operators that compare follow the order of its values.
Compared(kind, ref, value) ==
    /\ Accepts(kind, 1, ref, value) <=> value = ref
    /\ Accepts(kind, 6, ref, value) <=> Below(kind, value, ref)
    /\ Accepts(kind, -6, ref, value) <=> ~Below(kind, value, ref)
    /\ Accepts(kind, -5, ref, value) <=> Below(kind, value, ref) \/ value = ref
    /\ Accepts(kind, 5, ref, value) <=> ~(Below(kind, value, ref) \/ value = ref)

LEMMA ComparesAgree ==
    ASSUME NEW kind, NEW sign \in Comparisons, NEW ref, NEW value, Compared(kind, ref, value)
    PROVE  Compares(sign, Below(kind, value, ref), value = ref)
             <=> Accepts(kind, LookupOperator(FALSE, sign), ref, value)
<1> DEFINE below == Below(kind, value, ref)
           same == value = ref
<1>1. CASE sign = "="
    <2>1. LookupOperator(FALSE, sign) = 1
        BY <1>1, Operators
    <2>2. Compares(sign, below, same) <=> same
        BY <1>1 DEF Compares
    <2> QED BY <2>1, <2>2 DEF Compared
<1>2. CASE sign = "<"
    <2>1. LookupOperator(FALSE, sign) = 6
        BY <1>2, Operators
    <2>2. Compares(sign, below, same) <=> below
        BY <1>2 DEF Compares
    <2> QED BY <2>1, <2>2 DEF Compared
<1>3. CASE sign = "<="
    <2>1. LookupOperator(FALSE, sign) = -5
        BY <1>3, Operators
    <2>2. Compares(sign, below, same) <=> below \/ same
        BY <1>3 DEF Compares
    <2> QED BY <2>1, <2>2 DEF Compared
<1>4. CASE sign = ">"
    <2>1. LookupOperator(FALSE, sign) = 5
        BY <1>4, Operators
    <2>2. Compares(sign, below, same) <=> ~(below \/ same)
        BY <1>4 DEF Compares
    <2> QED BY <2>1, <2>2 DEF Compared
<1>5. CASE sign = ">="
    <2>1. LookupOperator(FALSE, sign) = -6
        BY <1>5, Operators
    <2>2. Compares(sign, below, same) <=> ~below
        BY <1>5 DEF Compares
    <2> QED BY <2>1, <2>2 DEF Compared
<1> QED BY <1>1, <1>2, <1>3, <1>4, <1>5 DEF Comparisons

LEMMA AbsOperators ==
    Abs(1) = 1 /\ Abs(5) = 5 /\ Abs(-5) = 5 /\ Abs(6) = 6 /\ Abs(-6) = 6
BY AbsType

LEMMA NumbersCompared ==
    ASSUME NEW kind \in Numbers, NEW ref \in Int, NEW value \in Int
    PROVE  Compared(kind, ref, value)
<1>1. \A opid : Accepts(kind, opid, ref, value) = Ordered(opid, ref, value)
    BY DEF Accepts, Numbers, IntColumnFilter, DoubleColumnFilter, TimeColumnFilter
<1>2. /\ Ordered(1, ref, value) <=> value = ref
      /\ Ordered(5, ref, value) <=> value > ref
      /\ Ordered(-5, ref, value) <=> value <= ref
      /\ Ordered(6, ref, value) <=> value < ref
      /\ Ordered(-6, ref, value) <=> value >= ref
    BY AbsOperators DEF Ordered, Negated, OP_EQUAL, OP_GREATER, OP_LESS
<1>3. Below(kind, value, ref) <=> value < ref
    BY DEF Below, Numbers
<1> QED BY <1>1, <1>2, <1>3 DEF Compared

\* The eight operators of strings, one after the other.
LEMMA StringOperators ==
    ASSUME NEW ref \in Int, NEW value \in Int
    PROVE  /\ StringColumnFilter(1, ref, value) <=> value = ref
           /\ StringColumnFilter(2, ref, value) <=> value \in Matching[FALSE][ref]
           /\ StringColumnFilter(3, ref, value) <=> Lower[value] = Lower[ref]
           /\ StringColumnFilter(4, ref, value) <=> value \in Matching[TRUE][ref]
           /\ StringColumnFilter(5, ref, value) <=> value > ref
           /\ StringColumnFilter(-5, ref, value) <=> value <= ref
           /\ StringColumnFilter(6, ref, value) <=> value < ref
           /\ StringColumnFilter(-6, ref, value) <=> value >= ref
<1> DEFINE Pass(m) == CASE m = OP_EQUAL       -> value = ref
                        [] m = OP_EQUAL_ICASE -> Lower[value] = Lower[ref]
                        [] m = OP_REGEX       -> value \in Matching[FALSE][ref]
                        [] m = OP_REGEX_ICASE -> value \in Matching[TRUE][ref]
                        [] m = OP_GREATER     -> value > ref
                        [] m = OP_LESS        -> value < ref
<1>1. \A opid : StringColumnFilter(opid, ref, value)
                    <=> IF opid < 0 THEN ~Pass(Abs(opid)) ELSE Pass(Abs(opid))
    BY DEF StringColumnFilter, Negated
<1>2. /\ Pass(1) <=> value = ref
      /\ Pass(2) <=> value \in Matching[FALSE][ref]
      /\ Pass(3) <=> Lower[value] = Lower[ref]
      /\ Pass(4) <=> value \in Matching[TRUE][ref]
      /\ Pass(5) <=> value > ref
      /\ Pass(6) <=> value < ref
    BY DEF OP_EQUAL, OP_REGEX, OP_EQUAL_ICASE, OP_REGEX_ICASE, OP_GREATER, OP_LESS
<1> HIDE DEF Pass
<1>3. ASSUME NEW n \in 1 .. 6
      PROVE  StringColumnFilter(n, ref, value) <=> Pass(n)
    <2>1. Abs(n) = n
        BY AbsType
    <2> QED BY <1>1, <2>1
<1>4. /\ StringColumnFilter(1, ref, value) <=> Pass(1)
      /\ StringColumnFilter(2, ref, value) <=> Pass(2)
      /\ StringColumnFilter(3, ref, value) <=> Pass(3)
      /\ StringColumnFilter(4, ref, value) <=> Pass(4)
      /\ StringColumnFilter(5, ref, value) <=> Pass(5)
      /\ StringColumnFilter(6, ref, value) <=> Pass(6)
    BY <1>3
<1>5. /\ StringColumnFilter(-5, ref, value) <=> ~StringColumnFilter(5, ref, value)
      /\ StringColumnFilter(-6, ref, value) <=> ~StringColumnFilter(6, ref, value)
    BY StringFlips
<1>6. /\ ~(value > ref) <=> value <= ref
      /\ ~(value < ref) <=> value >= ref
    OBVIOUS
<1> QED BY <1>2, <1>4, <1>5, <1>6

LEMMA StringsCompared ==
    ASSUME NEW ref \in Int, NEW value \in Int
    PROVE  Compared("string", ref, value)
<1>1. \A opid : Accepts("string", opid, ref, value) = StringColumnFilter(opid, ref, value)
    BY DEF Accepts
<1>2. Below("string", value, ref) <=> value < ref
    BY DEF Below
<1>3. /\ StringColumnFilter(1, ref, value) <=> value = ref
      /\ StringColumnFilter(5, ref, value) <=> value > ref
      /\ StringColumnFilter(-5, ref, value) <=> value <= ref
      /\ StringColumnFilter(6, ref, value) <=> value < ref
      /\ StringColumnFilter(-6, ref, value) <=> value >= ref
    BY StringOperators
<1> QED BY <1>1, <1>2, <1>3 DEF Compared

LEMMA MillionType == Million \in Nat \ {0}
BY DEF Million

\* Microseconds are less than a second, so that pairs are ordered as the times are.
LEMMA PairOrder ==
    ASSUME NEW M \in Nat \ {0}, NEW a \in Int, NEW c \in Int,
           NEW b \in 0 .. M - 1, NEW d \in 0 .. M - 1
    PROVE  a * M + b < c * M + d <=> a < c \/ (a = c /\ b < d)
<1>1. ASSUME NEW x \in Int, NEW y \in Int, x < y
      PROVE  x * M + M <= y * M
    <2>1. (y - x - 1) * M >= 0
        BY <1>1
    <2>2. (y - x - 1) * M = y * M - x * M - M
        OBVIOUS
    <2> QED BY <2>1, <2>2
<1>2. CASE a < c
    <2>1. a * M + M <= c * M
        BY <1>1, <1>2
    <2> QED BY <1>2, <2>1
<1>3. CASE c < a
    <2>1. c * M + M <= a * M
        BY <1>1, <1>3
    <2> QED BY <1>3, <2>1
<1> QED BY <1>2, <1>3

LEMMA TimesCompared ==
    ASSUME NEW ref \in Times, NEW value \in Times
    PROVE  Compared("timeval", ref, value)
<1>1. PICK a \in Int, b \in 0 .. Million - 1, c \in Int, d \in 0 .. Million - 1 :
        value = <<a, b>> /\ ref = <<c, d>>
    BY DEF Times
<1>2. /\ value[1] = a /\ value[2] = b /\ ref[1] = c /\ ref[2] = d
      /\ value = ref <=> a = c /\ b = d
    BY <1>1
<1>3. Later(ref, value) <=> a < c \/ (a = c /\ b < d)
    BY <1>2 DEF Later
<1>4. Later(value, ref) <=> c < a \/ (a = c /\ d < b)
    BY <1>2 DEF Later
<1>5. Below("timeval", value, ref) <=> a < c \/ (a = c /\ b < d)
    <2>1. Below("timeval", value, ref) <=> a * Million + b < c * Million + d
        BY <1>2 DEF Below
    <2> QED BY <2>1, MillionType, PairOrder
<1>6. \A opid : Accepts("timeval", opid, ref, value) = TimeValColumnFilter(opid, ref, value)
    BY DEF Accepts
<1>7. /\ TimeValColumnFilter(1, ref, value) <=> value = ref
      /\ TimeValColumnFilter(5, ref, value) <=> Later(value, ref)
      /\ TimeValColumnFilter(-5, ref, value) <=> ~Later(value, ref)
      /\ TimeValColumnFilter(6, ref, value) <=> Later(ref, value)
      /\ TimeValColumnFilter(-6, ref, value) <=> ~Later(ref, value)
    BY AbsOperators DEF TimeValColumnFilter, Negated, OP_EQUAL, OP_GREATER, OP_LESS
<1>8. ~Later(value, ref) <=> Later(ref, value) \/ value = ref
    BY <1>2, <1>3, <1>4
<1>9. Below("timeval", value, ref) <=> Later(ref, value)
    BY <1>3, <1>5
<1> QED BY <1>6, <1>7, <1>8, <1>9 DEF Compared

\* A set of bits as a number.
Number(bits) == (IF 0 \in bits THEN 1 ELSE 0) + (IF 1 \in bits THEN 2 ELSE 0)

LEMMA NumberOrder ==
    ASSUME NEW a \in SUBSET Attributes, NEW b \in SUBSET Attributes
    PROVE  /\ Number(a) \in Int
           /\ Number(a) = Number(b) <=> a = b
           /\ Below("attributes", a, b) <=> Number(a) < Number(b)
<1>1. ASSUME 0 \in a <=> 0 \in b, 1 \in a <=> 1 \in b
      PROVE  a = b
    <2>1. \A x : x \in a <=> x \in b
        BY <1>1 DEF Attributes
    <2> QED BY <2>1
<1>2. Below("attributes", a, b) <=>
        \/ 0 \in b /\ 0 \notin a /\ ~(1 \in a /\ 1 \notin b)
        \/ 1 \in b /\ 1 \notin a
    <2>1. Below("attributes", a, b) <=> \E n \in b \ a : \A m \in a \ b : m < n
        BY DEF Below
    <2>2. \A n \in b \ a : n = 0 \/ n = 1
        BY DEF Attributes
    <2>3. \A m \in a \ b : m = 0 \/ m = 1
        BY DEF Attributes
    <2> QED BY <2>1, <2>2, <2>3
<1> QED BY <1>1, <1>2 DEF Number

LEMMA AttributesCompared ==
    ASSUME NEW ref \in SUBSET Attributes, NEW value \in SUBSET Attributes
    PROVE  Compared("attributes", ref, value)
<1>1. \A opid : Accepts("attributes", opid, ref, value) = AttributelistFilter(opid, ref, value)
    BY DEF Accepts
<1>2. /\ AttributelistFilter(1, ref, value) <=> value = ref
      /\ AttributelistFilter(5, ref, value) <=> Number(value) > Number(ref)
      /\ AttributelistFilter(-5, ref, value) <=> ~(Number(value) > Number(ref))
      /\ AttributelistFilter(6, ref, value) <=> Number(value) < Number(ref)
      /\ AttributelistFilter(-6, ref, value) <=> ~(Number(value) < Number(ref))
    BY AbsOperators DEF AttributelistFilter, Number, Negated, OP_EQUAL, OP_GREATER, OP_LESS,
        OP_REGEX, OP_REGEX_ICASE
<1>3. /\ Below("attributes", value, ref) <=> Number(value) < Number(ref)
      /\ Number(value) = Number(ref) <=> value = ref
      /\ Number(value) \in Int /\ Number(ref) \in Int
    BY NumberOrder
<1>4. ~(Number(value) > Number(ref)) <=> Number(value) < Number(ref) \/ value = ref
    BY <1>3
<1> QED BY <1>1, <1>2, <1>3, <1>4 DEF Compared

\* The signs that strings have besides.
LEMMA TextAgrees ==
    ASSUME NEW ref \in Int, NEW text \in Int, NEW sign \in Comparisons \cup {"=~", "~", "~~"}
    PROVE  SaidOfText(sign, ref, text)
             <=> StringColumnFilter(LookupOperator(FALSE, sign), ref, text)
<1>1. /\ StringColumnFilter(2, ref, text) <=> text \in Matching[FALSE][ref]
      /\ StringColumnFilter(3, ref, text) <=> Lower[text] = Lower[ref]
      /\ StringColumnFilter(4, ref, text) <=> text \in Matching[TRUE][ref]
    BY StringOperators
<1>2. CASE sign = "=~"
    <2>1. LookupOperator(FALSE, sign) = 3
        BY <1>2, Operators
    <2> QED BY <1>1, <1>2, <2>1 DEF SaidOfText
<1>3. CASE sign = "~"
    <2>1. LookupOperator(FALSE, sign) = 2
        BY <1>3, Operators
    <2> QED BY <1>1, <1>3, <2>1 DEF SaidOfText
<1>4. CASE sign = "~~"
    <2>1. LookupOperator(FALSE, sign) = 4
        BY <1>4, Operators
    <2> QED BY <1>1, <1>4, <2>1 DEF SaidOfText
<1>5. CASE sign \in Comparisons
    <2>1. SaidOfText(sign, ref, text) <=> Compares(sign, Below("string", text, ref), text = ref)
        BY <1>5 DEF SaidOfText, Comparisons
    <2>2. \A opid : Accepts("string", opid, ref, text) = StringColumnFilter(opid, ref, text)
        BY DEF Accepts
    <2>3. Compares(sign, Below("string", text, ref), text = ref)
            <=> Accepts("string", LookupOperator(FALSE, sign), ref, text)
        BY <1>5, StringsCompared, ComparesAgree
    <2> QED BY <2>1, <2>2, <2>3
<1> QED BY <1>2, <1>3, <1>4, <1>5

\* Without a negation, a column that is no set accepts what its operator says.
LEMMA PlainAgrees ==
    ASSUME NEW kind \in Kinds \ Sets, NEW sign, NEW ref, NEW value,
           Implemented(kind, sign, ref), Reference(kind, ref),
           kind \in Numbers \cup {"string"} => value \in Int,
           kind = "timeval" => value \in Times,
           kind = "attributes" => value \subseteq Attributes,
           kind = "dict" => \A v \in DOMAIN value : value[v] \in Int
    PROVE  Said(kind, sign, ref, value) <=> Accepts(kind, LookupOperator(FALSE, sign), ref, value)
<1>0. ASSUME sign \in Comparisons, Compared(kind, ref, value),
             kind \notin {"string", "dict"}
      PROVE  Said(kind, sign, ref, value) <=> Accepts(kind, LookupOperator(FALSE, sign), ref, value)
    <2>1. Said(kind, sign, ref, value) <=> Compares(sign, Below(kind, value, ref), value = ref)
        BY <1>0 DEF Said, Comparisons
    <2> QED BY <1>0, <2>1, ComparesAgree
<1>1. CASE kind \in Numbers
    <2>1. sign \in Comparisons
        BY <1>1 DEF Implemented, Numbers
    <2>2. Compared(kind, ref, value)
        BY <1>1, NumbersCompared DEF Reference
    <2> QED BY <1>0, <1>1, <2>1, <2>2 DEF Numbers
<1>2. CASE kind = "timeval"
    <2>1. sign \in Comparisons
        BY <1>2 DEF Implemented
    <2>2. Compared(kind, ref, value)
        BY <1>2, TimesCompared DEF Reference
    <2> QED BY <1>0, <1>2, <2>1, <2>2
<1>3. CASE kind = "string"
    <2>1. sign \in Comparisons \cup {"=~", "~", "~~"}
        BY <1>3 DEF Implemented
    <2>2. Said(kind, sign, ref, value) <=> SaidOfText(sign, ref, value)
        BY <1>3 DEF Said, Sets, Lists
    <2>3. \A opid : Accepts(kind, opid, ref, value) = StringColumnFilter(opid, ref, value)
        BY <1>3 DEF Accepts
    <2>4. ref \in Int /\ value \in Int
        BY <1>3 DEF Reference
    <2> QED BY <2>1, <2>2, <2>3, <2>4, TextAgrees
<1>4. CASE kind = "attributes"
    <2>1. sign \in Comparisons \cup {"~", "~~"}
        BY <1>4 DEF Implemented
    <2>2. ref \in SUBSET Attributes /\ value \in SUBSET Attributes
        BY <1>4 DEF Reference
    <2>3. CASE sign \in Comparisons
        BY <1>0, <1>4, <2>2, <2>3, AttributesCompared
    <2>4. \A opid : Accepts(kind, opid, ref, value) = AttributelistFilter(opid, ref, value)
        BY <1>4 DEF Accepts
    <2>5. /\ AttributelistFilter(2, ref, value) <=> ref \subseteq value
          /\ AttributelistFilter(4, ref, value) <=> ref \cap value # {}
        BY AbsType DEF AttributelistFilter, Negated, OP_EQUAL, OP_REGEX, OP_REGEX_ICASE,
            OP_GREATER, OP_LESS
    <2>6. CASE sign = "~"
        <3>1. LookupOperator(FALSE, sign) = 2
            BY <2>6, Operators
        <3>2. Said(kind, sign, ref, value) <=> ref \subseteq value
            BY <1>4, <2>6 DEF Said, Sets, Lists
        <3> QED BY <2>4, <2>5, <3>1, <3>2
    <2>7. CASE sign = "~~"
        <3>1. LookupOperator(FALSE, sign) = 4
            BY <2>7, Operators
        <3>2. Said(kind, sign, ref, value) <=> ref \cap value # {}
            BY <1>4, <2>7 DEF Said, Sets, Lists
        <3> QED BY <2>4, <2>5, <3>1, <3>2
    <2> QED BY <2>1, <2>3, <2>6, <2>7
<1>5. CASE kind = "dict"
    <2>1. sign \in Comparisons \cup {"=~", "~", "~~"}
        BY <1>5 DEF Implemented
    <2>2. Said(kind, sign, ref, value) <=> SaidOfText(sign, ref[2], GetVariable(value, ref[1]))
        BY <1>5 DEF Said, Sets, Lists, GetVariable
    <2>3. \A opid : Accepts(kind, opid, ref, value)
                        = StringColumnFilter(opid, ref[2], GetVariable(value, ref[1]))
        BY <1>5 DEF Accepts, CustomVarsFilter
    <2>4. ref[2] \in Int /\ GetVariable(value, ref[1]) \in Int
        BY <1>5 DEF Reference, GetVariable
    <2> QED BY <2>1, <2>2, <2>3, <2>4, TextAgrees
<1> QED BY <1>1, <1>2, <1>3, <1>4, <1>5 DEF Kinds

LEMMA ContainsIs ==
    ASSUME NEW empty \in BOOLEAN, NEW member \in BOOLEAN, NEW value
    PROVE  /\ Contains(-6, empty, member, value) <=> member
           /\ Contains(6, empty, member, value) <=> ~member
           /\ empty => (Contains(1, empty, member, value) <=> value = {})
           /\ empty => (Contains(-1, empty, member, value) <=> value # {})
BY AbsType DEF Contains, OP_EQUAL, OP_LESS

\* A list that is asked for a member or for being empty, negated or not.
ListAgrees(kind, ref, value) ==
    /\ Accepts(kind, -6, ref, value) <=> Member(kind, ref, value)
    /\ Accepts(kind, 6, ref, value) <=> ~Member(kind, ref, value)
    /\ kind \in Lists /\ IsEmpty(kind, ref) => (Accepts(kind, 1, ref, value) <=> value = {})
    /\ kind \in Lists /\ IsEmpty(kind, ref) => (Accepts(kind, -1, ref, value) <=> value # {})

\* Services are found by their names, of which a reference without a separator
\* has none.
LEMMA ServiceFound ==
    ASSUME NEW ref \in Seq(Nat) \ {<<>>}, NEW name \in ServiceNames
    PROVE  /\ name[1] = ServiceRef(TRUE, ref)[1] /\ name[2] = ServiceRef(TRUE, ref)[2]
                <=> name = ref
           /\ name = ServiceRef(TRUE, ref) <=> name = ref
<1>1. PICK a \in Nat \ {0}, b \in Nat \ {0} : name = <<a, b>>
    BY DEF ServiceNames
<1>2. CASE Len(ref) = 2
    <2>1. ref = <<ref[1], ref[2]>>
        BY <1>2
    <2>2. ServiceRef(TRUE, ref) = ref
        BY <1>2 DEF ServiceRef
    <2> QED BY <1>1, <2>1, <2>2
<1>3. CASE Len(ref) # 2
    <2>1. ServiceRef(TRUE, ref) = <<0, 0>> /\ name # ref
        BY <1>1, <1>3 DEF ServiceRef
    <2>2. name[1] # ServiceRef(TRUE, ref)[1] /\ name # ServiceRef(TRUE, ref)
        <3>1. name[1] = a /\ a # 0
            BY <1>1
        <3>2. ServiceRef(TRUE, ref)[1] = 0
            <4>1. <<0, 0>>[1] = 0
                OBVIOUS
            <4> QED BY <2>1, <4>1
        <3> QED BY <3>1, <3>2
    <2> QED BY <2>1, <2>2
<1> QED BY <1>2, <1>3

LEMMA ListsAgree ==
    ASSUME NEW kind \in Sets, NEW ref, NEW value, Reference(kind, ref),
           kind = "services" => value \subseteq ServiceNames,
           kind = "dependencies" => \A d \in value : d.master \in ServiceNames
    PROVE  ListAgrees(kind, ref, value)
<1>0. ASSUME NEW empty \in BOOLEAN, NEW member \in BOOLEAN,
             \A opid \in {-6, 6, -1, 1} : Accepts(kind, opid, ref, value) <=> Contains(opid, empty, member, value),
             Member(kind, ref, value) <=> member, IsEmpty(kind, ref) => empty
      PROVE  ListAgrees(kind, ref, value)
    BY <1>0, ContainsIs DEF ListAgrees
<1>1. CASE kind = "hosts"
    <2> DEFINE empty == ref = 0
               member == ref \in value
    <2>1. \A opid : Accepts(kind, opid, ref, value) = Contains(opid, empty, member, value)
        BY <1>1 DEF Accepts, HostlistColumnFilter
    <2>2. Member(kind, ref, value) <=> member
        BY <1>1 DEF Member
    <2>3. IsEmpty(kind, ref) => empty
        BY <1>1 DEF IsEmpty
    <2>4. empty \in BOOLEAN /\ member \in BOOLEAN
        OBVIOUS
    <2> HIDE DEF member, empty
    <2> QED BY <1>0, <2>1, <2>2, <2>3, <2>4
<1>2. CASE kind = "masters"
    <2> DEFINE empty == ref = 0
               member == \E d \in value : d.master = ref
    <2>1. \A opid : Accepts(kind, opid, ref, value) = Contains(opid, empty, member, value)
        BY <1>2 DEF Accepts, HostlistDependencyColumnFilter
    <2>2. Member(kind, ref, value) <=> member
        BY <1>2 DEF Member
    <2>3. IsEmpty(kind, ref) => empty
        BY <1>2 DEF IsEmpty
    <2>4. empty \in BOOLEAN /\ member \in BOOLEAN
        OBVIOUS
    <2> HIDE DEF member, empty
    <2> QED BY <1>0, <2>1, <2>2, <2>3, <2>4
<1>3. CASE kind = "services"
    <2> DEFINE found == ServiceRef(TRUE, ref)
               empty == found[1] = 0
               member == \E s \in value : s[1] = found[1] /\ s[2] = found[2]
    <2>1. \A opid : Accepts(kind, opid, ref, value) = Contains(opid, empty, member, value)
        BY <1>3 DEF Accepts, ServicelistColumnFilter
    <2>2. Member(kind, ref, value) <=> member
        <3>1. ref \in Seq(Nat) \ {<<>>} /\ value \subseteq ServiceNames
            BY <1>3 DEF Reference
        <3>2. Member(kind, ref, value) <=> ref \in value
            BY <1>3 DEF Member
        <3> QED BY <3>1, <3>2, ServiceFound
    <2>3. IsEmpty(kind, ref) => empty
        BY <1>3 DEF IsEmpty, ServiceRef, Reference
    <2>4. empty \in BOOLEAN /\ member \in BOOLEAN
        OBVIOUS
    <2> HIDE DEF member, empty
    <2> QED BY <1>0, <2>1, <2>2, <2>3, <2>4
<1>4. CASE kind = "descriptions"
    <2> DEFINE member == \E s \in value : s[2] = ref[1]
    <2>1. \A opid : Accepts(kind, opid, ref, value) = Contains(opid, TRUE, member, value)
        BY <1>4 DEF Accepts, ServicelistColumnFilter, ServiceRef
    <2>2. Member(kind, ref, value) <=> member
        BY <1>4 DEF Member
    <2>3. member \in BOOLEAN
        OBVIOUS
    <2> HIDE DEF member
    <2> QED BY <1>0, <2>1, <2>2, <2>3
<1>5. CASE kind = "dependencies"
    <2> DEFINE found == ServiceRef(TRUE, ref)
               empty == found[2] = 0
               member == \E d \in value : d.master = found
    <2>1. \A opid : Accepts(kind, opid, ref, value) = Contains(opid, empty, member, value)
        BY <1>5 DEF Accepts, ServicelistDependencyColumnFilter
    <2>2. Member(kind, ref, value) <=> member
        <3>1. ref \in Seq(Nat) \ {<<>>} /\ \A d \in value : d.master \in ServiceNames
            BY <1>5 DEF Reference
        <3>2. Member(kind, ref, value) <=> \E d \in value : d.master = ref
            BY <1>5 DEF Member
        <3> QED BY <3>1, <3>2, ServiceFound
    <2>3. IsEmpty(kind, ref) => empty
        BY <1>5 DEF IsEmpty, ServiceRef, Reference
    <2>4. empty \in BOOLEAN /\ member \in BOOLEAN
        OBVIOUS
    <2> HIDE DEF member, empty
    <2> QED BY <1>0, <2>1, <2>2, <2>3, <2>4
<1>6. CASE kind = "list"
    <2>1. \A opid : Accepts(kind, opid, ref, value) = ListColumnFilter(opid, ref, value)
        BY <1>6 DEF Accepts
    <2>2. /\ ListColumnFilter(-6, ref, value) <=> ref \in value
          /\ ListColumnFilter(6, ref, value) <=> ref \notin value
          /\ ref = 0 => (ListColumnFilter(1, ref, value) <=> value = {})
          /\ ref = 0 => (ListColumnFilter(-1, ref, value) <=> value # {})
        BY AbsType DEF ListColumnFilter, OP_EQUAL, OP_LESS
    <2> QED BY <1>6, <2>1, <2>2 DEF ListAgrees, Member, IsEmpty
<1>7. CASE kind \in {"names", "values"}
    <2> DEFINE member == ContainsVariable(kind, value, ref)
    <2>1. /\ Accepts(kind, -6, ref, value) <=> member
          /\ Accepts(kind, 6, ref, value) <=> ~member
        <3>1. \A opid : Accepts(kind, opid, ref, value) <=> (Abs(opid) = 6 => member = (opid < 0))
            BY <1>7 DEF Accepts, CustomVarsFilter, OP_LESS
        <3>2. member \in BOOLEAN
            BY DEF ContainsVariable
        <3>3. Abs(-6) = 6 /\ Abs(6) = 6
            BY AbsType
        <3> HIDE DEF member
        <3> QED BY <3>1, <3>2, <3>3
    <2>2. Member(kind, ref, value) <=> member
        BY <1>7 DEF Member, ContainsVariable
    <2> QED BY <1>7, <2>1, <2>2 DEF ListAgrees, Lists
<1> QED BY <1>1, <1>2, <1>3, <1>4, <1>5, <1>6, <1>7 DEF Sets, Lists

-----------------------------------------------------------------------------
\* Without an offset, times are not moved.
LEMMA LocalizedIs ==
    ASSUME NEW kind, NEW ref, Reference(kind, ref),
           timezone = 0 \/ kind \notin {"time", "timeval"}
    PROVE  Localized(kind, ref) = ref
<1>1. CASE kind = "time"
    <2>1. ref \in Int
        BY <1>1 DEF Reference, Numbers
    <2> QED BY <1>1, <2>1 DEF Localized
<1>2. CASE kind = "timeval"
    <2>1. PICK a \in Int, b \in 0 .. Million - 1 : ref = <<a, b>>
        BY <1>2 DEF Reference, Times
    <2> QED BY <1>2, <2>1 DEF Localized
<1>3. CASE kind \notin {"time", "timeval"}
    BY <1>3 DEF Localized
<1> QED BY <1>1, <1>2, <1>3

\* Every operator that is implemented for a kind of column accepts what it says.
LEMMA MeaningAgrees ==
    ASSUME NEW h, h.column \in Columns, h.sign \in Operator, h.not \in BOOLEAN,
           Reference(Kind[h.column], h.ref), ~Shifts(h), NEW r \in Rows
    PROVE  Meaning(h, Value[r][h.column])
             <=> Accepts(Kind[h.column], LookupOperator(h.not, h.sign), h.ref, Value[r][h.column])
<1> DEFINE kind == Kind[h.column]
           value == Value[r][h.column]
           ref == h.ref
           sign == h.sign
           accepts(opid) == Accepts(kind, opid, ref, value)
           said == Said(kind, sign, ref, value)
<1>1. /\ kind \in Kinds
      /\ kind \in Numbers \cup {"string"} => value \in Int
      /\ kind = "timeval" => value \in Times
      /\ kind = "attributes" => value \subseteq Attributes
      /\ kind = "dict" => \A v \in DOMAIN value : value[v] \in Int
      /\ kind = "services" => value \subseteq ServiceNames
      /\ kind = "dependencies" => \A d \in value : d.master \in ServiceNames
    BY ValuesAssumption
<1>2. CASE ~Implemented(kind, sign, ref)
    BY <1>2 DEF Meaning
<1>3. CASE Implemented(kind, sign, ref)
    <2>0. Localized(kind, ref) = ref
        BY LocalizedIs DEF Shifts
    <2>1. Meaning(h, value) <=> IF h.not THEN ~said ELSE said
        BY <1>3, <2>0 DEF Meaning
    <2>2. CASE kind \notin Sets
        <3>1. said <=> accepts(LookupOperator(FALSE, sign))
            BY <1>1, <1>3, <2>2, PlainAgrees
        <3>2. \A n \in 1 .. 6 : accepts(-n) <=> ~accepts(n)
            BY <1>1, <2>2, NegatedFlips
        <3>3. accepts(LookupOperator(TRUE, sign)) <=> ~accepts(LookupOperator(FALSE, sign))
            <4>1. /\ accepts(-1) <=> ~accepts(1)
                  /\ accepts(-2) <=> ~accepts(2)
                  /\ accepts(-3) <=> ~accepts(3)
                  /\ accepts(-4) <=> ~accepts(4)
                  /\ accepts(-5) <=> ~accepts(5)
                  /\ accepts(-6) <=> ~accepts(6)
                BY <3>2
            <4> HIDE DEF accepts
            <4>2. CASE sign = "="
                <5>1. LookupOperator(TRUE, "=") = -1 /\ LookupOperator(FALSE, "=") = 1
                    BY Operators
                <5> QED BY <4>1, <4>2, <5>1
            <4>3. CASE sign = "~"
                <5>1. LookupOperator(TRUE, "~") = -2 /\ LookupOperator(FALSE, "~") = 2
                    BY Operators
                <5> QED BY <4>1, <4>3, <5>1
            <4>4. CASE sign = "=~"
                <5>1. LookupOperator(TRUE, "=~") = -3 /\ LookupOperator(FALSE, "=~") = 3
                    BY Operators
                <5> QED BY <4>1, <4>4, <5>1
            <4>5. CASE sign = "~~"
                <5>1. LookupOperator(TRUE, "~~") = -4 /\ LookupOperator(FALSE, "~~") = 4
                    BY Operators
                <5> QED BY <4>1, <4>5, <5>1
            <4>6. CASE sign = ">"
                <5>1. LookupOperator(TRUE, ">") = -5 /\ LookupOperator(FALSE, ">") = 5
                    BY Operators
                <5> QED BY <4>1, <4>6, <5>1
            <4>7. CASE sign = "<"
                <5>1. LookupOperator(TRUE, "<") = -6 /\ LookupOperator(FALSE, "<") = 6
                    BY Operators
                <5> QED BY <4>1, <4>7, <5>1
            <4>8. CASE sign = ">="
                <5>1. LookupOperator(TRUE, ">=") = 6 /\ LookupOperator(FALSE, ">=") = -6
                    BY Operators
                <5> QED BY <4>1, <4>8, <5>1
            <4>9. CASE sign = "<="
                <5>1. LookupOperator(TRUE, "<=") = 5 /\ LookupOperator(FALSE, "<=") = -5
                    BY Operators
                <5> QED BY <4>1, <4>9, <5>1
            <4> QED BY <4>2, <4>3, <4>4, <4>5, <4>6, <4>7, <4>8, <4>9 DEF Operator, Signs
        <3> QED BY <2>1, <3>1, <3>3
    <2>3. CASE kind \in Sets
        <3> DEFINE member == Member(kind, ref, value)
        <3>1. /\ accepts(-6) <=> member
              /\ accepts(6) <=> ~member
              /\ kind \in Lists /\ IsEmpty(kind, ref) => (accepts(1) <=> value = {})
              /\ kind \in Lists /\ IsEmpty(kind, ref) => (accepts(-1) <=> value # {})
            BY <1>1, <2>3, ListsAgree DEF ListAgrees
        <3>2. CASE sign = ">="
            <4>1. said <=> member
                BY <2>3, <3>2 DEF Said, Sets, Lists, Numbers
            <4> QED BY <2>1, <3>1, <3>2, <4>1, Operators
        <3>3. CASE sign = "<"
            <4>1. said <=> ~member
                BY <2>3, <3>3 DEF Said, Sets, Lists, Numbers
            <4> QED BY <2>1, <3>1, <3>3, <4>1, Operators
        <3>4. CASE sign = "=" /\ kind \in Lists /\ IsEmpty(kind, ref)
            <4>1. said <=> value = {}
                BY <2>3, <3>4 DEF Said, Sets, Lists, Numbers
            <4> QED BY <2>1, <3>1, <3>4, <4>1, Operators
        <3>5. sign \in {"<", ">="} \/ (sign = "=" /\ kind \in Lists /\ IsEmpty(kind, ref))
            BY <1>3, <2>3 DEF Implemented, Sets, Lists
        <3> QED BY <3>2, <3>3, <3>4, <3>5
    <2> QED BY <2>2, <2>3
<1> QED BY <1>2, <1>3

-----------------------------------------------------------------------------
(* Filters of columns                                                      *)

\* A filter that says nothing of times and classes is sound.
LEMMA PlainSound ==
    ASSUME NEW A \in SUBSET Rows
    PROVE  Filter(A) \in SoundFilters
<1>1. Filter(A) \in FilterType
    BY DEF Filter, FilterType, Identity, Keys
<1>2. MaskKept(Filter(A))
    BY FiltersAssumption DEF MaskKept, Filter
<1>3. TimesKept(Filter(A))
    BY DEF TimesKept, Filter, Identity
<1>4. KeyKept(Filter(A))
    BY DEF KeyKept, Filter
<1> QED BY <1>1, <1>2, <1>3, <1>4 DEF SoundFilters

\* An operator is a small number.
LEMMA OperatorType ==
    ASSUME NEW not \in BOOLEAN, NEW sign \in Signs
    PROVE  LookupOperator(not, sign) \in -6 .. 6
<1> DEFINE opid ==
        CASE sign = "="  -> OP_EQUAL       [] sign = "~"  -> OP_REGEX
          [] sign = "=~" -> OP_EQUAL_ICASE [] sign = "~~" -> OP_REGEX_ICASE
          [] sign = ">"  -> OP_GREATER     [] sign = "<"  -> OP_LESS
          [] sign = ">=" -> -OP_LESS       [] sign = "<=" -> -OP_GREATER
          [] OTHER       -> OP_INVALID
<1>1. opid \in -6 .. 6
    BY DEF OP_EQUAL, OP_REGEX, OP_EQUAL_ICASE, OP_REGEX_ICASE, OP_GREATER, OP_LESS, OP_INVALID
<1>2. LookupOperator(not, sign) = IF not THEN -opid ELSE opid
    BY DEF LookupOperator
<1> HIDE DEF opid
<1> QED BY <1>1, <1>2

\* An interval stays one.
LEMMA TimeLimitsType ==
    ASSUME NEW opid \in -6 .. 6, NEW ref \in 0 .. MaxTime - 1, NEW i \in Intervals
    PROVE  TimeLimits(opid, ref, i) \in Intervals
BY WidthAssumption DEF TimeLimits, Intervals, OP_EQUAL, OP_GREATER, OP_LESS

\* A time that passes the filter and was in the interval stays in it.
LEMMA TimeLimitsKeep ==
    ASSUME NEW opid \in -6 .. 6, NEW ref \in 0 .. MaxTime - 1, NEW i \in Intervals,
           NEW t \in 0 .. MaxTime - 1, Within(t, i), TimeColumnFilter(opid, ref, t)
    PROVE  Within(t, TimeLimits(opid, ref, i))
<1> USE WidthAssumption DEF TimeLimits, TimeColumnFilter, Ordered, Negated, Abs, Within, Intervals,
        OP_EQUAL, OP_GREATER, OP_LESS
<1>1. CASE opid = 1
    BY <1>1
<1>2. CASE opid = -1
    BY <1>2
<1>3. CASE opid = 5
    BY <1>3
<1>4. CASE opid = -5
    BY <1>4
<1>5. CASE opid = 6
    BY <1>5
<1>6. CASE opid = -6
    BY <1>6
<1>7. CASE opid \notin {1, -1, 5, -5, 6, -6}
    BY <1>7
<1> QED BY <1>1, <1>2, <1>3, <1>4, <1>5, <1>6, <1>7

\* A number that passes the filter keeps its bit.
LEMMA BitsKeptKeep ==
    ASSUME NEW opid \in -6 .. 6, NEW ref \in Int, NEW b \in Bits, IntColumnFilter(opid, ref, b)
    PROVE  b \in BitsKept(opid, ref)
<1> USE WidthAssumption DEF BitsKept, IntColumnFilter, Ordered, Negated, Abs,
        OP_EQUAL, OP_GREATER, OP_LESS
<1>1. CASE ref \notin Bits
    BY <1>1
<1> SUFFICES ASSUME ref \in Bits PROVE b \in BitsKept(opid, ref)
    BY <1>1
<1>2. CASE opid = 1
    BY <1>2 DEF Bits
<1>3. CASE opid = -1
    BY <1>3 DEF Bits
<1>4. CASE opid = 5
    BY <1>4 DEF Bits
<1>5. CASE opid = -5
    BY <1>5 DEF Bits
<1>6. CASE opid = 6
    BY <1>6 DEF Bits
<1>7. CASE opid = -6
    BY <1>7 DEF Bits
<1>8. CASE opid \notin {1, -1, 5, -5, 6, -6}
    BY <1>8
<1> QED BY <1>2, <1>3, <1>4, <1>5, <1>6, <1>7, <1>8

\* A row that passes a filter with a key has the key.
LEMMA KeyHolds ==
    ASSUME NEW column, NEW opid, NEW ref, NEW r, Accepts(Kind[column], opid, ref, Value[r][column]),
           (Kind[column] = "string" /\ opid = 1) \/ (Kind[column] = "list" /\ opid = -6)
    PROVE  Holds(r, column, ref)
<1> USE AbsType DEF Holds, OP_EQUAL, OP_LESS, Negated
<1>1. CASE Kind[column] = "string" /\ opid = 1
    <2>1. Accepts("string", 1, ref, Value[r][column]) <=> Value[r][column] = ref
        BY DEF Accepts, StringColumnFilter, Abs, OP_EQUAL_ICASE, OP_REGEX, OP_REGEX_ICASE, OP_GREATER
    <2> QED BY <1>1, <2>1
<1>2. CASE Kind[column] = "list" /\ opid = -6
    <2>1. Accepts("list", -6, ref, Value[r][column]) <=> ref \in Value[r][column]
        BY DEF Accepts, ListColumnFilter
    <2> QED BY <1>2, <2>1
<1> QED BY <1>1, <1>2

\* A filter has no query when it converts its reference value.
LEMMA AcceptingIs ==
    ASSUME NEW h
    PROVE  Accepting(h) = {r \in Rows : Accepts(Kind[h.column], LookupOperator(h.not, h.sign),
                                                h.ref, Value[r][h.column])}
BY DEF Accepting, ConvertRefValue, HasQuery

\* Whatever else it knows, the filter of a column accepts what its operator does.
LEMMA ColumnAccepts ==
    ASSUME NEW h
    PROVE  ColumnFilter(h).accepts = Accepting(h)
<1>1. \A opid : /\ TimeFilter(h, opid).accepts = Accepting(h)
                /\ ClassFilter(h, opid).accepts = Accepting(h)
    BY DEF TimeFilter, ClassFilter, Filter
<1>2. KeyFilter(h).accepts = Accepting(h) /\ Filter(Accepting(h)).accepts = Accepting(h)
    BY DEF KeyFilter, Filter
<1> QED BY <1>1, <1>2 DEF ColumnFilter

LEMMA ColumnSound ==
    ASSUME NEW h \in Headers, h.does = "column", h.column \in Columns
    PROVE  ColumnFilter(h) \in SoundFilters
<1> DEFINE opid == LookupOperator(h.not, h.sign)
           A == Accepting(h)
           f == Filter(A)
<1>1. opid \in -6 .. 6
    BY HeadersAssumption, OperatorType
<1>2. f \in SoundFilters
    BY PlainSound DEF Accepting
<1>a. ASSUME NEW r \in A
      PROVE  r \in Rows /\ Accepts(Kind[h.column], opid, h.ref, Value[r][h.column])
    BY AcceptingIs
<1> HIDE DEF opid
<1>3. CASE h.column = "time"
    <2> DEFINE g == TimeFilter(h, opid)
    <2>0. g = [f EXCEPT !.limits = LimitsOf(opid, h.ref)]
        BY DEF TimeFilter, ConvertRefValue, HasQuery
    <2>1. ColumnFilter(h) = g
        BY <1>3, FiltersAssumption DEF ColumnFilter, opid
    <2>2. h.ref \in 0 .. MaxTime - 1
        BY <1>3, HeadersAssumption
    <2>3. LimitsOf(opid, h.ref) \in [Intervals -> Intervals]
        BY <1>1, <2>2, TimeLimitsType DEF LimitsOf
    <2>4. g \in FilterType
        BY <1>2, <2>0, <2>3 DEF SoundFilters, FilterType
    <2>5. g.accepts = A /\ g.keep = Bits
        BY <2>0 DEF Filter
    <2>6. \A i \in Intervals : g.limits[i] = TimeLimits(opid, h.ref, i)
        BY <2>0 DEF Filter, LimitsOf
    <2>7. MaskKept(g)
        BY <1>a, <2>5, FiltersAssumption DEF MaskKept
    <2>8. ASSUME NEW r \in A, NEW i \in Intervals, Within(Value[r]["time"], i)
          PROVE  Within(Value[r]["time"], TimeLimits(opid, h.ref, i))
        <3>1. TimeColumnFilter(opid, h.ref, Value[r]["time"])
            BY <1>3, <1>a, FiltersAssumption DEF Accepts
        <3>2. Value[r]["time"] \in 0 .. MaxTime - 1
            BY <1>a, FiltersAssumption
        <3> QED BY <1>1, <2>2, <2>8, <3>1, <3>2, TimeLimitsKeep
    <2>9. TimesKept(g)
        BY <2>5, <2>6, <2>8 DEF TimesKept
    <2>10. KeyKept(g)
        BY <2>0 DEF KeyKept, Filter
    <2> QED BY <2>1, <2>4, <2>7, <2>9, <2>10 DEF SoundFilters
<1>4. CASE h.column = "class"
    <2> DEFINE g == ClassFilter(h, opid)
    <2>1. ColumnFilter(h) = g
        BY <1>4, FiltersAssumption DEF ColumnFilter, opid
    <2>2. h.ref \in Int
        BY <1>4, HeadersAssumption, FiltersAssumption DEF Reference, Numbers
    <2>3. BitsKept(opid, h.ref) \in SUBSET Bits /\ Optimized(opid, h.ref) \in BOOLEAN
        BY DEF BitsKept, Optimized
    <2>4. g \in FilterType
        BY <1>2, <2>3 DEF SoundFilters, FilterType, ClassFilter
    <2>5. g.accepts = A /\ g.keep = BitsKept(opid, h.ref)
        BY DEF Filter, ClassFilter
    <2>6. \A i \in Intervals : g.limits[i] = i
        BY DEF Filter, Identity, ClassFilter
    <2>7. ASSUME NEW r \in A
          PROVE  Value[r]["class"] \in BitsKept(opid, h.ref)
        <3>1. IntColumnFilter(opid, h.ref, Value[r]["class"])
            BY <1>4, <1>a, FiltersAssumption DEF Accepts
        <3>2. Value[r]["class"] \in Bits
            BY <1>a, FiltersAssumption
        <3> QED BY <1>1, <2>2, <3>1, <3>2, BitsKeptKeep
    <2>8. MaskKept(g)
        BY <2>5, <2>7 DEF MaskKept
    <2>9. TimesKept(g)
        BY <2>6 DEF TimesKept
    <2>10. KeyKept(g)
        BY DEF KeyKept, Filter, ClassFilter
    <2> QED BY <2>1, <2>4, <2>8, <2>9, <2>10 DEF SoundFilters
<1>5. CASE h.column \notin {"time", "class"}
    <2> DEFINE g == KeyFilter(h)
               keyed == \/ Kind[h.column] = "string" /\ opid = 1
                        \/ Kind[h.column] = "list" /\ opid = -6
    <2>1. ColumnFilter(h) = IF keyed THEN g ELSE f
        BY <1>5 DEF ColumnFilter, opid, OP_EQUAL, OP_LESS
    <2>2. <<h.column, h.ref>> \in Keys
        BY DEF Keys
    <2>3. g \in FilterType
        BY <1>2, <2>2 DEF SoundFilters, FilterType, KeyFilter
    <2>4. g.accepts = f.accepts /\ g.keep = f.keep /\ g.limits = f.limits /\ g.ored = f.ored
        BY DEF Filter, KeyFilter
    <2>5. MaskKept(g) /\ TimesKept(g)
        BY <1>2, <2>4 DEF SoundFilters, MaskKept, TimesKept
    <2>6. g.key = <<h.column, h.ref>> /\ g.accepts = A
        BY DEF Filter, KeyFilter
    <2>7. keyed => KeyKept(g)
        <3>1. ASSUME keyed, NEW r \in A PROVE Holds(r, h.column, h.ref)
            BY <1>a, <3>1, KeyHolds
        <3> QED BY <2>6, <3>1 DEF KeyKept
    <2> QED BY <1>2, <2>1, <2>3, <2>5, <2>7 DEF SoundFilters
<1> QED BY <1>3, <1>4, <1>5

LEMMA HeaderMeans ==
    ASSUME NEW h \in Headers \cup Samples, h.does = "column", h.column \in Columns,
           LookupOperator(h.not, h.sign) # OP_INVALID, ~Shifts(h)
    PROVE  ColumnFilter(h).accepts = {r \in Rows : Meaning(h, Value[r][h.column])}
<1>1. h.sign \in Signs /\ h.not \in BOOLEAN /\ Reference(Kind[h.column], h.ref)
    BY HeadersAssumption
<1>2. h.sign \in Operator
    BY <1>1, Operators DEF Operator, OP_INVALID
<1>3. \A r \in Rows : Meaning(h, Value[r][h.column]) <=>
            Accepts(Kind[h.column], LookupOperator(h.not, h.sign), h.ref, Value[r][h.column])
    BY <1>1, <1>2, MeaningAgrees
<1> QED BY <1>3, ColumnAccepts, AcceptingIs

-----------------------------------------------------------------------------
(* Filters of filters                                                      *)

\* What is said of neither times nor classes may change.
LEMMA SameSound ==
    ASSUME NEW f \in SoundFilters, NEW g \in FilterType,
           g.accepts = f.accepts, g.limits = f.limits, g.keep = f.keep, g.ored = f.ored,
           g.key = f.key
    PROVE  g \in SoundFilters
BY DEF SoundFilters, MaskKept, TimesKept, KeyKept

LEMMA AggregateSound == [Filter(Rows) EXCEPT !.count = FALSE] \in SoundFilters
<1> DEFINE g == [Filter(Rows) EXCEPT !.count = FALSE]
<1>1. Filter(Rows) \in SoundFilters
    BY PlainSound
<1>2. g \in FilterType
    BY <1>1 DEF SoundFilters, FilterType
<1>3. /\ g.accepts = Filter(Rows).accepts /\ g.limits = Filter(Rows).limits
      /\ g.keep = Filter(Rows).keep /\ g.ored = Filter(Rows).ored /\ g.key = Filter(Rows).key
    BY DEF Filter
<1> QED BY <1>1, <1>2, <1>3, SameSound

\* A negation keeps every bit and every time.
LEMMA NegatingSound ==
    ASSUME NEW f \in SoundFilters
    PROVE  NegatingFilter(f) \in SoundFilters
<1> DEFINE p == Filter(Rows \ f.accepts)
           g == NegatingFilter(f)
<1>1. p \in SoundFilters
    BY PlainSound
<1>2. f.ored \in BOOLEAN
    BY DEF SoundFilters, FilterType
<1>3. g \in FilterType
    BY <1>1, <1>2 DEF NegatingFilter, SoundFilters, FilterType
<1>4. g.accepts = p.accepts /\ g.limits = p.limits /\ g.keep = p.keep /\ ~p.ored
    BY DEF NegatingFilter, Filter
<1>5. MaskKept(g) /\ TimesKept(g)
    BY <1>1, <1>4 DEF SoundFilters, MaskKept, TimesKept
<1>6. KeyKept(g)
    BY DEF KeyKept, NegatingFilter, Filter
<1> QED BY <1>3, <1>5, <1>6 DEF SoundFilters

\* Without subfilters, an And accepts everything and an Or nothing.
LEMMA CombinationSound ==
    ASSUME NEW kind \in {"And", "Or"}
    PROVE  /\ Combination(kind) \in SoundFilters
           /\ kind = "Or" => Combination(kind).ored
           /\ Combination(kind).key = NoKey
           /\ Combination(kind).accepts = IF kind = "And" THEN Rows ELSE {}
<1>1. CASE kind = "And"
    <2>1. Filter(Rows).key = NoKey /\ Filter(Rows).accepts = Rows
        BY DEF Filter
    <2> QED BY <1>1, <2>1, PlainSound DEF Combination
<1>2. CASE kind = "Or"
    <2> DEFINE g == Combination(kind)
    <2>1. g = [Filter({}) EXCEPT !.masked = TRUE, !.keep = {}, !.ored = TRUE]
        BY <1>2 DEF Combination
    <2>2. Filter({}) \in FilterType
        BY PlainSound DEF SoundFilters
    <2>3. g \in FilterType
        BY <2>1, <2>2 DEF FilterType
    <2>4. g.accepts = {} /\ g.ored /\ g.key = NoKey
        BY <2>1 DEF Filter
    <2> QED BY <1>2, <2>3, <2>4 DEF SoundFilters, MaskKept, TimesKept, KeyKept
<1> QED BY <1>1, <1>2

\* A subfilter may only take bits and times away from an And, and only add bits to
\* an Or, of whose times nothing is said.
LEMMA AddSubfilterSound ==
    ASSUME NEW kind \in {"And", "Or"}, NEW g \in SoundFilters, NEW f \in SoundFilters,
           kind = "Or" => g.ored, g.key = NoKey
    PROVE  /\ AddSubfilter(kind, g, f) \in SoundFilters
           /\ kind = "Or" => AddSubfilter(kind, g, f).ored
           /\ AddSubfilter(kind, g, f).key = NoKey
<1> DEFINE h == AddSubfilter(kind, g, f)
<1>1. g \in FilterType /\ f \in FilterType /\ MaskKept(g) /\ MaskKept(f)
      /\ TimesKept(g) /\ TimesKept(f)
    BY DEF SoundFilters
<1>2. /\ h.accepts = IF kind = "And" THEN g.accepts \cap f.accepts ELSE g.accepts \cup f.accepts
      /\ h.limits = [i \in Intervals |-> f.limits[g.limits[i]]]
      /\ h.keep = IF kind = "And" THEN g.keep \cap f.keep
                  ELSE IF f.masked THEN g.keep \cup f.keep ELSE Bits
      /\ h.ored = (g.ored \/ f.ored)
      /\ h.key = NoKey
    BY <1>1 DEF AddSubfilter, FilterType
<1>3. h \in FilterType
    <2>1. PICK accepts, limits, masked, keep, ored :
            /\ accepts = IF kind = "And" THEN g.accepts \cap f.accepts ELSE g.accepts \cup f.accepts
            /\ limits = [i \in Intervals |-> f.limits[g.limits[i]]]
            /\ masked = IF kind = "And" THEN g.masked \/ f.masked ELSE g.masked /\ f.masked
            /\ keep = IF kind = "And" THEN g.keep \cap f.keep
                      ELSE IF f.masked THEN g.keep \cup f.keep ELSE Bits
            /\ ored = (g.ored \/ f.ored)
        OBVIOUS
    <2>2. h = [g EXCEPT !.accepts = accepts, !.limits = limits, !.masked = masked,
                        !.keep = keep, !.ored = ored]
        BY <2>1 DEF AddSubfilter
    <2> HIDE DEF h
    <2>3. accepts \in SUBSET Rows /\ keep \in SUBSET Bits
        BY <1>1, <2>1 DEF FilterType
    <2>4. limits \in [Intervals -> Intervals]
        BY <1>1, <2>1 DEF FilterType
    <2>5. masked \in BOOLEAN /\ ored \in BOOLEAN
        BY <1>1, <2>1 DEF FilterType
    <2> QED BY <1>1, <2>2, <2>3, <2>4, <2>5 DEF FilterType
<1>4. MaskKept(h)
    <2> SUFFICES ASSUME NEW r \in h.accepts PROVE Value[r]["class"] \in h.keep
        BY DEF MaskKept
    <2>1. r \in Rows
        BY <1>3 DEF FilterType
    <2>2. Value[r]["class"] \in Bits
        BY <2>1, FiltersAssumption
    <2>3. CASE kind = "And"
        BY <1>1, <1>2, <2>3 DEF MaskKept
    <2>4. CASE kind = "Or"
        BY <1>1, <1>2, <2>2, <2>4 DEF MaskKept
    <2> QED BY <2>3, <2>4
<1>5. TimesKept(h)
    <2> SUFFICES ASSUME ~h.ored, NEW r \in h.accepts, NEW i \in Intervals,
                        Within(Value[r]["time"], i)
                 PROVE  Within(Value[r]["time"], h.limits[i])
        BY DEF TimesKept
    <2>1. kind = "And" /\ ~g.ored /\ ~f.ored
        BY <1>2
    <2>2. r \in g.accepts /\ r \in f.accepts
        BY <1>2, <2>1
    <2>3. g.limits[i] \in Intervals /\ Within(Value[r]["time"], g.limits[i])
        BY <1>1, <2>1, <2>2 DEF TimesKept, FilterType
    <2>4. Within(Value[r]["time"], f.limits[g.limits[i]])
        BY <1>1, <2>1, <2>2, <2>3 DEF TimesKept
    <2> QED BY <1>2, <2>4
<1>6. KeyKept(h)
    BY <1>2 DEF KeyKept
<1> QED BY <1>2, <1>3, <1>4, <1>5, <1>6 DEF SoundFilters

-----------------------------------------------------------------------------
(* Stacks                                                                  *)

LEMMA PushSound ==
    ASSUME stack \in [Stacks -> Seq(SoundFilters)], NEW s \in Stacks, NEW f \in SoundFilters,
           Push(s, f)
    PROVE  stack' \in [Stacks -> Seq(SoundFilters)]
BY DEF Push

LEMMA LastSound ==
    ASSUME NEW q \in Seq(SoundFilters), EndsCounting(q)
    PROVE  Last(q) \in SoundFilters /\ Front(q) \in Seq(SoundFilters)
<1>1. q # <<>>
    BY DEF EndsCounting
<1>2. Len(q) \in Nat \ {0} /\ \A n \in 1 .. Len(q) : q[n] \in SoundFilters
    BY <1>1
<1> QED BY <1>2 DEF Last, Front

-----------------------------------------------------------------------------
(* The invariant                                                           *)

LEMMA InitInv == Init => IInv
BY DEF Init, IInv

\* What is put on a stack by a header is sound.
LEMMA ColumnLineInv ==
    ASSUME IInv, ParseColumnLine
    PROVE  IInv'
<1>1. PICK h \in Header("column") :
        /\ h.column \in Columns /\ Read(h) /\ Push(h.stack, ColumnFilter(h))
        /\ making' = making
    BY DEF ParseColumnLine
<1>2. h \in Headers /\ h.does = "column" /\ h.stack \in Stacks
    BY HeadersAssumption DEF Header
<1>3. ColumnFilter(h) \in SoundFilters
    BY <1>1, <1>2, ColumnSound
<1>4. stack' \in [Stacks -> Seq(SoundFilters)]
    BY <1>1, <1>2, <1>3, PushSound DEF IInv
<1> QED BY <1>1, <1>4 DEF IInv

LEMMA UnknownColumnInv ==
    ASSUME IInv, ParseUnknownColumn
    PROVE  IInv'
<1>1. PICK h \in Header("column"), f \in EmptyFilters : Push(h.stack, f) /\ making' = making
    BY DEF ParseUnknownColumn
<1>2. h.stack \in Stacks
    BY HeadersAssumption DEF Header
<1>3. f \in SoundFilters
    BY PlainSound DEF EmptyFilters
<1>4. stack' \in [Stacks -> Seq(SoundFilters)]
    BY <1>1, <1>2, <1>3, PushSound DEF IInv
<1> QED BY <1>1, <1>4 DEF IInv

LEMMA AggregateInv ==
    ASSUME IInv, ParseAggregate
    PROVE  IInv'
<1>1. PICK h \in Header("aggregate") :
        Push(h.stack, [Filter(Rows) EXCEPT !.count = FALSE]) /\ making' = making
    BY DEF ParseAggregate
<1>2. h.stack \in Stacks
    BY HeadersAssumption DEF Header
<1>3. stack' \in [Stacks -> Seq(SoundFilters)]
    BY <1>1, <1>2, AggregateSound, PushSound DEF IInv
<1> QED BY <1>1, <1>3 DEF IInv

LEMMA AndOrLineInv ==
    ASSUME IInv, ParseAndOrLine
    PROVE  IInv'
<1>1. PICK h \in Header("And") \cup Header("Or") :
        /\ making' = [stack |-> h.stack, kind |-> h.does, left |-> h.count,
                      filter |-> Combination(h.does)]
        /\ stack' = stack
    BY DEF ParseAndOrLine
<1>2. h.stack \in Stacks /\ h.does \in {"And", "Or"} /\ h.count \in Nat
    BY HeadersAssumption DEF Header
<1>3. /\ Combination(h.does) \in SoundFilters /\ Combination(h.does).key = NoKey
      /\ h.does = "Or" => Combination(h.does).ored
    BY <1>2, CombinationSound
<1>4. making' \in Makings /\ making'.filter.key = NoKey /\ (making'.kind = "Or" => making'.filter.ored)
    BY <1>1, <1>2, <1>3 DEF Makings
<1> QED BY <1>1, <1>4 DEF IInv

LEMMA TakeSubfilterInv ==
    ASSUME IInv, TakeSubfilter
    PROVE  IInv'
<1> DEFINE q == stack[making.stack]
           g == making.filter
<1>1. /\ making \in Makings /\ making.stack \in Stacks /\ making.kind \in {"And", "Or"}
      /\ g \in SoundFilters /\ (making.kind = "Or" => g.ored) /\ g.key = NoKey
      /\ making.left \in Nat \ {0} /\ q \in Seq(SoundFilters)
    BY DEF IInv, TakeSubfilter, Makings
<1>2. Last(q) \in SoundFilters /\ Front(q) \in Seq(SoundFilters)
    BY <1>1, LastSound DEF TakeSubfilter
<1> DEFINE h == AddSubfilter(making.kind, g, Last(q))
<1>3. h \in SoundFilters /\ (making.kind = "Or" => h.ored) /\ h.key = NoKey
    BY <1>1, <1>2, AddSubfilterSound
<1>4. making' = [making EXCEPT !.left = @ - 1, !.filter = h]
    BY DEF TakeSubfilter
<1> HIDE DEF h
<1>5. making' \in Makings /\ making'.kind = making.kind /\ making'.filter = h
    <2>1. making.left - 1 \in Nat
        BY <1>1
    <2>2. making' = [stack |-> making.stack, kind |-> making.kind, left |-> making.left - 1,
                     filter |-> h]
        BY <1>1, <1>4 DEF Makings
    <2> QED BY <1>1, <1>3, <2>1, <2>2 DEF Makings
<1>6. stack' = [stack EXCEPT ![making.stack] = Front(q)]
    BY DEF TakeSubfilter
<1> HIDE DEF q
<1>7. stack' \in [Stacks -> Seq(SoundFilters)]
    BY <1>1, <1>2, <1>6 DEF IInv
<1> QED BY <1>3, <1>5, <1>7 DEF IInv

LEMMA CombineInv ==
    ASSUME IInv, Combine
    PROVE  IInv'
<1>1. making.stack \in Stacks /\ making.filter \in SoundFilters
    BY DEF IInv, Combine, Makings
<1>2. stack' \in [Stacks -> Seq(SoundFilters)]
    BY <1>1, PushSound DEF IInv, Combine
<1> QED BY <1>2 DEF IInv, Combine

LEMMA NegateLineInv ==
    ASSUME IInv, ParseNegateLine
    PROVE  IInv'
<1>1. PICK h \in Header("Negate") :
        /\ EndsCounting(stack[h.stack])
        /\ stack' = [stack EXCEPT ![h.stack] = Append(Front(@), NegatingFilter(Last(@)))]
        /\ making' = making
    BY DEF ParseNegateLine
<1> DEFINE q == stack[h.stack]
<1>2. h.stack \in Stacks /\ q \in Seq(SoundFilters)
    BY HeadersAssumption DEF Header, IInv
<1>3. Last(q) \in SoundFilters /\ Front(q) \in Seq(SoundFilters)
    BY <1>1, <1>2, LastSound
<1>4. NegatingFilter(Last(q)) \in SoundFilters
    BY <1>3, NegatingSound
<1>5. Append(Front(q), NegatingFilter(Last(q))) \in Seq(SoundFilters)
    BY <1>3, <1>4
<1>6. stack' \in [Stacks -> Seq(SoundFilters)]
    BY <1>1, <1>2, <1>5 DEF IInv
<1> QED BY <1>1, <1>6 DEF IInv

LEMMA StepInv == IInv /\ [Next]_vars => IInv'
<1> SUFFICES ASSUME IInv, [Next]_vars PROVE IInv'
    OBVIOUS
<1>1. CASE ParseInvalid
    BY <1>1 DEF ParseInvalid, IInv
<1>2. CASE TooFewStats
    BY <1>2 DEF TooFewStats, IInv
<1>3. CASE HeadersEnd
    BY <1>3 DEF HeadersEnd, IInv
<1>4. CASE AnswerLog
    BY <1>4 DEF AnswerLog, IInv
<1>5. CASE AnswerObjects
    BY <1>5 DEF AnswerObjects, IInv
<1>6. CASE UNCHANGED vars
    BY <1>6 DEF vars, IInv
<1>7. CASE ParseLocaltimeLine
    BY <1>7 DEF ParseLocaltimeLine, IInv
<1> QED
    BY <1>1, <1>2, <1>3, <1>4, <1>5, <1>6, <1>7, ColumnLineInv, UnknownColumnInv, AggregateInv,
       AndOrLineInv, TakeSubfilterInv, CombineInv, NegateLineInv DEF Next

LEMMA AllFiltersSound == IInv => AllFilters \subseteq SoundFilters
<1> SUFFICES ASSUME IInv, NEW f \in AllFilters PROVE f \in SoundFilters
    OBVIOUS
<1> DEFINE stacked == (UNION {{stack[s][n] : n \in DOMAIN stack[s]} : s \in Stacks})
           made == {m.filter : m \in {making} \ {Nothing}}
<1>1. AllFilters = stacked \cup made
    BY DEF AllFilters
<1>2. CASE f \in stacked
    <2>1. PICK s \in Stacks : f \in {stack[s][n] : n \in DOMAIN stack[s]}
        BY <1>2
    <2> QED BY <2>1 DEF IInv
<1>3. CASE f \in made
    <2>1. making # Nothing /\ f = making.filter
        BY <1>3
    <2> QED BY <2>1 DEF IInv, Makings
<1> HIDE DEF stacked, made
<1> QED BY <1>1, <1>2, <1>3

LEMMA Invariance == Spec => []IInv
BY InitInv, StepInv, PTL DEF Spec

-----------------------------------------------------------------------------
(* What the headers say                                                    *)

\* The rows that a combination of so many of the last filters of a stack accepts.
Combined(kind, f, q, l) ==
    IF kind = "And" THEN {r \in f.accepts : \A k \in Len(q) - l + 1 .. Len(q) : r \in q[k].accepts}
    ELSE f.accepts \cup UNION {q[k].accepts : k \in Len(q) - l + 1 .. Len(q)}

\* A stack accepts what was said.
Agree(q, m) ==
    /\ Len(q) = Len(m)
    /\ \A n \in 1 .. Len(q) : q[n].accepts = m[n]

\* A stack does so when the combination is finished that is being made of it.  If
\* there are too few filters for that, there will be an error.
AgreeSoon(q, m, l, kind, f) ==
    l <= Len(q) =>
        /\ Len(m) = Len(q) - l + 1
        /\ \A n \in 1 .. Len(q) - l : q[n].accepts = m[n]
        /\ m[Len(m)] = Combined(kind, f, q, l)

StackMeans(s) ==
    /\ making = Nothing => Agree(stack[s], meant[s])
    /\ making # Nothing =>
        IF s = making.stack
        THEN AgreeSoon(stack[s], meant[s], making.left, making.kind, making.filter)
        ELSE Agree(stack[s], meant[s])

\* No header was refused, and no time compared after a header Localtime.
Clean == ~error /\ ~shifted

MeantInv ==
    /\ IInv
    /\ meant \in [Stacks -> Seq(SUBSET Rows)]
    /\ Clean => \A s \in Stacks : StackMeans(s)

LEMMA InitMeant == Init => MeantInv
BY InitInv DEF Init, MeantInv, StackMeans, Agree

\* A filter is pushed with what it means.
LEMMA PushMeant ==
    ASSUME MeantInv, NEW s \in Stacks, NEW f \in SoundFilters, making = Nothing,
           IInv', Push(s, f), Means(s, f.accepts), making' = making, Clean' => Clean
    PROVE  MeantInv'
<1>1. f.accepts \in SUBSET Rows
    BY DEF SoundFilters, FilterType
<1>2. /\ stack \in [Stacks -> Seq(SoundFilters)] /\ meant \in [Stacks -> Seq(SUBSET Rows)]
      /\ stack' = [stack EXCEPT ![s] = Append(stack[s], f)]
      /\ meant' = [meant EXCEPT ![s] = Append(meant[s], f.accepts)]
    BY DEF MeantInv, IInv, Push, Means
<1>3. meant' \in [Stacks -> Seq(SUBSET Rows)]
    BY <1>1, <1>2
<1>4. ASSUME Clean, NEW t \in Stacks
      PROVE  Agree(stack'[t], meant'[t])
    <2>1. Agree(stack[t], meant[t])
        BY <1>4 DEF MeantInv, StackMeans
    <2>2. CASE t = s
        <3> DEFINE q == stack[s]
                   m == meant[s]
        <3>1. q \in Seq(SoundFilters) /\ m \in Seq(SUBSET Rows) /\ Agree(q, m)
            BY <1>2, <2>1, <2>2
        <3> HIDE DEF q, m
        <3>2. Agree(Append(q, f), Append(m, f.accepts))
            BY <1>1, <3>1 DEF Agree
        <3> QED BY <1>2, <2>2, <3>2 DEF q, m
    <2>3. CASE t # s
        BY <1>2, <2>1, <2>3
    <2> QED BY <2>2, <2>3
<1> QED BY <1>3, <1>4 DEF MeantInv, StackMeans

\* Once a time was compared while there was an offset, nothing more is claimed.
LEMMA ShiftedMeant ==
    ASSUME MeantInv, NEW s \in Stacks, NEW rows \in SUBSET Rows, IInv', Means(s, rows), ~Clean'
    PROVE  MeantInv'
<1>1. /\ meant \in [Stacks -> Seq(SUBSET Rows)]
      /\ meant' = [meant EXCEPT ![s] = Append(meant[s], rows)]
    BY DEF MeantInv, Means
<1>2. meant' \in [Stacks -> Seq(SUBSET Rows)]
    BY <1>1
<1> QED BY <1>2 DEF MeantInv

LEMMA ColumnLineMeant ==
    ASSUME MeantInv, ParseColumnLine
    PROVE  MeantInv'
<1>1. PICK h \in Header("column") :
        /\ h.column \in Columns /\ LookupOperator(h.not, h.sign) # OP_INVALID
        /\ Read(h) /\ Push(h.stack, ColumnFilter(h))
        /\ Means(h.stack, {r \in Rows : Meaning(h, Value[r][h.column])})
        /\ making' = making /\ error' = error /\ shifted' = (shifted \/ Shifts(h))
    BY DEF ParseColumnLine
<1>2. h \in Headers /\ h.does = "column" /\ h.stack \in Stacks
    BY HeadersAssumption DEF Header
<1>3. making = Nothing /\ IInv'
    BY <1>1, ColumnLineInv DEF Read, Reading, MeantInv
<1>4. CASE Shifts(h)
    <2>1. ~Clean'
        BY <1>1, <1>4 DEF Clean
    <2>2. {r \in Rows : Meaning(h, Value[r][h.column])} \in SUBSET Rows
        OBVIOUS
    <2> QED BY <1>1, <1>2, <1>3, <2>1, <2>2, ShiftedMeant
<1>5. CASE ~Shifts(h)
    <2>1. ColumnFilter(h) \in SoundFilters
        BY <1>1, <1>2, ColumnSound
    <2>2. Means(h.stack, ColumnFilter(h).accepts)
        BY <1>1, <1>2, <1>5, HeaderMeans
    <2>3. Clean' => Clean
        BY <1>1 DEF Clean
    <2> QED BY <1>1, <1>2, <1>3, <2>1, <2>2, <2>3, PushMeant
<1> QED BY <1>4, <1>5

LEMMA UnknownColumnMeant ==
    ASSUME MeantInv, ParseUnknownColumn
    PROVE  MeantInv'
<1>1. PICK h \in Header("column"), f \in EmptyFilters :
        /\ Read(h) /\ Push(h.stack, f) /\ Means(h.stack, f.accepts)
        /\ making' = making /\ Clean' = Clean
    BY DEF ParseUnknownColumn, localtime, Clean
<1>2. h.stack \in Stacks /\ f \in SoundFilters
    BY HeadersAssumption, PlainSound DEF Header, EmptyFilters
<1>3. making = Nothing /\ IInv'
    BY <1>1, UnknownColumnInv DEF Read, Reading, MeantInv
<1> QED BY <1>1, <1>2, <1>3, PushMeant

LEMMA AggregateMeant ==
    ASSUME MeantInv, ParseAggregate
    PROVE  MeantInv'
<1> DEFINE f == [Filter(Rows) EXCEPT !.count = FALSE]
<1>1. PICK h \in Header("aggregate") :
        /\ Read(h) /\ Push(h.stack, f) /\ Means(h.stack, Rows)
        /\ making' = making /\ Clean' = Clean
    BY DEF ParseAggregate, localtime, Clean
<1>2. h.stack \in Stacks /\ f \in SoundFilters /\ f.accepts = Rows
    BY HeadersAssumption, AggregateSound DEF Header, Filter
<1>3. making = Nothing /\ IInv'
    BY <1>1, AggregateInv DEF Read, Reading, MeantInv
<1> HIDE DEF f
<1> QED BY <1>1, <1>2, <1>3, PushMeant

\* The combination is announced: all of its filters are still on the stack.
LEMMA AndOrLineMeant ==
    ASSUME MeantInv, ParseAndOrLine
    PROVE  MeantInv'
<1>1. PICK h \in Header("And") \cup Header("Or") :
        LET s == h.stack
            n == Len(meant[s])
            taken == {meant[s][k] : k \in n - h.count + 1 .. n}
        IN
        /\ Read(h)
        /\ making' = [stack |-> s, kind |-> h.does, left |-> h.count, filter |-> Combination(h.does)]
        /\ meant' = IF h.count > n THEN meant
                    ELSE [meant EXCEPT ![s] = Append(SubSeq(meant[s], 1, n - h.count),
                            IF h.does = "Or" THEN UNION taken
                            ELSE {r \in Rows : \A rows \in taken : r \in rows})]
        /\ stack' = stack /\ error' = error /\ shifted' = shifted
    BY DEF ParseAndOrLine, localtime
<1>0. Clean' = Clean
    BY <1>1 DEF Clean
<1>2. h.stack \in Stacks /\ h.does \in {"And", "Or"} /\ h.count \in Nat
    BY HeadersAssumption DEF Header
<1>3. making = Nothing /\ IInv' /\ making' # Nothing
    BY <1>1, AndOrLineInv DEF Read, Reading, MeantInv, Nothing
<1> DEFINE s == h.stack
           l == h.count
           m == meant[s]
           q == stack[s]
           taken == {m[k] : k \in Len(m) - l + 1 .. Len(m)}
           said == IF h.does = "Or" THEN UNION taken
                   ELSE {r \in Rows : \A rows \in taken : r \in rows}
           new == Append(SubSeq(m, 1, Len(m) - l), said)
<1>4. m \in Seq(SUBSET Rows) /\ q \in Seq(SoundFilters) /\ l \in Nat
    BY <1>2 DEF MeantInv, IInv
<1>5. Clean => Agree(q, m)
    BY <1>2, <1>3 DEF MeantInv, StackMeans
<1>6. meant' = IF l > Len(m) THEN meant ELSE [meant EXCEPT ![s] = new]
    BY <1>1
<1>7. l <= Len(m) => /\ new \in Seq(SUBSET Rows)
                     /\ Len(new) = Len(m) - l + 1
                     /\ \A n \in 1 .. Len(m) - l : new[n] = m[n]
                     /\ new[Len(m) - l + 1] = said
    <2> SUFFICES ASSUME l <= Len(m)
                 PROVE  /\ new \in Seq(SUBSET Rows)
                        /\ Len(new) = Len(m) - l + 1
                        /\ \A n \in 1 .. Len(m) - l : new[n] = m[n]
                        /\ new[Len(m) - l + 1] = said
        OBVIOUS
    <2>1. \A rows \in taken : rows \in SUBSET Rows
        BY <1>4
    <2>2. said \in SUBSET Rows
        BY <2>1
    <2>3. /\ SubSeq(m, 1, Len(m) - l) \in Seq(SUBSET Rows)
          /\ Len(SubSeq(m, 1, Len(m) - l)) = Len(m) - l
          /\ \A n \in 1 .. Len(m) - l : SubSeq(m, 1, Len(m) - l)[n] = m[n]
        BY <1>4
    <2> HIDE DEF said
    <2> QED BY <1>4, <2>2, <2>3
<1>8. meant' \in [Stacks -> Seq(SUBSET Rows)]
    BY <1>2, <1>6, <1>7 DEF MeantInv
<1>9. making'.stack = s /\ making'.kind = h.does /\ making'.left = l
      /\ making'.filter = Combination(h.does)
    BY <1>1
<1>10. ASSUME Clean, l <= Len(q)
       PROVE  new[Len(new)] = Combined(h.does, Combination(h.does), q, l)
    <2>1. Len(q) = Len(m) /\ \A k \in Len(q) - l + 1 .. Len(q) : q[k].accepts = m[k]
        BY <1>4, <1>5, <1>10 DEF Agree
    <2>2. new[Len(new)] = said
        BY <1>4, <1>7, <1>10, <2>1
    <2>3. taken = {q[k].accepts : k \in Len(q) - l + 1 .. Len(q)}
        BY <2>1
    <2>4. CASE h.does = "And"
        <3>1. said = {r \in Rows : \A k \in Len(q) - l + 1 .. Len(q) : r \in q[k].accepts}
            BY <2>3, <2>4
        <3>2. Combination(h.does).accepts = Rows
            BY <2>4, CombinationSound
        <3> QED BY <2>2, <2>4, <3>1, <3>2 DEF Combined
    <2>5. CASE h.does = "Or"
        BY <2>2, <2>3, <2>5, CombinationSound DEF Combined
    <2> QED BY <1>2, <2>4, <2>5
<1>11. ASSUME Clean, NEW t \in Stacks
       PROVE  StackMeans(t)'
    <2>1. CASE t = s
        <3> SUFFICES ASSUME l <= Len(q)
                     PROVE  /\ Len(meant'[s]) = Len(q) - l + 1
                            /\ \A n \in 1 .. Len(q) - l : q[n].accepts = meant'[s][n]
                            /\ meant'[s][Len(meant'[s])] = Combined(h.does, Combination(h.does), q, l)
            BY <1>1, <1>3, <1>9, <2>1 DEF StackMeans, AgreeSoon
        <3>1. Len(q) = Len(m) /\ \A k \in 1 .. Len(q) : q[k].accepts = m[k]
            BY <1>5, <1>11 DEF Agree
        <3>a. Len(m) \in Nat
            BY <1>4
        <3> HIDE DEF new
        <3>2. meant'[s] = new
            <4>1. ~(l > Len(m))
                BY <1>4, <3>1, <3>a
            <4>2. meant' = [meant EXCEPT ![s] = new]
                BY <1>6, <4>1
            <4> QED BY <1>2, <4>2 DEF MeantInv
        <3> HIDE DEF q, m
        <3> QED BY <1>4, <1>7, <1>10, <1>11, <3>1, <3>2, <3>a
    <2>2. CASE t # s
        <3>1. Agree(stack[t], meant[t])
            BY <1>3, <1>11 DEF MeantInv, StackMeans
        <3>2. stack'[t] = stack[t] /\ meant'[t] = meant[t]
            BY <1>1, <1>6, <2>2 DEF MeantInv
        <3> QED BY <1>3, <1>9, <2>2, <3>1, <3>2 DEF StackMeans
    <2> QED BY <2>1, <2>2
<1> QED BY <1>0, <1>1, <1>3, <1>8, <1>11 DEF MeantInv


LEMMA AddAccepts ==
    ASSUME NEW kind, NEW g \in SoundFilters, NEW f
    PROVE  AddSubfilter(kind, g, f).accepts =
                IF kind = "And" THEN g.accepts \cap f.accepts ELSE g.accepts \cup f.accepts
<1>1. g \in FilterType
    BY DEF SoundFilters
<1> QED BY <1>1 DEF AddSubfilter, FilterType

\* What a combination will accept stays the same when it takes the last filter.
LEMMA AgreeTakes ==
    ASSUME NEW kind \in {"And", "Or"}, NEW f, NEW g, NEW p \in Seq(SoundFilters),
           NEW q \in Seq(SoundFilters), NEW m, NEW l \in Nat \ {0}, Len(p) = Len(q) - 1,
           \A k \in 1 .. Len(q) - 1 : p[k] = q[k],
           g.accepts = IF kind = "And" THEN f.accepts \cap q[Len(q)].accepts
                       ELSE f.accepts \cup q[Len(q)].accepts,
           AgreeSoon(q, m, l, kind, f)
    PROVE  AgreeSoon(p, m, l - 1, kind, g)
<1> SUFFICES ASSUME l - 1 <= Len(p)
             PROVE  /\ Len(m) = Len(p) - (l - 1) + 1
                    /\ \A n \in 1 .. Len(p) - (l - 1) : p[n].accepts = m[n]
                    /\ m[Len(m)] = Combined(kind, g, p, l - 1)
    BY DEF AgreeSoon
<1>1. l <= Len(q) /\ Len(p) - (l - 1) = Len(q) - l
    OBVIOUS
<1>2. /\ Len(m) = Len(q) - l + 1
      /\ \A n \in 1 .. Len(q) - l : q[n].accepts = m[n]
      /\ m[Len(m)] = Combined(kind, f, q, l)
    BY <1>1 DEF AgreeSoon
<1>3. \A n \in 1 .. Len(q) - l : p[n] = q[n]
    BY <1>1
<1>4. Combined(kind, g, p, l - 1) = Combined(kind, f, q, l)
    <2> DEFINE old == Len(q) - l + 1 .. Len(q)
               new == Len(p) - (l - 1) + 1 .. Len(p)
    <2>1. Len(q) \in Nat \ {0}
        BY <1>1
    <2>2. old = new \cup {Len(q)} /\ \A k \in new : p[k] = q[k]
        <3>1. Len(p) - (l - 1) + 1 = Len(q) - l + 1
            BY <2>1
        <3> QED BY <2>1, <3>1
    <2> HIDE DEF old, new
    <2>3. CASE kind = "And"
        <3>1. Combined(kind, g, p, l - 1) = {r \in g.accepts : \A k \in new : r \in p[k].accepts}
            BY <2>3 DEF Combined, new
        <3>2. Combined(kind, f, q, l) = {r \in f.accepts : \A k \in old : r \in q[k].accepts}
            BY <2>3 DEF Combined, old
        <3> QED BY <2>2, <2>3, <3>1, <3>2
    <2>4. CASE kind = "Or"
        <3>1. Combined(kind, g, p, l - 1) = g.accepts \cup UNION {p[k].accepts : k \in new}
            BY <2>4 DEF Combined, new
        <3>2. Combined(kind, f, q, l) = f.accepts \cup UNION {q[k].accepts : k \in old}
            BY <2>4 DEF Combined, old
        <3>3. g.accepts = f.accepts \cup q[Len(q)].accepts
            BY <2>4
        <3>4. \A r : r \in UNION {q[k].accepts : k \in old}
                    <=> r \in UNION {p[k].accepts : k \in new} \/ r \in q[Len(q)].accepts
            BY <2>2
        <3> QED BY <3>1, <3>2, <3>3, <3>4
    <2> QED BY <2>3, <2>4
<1> QED BY <1>1, <1>2, <1>3, <1>4

LEMMA TakeSubfilterMeant ==
    ASSUME MeantInv, TakeSubfilter
    PROVE  MeantInv'
<1> DEFINE s == making.stack
           q == stack[s]
           l == making.left
           f == making.filter
           kind == making.kind
           g == AddSubfilter(kind, f, q[Len(q)])
           p == SubSeq(q, 1, Len(q) - 1)
<1>1. /\ s \in Stacks /\ q \in Seq(SoundFilters) /\ l \in Nat \ {0} /\ f \in SoundFilters
      /\ kind \in {"And", "Or"} /\ (kind = "Or" => f.ored) /\ f.key = NoKey
      /\ making \in Makings
    BY DEF MeantInv, IInv, TakeSubfilter, Makings
<1>2. q # <<>>
    BY DEF TakeSubfilter, EndsCounting
<1>3. making' = [making EXCEPT !.left = @ - 1, !.filter = g]
    BY DEF TakeSubfilter, Last
<1>4. stack' = [stack EXCEPT ![s] = p]
    BY DEF TakeSubfilter, Front
<1>5. IInv' /\ meant' = meant /\ Clean' = Clean /\ making # Nothing
    BY TakeSubfilterInv DEF MeantInv, TakeSubfilter, localtime, Clean
<1>a. g.accepts = IF kind = "And" THEN f.accepts \cap q[Len(q)].accepts
                  ELSE f.accepts \cup q[Len(q)].accepts
    <2>1. f \in SoundFilters
        BY <1>1
    <2> HIDE DEF f, kind
    <2>2. PICK top : top = q[Len(q)]
        OBVIOUS
    <2>3. PICK had \in SoundFilters : had = f
        BY <2>1
    <2>4. PICK header : header = kind
        OBVIOUS
    <2>5. AddSubfilter(header, had, top).accepts =
                IF header = "And" THEN had.accepts \cap top.accepts ELSE had.accepts \cup top.accepts
        <3>1. had \in FilterType
            BY DEF SoundFilters
        <3> QED BY ONLY <3>1 DEF AddSubfilter, FilterType
    <2> QED BY <2>2, <2>3, <2>4, <2>5
<1> HIDE DEF g
<1>6. making'.stack = s /\ making'.kind = kind /\ making'.left = l - 1 /\ making'.filter = g
      /\ making' # Nothing
    <2>1. making' = [stack |-> s, kind |-> kind, left |-> l - 1, filter |-> g]
        BY <1>1, <1>3 DEF Makings
    <2> QED BY <2>1 DEF Nothing
<1>7. ASSUME Clean, NEW t \in Stacks
      PROVE  StackMeans(t)'
    <2>1. CASE t = s
        <3>1. AgreeSoon(q, meant[s], l, kind, f)
            BY <1>1, <1>5, <1>7 DEF MeantInv, StackMeans
        <3>2. AgreeSoon(p, meant[s], l - 1, kind, g)
            <4>1. /\ q \in Seq(SoundFilters) /\ p \in Seq(SoundFilters) /\ l \in Nat \ {0}
                  /\ kind \in {"And", "Or"} /\ Len(p) = Len(q) - 1
                  /\ \A k \in 1 .. Len(q) - 1 : p[k] = q[k]
                BY <1>1, <1>2
            <4> HIDE DEF p, q, l, f, kind
            <4> QED BY <1>a, <3>1, <4>1, AgreeTakes
        <3>3. stack'[s] = p
            BY <1>1, <1>4 DEF MeantInv, IInv
        <3> QED BY <1>5, <1>6, <2>1, <3>2, <3>3 DEF StackMeans
    <2>2. CASE t # s
        <3>1. Agree(stack[t], meant[t])
            BY <1>5, <1>7, <2>2 DEF MeantInv, StackMeans
        <3>2. stack'[t] = stack[t]
            BY <1>4, <2>2
        <3> QED BY <1>5, <1>6, <2>2, <3>1, <3>2 DEF StackMeans
    <2> QED BY <2>1, <2>2
<1> QED BY <1>5, <1>7 DEF MeantInv

LEMMA CombineMeant ==
    ASSUME MeantInv, Combine
    PROVE  MeantInv'
<1> DEFINE s == making.stack
           q == stack[s]
           f == making.filter
           kind == making.kind
<1>1. /\ s \in Stacks /\ q \in Seq(SoundFilters) /\ making.left = 0 /\ f \in SoundFilters
      /\ kind \in {"And", "Or"} /\ making # Nothing
    BY DEF MeantInv, IInv, Combine, Makings
<1>2. stack' = [stack EXCEPT ![s] = Append(q, f)]
    BY DEF Combine, Push
<1>3. IInv' /\ meant' = meant /\ Clean' = Clean /\ making' = Nothing
    BY CombineInv DEF MeantInv, Combine, localtime, Clean
<1>4. ASSUME Clean, NEW t \in Stacks
      PROVE  Agree(stack'[t], meant[t])
    <2>1. CASE t = s
        <3> DEFINE m == meant[s]
        <3>1. AgreeSoon(q, m, 0, kind, f) /\ Len(q) \in Nat
            BY <1>1, <1>4 DEF MeantInv, StackMeans
        <3>2. Combined(kind, f, q, 0) = f.accepts
            <4>1. Len(q) - 0 + 1 .. Len(q) = {}
                BY <3>1
            <4> QED BY <1>1, <4>1 DEF Combined
        <3>3. stack'[s] = Append(q, f)
            BY <1>1, <1>2 DEF MeantInv, IInv
        <3> HIDE DEF m, q, f, kind
        <3>4. Len(m) = Len(q) + 1 /\ (\A n \in 1 .. Len(q) : q[n].accepts = m[n]) /\ m[Len(m)] = f.accepts
            BY <3>1, <3>2 DEF AgreeSoon
        <3>5. Agree(Append(q, f), m)
            BY <1>1, <3>1, <3>4 DEF Agree
        <3> QED BY <2>1, <3>3, <3>5 DEF m
    <2>2. CASE t # s
        BY <1>1, <1>2, <1>4, <2>2 DEF MeantInv, StackMeans
    <2> QED BY <2>1, <2>2
<1> QED BY <1>3, <1>4 DEF MeantInv, StackMeans

LEMMA NegateLineMeant ==
    ASSUME MeantInv, ParseNegateLine
    PROVE  MeantInv'
<1>1. PICK h \in Header("Negate") :
        /\ EndsCounting(stack[h.stack]) /\ Read(h)
        /\ stack' = [stack EXCEPT ![h.stack] = Append(Front(@), NegatingFilter(Last(@)))]
        /\ meant' = [meant EXCEPT ![h.stack] = Append(Front(@), Rows \ Last(@))]
        /\ making' = making /\ error' = error /\ shifted' = shifted
    BY DEF ParseNegateLine, localtime
<1>0. Clean' = Clean
    BY <1>1 DEF Clean
<1> DEFINE s == h.stack
           q == stack[s]
           m == meant[s]
           f == q[Len(q)]
<1>2. s \in Stacks /\ q \in Seq(SoundFilters) /\ m \in Seq(SUBSET Rows)
    BY HeadersAssumption DEF Header, MeantInv, IInv
<1>3. q # <<>> /\ making = Nothing /\ IInv'
    BY <1>1, NegateLineInv DEF EndsCounting, Read, Reading, MeantInv
<1>4. /\ stack' = [stack EXCEPT ![s] = Append(SubSeq(q, 1, Len(q) - 1), NegatingFilter(f))]
      /\ meant' = [meant EXCEPT ![s] = Append(SubSeq(m, 1, Len(m) - 1), Rows \ m[Len(m)])]
    BY <1>1 DEF Front, Last
<1>5. SubSeq(m, 1, Len(m) - 1) \in Seq(SUBSET Rows)
    BY <1>2
<1>6. meant' \in [Stacks -> Seq(SUBSET Rows)]
    <2>1. Append(SubSeq(m, 1, Len(m) - 1), Rows \ m[Len(m)]) \in Seq(SUBSET Rows)
        BY <1>5
    <2> QED BY <1>2, <1>4, <2>1 DEF MeantInv
<1>7. NegatingFilter(f).accepts = Rows \ f.accepts
    BY DEF NegatingFilter, Filter
<1>8. ASSUME Clean, NEW t \in Stacks
      PROVE  Agree(stack'[t], meant'[t])
    <2>1. Agree(stack[t], meant[t])
        BY <1>3, <1>8 DEF MeantInv, StackMeans
    <2>2. CASE t = s
        <3> DEFINE p == SubSeq(q, 1, Len(q) - 1)
                   o == SubSeq(m, 1, Len(m) - 1)
                   g == NegatingFilter(f)
                   rows == Rows \ m[Len(m)]
        <3>1. Len(q) \in Nat \ {0} /\ Len(m) = Len(q) /\ \A n \in 1 .. Len(q) : q[n].accepts = m[n]
            BY <1>2, <1>3, <2>1, <2>2 DEF Agree
        <3>2. /\ p \in Seq(SoundFilters) /\ Len(p) = Len(q) - 1 /\ \A n \in 1 .. Len(q) - 1 : p[n] = q[n]
              /\ Len(o) = Len(q) - 1 /\ \A n \in 1 .. Len(q) - 1 : o[n] = m[n]
            BY <1>2, <3>1
        <3>3. g.accepts = rows
            BY <1>7, <3>1
        <3>4. Agree(p, o)
            BY <3>1, <3>2 DEF Agree
        <3> HIDE DEF p, o, g, rows
        <3>5. o \in Seq(SUBSET Rows)
            BY <1>5 DEF o
        <3>6. Agree(Append(p, g), Append(o, rows))
            BY <3>2, <3>3, <3>4, <3>5 DEF Agree
        <3>7. stack'[s] = Append(p, g) /\ meant'[s] = Append(o, rows)
            BY <1>2, <1>4 DEF MeantInv, IInv, p, o, g, rows
        <3> QED BY <2>2, <3>6, <3>7
    <2>3. CASE t # s
        BY <1>1, <2>1, <2>3
    <2> QED BY <2>2, <2>3
<1> QED BY <1>0, <1>1, <1>3, <1>6, <1>8 DEF MeantInv, StackMeans

LEMMA StepMeant == MeantInv /\ [Next]_vars => MeantInv'
<1> SUFFICES ASSUME MeantInv, [Next]_vars PROVE MeantInv'
    OBVIOUS
<1>0. IInv'
    BY StepInv DEF MeantInv
<1>1. CASE ParseInvalid
    BY <1>0, <1>1 DEF ParseInvalid, MeantInv, Clean
<1>2. CASE TooFewStats
    BY <1>0, <1>2 DEF TooFewStats, MeantInv, Clean
<1>3. CASE ParseLocaltimeLine \/ HeadersEnd \/ AnswerLog \/ AnswerObjects \/ UNCHANGED vars
    <2>1. stack' = stack /\ making' = making /\ Clean' = Clean /\ meant' = meant
        BY <1>3 DEF ParseLocaltimeLine, HeadersEnd, AnswerLog, AnswerObjects, vars, localtime, Clean
    <2> QED BY <1>0, <2>1 DEF MeantInv, StackMeans
<1> QED
    BY <1>1, <1>2, <1>3, ColumnLineMeant, UnknownColumnMeant, AggregateMeant,
       AndOrLineMeant, TakeSubfilterMeant, CombineMeant, NegateLineMeant DEF Next

-----------------------------------------------------------------------------
(* What the tables make of the filters                                     *)

\* A set of numbers has a least one.
LEMMA Least ==
    ASSUME NEW T, T \subseteq Nat, T # {}
    PROVE  \E n \in T : \A m \in T : n <= m
<1>1. \E n \in T : \A m \in T : ~(<<m, n>> \in OpToRel(<, Nat))
    BY NatLessThanWellFounded, WFMin
<1>2. PICK n \in T : \A m \in T : ~(m < n)
    BY <1>1 DEF OpToRel
<1>3. \A m \in T : m \in Nat /\ n \in Nat
    OBVIOUS
<1> QED BY <1>2, <1>3

Whole == [lower |-> 0, upper |-> MaxTime]

\* One filter after the other makes the interval smaller.
Narrowing(q, m, after) ==
    after = [n \in 0 .. m |-> IF n = 0 THEN Whole ELSE q[n].limits[after[n - 1]]]

\* The recursion of Limits has a solution: there is no first number of filters
\* without one.
LEMMA NarrowingExists ==
    ASSUME NEW q \in Seq(SoundFilters)
    PROVE  \E after : Narrowing(q, Len(q), after)
<1> DEFINE Solved(m) == \E after \in [0 .. m -> Intervals] :
                            /\ after[0] = Whole
                            /\ \A n \in 1 .. m : after[n] = q[n].limits[after[n - 1]]
           Open == {m \in 0 .. Len(q) : ~Solved(m)}
<1>1. Whole \in Intervals
    BY WidthAssumption DEF Whole, Intervals
<1>2. Solved(0)
    <2> DEFINE after == [n \in 0 .. 0 |-> Whole]
    <2>1. after \in [0 .. 0 -> Intervals] /\ after[0] = Whole /\ 1 .. 0 = {}
        BY <1>1
    <2> HIDE DEF after
    <2> QED BY <2>1
<1>3. ASSUME NEW m \in 1 .. Len(q), Solved(m - 1)
      PROVE  Solved(m)
    <2>1. PICK f \in [0 .. m - 1 -> Intervals] :
                /\ f[0] = Whole
                /\ \A n \in 1 .. m - 1 : f[n] = q[n].limits[f[n - 1]]
        BY <1>3
    <2>2. q[m] \in FilterType
        BY DEF SoundFilters
    <2>3. f[m - 1] \in Intervals /\ q[m].limits[f[m - 1]] \in Intervals
        BY <2>2 DEF FilterType
    <2> DEFINE last == q[m].limits[f[m - 1]]
               after == [n \in 0 .. m |-> IF n < m THEN f[n] ELSE last]
    <2> HIDE DEF last
    <2>4. after \in [0 .. m -> Intervals]
        BY <2>3 DEF last
    <2>5. after[0] = Whole /\ \A n \in 1 .. m - 1 : after[n] = f[n] /\ after[n - 1] = f[n - 1]
        BY <2>1
    <2>6. after[m] = last /\ after[m - 1] = f[m - 1]
        OBVIOUS
    <2>7. \A n \in 1 .. m : n = m \/ n \in 1 .. m - 1
        OBVIOUS
    <2> HIDE DEF after
    <2>8. \A n \in 1 .. m : after[n] = q[n].limits[after[n - 1]]
        BY <2>1, <2>5, <2>6, <2>7 DEF last
    <2> QED BY <2>4, <2>5, <2>8
<1>4. Solved(Len(q))
    <2> HIDE DEF Solved
    <2>1. SUFFICES ASSUME ~Solved(Len(q)) PROVE FALSE
        OBVIOUS
    <2>2. Open \subseteq Nat /\ Len(q) \in Open
        BY <2>1
    <2>3. PICK m \in Open : \A n \in Open : m <= n
        BY <2>2, Least
    <2>4. m \in 1 .. Len(q) /\ m - 1 \in 0 .. Len(q) /\ ~(m <= m - 1) /\ ~Solved(m)
        <3>1. m # 0
            BY <1>2, <2>3
        <3> QED BY <2>2, <3>1
    <2>5. Solved(m - 1)
        BY <2>3, <2>4
    <2> QED BY <1>3, <2>4, <2>5
<1>5. PICK after \in [0 .. Len(q) -> Intervals] :
            /\ after[0] = Whole
            /\ \A n \in 1 .. Len(q) : after[n] = q[n].limits[after[n - 1]]
    BY <1>4
<1>6. \A n \in 0 .. Len(q) : n = 0 \/ n \in 1 .. Len(q)
    OBVIOUS
<1>7. \A n \in 0 .. Len(q) : after[n] = IF n = 0 THEN Whole ELSE q[n].limits[after[n - 1]]
    BY <1>5, <1>6
<1> QED BY <1>7 DEF Narrowing

LEMMA NarrowingIs ==
    ASSUME NEW q \in Seq(SoundFilters), NEW after, Narrowing(q, Len(q), after)
    PROVE  after[0] = Whole /\ \A n \in 1 .. Len(q) : after[n] = q[n].limits[after[n - 1]]
<1>1. Len(q) \in Nat
    OBVIOUS
<1>2. \A n \in 0 .. Len(q) : after[n] = IF n = 0 THEN Whole ELSE q[n].limits[after[n - 1]]
    BY DEF Narrowing
<1> QED BY <1>1, <1>2

\* The rows that every filter of the query accepts.
Asked == {r \in Rows : \A n \in DOMAIN Filters : r \in Filters[n].accepts}

\* The limits are an interval, and the time of a row that every filter accepts stays
\* within them, if none of the filters has an Or in it.
LEMMA LimitsKeep ==
    ASSUME IInv, NEW r
    PROVE  /\ Limits \in Intervals
           /\ r \in Asked /\ (\A n \in DOMAIN Filters : ~Filters[n].ored)
                => Within(Value[r]["time"], Limits)
<1> DEFINE q == Filters
           t == Value[r]["time"]
           passes == r \in Asked /\ (\A n \in DOMAIN Filters : ~Filters[n].ored)
           after == CHOOSE a : Narrowing(q, Len(q), a)
           Kept(n) == after[n] \in Intervals /\ (passes => Within(t, after[n]))
           Lost == {n \in 0 .. Len(q) : ~Kept(n)}
<1>1. q \in Seq(SoundFilters)
    BY DEF IInv, Filters, Stacks
<1>2. Narrowing(q, Len(q), after)
    BY <1>1, NarrowingExists
<1>3. Limits = after[Len(q)]
    BY DEF Limits, Narrowing, Whole
<1> HIDE DEF after
<1>4. after[0] = Whole /\ \A n \in 1 .. Len(q) : after[n] = q[n].limits[after[n - 1]]
    BY <1>1, <1>2, NarrowingIs
<1>5. Kept(0)
    BY <1>4, FiltersAssumption, WidthAssumption DEF Asked, Whole, Within, Intervals
<1>6. ASSUME NEW n \in 1 .. Len(q), Kept(n - 1)
      PROVE  Kept(n)
    <2>1. q[n] \in FilterType /\ TimesKept(q[n])
        BY <1>1 DEF SoundFilters
    <2>2. after[n] = q[n].limits[after[n - 1]]
        BY <1>4
    <2>3. q[n].limits[after[n - 1]] \in Intervals
        BY <1>6, <2>1 DEF FilterType
    <2>4. passes => Within(t, q[n].limits[after[n - 1]])
        <3>1. passes => ~q[n].ored /\ r \in q[n].accepts
            BY <1>1 DEF Asked
        <3> QED BY <1>6, <2>1, <3>1 DEF TimesKept
    <2> QED BY <2>2, <2>3, <2>4
<1>7. Kept(Len(q))
    <2> HIDE DEF Kept
    <2>1. SUFFICES ASSUME ~Kept(Len(q)) PROVE FALSE
        OBVIOUS
    <2>2. Lost \subseteq Nat /\ Len(q) \in Lost
        BY <1>1, <2>1
    <2>3. PICK n \in Lost : \A m \in Lost : n <= m
        BY <2>2, Least
    <2>4. n \in 1 .. Len(q) /\ n - 1 \in 0 .. Len(q) /\ ~(n <= n - 1) /\ ~Kept(n)
        <3>1. n # 0
            BY <1>5, <2>3
        <3> QED BY <1>1, <2>2, <3>1
    <2>5. Kept(n - 1)
        BY <2>3, <2>4
    <2> QED BY <1>6, <2>4, <2>5
<1> QED BY <1>3, <1>7

LEMMA LogAnswerAsked ==
    ASSUME IInv, AnswerLog, \A n \in DOMAIN Filters : ~Filters[n].ored
    PROVE  answer' = Asked
<1>1. answer' = {r \in Rows : /\ Value[r]["class"] \in Mask
                              /\ Value[r]["time"] >= Limits.lower
                              /\ Value[r]["time"] < Limits.upper
                              /\ \A n \in DOMAIN Filters : r \in Filters[n].accepts}
    BY DEF AnswerLog, Accepted
<1>2. ASSUME NEW r \in Asked
      PROVE  Value[r]["class"] \in Mask /\ Within(Value[r]["time"], Limits)
    <2>1. r \in Rows /\ \A n \in DOMAIN Filters : r \in Filters[n].accepts
        BY DEF Asked
    <2>2. \A n \in DOMAIN Filters : Value[r]["class"] \in Filters[n].keep
        <3>1. \A n \in DOMAIN Filters : Filters[n] \in SoundFilters
            BY DEF IInv, Filters, Stacks
        <3> QED BY <2>1, <3>1 DEF SoundFilters, MaskKept
    <2>3. Value[r]["class"] \in Bits
        BY <2>1, FiltersAssumption
    <2> QED BY <2>2, <2>3, LimitsKeep DEF Mask
<1>3. \A r \in Rows : Within(Value[r]["time"], Limits) <=>
            Limits.lower <= Value[r]["time"] /\ Value[r]["time"] < Limits.upper
    BY DEF Within
<1>4. \A r \in Asked : Value[r]["time"] >= Limits.lower /\ Value[r]["time"] < Limits.upper
    BY <1>2 DEF Asked, Within
<1> QED BY <1>1, <1>2, <1>4 DEF Asked

LEMMA ObjectsAnswerAsked ==
    ASSUME IInv, AnswerObjects
    PROVE  answer' = Asked
<1> DEFINE found == {c \in Columns : FindIndexFilter(c) # {}}
<1>1. CASE found = {}
    BY <1>1 DEF AnswerObjects, Accepted, Asked
<1>2. CASE found # {}
    <2>a. PICK c \in found : \E ref \in FindIndexFilter(c) :
                answer' = Accepted({r \in Rows : Holds(r, c, ref)})
        BY <1>2 DEF AnswerObjects
    <2>1. PICK ref \in FindIndexFilter(c) : answer' = Accepted({r \in Rows : Holds(r, c, ref)})
        BY <2>a
    <2>2. PICK n \in DOMAIN Filters : /\ Filters[n].key # NoKey /\ Filters[n].key[1] = c
                                      /\ Filters[n].key[2] = ref
        BY DEF FindIndexFilter
    <2>3. Filters[n] \in SoundFilters
        BY DEF IInv, Filters, Stacks
    <2>4. \A r \in Filters[n].accepts : Holds(r, c, ref)
        BY <2>2, <2>3 DEF SoundFilters, KeyKept
    <2>5. \A r \in Asked : r \in Rows /\ Holds(r, c, ref)
        BY <2>4 DEF Asked
    <2> QED BY <2>1, <2>5 DEF Accepted, Asked
<1> QED BY <1>1, <1>2

AnswerInv ==
    /\ MeantInv
    /\ phase \in {"limits", "done"} => ~error /\ making = Nothing
    /\ phase = "done" /\ (\A n \in DOMAIN Filters : ~Filters[n].ored) => answer = Asked

LEMMA InitAnswer == Init => AnswerInv
BY InitMeant DEF Init, AnswerInv

LEMMA StepAnswer == AnswerInv /\ [Next]_vars => AnswerInv'
<1> SUFFICES ASSUME AnswerInv, [Next]_vars PROVE AnswerInv'
    OBVIOUS
<1>0. MeantInv' /\ IInv
    BY StepMeant DEF AnswerInv, MeantInv
<1>1. CASE \/ ParseColumnLine \/ ParseUnknownColumn \/ ParseAggregate \/ ParseInvalid
           \/ ParseAndOrLine \/ ParseNegateLine \/ ParseLocaltimeLine
    <2>1. phase = "headers" /\ phase' = phase
        BY <1>1 DEF ParseColumnLine, ParseUnknownColumn, ParseAggregate, ParseInvalid,
           ParseAndOrLine, ParseNegateLine, ParseLocaltimeLine, Read, Reading
    <2> QED BY <1>0, <2>1 DEF AnswerInv
<1>2. CASE TakeSubfilter \/ TooFewStats \/ Combine
    <2>1. making # Nothing /\ phase' = phase
        BY <1>2 DEF TakeSubfilter, TooFewStats, Combine
    <2> QED BY <1>0, <2>1 DEF AnswerInv
<1>3. CASE HeadersEnd
    <2>1. making' = Nothing /\ error' = error /\ phase' = IF error THEN "refused" ELSE "limits"
        BY <1>3 DEF HeadersEnd
    <2> QED BY <1>0, <2>1 DEF AnswerInv
<1>4. CASE AnswerLog
    <2>1. /\ phase = "limits" /\ phase' = "done" /\ making' = making /\ error' = error
          /\ stack' = stack
        BY <1>4 DEF AnswerLog
    <2>2. (\A n \in DOMAIN Filters : ~Filters[n].ored) => answer' = Asked
        BY <1>0, <1>4, LogAnswerAsked
    <2>3. Filters' = Filters /\ Asked' = Asked
        BY <2>1 DEF Filters, Asked
    <2> QED BY <1>0, <2>1, <2>2, <2>3 DEF AnswerInv
<1>5. CASE AnswerObjects
    <2>1. /\ phase = "limits" /\ phase' = "done" /\ making' = making /\ error' = error
          /\ stack' = stack
        BY <1>5 DEF AnswerObjects
    <2>2. answer' = Asked
        BY <1>0, <1>5, ObjectsAnswerAsked
    <2>3. Filters' = Filters /\ Asked' = Asked
        BY <2>1 DEF Filters, Asked
    <2> QED BY <1>0, <2>1, <2>2, <2>3 DEF AnswerInv
<1>6. CASE UNCHANGED vars
    BY <1>0, <1>6 DEF vars, AnswerInv, Filters, Asked
<1> QED BY <1>1, <1>2, <1>3, <1>4, <1>5, <1>6 DEF Next

LEMMA LocaltimeType ==
    ASSUME timezone \in Int, shifted \in BOOLEAN, [Next]_vars
    PROVE  timezone' \in Int /\ shifted' \in BOOLEAN
<1> USE DEF localtime
<1>1. CASE ParseColumnLine
    <2>1. PICK h : shifted' = (shifted \/ Shifts(h)) /\ timezone' = timezone
        BY <1>1 DEF ParseColumnLine
    <2> QED BY <2>1 DEF Shifts
<1>2. CASE ParseLocaltimeLine
    <2>1. PICK h \in Header("Localtime") : timezone' = h.offset /\ shifted' = shifted
        BY <1>2 DEF ParseLocaltimeLine
    <2> QED BY <2>1, HeadersAssumption DEF Header
<1>3. CASE \/ ParseUnknownColumn \/ ParseAggregate \/ ParseInvalid \/ ParseAndOrLine
           \/ TakeSubfilter \/ TooFewStats \/ Combine \/ ParseNegateLine
           \/ HeadersEnd \/ AnswerLog \/ AnswerObjects \/ UNCHANGED vars
    <2>1. timezone' = timezone /\ shifted' = shifted
        BY <1>3 DEF ParseUnknownColumn, ParseAggregate, ParseInvalid, ParseAndOrLine, TakeSubfilter,
           TooFewStats, Combine, ParseNegateLine, HeadersEnd, AnswerLog, AnswerObjects, vars
    <2> QED BY <2>1
<1> QED BY <1>1, <1>2, <1>3 DEF Next

\* Every step leaves the types as they were.
LEMMA StepType == IInv /\ TypeOK /\ [Next]_vars => TypeOK'
<1> SUFFICES ASSUME IInv, TypeOK, [Next]_vars PROVE TypeOK'
    OBVIOUS
<1> DEFINE Sound == \A s \in Stacks : \A n \in DOMAIN stack[s] :
                        LET f == stack[s][n] IN
                        /\ f.accepts \subseteq Rows /\ f.keep \subseteq Bits
                        /\ \A i \in Intervals : f.limits[i] \in Intervals
           Rest == /\ phase \in {"headers", "limits", "done", "refused"} /\ error \in BOOLEAN
                   /\ lines \in 0 .. MaxHeaders /\ interval \in Intervals /\ mask \subseteq Bits
                   /\ answer \subseteq Rows
<1>1. Sound'
    <2>1. \A s \in Stacks : \A n \in DOMAIN stack'[s] : stack'[s][n] \in FilterType
        <3>1. stack' \in [Stacks -> Seq(SoundFilters)]
            BY StepInv DEF IInv
        <3>2. \A s \in Stacks : \A n \in DOMAIN stack'[s] : stack'[s][n] \in SoundFilters
            BY <3>1
        <3> QED BY <3>2 DEF SoundFilters
    <2> QED BY <2>1 DEF FilterType
<1>a. timezone' \in Int /\ shifted' \in BOOLEAN
    BY LocaltimeType DEF TypeOK
<1>2. TypeOK' <=> Rest' /\ Sound'
    BY <1>a DEF TypeOK
<1>3. Rest
    BY DEF TypeOK
<1> HIDE DEF Sound
<1>4. CASE \/ ParseColumnLine \/ ParseUnknownColumn \/ ParseAggregate \/ ParseInvalid
           \/ ParseAndOrLine \/ ParseNegateLine \/ ParseLocaltimeLine
    <2>1. /\ lines < MaxHeaders /\ lines' = lines + 1 /\ error' \in {error, TRUE}
          /\ phase' = phase /\ interval' = interval /\ mask' = mask /\ answer' = answer
        BY <1>4 DEF ParseColumnLine, ParseUnknownColumn, ParseAggregate, ParseInvalid,
           ParseAndOrLine, ParseNegateLine, ParseLocaltimeLine, Read, Reading
    <2>2. lines' \in 0 .. MaxHeaders
        BY <1>3, <2>1, FiltersAssumption
    <2> QED BY <1>1, <1>2, <1>3, <2>1, <2>2
<1>5. CASE TakeSubfilter \/ TooFewStats \/ Combine \/ UNCHANGED vars
    <2>1. /\ lines' = lines /\ error' \in {error, TRUE}
          /\ phase' = phase /\ interval' = interval /\ mask' = mask /\ answer' = answer
        BY <1>5 DEF TakeSubfilter, TooFewStats, Combine, vars
    <2> QED BY <1>1, <1>2, <1>3, <2>1
<1>6. CASE HeadersEnd
    BY <1>1, <1>2, <1>3, <1>6 DEF HeadersEnd
<1>7. CASE AnswerLog
    <2>1. interval' \in Intervals /\ mask' \subseteq Bits
        BY <1>7, LimitsKeep DEF AnswerLog, Mask
    <2>2. answer' \subseteq Rows
        BY <1>7 DEF AnswerLog, Accepted
    <2>3. phase' = "done" /\ error' = error /\ lines' = lines
        BY <1>7 DEF AnswerLog
    <2> QED BY <1>1, <1>2, <1>3, <2>1, <2>2, <2>3
<1>8. CASE AnswerObjects
    <2>1. answer' \subseteq Rows
        BY <1>8 DEF AnswerObjects, Accepted
    <2>2. /\ phase' = "done" /\ error' = error /\ lines' = lines /\ interval' = interval
          /\ mask' = mask
        BY <1>8 DEF AnswerObjects
    <2> QED BY <1>1, <1>2, <1>3, <2>1, <2>2
<1> QED BY <1>4, <1>5, <1>6, <1>7, <1>8 DEF Next

-----------------------------------------------------------------------------
(* The theorems                                                            *)

\* Type correctness: the limits of a query are an interval, its mask is one of bits,
\* whatever filters it has.
THEOREM TypeCorrect == Spec => []TypeOK
<1>1. Init => TypeOK
    <2> SUFFICES ASSUME Init PROVE TypeOK
        OBVIOUS
    <2>1. \A s \in Stacks : DOMAIN stack[s] = {}
        BY DEF Init
    <2>2. lines \in 0 .. MaxHeaders /\ interval \in Intervals /\ timezone \in Int
        BY FiltersAssumption, WidthAssumption DEF Init, Intervals
    <2> QED BY <2>1, <2>2 DEF Init, TypeOK
<1> QED BY <1>1, StepType, Invariance, PTL DEF Spec

\* optimizeBitmask() of a filter, or of any And and Or of filters, keeps the bit of
\* every class of messages that it accepts.
THEOREM MaskCorrect == Spec => []MaskSound
<1>1. IInv => MaskSound
    BY AllFiltersSound DEF MaskSound, SoundFilters, MaskKept
<1> QED BY <1>1, Invariance, PTL

\* findTimeLimits() of a filter without an Or in it keeps every time that it
\* accepts, whatever the interval was before.
THEOREM TimesCorrect == Spec => []TimesSound
<1>1. IInv => TimesSound
    BY AllFiltersSound DEF TimesSound, SoundFilters, TimesKept, Within
<1> QED BY <1>1, Invariance, PTL

\* Every operator of the query language, negated or not, accepts just the values
\* for which it holds, for every kind of column that has it.
THEOREM ColumnsMean == Spec => []ColumnFiltersMean
<1>1. ColumnFiltersMean
    BY HeaderMeans, HeadersAssumption DEF ColumnFiltersMean
<1> QED BY <1>1, PTL

\* A filter, WaitCondition or Stats stack accepts, filter by filter, what the headers
\* say, whatever Ands, Ors and Negates they are combined with.
THEOREM MeaningCorrect == Spec => []FiltersMean
<1>1. Spec => []MeantInv
    BY InitMeant, StepMeant, PTL DEF Spec
<1>2. MeantInv => FiltersMean
    <2> SUFFICES ASSUME MeantInv, Clean, making = Nothing, NEW s \in Stacks
                 PROVE  Len(stack[s]) = Len(meant[s])
                        /\ \A n \in DOMAIN stack[s] : stack[s][n].accepts = meant[s][n]
        BY DEF FiltersMean, Clean
    <2>1. Agree(stack[s], meant[s]) /\ DOMAIN stack[s] = 1 .. Len(stack[s])
        BY DEF MeantInv, StackMeans, IInv
    <2> QED BY <2>1 DEF Agree
<1> QED BY <1>1, <1>2, PTL

\* A query without an Or is answered with just the rows that its headers ask for:
\* neither the limits, nor the mask, nor an index leave one out.
THEOREM AnswerCorrect == Spec => []AnswerMeant
<1>1. Spec => []AnswerInv
    BY InitAnswer, StepAnswer, PTL DEF Spec
<1>2. AnswerInv => AnswerMeant
    <2> SUFFICES ASSUME AnswerInv, phase = "done", ~shifted,
                        \A n \in DOMAIN Filters : ~Filters[n].ored
                 PROVE  answer = {r \in Rows : \A n \in DOMAIN meant["filter"] :
                                                    r \in meant["filter"][n]}
        BY DEF AnswerMeant
    <2>1. answer = Asked /\ Agree(Filters, meant["filter"])
        BY DEF AnswerInv, MeantInv, Clean, StackMeans, Stacks, Filters
    <2>2. DOMAIN Filters = 1 .. Len(Filters) /\ DOMAIN meant["filter"] = 1 .. Len(meant["filter"])
        BY DEF AnswerInv, MeantInv, IInv, Stacks, Filters
    <2> QED BY <2>1, <2>2 DEF Agree, Asked
<1> QED BY <1>1, <1>2, PTL
=============================================================================
