----------------------------- MODULE ColumnFilters -----------------------------
(***************************************************************************)
(* The filters of single columns, src/src/ *Filter.cc: which values they    *)
(* accept, and what they tell the tables beforehand about the rows they    *)
(* accept: a range of times, a mask of small numbers, a key of an index.   *)
(*                                                                         *)
(* An operator is a number, as in opids.h; a negative one is negated.      *)
(* Numbers stand for strings, in the order of strcmp, and 0 for the empty  *)
(* one; a list is the set of its members.                                  *)
(***************************************************************************)
EXTENDS Integers, Sequences

CONSTANTS
    Lower,      \* tolower of a string
    Matching,   \* [icase -> [regular expression -> the strings it is found in]]
    Hidden,     \* the names of custom variables with g_hidden_custom_var_prefix
    BitWidth,   \* 32: the bits of a mask
    MaxTime     \* bound: times are 0 .. MaxTime

ASSUME WidthAssumption == BitWidth \in Nat \ {0} /\ MaxTime \in Nat

OP_INVALID == 0
OP_EQUAL == 1
OP_REGEX == 2
OP_EQUAL_ICASE == 3
OP_REGEX_ICASE == 4
OP_GREATER == 5
OP_LESS == 6

Abs(opid) == IF opid < 0 THEN -opid ELSE opid

\* lookupOperator(): an exclamation mark negates; >= is !<, and <= is !>.
Signs == {"=", "~", "=~", "~~", ">", "<", ">=", "<=", "?"}
LookupOperator(not, sign) ==
    LET opid == CASE sign = "="  -> OP_EQUAL       [] sign = "~"  -> OP_REGEX
                  [] sign = "=~" -> OP_EQUAL_ICASE [] sign = "~~" -> OP_REGEX_ICASE
                  [] sign = ">"  -> OP_GREATER     [] sign = "<"  -> OP_LESS
                  [] sign = ">=" -> -OP_LESS       [] sign = "<=" -> -OP_GREATER
                  [] OTHER       -> OP_INVALID
    IN  IF not THEN -opid ELSE opid

-----------------------------------------------------------------------------
(* accepts()                                                               *)

\* "pass != _negate"; an operator that is not implemented lets everything pass.
Negated(opid, pass) == IF opid < 0 THEN ~pass ELSE pass

Ordered(opid, ref, value) ==
    Negated(opid, CASE Abs(opid) = OP_EQUAL   -> value = ref
                    [] Abs(opid) = OP_GREATER -> value > ref
                    [] Abs(opid) = OP_LESS    -> value < ref
                    [] OTHER                  -> TRUE)
IntColumnFilter(opid, ref, value) == Ordered(opid, ref, value)
DoubleColumnFilter(opid, ref, value) == Ordered(opid, ref, value)
TimeColumnFilter(opid, ref, value) == Ordered(opid, ref, value)

\* A time is a pair of seconds and microseconds.
Later(a, b) == a[1] > b[1] \/ (a[1] = b[1] /\ a[2] > b[2])
TimeValColumnFilter(opid, ref, value) ==
    Negated(opid, CASE Abs(opid) = OP_EQUAL   -> value = ref
                    [] Abs(opid) = OP_GREATER -> Later(value, ref)
                    [] Abs(opid) = OP_LESS    -> Later(ref, value)
                    [] OTHER                  -> TRUE)

\* A regular expression that is none is an error.
IsRegex(opid) == Abs(opid) \in {OP_REGEX, OP_REGEX_ICASE}
RegexOk(opid, ref) == IsRegex(opid) => ref \in DOMAIN Matching[FALSE]
StringColumnFilter(opid, ref, value) ==
    Negated(opid, CASE Abs(opid) = OP_EQUAL       -> value = ref
                    [] Abs(opid) = OP_EQUAL_ICASE -> Lower[value] = Lower[ref]
                    [] Abs(opid) = OP_REGEX       -> value \in Matching[FALSE][ref]
                    [] Abs(opid) = OP_REGEX_ICASE -> value \in Matching[TRUE][ref]
                    [] Abs(opid) = OP_GREATER     -> value > ref
                    [] Abs(opid) = OP_LESS        -> value < ref)

\* A value is a set of bits, which is also a number.
Attributes == {0, 1}
AttributelistFilter(opid, ref, value) ==
    LET number(bits) == (IF 0 \in bits THEN 1 ELSE 0) + (IF 1 \in bits THEN 2 ELSE 0) IN
    Negated(opid, CASE Abs(opid) = OP_EQUAL       -> value = ref
                    [] Abs(opid) = OP_GREATER     -> number(value) > number(ref)
                    [] Abs(opid) = OP_LESS        -> number(value) < number(ref)
                    [] Abs(opid) = OP_REGEX       -> ref \subseteq value
                    [] Abs(opid) = OP_REGEX_ICASE -> ref \cap value # {}
                    [] OTHER                      -> TRUE)

\* Mutant: a list contains what it does not.
ContainsSwapped(opid, empty, member, value) ==
    CASE Abs(opid) = OP_EQUAL /\ empty -> (value = {}) = (opid = OP_EQUAL)
      [] opid = OP_LESS                -> member
      [] opid = -OP_LESS               -> ~member
      [] OTHER                         -> TRUE

\* "test for empty list"; otherwise "!< means >= means 'contains'".
Contains(opid, empty, member, value) ==
    CASE Abs(opid) = OP_EQUAL /\ empty -> (value = {}) = (opid = OP_EQUAL)
      [] opid = -OP_LESS               -> member
      [] opid = OP_LESS                -> ~member
      [] OTHER                         -> TRUE

\* 0 is the empty string.
HostlistColumnFilter(opid, ref, value) == Contains(opid, ref = 0, ref \in value, value)

\* The master hosts of dependencies.
HostlistDependencyColumnFilter(opid, ref, value) ==
    Contains(opid, ref = 0, \E d \in value : d.master = ref, value)

\* "ref_value must be of form hostname HOSTSERVICE_SEPARATOR service_description"
\* if the column shows hosts: a pair; otherwise it is a description alone.
ServiceRef(showHost, ref) ==
    IF ~showHost THEN <<0, ref[1]>> ELSE IF Len(ref) = 2 THEN ref ELSE <<0, 0>>
ServicelistColumnFilter(showHost, opid, text, value) ==
    LET ref == ServiceRef(showHost, text) IN
    Contains(opid, ref[1] = 0,
             \E s \in value : (showHost => s[1] = ref[1]) /\ s[2] = ref[2], value)

ServicelistDependencyColumnFilter(opid, text, value) ==
    LET ref == ServiceRef(TRUE, text) IN
    Contains(opid, ref[2] = 0, \E d \in value : d.master = ref, value)

\* A name that no object has is in no list, and lists are not compared, except
\* with the empty one.
ListColumnFilter(opid, ref, value) ==
    CASE opid = -OP_LESS      -> ref \in value
      [] opid = OP_LESS       -> ref \notin value
      [] Abs(opid) = OP_EQUAL -> ref = 0 /\ (value = {}) = (opid = OP_EQUAL)
      [] OTHER                -> TRUE

\* A dictionary is asked for one variable, "" without it; of names and of values
\* there is membership only.  Nothing is known of a hidden variable.
GetVariable(cvm, name) == IF name \in DOMAIN cvm \ Hidden THEN cvm[name] ELSE 0
ContainsVariable(what, cvm, text) ==
    \E v \in DOMAIN cvm \ Hidden : text = IF what = "names" THEN v ELSE cvm[v]
CustomVarsFilter(what, opid, ref, value) ==
    IF what = "dict" THEN StringColumnFilter(opid, ref[2], GetVariable(value, ref[1]))
    ELSE Abs(opid) = OP_LESS => ContainsVariable(what, value, ref) = (opid < 0)

Accepts(kind, opid, ref, value) ==
    CASE kind = "int"          -> IntColumnFilter(opid, ref, value)
      [] kind = "double"       -> DoubleColumnFilter(opid, ref, value)
      [] kind = "time"         -> TimeColumnFilter(opid, ref, value)
      [] kind = "timeval"      -> TimeValColumnFilter(opid, ref, value)
      [] kind = "string"       -> StringColumnFilter(opid, ref, value)
      [] kind = "attributes"   -> AttributelistFilter(opid, ref, value)
      [] kind = "hosts"        -> HostlistColumnFilter(opid, ref, value)
      [] kind = "masters"      -> HostlistDependencyColumnFilter(opid, ref, value)
      [] kind = "services"     -> ServicelistColumnFilter(TRUE, opid, ref, value)
      [] kind = "descriptions" -> ServicelistColumnFilter(FALSE, opid, ref, value)
      [] kind = "dependencies" -> ServicelistDependencyColumnFilter(opid, ref, value)
      [] kind = "list"         -> ListColumnFilter(opid, ref, value)
      [] kind \in {"dict", "names", "values"} -> CustomVarsFilter(kind, opid, ref, value)

-----------------------------------------------------------------------------
(* findTimeLimits(): the interval [lower, upper[ is made smaller           *)

Intervals == [lower : 0 .. MaxTime, upper : 0 .. MaxTime]

\* TimeColumnFilter::findTimeLimits
TimeLimits(opid, ref, i) ==
    IF i.lower >= i.upper THEN i
    ELSE CASE opid = OP_EQUAL ->
                IF ref >= i.lower /\ ref < i.upper THEN [lower |-> ref, upper |-> ref + 1]
                ELSE [lower |-> i.upper, upper |-> i.upper]
           [] opid = -OP_EQUAL ->
                IF ref = i.lower THEN [i EXCEPT !.lower = ref + 1]
                ELSE IF ref = i.upper - 1 THEN [i EXCEPT !.upper = ref] ELSE i
           [] opid = OP_GREATER /\ ref >= i.lower -> [i EXCEPT !.lower = ref + 1]
           [] opid = OP_LESS /\ ref < i.upper -> [i EXCEPT !.upper = ref]
           [] opid = -OP_GREATER /\ ref < i.upper - 1 -> [i EXCEPT !.upper = ref + 1]
           [] opid = -OP_LESS /\ ref > i.lower -> [i EXCEPT !.lower = ref]
           [] OTHER -> i

-----------------------------------------------------------------------------
(* optimizeBitmask(): bits that no accepted row has are removed            *)

Bits == 0 .. BitWidth - 1

\* Mutant: >= leaves out the number itself.
BitsKeptAbove(opid, ref) == IF opid = -OP_LESS THEN {b \in Bits : b > ref} ELSE Bits

\* IntColumnFilter::optimizeBitmask: the bits that are kept; a number that is no
\* bit is "not optimizable", and so are other operators.
BitsKept(opid, ref) ==
    IF ref \notin Bits THEN Bits
    ELSE CASE opid = OP_EQUAL    -> {ref}
           [] opid = -OP_EQUAL   -> Bits \ {ref}
           [] opid = -OP_LESS    -> {b \in Bits : b >= ref}
           [] opid = OP_GREATER  -> {b \in Bits : b > ref}
           [] opid = -OP_GREATER -> {b \in Bits : b <= ref}
           [] opid = OP_LESS     -> {b \in Bits : b < ref}
           [] OTHER              -> Bits

\* Its result: whether the filter says anything of the column's bits.
Optimized(opid, ref) == ref \notin Bits \/ Abs(opid) \in {OP_EQUAL, OP_GREATER, OP_LESS}
=============================================================================
