------------------------------ MODULE Aggregators ------------------------------
(***************************************************************************)
(* The functions of the header Stats: CountAggregator, IntAggregator,      *)
(* DoubleAggregator and PerfdataAggregator, and StatsColumn that chooses   *)
(* among them.                                                             *)
(*                                                                         *)
(* Numbers are integers.  A result is a fraction <<numerator,              *)
(* denominator>>, of a standard deviation its square; <<0, 0>> is "nan".   *)
(* The inverse of a value is taken in parts of One.                        *)
(***************************************************************************)
EXTENDS Integers, Sequences, FiniteSets, TLC

CONSTANT One    \* 1.0: a multiple of every value that is inverted

ASSUME OneAssumption == One \in Nat \ {0}

Inverses == {"suminv", "avginv"}
Operations == {"sum", "min", "max", "avg", "std"} \cup Inverses
InverseOf(value) == One \div value

\* What an aggregator begins with.
NoneConsumed == [count |-> 0, aggr |-> 0, sumq |-> 0]

\* Mutant: the least value so far is 0 from the beginning.
LessFromZero(a, value) == IF value < a.aggr THEN value ELSE a.aggr

Less(a, value) == IF a.count = 0 \/ value < a.aggr THEN value ELSE a.aggr

Greatest(a, value) == IF a.count = 0 \/ value > a.aggr THEN value ELSE a.aggr

\* consume(): the integers sum up inverses in _sumq, the doubles in _aggr, which
\* is the same number until it is printed.
Consume(operation, a, value) ==
    [count |-> a.count + 1,
     aggr  |-> CASE operation \in {"sum", "avg", "std"} -> a.aggr + value
                 [] operation = "min"                   -> Less(a, value)
                 [] operation = "max"                   -> Greatest(a, value)
                 [] operation \in Inverses              -> a.aggr,
     sumq  |-> CASE operation = "std"      -> a.sumq + value * value
                 [] operation \in Inverses -> a.sumq + InverseOf(value)
                 [] OTHER                  -> a.sumq]

\* The sum of squares less the mean's, over one less than the number.
Deviation(a) ==
    IF a.count <= 1 THEN <<0, 1>>
    ELSE <<a.count * a.sumq - a.aggr * a.aggr, a.count * (a.count - 1)>>

\* IntAggregator::output(): inverses are cut to an integer, and an average of no
\* rows is not a number.
IntOutput(operation, a) ==
    CASE operation \in {"sum", "min", "max"} -> <<a.aggr, 1>>
      [] operation = "suminv" -> <<a.sumq \div One, 1>>
      [] operation = "avg"    -> <<a.aggr, a.count>>
      [] operation = "avginv" -> IF a.count = 0 THEN <<0, 0>> ELSE <<a.sumq \div (One * a.count), 1>>
      [] operation = "std"    -> Deviation(a)

\* DoubleAggregator::output()
DoubleOutput(operation, a) ==
    CASE operation \in {"sum", "min", "max"} -> <<a.aggr, 1>>
      [] operation = "suminv" -> <<a.sumq, One>>
      [] operation \in {"avg", "avginv"} /\ a.count = 0 -> <<0, 1>>
      [] operation = "avg" /\ a.count # 0    -> <<a.aggr, a.count>>
      [] operation = "avginv" /\ a.count # 0 -> <<a.sumq, One * a.count>>
      [] operation = "std"    -> Deviation(a)

-----------------------------------------------------------------------------
(* Performance data: a row has entries <<variable, value>>, or <<>> where  *)
(* one has no "=" or no number and is left out.                            *)

\* The first value of a variable is taken as it is, of an inverse as well.
FirstOf(value) == [count |-> 1, aggr |-> value, sumq |-> value * value]

\* consumeVariable(): beyond the first, _aggr takes the inverses.
Further(operation, a, value) ==
    IF operation \in Inverses
    THEN [a EXCEPT !.count = @ + 1, !.aggr = @ + InverseOf(value)]
    ELSE Consume(operation, a, value)

ConsumeVariable(operation, variables, entry) ==
    IF entry = <<>> THEN variables
    ELSE IF entry[1] \in DOMAIN variables
    THEN [variables EXCEPT ![entry[1]] = Further(operation, @, entry[2])]
    ELSE variables @@ (entry[1] :> FirstOf(entry[2]))

\* PerfdataAggregator::consume(): all entries of a row.
ConsumePerfdata(operation, variables, entries) ==
    LET upto[n \in 0 .. Len(entries)] ==
            IF n = 0 THEN variables ELSE ConsumeVariable(operation, upto[n - 1], entries[n])
    IN  upto[Len(entries)]

PerfdataOutput(operation, variables) ==
    [v \in DOMAIN variables |->
        LET a == variables[v] IN
        CASE operation \in {"avg", "avginv"} -> <<a.aggr, a.count>>
          [] operation = "std"               -> Deviation(a)
          [] OTHER                           -> <<a.aggr, 1>>]

-----------------------------------------------------------------------------
(* StatsColumn::createAggregator(), by the kind of the column; a filter    *)
(* and a column that cannot be aggregated are counted.                     *)

CreateAggregator(kind) == IF kind = "perfdata" THEN <<>> ELSE NoneConsumed

ConsumeValue(kind, operation, a, value) ==
    CASE kind \in {"int", "double"} -> Consume(operation, a, value)
      [] kind = "perfdata"          -> ConsumePerfdata(operation, a, value)
      [] kind = "filter"            -> IF value THEN [a EXCEPT !.count = @ + 1] ELSE a
      [] kind = "other"             -> [a EXCEPT !.count = @ + 1]

Result(kind, operation, a) ==
    CASE kind = "int"      -> IntOutput(operation, a)
      [] kind = "double"   -> DoubleOutput(operation, a)
      [] kind = "perfdata" -> PerfdataOutput(operation, a)
      [] OTHER             -> <<a.count, 1>>
=============================================================================
