--------------------------------- MODULE Lists ---------------------------------
(* What the readers do with lists: filter, sort, each item once.  JavaScript's  *)
(* Array.prototype.filter and sort, and a Set or Map filled from left to right. *)
(* They are folds, as a filter or a sort of the standard modules is out of the  *)
(* provers' reach, and take sets or ranks where a test or an order is meant, as *)
(* a fact about a set can be cited for any test.                                *)
EXTENDS Integers, Sequences, SequencesExt

IsList(s) == s \in Seq(ToSet(s))

\* The items that are wanted, in their order.
Kept(items, wanted) ==
    FoldLeft(LAMBDA kept, item : IF item \in wanted THEN Append(kept, item) ELSE kept,
             <<>>, items)

\* Every item where it is first mentioned.
Firsts(items) ==
    FoldLeft(LAMBDA kept, item : IF item \in ToSet(kept) THEN kept ELSE Append(kept, item),
             <<>>, items)

\* The items in the order of their ranks, those of one rank as they came.
Ranked(items, rank) ==
    FoldLeft(LAMBDA sorted, item :
        LET before == Cardinality({i \in 1..Len(sorted) : rank[sorted[i]] <= rank[item]})
        IN  InsertAt(sorted, before + 1, item),
        <<>>, items)

===============================================================================
