------------------------------- MODULE Lists -------------------------------
(***************************************************************************)
(* Helpers on sequences that the modules of pure algorithms share.         *)
(***************************************************************************)
EXTENDS Integers, SequencesExt

\* The elements of a finite set, by a strict total order on them.
Ordered(S, Before(_, _)) ==
    [k \in 1 .. Cardinality(S) |->
        CHOOSE x \in S : Cardinality({y \in S : Before(y, x)}) = k - 1]

\* Those elements of a sequence whose index is in I, in order.
At(seq, I) == LET order == Ordered(I, <) IN [k \in DOMAIN order |-> seq[order[k]]]

\* The elements that pass a test against those kept before them.
Greedy(Keeps(_, _), seq) ==
    FoldLeft(LAMBDA kept, x : IF Keeps(kept, x) THEN Append(kept, x) ELSE kept, <<>>, seq)

\* The first n elements, or all.
Top(seq, n) == SubSeq(seq, 1, IF n < Len(seq) THEN n ELSE Len(seq))

Sum(f) == FoldSet(LAMBDA x, acc : acc + f[x], 0, DOMAIN f)

\* Sorted by decreasing key, equals in the order they came in.
ByKey(seq, Key(_)) ==
    LET order == Ordered(DOMAIN seq, LAMBDA i, j :
                    Key(seq[i]) > Key(seq[j]) \/ (Key(seq[i]) = Key(seq[j]) /\ i < j))
    IN  [k \in DOMAIN order |-> seq[order[k]]]
=============================================================================
