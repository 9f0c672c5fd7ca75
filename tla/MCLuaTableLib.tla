--------------------------- MODULE MCLuaTableLib ----------------------------
EXTENDS LuaTableLib, TLC

MCKey == -1..12
MCPositions == -1..5

\* A table that holds the values of x from key 1 on.
Table(x) == [k \in MCKey |-> IF k \in DOMAIN x THEN x[k] ELSE nil]
Short == UNION {[1..n -> 1..2] : n \in 0..5} \cup UNION {[1..n -> 1..3] : n \in 3..4}
\* More values, long enough for two callers to wait; and arrays with gaps.
MCArrays ==
  {Table(x) : x \in Short \cup Permutations(1..4) \cup {<<4, 6, 3, 5, 6, 3, 4, 6, 3, 5, 4>>}}
  \cup {[Table(x) EXCEPT ![0] = 3, ![5] = 1] : x \in {<<>>, <<2>>, <<1, 2, nil, 3>>}}
MCTables == {[k \in {1, 5} |-> IF k = 1 THEN x ELSE Table(<<4, 4, 4>>)] : x \in MCArrays}
MCValue == 1..6

\* What a function answers that answers true for the pairs of R, and raises an
\* error for nil.
Answering(R) ==
  [x \in Content |-> [y \in Content |-> IF nil \in {x, y} THEN {"error"} ELSE
                                        IF <<x, y>> \in R THEN {"less"} ELSE {"not"}]]
\* May answer anything for 1 and 2, and to what is behind the array.
Whimsical(S) ==
  [x \in Content |-> [y \in Content |-> IF {x, y} \subseteq {1, 2, nil} THEN S ELSE {"error"}]]
\* By size, backwards, 2 and 4 before the others; and functions that are no
\* order.
MCOrders ==
  {Answering({p \in MCValue \X MCValue : p[1] < p[2]}),
   Answering({p \in MCValue \X MCValue : p[1] > p[2]}),
   Answering({<<2, 1>>, <<2, 3>>, <<4, 3>>, <<4, 5>>, <<4, 6>>}),
   Answering({}),
   Answering({p \in MCValue \X MCValue : p[1] <= p[2]}),
   Answering({<<1, 2>>, <<2, 3>>, <<3, 1>>}), Answering({<<1, 1>>, <<2, 2>>, <<2, 1>>, <<3, 1>>, <<3, 2>>}),
   Whimsical({"less"}), Whimsical({"not"}), Whimsical(Answers)}
=============================================================================
