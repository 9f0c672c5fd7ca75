------------------------------ MODULE LuaValue ------------------------------
(***************************************************************************)
(* The values of Lua that the programs of the instances have, and the      *)
(* operations the constant folding of lcode.c and the virtual machine of   *)
(* lvm.c do on them.  n is the number, the boolean or the address of a     *)
(* table or function, s the pieces of a string: single figures and words.  *)
(***************************************************************************)
EXTENDS Integers, SequencesExt, FiniteSetsExt, TLC

Value(ty, n, s) == [ty |-> ty, n |-> n, s |-> s]
nil == Value("nil", 0, <<>>)
Bool(b) == Value("boolean", IF b THEN 1 ELSE 0, <<>>)
Num(n) == Value("number", n, <<>>)
Str(s) == Value("string", 0, s)
Failure == Value("failure", 0, <<>>)    \* the operation raises an error

isnum(x) == x.ty = "number"
l_isfalse(x) == x \in {nil, Bool(FALSE)}

\* The bits of a number that is not negative.
Bits(n) == {k \in 0..30 : (n \div 2 ^ k) % 2 = 1}
OfBits(bits) == MapThenSumSet(LAMBDA k : 2 ^ k, bits)

\* luai_numadd and the others; a compound operator does the same as the plain one.
\* The divisors of the programs are positive.
luai_num(op, a, b) ==
  CASE op \in {"ADD", "ADD_EQ"} -> a + b
    [] op \in {"SUB", "SUB_EQ"} -> a - b
    [] op \in {"MUL", "MUL_EQ"} -> a * b
    [] op \in {"MOD", "MOD_EQ"} -> a % b
    [] op \in {"POW", "POW_EQ"} -> a ^ b
    [] op = "INTDIV" -> a \div b
    [] op = "BOR" -> OfBits(Bits(a) \cup Bits(b))
    [] op = "BAND" -> OfBits(Bits(a) \cap Bits(b))
    [] op = "BXOR" -> OfBits((Bits(a) \ Bits(b)) \cup (Bits(b) \ Bits(a)))
    [] op = "BLSHFT" -> a * 2 ^ b
    [] op = "BRSHFT" -> a \div 2 ^ b
    [] op = "UNM" -> -a
    [] op = "BNOT" -> -a - 1

\* luaV_tostring: a number stands for its figures.
Figures == <<"0", "1", "2", "3", "4", "5", "6", "7", "8", "9">>
Written[n \in Nat] ==
  IF n < 10 THEN <<Figures[n + 1]>> ELSE Append(Written[n \div 10], Figures[(n % 10) + 1])
Pieces(x) == IF ~ isnum(x) THEN x.s ELSE IF x.n < 0 THEN <<"-">> \o Written[-x.n] ELSE Written[x.n]

\* luaV_tonumber: a string of figures stands for its number (no string of the programs
\* has spaces, a point or a base).
Numerals == Seq(ToSet(Figures)) \ {<<>>}
Read[s \in Numerals \cup {<<>>}] ==
  IF s = <<>> THEN 0 ELSE 10 * Read[Front(s)] + (CHOOSE d \in 0..9 : Figures[d + 1] = Last(s))
tonumber(x) ==
  CASE isnum(x) -> x
    [] x.ty = "string" /\ x.s \in Numerals -> Num(Read[x.s])
    [] x.ty = "string" /\ x.s # <<>> /\ x.s[1] = "-" /\ Tail(x.s) \in Numerals -> Num(-Read[Tail(x.s)])
    [] OTHER -> Failure

\* Arith, Logic and Compound, without metamethods.  No program gives // a string:
\* OP_INTDIV would leave it to TM_DIV, which does not round.
Arith(op, x, y) ==
  LET a == tonumber(x)
      b == tonumber(y)
  IN IF Failure \in {a, b} THEN Failure ELSE Num(luai_num(op, a.n, b.n))

\* luaV_concat
Concat(x, y) ==
  IF {x.ty, y.ty} \subseteq {"number", "string"} THEN Str(Pieces(x) \o Pieces(y)) ELSE Failure

\* equalobj, luaV_lessthan and lessequal; no program asks for the order of two strings.
Compare(op, x, y) ==
  CASE op = "EQ" -> Bool(x = y)
    [] op # "EQ" /\ isnum(x) /\ isnum(y) -> Bool(x.n < y.n \/ (op = "LE" /\ x = y))
    [] OTHER -> Failure
=============================================================================
