----------------------------- MODULE Calculator -----------------------------
(***************************************************************************)
(* The calculator tool's recursive descent parser, and a second reading of *)
(* the same arithmetic to hold it against. Tokens are model data: "1" is   *)
(* any number, the others stand for themselves. The parser computes as it  *)
(* goes, so what it does is the order of its arithmetic: operands as they  *)
(* come, each operator behind the values it takes. The numbers themselves, *)
(* and so the refusal of a zero divisor, are left out.                     *)
(***************************************************************************)
EXTENDS Integers, Sequences, FiniteSets

CONSTANT MaxInput \* CALCULATOR_MAX_INPUT, the most tokens there can be

ASSUME InputAssumption == MaxInput \in Nat

Number == "1"
SumOps == {"+", "-"}
ProductOps == {"*", "/"}
Token == {Number, "^", "(", ")"} \cup SumOps \cup ProductOps

Input == {toks \in Seq(Token) : Len(toks) <= MaxInput}
Index == 1 .. MaxInput + 1

TokenAt(toks, i) == IF i \in DOMAIN toks THEN toks[i] ELSE "end"

(* What a production has computed, and the index of the token it is at.     *)
Parsed(out, rest) == [out |-> out, rest |-> rest]

(* A plus sign computes nothing.                                            *)
Unary(op, out) == IF op = "-" THEN Append(out, "neg") ELSE out

(***************************************************************************)
(* The productions, given what the calls they make return: parse has the   *)
(* outcomes of every production at every token. A production is the set of *)
(* its outcomes: the one, or none where the code throws.                   *)
(***************************************************************************)
ParsePrimary(parse, toks, i) ==
  CASE TokenAt(toks, i) = Number -> {Parsed(<<Number>>, i + 1)}
    [] TokenAt(toks, i) = "(" ->
         {Parsed(e.out, e.rest + 1) : e \in {x \in parse[<<"expression", toks, i + 1>>] : TokenAt(toks, x.rest) = ")"}}
    [] OTHER -> {}

(* Operands have been computed: on with the loop around them.               *)
Looped(parse, toks, cycle, operands) ==
  UNION {{Parsed(p.out \o more.out, more.rest) : more \in parse[<<cycle, toks, p.rest>>]} : p \in operands}

Powered(base, exponents) == {Parsed(base.out \o Append(e.out, "^"), e.rest) : e \in exponents}

FaultyParsePower(parse, toks, i) ==      \* the exponent takes the product behind it too
  UNION {IF TokenAt(toks, base.rest) = "^"
         THEN Powered(base, Looped(parse, toks, "products", parse[<<"factor", toks, base.rest + 1>>]))
         ELSE {base} : base \in parse[<<"primary", toks, i>>]}

(* An exponent is a factor: it may carry a sign and powers of its own.      *)
ParsePower(parse, toks, i) ==
  UNION {IF TokenAt(toks, base.rest) = "^"
         THEN Powered(base, parse[<<"factor", toks, base.rest + 1>>])
         ELSE {base} : base \in parse[<<"primary", toks, i>>]}

ParseFactor(parse, toks, i) ==
  IF TokenAt(toks, i) \in SumOps
  THEN {Parsed(Unary(TokenAt(toks, i), p.out), p.rest) : p \in parse[<<"factor", toks, i + 1>>]}
  ELSE parse[<<"power", toks, i>>]

(* The loops of parseTerm and parseExpression, from their head on: the next *)
(* operand, its operator applied to it and to what was there before.        *)
LoopFrom(parse, toks, i, ops, operand, cycle) ==
  IF TokenAt(toks, i) \notin ops THEN {Parsed(<<>>, i)}
  ELSE Looped(parse, toks, cycle,
              {Parsed(Append(p.out, TokenAt(toks, i)), p.rest) : p \in parse[<<operand, toks, i + 1>>]})

ParseProducts(parse, toks, i) == LoopFrom(parse, toks, i, ProductOps, "factor", "products")

ParseTerm(parse, toks, i) == Looped(parse, toks, "products", parse[<<"factor", toks, i>>])

ParseSums(parse, toks, i) == LoopFrom(parse, toks, i, SumOps, "term", "sums")

ParseExpression(parse, toks, i) == Looped(parse, toks, "sums", parse[<<"term", toks, i>>])

Production == {"primary", "power", "factor", "products", "term", "sums", "expression"}

ParseNode(parse, p, toks, i) ==
  CASE p = "primary" -> ParsePrimary(parse, toks, i)
    [] p = "power" -> ParsePower(parse, toks, i)
    [] p = "factor" -> ParseFactor(parse, toks, i)
    [] p = "products" -> ParseProducts(parse, toks, i)
    [] p = "term" -> ParseTerm(parse, toks, i)
    [] p = "sums" -> ParseSums(parse, toks, i)
    [] p = "expression" -> ParseExpression(parse, toks, i)

Parse[c \in Production \X Input \X Index] == ParseNode(Parse, c[1], c[2], c[3])

(* evaluate: nothing may be left after the expression.                      *)
Evaluate(toks) == {p.out : p \in {x \in Parse[<<"expression", toks, 1>>] : x.rest > Len(toks)}}

-----------------------------------------------------------------------------
(* The second reading takes a span of tokens, from i to before j, and goes  *)
(* from the top down: it splits at an operator outside all parentheses, at  *)
(* the last sum, else at the last product, else a leading sign applies to   *)
(* all that follows, else at the first power.                               *)

(* The parentheses open after k tokens.                                     *)
Deep(toks, k) == Cardinality({x \in 1 .. k : toks[x] = "("}) - Cardinality({x \in 1 .. k : toks[x] = ")"})

(* The operators between two operands of the span, so none that is a sign.  *)
Infixes(toks, i, j, ops) ==
  {k \in i + 1 .. j - 1 : toks[k] \in ops /\ toks[k - 1] \in {Number, ")"} /\ Deep(toks, k) = Deep(toks, i - 1)}

LastIn(S) == CHOOSE k \in S : \A l \in S : l <= k
FirstIn(S) == CHOOSE k \in S : \A l \in S : k <= l

SplitAt(k, read, toks, i, j) ==
  UNION {{l \o Append(r, toks[k]) : r \in read[<<toks, k + 1, j>>]} : l \in read[<<toks, i, k>>]}

ReadNode(read, toks, i, j) ==
  LET sums == Infixes(toks, i, j, SumOps)
      products == Infixes(toks, i, j, ProductOps)
      powers == Infixes(toks, i, j, {"^"})
  IN  IF sums # {} THEN SplitAt(LastIn(sums), read, toks, i, j)
      ELSE IF products # {} THEN SplitAt(LastIn(products), read, toks, i, j)
      ELSE IF i < j /\ toks[i] \in SumOps THEN {Unary(toks[i], r) : r \in read[<<toks, i + 1, j>>]}
      ELSE IF powers # {} THEN SplitAt(FirstIn(powers), read, toks, i, j)
      ELSE IF i + 1 = j /\ toks[i] = Number THEN {<<Number>>}
      ELSE IF i + 2 < j /\ toks[i] = "(" /\ toks[j - 1] = ")" THEN read[<<toks, i + 1, j - 1>>]
      ELSE {}

Read[s \in Input \X Index \X Index] == ReadNode(Read, s[1], s[2], s[3])

Reading(toks) == Read[<<toks, 1, Len(toks) + 1>>]
=============================================================================
