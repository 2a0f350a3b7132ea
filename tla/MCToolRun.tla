------------------------------ MODULE MCToolRun -----------------------------
(* Tools of every kind, and a model that writes what it likes.     *)
EXTENDS ToolRun, TLC

CONSTANTS i1, i2, home, other, local

MCOrigins == {home, other, local}
MCLiterals == (local :> "sensitive")

Query == ObjectSchema("query" :> StrSchema(1, 2) @@ "size" :> NumSchema, {"query"}, TRUE)
Ticks == ObjectSchema("ids" :> ListSchema(StrSchema(1, 1)), {}, TRUE)
Expr == ObjectSchema("expression" :> StrSchema(1, 1), {"expression"}, TRUE)

Flat == {StrSchema(1, 1), StrSchema(1, 2), NumSchema, NoSchema}
MCSchemas == Flat \cup {ListSchema(StrSchema(1, 1)), Query, Ticks, Expr}
MCDepth(s) == CASE s \in Flat -> 0 [] s = Ticks -> 2 [] OTHER -> 1

Fetches(schema, rule, headers) ==
  [schema |-> schema, rule |-> rule, headers |-> headers, first |-> home, second |-> other]

AllTools ==
  "web_search" :> Fetches(Query, "retry", FALSE) @@ "package_info" :> Fetches(Query, "fallback", FALSE)
  @@ "weather" :> Fetches(Query, "chain", FALSE) @@ "github" :> Fetches(Query, "single", TRUE)
  @@ "self_reputation" :> Fetches(Ticks, "storage", FALSE) @@ "calculator" :> Fetches(Expr, "calculator", FALSE)

(* Each agent has tools of its own.                                         *)
Kit(names) == [n \in names |-> AllTools[n]]
MCTools ==
  "openai" :> Kit({"self_reputation", "web_search", "github"})
  @@ "gemini" :> Kit({"self_reputation", "package_info"})
  @@ "anthropic" :> Kit({"self_reputation", "weather", "calculator"})

MCArguments ==
  { Null, Str(1), List(<<>>), Object(<<>>), Object("query" :> Str(2)), Object("query" :> Str(0)),
    Object("query" :> Str(3)), Object("query" :> Num), Object("query" :> Str(1) @@ "size" :> Num),
    Object("query" :> Str(1) @@ "more" :> Num), Object("ids" :> List(<<Str(1)>>)),
    Object("ids" :> List(<<Str(1), Num>>)), Object("expression" :> Str(1)),
    Object("expression" :> Str(1) @@ "constructor" :> Object(<<>>)),
    Object("query" :> Str(1) @@ "constructor" :> Str(1)) }

MCValues == MCArguments \cup {Str(n) : n \in 0 .. 3} \cup {Num, List(<<Str(1)>>), List(<<Str(1), Num>>)}

MCBlocks ==
  {TextBlock(TRUE), TextBlock(FALSE), Junk, BrokenCall, CallBlock("eval", i1, Absent),
   CallBlock("self_reputation", Absent, Absent)}
  \cup {CallBlock("self_reputation", i, "sig") : i \in {i1, i2}}
  \cup {CallBlock(n, i1, Absent) : n \in DOMAIN AllTools \ {"self_reputation"}}

(* All of up to three tokens, and two operators on three operands, with a   *)
(* sign or parentheses anywhere.                                            *)
Tokens == {Number, "-", "/", "^", "(", ")"}
Operators == {"-", "/", "^"}
Operands == {<<Number>>, <<"-", Number>>}

MCExpressions ==
  UNION {[1 .. n -> Tokens] : n \in 1 .. 3}
  \cup {a \o <<o>> \o b \o <<p>> \o c : a, b, c \in Operands, o, p \in Operators}
  \cup {<<"(">> \o a \o <<o, Number, ")", p, Number>> : a \in Operands, o, p \in Operators}
  \cup {a \o <<o, "(", Number, p, Number, ")">> : a \in Operands, o, p \in Operators}
=============================================================================
