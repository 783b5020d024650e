----------------------------- MODULE Expression ----------------------------
(***************************************************************************)
(* The trees that build_expression builds (build_ast.c).  Grammar has the  *)
(* same functions as productions, without the nodes.                       *)
(*                                                                         *)
(* A function takes the tokens s and the position k of the current one and *)
(* returns whether it succeeds, the node, and the position it has come to. *)
(* A node is a tuple of its kind, the position of its token where it has   *)
(* one, and its children.  Types are the base types without a size.        *)
(***************************************************************************)
EXTENDS Integers, Sequences, FiniteSets, FiniteSetsExt

CONSTANTS
  Tokens,      \* the token classes of the input
  MaxTokens,   \* the length of the input
  AllUpTo      \* up to this length, also inputs that have been refused go on

G == INSTANCE Grammar

ASSUME ExpressionAssumption ==
  Tokens \subseteq G!TokenClass \ {"EndOfInput"} /\ MaxTokens \in Nat /\ AllUpTo \in Nat

(***************************************************************************)
(* The functions of build_ast.c.                                           *)
(***************************************************************************)
Token(s, k) == IF k <= Len(s) THEN s[k] ELSE "EndOfInput"

Built(ast, k)       == [ok |-> TRUE, ast |-> ast, at |-> k]
Error(k)            == [ok |-> FALSE, ast |-> << >>, at |-> k]
Node(result, f(_))  == IF result.ok THEN [result EXCEPT !.ast = f(@)] ELSE result
Expect(s, result, t) ==
  IF ~result.ok THEN result
  ELSE IF Token(s, result.at) = t THEN [result EXCEPT !.at = @ + 1] ELSE Error(result.at)

Prefixes == {"Exclamation", "Tilda", "UnaryMinus"}
BaseType == {"Bool", "Error", "String"}
Constants == {"Integer", "True", "False", "StringLiteral", "Error"}

RECURSIVE build_expression(_, _, _), operators(_, _, _), build_elements(_, _, _, _)

(* An element of a list: an expression, an argument or a type argument. *)
build_element(s, k, kind) ==
  IF \/ kind = "argument" /\ Token(s, k) = "Dontcare"
     \/ kind = "type" /\ Token(s, k) \in {"Dontcare"} \cup BaseType
  THEN Built(<<"leaf", k>>, k + 1)
  ELSE IF kind = "type" THEN Error(k) ELSE build_expression(s, k, 1)

(* build_expressionList, build_argumentList, build_realTypeArgumentList:    *)
(* done are the elements before position k.                                 *)
build_elements(s, k, kind, done) ==
  LET element == build_element(s, k, kind)
      all     == Append(done, element.ast)
  IN IF ~element.ok THEN element
     ELSE IF Token(s, element.at) = "Comma" THEN build_elements(s, element.at + 1, kind, all)
     ELSE Built(all, element.at)

build_list(s, k, kind) ==
  LET first == CASE kind = "expression" -> G!token_is_expression
                 [] kind = "argument"   -> G!token_is_argument
                 [] kind = "type"       -> G!token_is_realTypeArg
  IN IF Token(s, k) \in first THEN build_elements(s, k, kind, << >>) ELSE Built(<< >>, k)

build_arrayIndex(s, k) ==
  LET index == build_expression(s, k, 1)
  IN IF index.ok /\ Token(s, index.at) = "Colon"
     THEN Node(build_expression(s, index.at + 1, 1), LAMBDA e : <<"range", index.ast, e>>)
     ELSE index

build_expressionPrimary(s, k) ==
  LET t    == Token(s, k)
      next == Token(s, k + 1)
  IN CASE t \in Constants \cup G!token_is_nonTypeName -> Built(<<"leaf", k>>, k + 1)
       [] t = "DotPrefix" ->
            IF next = "Identifier" THEN Built(<<"dot", k + 1>>, k + 2) ELSE Error(k + 1)
       [] t = "BraceOpen" ->
            Expect(s, Node(build_list(s, k + 1, "expression"), LAMBDA l : <<"list", l>>), "BraceClose")
       [] t = "ParenthOpen" /\ next \in G!token_is_typeRef ->
            IF next \in BaseType /\ Token(s, k + 2) = "ParenthClose"
            THEN Node(build_expression(s, k + 3, 1), LAMBDA e : <<"cast", k + 1, e>>)
            ELSE Error(k + 2)
       [] t = "ParenthOpen" /\ next \notin G!token_is_typeRef ->
            Expect(s, build_expression(s, k + 1, 1), "ParenthClose")
       [] t \in Prefixes -> Node(build_expression(s, k + 1, 1), LAMBDA e : <<"unary", k, e>>)
       [] OTHER -> Error(k)

(* build_expression: an operand, then operators. *)
build_expression(s, k, priority_threshold) ==
  IF Token(s, k) \in G!token_is_expression
  THEN operators(s, build_expressionPrimary(s, k), priority_threshold)
  ELSE Error(k)

(* Wrong on purpose: operators of one priority group to the right. *)
binaryRight(s, expr, priority) ==
  Node(build_expression(s, expr.at + 1, priority), LAMBDA e : <<"binary", expr.at, expr.ast, e>>)

binaryExpr(s, expr, priority) ==
  Node(build_expression(s, expr.at + 1, priority + 1),
       LAMBDA e : <<"binary", expr.at, expr.ast, e>>)

(* Wrong on purpose: an operator of the threshold itself is left. *)
binds_above(priority, priority_threshold) == priority > priority_threshold

binds(priority, priority_threshold) == priority >= priority_threshold

(* The loop over the operators behind expr. *)
operators(s, expr, n) ==
  LET k         == expr.at
      t         == Token(s, k)
      type_args == t = "AngleOpen" /\ Token(s, k + 1) \in G!token_is_realTypeArg
      priority  == G!get_operator_priority(t)
  IN CASE ~expr.ok \/ t \notin G!token_is_exprOperator -> expr
       [] expr.ok /\ t = "DotPrefix" ->
            IF Token(s, k + 1) \in G!token_is_name
            THEN operators(s, Built(<<"member", expr.ast, k + 1>>, k + 2), n)
            ELSE Error(k + 1)
       [] expr.ok /\ t = "BracketOpen" ->
            operators(s, Expect(s, Node(build_arrayIndex(s, k + 1),
                                        LAMBDA i : <<"index", expr.ast, i>>), "BracketClose"), n)
       [] expr.ok /\ t = "ParenthOpen" ->
            operators(s, Expect(s, Node(build_list(s, k + 1, "argument"),
                                        LAMBDA l : <<"call", expr.ast, l>>), "ParenthClose"), n)
       [] expr.ok /\ type_args ->
            operators(s, Expect(s, Node(build_list(s, k + 1, "type"),
                                        LAMBDA l : <<"types", expr.ast, l>>), "AngleClose"), n)
       [] expr.ok /\ t = "Equal" ->
            operators(s, Node(build_expression(s, k + 1, 1), LAMBDA e : <<"pair", expr.ast, e>>), n)
       [] expr.ok /\ t \in G!token_is_binaryOperator \ {"Equal"} /\ ~type_args ->
            IF binds(priority, n) THEN operators(s, binaryExpr(s, expr, priority), n) ELSE expr

(***************************************************************************)
(* What the tree should be, read off the whole sequence of tokens.         *)
(***************************************************************************)
Openings == {"ParenthOpen", "BracketOpen", "BraceOpen"}
Closings == {"ParenthClose", "BracketClose", "BraceClose"}

(* An angle bracket before a type opens type arguments, and the next one    *)
(* behind it closes them.                                                   *)
OpensTypes(s, k)  == s[k] = "AngleOpen" /\ Token(s, k + 1) \in G!token_is_realTypeArg
ClosesTypes(s, k) ==
  /\ s[k] = "AngleClose"
  /\ \E j \in 1 .. k - 1 : OpensTypes(s, j) /\ \A m \in j + 1 .. k - 1 : s[m] # "AngleClose"
Opens(s, k)  == s[k] \in Openings \/ OpensTypes(s, k)
Closes(s, k) == s[k] \in Closings \/ ClosesTypes(s, k)

(* The positions of lo .. hi that are in no bracket opened there. *)
Outside(s, lo, hi) ==
  {k \in lo .. hi : Cardinality({j \in lo .. k - 1 : Opens(s, j)})
                      = Cardinality({j \in lo .. k : Closes(s, j)})}

(* An operator that takes all that follows it as its operand. *)
Swallows(s, k) ==
  s[k] \in Prefixes \cup {"Equal"} \/ (s[k] = "ParenthOpen" /\ Token(s, k + 1) \in BaseType)
IsBinary(s, k) ==
  s[k] \in G!token_is_binaryOperator \ {"Equal"} /\ ~OpensTypes(s, k) /\ ~ClosesTypes(s, k)

None == <<"none">>
RECURSIVE Tree(_, _, _), Trees(_, _, _, _)

(* The elements between the commas of lo .. hi; None among them if one is   *)
(* none.                                                                    *)
Trees(s, lo, hi, kind) ==
  LET commas  == {k \in Outside(s, lo, hi) : s[k] = "Comma"}
      end     == IF commas = {} THEN hi ELSE Min(commas) - 1
      simple  == IF kind = "type" THEN {"Dontcare"} \cup BaseType ELSE {"Dontcare"}
      element == IF lo = end /\ kind # "expression" /\ s[lo] \in simple THEN <<"leaf", lo>>
                 ELSE IF kind = "type" THEN None ELSE Tree(s, lo, end)
  IN <<element>> \o IF commas = {} THEN << >> ELSE Trees(s, end + 2, hi, kind)

Listed(s, lo, hi, kind, f(_)) ==
  LET trees == IF lo > hi THEN << >> ELSE Trees(s, lo, hi, kind)
  IN IF \E j \in DOMAIN trees : trees[j] = None THEN None ELSE f(trees)

Both(l, r, f(_, _)) == IF None \in {l, r} THEN None ELSE f(l, r)

(* An operand: a name or constant, something in brackets, and what stands   *)
(* behind it: members, indexes, arguments and type arguments.               *)
Operand(s, lo, hi) ==
  LET opening == {k \in Outside(s, lo, hi) : Opens(s, k)}
      m       == IF Closes(s, hi) /\ opening # {} THEN Max(opening) ELSE hi
      pair    == <<s[m], s[hi]>>
      colons  == {k \in Outside(s, m + 1, hi - 1) : s[k] = "Colon"}
      before  == Tree(s, lo, m - 1)
      Behind(f(_)) == IF before = None THEN None ELSE f(before)
  IN CASE lo = hi -> IF s[lo] \in Constants \cup G!token_is_nonTypeName THEN <<"leaf", lo>> ELSE None
       [] lo < hi /\ m = hi ->
           (CASE s[hi - 1] # "DotPrefix" -> None
              [] s[hi - 1] = "DotPrefix" /\ hi - 1 = lo ->
                   IF s[hi] = "Identifier" THEN <<"dot", hi>> ELSE None
              [] s[hi - 1] = "DotPrefix" /\ hi - 1 > lo ->
                   LET l == Tree(s, lo, hi - 2)
                   IN IF l = None \/ s[hi] \notin G!token_is_name THEN None ELSE <<"member", l, hi>>)
       [] m < hi /\ m = lo ->
           (CASE pair = <<"ParenthOpen", "ParenthClose">> ->
                   IF Token(s, lo + 1) \in G!token_is_typeRef THEN None ELSE Tree(s, lo + 1, hi - 1)
              [] pair = <<"BraceOpen", "BraceClose">> ->
                   Listed(s, lo + 1, hi - 1, "expression", LAMBDA l : <<"list", l>>)
              [] OTHER -> None)
       [] m < hi /\ lo < m ->
           (CASE pair = <<"ParenthOpen", "ParenthClose">> ->
                   Behind(LAMBDA e : Listed(s, m + 1, hi - 1, "argument", LAMBDA l : <<"call", e, l>>))
              [] pair = <<"AngleOpen", "AngleClose">> ->
                   Behind(LAMBDA e : Listed(s, m + 1, hi - 1, "type", LAMBDA l : <<"types", e, l>>))
              [] pair = <<"BracketOpen", "BracketClose">> /\ colons = {} ->
                   Both(before, Tree(s, m + 1, hi - 1), LAMBDA e, i : <<"index", e, i>>)
              [] pair = <<"BracketOpen", "BracketClose">> /\ colons # {} ->
                   Both(before, Both(Tree(s, m + 1, Min(colons) - 1), Tree(s, Min(colons) + 1, hi - 1),
                                     LAMBDA i, j : <<"range", i, j>>),
                        LAMBDA e, i : <<"index", e, i>>)
              [] OTHER -> None)

(* The tree of the tokens lo .. hi, or None.  A binary operator splits the  *)
(* tokens before the first swallowing one at its last operator of least     *)
(* priority.                                                                *)
Tree(s, lo, hi) ==
  LET out       == Outside(s, lo, hi)
      swallows  == {k \in out : Swallows(s, k)}
      first     == Min(swallows)
      binary    == {k \in out : IsBinary(s, k) /\ (swallows = {} \/ k < first)}
      priority  == Min({G!get_operator_priority(s[k]) : k \in binary})
      split     == Max({k \in binary : G!get_operator_priority(s[k]) = priority})
      Rest(k)   == Tree(s, k, hi)
  IN IF lo > hi THEN None
     ELSE IF binary # {}
     THEN Both(Tree(s, lo, split - 1), Rest(split + 1), LAMBDA l, r : <<"binary", split, l, r>>)
     ELSE IF swallows = {} THEN Operand(s, lo, hi)
     ELSE IF s[first] = "Equal"
     THEN Both(Tree(s, lo, first - 1), Rest(first + 1), LAMBDA l, r : <<"pair", l, r>>)
     ELSE IF first # lo THEN None
     ELSE IF s[first] \in Prefixes
     THEN Both(Rest(lo + 1), << >>, LAMBDA e, unused : <<"unary", lo, e>>)
     ELSE IF Token(s, lo + 2) # "ParenthClose" THEN None
     ELSE Both(Rest(lo + 3), << >>, LAMBDA e, unused : <<"cast", lo + 1, e>>)
(***************************************************************************)
(* All short inputs.                                                       *)
(***************************************************************************)
VARIABLES
  tokens,  \* the tokens of the expression and of what follows it
  result   \* what build_expression(1) returns for them

vars == <<tokens, result>>

Init == tokens = << >> /\ result = build_expression(<< >>, 1, 1)

(* Another token.  An input that the parser has refused, or left, before    *)
(* its last token is lengthened only up to AllUpTo.                         *)
GoesOn == Len(tokens) < MaxTokens /\ (Len(tokens) < AllUpTo \/ result.at > Len(tokens))

Read(t) ==
  /\ GoesOn
  /\ tokens' = Append(tokens, t)
  /\ result' = build_expression(tokens', 1, 1)

Complete == ~GoesOn /\ UNCHANGED vars

Next == (\E t \in Tokens : Read(t)) \/ Complete

Spec == Init /\ [][Next]_vars

(* The tree that build_expression returns is that of the tokens it has      *)
(* passed: every operator has the operands that priorities, grouping to the *)
(* left and brackets give it, with a unary operator, a cast and an equals   *)
(* sign taking all that follows.                                            *)
TreeIsRight == result.ok => result.ast = Tree(tokens, 1, result.at - 1)

(* build_expression passes the whole of every sequence of tokens that is an *)
(* expression: it neither refuses one nor stops within it.                  *)
PassesExpressions ==
  Tree(tokens, 1, Len(tokens)) # None => result.ok /\ result.at = Len(tokens) + 1

=============================================================================
