------------------------------- MODULE Parser -------------------------------
(***************************************************************************)
(* The parser of build_ast.c reading a token stream.                       *)
(*                                                                         *)
(* The call stack of the recursive descent is `todo', what the functions   *)
(* that are active have still to do, innermost first.  A function call is  *)
(* replaced by what the function does (module Grammar), a required token   *)
(* is compared and passed by next_token.  The input is not fixed in        *)
(* advance: whenever the parser looks at the next token, any token the     *)
(* lexer and the symbol table can deliver there comes.                     *)
(***************************************************************************)
EXTENDS Grammar

CONSTANTS
  Languages     \* the parts of the language an input may be written in, by name:
                \*   tokens    the token classes the input is made of
                \*   depth     bound: pending tasks on the call stack
                \*   brackets  bound: brackets open at the same time

ASSUME LanguagesAssumption ==
  \A l \in DOMAIN Languages :
    /\ Languages[l].tokens \subseteq TokenClass /\ "EndOfInput" \in Languages[l].tokens
    /\ Languages[l].depth \in Nat /\ Languages[l].brackets \in Nat

VARIABLES
  language, \* the part of the language the input is written in
  todo,     \* the tasks of the active functions, innermost first
  token,    \* the class of the current token
  ahead,    \* the class of the token behind it once peek_token saw it, or "none"
  types,    \* whether the symbol table knows some type
  status,   \* "run", or how the parser ended
  open      \* history: the brackets passed and not closed, innermost first

vars == <<language, todo, token, ahead, types, status, open>>

Closing == [ParenthOpen |-> "ParenthClose", BracketOpen |-> "BracketClose",
            BraceOpen |-> "BraceClose"]
ClosingBrackets == {Closing[b] : b \in DOMAIN Closing}

Tokens == Languages[language].tokens

(* The classes the token behind t can have.  An identifier that names a     *)
(* type is a TypeIdentifier; the lexer takes a minus for the unary one only *)
(* right behind an opening parenthesis.  A minus there is a binary one when *)
(* a comment, which next_token passes, stands between the two.              *)
TokensBehind(t, typed) == IF t = "EndOfInput" THEN {t} ELSE
  {u \in Tokens : /\ u = "TypeIdentifier" => typed
                  /\ u = "UnaryMinus" => t = "ParenthOpen"}

(* Whether the bounds let the parser go on. *)
Within == Len(todo) <= Languages[language].depth /\ Len(open) <= Languages[language].brackets

Init ==
  /\ language \in DOMAIN Languages
  /\ todo = <<"p4program">>
  /\ token \in TokensBehind("none", FALSE)
  /\ ahead = "none"
  /\ types = FALSE
  /\ status = "run"
  /\ open = <<>>

-----------------------------------------------------------------------------
Running(sym) == status = "run" /\ todo # <<>> /\ Within /\ Head(todo) = sym

(* The functions that look at the token ahead, and where. *)
Peeks(sym, t) ==
  \/ sym = "externDeclaration_" /\ t = "Identifier"
  \/ sym = "methodPrototype" /\ t = "TypeIdentifier"
  \/ sym \in {Operators(n) : n \in 1..6} /\ t = "AngleOpen"

peek_token ==
  \E sym \in {"externDeclaration_", "methodPrototype"} \cup {Operators(n) : n \in 1..6} :
    /\ Running(sym)
    /\ Peeks(sym, token) /\ ahead = "none"
    /\ ahead' \in TokensBehind(token, types)
    /\ UNCHANGED <<language, todo, token, types, status, open>>

(* The token is the one the function needs.  Behind the end of the input    *)
(* array_get's assertion fails.                                             *)
next_token ==
  /\ Running(token)
  /\ token' \in IF ahead = "none" THEN TokensBehind(token, types) ELSE {ahead}
  /\ ahead' = "none"
  /\ todo' = Tail(todo)
  /\ open' = CASE token \in DOMAIN Closing -> <<token>> \o open
               [] token \in ClosingBrackets /\ open # <<>> -> Tail(open)
               [] OTHER -> open
  /\ status' = IF token = "EndOfInput" THEN "assert" ELSE status
  /\ UNCHANGED <<language, types>>

WrongToken ==
  /\ \E sym \in TokenClass \ {token} : Running(sym)
  /\ status' = "error"
  /\ UNCHANGED <<language, todo, token, ahead, types, open>>

(* Wrong on purpose: the new type is not known to the tokens that follow. *)
NewTypeForgotten ==
  /\ Running("new_type")
  /\ ahead' \in {ahead} \cup IF ahead = "Identifier" THEN {"TypeIdentifier"} \cap Tokens ELSE {}
  /\ todo' = Tail(todo)
  /\ UNCHANGED <<language, token, types, status, open>>

(* The class of an identifier that has been peeked is looked up again when  *)
(* next_token comes to it: it may be the type just declared, where the part *)
(* of the language has such names.                                          *)
new_type ==
  /\ Running("new_type")
  /\ types' = (types \/ token = "Identifier")
  /\ ahead' \in {ahead} \cup IF token = "Identifier" /\ ahead = "Identifier"
                             THEN {"TypeIdentifier"} \cap Tokens ELSE {}
  /\ todo' = Tail(todo)
  /\ UNCHANGED <<language, token, status, open>>

IsCall(sym) == sym \notin TokenClass \cup {"new_type"}

Call ==
  /\ status = "run" /\ todo # <<>> /\ Within
  /\ IsCall(Head(todo))
  /\ Peeks(Head(todo), token) => ahead # "none"
  /\ LET tasks == Production(Head(todo), token, ahead)
     IN IF tasks \in {Fail, AssertFails}
        THEN /\ status' = tasks[1]
             /\ UNCHANGED todo
        ELSE /\ todo' = tasks \o Tail(todo)
             /\ UNCHANGED status
  /\ UNCHANGED <<language, token, ahead, types, open>>

(* build_p4program returned: the program is accepted. *)
Accept ==
  /\ status = "run" /\ todo = <<>>
  /\ status' = "accepted"
  /\ UNCHANGED <<language, todo, token, ahead, types, open>>

Terminated == (status # "run" \/ ~Within) /\ UNCHANGED vars

Next == peek_token \/ next_token \/ WrongToken \/ new_type \/ Call \/ Accept \/ Terminated

(* The parser is a sequential program: a function that can go on without a  *)
(* further token does.                                                      *)
Fairness == WF_vars(Call) /\ WF_vars(peek_token) /\ WF_vars(new_type)

Spec == Init /\ [][Next]_vars /\ Fairness

-----------------------------------------------------------------------------
(* The tasks: the functions, the tokens that are required, and new_type.  No *)
(* function requires the end of the input.                                   *)
Symbols == {
  "nonTypeName", "typeDeclNonTypeName", "name", "typeDeclName", "typeParameterList",
  "optTypeParameters", "typeArg", "direction", "parameter", "parameter_",
  "parameterList", "typeOrVoid", "functionPrototype", "functionPrototype_",
  "methodPrototype", "methodPrototypes", "externDeclaration", "externDeclaration_",
  "integerTypeSize", "baseType", "baseType_", "typeArgumentList", "tupleType",
  "prefixedType", "typeName", "typeName_", "typeName__", "typeRef", "structField",
  "structFieldList", "headerTypeDeclaration", "headerUnionDeclaration",
  "structTypeDeclaration", "optInitializer", "specifiedIdentifier",
  "specifiedIdentifierList", "enumDeclaration", "enumDeclaration_",
  "enumDeclaration__", "derivedTypeDeclaration", "parserTypeDeclaration",
  "controlTypeDeclaration", "packageTypeDeclaration", "optConstructorParameters",
  "constantDeclaration", "typedefDeclaration", "typedefDeclaration_",
  "typeDeclaration", "argument", "argumentList", "variableDeclaration",
  "instantiation", "directApplication", "directApplication_", "prefixedNonTypeName",
  "arrayIndex", "arrayIndex_", "lvalueExpr", "lvalue", "lvalue_",
  "assignmentOrMethodCallStatement", "methodTypeArguments", "assignmentOrCall",
  "parserLocalElement", "localDeclaration", "parserLocalElements",
  "parserStatements", "parserBlockStatements", "parserStatement",
  "parserStatement_", "expressionList", "simpleKeysetExpression",
  "tupleKeysetExpression", "keysetExpression", "selectCase", "selectCaseList",
  "selectExpression", "stateExpression", "transitionStatement", "parserState",
  "parserStates", "moreParserStates", "parserDeclaration", "parserDeclaration_",
  "actionDeclaration", "keyElement", "keyElementList", "actionRef", "actionRef_",
  "actionList", "entry", "entriesList", "moreEntries", "tableProperty",
  "tableProperty_", "tablePropertyList", "moreTableProperties", "tableDeclaration",
  "controlLocalDeclaration", "controlLocalDeclarations", "controlDeclaration",
  "controlDeclaration_", "conditionalStatement", "branch", "else", "exitStatement",
  "returnStatement", "returnStatement_", "switchLabel", "switchCase", "switchCase_",
  "switchCases", "switchStatement", "statement", "statementOrDecl",
  "statementOrDecl_", "statementOrDeclList", "blockStatement", "identifierList",
  "errorDeclaration", "matchKindDeclaration", "functionDeclaration", "declaration",
  "declaration_", "p4program", "realTypeArg", "realTypeArgumentList",
  "expressionPrimary", "dotPrefixed", "castOrParenthesised", "moreTypeParameters",
  "moreTypeArguments", "moreParameters", "moreArguments",
  "moreSpecifiedIdentifiers", "moreExpressions", "moreKeysetExpressions",
  "moreIdentifiers", "moreRealTypeArguments", "expression1", "expression2",
  "expression3", "expression4", "expression5", "expression6", "operators1",
  "operators2", "operators3", "operators4", "operators5", "operators6"}

Tasks == Symbols \cup (TokenClass \ {"EndOfInput"}) \cup {"new_type"}

(* The type invariant: the call stack holds functions and tokens that are   *)
(* known, and never asks for the end of the input.  A token is taken for a  *)
(* type's name only when some type has been declared, also when it was      *)
(* peeked before the declaration.                                           *)
ParserTypeOK ==
  /\ language \in DOMAIN Languages
  /\ todo \in Seq(Tasks)
  /\ token \in Tokens
  /\ ahead \in Tokens \cup {"none"}
  /\ types \in BOOLEAN
  /\ status \in {"run", "error", "assert", "accepted"}
  /\ open \in Seq(DOMAIN Closing)
  /\ "TypeIdentifier" \in {token, ahead} => types

(* The brackets that are left to be closed after a task, innermost first; a *)
(* task that closes another one than the innermost leaves a mismatch that   *)
(* nothing closes.  Either branch of castOrParenthesised closes the         *)
(* parenthesis before it.                                                   *)
Bracket(task) == IF task = "castOrParenthesised" THEN "ParenthClose" ELSE task
LeftAfter(left, task) ==
  LET closes == Bracket(task) \in ClosingBrackets
      match  == left # <<>> /\ Head(left) = Bracket(task)
  IN CASE task \in DOMAIN Closing -> <<Closing[task]>> \o left
       [] closes /\ match         -> Tail(left)
       [] closes /\ ~match        -> <<"mismatch">> \o left
       [] OTHER                   -> left

(* The brackets that are left after the first k tasks. *)
ToClose == [i \in 1 .. Len(open) |-> Closing[open[i]]]
Left[k \in 0 .. Len(todo)] == IF k = 0 THEN ToClose ELSE LeftAfter(Left[k - 1], todo[k])

(* Across every nesting of lists, blocks, calls and expressions the         *)
(* functions on the call stack close the brackets that are open, innermost  *)
(* first and each with its own kind; so an accepted program is balanced.    *)
BracketsMatch == Left[Len(todo)] = <<>>

(* The assert(0) behind the last branch of a function that has tested the   *)
(* token with a token_is_... predicate is out of reach for every input, and *)
(* the input is never read past its end.  The one exception is const in a   *)
(* table: build_tableProperty tests the token before it passes const, and   *)
(* any other token behind const reaches its assert(0) (build_ast.c:1971).   *)
OnlyConstAsserts == status = "assert" => Head(todo) = "tableProperty_"

AtToken == status # "run" \/ ~Within \/ todo = <<>> \/ Head(todo) \in TokenClass

AtEmptyStatement ==
  todo # <<>> /\ token = "Semicolon" /\ Head(todo) \in {"parserStatements", "parserStatement"}

(* No loop of the parser turns forever on one token: it always comes to a   *)
(* token it passes or refuses, or it ends.  The exception is the empty      *)
(* statement of a parser state (see EmptyStatementPassed).                  *)
AlwaysAdvances == []<>(AtToken \/ AtEmptyStatement)

(* p4_grammar.bnf: an empty statement, a semicolon, is a parser statement.  *)
(* build_parserStatement does not pass the semicolon, and the list around   *)
(* it builds empty statements until the memory is used up.                  *)
EmptyStatementPassed == []<>AtToken
=============================================================================
