---------------------------- MODULE ParserProofs ----------------------------
(***************************************************************************)
(* Proofs about the parser (module Parser) for every choice of the parts   *)
(* of the language: what the functions on the call stack have still to do  *)
(* closes the open brackets, and no function but one reaches its assert.   *)
(* The bounds on the stack and the brackets are not used.                  *)
(***************************************************************************)
EXTENDS Parser, WellFoundedInduction, TLAPS

LEMMA LeastFailure ==
  ASSUME NEW T \in SUBSET Nat, T # {}
  PROVE  \E n \in T : n - 1 \notin T
<1>1. PICK n \in T : \A y \in T : <<y, n>> \notin OpToRel(<, Nat)
  BY NatLessThanWellFounded, WFMin
<1>2. \A y \in T : ~(y < n)
  BY <1>1 DEF OpToRel
<1> QED BY <1>2

(* What tasks do to the brackets that are to be closed. *)
Stacks == Seq(ClosingBrackets)

Closes(task, before, after) ==
  IF task \in DOMAIN Closing THEN after = <<Closing[task]>> \o before
  ELSE IF Bracket(task) \in ClosingBrackets
       THEN before # <<>> /\ Head(before) = Bracket(task) /\ after = Tail(before)
       ELSE after = before

Through(tasks, g, before, after) ==
  /\ g \in [0 .. Len(tasks) -> Stacks] /\ g[0] = before /\ g[Len(tasks)] = after
  /\ \A i \in 1 .. Len(tasks) : Closes(tasks[i], g[i - 1], g[i])

Unwind(tasks, before, after) == \E g : Through(tasks, g, before, after)

LEMMA BracketsAre ==
  /\ DOMAIN Closing = {"ParenthOpen", "BracketOpen", "BraceOpen"}
  /\ Closing["ParenthOpen"] = "ParenthClose" /\ Closing["BracketOpen"] = "BracketClose"
  /\ Closing["BraceOpen"] = "BraceClose"
  /\ ClosingBrackets = {"ParenthClose", "BracketClose", "BraceClose"}
  /\ \A task : task # "castOrParenthesised" => Bracket(task) = task
<1>1. /\ DOMAIN Closing = {"ParenthOpen", "BracketOpen", "BraceOpen"}
      /\ Closing["ParenthOpen"] = "ParenthClose" /\ Closing["BracketOpen"] = "BracketClose"
      /\ Closing["BraceOpen"] = "BraceClose"
  BY DEF Closing
<1> QED BY <1>1 DEF ClosingBrackets, Bracket

LEMMA UnwindConcat ==
  ASSUME NEW A, NEW p \in Seq(A), NEW q \in Seq(A), NEW x, NEW y, NEW z,
         Unwind(p, x, y), Unwind(q, y, z)
  PROVE  Unwind(p \o q, x, z)
<1>1. PICK g : Through(p, g, x, y)
  BY DEF Unwind
<1>2. PICK h : Through(q, h, y, z)
  BY DEF Unwind
<1>3. Len(p) \in Nat /\ Len(q) \in Nat /\ Len(p \o q) = Len(p) + Len(q)
  OBVIOUS
<1> DEFINE f == [i \in 0 .. Len(p \o q) |-> IF i <= Len(p) THEN g[i] ELSE h[i - Len(p)]]
<1>4. f \in [0 .. Len(p \o q) -> Stacks]
  <2>1. ASSUME NEW i \in 0 .. Len(p \o q) PROVE f[i] \in Stacks
    <3>1. CASE i <= Len(p)
      BY <1>1, <1>3, <3>1 DEF Through
    <3>2. CASE ~(i <= Len(p))
      <4>1. i - Len(p) \in 0 .. Len(q)
        BY <1>3, <3>2
      <4> QED BY <1>2, <3>2, <4>1 DEF Through
    <3> QED BY <3>1, <3>2
  <2> QED BY <2>1
<1>5. f[0] = x
  BY <1>1, <1>3 DEF Through
<1>6. f[Len(p \o q)] = z
  <2>1. CASE Len(q) = 0
    BY <1>1, <1>2, <1>3, <2>1 DEF Through
  <2>2. CASE Len(q) # 0
    BY <1>2, <1>3, <2>2 DEF Through
  <2> QED BY <2>1, <2>2
<1>7. ASSUME NEW i \in 1 .. Len(p \o q) PROVE Closes((p \o q)[i], f[i - 1], f[i])
  <2>1. CASE i <= Len(p)
    <3>1. i \in 1 .. Len(p) /\ (p \o q)[i] = p[i] /\ f[i] = g[i] /\ f[i - 1] = g[i - 1]
      BY <1>3, <2>1
    <3> QED BY <1>1, <3>1 DEF Through
  <2>2. CASE ~(i <= Len(p))
    <3>1. /\ i - Len(p) \in 1 .. Len(q) /\ (p \o q)[i] = q[i - Len(p)] /\ f[i] = h[i - Len(p)]
          /\ (i - Len(p)) - 1 = (i - 1) - Len(p)
      BY <1>3, <2>2
    <3>2. f[i - 1] = h[(i - Len(p)) - 1]
      <4>1. CASE i - 1 <= Len(p)
        <5>1. i - 1 = Len(p) /\ (i - Len(p)) - 1 = 0 /\ f[i - 1] = g[Len(p)]
          BY <1>3, <2>2, <4>1
        <5> QED BY <1>1, <1>2, <5>1 DEF Through
      <4>2. CASE ~(i - 1 <= Len(p))
        BY <1>3, <3>1, <4>2
      <4> QED BY <4>1, <4>2
    <3> HIDE DEF f
    <3> QED BY <1>2, <3>1, <3>2 DEF Through
  <2> QED BY <2>1, <2>2
<1> HIDE DEF f
<1>8. Through(p \o q, f, x, z)
  BY <1>4, <1>5, <1>6, <1>7 DEF Through
<1> QED BY <1>8 DEF Unwind

(* The first task is done, and the others remain. *)
LEMMA UnwindTail ==
  ASSUME NEW A, NEW tasks \in Seq(A), tasks # <<>>, NEW x, NEW z, Unwind(tasks, x, z)
  PROVE  \E y \in Stacks : Closes(Head(tasks), x, y) /\ Unwind(Tail(tasks), y, z)
<1>1. PICK g : Through(tasks, g, x, z)
  BY DEF Unwind
<1>2. Len(tasks) \in Nat \ {0} /\ Len(Tail(tasks)) = Len(tasks) - 1 /\ Head(tasks) = tasks[1]
  OBVIOUS
<1> DEFINE h == [i \in 0 .. Len(Tail(tasks)) |-> g[i + 1]]
<1>3. g[1] \in Stacks /\ Closes(Head(tasks), x, g[1])
  <2>1. 1 \in 1 .. Len(tasks) /\ 1 \in 0 .. Len(tasks) /\ 1 - 1 = 0
    BY <1>2
  <2>2. Closes(tasks[1], g[1 - 1], g[1])
    BY <1>1, <2>1 DEF Through
  <2> QED BY <1>1, <1>2, <2>1, <2>2 DEF Through
<1>4. h \in [0 .. Len(Tail(tasks)) -> Stacks] /\ h[0] = g[1] /\ h[Len(Tail(tasks))] = z
  BY <1>1, <1>2 DEF Through
<1>5. ASSUME NEW i \in 1 .. Len(Tail(tasks)) PROVE Closes(Tail(tasks)[i], h[i - 1], h[i])
  <2>1. /\ i + 1 \in 1 .. Len(tasks) /\ Tail(tasks)[i] = tasks[i + 1] /\ h[i] = g[i + 1]
        /\ h[i - 1] = g[(i + 1) - 1]
    BY <1>2
  <2> HIDE DEF h
  <2> QED BY <1>1, <2>1 DEF Through
<1> HIDE DEF h
<1>6. Through(Tail(tasks), h, g[1], z)
  BY <1>4, <1>5 DEF Through
<1> QED BY <1>3, <1>6 DEF Unwind
-----------------------------------------------------------------------------
(* The tasks that leave the brackets alone. *)
Plain == {task \in Tasks : task \notin DOMAIN Closing /\ Bracket(task) \notin ClosingBrackets}

Even(tasks) == tasks \in Seq(Tasks) /\ \A s \in Stacks : Unwind(tasks, s, s)

(* One pair of brackets among tasks that leave the brackets alone. *)
Pair(tasks, o, c) ==
  /\ o \in 1 .. Len(tasks) /\ c \in 1 .. Len(tasks) /\ o < c
  /\ tasks[o] \in DOMAIN Closing /\ Bracket(tasks[c]) = Closing[tasks[o]] /\ tasks[c] \in Tasks
  /\ tasks[c] \notin DOMAIN Closing
  /\ \A i \in (1 .. Len(tasks)) \ {o, c} : tasks[i] \in Plain

LEMMA PlainCloses == \A task \in Plain : \A s : Closes(task, s, s)
BY DEF Plain, Closes

LEMMA EvenPlain ==
  ASSUME NEW tasks \in Seq(Plain)
  PROVE  Even(tasks)
<1>1. tasks \in Seq(Tasks)
  BY DEF Plain
<1>2. ASSUME NEW s \in Stacks PROVE Unwind(tasks, s, s)
  <2> DEFINE g == [i \in 0 .. Len(tasks) |-> s]
  <2>1. g \in [0 .. Len(tasks) -> Stacks] /\ g[0] = s /\ g[Len(tasks)] = s
    OBVIOUS
  <2>2. ASSUME NEW i \in 1 .. Len(tasks) PROVE Closes(tasks[i], g[i - 1], g[i])
    <3>1. g[i - 1] = s /\ g[i] = s /\ tasks[i] \in Plain
      OBVIOUS
    <3> HIDE DEF g
    <3> QED BY <3>1, PlainCloses
  <2> HIDE DEF g
  <2>3. Through(tasks, g, s, s)
    BY <2>1, <2>2 DEF Through
  <2> QED BY <2>3 DEF Unwind
<1> QED BY <1>1, <1>2 DEF Even

LEMMA EvenPair ==
  ASSUME NEW A, NEW tasks \in Seq(A), NEW o, NEW c, Pair(tasks, o, c)
  PROVE  Even(tasks)
<1>1. tasks \in Seq(Tasks)
  <2>1. \A i \in 1 .. Len(tasks) : tasks[i] \in Tasks
    <3>1. tasks[o] \in Tasks /\ tasks[c] \in Tasks
      BY BracketsAre DEF Pair, Tasks, TokenClass
    <3> QED BY <3>1 DEF Pair, Plain
  <2> QED BY <2>1
<1>2. ASSUME NEW s \in Stacks PROVE Unwind(tasks, s, s)
  <2> DEFINE b == Closing[tasks[o]]
             g == [i \in 0 .. Len(tasks) |-> IF o <= i /\ i < c THEN <<b>> \o s ELSE s]
  <2>1. b \in ClosingBrackets /\ <<b>> \o s \in Stacks /\ <<b>> \o s # <<>>
        /\ Head(<<b>> \o s) = b /\ Tail(<<b>> \o s) = s
    <3>1. b \in ClosingBrackets
      BY DEF Pair, ClosingBrackets
    <3> QED BY <3>1 DEF Stacks
  <2>2. o \in Nat \ {0} /\ c \in Nat /\ o < c /\ c <= Len(tasks)
    BY DEF Pair
  <2> HIDE DEF b
  <2>3. g \in [0 .. Len(tasks) -> Stacks] /\ g[0] = s /\ g[Len(tasks)] = s
    <3>1. ASSUME NEW w \in Stacks
          PROVE [i \in 0 .. Len(tasks) |-> IF o <= i /\ i < c THEN w ELSE s] \in [0 .. Len(tasks) -> Stacks]
      OBVIOUS
    <3>2. 0 \in 0 .. Len(tasks) /\ Len(tasks) \in 0 .. Len(tasks) /\ ~(o <= 0) /\ ~(Len(tasks) < c)
      BY <2>2
    <3> QED BY <2>1, <3>1, <3>2
  <2>4. ASSUME NEW i \in 1 .. Len(tasks) PROVE Closes(tasks[i], g[i - 1], g[i])
    <3>1. CASE i = o
      <4>1. g[i - 1] = s /\ g[i] = <<b>> \o s
        BY <2>2, <3>1
      <4> HIDE DEF g
      <4> QED BY <3>1, <4>1 DEF Pair, Closes, b
    <3>2. CASE i = c
      <4>1. g[i - 1] = <<b>> \o s /\ g[i] = s
        BY <2>2, <3>2
      <4>2. Bracket(tasks[c]) = b /\ tasks[c] \notin DOMAIN Closing
        BY DEF Pair, b
      <4> HIDE DEF g
      <4> QED BY <2>1, <3>2, <4>1, <4>2 DEF Closes
    <3>3. CASE i # o /\ i # c
      <4>1. g[i - 1] = g[i] /\ tasks[i] \in Plain
        BY <2>2, <3>3 DEF Pair
      <4> HIDE DEF g
      <4> QED BY <4>1, PlainCloses
    <3> QED BY <3>1, <3>2, <3>3
  <2> HIDE DEF g
  <2>5. Through(tasks, g, s, s)
    BY <2>3, <2>4 DEF Through
  <2> QED BY <2>5 DEF Unwind
<1> QED BY <1>1, <1>2 DEF Even

LEMMA EvenConcat ==
  ASSUME NEW p, NEW q, Even(p), Even(q)
  PROVE  Even(p \o q)
<1>1. p \in Seq(Tasks) /\ q \in Seq(Tasks) /\ p \o q \in Seq(Tasks)
  BY DEF Even
<1>2. \A s \in Stacks : Unwind(p \o q, s, s)
  BY <1>1, UnwindConcat DEF Even
<1> QED BY <1>1, <1>2 DEF Even

LEMMA PlainNames ==
  /\ "nonTypeName" \in Plain /\ "typeDeclNonTypeName" \in Plain /\ "name" \in Plain
  /\ "typeDeclName" \in Plain /\ "typeParameterList" \in Plain
  /\ "optTypeParameters" \in Plain /\ "typeArg" \in Plain /\ "direction" \in Plain
  /\ "parameter" \in Plain /\ "parameter_" \in Plain /\ "parameterList" \in Plain
  /\ "typeOrVoid" \in Plain /\ "functionPrototype" \in Plain
  /\ "functionPrototype_" \in Plain /\ "methodPrototype" \in Plain
  /\ "methodPrototypes" \in Plain /\ "externDeclaration" \in Plain
  /\ "externDeclaration_" \in Plain /\ "integerTypeSize" \in Plain
  /\ "baseType" \in Plain /\ "baseType_" \in Plain /\ "typeArgumentList" \in Plain
  /\ "tupleType" \in Plain /\ "prefixedType" \in Plain /\ "typeName" \in Plain
  /\ "typeName_" \in Plain /\ "typeName__" \in Plain /\ "typeRef" \in Plain
  /\ "structField" \in Plain /\ "structFieldList" \in Plain
  /\ "headerTypeDeclaration" \in Plain /\ "headerUnionDeclaration" \in Plain
  /\ "structTypeDeclaration" \in Plain /\ "optInitializer" \in Plain
  /\ "specifiedIdentifier" \in Plain /\ "specifiedIdentifierList" \in Plain
  /\ "enumDeclaration" \in Plain /\ "enumDeclaration_" \in Plain
  /\ "enumDeclaration__" \in Plain /\ "derivedTypeDeclaration" \in Plain
  /\ "parserTypeDeclaration" \in Plain /\ "controlTypeDeclaration" \in Plain
  /\ "packageTypeDeclaration" \in Plain /\ "optConstructorParameters" \in Plain
  /\ "constantDeclaration" \in Plain /\ "typedefDeclaration" \in Plain
  /\ "typedefDeclaration_" \in Plain /\ "typeDeclaration" \in Plain
  /\ "argument" \in Plain /\ "argumentList" \in Plain
  /\ "variableDeclaration" \in Plain /\ "instantiation" \in Plain
  /\ "directApplication" \in Plain /\ "directApplication_" \in Plain
  /\ "prefixedNonTypeName" \in Plain /\ "arrayIndex" \in Plain
  /\ "arrayIndex_" \in Plain /\ "lvalueExpr" \in Plain /\ "lvalue" \in Plain
  /\ "lvalue_" \in Plain /\ "assignmentOrMethodCallStatement" \in Plain
  /\ "methodTypeArguments" \in Plain /\ "assignmentOrCall" \in Plain
  /\ "parserLocalElement" \in Plain /\ "localDeclaration" \in Plain
  /\ "parserLocalElements" \in Plain /\ "parserStatements" \in Plain
  /\ "parserBlockStatements" \in Plain /\ "parserStatement" \in Plain
  /\ "parserStatement_" \in Plain /\ "expressionList" \in Plain
  /\ "simpleKeysetExpression" \in Plain /\ "tupleKeysetExpression" \in Plain
  /\ "keysetExpression" \in Plain /\ "selectCase" \in Plain
  /\ "selectCaseList" \in Plain /\ "selectExpression" \in Plain
  /\ "stateExpression" \in Plain /\ "transitionStatement" \in Plain
  /\ "parserState" \in Plain /\ "parserStates" \in Plain
  /\ "moreParserStates" \in Plain /\ "parserDeclaration" \in Plain
  /\ "parserDeclaration_" \in Plain /\ "actionDeclaration" \in Plain
  /\ "keyElement" \in Plain /\ "keyElementList" \in Plain /\ "actionRef" \in Plain
  /\ "actionRef_" \in Plain /\ "actionList" \in Plain /\ "entry" \in Plain
  /\ "entriesList" \in Plain /\ "moreEntries" \in Plain
  /\ "tableProperty" \in Plain /\ "tableProperty_" \in Plain
  /\ "tablePropertyList" \in Plain /\ "moreTableProperties" \in Plain
  /\ "tableDeclaration" \in Plain /\ "controlLocalDeclaration" \in Plain
  /\ "controlLocalDeclarations" \in Plain /\ "controlDeclaration" \in Plain
  /\ "controlDeclaration_" \in Plain /\ "conditionalStatement" \in Plain
  /\ "branch" \in Plain /\ "else" \in Plain /\ "exitStatement" \in Plain
  /\ "returnStatement" \in Plain /\ "returnStatement_" \in Plain
  /\ "switchLabel" \in Plain /\ "switchCase" \in Plain /\ "switchCase_" \in Plain
  /\ "switchCases" \in Plain /\ "switchStatement" \in Plain
  /\ "statement" \in Plain /\ "statementOrDecl" \in Plain
  /\ "statementOrDecl_" \in Plain /\ "statementOrDeclList" \in Plain
  /\ "blockStatement" \in Plain /\ "identifierList" \in Plain
  /\ "errorDeclaration" \in Plain /\ "matchKindDeclaration" \in Plain
  /\ "functionDeclaration" \in Plain /\ "declaration" \in Plain
  /\ "declaration_" \in Plain /\ "p4program" \in Plain /\ "realTypeArg" \in Plain
  /\ "realTypeArgumentList" \in Plain /\ "expressionPrimary" \in Plain
  /\ "dotPrefixed" \in Plain /\ "moreTypeParameters" \in Plain
  /\ "moreTypeArguments" \in Plain /\ "moreParameters" \in Plain
  /\ "moreArguments" \in Plain /\ "moreSpecifiedIdentifiers" \in Plain
  /\ "moreExpressions" \in Plain /\ "moreKeysetExpressions" \in Plain
  /\ "moreIdentifiers" \in Plain /\ "moreRealTypeArguments" \in Plain
  /\ "expression1" \in Plain /\ "expression2" \in Plain /\ "expression3" \in Plain
  /\ "expression4" \in Plain /\ "expression5" \in Plain /\ "expression6" \in Plain
  /\ "operators1" \in Plain /\ "operators2" \in Plain /\ "operators3" \in Plain
  /\ "operators4" \in Plain /\ "operators5" \in Plain /\ "operators6" \in Plain
  /\ "Semicolon" \in Plain /\ "Identifier" \in Plain /\ "TypeIdentifier" \in Plain
  /\ "String" \in Plain /\ "Integer" \in Plain /\ "AngleOpen" \in Plain
  /\ "AngleClose" \in Plain /\ "Dontcare" \in Plain /\ "Colon" \in Plain
  /\ "DotPrefix" \in Plain /\ "Comma" \in Plain /\ "Minus" \in Plain
  /\ "UnaryMinus" \in Plain /\ "Plus" \in Plain /\ "Star" \in Plain
  /\ "Slash" \in Plain /\ "Equal" \in Plain /\ "TwoEqual" \in Plain
  /\ "ExclamationEqual" \in Plain /\ "Exclamation" \in Plain /\ "TwoPipe" \in Plain
  /\ "AngleOpenEqual" \in Plain /\ "AngleCloseEqual" \in Plain /\ "Tilda" \in Plain
  /\ "Ampersand" \in Plain /\ "TwoAmpersand" \in Plain
  /\ "ThreeAmpersand" \in Plain /\ "Pipe" \in Plain /\ "Circumflex" \in Plain
  /\ "TwoAngleOpen" \in Plain /\ "TwoAngleClose" \in Plain /\ "Action" \in Plain
  /\ "Actions" \in Plain /\ "Enum" \in Plain /\ "In" \in Plain
  /\ "Package" \in Plain /\ "Select" \in Plain /\ "Switch" \in Plain
  /\ "Tuple" \in Plain /\ "Void" \in Plain /\ "Apply" \in Plain
  /\ "Control" \in Plain /\ "Error" \in Plain /\ "Header" \in Plain
  /\ "InOut" \in Plain /\ "Parser" \in Plain /\ "State" \in Plain
  /\ "Table" \in Plain /\ "Entries" \in Plain /\ "Key" \in Plain
  /\ "Typedef" \in Plain /\ "Type" \in Plain /\ "Bool" \in Plain
  /\ "True" \in Plain /\ "False" \in Plain /\ "Default" \in Plain
  /\ "Extern" \in Plain /\ "HeaderUnion" \in Plain /\ "Int" \in Plain
  /\ "Bit" \in Plain /\ "Varbit" \in Plain /\ "Out" \in Plain
  /\ "StringLiteral" \in Plain /\ "Transition" \in Plain /\ "Else" \in Plain
  /\ "Exit" \in Plain /\ "If" \in Plain /\ "MatchKind" \in Plain
  /\ "Return" \in Plain /\ "Struct" \in Plain /\ "Const" \in Plain
  /\ "new_type" \in Plain
<1>1. ASSUME NEW task \in Tasks, task \notin DOMAIN Closing, task # "castOrParenthesised",
             task \notin ClosingBrackets
      PROVE  task \in Plain
  BY <1>1, BracketsAre DEF Plain
<1> QED BY <1>1, BracketsAre DEF Tasks, Symbols, TokenClass

(* Sequences of tasks, by their length and where the brackets are. *)
LEMMA PlainTasks ==
  /\ Even(<<>>)
  /\ \A a \in Plain : Even(<<a>>)
  /\ \A a, b \in Plain : Even(<<a, b>>)
  /\ \A a, b, c \in Plain : Even(<<a, b, c>>)
  /\ \A a, b, c, d \in Plain : Even(<<a, b, c, d>>)
  /\ \A a, b, c, d, e \in Plain : Even(<<a, b, c, d, e>>)
  /\ \A a, b, c, d, e, f \in Plain : Even(<<a, b, c, d, e, f>>)
<1>1. <<>> \in Seq(Plain)
  OBVIOUS
<1>2. \A a \in Plain : <<a>> \in Seq(Plain)
  OBVIOUS
<1>3. \A a, b \in Plain : <<a, b>> \in Seq(Plain)
  OBVIOUS
<1>4. \A a, b, c \in Plain : <<a, b, c>> \in Seq(Plain)
  OBVIOUS
<1>5. \A a, b, c, d \in Plain : <<a, b, c, d>> \in Seq(Plain)
  OBVIOUS
<1>6. \A a, b, c, d, e \in Plain : <<a, b, c, d, e>> \in Seq(Plain)
  OBVIOUS
<1>7. \A a, b, c, d, e, f \in Plain : <<a, b, c, d, e, f>> \in Seq(Plain)
  OBVIOUS
<1> QED BY <1>1, <1>2, <1>3, <1>4, <1>5, <1>6, <1>7, EvenPlain

(* An opening bracket, and a task that closes it. *)
Match(b, c) ==
  b \in DOMAIN Closing /\ c \in Tasks /\ c \notin DOMAIN Closing /\ Bracket(c) = Closing[b]

LEMMA Matches ==
  /\ Match("ParenthOpen", "ParenthClose") /\ Match("BracketOpen", "BracketClose")
  /\ Match("BraceOpen", "BraceClose") /\ Match("ParenthOpen", "castOrParenthesised")
BY BracketsAre DEF Match, Bracket, Tasks, TokenClass, Symbols

LEMMA PairTasks ==
  ASSUME NEW b, NEW c, Match(b, c)
  PROVE  /\ Even(<<b, c>>)
         /\ \A d \in Plain : Even(<<b, d, c>>)
         /\ \A d, e \in Plain : Even(<<b, d, c, e>>)
         /\ \A d, e \in Plain : Even(<<b, d, e, c>>)
         /\ \A d, e \in Plain : Even(<<d, b, e, c>>)
         /\ \A d, e, f \in Plain : Even(<<b, d, c, e, f>>)
         /\ \A d, e, f \in Plain : Even(<<d, b, e, c, f>>)
         /\ \A d, e, f \in Plain : Even(<<d, b, e, f, c>>)
         /\ \A d, e, f \in Plain : Even(<<d, e, b, f, c>>)
         /\ \A d, e, f, g \in Plain : Even(<<d, b, e, c, f, g>>)
         /\ \A d, e, f, g \in Plain : Even(<<d, b, e, f, g, c>>)
         /\ \A d, e, f, g \in Plain : Even(<<d, e, b, f, c, g>>)
         /\ \A d, e, f, g \in Plain : Even(<<d, e, b, f, g, c>>)
         /\ \A d, e, f, g \in Plain : Even(<<d, e, f, b, g, c>>)
         /\ \A d, e, f, g, h, i \in Plain : Even(<<d, e, f, g, h, b, i, c>>)
<1>0. b \in Tasks /\ c \in Tasks /\ Plain \subseteq Tasks
  BY BracketsAre DEF Match, Plain, Tasks, TokenClass
<1>1. Even(<<b, c>>)
  <2>1. <<b, c>> \in Seq(Tasks)
    BY <1>0
  <2>2. Pair(<<b, c>>, 1, 2)
    BY DEF Pair, Match
  <2> QED BY <2>1, <2>2, EvenPair
<1>2. ASSUME NEW d \in Plain PROVE Even(<<b, d, c>>)
  <2>1. <<b, d, c>> \in Seq(Tasks)
    BY <1>0
  <2>2. Pair(<<b, d, c>>, 1, 3)
    BY DEF Pair, Match
  <2> QED BY <2>1, <2>2, EvenPair
<1>3. ASSUME NEW d \in Plain, NEW e \in Plain PROVE Even(<<b, d, c, e>>)
  <2>1. <<b, d, c, e>> \in Seq(Tasks)
    BY <1>0
  <2>2. Pair(<<b, d, c, e>>, 1, 3)
    BY DEF Pair, Match
  <2> QED BY <2>1, <2>2, EvenPair
<1>4. ASSUME NEW d \in Plain, NEW e \in Plain PROVE Even(<<b, d, e, c>>)
  <2>1. <<b, d, e, c>> \in Seq(Tasks)
    BY <1>0
  <2>2. Pair(<<b, d, e, c>>, 1, 4)
    BY DEF Pair, Match
  <2> QED BY <2>1, <2>2, EvenPair
<1>5. ASSUME NEW d \in Plain, NEW e \in Plain PROVE Even(<<d, b, e, c>>)
  <2>1. <<d, b, e, c>> \in Seq(Tasks)
    BY <1>0
  <2>2. Pair(<<d, b, e, c>>, 2, 4)
    BY DEF Pair, Match
  <2> QED BY <2>1, <2>2, EvenPair
<1>6. ASSUME NEW d \in Plain, NEW e \in Plain, NEW f \in Plain
      PROVE  Even(<<b, d, c, e, f>>)
  <2>1. <<b, d, c, e, f>> \in Seq(Tasks)
    BY <1>0
  <2>2. Pair(<<b, d, c, e, f>>, 1, 3)
    BY DEF Pair, Match
  <2> QED BY <2>1, <2>2, EvenPair
<1>7. ASSUME NEW d \in Plain, NEW e \in Plain, NEW f \in Plain
      PROVE  Even(<<d, b, e, c, f>>)
  <2>1. <<d, b, e, c, f>> \in Seq(Tasks)
    BY <1>0
  <2>2. Pair(<<d, b, e, c, f>>, 2, 4)
    BY DEF Pair, Match
  <2> QED BY <2>1, <2>2, EvenPair
<1>8. ASSUME NEW d \in Plain, NEW e \in Plain, NEW f \in Plain
      PROVE  Even(<<d, b, e, f, c>>)
  <2>1. <<d, b, e, f, c>> \in Seq(Tasks)
    BY <1>0
  <2>2. Pair(<<d, b, e, f, c>>, 2, 5)
    BY DEF Pair, Match
  <2> QED BY <2>1, <2>2, EvenPair
<1>9. ASSUME NEW d \in Plain, NEW e \in Plain, NEW f \in Plain
      PROVE  Even(<<d, e, b, f, c>>)
  <2>1. <<d, e, b, f, c>> \in Seq(Tasks)
    BY <1>0
  <2>2. Pair(<<d, e, b, f, c>>, 3, 5)
    BY DEF Pair, Match
  <2> QED BY <2>1, <2>2, EvenPair
<1>10. ASSUME NEW d \in Plain, NEW e \in Plain, NEW f \in Plain, NEW g \in Plain
       PROVE  Even(<<d, b, e, c, f, g>>)
  <2>1. <<d, b, e, c, f, g>> \in Seq(Tasks)
    BY <1>0
  <2>2. Pair(<<d, b, e, c, f, g>>, 2, 4)
    BY DEF Pair, Match
  <2> QED BY <2>1, <2>2, EvenPair
<1>11. ASSUME NEW d \in Plain, NEW e \in Plain, NEW f \in Plain, NEW g \in Plain
       PROVE  Even(<<d, b, e, f, g, c>>)
  <2>1. <<d, b, e, f, g, c>> \in Seq(Tasks)
    BY <1>0
  <2>2. Pair(<<d, b, e, f, g, c>>, 2, 6)
    BY DEF Pair, Match
  <2> QED BY <2>1, <2>2, EvenPair
<1>12. ASSUME NEW d \in Plain, NEW e \in Plain, NEW f \in Plain, NEW g \in Plain
       PROVE  Even(<<d, e, b, f, c, g>>)
  <2>1. <<d, e, b, f, c, g>> \in Seq(Tasks)
    BY <1>0
  <2>2. Pair(<<d, e, b, f, c, g>>, 3, 5)
    BY DEF Pair, Match
  <2> QED BY <2>1, <2>2, EvenPair
<1>13. ASSUME NEW d \in Plain, NEW e \in Plain, NEW f \in Plain, NEW g \in Plain
       PROVE  Even(<<d, e, b, f, g, c>>)
  <2>1. <<d, e, b, f, g, c>> \in Seq(Tasks)
    BY <1>0
  <2>2. Pair(<<d, e, b, f, g, c>>, 3, 6)
    BY DEF Pair, Match
  <2> QED BY <2>1, <2>2, EvenPair
<1>14. ASSUME NEW d \in Plain, NEW e \in Plain, NEW f \in Plain, NEW g \in Plain
       PROVE  Even(<<d, e, f, b, g, c>>)
  <2>1. <<d, e, f, b, g, c>> \in Seq(Tasks)
    BY <1>0
  <2>2. Pair(<<d, e, f, b, g, c>>, 4, 6)
    BY DEF Pair, Match
  <2> QED BY <2>1, <2>2, EvenPair
<1>15. ASSUME NEW d \in Plain, NEW e \in Plain, NEW f \in Plain, NEW g \in Plain,
              NEW h \in Plain, NEW i \in Plain
       PROVE  Even(<<d, e, f, g, h, b, i, c>>)
  <2>1. <<d, e, f, g, h, b, i, c>> \in Seq(Tasks)
    BY <1>0
  <2>2. Pair(<<d, e, f, g, h, b, i, c>>, 6, 8)
    BY DEF Pair, Match
  <2> QED BY <2>1, <2>2, EvenPair
<1> QED BY <1>1, <1>2, <1>3, <1>4, <1>5, <1>6, <1>7, <1>8, <1>9, <1>10, <1>11, <1>12, <1>13, <1>14, <1>15

LEMMA TwoPairTasks ==
  ASSUME NEW b, NEW c, Match(b, c), NEW x, NEW y, Match(x, y),
         NEW d \in Plain, NEW e \in Plain, NEW f \in Plain
  PROVE  Even(<<d, b, e, c, x, f, y>>)
<1> DEFINE tasks == <<d, b, e, c, x, f, y>>
<1>1. tasks \in Seq(Tasks) /\ Len(tasks) = 7
  BY BracketsAre DEF Match, Plain, Tasks, TokenClass
<1>2. ASSUME NEW s \in Stacks PROVE Unwind(tasks, s, s)
  <2>1. PICK v, w : v = <<Closing[b]>> \o s /\ w = <<Closing[x]>> \o s
    OBVIOUS
  <2>2. Closing[b] \in ClosingBrackets /\ Closing[x] \in ClosingBrackets
    BY DEF Match, ClosingBrackets
  <2>3. /\ v \in Stacks /\ v # <<>> /\ Head(v) = Closing[b] /\ Tail(v) = s
        /\ w \in Stacks /\ w # <<>> /\ Head(w) = Closing[x] /\ Tail(w) = s
    BY <2>1, <2>2 DEF Stacks
  <2> DEFINE g == [i \in 0 .. 7 |-> IF i = 2 \/ i = 3 THEN v ELSE IF i = 5 \/ i = 6 THEN w ELSE s]
  <2>4. /\ g \in [0 .. 7 -> Stacks] /\ g[0] = s /\ g[1] = s /\ g[2] = v /\ g[3] = v /\ g[4] = s
        /\ g[5] = w /\ g[6] = w /\ g[7] = s
    BY <2>3
  <2>5. \A task \in Plain : \A z : Closes(task, z, z)
    BY PlainCloses
  <2>6. Closes(b, s, v) /\ Closes(c, v, s) /\ Closes(x, s, w) /\ Closes(y, w, s)
    BY <2>1, <2>2, <2>3 DEF Match, Closes
  <2> HIDE DEF g
  <2>7. ASSUME NEW i \in 1 .. 7 PROVE Closes(tasks[i], g[i - 1], g[i])
    <3>1. i = 1 \/ i = 2 \/ i = 3 \/ i = 4 \/ i = 5 \/ i = 6 \/ i = 7
      OBVIOUS
    <3> QED BY <2>4, <2>5, <2>6, <3>1
  <2> HIDE DEF tasks
  <2>8. Through(tasks, g, s, s)
    BY <1>1, <2>4, <2>7 DEF Through
  <2> QED BY <2>8 DEF Unwind
<1> QED BY <1>1, <1>2 DEF Even
-----------------------------------------------------------------------------
(* What a function may do that leaves the brackets alone: give up, or do     *)
(* tasks that close every bracket they open.                                 *)
MayDo(tasks) == tasks = Fail \/ Even(tasks)

LEMMA ExpressionsAre ==
  /\ Expression(1) = "expression1" /\ Expression(2) = "expression2"
  /\ Expression(3) = "expression3" /\ Expression(4) = "expression4"
  /\ Expression(5) = "expression5" /\ Expression(6) = "expression6"
  /\ Operators(1) = "operators1" /\ Operators(2) = "operators2"
  /\ Operators(3) = "operators3" /\ Operators(4) = "operators4"
  /\ Operators(5) = "operators5" /\ Operators(6) = "operators6"
BY DEF Expression, Operators

LEMMA OptionMayDo ==
  ASSUME NEW t, NEW first, NEW p, NEW q, Even(p), Even(q)
  PROVE  Even(IfAny(t, first, p) \o q)
<1>1. Even(IfAny(t, first, p))
  BY PlainTasks DEF IfAny
<1> QED BY <1>1, EvenConcat

LEMMA WhileMayDo ==
  ASSUME NEW t, NEW first, NEW tasks, NEW self \in Plain, Even(tasks)
  PROVE  MayDo(While(t, first, tasks, self))
<1>1. Even(tasks \o <<self>>)
  BY PlainTasks, EvenConcat
<1> QED BY <1>1, PlainTasks DEF MayDo, While, IfAny

LEMMA CommasMayDo ==
  ASSUME NEW t, NEW task \in Plain, NEW self \in Plain
  PROVE  MayDo(Commas(t, task, self))
<1>1. Even(<<"Comma", task>>)
  BY PlainNames, PlainTasks
<1> QED BY <1>1, WhileMayDo DEF Commas


(* Names, types and parameters. *)
LEMMA NamesMayDo ==
  ASSUME NEW t, NEW behind
  PROVE  /\ MayDo(Production("nonTypeName", t, behind))
         /\ MayDo(Production("typeDeclNonTypeName", t, behind))
         /\ MayDo(Production("name", t, behind))
         /\ MayDo(Production("typeDeclName", t, behind))
         /\ MayDo(Production("typeParameterList", t, behind))
         /\ MayDo(Production("optTypeParameters", t, behind))
         /\ MayDo(Production("typeArg", t, behind))
         /\ MayDo(Production("direction", t, behind))
         /\ MayDo(Production("parameter", t, behind))
         /\ MayDo(Production("parameter_", t, behind))
         /\ MayDo(Production("parameterList", t, behind))
         /\ MayDo(Production("typeOrVoid", t, behind))
         /\ MayDo(Production("functionPrototype", t, behind))
         /\ MayDo(Production("functionPrototype_", t, behind))
         /\ MayDo(Production("methodPrototype", t, behind))
         /\ MayDo(Production("methodPrototypes", t, behind))
         /\ MayDo(Production("externDeclaration", t, behind))
         /\ MayDo(Production("externDeclaration_", t, behind))
         /\ MayDo(Production("integerTypeSize", t, behind))
         /\ MayDo(Production("baseType", t, behind))
         /\ MayDo(Production("baseType_", t, behind))
         /\ MayDo(Production("typeArgumentList", t, behind))
         /\ MayDo(Production("tupleType", t, behind))
         /\ MayDo(Production("prefixedType", t, behind))
         /\ MayDo(Production("typeName", t, behind))
         /\ MayDo(Production("typeName_", t, behind))
         /\ MayDo(Production("typeName__", t, behind))
         /\ MayDo(Production("typeRef", t, behind))
<1>1. MayDo(Production("nonTypeName", t, behind))
  <2>1. Production("nonTypeName", t, behind) = build_nonTypeName(t, FALSE)
    BY ExpressionsAre, Zenon DEF Production
  <2>2. /\ "new_type" \in Plain /\ token_is_nonTypeName \subseteq Plain
    BY PlainNames DEF token_is_nonTypeName
  <2> QED
    BY <2>1, <2>2, PlainTasks DEF MayDo, build_nonTypeName, If
<1>2. MayDo(Production("typeDeclNonTypeName", t, behind))
  <2>1. Production("typeDeclNonTypeName", t, behind) = build_nonTypeName(t, TRUE)
    BY ExpressionsAre, Zenon DEF Production
  <2>2. /\ "new_type" \in Plain /\ token_is_nonTypeName \subseteq Plain
    BY PlainNames DEF token_is_nonTypeName
  <2> QED
    BY <2>1, <2>2, PlainTasks DEF MayDo, build_nonTypeName, If
<1>3. MayDo(Production("name", t, behind))
  <2>1. Production("name", t, behind) = build_name(t, FALSE)
    BY ExpressionsAre, Zenon DEF Production
  <2> DEFINE doing == build_name(t, FALSE)
  <2>2. \/ doing \in {Fail, <<"TypeIdentifier">>}
        \/ t \in token_is_nonTypeName /\ doing = build_nonTypeName(t, FALSE)
    BY Zenon DEF build_name, If, token_is_nonTypeName, token_is_name
  <2> HIDE DEF doing
  <2>3. /\ "TypeIdentifier" \in Plain /\ "new_type" \in Plain
        /\ token_is_nonTypeName \subseteq Plain
    BY PlainNames DEF token_is_nonTypeName
  <2>4. MayDo(doing)
    BY <2>2, <2>3, PlainTasks DEF MayDo, build_nonTypeName, If
  <2> QED BY <2>1, <2>4 DEF doing
<1>4. MayDo(Production("typeDeclName", t, behind))
  <2>1. Production("typeDeclName", t, behind) = build_name(t, TRUE)
    BY ExpressionsAre, Zenon DEF Production
  <2> DEFINE doing == build_name(t, TRUE)
  <2>2. \/ doing \in {Fail, <<"TypeIdentifier">>}
        \/ t \in token_is_nonTypeName /\ doing = build_nonTypeName(t, TRUE)
    BY Zenon DEF build_name, If, token_is_nonTypeName, token_is_name
  <2> HIDE DEF doing
  <2>3. /\ "TypeIdentifier" \in Plain /\ "new_type" \in Plain
        /\ token_is_nonTypeName \subseteq Plain
    BY PlainNames DEF token_is_nonTypeName
  <2>4. MayDo(doing)
    BY <2>2, <2>3, PlainTasks DEF MayDo, build_nonTypeName, If
  <2> QED BY <2>1, <2>4 DEF doing
<1>5. MayDo(Production("typeParameterList", t, behind))
  <2>1. Production("typeParameterList", t, behind) = build_typeParameterList(t)
    BY ExpressionsAre, Zenon DEF Production
  <2>2. /\ "typeDeclName" \in Plain /\ "moreTypeParameters" \in Plain
    BY PlainNames
  <2> QED
    BY <2>1, <2>2, PlainTasks DEF MayDo, build_typeParameterList, If
<1>6. MayDo(Production("optTypeParameters", t, behind))
  <2>1. Production("optTypeParameters", t, behind) = build_optTypeParameters(t)
    BY ExpressionsAre, Zenon DEF Production
  <2>2. /\ "AngleOpen" \in Plain /\ "typeParameterList" \in Plain
        /\ "AngleClose" \in Plain
    BY PlainNames
  <2> QED
    BY <2>1, <2>2, PlainTasks DEF MayDo, build_optTypeParameters, IfAny
<1>7. MayDo(Production("typeArg", t, behind))
  <2>1. Production("typeArg", t, behind) = build_typeArg(t)
    BY ExpressionsAre, Zenon DEF Production
  <2> DEFINE doing == build_typeArg(t)
  <2>2. doing \in {Fail, <<"Dontcare">>, <<"typeRef">>, <<"nonTypeName">>}
    BY Zenon
    DEF build_typeArg, If, token_is_prefixedType, token_is_baseType,
        token_is_typeRef, token_is_nonTypeName, token_is_typeArg
  <2> HIDE DEF doing
  <2>3. /\ "Dontcare" \in Plain /\ "typeRef" \in Plain /\ "nonTypeName" \in Plain
    BY PlainNames
  <2>4. MayDo(doing)
    BY <2>2, <2>3, PlainTasks DEF MayDo
  <2> QED BY <2>1, <2>4 DEF doing
<1>8. MayDo(Production("direction", t, behind))
  <2>1. Production("direction", t, behind) = build_direction(t)
    BY ExpressionsAre, Zenon DEF Production
  <2>2. token_is_direction \subseteq Plain
    BY PlainNames DEF token_is_direction
  <2> QED
    BY <2>1, <2>2, PlainTasks DEF MayDo, build_direction, IfAny
<1>9. MayDo(Production("parameter", t, behind))
  <2>1. Production("parameter", t, behind) = build_parameter(t)
    BY ExpressionsAre, Zenon DEF Production
  <2>2. /\ "direction" \in Plain /\ "typeRef" \in Plain /\ "name" \in Plain
        /\ "parameter_" \in Plain
    BY PlainNames
  <2> QED
    BY <2>1, <2>2, PlainTasks DEF MayDo, build_parameter
<1>10. MayDo(Production("parameter_", t, behind))
  <2>1. Production("parameter_", t, behind) = build_parameter_(t)
    BY ExpressionsAre, Zenon DEF Production
  <2>2. /\ "Equal" \in Plain /\ Expression(1) \in Plain
    BY PlainNames, ExpressionsAre
  <2> QED
    BY <2>1, <2>2, PlainTasks DEF MayDo, build_parameter_, IfAny
<1>11. MayDo(Production("parameterList", t, behind))
  <2>1. Production("parameterList", t, behind) = build_parameterList(t)
    BY ExpressionsAre, Zenon DEF Production
  <2>2. /\ "parameter" \in Plain /\ "moreParameters" \in Plain
    BY PlainNames
  <2> QED
    BY <2>1, <2>2, PlainTasks DEF MayDo, build_parameterList, IfAny
<1>12. MayDo(Production("typeOrVoid", t, behind))
  <2>1. Production("typeOrVoid", t, behind) = build_typeOrVoid(t)
    BY ExpressionsAre, Zenon DEF Production
  <2> DEFINE doing == build_typeOrVoid(t)
  <2>2. doing \in {Fail, <<"typeRef">>, <<"Void">>, <<"new_type", "Identifier">>}
    BY Zenon
    DEF build_typeOrVoid, If, token_is_prefixedType, token_is_baseType,
        token_is_typeRef, token_is_typeOrVoid
  <2> HIDE DEF doing
  <2>3. /\ "typeRef" \in Plain /\ "Void" \in Plain /\ "new_type" \in Plain
        /\ "Identifier" \in Plain
    BY PlainNames
  <2>4. MayDo(doing)
    BY <2>2, <2>3, PlainTasks DEF MayDo
  <2> QED BY <2>1, <2>4 DEF doing
<1>13. MayDo(Production("functionPrototype", t, behind))
  <2>1. Production("functionPrototype", t, behind) = build_functionPrototype(t)
    BY ExpressionsAre, Zenon DEF Production
  <2>2. /\ "typeOrVoid" \in Plain /\ "functionPrototype_" \in Plain
    BY PlainNames
  <2> QED
    BY <2>1, <2>2, PlainTasks DEF MayDo, build_functionPrototype, If
<1>14. MayDo(Production("functionPrototype_", t, behind))
  <2>1. Production("functionPrototype_", t, behind) = build_functionPrototype_(t)
    BY ExpressionsAre, Zenon DEF Production
  <2>2. /\ "name" \in Plain /\ "optTypeParameters" \in Plain
        /\ "parameterList" \in Plain
    BY PlainNames
  <2>3. Even(<<"name", "optTypeParameters", "ParenthOpen", "parameterList",
               "ParenthClose">>)
    BY <2>2, Matches, PairTasks
  <2> QED
    BY <2>1, <2>3 DEF MayDo, build_functionPrototype_
<1>15. MayDo(Production("methodPrototype", t, behind))
  <2>1. Production("methodPrototype", t, behind) = build_methodPrototype(t, behind)
    BY ExpressionsAre, Zenon DEF Production
  <2> DEFINE doing == build_methodPrototype(t, behind)
  <2>2. doing \in {Fail,
               <<"name", "ParenthOpen", "parameterList", "ParenthClose", "Semicolon">>,
               <<"functionPrototype", "Semicolon">>}
    BY Zenon DEF build_methodPrototype
  <2> HIDE DEF doing
  <2>3. /\ "name" \in Plain /\ "parameterList" \in Plain /\ "Semicolon" \in Plain
        /\ "functionPrototype" \in Plain
    BY PlainNames
  <2>4. Even(<<"name", "ParenthOpen", "parameterList", "ParenthClose", "Semicolon">>)
    BY <2>3, Matches, PairTasks
  <2>5. MayDo(doing)
    BY <2>2, <2>3, <2>4, PlainTasks DEF MayDo
  <2> QED BY <2>1, <2>5 DEF doing
<1>16. MayDo(Production("methodPrototypes", t, behind))
  <2>1. Production("methodPrototypes", t, behind) = build_methodPrototypes(t)
    BY ExpressionsAre, Zenon DEF Production
  <2>2. /\ "methodPrototype" \in Plain /\ "methodPrototypes" \in Plain
    BY PlainNames
  <2> QED
    BY <2>1, <2>2, PlainTasks, WhileMayDo DEF build_methodPrototypes
<1>17. MayDo(Production("externDeclaration", t, behind))
  <2>1. Production("externDeclaration", t, behind) = build_externDeclaration(t)
    BY ExpressionsAre, Zenon DEF Production
  <2>2. /\ "Extern" \in Plain /\ "externDeclaration_" \in Plain
    BY PlainNames
  <2> QED
    BY <2>1, <2>2, PlainTasks DEF MayDo, build_externDeclaration, IfAny
<1>18. MayDo(Production("externDeclaration_", t, behind))
  <2>1. Production("externDeclaration_", t, behind) = build_externDeclaration_(t, behind)
    BY ExpressionsAre, Zenon DEF Production
  <2> DEFINE doing == build_externDeclaration_(t, behind)
  <2>2. doing \in {Fail, <<"functionPrototype", "Semicolon">>,
               <<"typeDeclNonTypeName", "optTypeParameters", "BraceOpen", "methodPrototypes", "BraceClose">>}
    BY Zenon DEF build_externDeclaration_
  <2> HIDE DEF doing
  <2>3. /\ "functionPrototype" \in Plain /\ "Semicolon" \in Plain
        /\ "typeDeclNonTypeName" \in Plain /\ "optTypeParameters" \in Plain
        /\ "methodPrototypes" \in Plain
    BY PlainNames
  <2>4. Even(<<"typeDeclNonTypeName", "optTypeParameters", "BraceOpen",
               "methodPrototypes", "BraceClose">>)
    BY <2>3, Matches, PairTasks
  <2>5. MayDo(doing)
    BY <2>2, <2>3, <2>4, PlainTasks DEF MayDo
  <2> QED BY <2>1, <2>5 DEF doing
<1>19. MayDo(Production("integerTypeSize", t, behind))
  <2>1. Production("integerTypeSize", t, behind) = build_integerTypeSize(t)
    BY ExpressionsAre, Zenon DEF Production
  <2> DEFINE doing == build_integerTypeSize(t)
  <2>2. doing \in {Fail, <<"Integer">>, <<Expression(1)>>}
    BY Zenon DEF build_integerTypeSize
  <2> HIDE DEF doing
  <2>3. /\ "Integer" \in Plain /\ Expression(1) \in Plain
    BY PlainNames, ExpressionsAre
  <2>4. MayDo(doing)
    BY <2>2, <2>3, PlainTasks DEF MayDo
  <2> QED BY <2>1, <2>4 DEF doing
<1>20. MayDo(Production("baseType", t, behind))
  <2>1. Production("baseType", t, behind) = build_baseType(t)
    BY ExpressionsAre, Zenon DEF Production
  <2> DEFINE doing == build_baseType(t)
  <2>2. doing \in {Fail, <<"Bool">>, <<"Error">>, <<"String">>,
               <<"Int", "baseType_">>, <<"Bit", "baseType_">>,
               <<"Varbit", "baseType_">>}
    BY Zenon DEF build_baseType, If, token_is_baseType
  <2> HIDE DEF doing
  <2>3. /\ "Bool" \in Plain /\ "Error" \in Plain /\ "String" \in Plain
        /\ "Int" \in Plain /\ "baseType_" \in Plain /\ "Bit" \in Plain
        /\ "Varbit" \in Plain
    BY PlainNames
  <2>4. MayDo(doing)
    BY <2>2, <2>3, PlainTasks DEF MayDo
  <2> QED BY <2>1, <2>4 DEF doing
<1>21. MayDo(Production("baseType_", t, behind))
  <2>1. Production("baseType_", t, behind) = build_baseType_(t)
    BY ExpressionsAre, Zenon DEF Production
  <2>2. /\ "AngleOpen" \in Plain /\ "integerTypeSize" \in Plain
        /\ "AngleClose" \in Plain
    BY PlainNames
  <2> QED
    BY <2>1, <2>2, PlainTasks DEF MayDo, build_baseType_, IfAny
<1>22. MayDo(Production("typeArgumentList", t, behind))
  <2>1. Production("typeArgumentList", t, behind) = build_typeArgumentList(t)
    BY ExpressionsAre, Zenon DEF Production
  <2>2. /\ "typeArg" \in Plain /\ "moreTypeArguments" \in Plain
    BY PlainNames
  <2> QED
    BY <2>1, <2>2, PlainTasks DEF MayDo, build_typeArgumentList, IfAny
<1>23. MayDo(Production("tupleType", t, behind))
  <2>1. Production("tupleType", t, behind) = build_tupleType(t)
    BY ExpressionsAre, Zenon DEF Production
  <2>2. /\ "Tuple" \in Plain /\ "AngleOpen" \in Plain
        /\ "typeArgumentList" \in Plain /\ "AngleClose" \in Plain
    BY PlainNames
  <2> QED
    BY <2>1, <2>2, PlainTasks DEF MayDo, build_tupleType, If
<1>24. MayDo(Production("prefixedType", t, behind))
  <2>1. Production("prefixedType", t, behind) = build_prefixedType(t)
    BY ExpressionsAre, Zenon DEF Production
  <2>2. /\ "DotPrefix" \in Plain /\ "TypeIdentifier" \in Plain
    BY PlainNames
  <2>3. /\ Even(<<"DotPrefix">>) /\ Even(<<"TypeIdentifier">>)
    BY <2>2, PlainTasks
  <2> QED
    BY <2>1, <2>3, OptionMayDo DEF MayDo, build_prefixedType
<1>25. MayDo(Production("typeName", t, behind))
  <2>1. Production("typeName", t, behind) = build_typeName(t)
    BY ExpressionsAre, Zenon DEF Production
  <2>2. /\ "prefixedType" \in Plain /\ "typeName_" \in Plain
        /\ "typeName__" \in Plain
    BY PlainNames
  <2> QED
    BY <2>1, <2>2, PlainTasks DEF MayDo, build_typeName, If
<1>26. MayDo(Production("typeName_", t, behind))
  <2>1. Production("typeName_", t, behind) = build_typeName_(t)
    BY ExpressionsAre, Zenon DEF Production
  <2>2. /\ "AngleOpen" \in Plain /\ "typeArgumentList" \in Plain
        /\ "AngleClose" \in Plain
    BY PlainNames
  <2> QED
    BY <2>1, <2>2, PlainTasks
    DEF MayDo, build_typeName_, build_specializedType, IfAny
<1>27. MayDo(Production("typeName__", t, behind))
  <2>1. Production("typeName__", t, behind) = build_typeName__(t)
    BY ExpressionsAre, Zenon DEF Production
  <2>2. Expression(1) \in Plain
    BY PlainNames, ExpressionsAre
  <2>3. Even(<<"BracketOpen", Expression(1), "BracketClose">>)
    BY <2>2, Matches, PairTasks
  <2> QED
    BY <2>1, <2>3, PlainTasks
    DEF MayDo, build_typeName__, build_headerStackType, IfAny
<1>28. MayDo(Production("typeRef", t, behind))
  <2>1. Production("typeRef", t, behind) = build_typeRef(t)
    BY ExpressionsAre, Zenon DEF Production
  <2> DEFINE doing == build_typeRef(t)
  <2>2. doing \in {Fail, <<"baseType">>, <<"typeName">>, <<"tupleType">>}
    BY Zenon
    DEF build_typeRef, If, token_is_typeName, token_is_prefixedType,
        token_is_baseType, token_is_typeRef
  <2> HIDE DEF doing
  <2>3. /\ "baseType" \in Plain /\ "typeName" \in Plain /\ "tupleType" \in Plain
    BY PlainNames
  <2>4. MayDo(doing)
    BY <2>2, <2>3, PlainTasks DEF MayDo
  <2> QED BY <2>1, <2>4 DEF doing
<1> QED BY <1>1, <1>2, <1>3, <1>4, <1>5, <1>6, <1>7, <1>8, <1>9, <1>10, <1>11,
           <1>12, <1>13, <1>14, <1>15, <1>16, <1>17, <1>18, <1>19, <1>20, <1>21,
           <1>22, <1>23, <1>24, <1>25, <1>26, <1>27, <1>28

(* Type declarations and constants. *)
LEMMA TypesMayDo ==
  ASSUME NEW t, NEW behind
  PROVE  /\ MayDo(Production("structField", t, behind))
         /\ MayDo(Production("structFieldList", t, behind))
         /\ MayDo(Production("headerTypeDeclaration", t, behind))
         /\ MayDo(Production("headerUnionDeclaration", t, behind))
         /\ MayDo(Production("structTypeDeclaration", t, behind))
         /\ MayDo(Production("optInitializer", t, behind))
         /\ MayDo(Production("specifiedIdentifier", t, behind))
         /\ MayDo(Production("specifiedIdentifierList", t, behind))
         /\ MayDo(Production("enumDeclaration", t, behind))
         /\ MayDo(Production("enumDeclaration_", t, behind))
         /\ MayDo(Production("enumDeclaration__", t, behind))
         /\ MayDo(Production("derivedTypeDeclaration", t, behind))
         /\ MayDo(Production("parserTypeDeclaration", t, behind))
         /\ MayDo(Production("controlTypeDeclaration", t, behind))
         /\ MayDo(Production("packageTypeDeclaration", t, behind))
         /\ MayDo(Production("optConstructorParameters", t, behind))
         /\ MayDo(Production("constantDeclaration", t, behind))
         /\ MayDo(Production("typedefDeclaration", t, behind))
         /\ MayDo(Production("typedefDeclaration_", t, behind))
         /\ MayDo(Production("typeDeclaration", t, behind))
<1>1. MayDo(Production("structField", t, behind))
  <2>1. Production("structField", t, behind) = build_structField(t)
    BY ExpressionsAre, Zenon DEF Production
  <2>2. /\ "typeRef" \in Plain /\ "name" \in Plain /\ "Semicolon" \in Plain
    BY PlainNames
  <2> QED
    BY <2>1, <2>2, PlainTasks DEF MayDo, build_structField, If
<1>2. MayDo(Production("structFieldList", t, behind))
  <2>1. Production("structFieldList", t, behind) = build_structFieldList(t)
    BY ExpressionsAre, Zenon DEF Production
  <2>2. /\ "structField" \in Plain /\ "structFieldList" \in Plain
    BY PlainNames
  <2> QED
    BY <2>1, <2>2, PlainTasks, WhileMayDo DEF build_structFieldList
<1>3. MayDo(Production("headerTypeDeclaration", t, behind))
  <2>1. Production("headerTypeDeclaration", t, behind) = build_headerTypeDeclaration(t)
    BY ExpressionsAre, Zenon DEF Production
  <2>2. /\ "Header" \in Plain /\ "typeDeclName" \in Plain
        /\ "structFieldList" \in Plain
    BY PlainNames
  <2>3. Even(<<"Header", "typeDeclName", "BraceOpen", "structFieldList", "BraceClose">>)
    BY <2>2, Matches, PairTasks
  <2> QED
    BY <2>1, <2>3 DEF MayDo, build_headerTypeDeclaration, TypeWithFields, If
<1>4. MayDo(Production("headerUnionDeclaration", t, behind))
  <2>1. Production("headerUnionDeclaration", t, behind) = build_headerUnionDeclaration(t)
    BY ExpressionsAre, Zenon DEF Production
  <2>2. /\ "HeaderUnion" \in Plain /\ "typeDeclName" \in Plain
        /\ "structFieldList" \in Plain
    BY PlainNames
  <2>3. Even(<<"HeaderUnion", "typeDeclName", "BraceOpen", "structFieldList",
               "BraceClose">>)
    BY <2>2, Matches, PairTasks
  <2> QED
    BY <2>1, <2>3 DEF MayDo, build_headerUnionDeclaration, TypeWithFields, If
<1>5. MayDo(Production("structTypeDeclaration", t, behind))
  <2>1. Production("structTypeDeclaration", t, behind) = build_structTypeDeclaration(t)
    BY ExpressionsAre, Zenon DEF Production
  <2>2. /\ "Struct" \in Plain /\ "typeDeclName" \in Plain
        /\ "structFieldList" \in Plain
    BY PlainNames
  <2>3. Even(<<"Struct", "typeDeclName", "BraceOpen", "structFieldList", "BraceClose">>)
    BY <2>2, Matches, PairTasks
  <2> QED
    BY <2>1, <2>3 DEF MayDo, build_structTypeDeclaration, TypeWithFields, If
<1>6. MayDo(Production("optInitializer", t, behind))
  <2>1. Production("optInitializer", t, behind) = build_optInitializer(t)
    BY ExpressionsAre, Zenon DEF Production
  <2>2. /\ "Equal" \in Plain /\ Expression(1) \in Plain
    BY PlainNames, ExpressionsAre
  <2> QED
    BY <2>1, <2>2, PlainTasks DEF MayDo, build_optInitializer, IfAny
<1>7. MayDo(Production("specifiedIdentifier", t, behind))
  <2>1. Production("specifiedIdentifier", t, behind) = build_specifiedIdentifier(t)
    BY ExpressionsAre, Zenon DEF Production
  <2>2. /\ "name" \in Plain /\ "optInitializer" \in Plain
    BY PlainNames
  <2> QED
    BY <2>1, <2>2, PlainTasks DEF MayDo, build_specifiedIdentifier, If
<1>8. MayDo(Production("specifiedIdentifierList", t, behind))
  <2>1. Production("specifiedIdentifierList", t, behind) = build_specifiedIdentifierList(t)
    BY ExpressionsAre, Zenon DEF Production
  <2>2. /\ "specifiedIdentifier" \in Plain /\ "moreSpecifiedIdentifiers" \in Plain
    BY PlainNames
  <2> QED
    BY <2>1, <2>2, PlainTasks DEF MayDo, build_specifiedIdentifierList, IfAny
<1>9. MayDo(Production("enumDeclaration", t, behind))
  <2>1. Production("enumDeclaration", t, behind) = build_enumDeclaration(t)
    BY ExpressionsAre, Zenon DEF Production
  <2>2. /\ "Enum" \in Plain /\ "enumDeclaration_" \in Plain
    BY PlainNames
  <2> QED
    BY <2>1, <2>2, PlainTasks DEF MayDo, build_enumDeclaration, If
<1>10. MayDo(Production("enumDeclaration_", t, behind))
  <2>1. Production("enumDeclaration_", t, behind) = build_enumDeclaration_(t)
    BY ExpressionsAre, Zenon DEF Production
  <2>2. /\ "Bit" \in Plain /\ "AngleOpen" \in Plain /\ "Integer" \in Plain
        /\ "AngleClose" \in Plain /\ "typeDeclName" \in Plain
        /\ "enumDeclaration__" \in Plain
    BY PlainNames
  <2>3. /\ Even(<<"Bit", "AngleOpen", "Integer", "AngleClose">>)
        /\ Even(<<"typeDeclName", "BraceOpen", "enumDeclaration__", "BraceClose">>)
    BY <2>2, PlainTasks, Matches, PairTasks
  <2> QED
    BY <2>1, <2>3, OptionMayDo DEF MayDo, build_enumDeclaration_
<1>11. MayDo(Production("enumDeclaration__", t, behind))
  <2>1. Production("enumDeclaration__", t, behind) = build_enumDeclaration__(t)
    BY ExpressionsAre, Zenon DEF Production
  <2>2. "specifiedIdentifierList" \in Plain
    BY PlainNames
  <2> QED
    BY <2>1, <2>2, PlainTasks DEF MayDo, build_enumDeclaration__, If
<1>12. MayDo(Production("derivedTypeDeclaration", t, behind))
  <2>1. Production("derivedTypeDeclaration", t, behind) = build_derivedTypeDeclaration(t)
    BY ExpressionsAre, Zenon DEF Production
  <2> DEFINE doing == build_derivedTypeDeclaration(t)
  <2>2. doing \in {Fail, <<"headerTypeDeclaration">>, <<"headerUnionDeclaration">>,
               <<"structTypeDeclaration">>, <<"enumDeclaration">>}
    BY Zenon DEF build_derivedTypeDeclaration, If, token_is_derivedTypeDeclaration
  <2> HIDE DEF doing
  <2>3. /\ "headerTypeDeclaration" \in Plain /\ "headerUnionDeclaration" \in Plain
        /\ "structTypeDeclaration" \in Plain /\ "enumDeclaration" \in Plain
    BY PlainNames
  <2>4. MayDo(doing)
    BY <2>2, <2>3, PlainTasks DEF MayDo
  <2> QED BY <2>1, <2>4 DEF doing
<1>13. MayDo(Production("parserTypeDeclaration", t, behind))
  <2>1. Production("parserTypeDeclaration", t, behind) = build_parserTypeDeclaration(t)
    BY ExpressionsAre, Zenon DEF Production
  <2>2. /\ "Parser" \in Plain /\ "typeDeclName" \in Plain
        /\ "optTypeParameters" \in Plain /\ "parameterList" \in Plain
    BY PlainNames
  <2>3. Even(<<"Parser", "typeDeclName", "optTypeParameters", "ParenthOpen",
               "parameterList", "ParenthClose">>)
    BY <2>2, Matches, PairTasks
  <2> QED
    BY <2>1, <2>3 DEF MayDo, build_parserTypeDeclaration, TypeWithParameters, If
<1>14. MayDo(Production("controlTypeDeclaration", t, behind))
  <2>1. Production("controlTypeDeclaration", t, behind) = build_controlTypeDeclaration(t)
    BY ExpressionsAre, Zenon DEF Production
  <2>2. /\ "Control" \in Plain /\ "typeDeclName" \in Plain
        /\ "optTypeParameters" \in Plain /\ "parameterList" \in Plain
    BY PlainNames
  <2>3. Even(<<"Control", "typeDeclName", "optTypeParameters", "ParenthOpen",
               "parameterList", "ParenthClose">>)
    BY <2>2, Matches, PairTasks
  <2> QED
    BY <2>1, <2>3 DEF MayDo, build_controlTypeDeclaration, TypeWithParameters, If
<1>15. MayDo(Production("packageTypeDeclaration", t, behind))
  <2>1. Production("packageTypeDeclaration", t, behind) = build_packageTypeDeclaration(t)
    BY ExpressionsAre, Zenon DEF Production
  <2>2. /\ "Package" \in Plain /\ "typeDeclName" \in Plain
        /\ "optTypeParameters" \in Plain /\ "parameterList" \in Plain
    BY PlainNames
  <2>3. Even(<<"Package", "typeDeclName", "optTypeParameters", "ParenthOpen",
               "parameterList", "ParenthClose">>)
    BY <2>2, Matches, PairTasks
  <2> QED
    BY <2>1, <2>3 DEF MayDo, build_packageTypeDeclaration, TypeWithParameters, If
<1>16. MayDo(Production("optConstructorParameters", t, behind))
  <2>1. Production("optConstructorParameters", t, behind) =
        build_optConstructorParameters(t)
    BY ExpressionsAre, Zenon DEF Production
  <2>2. "parameterList" \in Plain
    BY PlainNames
  <2>3. Even(<<"ParenthOpen", "parameterList", "ParenthClose">>)
    BY <2>2, Matches, PairTasks
  <2> QED
    BY <2>1, <2>3, PlainTasks DEF MayDo, build_optConstructorParameters, IfAny
<1>17. MayDo(Production("constantDeclaration", t, behind))
  <2>1. Production("constantDeclaration", t, behind) = build_constantDeclaration(t)
    BY ExpressionsAre, Zenon DEF Production
  <2>2. /\ "Const" \in Plain /\ "typeRef" \in Plain /\ "name" \in Plain
        /\ "Equal" \in Plain /\ Expression(1) \in Plain /\ "Semicolon" \in Plain
    BY PlainNames, ExpressionsAre
  <2> QED
    BY <2>1, <2>2, PlainTasks DEF MayDo, build_constantDeclaration, If
<1>18. MayDo(Production("typedefDeclaration", t, behind))
  <2>1. Production("typedefDeclaration", t, behind) = build_typedefDeclaration(t)
    BY ExpressionsAre, Zenon DEF Production
  <2>2. /\ "typedefDeclaration_" \in Plain /\ "typeDeclName" \in Plain
        /\ "Semicolon" \in Plain /\ "Typedef" \in Plain /\ "Type" \in Plain
    BY PlainNames
  <2> QED
    BY <2>1, <2>2, PlainTasks DEF MayDo, build_typedefDeclaration, If
<1>19. MayDo(Production("typedefDeclaration_", t, behind))
  <2>1. Production("typedefDeclaration_", t, behind) = build_typedefDeclaration_(t)
    BY ExpressionsAre, Zenon DEF Production
  <2> DEFINE doing == build_typedefDeclaration_(t)
  <2>2. doing \in {Fail, <<"typeRef">>, <<"derivedTypeDeclaration">>}
    BY Zenon
    DEF build_typedefDeclaration_, If, token_is_prefixedType, token_is_baseType,
        token_is_typeRef, token_is_derivedTypeDeclaration
  <2> HIDE DEF doing
  <2>3. /\ "typeRef" \in Plain /\ "derivedTypeDeclaration" \in Plain
    BY PlainNames
  <2>4. MayDo(doing)
    BY <2>2, <2>3, PlainTasks DEF MayDo
  <2> QED BY <2>1, <2>4 DEF doing
<1>20. MayDo(Production("typeDeclaration", t, behind))
  <2>1. Production("typeDeclaration", t, behind) = build_typeDeclaration(t)
    BY ExpressionsAre, Zenon DEF Production
  <2> DEFINE doing == build_typeDeclaration(t)
  <2>2. doing \in {Fail, <<"derivedTypeDeclaration">>, <<"typedefDeclaration">>,
               <<"parserDeclaration">>, <<"controlDeclaration">>,
               <<"packageTypeDeclaration", "Semicolon">>}
    BY Zenon
    DEF build_typeDeclaration, If, token_is_derivedTypeDeclaration,
        token_is_typeDeclaration
  <2> HIDE DEF doing
  <2>3. /\ "derivedTypeDeclaration" \in Plain /\ "typedefDeclaration" \in Plain
        /\ "parserDeclaration" \in Plain /\ "controlDeclaration" \in Plain
        /\ "packageTypeDeclaration" \in Plain /\ "Semicolon" \in Plain
    BY PlainNames
  <2>4. MayDo(doing)
    BY <2>2, <2>3, PlainTasks DEF MayDo
  <2> QED BY <2>1, <2>4 DEF doing
<1> QED BY <1>1, <1>2, <1>3, <1>4, <1>5, <1>6, <1>7, <1>8, <1>9, <1>10, <1>11,
           <1>12, <1>13, <1>14, <1>15, <1>16, <1>17, <1>18, <1>19, <1>20

(* Variables, instances, assignments and calls. *)
LEMMA CallsMayDo ==
  ASSUME NEW t, NEW behind
  PROVE  /\ MayDo(Production("argument", t, behind))
         /\ MayDo(Production("argumentList", t, behind))
         /\ MayDo(Production("variableDeclaration", t, behind))
         /\ MayDo(Production("instantiation", t, behind))
         /\ MayDo(Production("directApplication", t, behind))
         /\ MayDo(Production("directApplication_", t, behind))
         /\ MayDo(Production("prefixedNonTypeName", t, behind))
         /\ MayDo(Production("arrayIndex", t, behind))
         /\ MayDo(Production("arrayIndex_", t, behind))
         /\ MayDo(Production("lvalueExpr", t, behind))
         /\ MayDo(Production("lvalue", t, behind))
         /\ MayDo(Production("lvalue_", t, behind))
         /\ MayDo(Production("assignmentOrMethodCallStatement", t, behind))
         /\ MayDo(Production("methodTypeArguments", t, behind))
         /\ MayDo(Production("assignmentOrCall", t, behind))
<1>1. MayDo(Production("argument", t, behind))
  <2>1. Production("argument", t, behind) = build_argument(t)
    BY ExpressionsAre, Zenon DEF Production
  <2> DEFINE doing == build_argument(t)
  <2>2. doing \in {Fail, <<Expression(1)>>, <<"name", "Equal", Expression(1)>>,
               <<"Dontcare">>}
    BY Zenon
    DEF build_argument, If, token_is_typeName, token_is_prefixedType,
        token_is_nonTypeName, token_is_name, token_is_expression, token_is_argument
  <2> HIDE DEF doing
  <2>3. /\ Expression(1) \in Plain /\ "name" \in Plain /\ "Equal" \in Plain
        /\ "Dontcare" \in Plain
    BY PlainNames, ExpressionsAre
  <2>4. MayDo(doing)
    BY <2>2, <2>3, PlainTasks DEF MayDo
  <2> QED BY <2>1, <2>4 DEF doing
<1>2. MayDo(Production("argumentList", t, behind))
  <2>1. Production("argumentList", t, behind) = build_argumentList(t)
    BY ExpressionsAre, Zenon DEF Production
  <2>2. /\ "argument" \in Plain /\ "moreArguments" \in Plain
    BY PlainNames
  <2> QED
    BY <2>1, <2>2, PlainTasks DEF MayDo, build_argumentList, IfAny
<1>3. MayDo(Production("variableDeclaration", t, behind))
  <2>1. Production("variableDeclaration", t, behind) = build_variableDeclaration(t)
    BY ExpressionsAre, Zenon DEF Production
  <2>2. /\ "name" \in Plain /\ "optInitializer" \in Plain /\ "Semicolon" \in Plain
    BY PlainNames
  <2> QED
    BY <2>1, <2>2, PlainTasks DEF MayDo, build_variableDeclaration
<1>4. MayDo(Production("instantiation", t, behind))
  <2>1. Production("instantiation", t, behind) = build_instantiation(t)
    BY ExpressionsAre, Zenon DEF Production
  <2>2. /\ "argumentList" \in Plain /\ "name" \in Plain /\ "Semicolon" \in Plain
    BY PlainNames
  <2>3. Even(<<"ParenthOpen", "argumentList", "ParenthClose", "name", "Semicolon">>)
    BY <2>2, Matches, PairTasks
  <2> QED
    BY <2>1, <2>3 DEF MayDo, build_instantiation
<1>5. MayDo(Production("directApplication", t, behind))
  <2>1. Production("directApplication", t, behind) = build_directApplication(t)
    BY ExpressionsAre, Zenon DEF Production
  <2>2. /\ "typeName" \in Plain /\ "directApplication_" \in Plain
    BY PlainNames
  <2> QED
    BY <2>1, <2>2, PlainTasks DEF MayDo, build_directApplication, If
<1>6. MayDo(Production("directApplication_", t, behind))
  <2>1. Production("directApplication_", t, behind) = build_directApplication_(t)
    BY ExpressionsAre, Zenon DEF Production
  <2>2. /\ "DotPrefix" \in Plain /\ "Apply" \in Plain /\ "argumentList" \in Plain
        /\ "Semicolon" \in Plain
    BY PlainNames
  <2>3. Even(<<"DotPrefix", "Apply", "ParenthOpen", "argumentList", "ParenthClose",
               "Semicolon">>)
    BY <2>2, Matches, PairTasks
  <2> QED
    BY <2>1, <2>3 DEF MayDo, build_directApplication_
<1>7. MayDo(Production("prefixedNonTypeName", t, behind))
  <2>1. Production("prefixedNonTypeName", t, behind) = build_prefixedNonTypeName(t)
    BY ExpressionsAre, Zenon DEF Production
  <2>2. /\ "DotPrefix" \in Plain /\ "nonTypeName" \in Plain
    BY PlainNames
  <2>3. /\ Even(<<"DotPrefix">>) /\ Even(<<"nonTypeName">>)
    BY <2>2, PlainTasks
  <2> QED
    BY <2>1, <2>3, OptionMayDo DEF MayDo, build_prefixedNonTypeName
<1>8. MayDo(Production("arrayIndex", t, behind))
  <2>1. Production("arrayIndex", t, behind) = build_arrayIndex(t)
    BY ExpressionsAre, Zenon DEF Production
  <2>2. /\ Expression(1) \in Plain /\ "arrayIndex_" \in Plain
    BY PlainNames, ExpressionsAre
  <2> QED
    BY <2>1, <2>2, PlainTasks DEF MayDo, build_arrayIndex, If
<1>9. MayDo(Production("arrayIndex_", t, behind))
  <2>1. Production("arrayIndex_", t, behind) = build_arrayIndex_(t)
    BY ExpressionsAre, Zenon DEF Production
  <2>2. /\ "Colon" \in Plain /\ Expression(1) \in Plain
    BY PlainNames, ExpressionsAre
  <2> QED
    BY <2>1, <2>2, PlainTasks DEF MayDo, build_arrayIndex_, IfAny
<1>10. MayDo(Production("lvalueExpr", t, behind))
  <2>1. Production("lvalueExpr", t, behind) = build_lvalueExpr(t)
    BY ExpressionsAre, Zenon DEF Production
  <2> DEFINE doing == build_lvalueExpr(t)
  <2>2. doing \in {Fail, <<"DotPrefix", "name">>,
               <<"BracketOpen", "arrayIndex", "BracketClose">>}
    BY Zenon DEF build_lvalueExpr
  <2> HIDE DEF doing
  <2>3. /\ "DotPrefix" \in Plain /\ "name" \in Plain /\ "arrayIndex" \in Plain
    BY PlainNames
  <2>4. Even(<<"BracketOpen", "arrayIndex", "BracketClose">>)
    BY <2>3, Matches, PairTasks
  <2>5. MayDo(doing)
    BY <2>2, <2>3, <2>4, PlainTasks DEF MayDo
  <2> QED BY <2>1, <2>5 DEF doing
<1>11. MayDo(Production("lvalue", t, behind))
  <2>1. Production("lvalue", t, behind) = build_lvalue(t)
    BY ExpressionsAre, Zenon DEF Production
  <2>2. /\ "prefixedNonTypeName" \in Plain /\ "lvalue_" \in Plain
    BY PlainNames
  <2> QED
    BY <2>1, <2>2, PlainTasks DEF MayDo, build_lvalue, If
<1>12. MayDo(Production("lvalue_", t, behind))
  <2>1. Production("lvalue_", t, behind) = build_lvalue_(t)
    BY ExpressionsAre, Zenon DEF Production
  <2>2. /\ "lvalueExpr" \in Plain /\ "lvalue_" \in Plain
    BY PlainNames
  <2> QED
    BY <2>1, <2>2, PlainTasks, WhileMayDo DEF build_lvalue_
<1>13. MayDo(Production("assignmentOrMethodCallStatement", t, behind))
  <2>1. Production("assignmentOrMethodCallStatement", t, behind) =
        build_assignmentOrMethodCallStatement(t)
    BY ExpressionsAre, Zenon DEF Production
  <2>2. /\ "lvalue" \in Plain /\ "methodTypeArguments" \in Plain
        /\ "assignmentOrCall" \in Plain /\ "Semicolon" \in Plain
    BY PlainNames
  <2> QED
    BY <2>1, <2>2, PlainTasks DEF MayDo, build_assignmentOrMethodCallStatement, If
<1>14. MayDo(Production("methodTypeArguments", t, behind))
  <2>1. Production("methodTypeArguments", t, behind) = methodTypeArguments(t)
    BY ExpressionsAre, Zenon DEF Production
  <2>2. /\ "AngleOpen" \in Plain /\ "typeArgumentList" \in Plain
        /\ "AngleClose" \in Plain
    BY PlainNames
  <2> QED
    BY <2>1, <2>2, PlainTasks DEF MayDo, methodTypeArguments, IfAny
<1>15. MayDo(Production("assignmentOrCall", t, behind))
  <2>1. Production("assignmentOrCall", t, behind) = assignmentOrCall(t)
    BY ExpressionsAre, Zenon DEF Production
  <2> DEFINE doing == assignmentOrCall(t)
  <2>2. doing \in {Fail, <<"ParenthOpen", "argumentList", "ParenthClose">>,
               <<"Equal", Expression(1)>>}
    BY Zenon DEF assignmentOrCall
  <2> HIDE DEF doing
  <2>3. /\ "argumentList" \in Plain /\ "Equal" \in Plain /\ Expression(1) \in Plain
    BY PlainNames, ExpressionsAre
  <2>4. Even(<<"ParenthOpen", "argumentList", "ParenthClose">>)
    BY <2>3, Matches, PairTasks
  <2>5. MayDo(doing)
    BY <2>2, <2>3, <2>4, PlainTasks DEF MayDo
  <2> QED BY <2>1, <2>5 DEF doing
<1> QED BY <1>1, <1>2, <1>3, <1>4, <1>5, <1>6, <1>7, <1>8, <1>9, <1>10, <1>11,
           <1>12, <1>13, <1>14, <1>15

(* Parsers. *)
LEMMA ParsersMayDo ==
  ASSUME NEW t, NEW behind
  PROVE  /\ MayDo(Production("parserLocalElement", t, behind))
         /\ MayDo(Production("localDeclaration", t, behind))
         /\ MayDo(Production("parserLocalElements", t, behind))
         /\ MayDo(Production("parserStatements", t, behind))
         /\ MayDo(Production("parserBlockStatements", t, behind))
         /\ MayDo(Production("parserStatement", t, behind))
         /\ MayDo(Production("parserStatement_", t, behind))
         /\ MayDo(Production("expressionList", t, behind))
         /\ MayDo(Production("simpleKeysetExpression", t, behind))
         /\ MayDo(Production("tupleKeysetExpression", t, behind))
         /\ MayDo(Production("keysetExpression", t, behind))
         /\ MayDo(Production("selectCase", t, behind))
         /\ MayDo(Production("selectCaseList", t, behind))
         /\ MayDo(Production("selectExpression", t, behind))
         /\ MayDo(Production("stateExpression", t, behind))
         /\ MayDo(Production("transitionStatement", t, behind))
         /\ MayDo(Production("parserState", t, behind))
         /\ MayDo(Production("parserStates", t, behind))
         /\ MayDo(Production("moreParserStates", t, behind))
         /\ MayDo(Production("parserDeclaration", t, behind))
         /\ MayDo(Production("parserDeclaration_", t, behind))
<1>1. MayDo(Production("parserLocalElement", t, behind))
  <2>1. Production("parserLocalElement", t, behind) = build_parserLocalElement(t)
    BY ExpressionsAre, Zenon DEF Production
  <2> DEFINE doing == build_parserLocalElement(t)
  <2>2. doing \in {Fail, <<"constantDeclaration">>,
               <<"typeRef", "localDeclaration">>}
    BY Zenon
    DEF build_parserLocalElement, If, token_is_prefixedType, token_is_baseType,
        token_is_typeRef, token_is_parserLocalElement
  <2> HIDE DEF doing
  <2>3. /\ "constantDeclaration" \in Plain /\ "typeRef" \in Plain
        /\ "localDeclaration" \in Plain
    BY PlainNames
  <2>4. MayDo(doing)
    BY <2>2, <2>3, PlainTasks DEF MayDo
  <2> QED BY <2>1, <2>4 DEF doing
<1>2. MayDo(Production("localDeclaration", t, behind))
  <2>1. Production("localDeclaration", t, behind) = localDeclaration(t)
    BY ExpressionsAre, Zenon DEF Production
  <2> DEFINE doing == localDeclaration(t)
  <2>2. doing \in {Fail, <<"instantiation">>, <<"variableDeclaration">>}
    BY Zenon DEF localDeclaration, DeclaredWithType
  <2> HIDE DEF doing
  <2>3. /\ "instantiation" \in Plain /\ "variableDeclaration" \in Plain
    BY PlainNames
  <2>4. MayDo(doing)
    BY <2>2, <2>3, PlainTasks DEF MayDo
  <2> QED BY <2>1, <2>4 DEF doing
<1>3. MayDo(Production("parserLocalElements", t, behind))
  <2>1. Production("parserLocalElements", t, behind) = build_parserLocalElements(t)
    BY ExpressionsAre, Zenon DEF Production
  <2>2. /\ "parserLocalElement" \in Plain /\ "parserLocalElements" \in Plain
    BY PlainNames
  <2> QED
    BY <2>1, <2>2, PlainTasks, WhileMayDo DEF build_parserLocalElements
<1>4. MayDo(Production("parserStatements", t, behind))
  <2>1. Production("parserStatements", t, behind) = build_parserStatements(t)
    BY ExpressionsAre, Zenon DEF Production
  <2>2. /\ "parserStatement" \in Plain /\ "parserStatements" \in Plain
    BY PlainNames
  <2> QED
    BY <2>1, <2>2, PlainTasks, WhileMayDo DEF build_parserStatements
<1>5. MayDo(Production("parserBlockStatements", t, behind))
  <2>1. Production("parserBlockStatements", t, behind) = build_parserBlockStatements(t)
    BY ExpressionsAre, Zenon DEF Production
  <2>2. "parserStatements" \in Plain
    BY PlainNames
  <2>3. Even(<<"BraceOpen", "parserStatements", "BraceClose">>)
    BY <2>2, Matches, PairTasks
  <2> QED
    BY <2>1, <2>3 DEF MayDo, build_parserBlockStatements, If
<1>6. MayDo(Production("parserStatement", t, behind))
  <2>1. Production("parserStatement", t, behind) = build_parserStatement(t)
    BY ExpressionsAre, Zenon DEF Production
  <2> DEFINE doing == build_parserStatement(t)
  <2>2. doing \in {Fail, <<"typeRef", "parserStatement_">>,
               <<"assignmentOrMethodCallStatement">>, <<"parserBlockStatements">>,
               <<"constantDeclaration">>, <<>>}
    BY Zenon DEF build_parserStatement
  <2> HIDE DEF doing
  <2>3. /\ "typeRef" \in Plain /\ "parserStatement_" \in Plain
        /\ "assignmentOrMethodCallStatement" \in Plain
        /\ "parserBlockStatements" \in Plain /\ "constantDeclaration" \in Plain
    BY PlainNames
  <2>4. MayDo(doing)
    BY <2>2, <2>3, PlainTasks DEF MayDo
  <2> QED BY <2>1, <2>4 DEF doing
<1>7. MayDo(Production("parserStatement_", t, behind))
  <2>1. Production("parserStatement_", t, behind) = build_parserStatement_(t)
    BY ExpressionsAre, Zenon DEF Production
  <2>2. /\ "variableDeclaration" \in Plain /\ "directApplication_" \in Plain
    BY PlainNames
  <2> QED
    BY <2>1, <2>2, PlainTasks DEF MayDo, build_parserStatement_
<1>8. MayDo(Production("expressionList", t, behind))
  <2>1. Production("expressionList", t, behind) = build_expressionList(t)
    BY ExpressionsAre, Zenon DEF Production
  <2>2. /\ Expression(1) \in Plain /\ "moreExpressions" \in Plain
    BY PlainNames, ExpressionsAre
  <2> QED
    BY <2>1, <2>2, PlainTasks DEF MayDo, build_expressionList, IfAny
<1>9. MayDo(Production("simpleKeysetExpression", t, behind))
  <2>1. Production("simpleKeysetExpression", t, behind) = build_simpleKeysetExpression(t)
    BY ExpressionsAre, Zenon DEF Production
  <2> DEFINE doing == build_simpleKeysetExpression(t)
  <2>2. doing \in {Fail, <<Expression(1)>>, <<"Default">>, <<"Dontcare">>}
    BY Zenon DEF build_simpleKeysetExpression
  <2> HIDE DEF doing
  <2>3. /\ Expression(1) \in Plain /\ "Default" \in Plain /\ "Dontcare" \in Plain
    BY PlainNames, ExpressionsAre
  <2>4. MayDo(doing)
    BY <2>2, <2>3, PlainTasks DEF MayDo
  <2> QED BY <2>1, <2>4 DEF doing
<1>10. MayDo(Production("tupleKeysetExpression", t, behind))
  <2>1. Production("tupleKeysetExpression", t, behind) = build_tupleKeysetExpression(t)
    BY ExpressionsAre, Zenon DEF Production
  <2>2. /\ "simpleKeysetExpression" \in Plain /\ "moreKeysetExpressions" \in Plain
    BY PlainNames
  <2>3. Even(<<"ParenthOpen", "simpleKeysetExpression", "moreKeysetExpressions",
               "ParenthClose">>)
    BY <2>2, Matches, PairTasks
  <2> QED
    BY <2>1, <2>3 DEF MayDo, build_tupleKeysetExpression, If
<1>11. MayDo(Production("keysetExpression", t, behind))
  <2>1. Production("keysetExpression", t, behind) = build_keysetExpression(t)
    BY ExpressionsAre, Zenon DEF Production
  <2>2. /\ "tupleKeysetExpression" \in Plain /\ "simpleKeysetExpression" \in Plain
    BY PlainNames
  <2> QED
    BY <2>1, <2>2, PlainTasks DEF MayDo, build_keysetExpression, If
<1>12. MayDo(Production("selectCase", t, behind))
  <2>1. Production("selectCase", t, behind) = build_selectCase(t)
    BY ExpressionsAre, Zenon DEF Production
  <2>2. /\ "keysetExpression" \in Plain /\ "Colon" \in Plain /\ "name" \in Plain
        /\ "Semicolon" \in Plain
    BY PlainNames
  <2> QED
    BY <2>1, <2>2, PlainTasks DEF MayDo, build_selectCase, If
<1>13. MayDo(Production("selectCaseList", t, behind))
  <2>1. Production("selectCaseList", t, behind) = build_selectCaseList(t)
    BY ExpressionsAre, Zenon DEF Production
  <2>2. /\ "selectCase" \in Plain /\ "selectCaseList" \in Plain
    BY PlainNames
  <2> QED
    BY <2>1, <2>2, PlainTasks, WhileMayDo DEF build_selectCaseList
<1>14. MayDo(Production("selectExpression", t, behind))
  <2>1. Production("selectExpression", t, behind) = build_selectExpression(t)
    BY ExpressionsAre, Zenon DEF Production
  <2>2. /\ "Select" \in Plain /\ "expressionList" \in Plain
        /\ "selectCaseList" \in Plain
    BY PlainNames
  <2>3. Even(<<"Select", "ParenthOpen", "expressionList", "ParenthClose", "BraceOpen",
               "selectCaseList", "BraceClose">>)
    BY <2>2, Matches, TwoPairTasks
  <2> QED
    BY <2>1, <2>3 DEF MayDo, build_selectExpression, If
<1>15. MayDo(Production("stateExpression", t, behind))
  <2>1. Production("stateExpression", t, behind) = build_stateExpression(t)
    BY ExpressionsAre, Zenon DEF Production
  <2> DEFINE doing == build_stateExpression(t)
  <2>2. doing \in {Fail, <<"name", "Semicolon">>, <<"selectExpression">>}
    BY Zenon DEF build_stateExpression
  <2> HIDE DEF doing
  <2>3. /\ "name" \in Plain /\ "Semicolon" \in Plain /\ "selectExpression" \in Plain
    BY PlainNames
  <2>4. MayDo(doing)
    BY <2>2, <2>3, PlainTasks DEF MayDo
  <2> QED BY <2>1, <2>4 DEF doing
<1>16. MayDo(Production("transitionStatement", t, behind))
  <2>1. Production("transitionStatement", t, behind) = build_transitionStatement(t)
    BY ExpressionsAre, Zenon DEF Production
  <2>2. /\ "Transition" \in Plain /\ "stateExpression" \in Plain
    BY PlainNames
  <2> QED
    BY <2>1, <2>2, PlainTasks DEF MayDo, build_transitionStatement, If
<1>17. MayDo(Production("parserState", t, behind))
  <2>1. Production("parserState", t, behind) = build_parserState(t)
    BY ExpressionsAre, Zenon DEF Production
  <2>2. /\ "State" \in Plain /\ "name" \in Plain /\ "parserStatements" \in Plain
        /\ "transitionStatement" \in Plain
    BY PlainNames
  <2>3. Even(<<"State", "name", "BraceOpen", "parserStatements", "transitionStatement",
               "BraceClose">>)
    BY <2>2, Matches, PairTasks
  <2> QED
    BY <2>1, <2>3 DEF MayDo, build_parserState, If
<1>18. MayDo(Production("parserStates", t, behind))
  <2>1. Production("parserStates", t, behind) = build_parserStates(t)
    BY ExpressionsAre, Zenon DEF Production
  <2>2. /\ "parserState" \in Plain /\ "moreParserStates" \in Plain
    BY PlainNames
  <2> QED
    BY <2>1, <2>2, PlainTasks DEF MayDo, build_parserStates, If
<1>19. MayDo(Production("moreParserStates", t, behind))
  <2>1. Production("moreParserStates", t, behind) = moreParserStates(t)
    BY ExpressionsAre, Zenon DEF Production
  <2>2. /\ "parserState" \in Plain /\ "moreParserStates" \in Plain
    BY PlainNames
  <2> QED
    BY <2>1, <2>2, PlainTasks, WhileMayDo DEF moreParserStates
<1>20. MayDo(Production("parserDeclaration", t, behind))
  <2>1. Production("parserDeclaration", t, behind) = build_parserDeclaration(t)
    BY ExpressionsAre, Zenon DEF Production
  <2>2. /\ "parserTypeDeclaration" \in Plain /\ "parserDeclaration_" \in Plain
    BY PlainNames
  <2> QED
    BY <2>1, <2>2, PlainTasks DEF MayDo, build_parserDeclaration, If
<1>21. MayDo(Production("parserDeclaration_", t, behind))
  <2>1. Production("parserDeclaration_", t, behind) = build_parserDeclaration_(t)
    BY ExpressionsAre, Zenon DEF Production
  <2>2. /\ "optConstructorParameters" \in Plain /\ "parserLocalElements" \in Plain
        /\ "parserStates" \in Plain /\ "Semicolon" \in Plain
    BY PlainNames
  <2>3. Even(<<"optConstructorParameters", "BraceOpen", "parserLocalElements",
               "parserStates", "BraceClose">>)
    BY <2>2, Matches, PairTasks
  <2> QED
    BY <2>1, <2>2, <2>3, PlainTasks DEF MayDo, build_parserDeclaration_
<1> QED BY <1>1, <1>2, <1>3, <1>4, <1>5, <1>6, <1>7, <1>8, <1>9, <1>10, <1>11,
           <1>12, <1>13, <1>14, <1>15, <1>16, <1>17, <1>18, <1>19, <1>20, <1>21

(* Controls. *)
LEMMA ControlsMayDo ==
  ASSUME NEW t, NEW behind
  PROVE  /\ MayDo(Production("actionDeclaration", t, behind))
         /\ MayDo(Production("keyElement", t, behind))
         /\ MayDo(Production("keyElementList", t, behind))
         /\ MayDo(Production("actionRef", t, behind))
         /\ MayDo(Production("actionRef_", t, behind))
         /\ MayDo(Production("actionList", t, behind))
         /\ MayDo(Production("entry", t, behind))
         /\ MayDo(Production("entriesList", t, behind))
         /\ MayDo(Production("moreEntries", t, behind))
         /\ MayDo(Production("tableProperty", t, behind))
         /\ MayDo(Production("tablePropertyList", t, behind))
         /\ MayDo(Production("moreTableProperties", t, behind))
         /\ MayDo(Production("tableDeclaration", t, behind))
         /\ MayDo(Production("controlLocalDeclaration", t, behind))
         /\ MayDo(Production("controlLocalDeclarations", t, behind))
         /\ MayDo(Production("controlDeclaration", t, behind))
         /\ MayDo(Production("controlDeclaration_", t, behind))
<1>1. MayDo(Production("actionDeclaration", t, behind))
  <2>1. Production("actionDeclaration", t, behind) = build_actionDeclaration(t)
    BY ExpressionsAre, Zenon DEF Production
  <2>2. /\ "Action" \in Plain /\ "name" \in Plain /\ "parameterList" \in Plain
        /\ "blockStatement" \in Plain
    BY PlainNames
  <2>3. Even(<<"Action", "name", "ParenthOpen", "parameterList", "ParenthClose",
               "blockStatement">>)
    BY <2>2, Matches, PairTasks
  <2> QED
    BY <2>1, <2>3 DEF MayDo, build_actionDeclaration, If
<1>2. MayDo(Production("keyElement", t, behind))
  <2>1. Production("keyElement", t, behind) = build_keyElement(t)
    BY ExpressionsAre, Zenon DEF Production
  <2>2. /\ Expression(1) \in Plain /\ "Colon" \in Plain /\ "name" \in Plain
        /\ "Semicolon" \in Plain
    BY PlainNames, ExpressionsAre
  <2> QED
    BY <2>1, <2>2, PlainTasks DEF MayDo, build_keyElement, If
<1>3. MayDo(Production("keyElementList", t, behind))
  <2>1. Production("keyElementList", t, behind) = build_keyElementList(t)
    BY ExpressionsAre, Zenon DEF Production
  <2>2. /\ "keyElement" \in Plain /\ "keyElementList" \in Plain
    BY PlainNames
  <2> QED
    BY <2>1, <2>2, PlainTasks, WhileMayDo DEF build_keyElementList
<1>4. MayDo(Production("actionRef", t, behind))
  <2>1. Production("actionRef", t, behind) = build_actionRef(t)
    BY ExpressionsAre, Zenon DEF Production
  <2>2. /\ "prefixedNonTypeName" \in Plain /\ "actionRef_" \in Plain
    BY PlainNames
  <2> QED
    BY <2>1, <2>2, PlainTasks DEF MayDo, build_actionRef, If
<1>5. MayDo(Production("actionRef_", t, behind))
  <2>1. Production("actionRef_", t, behind) = build_actionRef_(t)
    BY ExpressionsAre, Zenon DEF Production
  <2>2. "argumentList" \in Plain
    BY PlainNames
  <2>3. Even(<<"ParenthOpen", "argumentList", "ParenthClose">>)
    BY <2>2, Matches, PairTasks
  <2> QED
    BY <2>1, <2>3, PlainTasks DEF MayDo, build_actionRef_, IfAny
<1>6. MayDo(Production("actionList", t, behind))
  <2>1. Production("actionList", t, behind) = build_actionList(t)
    BY ExpressionsAre, Zenon DEF Production
  <2>2. /\ "actionRef" \in Plain /\ "Semicolon" \in Plain /\ "actionList" \in Plain
    BY PlainNames
  <2> QED
    BY <2>1, <2>2, PlainTasks, WhileMayDo DEF build_actionList
<1>7. MayDo(Production("entry", t, behind))
  <2>1. Production("entry", t, behind) = build_entry(t)
    BY ExpressionsAre, Zenon DEF Production
  <2>2. /\ "keysetExpression" \in Plain /\ "Colon" \in Plain
        /\ "actionRef" \in Plain /\ "Semicolon" \in Plain
    BY PlainNames
  <2> QED
    BY <2>1, <2>2, PlainTasks DEF MayDo, build_entry, If
<1>8. MayDo(Production("entriesList", t, behind))
  <2>1. Production("entriesList", t, behind) = build_entriesList(t)
    BY ExpressionsAre, Zenon DEF Production
  <2>2. /\ "entry" \in Plain /\ "moreEntries" \in Plain
    BY PlainNames
  <2> QED
    BY <2>1, <2>2, PlainTasks DEF MayDo, build_entriesList, If
<1>9. MayDo(Production("moreEntries", t, behind))
  <2>1. Production("moreEntries", t, behind) = moreEntries(t)
    BY ExpressionsAre, Zenon DEF Production
  <2>2. /\ "entry" \in Plain /\ "moreEntries" \in Plain
    BY PlainNames
  <2> QED
    BY <2>1, <2>2, PlainTasks, WhileMayDo DEF moreEntries
<1>10. MayDo(Production("tableProperty", t, behind))
  <2>1. Production("tableProperty", t, behind) = build_tableProperty(t)
    BY ExpressionsAre, Zenon DEF Production
  <2>2. /\ "Const" \in Plain /\ "tableProperty_" \in Plain
    BY PlainNames
  <2>3. /\ Even(<<"Const">>) /\ Even(<<"tableProperty_">>)
    BY <2>2, PlainTasks
  <2> QED
    BY <2>1, <2>3, OptionMayDo DEF MayDo, build_tableProperty, If
<1>11. MayDo(Production("tablePropertyList", t, behind))
  <2>1. Production("tablePropertyList", t, behind) = build_tablePropertyList(t)
    BY ExpressionsAre, Zenon DEF Production
  <2>2. /\ "tableProperty" \in Plain /\ "moreTableProperties" \in Plain
    BY PlainNames
  <2> QED
    BY <2>1, <2>2, PlainTasks DEF MayDo, build_tablePropertyList, If
<1>12. MayDo(Production("moreTableProperties", t, behind))
  <2>1. Production("moreTableProperties", t, behind) = moreTableProperties(t)
    BY ExpressionsAre, Zenon DEF Production
  <2>2. /\ "tableProperty" \in Plain /\ "moreTableProperties" \in Plain
    BY PlainNames
  <2> QED
    BY <2>1, <2>2, PlainTasks, WhileMayDo DEF moreTableProperties
<1>13. MayDo(Production("tableDeclaration", t, behind))
  <2>1. Production("tableDeclaration", t, behind) = build_tableDeclaration(t)
    BY ExpressionsAre, Zenon DEF Production
  <2>2. /\ "Table" \in Plain /\ "name" \in Plain /\ "tablePropertyList" \in Plain
    BY PlainNames
  <2>3. Even(<<"Table", "name", "BraceOpen", "tablePropertyList", "BraceClose">>)
    BY <2>2, Matches, PairTasks
  <2> QED
    BY <2>1, <2>3 DEF MayDo, build_tableDeclaration, If
<1>14. MayDo(Production("controlLocalDeclaration", t, behind))
  <2>1. Production("controlLocalDeclaration", t, behind) = build_controlLocalDeclaration(t)
    BY ExpressionsAre, Zenon DEF Production
  <2> DEFINE doing == build_controlLocalDeclaration(t)
  <2>2. doing \in {Fail, <<"constantDeclaration">>, <<"actionDeclaration">>,
               <<"tableDeclaration">>, <<"typeRef", "localDeclaration">>}
    BY Zenon DEF build_controlLocalDeclaration
  <2> HIDE DEF doing
  <2>3. /\ "constantDeclaration" \in Plain /\ "actionDeclaration" \in Plain
        /\ "tableDeclaration" \in Plain /\ "typeRef" \in Plain
        /\ "localDeclaration" \in Plain
    BY PlainNames
  <2>4. MayDo(doing)
    BY <2>2, <2>3, PlainTasks DEF MayDo
  <2> QED BY <2>1, <2>4 DEF doing
<1>15. MayDo(Production("controlLocalDeclarations", t, behind))
  <2>1. Production("controlLocalDeclarations", t, behind) =
        build_controlLocalDeclarations(t)
    BY ExpressionsAre, Zenon DEF Production
  <2>2. /\ "controlLocalDeclaration" \in Plain
        /\ "controlLocalDeclarations" \in Plain
    BY PlainNames
  <2> QED
    BY <2>1, <2>2, PlainTasks, WhileMayDo DEF build_controlLocalDeclarations
<1>16. MayDo(Production("controlDeclaration", t, behind))
  <2>1. Production("controlDeclaration", t, behind) = build_controlDeclaration(t)
    BY ExpressionsAre, Zenon DEF Production
  <2>2. /\ "controlTypeDeclaration" \in Plain /\ "controlDeclaration_" \in Plain
    BY PlainNames
  <2> QED
    BY <2>1, <2>2, PlainTasks DEF MayDo, build_controlDeclaration, If
<1>17. MayDo(Production("controlDeclaration_", t, behind))
  <2>1. Production("controlDeclaration_", t, behind) = build_controlDeclaration_(t)
    BY ExpressionsAre, Zenon DEF Production
  <2>2. /\ "optConstructorParameters" \in Plain
        /\ "controlLocalDeclarations" \in Plain /\ "Apply" \in Plain
        /\ "blockStatement" \in Plain /\ "Semicolon" \in Plain
    BY PlainNames
  <2>3. Even(<<"optConstructorParameters", "BraceOpen", "controlLocalDeclarations",
               "Apply", "blockStatement", "BraceClose">>)
    BY <2>2, Matches, PairTasks
  <2> QED
    BY <2>1, <2>2, <2>3, PlainTasks DEF MayDo, build_controlDeclaration_
<1> QED BY <1>1, <1>2, <1>3, <1>4, <1>5, <1>6, <1>7, <1>8, <1>9, <1>10, <1>11,
           <1>12, <1>13, <1>14, <1>15, <1>16, <1>17

(* Statements. *)
LEMMA StatementsMayDo ==
  ASSUME NEW t, NEW behind
  PROVE  /\ MayDo(Production("conditionalStatement", t, behind))
         /\ MayDo(Production("branch", t, behind))
         /\ MayDo(Production("else", t, behind))
         /\ MayDo(Production("exitStatement", t, behind))
         /\ MayDo(Production("returnStatement", t, behind))
         /\ MayDo(Production("returnStatement_", t, behind))
         /\ MayDo(Production("switchLabel", t, behind))
         /\ MayDo(Production("switchCase", t, behind))
         /\ MayDo(Production("switchCase_", t, behind))
         /\ MayDo(Production("switchCases", t, behind))
         /\ MayDo(Production("switchStatement", t, behind))
         /\ MayDo(Production("statement", t, behind))
         /\ MayDo(Production("statementOrDecl", t, behind))
         /\ MayDo(Production("statementOrDecl_", t, behind))
         /\ MayDo(Production("statementOrDeclList", t, behind))
         /\ MayDo(Production("blockStatement", t, behind))
<1>1. MayDo(Production("conditionalStatement", t, behind))
  <2>1. Production("conditionalStatement", t, behind) = build_conditionalStatement(t)
    BY ExpressionsAre, Zenon DEF Production
  <2>2. /\ "If" \in Plain /\ Expression(1) \in Plain /\ "branch" \in Plain
        /\ "else" \in Plain
    BY PlainNames, ExpressionsAre
  <2>3. Even(<<"If", "ParenthOpen", Expression(1), "ParenthClose", "branch", "else">>)
    BY <2>2, Matches, PairTasks
  <2> QED
    BY <2>1, <2>3 DEF MayDo, build_conditionalStatement, If
<1>2. MayDo(Production("branch", t, behind))
  <2>1. Production("branch", t, behind) = branch(t)
    BY ExpressionsAre, Zenon DEF Production
  <2>2. "statement" \in Plain
    BY PlainNames
  <2> QED
    BY <2>1, <2>2, PlainTasks DEF MayDo, branch, If
<1>3. MayDo(Production("else", t, behind))
  <2>1. Production("else", t, behind) = else(t)
    BY ExpressionsAre, Zenon DEF Production
  <2>2. /\ "Else" \in Plain /\ "branch" \in Plain
    BY PlainNames
  <2> QED
    BY <2>1, <2>2, PlainTasks DEF MayDo, else, IfAny
<1>4. MayDo(Production("exitStatement", t, behind))
  <2>1. Production("exitStatement", t, behind) = build_exitStatement(t)
    BY ExpressionsAre, Zenon DEF Production
  <2>2. /\ "Exit" \in Plain /\ "Semicolon" \in Plain
    BY PlainNames
  <2> QED
    BY <2>1, <2>2, PlainTasks DEF MayDo, build_exitStatement, If
<1>5. MayDo(Production("returnStatement", t, behind))
  <2>1. Production("returnStatement", t, behind) = build_returnStatement(t)
    BY ExpressionsAre, Zenon DEF Production
  <2>2. /\ "Return" \in Plain /\ "returnStatement_" \in Plain
        /\ "Semicolon" \in Plain
    BY PlainNames
  <2> QED
    BY <2>1, <2>2, PlainTasks DEF MayDo, build_returnStatement, If
<1>6. MayDo(Production("returnStatement_", t, behind))
  <2>1. Production("returnStatement_", t, behind) = build_returnStatement_(t)
    BY ExpressionsAre, Zenon DEF Production
  <2>2. Expression(1) \in Plain
    BY PlainNames, ExpressionsAre
  <2> QED
    BY <2>1, <2>2, PlainTasks DEF MayDo, build_returnStatement_, IfAny
<1>7. MayDo(Production("switchLabel", t, behind))
  <2>1. Production("switchLabel", t, behind) = build_switchLabel(t)
    BY ExpressionsAre, Zenon DEF Production
  <2> DEFINE doing == build_switchLabel(t)
  <2>2. doing \in {Fail, <<"name">>, <<"Default">>}
    BY Zenon DEF build_switchLabel
  <2> HIDE DEF doing
  <2>3. /\ "name" \in Plain /\ "Default" \in Plain
    BY PlainNames
  <2>4. MayDo(doing)
    BY <2>2, <2>3, PlainTasks DEF MayDo
  <2> QED BY <2>1, <2>4 DEF doing
<1>8. MayDo(Production("switchCase", t, behind))
  <2>1. Production("switchCase", t, behind) = build_switchCase(t)
    BY ExpressionsAre, Zenon DEF Production
  <2>2. /\ "switchLabel" \in Plain /\ "Colon" \in Plain /\ "switchCase_" \in Plain
    BY PlainNames
  <2> QED
    BY <2>1, <2>2, PlainTasks DEF MayDo, build_switchCase, If
<1>9. MayDo(Production("switchCase_", t, behind))
  <2>1. Production("switchCase_", t, behind) = build_switchCase_(t)
    BY ExpressionsAre, Zenon DEF Production
  <2>2. "blockStatement" \in Plain
    BY PlainNames
  <2> QED
    BY <2>1, <2>2, PlainTasks DEF MayDo, build_switchCase_, IfAny
<1>10. MayDo(Production("switchCases", t, behind))
  <2>1. Production("switchCases", t, behind) = build_switchCases(t)
    BY ExpressionsAre, Zenon DEF Production
  <2>2. /\ "switchCase" \in Plain /\ "switchCases" \in Plain
    BY PlainNames
  <2> QED
    BY <2>1, <2>2, PlainTasks, WhileMayDo DEF build_switchCases
<1>11. MayDo(Production("switchStatement", t, behind))
  <2>1. Production("switchStatement", t, behind) = build_switchStatement(t)
    BY ExpressionsAre, Zenon DEF Production
  <2>2. /\ "Switch" \in Plain /\ Expression(1) \in Plain /\ "switchCases" \in Plain
    BY PlainNames, ExpressionsAre
  <2>3. Even(<<"Switch", "ParenthOpen", Expression(1), "ParenthClose", "BraceOpen",
               "switchCases", "BraceClose">>)
    BY <2>2, Matches, TwoPairTasks
  <2> QED
    BY <2>1, <2>3 DEF MayDo, build_switchStatement, If
<1>12. MayDo(Production("statement", t, behind))
  <2>1. Production("statement", t, behind) = build_statement(t)
    BY ExpressionsAre, Zenon DEF Production
  <2> DEFINE doing == build_statement(t)
  <2>2. doing \in {Fail, <<"directApplication">>,
               <<"assignmentOrMethodCallStatement">>, <<"conditionalStatement">>,
               <<"Semicolon">>, <<"blockStatement">>, <<"exitStatement">>,
               <<"returnStatement">>, <<"switchStatement">>}
    BY Zenon DEF build_statement
  <2> HIDE DEF doing
  <2>3. /\ "directApplication" \in Plain
        /\ "assignmentOrMethodCallStatement" \in Plain
        /\ "conditionalStatement" \in Plain /\ "Semicolon" \in Plain
        /\ "blockStatement" \in Plain /\ "exitStatement" \in Plain
        /\ "returnStatement" \in Plain /\ "switchStatement" \in Plain
    BY PlainNames
  <2>4. /\ Even(<<"directApplication">>)
        /\ Even(<<"assignmentOrMethodCallStatement">>)
        /\ Even(<<"conditionalStatement">>) /\ Even(<<"Semicolon">>)
        /\ Even(<<"blockStatement">>) /\ Even(<<"exitStatement">>)
        /\ Even(<<"returnStatement">>) /\ Even(<<"switchStatement">>)
    BY <2>3, PlainTasks
  <2>5. MayDo(doing)
    BY <2>2, <2>4 DEF MayDo
  <2> QED BY <2>1, <2>5 DEF doing
<1>13. MayDo(Production("statementOrDecl", t, behind))
  <2>1. Production("statementOrDecl", t, behind) = build_statementOrDecl(t)
    BY ExpressionsAre, Zenon DEF Production
  <2> DEFINE doing == build_statementOrDecl(t)
  <2>2. doing \in {<<"typeRef", "statementOrDecl_">>, <<"statement">>,
               <<"constantDeclaration">>, <<>>}
    BY Zenon
    DEF build_statementOrDecl, IfAny, token_is_typeName, token_is_prefixedType,
        token_is_baseType, token_is_typeRef, token_is_nonTypeName, token_is_lvalue,
        token_is_assignmentOrMethodCallStatement, token_is_statement,
        token_is_statementOrDeclaration
  <2> HIDE DEF doing
  <2>3. /\ "typeRef" \in Plain /\ "statementOrDecl_" \in Plain
        /\ "statement" \in Plain /\ "constantDeclaration" \in Plain
    BY PlainNames
  <2>4. MayDo(doing)
    BY <2>2, <2>3, PlainTasks DEF MayDo
  <2> QED BY <2>1, <2>4 DEF doing
<1>14. MayDo(Production("statementOrDecl_", t, behind))
  <2>1. Production("statementOrDecl_", t, behind) = build_statementOrDecl_(t)
    BY ExpressionsAre, Zenon DEF Production
  <2> DEFINE doing == build_statementOrDecl_(t)
  <2>2. doing \in {<<"instantiation">>, <<"variableDeclaration">>,
               <<"directApplication_">>}
    BY Zenon DEF build_statementOrDecl_, DeclaredWithType
  <2> HIDE DEF doing
  <2>3. /\ "instantiation" \in Plain /\ "variableDeclaration" \in Plain
        /\ "directApplication_" \in Plain
    BY PlainNames
  <2>4. MayDo(doing)
    BY <2>2, <2>3, PlainTasks DEF MayDo
  <2> QED BY <2>1, <2>4 DEF doing
<1>15. MayDo(Production("statementOrDeclList", t, behind))
  <2>1. Production("statementOrDeclList", t, behind) = build_statementOrDeclList(t)
    BY ExpressionsAre, Zenon DEF Production
  <2>2. /\ "statementOrDecl" \in Plain /\ "statementOrDeclList" \in Plain
    BY PlainNames
  <2> QED
    BY <2>1, <2>2, PlainTasks, WhileMayDo DEF build_statementOrDeclList
<1>16. MayDo(Production("blockStatement", t, behind))
  <2>1. Production("blockStatement", t, behind) = build_blockStatement(t)
    BY ExpressionsAre, Zenon DEF Production
  <2>2. "statementOrDeclList" \in Plain
    BY PlainNames
  <2>3. Even(<<"BraceOpen", "statementOrDeclList", "BraceClose">>)
    BY <2>2, Matches, PairTasks
  <2> QED
    BY <2>1, <2>3 DEF MayDo, build_blockStatement, If
<1> QED BY <1>1, <1>2, <1>3, <1>4, <1>5, <1>6, <1>7, <1>8, <1>9, <1>10, <1>11,
           <1>12, <1>13, <1>14, <1>15, <1>16

(* The program and its declarations. *)
LEMMA ProgramMayDo ==
  ASSUME NEW t, NEW behind
  PROVE  /\ MayDo(Production("identifierList", t, behind))
         /\ MayDo(Production("errorDeclaration", t, behind))
         /\ MayDo(Production("matchKindDeclaration", t, behind))
         /\ MayDo(Production("functionDeclaration", t, behind))
         /\ MayDo(Production("declaration", t, behind))
         /\ MayDo(Production("declaration_", t, behind))
         /\ MayDo(Production("p4program", t, behind))
<1>1. MayDo(Production("identifierList", t, behind))
  <2>1. Production("identifierList", t, behind) = build_identifierList(t)
    BY ExpressionsAre, Zenon DEF Production
  <2>2. /\ "name" \in Plain /\ "moreIdentifiers" \in Plain
    BY PlainNames
  <2> QED
    BY <2>1, <2>2, PlainTasks DEF MayDo, build_identifierList, If
<1>2. MayDo(Production("errorDeclaration", t, behind))
  <2>1. Production("errorDeclaration", t, behind) = build_errorDeclaration(t)
    BY ExpressionsAre, Zenon DEF Production
  <2>2. /\ "Error" \in Plain /\ "identifierList" \in Plain
    BY PlainNames
  <2>3. Even(<<"Error", "BraceOpen", "identifierList", "BraceClose">>)
    BY <2>2, Matches, PairTasks
  <2> QED
    BY <2>1, <2>3 DEF MayDo, build_errorDeclaration, If
<1>3. MayDo(Production("matchKindDeclaration", t, behind))
  <2>1. Production("matchKindDeclaration", t, behind) = build_matchKindDeclaration(t)
    BY ExpressionsAre, Zenon DEF Production
  <2>2. /\ "MatchKind" \in Plain /\ "identifierList" \in Plain
    BY PlainNames
  <2>3. Even(<<"MatchKind", "BraceOpen", "identifierList", "BraceClose">>)
    BY <2>2, Matches, PairTasks
  <2> QED
    BY <2>1, <2>3 DEF MayDo, build_matchKindDeclaration, If
<1>4. MayDo(Production("functionDeclaration", t, behind))
  <2>1. Production("functionDeclaration", t, behind) = build_functionDeclaration(t)
    BY ExpressionsAre, Zenon DEF Production
  <2>2. /\ "functionPrototype_" \in Plain /\ "blockStatement" \in Plain
    BY PlainNames
  <2> QED
    BY <2>1, <2>2, PlainTasks DEF MayDo, build_functionDeclaration, If
<1>5. MayDo(Production("declaration", t, behind))
  <2>1. Production("declaration", t, behind) = build_declaration(t)
    BY ExpressionsAre, Zenon DEF Production
  <2> DEFINE doing == build_declaration(t)
  <2>2. doing \in {Fail, <<"constantDeclaration">>, <<"externDeclaration">>,
               <<"actionDeclaration">>, <<"typeDeclaration">>,
               <<"errorDeclaration">>, <<"matchKindDeclaration">>,
               <<"typeRef", "declaration_">>, <<"typeRef", "functionDeclaration">>}
    BY Zenon
    DEF build_declaration, If, token_is_prefixedType, token_is_baseType,
        token_is_typeRef, token_is_derivedTypeDeclaration, token_is_typeDeclaration,
        token_is_typeOrVoid, token_is_declaration
  <2> HIDE DEF doing
  <2>3. /\ "constantDeclaration" \in Plain /\ "externDeclaration" \in Plain
        /\ "actionDeclaration" \in Plain /\ "typeDeclaration" \in Plain
        /\ "errorDeclaration" \in Plain /\ "matchKindDeclaration" \in Plain
        /\ "typeRef" \in Plain /\ "declaration_" \in Plain
        /\ "functionDeclaration" \in Plain
    BY PlainNames
  <2>4. /\ Even(<<"constantDeclaration">>) /\ Even(<<"externDeclaration">>)
        /\ Even(<<"actionDeclaration">>) /\ Even(<<"typeDeclaration">>)
        /\ Even(<<"errorDeclaration">>) /\ Even(<<"matchKindDeclaration">>)
        /\ Even(<<"typeRef", "declaration_">>)
        /\ Even(<<"typeRef", "functionDeclaration">>)
    BY <2>3, PlainTasks
  <2>5. MayDo(doing)
    BY <2>2, <2>4 DEF MayDo
  <2> QED BY <2>1, <2>5 DEF doing
<1>6. MayDo(Production("declaration_", t, behind))
  <2>1. Production("declaration_", t, behind) = build_declaration_(t)
    BY ExpressionsAre, Zenon DEF Production
  <2> DEFINE doing == build_declaration_(t)
  <2>2. doing \in {Fail, <<"instantiation">>, <<"functionDeclaration">>}
    BY Zenon DEF build_declaration_
  <2> HIDE DEF doing
  <2>3. /\ "instantiation" \in Plain /\ "functionDeclaration" \in Plain
    BY PlainNames
  <2>4. MayDo(doing)
    BY <2>2, <2>3, PlainTasks DEF MayDo
  <2> QED BY <2>1, <2>4 DEF doing
<1>7. MayDo(Production("p4program", t, behind))
  <2>1. Production("p4program", t, behind) = build_p4program(t)
    BY ExpressionsAre, Zenon DEF Production
  <2> DEFINE doing == build_p4program(t)
  <2>2. doing \in {Fail, <<"declaration", "p4program">>,
               <<"Semicolon", "p4program">>, <<>>}
    BY Zenon DEF build_p4program
  <2> HIDE DEF doing
  <2>3. /\ "declaration" \in Plain /\ "p4program" \in Plain /\ "Semicolon" \in Plain
    BY PlainNames
  <2>4. MayDo(doing)
    BY <2>2, <2>3, PlainTasks DEF MayDo
  <2> QED BY <2>1, <2>4 DEF doing
<1> QED BY <1>1, <1>2, <1>3, <1>4, <1>5, <1>6, <1>7

(* Operands, and the lists with commas. *)
LEMMA OperandsMayDo ==
  ASSUME NEW t, NEW behind
  PROVE  /\ MayDo(Production("realTypeArg", t, behind))
         /\ MayDo(Production("realTypeArgumentList", t, behind))
         /\ MayDo(Production("expressionPrimary", t, behind))
         /\ MayDo(Production("dotPrefixed", t, behind))
         /\ MayDo(Production("moreTypeParameters", t, behind))
         /\ MayDo(Production("moreTypeArguments", t, behind))
         /\ MayDo(Production("moreParameters", t, behind))
         /\ MayDo(Production("moreArguments", t, behind))
         /\ MayDo(Production("moreSpecifiedIdentifiers", t, behind))
         /\ MayDo(Production("moreExpressions", t, behind))
         /\ MayDo(Production("moreKeysetExpressions", t, behind))
         /\ MayDo(Production("moreIdentifiers", t, behind))
         /\ MayDo(Production("moreRealTypeArguments", t, behind))
<1>1. MayDo(Production("realTypeArg", t, behind))
  <2>1. Production("realTypeArg", t, behind) = build_realTypeArg(t)
    BY ExpressionsAre, Zenon DEF Production
  <2> DEFINE doing == build_realTypeArg(t)
  <2>2. doing \in {Fail, <<"Dontcare">>, <<"typeRef">>}
    BY Zenon DEF build_realTypeArg
  <2> HIDE DEF doing
  <2>3. /\ "Dontcare" \in Plain /\ "typeRef" \in Plain
    BY PlainNames
  <2>4. MayDo(doing)
    BY <2>2, <2>3, PlainTasks DEF MayDo
  <2> QED BY <2>1, <2>4 DEF doing
<1>2. MayDo(Production("realTypeArgumentList", t, behind))
  <2>1. Production("realTypeArgumentList", t, behind) = build_realTypeArgumentList(t)
    BY ExpressionsAre, Zenon DEF Production
  <2>2. /\ "realTypeArg" \in Plain /\ "moreRealTypeArguments" \in Plain
    BY PlainNames
  <2> QED
    BY <2>1, <2>2, PlainTasks DEF MayDo, build_realTypeArgumentList, IfAny
<1>3. MayDo(Production("expressionPrimary", t, behind))
  <2>1. Production("expressionPrimary", t, behind) = build_expressionPrimary(t)
    BY ExpressionsAre, Zenon DEF Production
  <2> DEFINE doing == build_expressionPrimary(t)
  <2>2. doing \in {Fail, <<"Integer">>, <<"True">>, <<"False">>,
               <<"StringLiteral">>, <<"Error">>, <<"DotPrefix", "dotPrefixed">>,
               <<"nonTypeName">>, <<"BraceOpen", "expressionList", "BraceClose">>,
               <<"ParenthOpen", "castOrParenthesised">>,
               <<"Exclamation", Expression(1)>>, <<"Tilda", Expression(1)>>,
               <<"UnaryMinus", Expression(1)>>, <<"typeName">>}
    BY Zenon
    DEF build_expressionPrimary, If, token_is_typeName, token_is_prefixedType,
        token_is_nonTypeName, token_is_expression
  <2> HIDE DEF doing
  <2>3. /\ "Integer" \in Plain /\ "True" \in Plain /\ "False" \in Plain
        /\ "StringLiteral" \in Plain /\ "Error" \in Plain /\ "DotPrefix" \in Plain
        /\ "dotPrefixed" \in Plain /\ "nonTypeName" \in Plain
        /\ "expressionList" \in Plain /\ "Exclamation" \in Plain
        /\ Expression(1) \in Plain /\ "Tilda" \in Plain /\ "UnaryMinus" \in Plain
        /\ "typeName" \in Plain
    BY PlainNames, ExpressionsAre
  <2>4. /\ Even(<<"Integer">>) /\ Even(<<"True">>) /\ Even(<<"False">>)
        /\ Even(<<"StringLiteral">>) /\ Even(<<"Error">>)
        /\ Even(<<"DotPrefix", "dotPrefixed">>) /\ Even(<<"nonTypeName">>)
        /\ Even(<<"BraceOpen", "expressionList", "BraceClose">>)
        /\ Even(<<"ParenthOpen", "castOrParenthesised">>)
        /\ Even(<<"Exclamation", Expression(1)>>)
        /\ Even(<<"Tilda", Expression(1)>>) /\ Even(<<"UnaryMinus", Expression(1)>>)
        /\ Even(<<"typeName">>)
    BY <2>3, PlainTasks, Matches, PairTasks
  <2>5. MayDo(doing)
    BY <2>2, <2>4 DEF MayDo
  <2> QED BY <2>1, <2>5 DEF doing
<1>4. MayDo(Production("dotPrefixed", t, behind))
  <2>1. Production("dotPrefixed", t, behind) = dotPrefixed(t)
    BY ExpressionsAre, Zenon DEF Production
  <2> DEFINE doing == dotPrefixed(t)
  <2>2. doing \in {Fail, <<"nonTypeName">>, <<"typeName">>}
    BY Zenon DEF dotPrefixed
  <2> HIDE DEF doing
  <2>3. /\ "nonTypeName" \in Plain /\ "typeName" \in Plain
    BY PlainNames
  <2>4. MayDo(doing)
    BY <2>2, <2>3, PlainTasks DEF MayDo
  <2> QED BY <2>1, <2>4 DEF doing
<1>5. MayDo(Production("moreTypeParameters", t, behind))
  <2>1. Production("moreTypeParameters", t, behind) =
        Commas(t, "typeDeclName", "moreTypeParameters")
    BY ExpressionsAre, Zenon DEF Production
  <2>2. /\ "typeDeclName" \in Plain /\ "moreTypeParameters" \in Plain
    BY PlainNames
  <2> QED
    BY <2>1, <2>2, CommasMayDo
<1>6. MayDo(Production("moreTypeArguments", t, behind))
  <2>1. Production("moreTypeArguments", t, behind) =
        Commas(t, "typeArg", "moreTypeArguments")
    BY ExpressionsAre, Zenon DEF Production
  <2>2. /\ "typeArg" \in Plain /\ "moreTypeArguments" \in Plain
    BY PlainNames
  <2> QED
    BY <2>1, <2>2, CommasMayDo
<1>7. MayDo(Production("moreParameters", t, behind))
  <2>1. Production("moreParameters", t, behind) = Commas(t, "parameter", "moreParameters")
    BY ExpressionsAre, Zenon DEF Production
  <2>2. /\ "parameter" \in Plain /\ "moreParameters" \in Plain
    BY PlainNames
  <2> QED
    BY <2>1, <2>2, CommasMayDo
<1>8. MayDo(Production("moreArguments", t, behind))
  <2>1. Production("moreArguments", t, behind) = Commas(t, "argument", "moreArguments")
    BY ExpressionsAre, Zenon DEF Production
  <2>2. /\ "argument" \in Plain /\ "moreArguments" \in Plain
    BY PlainNames
  <2> QED
    BY <2>1, <2>2, CommasMayDo
<1>9. MayDo(Production("moreSpecifiedIdentifiers", t, behind))
  <2>1. Production("moreSpecifiedIdentifiers", t, behind) =
        Commas(t, "specifiedIdentifier", "moreSpecifiedIdentifiers")
    BY ExpressionsAre, Zenon DEF Production
  <2>2. /\ "specifiedIdentifier" \in Plain /\ "moreSpecifiedIdentifiers" \in Plain
    BY PlainNames
  <2> QED
    BY <2>1, <2>2, CommasMayDo
<1>10. MayDo(Production("moreExpressions", t, behind))
  <2>1. Production("moreExpressions", t, behind) =
        Commas(t, Expression(1), "moreExpressions")
    BY ExpressionsAre, Zenon DEF Production
  <2>2. /\ Expression(1) \in Plain /\ "moreExpressions" \in Plain
    BY PlainNames, ExpressionsAre
  <2> QED
    BY <2>1, <2>2, CommasMayDo
<1>11. MayDo(Production("moreKeysetExpressions", t, behind))
  <2>1. Production("moreKeysetExpressions", t, behind) =
        Commas(t, "simpleKeysetExpression", "moreKeysetExpressions")
    BY ExpressionsAre, Zenon DEF Production
  <2>2. /\ "simpleKeysetExpression" \in Plain /\ "moreKeysetExpressions" \in Plain
    BY PlainNames
  <2> QED
    BY <2>1, <2>2, CommasMayDo
<1>12. MayDo(Production("moreIdentifiers", t, behind))
  <2>1. Production("moreIdentifiers", t, behind) = Commas(t, "name", "moreIdentifiers")
    BY ExpressionsAre, Zenon DEF Production
  <2>2. /\ "name" \in Plain /\ "moreIdentifiers" \in Plain
    BY PlainNames
  <2> QED
    BY <2>1, <2>2, CommasMayDo
<1>13. MayDo(Production("moreRealTypeArguments", t, behind))
  <2>1. Production("moreRealTypeArguments", t, behind) =
        Commas(t, "realTypeArg", "moreRealTypeArguments")
    BY ExpressionsAre, Zenon DEF Production
  <2>2. /\ "realTypeArg" \in Plain /\ "moreRealTypeArguments" \in Plain
    BY PlainNames
  <2> QED
    BY <2>1, <2>2, CommasMayDo
<1> QED BY <1>1, <1>2, <1>3, <1>4, <1>5, <1>6, <1>7, <1>8, <1>9, <1>10, <1>11,
           <1>12, <1>13

-----------------------------------------------------------------------------
(* Expressions: an operand and the operators behind it.                      *)
LEMMA OperatorsPlain == \A n \in 1 .. 6 : Operators(n) \in Plain
<1>1. \A n \in 1 .. 6 : n = 1 \/ n = 2 \/ n = 3 \/ n = 4 \/ n = 5 \/ n = 6
  OBVIOUS
<1>2. /\ "operators1" \in Plain /\ "operators2" \in Plain /\ "operators3" \in Plain
      /\ "operators4" \in Plain /\ "operators5" \in Plain /\ "operators6" \in Plain
  BY PlainNames
<1> QED BY <1>1, <1>2, ExpressionsAre

LEMMA ExpressionMayDo ==
  ASSUME NEW t, NEW n \in 1 .. 6
  PROVE  MayDo(build_expression(t, n))
<1>1. "expressionPrimary" \in Plain /\ Operators(n) \in Plain
  BY PlainNames, OperatorsPlain
<1> QED BY <1>1, PlainTasks DEF MayDo, build_expression, If

(* Every binary operator has a priority, so its assert is out of reach. *)
LEMMA PriorityIs ==
  ASSUME NEW t \in token_is_binaryOperator \ {"Equal"}
  PROVE  get_operator_priority(t) \in 1 .. 5
<1>1. get_operator_priority(t) \in {1, 2, 3, 4, 5}
  BY Zenon DEF get_operator_priority, token_is_binaryOperator
<1> QED BY <1>1

LEMMA BinaryMayDo ==
  ASSUME NEW t \in token_is_binaryOperator \ {"Equal"}, NEW n \in 1 .. 6
  PROVE  Even(binaryOperator(t, n))
<1>1. PICK p : p = get_operator_priority(t)
  OBVIOUS
<1>2. p \in 1 .. 5
  BY <1>1, PriorityIs
<1>3. binaryOperator(t, n) \in {<<>>, <<t, Expression(p + 1), Operators(n)>>}
  <2>1. p # 0
    BY <1>2
  <2> QED BY <1>1, <2>1, Zenon DEF binaryOperator
<1>4. Expression(p + 1) \in Plain
  <2>1. p + 1 = 2 \/ p + 1 = 3 \/ p + 1 = 4 \/ p + 1 = 5 \/ p + 1 = 6
    BY <1>2
  <2>2. /\ "expression2" \in Plain /\ "expression3" \in Plain /\ "expression4" \in Plain
        /\ "expression5" \in Plain /\ "expression6" \in Plain
    BY PlainNames
  <2> QED BY <2>1, <2>2, ExpressionsAre
<1>5. Operators(n) \in Plain
  BY OperatorsPlain
<1>6. t \in Plain
  BY PlainNames DEF token_is_binaryOperator
<1> QED BY <1>3, <1>4, <1>5, <1>6, PlainTasks

LEMMA OperatorsMayDo ==
  ASSUME NEW t, NEW behind, NEW n \in 1 .. 6
  PROVE  MayDo(operators(t, behind, n))
<1> DEFINE doing == operators(t, behind, n)
<1>1. \/ doing \in {<<>>, <<"DotPrefix", "name", Operators(n)>>,
                    <<"BracketOpen", "arrayIndex", "BracketClose", Operators(n)>>,
                    <<"ParenthOpen", "argumentList", "ParenthClose", Operators(n)>>,
                    <<"AngleOpen", "realTypeArgumentList", "AngleClose", Operators(n)>>,
                    <<"Equal", Expression(1), Operators(n)>>}
      \/ t \in token_is_binaryOperator \ {"Equal"} /\ doing = binaryOperator(t, n)
  BY Zenon DEF operators, token_is_exprOperator, token_is_binaryOperator
<1> HIDE DEF doing
<1>2. Operators(n) \in Plain
  BY OperatorsPlain
<1>3. /\ "DotPrefix" \in Plain /\ "name" \in Plain /\ "arrayIndex" \in Plain
      /\ "argumentList" \in Plain /\ "AngleOpen" \in Plain
      /\ "realTypeArgumentList" \in Plain /\ "AngleClose" \in Plain
      /\ "Equal" \in Plain /\ Expression(1) \in Plain
  BY PlainNames, ExpressionsAre
<1>4. /\ Even(<<"BracketOpen", "arrayIndex", "BracketClose", Operators(n)>>)
      /\ Even(<<"ParenthOpen", "argumentList", "ParenthClose", Operators(n)>>)
  BY <1>2, <1>3, Matches, PairTasks
<1>5. /\ Even(<<"DotPrefix", "name", Operators(n)>>)
      /\ Even(<<"AngleOpen", "realTypeArgumentList", "AngleClose", Operators(n)>>)
      /\ Even(<<"Equal", Expression(1), Operators(n)>>) /\ Even(<<>>)
  BY <1>2, <1>3, PlainTasks
<1>6. MayDo(doing)
  BY <1>1, <1>4, <1>5, BinaryMayDo DEF MayDo
<1> QED BY <1>6 DEF doing

LEMMA ExpressionsMayDo ==
  ASSUME NEW t, NEW behind
  PROVE  /\ MayDo(Production("expression1", t, behind))
         /\ MayDo(Production("expression2", t, behind))
         /\ MayDo(Production("expression3", t, behind))
         /\ MayDo(Production("expression4", t, behind))
         /\ MayDo(Production("expression5", t, behind))
         /\ MayDo(Production("expression6", t, behind))
         /\ MayDo(Production("operators1", t, behind))
         /\ MayDo(Production("operators2", t, behind))
         /\ MayDo(Production("operators3", t, behind))
         /\ MayDo(Production("operators4", t, behind))
         /\ MayDo(Production("operators5", t, behind))
         /\ MayDo(Production("operators6", t, behind))
<1>1. /\ Production("expression1", t, behind) = build_expression(t, 1)
      /\ Production("expression2", t, behind) = build_expression(t, 2)
      /\ Production("expression3", t, behind) = build_expression(t, 3)
      /\ Production("expression4", t, behind) = build_expression(t, 4)
      /\ Production("expression5", t, behind) = build_expression(t, 5)
      /\ Production("expression6", t, behind) = build_expression(t, 6)
  BY ExpressionsAre, Zenon DEF Production
<1>2. /\ Production("operators1", t, behind) = operators(t, behind, 1)
      /\ Production("operators2", t, behind) = operators(t, behind, 2)
      /\ Production("operators3", t, behind) = operators(t, behind, 3)
      /\ Production("operators4", t, behind) = operators(t, behind, 4)
      /\ Production("operators5", t, behind) = operators(t, behind, 5)
      /\ Production("operators6", t, behind) = operators(t, behind, 6)
  BY ExpressionsAre, Zenon DEF Production
<1> QED BY <1>1, <1>2, ExpressionMayDo, OperatorsMayDo

-----------------------------------------------------------------------------
(* What a function may do, with the two exceptions: the branches behind a    *)
(* parenthesis close it, and const in a table reaches an assert.             *)
Good(sym, tasks) ==
  \/ tasks = Fail
  \/ tasks = AssertFails /\ sym = "tableProperty_"
  \/ /\ tasks \in Seq(Tasks)
     /\ \A x, y \in Stacks : Closes(sym, x, y) => Unwind(tasks, x, y)

LEMMA MayDoIsGood ==
  ASSUME NEW sym, NEW tasks, sym \in Plain, MayDo(tasks)
  PROVE  Good(sym, tasks)
BY DEF Plain, MayDo, Even, Good, Closes

LEMMA CastIsGood ==
  ASSUME NEW t, NEW behind
  PROVE  Good("castOrParenthesised", Production("castOrParenthesised", t, behind))
<1>1. Production("castOrParenthesised", t, behind) = castOrParenthesised(t)
  BY ExpressionsAre, Zenon DEF Production
<1> DEFINE doing == castOrParenthesised(t)
<1>2. doing \in {Fail, <<"typeRef", "ParenthClose", Expression(1)>>,
                 <<Expression(1), "ParenthClose">>}
  BY Zenon DEF castOrParenthesised
<1> HIDE DEF doing
<1>3. "typeRef" \in Plain /\ Expression(1) \in Plain /\ "ParenthClose" \in Tasks
  BY PlainNames, ExpressionsAre DEF Tasks, TokenClass
<1>4. /\ \A s : Closes("typeRef", s, s) /\ Closes(Expression(1), s, s)
      /\ \A x, y : Closes("castOrParenthesised", x, y) => Closes("ParenthClose", x, y)
  <2>1. Bracket("castOrParenthesised") = "ParenthClose" /\ Bracket("ParenthClose") = "ParenthClose"
    BY DEF Bracket
  <2> QED BY <1>3, <2>1, PlainCloses, BracketsAre DEF Closes
<1>5. ASSUME NEW x \in Stacks, NEW y \in Stacks, Closes("castOrParenthesised", x, y)
      PROVE  /\ Unwind(<<"typeRef", "ParenthClose", Expression(1)>>, x, y)
             /\ Unwind(<<Expression(1), "ParenthClose">>, x, y)
  <2>1. Closes("ParenthClose", x, y)
    BY <1>4, <1>5
  <2>2. Through(<<"typeRef", "ParenthClose", Expression(1)>>,
                [i \in 0 .. 3 |-> IF i <= 1 THEN x ELSE y], x, y)
    BY <1>4, <2>1 DEF Through
  <2>3. Through(<<Expression(1), "ParenthClose">>, [i \in 0 .. 2 |-> IF i <= 1 THEN x ELSE y], x, y)
    BY <1>4, <2>1 DEF Through
  <2> QED BY <2>2, <2>3 DEF Unwind
<1>6. Good("castOrParenthesised", doing)
  <2>1. /\ <<"typeRef", "ParenthClose", Expression(1)>> \in Seq(Tasks)
        /\ <<Expression(1), "ParenthClose">> \in Seq(Tasks)
    BY <1>3 DEF Plain
  <2> QED BY <1>2, <1>5, <2>1 DEF Good
<1> QED BY <1>1, <1>6 DEF doing

LEMMA TablePropertyIsGood ==
  ASSUME NEW t, NEW behind
  PROVE  Good("tableProperty_", Production("tableProperty_", t, behind))
<1>1. Production("tableProperty_", t, behind) = build_tableProperty_(t)
  BY ExpressionsAre, Zenon DEF Production
<1> DEFINE doing == build_tableProperty_(t)
<1>2. doing \in {<<"Key", "Equal", "BraceOpen", "keyElementList", "BraceClose">>,
                 <<"Actions", "Equal", "BraceOpen", "actionList", "BraceClose">>,
                 <<"Entries", "Equal", "BraceOpen", "entriesList", "BraceClose">>,
                 <<"name", "Equal", Expression(1), "Semicolon">>, AssertFails}
  BY Zenon DEF build_tableProperty_
<1> HIDE DEF doing
<1>3. /\ "Key" \in Plain /\ "Actions" \in Plain /\ "Entries" \in Plain
      /\ "Equal" \in Plain /\ "keyElementList" \in Plain /\ "actionList" \in Plain
      /\ "entriesList" \in Plain /\ "name" \in Plain /\ Expression(1) \in Plain
      /\ "Semicolon" \in Plain /\ "tableProperty_" \in Plain
  BY PlainNames, ExpressionsAre
<1>4. /\ Even(<<"Key", "Equal", "BraceOpen", "keyElementList", "BraceClose">>)
      /\ Even(<<"Actions", "Equal", "BraceOpen", "actionList", "BraceClose">>)
      /\ Even(<<"Entries", "Equal", "BraceOpen", "entriesList", "BraceClose">>)
  BY <1>3, Matches, PairTasks
<1>5. Even(<<"name", "Equal", Expression(1), "Semicolon">>)
  BY <1>3, PlainTasks
<1>6. doing = AssertFails \/ MayDo(doing)
  BY <1>2, <1>4, <1>5 DEF MayDo
<1>7. Good("tableProperty_", doing)
  <2>1. CASE doing = AssertFails
    BY <2>1 DEF Good
  <2>2. CASE MayDo(doing)
    BY <1>3, <2>2, MayDoIsGood
  <2> QED BY <1>6, <2>1, <2>2
<1> QED BY <1>1, <1>7 DEF doing

LEMMA ProductionsAreGood ==
  ASSUME NEW sym \in Symbols, NEW t, NEW behind
  PROVE  Good(sym, Production(sym, t, behind))
<1>1. CASE sym = "castOrParenthesised"
  BY <1>1, CastIsGood
<1>2. CASE sym = "tableProperty_"
  BY <1>2, TablePropertyIsGood
<1>3. CASE sym \notin {"castOrParenthesised", "tableProperty_"}
  <2>1. sym \in Plain
    BY <1>3, BracketsAre DEF Plain, Symbols, Tasks
  <2>2. MayDo(Production(sym, t, behind))
    BY <1>3, NamesMayDo, TypesMayDo, CallsMayDo, ParsersMayDo, ControlsMayDo,
       StatementsMayDo, ProgramMayDo, OperandsMayDo, ExpressionsMayDo DEF Symbols
  <2> QED BY <2>1, <2>2, MayDoIsGood
<1> QED BY <1>1, <1>2, <1>3
-----------------------------------------------------------------------------
(* The inductive invariant: the tokens are of the part of the language, and  *)
(* the tasks to be done close the open brackets.                             *)
ParserInv ==
  /\ language \in DOMAIN Languages /\ token \in Tokens /\ ahead \in Tokens \cup {"none"}
  /\ types \in BOOLEAN /\ ("TypeIdentifier" \in {token, ahead} => types)
  /\ status \in {"run", "error", "assert", "accepted"}
  /\ open \in Seq(DOMAIN Closing) /\ todo \in Seq(Tasks)
  /\ Unwind(todo, ToClose, <<>>)
  /\ status = "assert" => Head(todo) = "tableProperty_"

(* The brackets that are to be closed, when one is opened and when one is closed. *)
ClosingOf(s) == [i \in 1 .. Len(s) |-> Closing[s[i]]]

LEMMA ClosingOfStack ==
  ASSUME NEW s \in Seq(DOMAIN Closing)
  PROVE  ClosingOf(s) \in Stacks /\ Len(ClosingOf(s)) = Len(s)
<1>1. \A b \in DOMAIN Closing : Closing[b] \in ClosingBrackets
  BY DEF ClosingBrackets
<1> QED BY <1>1 DEF ClosingOf, Stacks

LEMMA ClosingOfPush ==
  ASSUME NEW s \in Seq(DOMAIN Closing), NEW b \in DOMAIN Closing
  PROVE  ClosingOf(<<b>> \o s) = <<Closing[b]>> \o ClosingOf(s)
<1> DEFINE x == ClosingOf(<<b>> \o s)
           y == <<Closing[b]>> \o ClosingOf(s)
<1>1. <<b>> \o s \in Seq(DOMAIN Closing) /\ Len(<<b>> \o s) = Len(s) + 1
  OBVIOUS
<1>2. x \in Stacks /\ Len(x) = Len(s) + 1
  BY <1>1, ClosingOfStack
<1>3. Closing[b] \in ClosingBrackets /\ ClosingOf(s) \in Stacks /\ Len(ClosingOf(s)) = Len(s)
  BY ClosingOfStack DEF ClosingBrackets
<1>4. y \in Stacks /\ Len(y) = Len(s) + 1
  BY <1>3 DEF Stacks
<1>5. ASSUME NEW i \in 1 .. Len(s) + 1 PROVE x[i] = y[i]
  <2>1. x[i] = Closing[(<<b>> \o s)[i]]
    BY <1>1 DEF ClosingOf
  <2>2. CASE i = 1
    BY <1>3, <2>1, <2>2 DEF Stacks
  <2>3. CASE i # 1
    <3>1. (<<b>> \o s)[i] = s[i - 1] /\ y[i] = ClosingOf(s)[i - 1] /\ i - 1 \in 1 .. Len(s)
      BY <1>3, <2>3 DEF Stacks
    <3> QED BY <2>1, <3>1 DEF ClosingOf
  <2> QED BY <2>2, <2>3
<1> HIDE DEF x, y
<1>6. x = y
  BY <1>2, <1>4, <1>5 DEF Stacks
<1> QED BY <1>6 DEF x, y

LEMMA ClosingOfPop ==
  ASSUME NEW s \in Seq(DOMAIN Closing), s # <<>>
  PROVE  ClosingOf(Tail(s)) = Tail(ClosingOf(s))
<1> DEFINE x == ClosingOf(Tail(s))
           y == Tail(ClosingOf(s))
<1>1. Tail(s) \in Seq(DOMAIN Closing) /\ Len(Tail(s)) = Len(s) - 1 /\ Len(s) \in Nat \ {0}
  OBVIOUS
<1>2. x \in Stacks /\ Len(x) = Len(s) - 1
  BY <1>1, ClosingOfStack
<1>3. ClosingOf(s) \in Stacks /\ Len(ClosingOf(s)) = Len(s)
  BY ClosingOfStack
<1>4. y \in Stacks /\ Len(y) = Len(s) - 1
  BY <1>1, <1>3 DEF Stacks
<1>5. ASSUME NEW i \in 1 .. Len(s) - 1 PROVE x[i] = y[i]
  <2>1. x[i] = Closing[Tail(s)[i]] /\ Tail(s)[i] = s[i + 1]
    BY <1>1 DEF ClosingOf
  <2>2. y[i] = ClosingOf(s)[i + 1] /\ i + 1 \in 1 .. Len(s)
    BY <1>1, <1>3 DEF Stacks
  <2> QED BY <2>1, <2>2 DEF ClosingOf
<1> HIDE DEF x, y
<1>6. x = y
  BY <1>2, <1>4, <1>5 DEF Stacks
<1> QED BY <1>6 DEF x, y

LEMMA ToCloseIs == ToClose = ClosingOf(open)
BY DEF ToClose, ClosingOf

LEMMA ToCloseNext == ToClose' = ClosingOf(open')
BY DEF ToClose, ClosingOf

LEMMA InitInv == Init => ParserInv
<1> SUFFICES ASSUME Init PROVE ParserInv
  OBVIOUS
<1>1. token \in Tokens /\ token # "TypeIdentifier"
  BY DEF Init, TokensBehind
<1>2. todo = <<"p4program">> /\ "p4program" \in Plain
  BY PlainNames DEF Init
<1>3. Even(todo)
  BY <1>2, PlainTasks
<1>4. ToClose = <<>>
  <2>1. Len(open) = 0 /\ open \in Seq(DOMAIN Closing)
    BY DEF Init
  <2>2. ToClose \in Stacks /\ Len(ToClose) = 0
    BY <2>1, ToCloseIs, ClosingOfStack
  <2> QED BY <2>2 DEF Stacks
<1>5. <<>> \in Stacks
  BY DEF Stacks
<1>6. todo \in Seq(Tasks) /\ Unwind(todo, ToClose, <<>>)
  BY <1>3, <1>4, <1>5 DEF Even
<1>7. "TypeIdentifier" \notin {token, ahead} /\ types \in BOOLEAN
  BY <1>1 DEF Init
<1>8. /\ language \in DOMAIN Languages /\ status = "run" /\ ahead = "none"
      /\ open \in Seq(DOMAIN Closing)
  BY DEF Init
<1> QED BY <1>1, <1>6, <1>7, <1>8 DEF ParserInv

LEMMA EndIsNoTask == "EndOfInput" \notin Tasks
BY DEF Tasks, Symbols

LEMMA TokensAre == language \in DOMAIN Languages => Tokens \subseteq TokenClass
BY LanguagesAssumption DEF Tokens

(* A token is passed, and the bracket it is, is opened or closed. *)
LEMMA PassedInv == ParserInv /\ next_token => ParserInv'
<1> SUFFICES ASSUME ParserInv, next_token PROVE ParserInv'
  OBVIOUS
<1>1. /\ language' = language /\ types' = types /\ todo # <<>> /\ Head(todo) = token
      /\ todo' = Tail(todo) /\ ahead' = "none"
  BY DEF next_token, Running
<1>2. /\ language \in DOMAIN Languages /\ token \in Tokens /\ types \in BOOLEAN
      /\ open \in Seq(DOMAIN Closing) /\ todo \in Seq(Tasks) /\ Unwind(todo, ToClose, <<>>)
  BY DEF ParserInv
<1>3. token \in Tasks /\ token # "EndOfInput" /\ todo' \in Seq(Tasks)
  BY <1>1, <1>2, EndIsNoTask
<1>4. status' = "run"
  BY <1>3 DEF next_token, Running
<1>5. token' \in Tokens /\ (token' = "TypeIdentifier" => types)
  <2>1. CASE ahead = "none"
    BY <1>3, <2>1 DEF next_token, TokensBehind
  <2>2. CASE ahead # "none"
    BY <2>2 DEF next_token, ParserInv
  <2> QED BY <2>1, <2>2
<1>6. PICK y \in Stacks : Closes(token, ToClose, y) /\ Unwind(Tail(todo), y, <<>>)
  BY <1>1, <1>2, UnwindTail
<1>7. token \in TokenClass /\ token # "castOrParenthesised"
  <2>1. "castOrParenthesised" \notin TokenClass
    BY DEF TokenClass
  <2> QED BY <1>2, <2>1, TokensAre
<1>8. Bracket(token) = token
  BY <1>7 DEF Bracket
<1>9. open' \in Seq(DOMAIN Closing) /\ ClosingOf(open') = y
  <2>1. CASE token \in DOMAIN Closing
    <3>1. open' = <<token>> \o open
      <4>1. token \notin ClosingBrackets
        BY <2>1, BracketsAre
      <4> QED BY <2>1, <4>1, Zenon DEF next_token
    <3>2. y = <<Closing[token]>> \o ClosingOf(open)
      BY <1>6, <2>1, ToCloseIs DEF Closes
    <3>3. ClosingOf(<<token>> \o open) = y
      BY <1>2, <2>1, <3>2, ClosingOfPush
    <3>4. <<token>> \o open \in Seq(DOMAIN Closing)
      BY <1>2, <2>1
    <3> QED BY <3>1, <3>3, <3>4
  <2>2. CASE token \notin DOMAIN Closing /\ token \in ClosingBrackets
    <3>1. ToClose # <<>> /\ y = Tail(ToClose)
      BY <1>6, <1>8, <2>2 DEF Closes
    <3>2. open # <<>>
      <4>1. ToClose \in Stacks /\ Len(ToClose) = Len(open)
        BY <1>2, ToCloseIs, ClosingOfStack
      <4> QED BY <3>1, <4>1 DEF Stacks
    <3>3. open' = Tail(open)
      BY <2>2, <3>2, Zenon DEF next_token
    <3> QED BY <1>2, <3>1, <3>2, <3>3, ToCloseIs, ClosingOfPop
  <2>3. CASE token \notin DOMAIN Closing /\ token \notin ClosingBrackets
    <3>1. open' = open
      BY <2>3, Zenon DEF next_token
    <3> QED BY <1>2, <1>6, <1>8, <2>3, <3>1, ToCloseIs DEF Closes
  <2> QED BY <2>1, <2>2, <2>3
<1>10. Unwind(todo', ToClose', <<>>)
  BY <1>1, <1>6, <1>9, ToCloseNext
<1>11. Tokens' = Tokens
  BY <1>1 DEF Tokens
<1>12. "TypeIdentifier" \in {token', ahead'} => types'
  BY <1>1, <1>5
<1> QED BY <1>1, <1>2, <1>3, <1>4, <1>5, <1>9, <1>10, <1>11, <1>12 DEF ParserInv

LEMMA NewTypeInv == ParserInv /\ new_type => ParserInv'
<1> SUFFICES ASSUME ParserInv, new_type PROVE ParserInv'
  OBVIOUS
<1>1. /\ language' = language /\ token' = token /\ todo # <<>> /\ Head(todo) = "new_type"
      /\ todo' = Tail(todo) /\ open' = open /\ status' = "run"
  BY DEF new_type, Running
<1>2. /\ language \in DOMAIN Languages /\ token \in Tokens /\ types \in BOOLEAN
      /\ open \in Seq(DOMAIN Closing) /\ todo \in Seq(Tasks) /\ Unwind(todo, ToClose, <<>>)
  BY DEF ParserInv
<1>3. Tokens' = Tokens
  BY <1>1 DEF Tokens
<1>4. ahead' \in Tokens \cup {"none"}
  BY DEF new_type, ParserInv
<1>5. types' \in BOOLEAN
  BY DEF new_type
<1>6. "TypeIdentifier" \in {token', ahead'} => types'
  <2>1. types => types'
    BY DEF new_type
  <2>2. CASE "TypeIdentifier" \in {token, ahead}
    BY <2>1, <2>2 DEF ParserInv
  <2>3. CASE "TypeIdentifier" \notin {token, ahead}
    <3>1. CASE token = "Identifier"
      BY <3>1 DEF new_type
    <3>2. CASE token # "Identifier"
      BY <1>1, <2>3, <3>2 DEF new_type
    <3> QED BY <3>1, <3>2
  <2> QED BY <2>2, <2>3
<1>7. PICK y \in Stacks : Closes("new_type", ToClose, y) /\ Unwind(Tail(todo), y, <<>>)
  BY <1>1, <1>2, UnwindTail
<1>8. y = ToClose
  BY <1>7, PlainNames DEF Plain, Closes
<1>9. Unwind(todo', ToClose', <<>>)
  BY <1>1, <1>7, <1>8, ToCloseIs, ToCloseNext
<1>10. todo' \in Seq(Tasks)
  BY <1>1, <1>2
<1> QED BY <1>1, <1>2, <1>3, <1>4, <1>5, <1>6, <1>9, <1>10 DEF ParserInv

(* A function is called: its tasks take its place, or it gives up. *)
LEMMA CallInv == ParserInv /\ Call => ParserInv'
<1> SUFFICES ASSUME ParserInv, Call PROVE ParserInv'
  OBVIOUS
<1>1. /\ language' = language /\ token' = token /\ ahead' = ahead /\ types' = types
      /\ open' = open /\ todo # <<>> /\ IsCall(Head(todo)) /\ status = "run"
  BY DEF Call
<1>2. /\ language \in DOMAIN Languages /\ token \in Tokens /\ types \in BOOLEAN
      /\ ahead \in Tokens \cup {"none"}
      /\ open \in Seq(DOMAIN Closing) /\ todo \in Seq(Tasks) /\ Unwind(todo, ToClose, <<>>)
  BY DEF ParserInv
<1>3. PICK sym : sym = Head(todo)
  OBVIOUS
<1>4. sym \in Symbols /\ Tail(todo) \in Seq(Tasks)
  <2>1. sym \in Tasks
    BY <1>1, <1>2, <1>3
  <2> QED BY <1>1, <1>2, <1>3, <2>1 DEF Tasks, IsCall
<1>5. PICK tasks : tasks = Production(sym, token, ahead)
  OBVIOUS
<1>6. Good(sym, tasks)
  BY <1>4, <1>5, ProductionsAreGood
<1>7. IF tasks \in {Fail, AssertFails} THEN status' = tasks[1] /\ todo' = todo
      ELSE todo' = tasks \o Tail(todo) /\ status' = status
  BY <1>3, <1>5 DEF Call
<1>8. Tokens' = Tokens /\ ToClose' = ToClose
  BY <1>1, ToCloseIs, ToCloseNext DEF Tokens
<1>9. "TypeIdentifier" \in {token', ahead'} => types'
  BY <1>1 DEF ParserInv
<1>10. Fail # AssertFails /\ Fail[1] = "error" /\ AssertFails[1] = "assert"
  BY DEF Fail, AssertFails
<1>11. CASE tasks \in {Fail, AssertFails}
  <2>1. Unwind(todo', ToClose', <<>>) /\ todo' \in Seq(Tasks)
    BY <1>2, <1>7, <1>8, <1>11
  <2>2. status' \in {"error", "assert"}
    BY <1>7, <1>10, <1>11
  <2>3. status' = "assert" => Head(todo') = "tableProperty_"
    <3>1. AssertFails \notin Seq(Tasks)
      <4>1. "assert" \notin Tasks
        BY DEF Tasks, Symbols, TokenClass
      <4> QED BY <4>1 DEF AssertFails
    <3>2. status' = "assert" => tasks = AssertFails
      BY <1>7, <1>10, <1>11
    <3> QED BY <1>3, <1>6, <1>7, <1>10, <1>11, <3>1, <3>2 DEF Good
  <2> QED BY <1>1, <1>2, <1>8, <1>9, <2>1, <2>2, <2>3 DEF ParserInv
<1>12. CASE tasks \notin {Fail, AssertFails}
  <2>1. tasks \in Seq(Tasks)
    BY <1>6, <1>12 DEF Good
  <2>2. ToClose \in Stacks
    BY <1>2, ToCloseIs, ClosingOfStack
  <2>3. PICK y \in Stacks : Closes(sym, ToClose, y) /\ Unwind(Tail(todo), y, <<>>)
    BY <1>1, <1>2, <1>3, UnwindTail
  <2>4. Unwind(tasks, ToClose, y)
    BY <1>6, <1>12, <2>2, <2>3 DEF Good
  <2>5. Unwind(tasks \o Tail(todo), ToClose, <<>>)
    BY <1>4, <2>1, <2>3, <2>4, UnwindConcat
  <2>6. todo' \in Seq(Tasks) /\ Unwind(todo', ToClose', <<>>)
    <3>1. todo' = tasks \o Tail(todo)
      BY <1>7, <1>12
    <3>2. tasks \o Tail(todo) \in Seq(Tasks)
      BY <1>4, <2>1
    <3> QED BY <1>8, <2>5, <3>1, <3>2
  <2> QED BY <1>1, <1>2, <1>7, <1>8, <1>9, <1>12, <2>6 DEF ParserInv
<1> QED BY <1>11, <1>12

LEMMA NextInv == ParserInv /\ [Next]_vars => ParserInv'
<1> SUFFICES ASSUME ParserInv, [Next]_vars PROVE ParserInv'
  OBVIOUS
<1>1. CASE next_token
  BY <1>1, PassedInv
<1>2. CASE new_type
  BY <1>2, NewTypeInv
<1>3. CASE Call
  BY <1>3, CallInv
<1>4. CASE peek_token
  <2>1. /\ language' = language /\ token' = token /\ types' = types /\ todo' = todo
        /\ open' = open /\ status' = status
    BY <1>4 DEF peek_token
  <2>2. Tokens' = Tokens /\ ToClose' = ToClose
    BY <2>1, ToCloseIs, ToCloseNext DEF Tokens
  <2>3. ahead' \in TokensBehind(token, types)
    BY <1>4 DEF peek_token
  <2>4. ahead' \in Tokens /\ (ahead' = "TypeIdentifier" => types)
    BY <2>3 DEF TokensBehind, ParserInv
  <2>5. "TypeIdentifier" \in {token', ahead'} => types'
    BY <2>1, <2>4 DEF ParserInv
  <2> QED BY <2>1, <2>2, <2>4, <2>5 DEF ParserInv
<1>5. CASE WrongToken \/ Accept \/ Terminated \/ UNCHANGED vars
  <2>1. /\ language' = language /\ token' = token /\ types' = types /\ todo' = todo
        /\ open' = open /\ ahead' = ahead /\ status' \in {status, "error", "accepted"}
    BY <1>5 DEF WrongToken, Accept, Terminated, vars
  <2>2. Tokens' = Tokens /\ ToClose' = ToClose
    BY <2>1, ToCloseIs, ToCloseNext DEF Tokens
  <2>3. "TypeIdentifier" \in {token', ahead'} => types'
    BY <2>1 DEF ParserInv
  <2>4. /\ status' \in {"run", "error", "assert", "accepted"}
        /\ status' = "assert" => Head(todo') = "tableProperty_"
    BY <2>1 DEF ParserInv
  <2> QED BY <2>1, <2>2, <2>3, <2>4 DEF ParserInv
<1> QED BY <1>1, <1>2, <1>3, <1>4, <1>5 DEF Next

-----------------------------------------------------------------------------
(* What is left after each task is as the witness of the invariant says.     *)
LEMMA ClosesLeft ==
  ASSUME NEW task, NEW x, NEW y, Closes(task, x, y)
  PROVE  LeftAfter(x, task) = y
<1> DEFINE closes == Bracket(task) \in ClosingBrackets
           match  == x # <<>> /\ Head(x) = Bracket(task)
<1>1. CASE task \in DOMAIN Closing
  <2>1. ~closes
    BY <1>1, BracketsAre DEF Bracket
  <2>2. y = <<Closing[task]>> \o x
    BY <1>1 DEF Closes
  <2> QED BY <1>1, <2>1, <2>2, Zenon DEF LeftAfter
<1>2. CASE task \notin DOMAIN Closing /\ closes
  <2>1. match /\ y = Tail(x)
    BY <1>2 DEF Closes
  <2> QED BY <1>2, <2>1, Zenon DEF LeftAfter
<1>3. CASE task \notin DOMAIN Closing /\ ~closes
  <2>1. y = x
    BY <1>3 DEF Closes
  <2> QED BY <1>3, <2>1, Zenon DEF LeftAfter
<1> QED BY <1>1, <1>2, <1>3

LEMMA LeftIs ==
  ASSUME NEW g, todo \in Seq(Tasks), Through(todo, g, ToClose, <<>>)
  PROVE  Left = g
<1> DEFINE step(f, k) == IF k = 0 THEN ToClose ELSE LeftAfter(f[k - 1], todo[k])
           is(f) == f = [k \in 0 .. Len(todo) |-> step(f, k)]
<1>1. Len(todo) \in Nat
  OBVIOUS
<1>2. g = [k \in 0 .. Len(todo) |-> g[k]]
  BY DEF Through
<1>3. ASSUME NEW k \in 0 .. Len(todo) PROVE g[k] = step(g, k)
  <2>1. CASE k = 0
    BY <2>1 DEF Through
  <2>2. CASE k # 0
    <3>1. k \in 1 .. Len(todo)
      BY <1>1, <2>2
    <3>2. Closes(todo[k], g[k - 1], g[k])
      BY <3>1 DEF Through
    <3> QED BY <2>2, <3>2, ClosesLeft
  <2> QED BY <2>1, <2>2
<1>4. is(g)
  <2> HIDE DEF step
  <2> QED BY <1>2, <1>3
<1>5. Left = CHOOSE f : is(f)
  BY DEF Left
<1>6. is(Left)
  <2> HIDE DEF is
  <2> QED BY <1>4, <1>5
<1>7. \A k \in 0 .. Len(todo) : Left[k] = g[k]
  <2> DEFINE T == {k \in 0 .. Len(todo) : Left[k] # g[k]}
  <2>1. CASE T = {}
    BY <2>1
  <2>2. CASE T # {}
    <3>1. T \in SUBSET Nat
      BY <1>1
    <3> HIDE DEF T
    <3>2. PICK n \in T : n - 1 \notin T
      BY <2>2, <3>1, LeastFailure
    <3> USE DEF T
    <3>3. n \in 0 .. Len(todo) /\ Left[n] # g[n]
      BY <3>2
    <3>4. Left[n] = step(Left, n) /\ g[n] = step(g, n)
      BY <1>3, <1>6, <3>3
    <3>5. n # 0
      BY <3>3, <3>4
    <3>6. Left[n - 1] = g[n - 1]
      BY <1>1, <3>2, <3>3, <3>5
    <3> QED BY <3>3, <3>4, <3>5, <3>6
  <2> QED BY <2>1, <2>2
<1> QED
  <2> HIDE DEF step
  <2>1. Left = [k \in 0 .. Len(todo) |-> Left[k]]
    BY <1>6
  <2> QED BY <1>2, <1>7, <2>1

LEMMA InvMatches == ParserInv => BracketsMatch
<1> SUFFICES ASSUME ParserInv PROVE BracketsMatch
  OBVIOUS
<1>1. todo \in Seq(Tasks) /\ Unwind(todo, ToClose, <<>>)
  BY DEF ParserInv
<1>2. PICK g : Through(todo, g, ToClose, <<>>)
  BY <1>1 DEF Unwind
<1>3. Left = g
  BY <1>1, <1>2, LeftIs
<1> QED BY <1>2, <1>3 DEF Through, BracketsMatch

LEMMA InvTypes == ParserInv => ParserTypeOK
BY DEF ParserInv, ParserTypeOK

LEMMA SpecInv == Spec => []ParserInv
BY InitInv, NextInv, PTL DEF Spec

(* The call stack holds known functions and tokens, and never the end of the *)
(* input; the tokens the parser holds are of the part of the language read,  *)
(* and a name is taken for a type's only when a type has been declared, also *)
(* when it was peeked before the declaration.                                *)
THEOREM ParserTypesHold == Spec => []ParserTypeOK
BY SpecInv, InvTypes, PTL

(* Whatever tokens come, the functions on the call stack close the brackets  *)
(* that are open, innermost first and each with its own kind.                *)
THEOREM BracketsAlwaysMatch == Spec => []BracketsMatch
BY SpecInv, InvMatches, PTL

(* No assert(0) behind the last branch of a function is reached, and the     *)
(* input is not read past its end, but for the assert behind const in a      *)
(* table (build_tableProperty).                                              *)
THEOREM OnlyConstReachesAssert == Spec => []OnlyConstAsserts
<1>1. ParserInv => OnlyConstAsserts
  BY DEF ParserInv, OnlyConstAsserts
<1> QED BY <1>1, SpecInv, PTL
=============================================================================
