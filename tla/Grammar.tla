------------------------------ MODULE Grammar ------------------------------
(***************************************************************************)
(* The productions of the recursive-descent parser (build_ast.c).          *)
(*                                                                         *)
(* A build_... function is an operator from the current token t, and from  *)
(* the token ahead of it where the function peeks, to the sequence of what *)
(* the function does next: a token class it requires and passes, another   *)
(* production it calls, "new_type" for a call of new_type, or "error" and  *)
(* "assert" for how it gives up.  An operator whose name ends in _ is the  *)
(* rest of the function it is named after.  The nodes that are built are   *)
(* left out.                                                               *)
(***************************************************************************)
EXTENDS Integers, Sequences

TokenClass == {
  "Semicolon", "Identifier", "TypeIdentifier", "String", "Integer", "ParenthOpen",
  "ParenthClose", "AngleOpen", "AngleClose", "BraceOpen", "BraceClose", "BracketOpen",
  "BracketClose", "Dontcare", "Colon", "DotPrefix", "Comma", "Minus", "UnaryMinus", "Plus",
  "Star", "Slash", "Equal", "TwoEqual", "ExclamationEqual", "Exclamation", "TwoPipe",
  "AngleOpenEqual", "AngleCloseEqual", "Tilda", "Ampersand", "TwoAmpersand",
  "ThreeAmpersand", "Pipe", "Circumflex", "TwoAngleOpen", "TwoAngleClose", "Action",
  "Actions", "Enum", "In", "Package", "Select", "Switch", "Tuple", "Void", "Apply",
  "Control", "Error", "Header", "InOut", "Parser", "State", "Table", "Entries", "Key",
  "Typedef", "Type", "Bool", "True", "False", "Default", "Extern", "HeaderUnion", "Int",
  "Bit", "Varbit", "Out", "StringLiteral", "Transition", "Else", "Exit", "If", "MatchKind",
  "Return", "Struct", "Const", "EndOfInput"}

-----------------------------------------------------------------------------
(* The token_is_... predicates, as sets of token classes.                   *)
token_is_typeName     == {"TypeIdentifier", "DotPrefix"}
token_is_prefixedType == {"TypeIdentifier", "DotPrefix"}
token_is_baseType     == {"Bool", "Error", "Int", "Bit", "Varbit", "String"}
token_is_typeRef      == token_is_baseType \cup token_is_prefixedType \cup {"Tuple"}
token_is_direction    == {"In", "Out", "InOut"}
token_is_parameter    == token_is_direction \cup token_is_typeRef
token_is_derivedTypeDeclaration == {"Header", "HeaderUnion", "Struct", "Enum"}
token_is_typeDeclaration ==
  token_is_derivedTypeDeclaration \cup {"Typedef", "Type", "Parser", "Control", "Package"}
token_is_nonTypeName    == {"Identifier", "Apply", "Key", "Actions", "State", "Entries", "Type"}
token_is_name           == token_is_nonTypeName \cup {"TypeIdentifier"}
token_is_nonTableKwName == {"Identifier", "TypeIdentifier", "Apply", "State", "Type"}
token_is_typeArg        == {"Dontcare"} \cup token_is_typeRef \cup token_is_nonTypeName
token_is_typeOrVoid     == token_is_typeRef \cup {"Void", "Identifier"}
token_is_methodPrototype == token_is_typeOrVoid \cup {"TypeIdentifier"}
token_is_actionRef      == token_is_nonTypeName \cup {"DotPrefix", "ParenthOpen"}
token_is_tableProperty  == token_is_nonTableKwName \cup {"Key", "Actions", "Const", "Entries"}
token_is_switchLabel    == token_is_name \cup {"Default"}
token_is_expression     ==
  token_is_nonTypeName \cup token_is_typeName \cup token_is_prefixedType
  \cup {"Integer", "True", "False", "StringLiteral", "DotPrefix", "BraceOpen", "ParenthOpen",
        "Exclamation", "Tilda", "UnaryMinus", "Error"}
token_is_declaration    ==
  token_is_typeDeclaration \cup token_is_typeRef \cup token_is_typeOrVoid
  \cup {"Const", "Extern", "Action", "Parser", "Control", "Error", "MatchKind", "DotPrefix"}
token_is_lvalue         == token_is_nonTypeName \cup {"DotPrefix"}
token_is_assignmentOrMethodCallStatement ==
  token_is_lvalue \cup {"ParenthOpen", "AngleOpen", "Equal"}
token_is_statement      ==
  token_is_assignmentOrMethodCallStatement \cup token_is_typeName
  \cup {"If", "Semicolon", "BraceOpen", "Exit", "Return", "Switch"}
token_is_statementOrDeclaration == token_is_typeRef \cup {"Const"} \cup token_is_statement
token_is_argument       == token_is_expression \cup token_is_name \cup {"Dontcare"}
token_is_parserLocalElement == {"Const"} \cup token_is_typeRef
token_is_parserStatement ==
  token_is_assignmentOrMethodCallStatement \cup token_is_typeName \cup token_is_typeRef
  \cup {"BraceOpen", "Const", "Semicolon"}
token_is_simpleKeysetExpression == token_is_expression \cup {"Default", "Dontcare"}
token_is_keysetExpression == {"Tuple"} \cup token_is_simpleKeysetExpression
token_is_controlLocalDeclaration == {"Const", "Action", "Table"} \cup token_is_typeRef
token_is_realTypeArg    == {"Dontcare"} \cup token_is_typeRef
token_is_binaryOperator ==
  {"Star", "Slash", "Plus", "Minus", "AngleOpenEqual", "AngleCloseEqual", "AngleOpen",
   "AngleClose", "ExclamationEqual", "TwoEqual", "TwoPipe", "TwoAmpersand", "Pipe",
   "Ampersand", "Circumflex", "TwoAngleOpen", "TwoAngleClose", "ThreeAmpersand", "Equal"}
token_is_exprOperator   ==
  token_is_binaryOperator \cup {"DotPrefix", "BracketOpen", "ParenthOpen", "AngleOpen"}

-----------------------------------------------------------------------------
(* How productions are put together.                                        *)
Fail        == <<"error">>
AssertFails == <<"assert">>

(* if (t is in first) tasks else error *)
If(t, first, tasks)    == IF t \in first THEN tasks ELSE Fail
(* if (t is in first) tasks *)
IfAny(t, first, tasks) == IF t \in first THEN tasks ELSE <<>>
(* The loops of the lists: while (t is in first) tasks, and                 *)
(* while (t is a comma) { next_token(); tasks }.                            *)
While(t, first, tasks, self) == IfAny(t, first, tasks \o <<self>>)
Commas(t, task, self)        == While(t, {"Comma"}, <<"Comma", task>>, self)

Expression(n) == <<"expression1", "expression2", "expression3", "expression4", "expression5",
                   "expression6">>[n]
Operators(n)  == <<"operators1", "operators2", "operators3", "operators4", "operators5",
                   "operators6">>[n]

-----------------------------------------------------------------------------
(* Names, types and parameters.                                             *)
build_nonTypeName(t, is_type) ==
  If(t, token_is_nonTypeName, IF is_type THEN <<"new_type", t>> ELSE <<t>>)

(* A name that is a type's already is not declared again. *)
build_name(t, is_type) == If(t, token_is_name,
  CASE t \in token_is_nonTypeName -> build_nonTypeName(t, is_type)
    [] t = "TypeIdentifier"       -> <<t>>
    [] OTHER                      -> AssertFails)

build_typeParameterList(t) == If(t, token_is_name, <<"typeDeclName", "moreTypeParameters">>)

build_optTypeParameters(t) ==
  IfAny(t, {"AngleOpen"}, <<"AngleOpen", "typeParameterList", "AngleClose">>)

build_typeArg(t) == If(t, token_is_typeArg,
  CASE t = "Dontcare"             -> <<t>>
    [] t \in token_is_typeRef     -> <<"typeRef">>
    [] t \in token_is_nonTypeName -> <<"nonTypeName">>
    [] OTHER                      -> AssertFails)

build_direction(t) == IfAny(t, token_is_direction, <<t>>)

build_parameter(t)  == <<"direction", "typeRef", "name", "parameter_">>
build_parameter_(t) == IfAny(t, {"Equal"}, <<"Equal", Expression(1)>>)

build_parameterList(t) == IfAny(t, token_is_parameter, <<"parameter", "moreParameters">>)

(* Always called with is_type. *)
build_typeOrVoid(t) == If(t, token_is_typeOrVoid,
  CASE t \in token_is_typeRef -> <<"typeRef">>
    [] t = "Void"             -> <<t>>
    [] t = "Identifier"       -> <<"new_type", t>>
    [] OTHER                  -> AssertFails)

build_functionPrototype(t)  ==
  If(t, token_is_typeOrVoid, <<"typeOrVoid", "functionPrototype_">>)
build_functionPrototype_(t) ==
  <<"name", "optTypeParameters", "ParenthOpen", "parameterList", "ParenthClose">>

build_methodPrototype(t, ahead) ==
  CASE t = "TypeIdentifier" /\ ahead = "ParenthOpen" ->
         <<"name", "ParenthOpen", "parameterList", "ParenthClose", "Semicolon">>
    [] t \in token_is_typeOrVoid /\ ~(t = "TypeIdentifier" /\ ahead = "ParenthOpen") ->
         <<"functionPrototype", "Semicolon">>
    [] OTHER -> Fail

build_methodPrototypes(t) ==
  While(t, token_is_methodPrototype, <<"methodPrototype">>, "methodPrototypes")

(* An identifier begins a function's prototype when a name is behind it. *)
build_externDeclaration(t) == IfAny(t, {"Extern"}, <<"Extern", "externDeclaration_">>)
build_externDeclaration_(t, ahead) ==
  LET is_function_proto == t \in token_is_typeOrVoid /\ (t = "Identifier" => ahead \in token_is_name)
  IN CASE is_function_proto -> <<"functionPrototype", "Semicolon">>
       [] ~is_function_proto /\ t \in token_is_nonTypeName ->
            <<"typeDeclNonTypeName", "optTypeParameters", "BraceOpen", "methodPrototypes", "BraceClose">>
       [] OTHER -> Fail

build_integerTypeSize(t) ==
  CASE t = "Integer"     -> <<t>>
    [] t = "ParenthOpen" -> <<Expression(1)>>
    [] OTHER             -> Fail

build_baseType(t) == If(t, token_is_baseType,
  CASE t \in {"Bool", "Error", "String"} -> <<t>>
    [] t \in {"Int", "Bit", "Varbit"}    -> <<t, "baseType_">>
    [] OTHER                             -> AssertFails)
build_baseType_(t) == IfAny(t, {"AngleOpen"}, <<"AngleOpen", "integerTypeSize", "AngleClose">>)

build_typeArgumentList(t) == IfAny(t, token_is_typeArg, <<"typeArg", "moreTypeArguments">>)

build_tupleType(t) == If(t, {"Tuple"}, <<"Tuple", "AngleOpen", "typeArgumentList", "AngleClose">>)

build_headerStackType(t) == <<"BracketOpen", Expression(1), "BracketClose">>
build_specializedType(t) == <<"AngleOpen", "typeArgumentList", "AngleClose">>

build_prefixedType(t) == IfAny(t, {"DotPrefix"}, <<"DotPrefix">>) \o <<"TypeIdentifier">>

build_typeName(t)  == If(t, token_is_typeName, <<"prefixedType", "typeName_", "typeName__">>)
build_typeName_(t) == IfAny(t, {"AngleOpen"}, build_specializedType(t))
build_typeName__(t) == IfAny(t, {"BracketOpen"}, build_headerStackType(t))

build_typeRef(t) == If(t, token_is_typeRef,
  CASE t \in token_is_baseType -> <<"baseType">>
    [] t \in token_is_typeName -> <<"typeName">>
    [] t = "Tuple"             -> <<"tupleType">>
    [] OTHER                   -> AssertFails)

-----------------------------------------------------------------------------
(* Type declarations and constants.                                         *)
build_structField(t)     == If(t, token_is_typeRef, <<"typeRef", "name", "Semicolon">>)
build_structFieldList(t) == While(t, token_is_typeRef, <<"structField">>, "structFieldList")

(* Wrong on purpose: the closing brace is not required. *)
TypeWithOpenFields(t, keyword) ==
  If(t, {keyword}, <<keyword, "typeDeclName", "BraceOpen", "structFieldList">>)

(* A header, a header union or a struct. *)
TypeWithFields(t, keyword) ==
  If(t, {keyword}, <<keyword, "typeDeclName", "BraceOpen", "structFieldList", "BraceClose">>)
build_headerTypeDeclaration(t)  == TypeWithFields(t, "Header")
build_headerUnionDeclaration(t) == TypeWithFields(t, "HeaderUnion")
build_structTypeDeclaration(t)  == TypeWithFields(t, "Struct")

build_optInitializer(t) == IfAny(t, {"Equal"}, <<"Equal", Expression(1)>>)

build_specifiedIdentifier(t) == If(t, token_is_name, <<"name", "optInitializer">>)
build_specifiedIdentifierList(t) ==
  IfAny(t, token_is_name, <<"specifiedIdentifier", "moreSpecifiedIdentifiers">>)

build_enumDeclaration(t)  == If(t, {"Enum"}, <<"Enum", "enumDeclaration_">>)
build_enumDeclaration_(t) ==
  IfAny(t, {"Bit"}, <<"Bit", "AngleOpen", "Integer", "AngleClose">>)
    \o <<"typeDeclName", "BraceOpen", "enumDeclaration__", "BraceClose">>
build_enumDeclaration__(t) == If(t, token_is_name, <<"specifiedIdentifierList">>)

build_derivedTypeDeclaration(t) == If(t, token_is_derivedTypeDeclaration,
  CASE t = "Header"      -> <<"headerTypeDeclaration">>
    [] t = "HeaderUnion" -> <<"headerUnionDeclaration">>
    [] t = "Struct"      -> <<"structTypeDeclaration">>
    [] t = "Enum"        -> <<"enumDeclaration">>
    [] OTHER             -> AssertFails)

(* The type of a parser, a control or a package. *)
TypeWithParameters(t, keyword) ==
  If(t, {keyword}, <<keyword, "typeDeclName", "optTypeParameters", "ParenthOpen",
                     "parameterList", "ParenthClose">>)
build_parserTypeDeclaration(t)  == TypeWithParameters(t, "Parser")
build_controlTypeDeclaration(t) == TypeWithParameters(t, "Control")
build_packageTypeDeclaration(t) == TypeWithParameters(t, "Package")

build_optConstructorParameters(t) ==
  IfAny(t, {"ParenthOpen"}, <<"ParenthOpen", "parameterList", "ParenthClose">>)

build_constantDeclaration(t) ==
  If(t, {"Const"}, <<"Const", "typeRef", "name", "Equal", Expression(1), "Semicolon">>)

build_typedefDeclaration(t)  ==
  If(t, {"Typedef", "Type"}, <<t, "typedefDeclaration_", "typeDeclName", "Semicolon">>)
build_typedefDeclaration_(t) == If(t, token_is_typeRef \cup token_is_derivedTypeDeclaration,
  CASE t \in token_is_typeRef                -> <<"typeRef">>
    [] t \in token_is_derivedTypeDeclaration -> <<"derivedTypeDeclaration">>
    [] OTHER                                 -> AssertFails)

build_typeDeclaration(t) == If(t, token_is_typeDeclaration,
  CASE t \in token_is_derivedTypeDeclaration -> <<"derivedTypeDeclaration">>
    [] t \in {"Typedef", "Type"}             -> <<"typedefDeclaration">>
    [] t = "Parser"                          -> <<"parserDeclaration">>
    [] t = "Control"                         -> <<"controlDeclaration">>
    [] t = "Package"                         -> <<"packageTypeDeclaration", "Semicolon">>
    [] OTHER                                 -> AssertFails)

-----------------------------------------------------------------------------
(* Variables, instances, assignments and calls.                             *)
build_argument(t) == If(t, token_is_argument,
  CASE t \in token_is_expression -> <<Expression(1)>>
    [] t \in token_is_name       -> <<"name", "Equal", Expression(1)>>
    [] t = "Dontcare"            -> <<t>>
    [] OTHER                     -> AssertFails)
build_argumentList(t) == IfAny(t, token_is_argument, <<"argument", "moreArguments">>)

(* The callers of the next two have parsed the type. *)
build_variableDeclaration(t) == <<"name", "optInitializer", "Semicolon">>
build_instantiation(t)       ==
  <<"ParenthOpen", "argumentList", "ParenthClose", "name", "Semicolon">>

(* What is declared with a type that has been parsed. *)
DeclaredWithType(t, otherwise) ==
  CASE t = "ParenthOpen"   -> <<"instantiation">>
    [] t \in token_is_name -> <<"variableDeclaration">>
    [] OTHER               -> otherwise

build_directApplication(t)  == If(t, token_is_typeName, <<"typeName", "directApplication_">>)
build_directApplication_(t) ==
  <<"DotPrefix", "Apply", "ParenthOpen", "argumentList", "ParenthClose", "Semicolon">>

build_prefixedNonTypeName(t) == IfAny(t, {"DotPrefix"}, <<"DotPrefix">>) \o <<"nonTypeName">>

build_arrayIndex(t)  == If(t, token_is_expression, <<Expression(1), "arrayIndex_">>)
build_arrayIndex_(t) == IfAny(t, {"Colon"}, <<"Colon", Expression(1)>>)

build_lvalueExpr(t) ==
  CASE t = "DotPrefix"   -> <<t, "name">>
    [] t = "BracketOpen" -> <<t, "arrayIndex", "BracketClose">>
    [] OTHER             -> Fail
build_lvalue(t)  == If(t, token_is_lvalue, <<"prefixedNonTypeName", "lvalue_">>)
build_lvalue_(t) == While(t, {"DotPrefix", "BracketOpen"}, <<"lvalueExpr">>, "lvalue_")

build_assignmentOrMethodCallStatement(t) ==
  If(t, token_is_lvalue, <<"lvalue", "methodTypeArguments", "assignmentOrCall", "Semicolon">>)
methodTypeArguments(t) ==
  IfAny(t, {"AngleOpen"}, <<"AngleOpen", "typeArgumentList", "AngleClose">>)
assignmentOrCall(t) ==
  CASE t = "ParenthOpen" -> <<t, "argumentList", "ParenthClose">>
    [] t = "Equal"       -> <<t, Expression(1)>>
    [] OTHER             -> Fail

-----------------------------------------------------------------------------
(* Parsers: local elements, states and their statements.                    *)
build_parserLocalElement(t) == If(t, token_is_parserLocalElement,
  CASE t = "Const"            -> <<"constantDeclaration">>
    [] t \in token_is_typeRef -> <<"typeRef", "localDeclaration">>
    [] OTHER                  -> AssertFails)
localDeclaration(t) == DeclaredWithType(t, Fail)
build_parserLocalElements(t) ==
  While(t, token_is_parserLocalElement, <<"parserLocalElement">>, "parserLocalElements")

build_parserStatements(t) ==
  While(t, token_is_parserStatement, <<"parserStatement">>, "parserStatements")
build_parserBlockStatements(t) ==
  If(t, {"BraceOpen"}, <<"BraceOpen", "parserStatements", "BraceClose">>)

(* The semicolon of an empty statement is not passed. *)
build_parserStatement(t) ==
  LET call == token_is_assignmentOrMethodCallStatement \ token_is_typeRef
  IN CASE t \in token_is_typeRef -> <<"typeRef", "parserStatement_">>
       [] t \in call             -> <<"assignmentOrMethodCallStatement">>
       [] t = "BraceOpen"        -> <<"parserBlockStatements">>
       [] t = "Const"            -> <<"constantDeclaration">>
       [] t = "Semicolon"        -> <<>>
       [] OTHER                  -> Fail
build_parserStatement_(t) ==
  IF t \in token_is_name THEN <<"variableDeclaration">> ELSE <<"directApplication_">>

build_expressionList(t) == IfAny(t, token_is_expression, <<Expression(1), "moreExpressions">>)

build_simpleKeysetExpression(t) ==
  CASE t \in token_is_expression     -> <<Expression(1)>>
    [] t \in {"Default", "Dontcare"} -> <<t>>
    [] OTHER                         -> Fail
build_tupleKeysetExpression(t) ==
  If(t, {"ParenthOpen"}, <<t, "simpleKeysetExpression", "moreKeysetExpressions", "ParenthClose">>)
build_keysetExpression(t) ==
  IF t = "ParenthOpen" THEN <<"tupleKeysetExpression">>
  ELSE If(t, token_is_simpleKeysetExpression, <<"simpleKeysetExpression">>)

build_selectCase(t) ==
  If(t, token_is_keysetExpression, <<"keysetExpression", "Colon", "name", "Semicolon">>)
build_selectCaseList(t) == While(t, token_is_keysetExpression, <<"selectCase">>, "selectCaseList")
build_selectExpression(t) ==
  If(t, {"Select"}, <<"Select", "ParenthOpen", "expressionList", "ParenthClose",
                      "BraceOpen", "selectCaseList", "BraceClose">>)
build_stateExpression(t) ==
  CASE t \in token_is_name -> <<"name", "Semicolon">>
    [] t = "Select"        -> <<"selectExpression">>
    [] OTHER               -> Fail
build_transitionStatement(t) == If(t, {"Transition"}, <<"Transition", "stateExpression">>)

build_parserState(t) ==
  If(t, {"State"}, <<"State", "name", "BraceOpen", "parserStatements", "transitionStatement",
                     "BraceClose">>)
build_parserStates(t) == If(t, {"State"}, <<"parserState", "moreParserStates">>)
moreParserStates(t)   == While(t, {"State"}, <<"parserState">>, "moreParserStates")

build_parserDeclaration(t)  ==
  If(t, {"Parser"}, <<"parserTypeDeclaration", "parserDeclaration_">>)
build_parserDeclaration_(t) ==
  IF t = "Semicolon" THEN <<t>>
  ELSE <<"optConstructorParameters", "BraceOpen", "parserLocalElements", "parserStates",
         "BraceClose">>

-----------------------------------------------------------------------------
(* Controls: actions and tables.                                            *)
build_actionDeclaration(t) ==
  If(t, {"Action"}, <<"Action", "name", "ParenthOpen", "parameterList", "ParenthClose",
                      "blockStatement">>)

build_keyElement(t) ==
  If(t, token_is_expression, <<Expression(1), "Colon", "name", "Semicolon">>)
build_keyElementList(t) == While(t, token_is_expression, <<"keyElement">>, "keyElementList")

build_actionRef(t)  ==
  If(t, {"DotPrefix"} \cup token_is_nonTypeName, <<"prefixedNonTypeName", "actionRef_">>)
build_actionRef_(t) ==
  IfAny(t, {"ParenthOpen"}, <<"ParenthOpen", "argumentList", "ParenthClose">>)
build_actionList(t) == While(t, token_is_actionRef, <<"actionRef", "Semicolon">>, "actionList")

build_entry(t) ==
  If(t, token_is_keysetExpression, <<"keysetExpression", "Colon", "actionRef", "Semicolon">>)
build_entriesList(t) == If(t, token_is_keysetExpression, <<"entry", "moreEntries">>)
moreEntries(t)       == While(t, token_is_keysetExpression, <<"entry">>, "moreEntries")

build_tableProperty(t) ==
  If(t, token_is_tableProperty, IfAny(t, {"Const"}, <<"Const">>) \o <<"tableProperty_">>)
build_tableProperty_(t) ==
  CASE t = "Key"     -> <<t, "Equal", "BraceOpen", "keyElementList", "BraceClose">>
    [] t = "Actions" -> <<t, "Equal", "BraceOpen", "actionList", "BraceClose">>
    [] t = "Entries" -> <<t, "Equal", "BraceOpen", "entriesList", "BraceClose">>
    [] t \in token_is_nonTableKwName -> <<"name", "Equal", Expression(1), "Semicolon">>
    [] OTHER         -> AssertFails
build_tablePropertyList(t) ==
  If(t, token_is_tableProperty, <<"tableProperty", "moreTableProperties">>)
moreTableProperties(t) ==
  While(t, token_is_tableProperty, <<"tableProperty">>, "moreTableProperties")
build_tableDeclaration(t) ==
  If(t, {"Table"}, <<"Table", "name", "BraceOpen", "tablePropertyList", "BraceClose">>)

build_controlLocalDeclaration(t) ==
  CASE t = "Const"            -> <<"constantDeclaration">>
    [] t = "Action"           -> <<"actionDeclaration">>
    [] t = "Table"            -> <<"tableDeclaration">>
    [] t \in token_is_typeRef -> <<"typeRef", "localDeclaration">>
    [] OTHER                  -> Fail
build_controlLocalDeclarations(t) ==
  While(t, token_is_controlLocalDeclaration, <<"controlLocalDeclaration">>,
        "controlLocalDeclarations")

build_controlDeclaration(t)  ==
  If(t, {"Control"}, <<"controlTypeDeclaration", "controlDeclaration_">>)
build_controlDeclaration_(t) ==
  IF t = "Semicolon" THEN <<t>>
  ELSE <<"optConstructorParameters", "BraceOpen", "controlLocalDeclarations", "Apply",
         "blockStatement", "BraceClose">>

-----------------------------------------------------------------------------
(* Statements.                                                              *)
build_conditionalStatement(t) ==
  If(t, {"If"}, <<"If", "ParenthOpen", Expression(1), "ParenthClose", "branch", "else">>)
branch(t) == If(t, token_is_statement, <<"statement">>)
else(t)   == IfAny(t, {"Else"}, <<"Else", "branch">>)

build_exitStatement(t)    == If(t, {"Exit"}, <<"Exit", "Semicolon">>)
build_returnStatement(t)  == If(t, {"Return"}, <<"Return", "returnStatement_", "Semicolon">>)
build_returnStatement_(t) == IfAny(t, token_is_expression, <<Expression(1)>>)

build_switchLabel(t) ==
  CASE t \in token_is_name -> <<"name">>
    [] t = "Default"       -> <<t>>
    [] OTHER               -> Fail
build_switchCase(t)  == If(t, token_is_switchLabel, <<"switchLabel", "Colon", "switchCase_">>)
build_switchCase_(t) == IfAny(t, {"BraceOpen"}, <<"blockStatement">>)
build_switchCases(t) == While(t, token_is_switchLabel, <<"switchCase">>, "switchCases")
build_switchStatement(t) ==
  If(t, {"Switch"}, <<"Switch", "ParenthOpen", Expression(1), "ParenthClose",
                      "BraceOpen", "switchCases", "BraceClose">>)

(* Wrong on purpose: the semicolon of an empty statement is not passed. *)
statementNotPassed(t) ==
  CASE t \in token_is_typeName -> <<"directApplication">>
    [] t \in token_is_lvalue \ token_is_typeName -> <<"assignmentOrMethodCallStatement">>
    [] t = "If"                -> <<"conditionalStatement">>
    [] t = "Semicolon"         -> <<>>
    [] t = "BraceOpen"         -> <<"blockStatement">>
    [] t = "Return"            -> <<"returnStatement">>
    [] t = "Switch"            -> <<"switchStatement">>
    [] OTHER                   -> Fail

build_statement(t) ==
  LET call == token_is_assignmentOrMethodCallStatement \ token_is_typeName
  IN CASE t \in token_is_typeName -> <<"directApplication">>
       [] t \in call              -> <<"assignmentOrMethodCallStatement">>
       [] t = "If"                -> <<"conditionalStatement">>
       [] t = "Semicolon"         -> <<t>>
       [] t = "BraceOpen"         -> <<"blockStatement">>
       [] t = "Exit"              -> <<"exitStatement">>
       [] t = "Return"            -> <<"returnStatement">>
       [] t = "Switch"            -> <<"switchStatement">>
       [] OTHER                   -> Fail

(* Wrong on purpose: the branch of a constant is missing. *)
statementOrDeclWithoutConst(t) == IfAny(t, token_is_statementOrDeclaration,
  CASE t \in token_is_typeRef                      -> <<"typeRef", "statementOrDecl_">>
    [] t \in token_is_statement \ token_is_typeRef -> <<"statement">>
    [] OTHER                                       -> AssertFails)

(* With a type that has been parsed, a statement is a direct application. *)
build_statementOrDecl(t)  == IfAny(t, token_is_statementOrDeclaration,
  CASE t \in token_is_typeRef                        -> <<"typeRef", "statementOrDecl_">>
    [] t \in token_is_statement \ token_is_typeRef   -> <<"statement">>
    [] t = "Const"                                   -> <<"constantDeclaration">>
    [] OTHER                                         -> AssertFails)
build_statementOrDecl_(t) == DeclaredWithType(t, <<"directApplication_">>)
build_statementOrDeclList(t) ==
  While(t, token_is_statementOrDeclaration, <<"statementOrDecl">>, "statementOrDeclList")
build_blockStatement(t) ==
  If(t, {"BraceOpen"}, <<"BraceOpen", "statementOrDeclList", "BraceClose">>)

-----------------------------------------------------------------------------
(* The program and its declarations.                                        *)
build_identifierList(t) == If(t, token_is_name, <<"name", "moreIdentifiers">>)
build_errorDeclaration(t) ==
  If(t, {"Error"}, <<"Error", "BraceOpen", "identifierList", "BraceClose">>)
build_matchKindDeclaration(t) ==
  If(t, {"MatchKind"}, <<"MatchKind", "BraceOpen", "identifierList", "BraceClose">>)

(* Called when the type is parsed, so that t is the function's name. *)
build_functionDeclaration(t) ==
  If(t, token_is_typeOrVoid, <<"functionPrototype_", "blockStatement">>)

build_declaration(t) == If(t, token_is_declaration,
  CASE t = "Const"                    -> <<"constantDeclaration">>
    [] t = "Extern"                   -> <<"externDeclaration">>
    [] t = "Action"                   -> <<"actionDeclaration">>
    [] t \in token_is_typeDeclaration -> <<"typeDeclaration">>
    [] t = "Error"                    -> <<"errorDeclaration">>
    [] t = "MatchKind"                -> <<"matchKindDeclaration">>
    [] t \in token_is_typeRef \ {"Error"}               -> <<"typeRef", "declaration_">>
    [] t \in token_is_typeOrVoid \ token_is_typeRef     -> <<"typeRef", "functionDeclaration">>
    [] OTHER                          -> AssertFails)
build_declaration_(t) ==
  CASE t = "ParenthOpen"   -> <<"instantiation">>
    [] t \in token_is_name -> <<"functionDeclaration">>
    [] OTHER               -> Fail

build_p4program(t) ==
  CASE t \in token_is_declaration -> <<"declaration", "p4program">>
    [] t = "Semicolon"            -> <<t, "p4program">>
    [] t = "EndOfInput"           -> <<>>
    [] OTHER                      -> Fail

-----------------------------------------------------------------------------
(* Expressions.                                                             *)
build_realTypeArg(t) ==
  CASE t = "Dontcare"         -> <<t>>
    [] t \in token_is_typeRef -> <<"typeRef">>
    [] OTHER                  -> Fail
build_realTypeArgumentList(t) ==
  IfAny(t, token_is_realTypeArg, <<"realTypeArg", "moreRealTypeArguments">>)

build_expressionPrimary(t) == If(t, token_is_expression,
  CASE t \in {"Integer", "True", "False", "StringLiteral", "Error"} -> <<t>>
    [] t = "DotPrefix"                           -> <<t, "dotPrefixed">>
    [] t \in token_is_nonTypeName                -> <<"nonTypeName">>
    [] t = "BraceOpen"                           -> <<t, "expressionList", "BraceClose">>
    [] t = "ParenthOpen"                         -> <<t, "castOrParenthesised">>
    [] t \in {"Exclamation", "Tilda", "UnaryMinus"} -> <<t, Expression(1)>>
    [] t \in token_is_typeName \ {"DotPrefix"}   -> <<"typeName">>
    [] OTHER                                     -> AssertFails)
dotPrefixed(t) ==
  CASE t = "Identifier"     -> <<"nonTypeName">>
    [] t = "TypeIdentifier" -> <<"typeName">>
    [] OTHER                -> Fail
castOrParenthesised(t) ==
  CASE t \in token_is_typeRef -> <<"typeRef", "ParenthClose", Expression(1)>>
    [] t \in token_is_expression \ token_is_typeRef -> <<Expression(1), "ParenthClose">>
    [] OTHER                  -> Fail

(* 0 stands for the assert(0) behind the last operator. *)
get_operator_priority(t) ==
  CASE t \in {"TwoAmpersand", "TwoPipe"} -> 1
    [] t \in {"TwoEqual", "ExclamationEqual", "AngleOpen", "AngleClose", "AngleOpenEqual",
              "AngleCloseEqual"}         -> 2
    [] t \in {"Plus", "Minus", "Ampersand", "Pipe", "Circumflex", "TwoAngleOpen",
              "TwoAngleClose"}           -> 3
    [] t \in {"Star", "Slash"}           -> 4
    [] t = "ThreeAmpersand"              -> 5
    [] OTHER                             -> 0

(* build_expression: an operand, then operators of priority n or more. *)
build_expression(t, n) == If(t, token_is_expression, <<"expressionPrimary", Operators(n)>>)

binaryOperator(t, n) ==
  LET priority == get_operator_priority(t)
  IN CASE priority = 0 -> AssertFails
       [] priority >= n -> <<t, Expression(priority + 1), Operators(n)>>
       [] OTHER         -> <<>>

operators(t, ahead, n) ==
  LET type_args == t = "AngleOpen" /\ ahead \in token_is_realTypeArg
  IN IF t \notin token_is_exprOperator THEN <<>>
     ELSE CASE t = "DotPrefix"   -> <<t, "name", Operators(n)>>
            [] t = "BracketOpen" -> <<t, "arrayIndex", "BracketClose", Operators(n)>>
            [] t = "ParenthOpen" -> <<t, "argumentList", "ParenthClose", Operators(n)>>
            [] type_args -> <<t, "realTypeArgumentList", "AngleClose", Operators(n)>>
            [] t = "Equal"       -> <<t, Expression(1), Operators(n)>>
            [] t \in token_is_binaryOperator \ {"Equal"} /\ ~type_args -> binaryOperator(t, n)
            [] OTHER             -> AssertFails

-----------------------------------------------------------------------------
(* What the function of symbol sym does when it is called at token t.       *)
Production(sym, t, ahead) ==
  CASE sym = "nonTypeName"                     -> build_nonTypeName(t, FALSE)
    [] sym = "typeDeclNonTypeName"             -> build_nonTypeName(t, TRUE)
    [] sym = "name"                            -> build_name(t, FALSE)
    [] sym = "typeDeclName"                    -> build_name(t, TRUE)
    [] sym = "typeParameterList"               -> build_typeParameterList(t)
    [] sym = "optTypeParameters"               -> build_optTypeParameters(t)
    [] sym = "typeArg"                         -> build_typeArg(t)
    [] sym = "direction"                       -> build_direction(t)
    [] sym = "parameter"                       -> build_parameter(t)
    [] sym = "parameter_"                      -> build_parameter_(t)
    [] sym = "parameterList"                   -> build_parameterList(t)
    [] sym = "typeOrVoid"                      -> build_typeOrVoid(t)
    [] sym = "functionPrototype"               -> build_functionPrototype(t)
    [] sym = "functionPrototype_"              -> build_functionPrototype_(t)
    [] sym = "methodPrototype"                 -> build_methodPrototype(t, ahead)
    [] sym = "methodPrototypes"                -> build_methodPrototypes(t)
    [] sym = "externDeclaration"               -> build_externDeclaration(t)
    [] sym = "externDeclaration_"              -> build_externDeclaration_(t, ahead)
    [] sym = "integerTypeSize"                 -> build_integerTypeSize(t)
    [] sym = "baseType"                        -> build_baseType(t)
    [] sym = "baseType_"                       -> build_baseType_(t)
    [] sym = "typeArgumentList"                -> build_typeArgumentList(t)
    [] sym = "tupleType"                       -> build_tupleType(t)
    [] sym = "prefixedType"                    -> build_prefixedType(t)
    [] sym = "typeName"                        -> build_typeName(t)
    [] sym = "typeName_"                       -> build_typeName_(t)
    [] sym = "typeName__"                      -> build_typeName__(t)
    [] sym = "typeRef"                         -> build_typeRef(t)
    [] sym = "structField"                     -> build_structField(t)
    [] sym = "structFieldList"                 -> build_structFieldList(t)
    [] sym = "headerTypeDeclaration"           -> build_headerTypeDeclaration(t)
    [] sym = "headerUnionDeclaration"          -> build_headerUnionDeclaration(t)
    [] sym = "structTypeDeclaration"           -> build_structTypeDeclaration(t)
    [] sym = "optInitializer"                  -> build_optInitializer(t)
    [] sym = "specifiedIdentifier"             -> build_specifiedIdentifier(t)
    [] sym = "specifiedIdentifierList"         -> build_specifiedIdentifierList(t)
    [] sym = "enumDeclaration"                 -> build_enumDeclaration(t)
    [] sym = "enumDeclaration_"                -> build_enumDeclaration_(t)
    [] sym = "enumDeclaration__"               -> build_enumDeclaration__(t)
    [] sym = "derivedTypeDeclaration"          -> build_derivedTypeDeclaration(t)
    [] sym = "parserTypeDeclaration"           -> build_parserTypeDeclaration(t)
    [] sym = "controlTypeDeclaration"          -> build_controlTypeDeclaration(t)
    [] sym = "packageTypeDeclaration"          -> build_packageTypeDeclaration(t)
    [] sym = "optConstructorParameters"        -> build_optConstructorParameters(t)
    [] sym = "constantDeclaration"             -> build_constantDeclaration(t)
    [] sym = "typedefDeclaration"              -> build_typedefDeclaration(t)
    [] sym = "typedefDeclaration_"             -> build_typedefDeclaration_(t)
    [] sym = "typeDeclaration"                 -> build_typeDeclaration(t)
    [] sym = "argument"                        -> build_argument(t)
    [] sym = "argumentList"                    -> build_argumentList(t)
    [] sym = "variableDeclaration"             -> build_variableDeclaration(t)
    [] sym = "instantiation"                   -> build_instantiation(t)
    [] sym = "directApplication"               -> build_directApplication(t)
    [] sym = "directApplication_"              -> build_directApplication_(t)
    [] sym = "prefixedNonTypeName"             -> build_prefixedNonTypeName(t)
    [] sym = "arrayIndex"                      -> build_arrayIndex(t)
    [] sym = "arrayIndex_"                     -> build_arrayIndex_(t)
    [] sym = "lvalueExpr"                      -> build_lvalueExpr(t)
    [] sym = "lvalue"                          -> build_lvalue(t)
    [] sym = "lvalue_"                         -> build_lvalue_(t)
    [] sym = "assignmentOrMethodCallStatement" -> build_assignmentOrMethodCallStatement(t)
    [] sym = "methodTypeArguments"             -> methodTypeArguments(t)
    [] sym = "assignmentOrCall"                -> assignmentOrCall(t)
    [] sym = "parserLocalElement"              -> build_parserLocalElement(t)
    [] sym = "localDeclaration"                -> localDeclaration(t)
    [] sym = "parserLocalElements"             -> build_parserLocalElements(t)
    [] sym = "parserStatements"                -> build_parserStatements(t)
    [] sym = "parserBlockStatements"           -> build_parserBlockStatements(t)
    [] sym = "parserStatement"                 -> build_parserStatement(t)
    [] sym = "parserStatement_"                -> build_parserStatement_(t)
    [] sym = "expressionList"                  -> build_expressionList(t)
    [] sym = "simpleKeysetExpression"          -> build_simpleKeysetExpression(t)
    [] sym = "tupleKeysetExpression"           -> build_tupleKeysetExpression(t)
    [] sym = "keysetExpression"                -> build_keysetExpression(t)
    [] sym = "selectCase"                      -> build_selectCase(t)
    [] sym = "selectCaseList"                  -> build_selectCaseList(t)
    [] sym = "selectExpression"                -> build_selectExpression(t)
    [] sym = "stateExpression"                 -> build_stateExpression(t)
    [] sym = "transitionStatement"             -> build_transitionStatement(t)
    [] sym = "parserState"                     -> build_parserState(t)
    [] sym = "parserStates"                    -> build_parserStates(t)
    [] sym = "moreParserStates"                -> moreParserStates(t)
    [] sym = "parserDeclaration"               -> build_parserDeclaration(t)
    [] sym = "parserDeclaration_"              -> build_parserDeclaration_(t)
    [] sym = "actionDeclaration"               -> build_actionDeclaration(t)
    [] sym = "keyElement"                      -> build_keyElement(t)
    [] sym = "keyElementList"                  -> build_keyElementList(t)
    [] sym = "actionRef"                       -> build_actionRef(t)
    [] sym = "actionRef_"                      -> build_actionRef_(t)
    [] sym = "actionList"                      -> build_actionList(t)
    [] sym = "entry"                           -> build_entry(t)
    [] sym = "entriesList"                     -> build_entriesList(t)
    [] sym = "moreEntries"                     -> moreEntries(t)
    [] sym = "tableProperty"                   -> build_tableProperty(t)
    [] sym = "tableProperty_"                  -> build_tableProperty_(t)
    [] sym = "tablePropertyList"               -> build_tablePropertyList(t)
    [] sym = "moreTableProperties"             -> moreTableProperties(t)
    [] sym = "tableDeclaration"                -> build_tableDeclaration(t)
    [] sym = "controlLocalDeclaration"         -> build_controlLocalDeclaration(t)
    [] sym = "controlLocalDeclarations"        -> build_controlLocalDeclarations(t)
    [] sym = "controlDeclaration"              -> build_controlDeclaration(t)
    [] sym = "controlDeclaration_"             -> build_controlDeclaration_(t)
    [] sym = "conditionalStatement"            -> build_conditionalStatement(t)
    [] sym = "branch"                          -> branch(t)
    [] sym = "else"                            -> else(t)
    [] sym = "exitStatement"                   -> build_exitStatement(t)
    [] sym = "returnStatement"                 -> build_returnStatement(t)
    [] sym = "returnStatement_"                -> build_returnStatement_(t)
    [] sym = "switchLabel"                     -> build_switchLabel(t)
    [] sym = "switchCase"                      -> build_switchCase(t)
    [] sym = "switchCase_"                     -> build_switchCase_(t)
    [] sym = "switchCases"                     -> build_switchCases(t)
    [] sym = "switchStatement"                 -> build_switchStatement(t)
    [] sym = "statement"                       -> build_statement(t)
    [] sym = "statementOrDecl"                 -> build_statementOrDecl(t)
    [] sym = "statementOrDecl_"                -> build_statementOrDecl_(t)
    [] sym = "statementOrDeclList"             -> build_statementOrDeclList(t)
    [] sym = "blockStatement"                  -> build_blockStatement(t)
    [] sym = "identifierList"                  -> build_identifierList(t)
    [] sym = "errorDeclaration"                -> build_errorDeclaration(t)
    [] sym = "matchKindDeclaration"            -> build_matchKindDeclaration(t)
    [] sym = "functionDeclaration"             -> build_functionDeclaration(t)
    [] sym = "declaration"                     -> build_declaration(t)
    [] sym = "declaration_"                    -> build_declaration_(t)
    [] sym = "p4program"                       -> build_p4program(t)
    [] sym = "realTypeArg"                     -> build_realTypeArg(t)
    [] sym = "realTypeArgumentList"            -> build_realTypeArgumentList(t)
    [] sym = "expressionPrimary"               -> build_expressionPrimary(t)
    [] sym = "dotPrefixed"                     -> dotPrefixed(t)
    [] sym = "castOrParenthesised"             -> castOrParenthesised(t)
    [] sym = "moreTypeParameters"              -> Commas(t, "typeDeclName", sym)
    [] sym = "moreTypeArguments"               -> Commas(t, "typeArg", sym)
    [] sym = "moreParameters"                  -> Commas(t, "parameter", sym)
    [] sym = "moreArguments"                   -> Commas(t, "argument", sym)
    [] sym = "moreSpecifiedIdentifiers"        -> Commas(t, "specifiedIdentifier", sym)
    [] sym = "moreExpressions"                 -> Commas(t, Expression(1), sym)
    [] sym = "moreKeysetExpressions"           -> Commas(t, "simpleKeysetExpression", sym)
    [] sym = "moreIdentifiers"                 -> Commas(t, "name", sym)
    [] sym = "moreRealTypeArguments"           -> Commas(t, "realTypeArg", sym)
    [] sym = Expression(1)                     -> build_expression(t, 1)
    [] sym = Expression(2)                     -> build_expression(t, 2)
    [] sym = Expression(3)                     -> build_expression(t, 3)
    [] sym = Expression(4)                     -> build_expression(t, 4)
    [] sym = Expression(5)                     -> build_expression(t, 5)
    [] sym = Expression(6)                     -> build_expression(t, 6)
    [] sym = Operators(1)                      -> operators(t, ahead, 1)
    [] sym = Operators(2)                      -> operators(t, ahead, 2)
    [] sym = Operators(3)                      -> operators(t, ahead, 3)
    [] sym = Operators(4)                      -> operators(t, ahead, 4)
    [] sym = Operators(5)                      -> operators(t, ahead, 5)
    [] sym = Operators(6)                      -> operators(t, ahead, 6)

=============================================================================
