------------------------------- MODULE Parser -------------------------------
(***************************************************************************)
(* Parser (parser/parser.cpp): recursive descent over the tokens of one    *)
(* program, with recovery at the next statement after an error, and a      *)
(* Parser object that is used for one program after the other.             *)
(*                                                                         *)
(* The tokens are chosen one at a time, when the parser first looks at     *)
(* them, so that every token sequence is parsed.  tok is the token looked  *)
(* at and not consumed.  Tokens that no line of the parser tells apart are *)
(* one: "NUMERIC" is FLOAT or INT, "PLAIN" is DATETIME or STRING, "CMP" is *)
(* a comparison, "V2" is DURING, WHEN, AVG or OVER, "OTHER" is a token no  *)
(* rule mentions.  Paths, ENUM values and the numbers of constraint items  *)
(* are not kept.                                                           *)
(***************************************************************************)
EXTENDS Integers, SequencesExt

CONSTANTS
    Names,          \* identifiers
    MaxStatements,  \* bound: statement keywords in one program
    MaxColumns,     \* bound: no ',' after so many columns of one type
    Unread, None    \* the next token has not been looked at / no value

ASSUME ParserBounds == {MaxStatements, MaxColumns} \subseteq Nat \ {0}

VARIABLES
    pc,             \* position in the grammar: a rule's, or the token wanted next
    tok, previous,  \* the token at current_, and the one before it if it is a number
    stmt,           \* the statement being parsed
    defined_types, errors,
    statements,     \* program.statements of the result
    starts,         \* history: statement keywords consumed
    consumed        \* history: a token was consumed in this pass of the loop

vars == <<pc, tok, previous, stmt, defined_types, errors, statements, starts, consumed>>

Huge == 1000        \* stands for a number stod and stoll cannot represent

Fixed == {"DEFINE", "LOAD", "GENERATE", "TYPE", "CONSTRAINT", "DATA", "INTO", "FROM", "ON",
          "TABLE", "WITH", "LIMIT", "BETWEEN", "AND", "NOT", "NULL", "ORDER", "NUMERIC",
          "PLAIN", "ENUM", "V2", "CMP", "STRING", "LBRACE", "RBRACE", "LPAREN", "RPAREN",
          "LBRACKET", "RBRACKET", "COMMA", "COLON", "SEMICOLON", "MINUS", "OTHER", "EOF"}

Token(type, lexeme) == [type |-> type, lexeme |-> lexeme]

Tokens == {Token(f, None) : f \in Fixed} \union {Token("IDENT", n) : n \in Names}
            \union {Token("INT", v) : v \in {-1, 1, Huge}} \union {Token("FLOAT", 1)}

ASSUME ParserSentinels == None \notin Names /\ Unread \notin Tokens

StartTokens == {Token(f, None) : f \in {"DEFINE", "LOAD", "GENERATE"}}

EOF == Token("EOF", None)

IsNumber(t) == t.type \in {"INT", "FLOAT"}

NotNumber == Token("OTHER", None)

NoColumn == [name |-> None, range_min |-> None, range_max |-> None]

NoStatement == [kind |-> None, type |-> None, columns |-> <<>>, col |-> NoColumn,
                sign |-> 1, number |-> None, reused |-> FALSE]

\* What may come next: the bounds end the program and the list of columns.
Feed ==
    {t \in Tokens : /\ t \in StartTokens => starts < MaxStatements
                    /\ t.type = "COMMA" => Len(stmt.columns) < MaxColumns}

Looking == IF tok = Unread THEN Feed ELSE {tok}

Init ==
    /\ pc = "top" /\ tok = Unread /\ previous = NotNumber
    /\ stmt = NoStatement
    /\ defined_types = {} /\ errors = {} /\ statements = <<>>
    /\ starts = 0 /\ consumed = TRUE

-----------------------------------------------------------------------------
(***************************************************************************)
(* advance, check and expect.  At the end advance stays where it is and    *)
(* returns the last token of the program once more.                        *)
(***************************************************************************)
Consume(t) ==
    /\ tok' = IF t = EOF THEN EOF ELSE Unread
    /\ previous' = IF t = EOF THEN previous ELSE IF IsNumber(t) THEN t ELSE NotNumber
    /\ starts' = IF t \in StartTokens THEN starts + 1 ELSE starts
    /\ consumed' = (t # EOF \/ (consumed /\ pc # "top"))

Keep(t) ==
    /\ tok' = t
    /\ consumed' = (consumed /\ pc # "top")
    /\ UNCHANGED <<previous, starts>>

Returned(t) == IF t = EOF THEN previous ELSE t

\* The code a caller sees for an error of parse_statement.
Reported(code) ==
    IF code \in {"kUnsupportedInV1", "kUndefinedType", "kDuplicateColumnName"}
    THEN code ELSE "kSyntaxError"

Fail(code) ==
    /\ pc' = "skip"
    /\ errors' = errors \union {Reported(code)}
    /\ stmt' = NoStatement
    /\ UNCHANGED <<defined_types, statements>>

Goto(label, s) ==
    /\ pc' = label
    /\ stmt' = s
    /\ UNCHANGED <<defined_types, errors, statements>>

Rule(at, want, to) == [at |-> at, want |-> want, to |-> to]

\* Tokens whose absence is a syntax error.
Required ==
    {Rule("LBRACE", "LBRACE", "column"), Rule("COLON", "COLON", "column_type"),
     Rule("value", "STRING", "values"), Rule("RBRACE", "RBRACE", "SEMICOLON"),
     Rule("path", "STRING", "SEMICOLON"), Rule("constraint", "IDENT", "on"),
     Rule("table_name", "IDENT", "from"), Rule("constraint_ref", "IDENT", "limit")}

\* Tokens that expect() asks for without a look at its result.
Ignored ==
    {Rule("LPAREN", "LPAREN", "value"), Rule("RPAREN", "RPAREN", "modifiers"),
     Rule("null", "NULL", "modifiers"), Rule("and", "AND", "max_sign"),
     Rule("COMMA", "COMMA", "max_sign"), Rule("data", "DATA", "into"),
     Rule("into", "INTO", "type_ref"), Rule("load_from", "FROM", "path"),
     Rule("on", "ON", "type_ref"), Rule("open", "LBRACE", "item"),
     Rule("table", "TABLE", "table_name"), Rule("from", "FROM", "type_ref"),
     Rule("with", "WITH", "constraints"), Rule("limit", "LIMIT", "limit_value")}

expect(t) ==
    \E r \in Required :
        /\ pc = r.at
        /\ IF t.type = r.want THEN Consume(t) /\ Goto(r.to, stmt)
                              ELSE Keep(t) /\ Fail("kSyntaxError")

expect_ignored(t) ==
    \E r \in Ignored :
        /\ pc = r.at
        /\ IF t.type = r.want THEN Consume(t) ELSE Keep(t)
        /\ Goto(r.to, stmt)

-----------------------------------------------------------------------------
parse_statement(t) ==
    /\ pc = "top" /\ t # EOF
    /\ IF t \in StartTokens
       THEN /\ Consume(t)
            /\ Goto([DEFINE |-> "define", LOAD |-> "data", GENERATE |-> "table"][t.type],
                    [NoStatement EXCEPT !.kind = t.type])
       ELSE Keep(t) /\ Fail("kSyntaxError")

Define(t) ==
    /\ pc = "define"
    /\ IF t.type \in {"TYPE", "CONSTRAINT"}
       THEN /\ Consume(t)
            /\ Goto([TYPE |-> "type_name", CONSTRAINT |-> "constraint"][t.type],
                    [stmt EXCEPT !.kind = t.type])
       ELSE Keep(t) /\ Fail("kSyntaxError")

\* The name counts as defined from here on, whatever follows it.
TypeName(t) ==
    /\ pc = "type_name"
    /\ IF t.type = "IDENT"
       THEN /\ Consume(t)
            /\ pc' = "LBRACE"
            /\ stmt' = [stmt EXCEPT !.type = t.lexeme]
            /\ defined_types' = defined_types \union {t.lexeme}
            /\ UNCHANGED <<errors, statements>>
       ELSE Keep(t) /\ Fail("kSyntaxError")

\* The type that LOAD, DEFINE CONSTRAINT or GENERATE is about.
TypeRef(t) ==
    /\ pc = "type_ref"
    /\ IF t.type # "IDENT" THEN Keep(t) /\ Fail("kSyntaxError")
       ELSE /\ Consume(t)
            /\ IF t.lexeme \in defined_types
               THEN Goto([LOAD |-> "load_from", CONSTRAINT |-> "open",
                          GENERATE |-> "with"][stmt.kind], [stmt EXCEPT !.type = t.lexeme])
               ELSE Fail("kUndefinedType")

-----------------------------------------------------------------------------
(***************************************************************************)
(* parse_column_def and the loop over the columns.                         *)
(***************************************************************************)
ColumnName(t) ==
    /\ pc = "column"
    /\ IF t.type = "IDENT"
       THEN Consume(t) /\ Goto("COLON", [stmt EXCEPT !.col = [NoColumn EXCEPT !.name = t.lexeme]])
       ELSE Keep(t) /\ Fail("kSyntaxError")

\* The token after ':' is consumed before it is known to be a type.
DefaultType(t) ==   \* variant: what is not a type stands for STRING
    /\ pc = "column_type"
    /\ Consume(t)
    /\ Goto(CASE t.type = "NUMERIC" -> "range" [] t.type = "ENUM" -> "LPAREN"
              [] OTHER -> "modifiers", stmt)

ColumnType(t) ==
    /\ pc = "column_type"
    /\ Consume(t)
    /\ IF t.type \in {"NUMERIC", "PLAIN", "ENUM"}
       THEN Goto([NUMERIC |-> "range", PLAIN |-> "modifiers", ENUM |-> "LPAREN"][t.type], stmt)
       ELSE Fail("kSyntaxError")

OpenRange(t) ==
    /\ pc = "range"
    /\ IF t.type = "LBRACKET" THEN Consume(t) /\ Goto("min_sign", stmt)
                              ELSE Keep(t) /\ Goto("modifiers", stmt)

Sign(t) ==
    /\ pc \in {"min_sign", "max_sign"}
    /\ IF t.type = "MINUS" THEN Consume(t) ELSE Keep(t)
    /\ Goto(IF pc = "min_sign" THEN "min" ELSE "max",
            [stmt EXCEPT !.sign = IF t.type = "MINUS" THEN -1 ELSE 1])

\* std::stod and std::stoll throw out of parse() what they cannot represent.
Throw == Goto("thrown", NoStatement)

\* A bound of a range or of BETWEEN; at the end of the program it is read from
\* the token before.
Number(t) ==
    LET n     == Returned(t)
        value == stmt.sign * n.lexeme
        read  == [stmt EXCEPT !.reused = @ \/ t = EOF]
    IN /\ pc \in {"min", "max"}
       /\ Consume(t)
       /\ IF ~IsNumber(n) THEN Fail("kSyntaxError")
          ELSE IF n.lexeme = Huge THEN Throw
          ELSE IF stmt.kind = "CONSTRAINT"
               THEN Goto(IF pc = "min" THEN "and" ELSE "items", read)
          ELSE IF pc = "min"
               THEN Goto("COMMA", [read EXCEPT !.col.range_min = value])
               ELSE Goto("RBRACKET", [read EXCEPT !.col.range_max = value])

RangeUnchecked(t) ==   \* variant: an empty range is let through
    /\ pc = "RBRACKET"
    /\ IF t.type = "RBRACKET" THEN Consume(t) ELSE Keep(t)
    /\ Goto("modifiers", stmt)

RangeEnd(t) ==
    /\ pc = "RBRACKET"
    /\ IF t.type = "RBRACKET" THEN Consume(t) ELSE Keep(t)
    /\ IF stmt.col.range_min >= stmt.col.range_max
       THEN Fail("kInvalidRange")
       ELSE Goto("modifiers", stmt)

\* After a ',' in ENUM the list goes on unless the program or the list ends.
EnumValues(t) ==
    \/ /\ pc = "values"
       /\ IF t.type = "COMMA" THEN Consume(t) /\ Goto("next_value", stmt)
                              ELSE Keep(t) /\ Goto("RPAREN", stmt)
    \/ /\ pc = "next_value"
       /\ Keep(t)
       /\ Goto(IF t.type \in {"EOF", "RPAREN"} THEN "RPAREN" ELSE "value", stmt)

Modifiers(t) ==
    /\ pc = "modifiers"
    /\ IF t.type \in {"NOT", "ORDER"} THEN Consume(t) ELSE Keep(t)
    /\ Goto(CASE t.type = "NOT" -> "null" [] t.type = "ORDER" -> "modifiers"
              [] OTHER -> "columns", stmt)

\* A column is complete: it joins the statement unless its name is taken.
AddColumn(t) ==
    /\ pc = "columns"
    /\ IF \E i \in DOMAIN stmt.columns : stmt.columns[i].name = stmt.col.name
       THEN Keep(t) /\ Fail("kDuplicateColumnName")
       ELSE /\ IF t.type = "COMMA" THEN Consume(t) ELSE Keep(t)
            /\ Goto(IF t.type = "COMMA" THEN "next_column" ELSE "RBRACE",
                    [stmt EXCEPT !.columns = Append(@, stmt.col), !.col = NoColumn])

NextColumn(t) ==
    /\ pc = "next_column"
    /\ Keep(t)
    /\ Goto(IF t.type \in {"EOF", "RBRACE"} THEN "RBRACE" ELSE "column", stmt)

-----------------------------------------------------------------------------
(***************************************************************************)
(* parse_constraint_item and the loop over the items.                      *)
(***************************************************************************)
Item(t) ==
    /\ pc = "item"
    /\ IF t.type = "IDENT" THEN Consume(t) /\ Goto("operator", stmt)
       ELSE Keep(t) /\ Fail(IF t.type = "V2" THEN "kUnsupportedInV1" ELSE "kSyntaxError")

Operator(t) ==
    /\ pc = "operator"
    /\ IF t.type \in {"BETWEEN", "CMP"}
       THEN Consume(t) /\ Goto(IF t.type = "CMP" THEN "operand" ELSE "min_sign", stmt)
       ELSE Keep(t) /\ Fail("kSyntaxError")

Operand(t) ==
    /\ pc = "operand"
    /\ Consume(t)
    /\ Goto("operand_sign", [stmt EXCEPT !.number = Returned(t), !.reused = @ \/ t = EOF])

\* The sign is looked for after the number, and consumed before the number is
\* known to be one.
OperandSign(t) ==
    /\ pc = "operand_sign"
    /\ IF t.type = "MINUS" THEN Consume(t) ELSE Keep(t)
    /\ IF ~IsNumber(stmt.number) THEN Fail("kSyntaxError")
       ELSE IF stmt.number.lexeme = Huge THEN Throw
       ELSE Goto("items", [stmt EXCEPT !.number = None])

Items(t) ==
    \/ /\ pc = "items"
       /\ IF t.type = "COMMA" THEN Consume(t) /\ Goto("next_item", stmt)
                              ELSE Keep(t) /\ Goto("close", stmt)
    \/ /\ pc = "next_item"
       /\ Keep(t)
       /\ Goto(IF t.type \in {"EOF", "RBRACE"} THEN "close" ELSE "item", stmt)

Close(t) ==
    /\ pc = "close"
    /\ Keep(t)
    /\ IF t.type = "V2" THEN Fail("kUnsupportedInV1") ELSE Goto("RBRACE", stmt)

-----------------------------------------------------------------------------
\* GENERATE: any identifier passes for CONSTRAINTS, and LIMIT takes an integer.
Constraints(t) ==
    /\ pc = "constraints"
    /\ IF t.type \in {"CONSTRAINT", "IDENT"} THEN Consume(t) /\ Goto("constraint_ref", stmt)
                                             ELSE Keep(t) /\ Fail("kSyntaxError")

Limit(t) ==
    LET n == Returned(t) IN
    /\ pc = "limit_value"
    /\ Consume(t)
    /\ IF n.type # "INT" THEN Fail("kSyntaxError")
       ELSE IF n.lexeme = Huge THEN Throw
       ELSE IF n.lexeme < 0 THEN Fail("kInvalidArgument")
       ELSE Goto("SEMICOLON", [stmt EXCEPT !.reused = @ \/ t = EOF])

\* An optional ';' ends every statement, which is then part of the program.
Accept(t) ==
    /\ pc = "SEMICOLON"
    /\ IF t.type = "SEMICOLON" THEN Consume(t) ELSE Keep(t)
    /\ pc' = "top"
    /\ statements' = Append(statements, [kind |-> stmt.kind, type |-> stmt.type,
                                         reused |-> stmt.reused])
    /\ stmt' = NoStatement
    /\ UNCHANGED <<defined_types, errors>>

-----------------------------------------------------------------------------
(***************************************************************************)
(* The loop of parse(): after an error, on to the next statement keyword.  *)
(***************************************************************************)
StopsAtBrace(t) == t = EOF \/ t \in StartTokens \/ t.type = "RBRACE"   \* variant

SkipsPastEnd(t) == t \in StartTokens   \* variant: no is_at_end() in the loop

SkipStops(t) == t = EOF \/ t \in StartTokens

Skip(t) ==
    /\ pc = "skip"
    /\ IF SkipStops(t) THEN Keep(t) ELSE Consume(t)
    /\ Goto(IF SkipStops(t) THEN "top" ELSE "skip", stmt)

ParseReturns(t) ==
    /\ pc = "top" /\ t = EOF
    /\ Keep(t)
    /\ Goto("done", stmt)

Parse(t) ==
    \/ parse_statement(t) \/ Define(t) \/ TypeName(t) \/ TypeRef(t)
    \/ ColumnName(t) \/ ColumnType(t) \/ OpenRange(t) \/ Sign(t) \/ Number(t) \/ RangeEnd(t)
    \/ EnumValues(t) \/ Modifiers(t) \/ AddColumn(t) \/ NextColumn(t)
    \/ Item(t) \/ Operator(t) \/ Operand(t) \/ OperandSign(t) \/ Items(t) \/ Close(t)
    \/ Constraints(t) \/ Limit(t)
    \/ expect(t) \/ expect_ignored(t) \/ Accept(t) \/ Skip(t) \/ ParseReturns(t)

Step == \E t \in Looking : Parse(t)

\* parse() is called again on the same object.  A program the lexer refuses is
\* answered before anything is cleared.
Ended == pc \in {"done", "thrown"}

KeepsTypes ==   \* variant: defined_types_ is not cleared
    /\ Ended
    /\ pc' = "top" /\ tok' = Unread /\ previous' = NotNumber
    /\ stmt' = NoStatement
    /\ errors' = {} /\ statements' = <<>>
    /\ starts' = 0 /\ consumed' = TRUE
    /\ UNCHANGED defined_types

ParseAgain ==
    /\ Ended
    /\ pc' = "top" /\ tok' = Unread /\ previous' = NotNumber
    /\ stmt' = NoStatement
    /\ defined_types' = {} /\ errors' = {} /\ statements' = <<>>
    /\ starts' = 0 /\ consumed' = TRUE

LexerRefuses ==
    /\ Ended
    /\ pc' = "done"
    /\ errors' = {"kSyntaxError"} /\ statements' = <<>>
    /\ UNCHANGED <<tok, previous, stmt, defined_types, starts, consumed>>

Next == Step \/ ParseAgain \/ LexerRefuses

\* A parser that has been called runs; nobody is obliged to call it again.
Spec == Init /\ [][Next]_vars /\ WF_vars(Step)

-----------------------------------------------------------------------------
Codes == {"kSyntaxError", "kUndefinedType", "kDuplicateColumnName", "kUnsupportedInV1"}

Bounds == {None, -1, 1}

TypeOK ==
    /\ tok \in Tokens \union {Unread} /\ previous \in Tokens
    /\ defined_types \subseteq Names /\ errors \subseteq Codes
    /\ starts \in 0..MaxStatements /\ consumed \in BOOLEAN
    /\ stmt.type \in Names \union {None}
    /\ stmt.col.range_min \in Bounds /\ stmt.col.range_max \in Bounds
    /\ Len(statements) <= starts /\ Len(stmt.columns) <= MaxColumns + 1

\* Schema::validate, which SchemaBuilder::build ends with.
validate(s) ==
    /\ s.type \in Names /\ s.columns # <<>>
    /\ \A i, j \in DOMAIN s.columns : s.columns[i].name = s.columns[j].name => i = j
    /\ \A i \in DOMAIN s.columns :
          LET c == s.columns[i] IN
          None \notin {c.range_min, c.range_max} => c.range_min < c.range_max

\* A program parsed without an error is whole: every statement keyword of it has
\* become a statement, and no statement took one token for two (advance()
\* returns the last token again at the end, and most expect() are not looked at).
CleanProgramsWhole ==
    pc = "done" /\ errors = {} =>
        /\ Len(statements) = starts
        /\ \A i \in DOMAIN statements : ~statements[i].reused

\* In such a program, on a fresh parser or on a reused one, every type that is
\* loaded, constrained or generated is one an earlier statement of the same
\* program defines: the name is entered before the definition is known to be
\* valid, but then there is an error.
CleanProgramsResolve ==
    pc = "done" /\ errors = {} =>
        \A i \in DOMAIN statements : statements[i].kind # "TYPE" =>
            \E j \in 1..(i - 1) :
                statements[j].kind = "TYPE" /\ statements[j].type = statements[i].type

\* Every DEFINE TYPE the parser accepts, in a program with or without errors
\* elsewhere, is one SchemaBuilder::build accepts.
AcceptedTypesBuild == pc = "SEMICOLON" /\ stmt.kind = "TYPE" => validate(stmt)

\* No pass of the loop of parse() leaves the position where it was: an error at
\* a token that starts no statement is always skipped past.
EveryPassConsumes == pc = "top" => consumed

\* At the end of its input the parser returns, or throws.
ParserReturns == tok = EOF ~> Ended
=============================================================================
