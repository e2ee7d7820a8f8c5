---------------------------- MODULE ParserProofs ----------------------------
(***************************************************************************)
(* Proofs about Parser, for every set of names and every length of the     *)
(* program.  What a position in the grammar means for the statement under  *)
(* way is one invariant per question; IInv is their conjunction.           *)
(***************************************************************************)
EXTENDS Parser, TLAPS

Column     == [name : Names, range_min : Int \union {None}, range_max : Int \union {None}]
ColumnPart == [name : Names \union {None}, range_min : Int \union {None},
               range_max : Int \union {None}]
Kinds      == {"DEFINE", "TYPE", "CONSTRAINT", "LOAD", "GENERATE"}
Statement  == [kind : Kinds \union {None}, type : Names \union {None}, columns : Seq(Column),
               col : ColumnPart, sign : {1, -1}, number : Tokens \union {None}, reused : BOOLEAN]
Accepted   == [kind : Kinds, type : Names, reused : BOOLEAN]

Types ==
    /\ tok \in Tokens \union {Unread} /\ previous \in Tokens
    /\ stmt \in Statement
    /\ starts \in Nat
    /\ consumed \in BOOLEAN
    /\ statements \in Seq(Accepted)

\* Positions of the parts of the grammar.
InColumn     == {"COLON", "column_type", "range", "COMMA", "RBRACKET", "LPAREN", "value",
                 "values", "next_value", "RPAREN", "modifiers", "null", "columns"}
InType       == InColumn \union {"LBRACE", "column", "next_column"}
InConstraint == {"open", "item", "operator", "operand", "operand_sign", "and", "items",
                 "next_item", "close"}
InNumber     == {"min_sign", "min", "max_sign", "max"}
InLoad       == {"load_from", "path"}
InGenerate   == {"with", "constraints", "constraint_ref", "limit", "limit_value"}
Between      == {"top", "skip", "done", "thrown"}

\* The kind of statement a position belongs to.
KindInv ==
    /\ pc \in InType \union {"type_name"} => stmt.kind = "TYPE"
    /\ pc \in InConstraint \union {"constraint", "on"} => stmt.kind = "CONSTRAINT"
    /\ pc \in InNumber \union {"RBRACE"} => stmt.kind \in {"TYPE", "CONSTRAINT"}
    /\ pc \in InLoad \union {"data", "into"} => stmt.kind = "LOAD"
    /\ pc \in InGenerate \union {"table", "table_name", "from"} => stmt.kind = "GENERATE"
    /\ pc = "type_ref" => stmt.kind \in {"LOAD", "CONSTRAINT", "GENERATE"}
    /\ pc = "SEMICOLON" => stmt.kind \in {"TYPE", "LOAD", "CONSTRAINT", "GENERATE"}
    /\ pc \in Between => stmt = NoStatement
    /\ pc \in InType \union InConstraint \union InNumber \union InLoad \union InGenerate
                \union Between
                \union {"type_name", "constraint", "on", "RBRACE", "data", "into", "table",
                        "table_name", "from", "type_ref", "SEMICOLON", "define"}

\* The type a statement is about is known from its name on.
Named(label) ==
    label \in InType \union InConstraint \union InNumber \union InLoad \union InGenerate
                \union {"RBRACE", "SEMICOLON"}

NameInv == Named(pc) => stmt.type \in Names

\* A pass that has consumed nothing is about to skip the token it stopped at.
ConsumeInv ==
    ~consumed =>
        \/ pc = "done"
        \/ pc = "skip" /\ tok \in Tokens /\ ~SkipStops(tok)

\* The columns collected, and the one under way.
RangeOK(c) == None \notin {c.range_min, c.range_max} => c.range_min < c.range_max

ColumnInv ==
    /\ \A i, j \in DOMAIN stmt.columns : stmt.columns[i].name = stmt.columns[j].name => i = j
    /\ \A i \in DOMAIN stmt.columns : RangeOK(stmt.columns[i])
    /\ pc \in InColumn \union InNumber /\ stmt.kind = "TYPE" => stmt.col.name \in Names
    /\ pc \in {"COMMA", "max_sign", "max"} /\ stmt.kind = "TYPE" => stmt.col.range_min \in Int
    /\ pc = "RBRACKET" => stmt.col.range_min \in Int /\ stmt.col.range_max \in Int
    /\ pc \in {"COLON", "column_type", "range", "LPAREN", "value", "values", "next_value",
               "RPAREN", "modifiers", "null", "columns"} => RangeOK(stmt.col)
    /\ pc \in {"next_column", "RBRACE", "SEMICOLON"} /\ stmt.kind = "TYPE" => stmt.columns # <<>>

\* Operand consumes whatever comes, a keyword too, and the next step fails.
Doomed == pc = "operand_sign" /\ ~IsNumber(stmt.number)

\* Without an error so far, every keyword consumed is a statement or the one under way.
CountInv ==
    errors = {} /\ pc # "thrown" /\ ~Doomed =>
        pc # "skip" /\ starts = Len(statements) + (IF pc \in {"top", "done"} THEN 0 ELSE 1)

\* A statement that took the last token twice is at the end of the program, and
\* still lacks its '}'.
ReusedInv ==
    /\ stmt.reused => tok = EOF /\ stmt.kind \in {"TYPE", "CONSTRAINT"} /\ pc # "SEMICOLON"
    /\ pc \in {"limit", "limit_value"} => ~IsNumber(previous)
    /\ \A i \in DOMAIN statements : ~statements[i].reused

\* Without an error so far, a name is defined by a statement or by the one under
\* way, and the type referred to is a defined one.
DefinedBy(n, k) == \E j \in 1..k : statements[j].kind = "TYPE" /\ statements[j].type = n

DefinedInv ==
    errors = {} /\ pc # "thrown" =>
        /\ \A n \in defined_types :
              \/ DefinedBy(n, Len(statements))
              \/ Named(pc) /\ stmt.kind = "TYPE" /\ stmt.type = n
        /\ Named(pc) /\ stmt.kind # "TYPE" => stmt.type \in defined_types
        /\ \A i \in DOMAIN statements : statements[i].kind # "TYPE" =>
              DefinedBy(statements[i].type, i - 1)

IInv ==
    /\ Types /\ KindInv /\ NameInv /\ ConsumeInv /\ ColumnInv
    /\ CountInv /\ ReusedInv /\ DefinedInv

-----------------------------------------------------------------------------
(***************************************************************************)
(* Tokens.                                                                 *)
(***************************************************************************)
LEMMA TokenFacts ==
  /\ EOF \in Tokens /\ NotNumber \in Tokens /\ ~IsNumber(EOF) /\ ~IsNumber(NotNumber)
  /\ StartTokens \subseteq Tokens
  /\ \A t \in Tokens :
        /\ t # Unread
        /\ t.type = "EOF" <=> t = EOF
        /\ t \in StartTokens <=> t.type \in {"DEFINE", "LOAD", "GENERATE"}
        /\ t.type = "IDENT" => t.lexeme \in Names
        /\ IsNumber(t) => t.lexeme \in Int
<1>1. /\ EOF = [type |-> "EOF", lexeme |-> None] /\ NotNumber = [type |-> "OTHER", lexeme |-> None]
      /\ \A t : t \in StartTokens <=>
            \E f \in {"DEFINE", "LOAD", "GENERATE"} : t = [type |-> f, lexeme |-> None]
  BY DEF EOF, NotNumber, Token, StartTokens
<1>2. \A f \in Fixed : [type |-> f, lexeme |-> None] \in Tokens
  BY DEF Tokens, Token
<1>3. /\ EOF \in Tokens /\ NotNumber \in Tokens /\ ~IsNumber(EOF) /\ ~IsNumber(NotNumber)
      /\ StartTokens \subseteq Tokens
  BY <1>1, <1>2 DEF Fixed, IsNumber
<1>4. ASSUME NEW t \in Tokens
      PROVE  \/ \E f \in Fixed : t = [type |-> f, lexeme |-> None]
             \/ \E n \in Names : t = [type |-> "IDENT", lexeme |-> n]
             \/ \E v \in {-1, 1, Huge} : t = [type |-> "INT", lexeme |-> v]
             \/ t = [type |-> "FLOAT", lexeme |-> 1]
  BY DEF Tokens, Token
<1>5. ASSUME NEW t \in Tokens
      PROVE  /\ t.type = "EOF" <=> t = EOF
             /\ t \in StartTokens <=> t.type \in {"DEFINE", "LOAD", "GENERATE"}
             /\ t.type = "IDENT" => t.lexeme \in Names
             /\ IsNumber(t) => t.lexeme \in Int
  <2>1. CASE \E f \in Fixed : t = [type |-> f, lexeme |-> None]
    <3>1. PICK f \in Fixed : t = [type |-> f, lexeme |-> None]
      BY <2>1
    <3>2. f \notin {"IDENT", "INT", "FLOAT"}
      BY DEF Fixed
    <3> QED BY <1>1, <3>1, <3>2 DEF IsNumber
  <2>2. CASE \E n \in Names : t = [type |-> "IDENT", lexeme |-> n]
    BY <1>1, <2>2 DEF IsNumber
  <2>3. CASE \E v \in {-1, 1, Huge} : t = [type |-> "INT", lexeme |-> v]
    BY <1>1, <2>3 DEF IsNumber, Huge
  <2>4. CASE t = [type |-> "FLOAT", lexeme |-> 1]
    BY <1>1, <2>4 DEF IsNumber
  <2> QED BY <1>4, <2>1, <2>2, <2>3, <2>4
<1>6. \A t \in Tokens : t # Unread
  BY ParserSentinels
<1> QED BY <1>3, <1>5, <1>6

\* Every step looks at one token and consumes it or keeps it.
LEMMA Position ==
  ASSUME Types, NEW t \in Looking, Parse(t)
  PROVE  /\ t \in Tokens /\ tok \in {t, Unread}
         /\ Consume(t) \/ Keep(t)
<1>1. t \in Tokens /\ tok \in {t, Unread}
  BY DEF Looking, Feed, Types
<1>2. Consume(t) \/ Keep(t)
  BY DEF Parse, parse_statement, Define, TypeName, TypeRef, ColumnName, ColumnType, OpenRange,
         Sign, Number, RangeEnd, EnumValues, Modifiers, AddColumn, NextColumn, Item, Operator,
         Operand, OperandSign, Items, Close, Constraints, Limit, expect, expect_ignored, Accept,
         Skip, ParseReturns
<1> QED BY <1>1, <1>2

-----------------------------------------------------------------------------
(***************************************************************************)
(* Types and positions.                                                    *)
(***************************************************************************)
\* The values a statement is given keep its type.
LEMMA StatementUpdates ==
  /\ NoStatement \in Statement /\ NoColumn \in ColumnPart
  /\ \A s \in Statement :
        /\ \A k \in Kinds : [s EXCEPT !.kind = k] \in Statement
        /\ \A n \in Names : [s EXCEPT !.type = n] \in Statement
        /\ \A c \in ColumnPart : [s EXCEPT !.col = c] \in Statement
        /\ \A g \in {1, -1} : [s EXCEPT !.sign = g] \in Statement
        /\ \A n \in Tokens \union {None} : [s EXCEPT !.number = n] \in Statement
        /\ \A b \in BOOLEAN : [s EXCEPT !.reused = b] \in Statement
        /\ \A v \in Int : /\ [s EXCEPT !.col.range_min = v] \in Statement
                          /\ [s EXCEPT !.col.range_max = v] \in Statement
<1>1. NoColumn \in ColumnPart
  BY DEF NoColumn, ColumnPart
<1>2. NoStatement \in Statement
  BY <1>1 DEF NoStatement, Statement
<1>3. ASSUME NEW s \in Statement
      PROVE  /\ \A k \in Kinds : [s EXCEPT !.kind = k] \in Statement
             /\ \A n \in Names : [s EXCEPT !.type = n] \in Statement
             /\ \A c \in ColumnPart : [s EXCEPT !.col = c] \in Statement
             /\ \A g \in {1, -1} : [s EXCEPT !.sign = g] \in Statement
             /\ \A n \in Tokens \union {None} : [s EXCEPT !.number = n] \in Statement
             /\ \A b \in BOOLEAN : [s EXCEPT !.reused = b] \in Statement
  BY DEF Statement
<1>4. ASSUME NEW s \in Statement, NEW v \in Int
      PROVE  /\ [s EXCEPT !.col.range_min = v] \in Statement
             /\ [s EXCEPT !.col.range_max = v] \in Statement
  <2>1. s.col \in ColumnPart
    BY DEF Statement
  <2>2. [s.col EXCEPT !.range_min = v] \in ColumnPart /\ [s.col EXCEPT !.range_max = v] \in ColumnPart
    BY <2>1 DEF ColumnPart
  <2> QED BY <2>2 DEF Statement
<1> QED BY <1>1, <1>2, <1>3, <1>4

\* stmt and what is collected keep their types.
StatementTypes == stmt \in Statement /\ statements \in Seq(Accepted)

LEMMA StatementStep ==
  ASSUME Types, KindInv, NameInv, ColumnInv, NEW t \in Tokens, Parse(t)
  PROVE  StatementTypes'
<1> USE TokenFacts, ParserSentinels, StatementUpdates DEF Types, StatementTypes, Kinds, Goto, Fail, Returned
<1>1. CASE parse_statement(t)
  BY <1>1, ZenonT(60) DEF parse_statement
<1>2. CASE Define(t)
  BY <1>2, ZenonT(60) DEF Define
<1>3. CASE TypeName(t)
  BY <1>3, ZenonT(60) DEF TypeName
<1>4. CASE TypeRef(t)
  BY <1>4, ZenonT(60) DEF TypeRef
<1>5. CASE ColumnName(t)
  <2>1. t.lexeme \in Names => [NoColumn EXCEPT !.name = t.lexeme] \in ColumnPart
    BY DEF NoColumn, ColumnPart
  <2> QED BY <1>5, <2>1 DEF ColumnName
<1>6. CASE ColumnType(t)
  BY <1>6 DEF ColumnType
<1>7. CASE OpenRange(t)
  BY <1>7 DEF OpenRange
<1>8. CASE Sign(t)
  BY <1>8 DEF Sign
<1>9. CASE Number(t)
  <2> DEFINE n == Returned(t)
             value == stmt.sign * n.lexeme
             read == [stmt EXCEPT !.reused = @ \/ t = EOF]
  <2>1. stmt.sign \in {1, -1} /\ stmt.reused \in BOOLEAN
    BY DEF Statement
  <2>2. n \in Tokens /\ read \in Statement
    BY <2>1
  <2>3. IsNumber(n) => value \in Int
    BY <2>1, <2>2
  <2> HIDE DEF n, value, read
  <2>4. /\ statements' = statements
        /\ \/ stmt' = NoStatement
           \/ stmt' = read
           \/ IsNumber(n) /\ stmt' = [read EXCEPT !.col.range_min = value]
           \/ IsNumber(n) /\ stmt' = [read EXCEPT !.col.range_max = value]
    BY <1>9 DEF Number, Throw, n, value, read
  <2>5. IsNumber(n) => /\ [read EXCEPT !.col.range_min = value] \in Statement
                       /\ [read EXCEPT !.col.range_max = value] \in Statement
    BY ONLY <2>2, <2>3, StatementUpdates
  <2>6. stmt' \in Statement
    BY ONLY <2>2, <2>4, <2>5, StatementUpdates
  <2> QED BY <2>4, <2>6
<1>10. CASE RangeEnd(t)
  BY <1>10 DEF RangeEnd
<1>11. CASE EnumValues(t)
  BY <1>11 DEF EnumValues
<1>12. CASE Modifiers(t)
  BY <1>12 DEF Modifiers
<1>13. CASE AddColumn(t)
  <2>1. stmt.col \in Column /\ stmt.columns \in Seq(Column)
    BY <1>13 DEF AddColumn, Statement, ColumnInv, InColumn, KindInv, InType, ColumnPart, Column
  <2>2. [stmt EXCEPT !.columns = Append(@, stmt.col), !.col = NoColumn] \in Statement
    <3>1. Append(stmt.columns, stmt.col) \in Seq(Column)
      BY <2>1
    <3> QED BY <3>1, ZenonT(60) DEF Statement
  <2> QED BY <1>13, <2>2 DEF AddColumn
<1>14. CASE NextColumn(t)
  BY <1>14 DEF NextColumn
<1>15. CASE Item(t)
  BY <1>15 DEF Item
<1>16. CASE Operator(t)
  BY <1>16 DEF Operator
<1>17. CASE Operand(t)
  BY <1>17 DEF Operand
<1>18. CASE OperandSign(t)
  <2>1. [stmt EXCEPT !.number = None] \in Statement
    <3>1. stmt \in Statement
      OBVIOUS
    <3> QED BY ONLY <3>1 DEF Statement
  <2>2. statements' = statements /\ stmt' \in {NoStatement, [stmt EXCEPT !.number = None]}
    BY <1>18 DEF OperandSign, Throw
  <2> QED BY <2>1, <2>2
<1>19. CASE Items(t)
  BY <1>19 DEF Items
<1>20. CASE Close(t)
  BY <1>20 DEF Close
<1>21. CASE Constraints(t)
  BY <1>21 DEF Constraints
<1>22. CASE Limit(t)
  BY <1>22 DEF Limit, Throw
<1>23. CASE expect(t)
  BY <1>23 DEF expect, Required, Rule
<1>24. CASE expect_ignored(t)
  BY <1>24 DEF expect_ignored, Ignored, Rule
<1>25. CASE Accept(t)
  <2> DEFINE a == [kind |-> stmt.kind, type |-> stmt.type, reused |-> stmt.reused]
  <2>1. stmt.kind \in Kinds /\ stmt.type \in Names /\ stmt.reused \in BOOLEAN
    BY <1>25 DEF Accept, KindInv, NameInv, Named, Statement
  <2>2. a \in Accepted
    BY <2>1 DEF Accepted
  <2>3. statements' = Append(statements, a) /\ stmt' = NoStatement
    BY <1>25 DEF Accept
  <2> QED BY <2>2, <2>3
<1>26. CASE Skip(t)
  BY <1>26 DEF Skip
<1>27. CASE ParseReturns(t)
  BY <1>27 DEF ParseReturns
<1> QED
  BY <1>1, <1>2, <1>3, <1>4, <1>5, <1>6, <1>7, <1>8, <1>9, <1>10, <1>11, <1>12, <1>13, <1>14,
     <1>15, <1>16, <1>17, <1>18, <1>19, <1>20, <1>21, <1>22, <1>23, <1>24, <1>25, <1>26, <1>27
     DEF Parse

\* Each step leaves the statement, or goes on in it to one of the positions the
\* grammar has next.
Left == stmt' = NoStatement /\ pc' \in Between
Same == stmt'.kind = stmt.kind /\ stmt'.type = stmt.type

\* The positions that depend on a keyword.
LEMMA NextLabels ==
  /\ [TYPE |-> "type_name", CONSTRAINT |-> "constraint"]["TYPE"] = "type_name"
  /\ [TYPE |-> "type_name", CONSTRAINT |-> "constraint"]["CONSTRAINT"] = "constraint"
  /\ [LOAD |-> "load_from", CONSTRAINT |-> "open", GENERATE |-> "with"]["LOAD"] = "load_from"
  /\ [LOAD |-> "load_from", CONSTRAINT |-> "open", GENERATE |-> "with"]["CONSTRAINT"] = "open"
  /\ [LOAD |-> "load_from", CONSTRAINT |-> "open", GENERATE |-> "with"]["GENERATE"] = "with"
  /\ [NUMERIC |-> "range", PLAIN |-> "modifiers", ENUM |-> "LPAREN"]["NUMERIC"] = "range"
  /\ [NUMERIC |-> "range", PLAIN |-> "modifiers", ENUM |-> "LPAREN"]["PLAIN"] = "modifiers"
  /\ [NUMERIC |-> "range", PLAIN |-> "modifiers", ENUM |-> "LPAREN"]["ENUM"] = "LPAREN"
  OBVIOUS

\* Where each rule starts and where it leads.
LEMMA RuleFacts ==
  /\ \A r \in Required :
        \/ r.at = "LBRACE" /\ r.to = "column"
        \/ r.at = "COLON" /\ r.to = "column_type"
        \/ r.at = "value" /\ r.to = "values"
        \/ r.at = "RBRACE" /\ r.want = "RBRACE" /\ r.to = "SEMICOLON"
        \/ r.at = "path" /\ r.to = "SEMICOLON"
        \/ r.at = "constraint" /\ r.to = "on"
        \/ r.at = "table_name" /\ r.to = "from"
        \/ r.at = "constraint_ref" /\ r.want = "IDENT" /\ r.to = "limit"
  /\ \A r \in Ignored :
        \/ r.at = "LPAREN" /\ r.to = "value"
        \/ r.at = "RPAREN" /\ r.to = "modifiers"
        \/ r.at = "null" /\ r.to = "modifiers"
        \/ r.at = "and" /\ r.to = "max_sign"
        \/ r.at = "COMMA" /\ r.to = "max_sign"
        \/ r.at = "data" /\ r.to = "into"
        \/ r.at = "into" /\ r.to = "type_ref"
        \/ r.at = "load_from" /\ r.to = "path"
        \/ r.at = "on" /\ r.to = "type_ref"
        \/ r.at = "open" /\ r.to = "item"
        \/ r.at = "table" /\ r.to = "table_name"
        \/ r.at = "from" /\ r.to = "type_ref"
        \/ r.at = "with" /\ r.to = "constraints"
        \/ r.at = "limit" /\ r.want = "LIMIT" /\ r.to = "limit_value"
<1>1. \A at, want, to : /\ Rule(at, want, to).at = at /\ Rule(at, want, to).want = want
                       /\ Rule(at, want, to).to = to
  BY DEF Rule
<1>2. ASSUME NEW r \in Required
      PROVE  \/ r.at = "LBRACE" /\ r.to = "column"
             \/ r.at = "COLON" /\ r.to = "column_type"
             \/ r.at = "value" /\ r.to = "values"
             \/ r.at = "RBRACE" /\ r.want = "RBRACE" /\ r.to = "SEMICOLON"
             \/ r.at = "path" /\ r.to = "SEMICOLON"
             \/ r.at = "constraint" /\ r.to = "on"
             \/ r.at = "table_name" /\ r.to = "from"
             \/ r.at = "constraint_ref" /\ r.want = "IDENT" /\ r.to = "limit"
  BY <1>1 DEF Required
<1>3. ASSUME NEW r \in Ignored
      PROVE  \/ r.at = "LPAREN" /\ r.to = "value"
             \/ r.at = "RPAREN" /\ r.to = "modifiers"
             \/ r.at = "null" /\ r.to = "modifiers"
             \/ r.at = "and" /\ r.to = "max_sign"
             \/ r.at = "COMMA" /\ r.to = "max_sign"
             \/ r.at = "data" /\ r.to = "into"
             \/ r.at = "into" /\ r.to = "type_ref"
             \/ r.at = "load_from" /\ r.to = "path"
             \/ r.at = "on" /\ r.to = "type_ref"
             \/ r.at = "open" /\ r.to = "item"
             \/ r.at = "table" /\ r.to = "table_name"
             \/ r.at = "from" /\ r.to = "type_ref"
             \/ r.at = "with" /\ r.to = "constraints"
             \/ r.at = "limit" /\ r.want = "LIMIT" /\ r.to = "limit_value"
  BY <1>1 DEF Ignored
<1> QED BY <1>2, <1>3

LEMMA KindStep ==
  ASSUME Types, KindInv, NameInv, NEW t \in Tokens, Parse(t)
  PROVE  KindInv' /\ NameInv'
<1>1. CASE parse_statement(t)
  <2>1. /\ pc = "top"
        /\ \/ Left
           \/ /\ stmt'.type = None
              /\ \/ stmt'.kind = "DEFINE" /\ pc' = "define"
                 \/ stmt'.kind = "LOAD" /\ pc' = "data"
                 \/ stmt'.kind = "GENERATE" /\ pc' = "table"
    BY <1>1, TokenFacts DEF parse_statement, Types, Statement, Goto, Fail, NoStatement, Left, Same, Between
  <2> QED BY <2>1 DEF KindInv, NameInv, Named, Left, Same, NoStatement, InType, InColumn, InConstraint,
                     InNumber, InLoad, InGenerate, Between
<1>2. CASE Define(t)
  <2>1. /\ pc = "define"
        /\ \/ Left
           \/ stmt'.kind = "TYPE" /\ pc' = "type_name"
           \/ stmt'.kind = "CONSTRAINT" /\ pc' = "constraint"
    <3>1. CASE t.type = "TYPE"
      BY <1>2, <3>1, NextLabels DEF Define, Types, Statement, Goto
    <3>2. CASE t.type = "CONSTRAINT"
      BY <1>2, <3>2, NextLabels DEF Define, Types, Statement, Goto
    <3>3. CASE t.type \notin {"TYPE", "CONSTRAINT"}
      BY <1>2, <3>3 DEF Define, Fail, Left, Between
    <3> QED BY <3>1, <3>2, <3>3
  <2> QED BY <2>1 DEF KindInv, NameInv, Named, Left, Same, NoStatement, InType, InColumn, InConstraint,
                     InNumber, InLoad, InGenerate, Between
<1>3. CASE TypeName(t)
  <2>1. /\ pc = "type_name"
        /\ Left \/ (stmt'.kind = stmt.kind /\ stmt'.type \in Names /\ pc' = "LBRACE")
    BY <1>3, TokenFacts DEF TypeName, Types, Statement, Goto, Fail, NoStatement, Left, Same, Between
  <2> QED BY <2>1 DEF KindInv, NameInv, Named, Left, Same, NoStatement, InType, InColumn, InConstraint,
                     InNumber, InLoad, InGenerate, Between
<1>4. CASE TypeRef(t)
  <2>1. /\ pc = "type_ref"
        /\ \/ Left
           \/ /\ stmt'.kind = stmt.kind /\ stmt'.type \in Names
              /\ \/ stmt.kind = "LOAD" /\ pc' = "load_from"
                 \/ stmt.kind = "CONSTRAINT" /\ pc' = "open"
                 \/ stmt.kind = "GENERATE" /\ pc' = "with"
    <3>1. stmt.kind \in {"LOAD", "CONSTRAINT", "GENERATE"}
      BY <1>4 DEF TypeRef, KindInv
    <3>2. CASE t.type = "IDENT" /\ t.lexeme \in defined_types
      <4>1. /\ pc' = [LOAD |-> "load_from", CONSTRAINT |-> "open", GENERATE |-> "with"][stmt.kind]
            /\ stmt' = [stmt EXCEPT !.type = t.lexeme] /\ pc = "type_ref"
        BY <1>4, <3>2 DEF TypeRef, Goto
      <4>2. stmt'.kind = stmt.kind /\ stmt'.type \in Names
        BY <3>2, <4>1, TokenFacts DEF Types, Statement
      <4> QED BY <3>1, <4>1, <4>2, NextLabels
    <3>3. CASE ~(t.type = "IDENT" /\ t.lexeme \in defined_types)
      BY <1>4, <3>3 DEF TypeRef, Fail, Left, Between
    <3> QED BY <3>2, <3>3
  <2> QED BY <2>1 DEF KindInv, NameInv, Named, Left, Same, NoStatement, InType, InColumn, InConstraint,
                     InNumber, InLoad, InGenerate, Between
<1>5. CASE ColumnName(t)
  <2>1. pc \in {"column"} /\ (Left \/ (Same /\ pc' \in {"COLON"}))
    BY <1>5, TokenFacts DEF ColumnName, Types, Statement, Goto, Fail, NoStatement, Left, Same, Between
  <2> QED BY <2>1 DEF KindInv, NameInv, Named, Left, Same, NoStatement, InType, InColumn, InConstraint,
                     InNumber, InLoad, InGenerate, Between
<1>6. CASE ColumnType(t)
  <2>1. pc \in {"column_type"} /\ (Left \/ (Same /\ pc' \in {"range", "modifiers", "LPAREN"}))
    <3>1. CASE t.type \in {"NUMERIC", "PLAIN", "ENUM"}
      BY <1>6, <3>1, NextLabels DEF ColumnType, Goto, Same
    <3>2. CASE t.type \notin {"NUMERIC", "PLAIN", "ENUM"}
      BY <1>6, <3>2 DEF ColumnType, Fail, Left, Between
    <3> QED BY <3>1, <3>2
  <2> QED BY <2>1 DEF KindInv, NameInv, Named, Left, Same, NoStatement, InType, InColumn, InConstraint,
                     InNumber, InLoad, InGenerate, Between
<1>7. CASE OpenRange(t)
  <2>1. pc \in {"range"} /\ (Left \/ (Same /\ pc' \in {"min_sign", "modifiers"}))
    BY <1>7, TokenFacts DEF OpenRange, Types, Statement, Goto, Fail, NoStatement, Left, Same, Between
  <2> QED BY <2>1 DEF KindInv, NameInv, Named, Left, Same, NoStatement, InType, InColumn, InConstraint,
                     InNumber, InLoad, InGenerate, Between
<1>8. CASE Sign(t)
  <2>1. pc \in {"min_sign", "max_sign"} /\ (Left \/ (Same /\ pc' \in {"min", "max"}))
    BY <1>8, TokenFacts DEF Sign, Types, Statement, Goto, Fail, NoStatement, Left, Same, Between
  <2> QED BY <2>1 DEF KindInv, NameInv, Named, Left, Same, NoStatement, InType, InColumn, InConstraint,
                     InNumber, InLoad, InGenerate, Between
<1>9. CASE Number(t)
  <2>1. /\ pc \in {"min", "max"}
        /\ \/ Left
           \/ Same /\ stmt.kind = "CONSTRAINT" /\ pc' \in {"and", "items"}
           \/ Same /\ stmt.kind # "CONSTRAINT" /\ pc' \in {"COMMA", "RBRACKET"}
    BY <1>9, TokenFacts DEF Number, Throw, Types, Statement, Goto, Fail, NoStatement, Left, Same, Between
  <2> QED BY <2>1 DEF KindInv, NameInv, Named, Left, Same, NoStatement, InType, InColumn, InConstraint,
                     InNumber, InLoad, InGenerate, Between
<1>10. CASE RangeEnd(t)
  <2>1. pc \in {"RBRACKET"} /\ (Left \/ (Same /\ pc' \in {"modifiers"}))
    BY <1>10, TokenFacts DEF RangeEnd, Types, Statement, Goto, Fail, NoStatement, Left, Same, Between
  <2> QED BY <2>1 DEF KindInv, NameInv, Named, Left, Same, NoStatement, InType, InColumn, InConstraint,
                     InNumber, InLoad, InGenerate, Between
<1>11. CASE EnumValues(t)
  <2>1. pc \in {"values", "next_value"} /\ (Left \/ (Same /\ pc' \in {"next_value", "RPAREN", "value"}))
    BY <1>11, TokenFacts DEF EnumValues, Types, Statement, Goto, Fail, NoStatement, Left, Same, Between
  <2> QED BY <2>1 DEF KindInv, NameInv, Named, Left, Same, NoStatement, InType, InColumn, InConstraint,
                     InNumber, InLoad, InGenerate, Between
<1>12. CASE Modifiers(t)
  <2>1. pc \in {"modifiers"} /\ (Left \/ (Same /\ pc' \in {"null", "modifiers", "columns"}))
    BY <1>12, TokenFacts DEF Modifiers, Types, Statement, Goto, Fail, NoStatement, Left, Same, Between
  <2> QED BY <2>1 DEF KindInv, NameInv, Named, Left, Same, NoStatement, InType, InColumn, InConstraint,
                     InNumber, InLoad, InGenerate, Between
<1>13. CASE AddColumn(t)
  <2>1. pc \in {"columns"} /\ (Left \/ (Same /\ pc' \in {"next_column", "RBRACE"}))
    BY <1>13, TokenFacts DEF AddColumn, Types, Statement, Goto, Fail, NoStatement, Left, Same, Between
  <2> QED BY <2>1 DEF KindInv, NameInv, Named, Left, Same, NoStatement, InType, InColumn, InConstraint,
                     InNumber, InLoad, InGenerate, Between
<1>14. CASE NextColumn(t)
  <2>1. pc \in {"next_column"} /\ (Left \/ (Same /\ pc' \in {"RBRACE", "column"}))
    BY <1>14, TokenFacts DEF NextColumn, Types, Statement, Goto, Fail, NoStatement, Left, Same, Between
  <2> QED BY <2>1 DEF KindInv, NameInv, Named, Left, Same, NoStatement, InType, InColumn, InConstraint,
                     InNumber, InLoad, InGenerate, Between
<1>15. CASE Item(t)
  <2>1. pc \in {"item"} /\ (Left \/ (Same /\ pc' \in {"operator"}))
    BY <1>15, TokenFacts DEF Item, Types, Statement, Goto, Fail, NoStatement, Left, Same, Between
  <2> QED BY <2>1 DEF KindInv, NameInv, Named, Left, Same, NoStatement, InType, InColumn, InConstraint,
                     InNumber, InLoad, InGenerate, Between
<1>16. CASE Operator(t)
  <2>1. pc \in {"operator"} /\ (Left \/ (Same /\ pc' \in {"operand", "min_sign"}))
    BY <1>16, TokenFacts DEF Operator, Types, Statement, Goto, Fail, NoStatement, Left, Same, Between
  <2> QED BY <2>1 DEF KindInv, NameInv, Named, Left, Same, NoStatement, InType, InColumn, InConstraint,
                     InNumber, InLoad, InGenerate, Between
<1>17. CASE Operand(t)
  <2>1. pc \in {"operand"} /\ (Left \/ (Same /\ pc' \in {"operand_sign"}))
    BY <1>17, TokenFacts DEF Operand, Types, Statement, Goto, Fail, NoStatement, Left, Same, Between
  <2> QED BY <2>1 DEF KindInv, NameInv, Named, Left, Same, NoStatement, InType, InColumn, InConstraint,
                     InNumber, InLoad, InGenerate, Between
<1>18. CASE OperandSign(t)
  <2>1. pc \in {"operand_sign"} /\ (Left \/ (Same /\ pc' \in {"items"}))
    BY <1>18, TokenFacts DEF OperandSign, Throw, Types, Statement, Goto, Fail, NoStatement, Left, Same, Between
  <2> QED BY <2>1 DEF KindInv, NameInv, Named, Left, Same, NoStatement, InType, InColumn, InConstraint,
                     InNumber, InLoad, InGenerate, Between
<1>19. CASE Items(t)
  <2>1. pc \in {"items", "next_item"} /\ (Left \/ (Same /\ pc' \in {"next_item", "close", "item"}))
    BY <1>19, TokenFacts DEF Items, Types, Statement, Goto, Fail, NoStatement, Left, Same, Between
  <2> QED BY <2>1 DEF KindInv, NameInv, Named, Left, Same, NoStatement, InType, InColumn, InConstraint,
                     InNumber, InLoad, InGenerate, Between
<1>20. CASE Close(t)
  <2>1. pc \in {"close"} /\ (Left \/ (Same /\ pc' \in {"RBRACE"}))
    BY <1>20, TokenFacts DEF Close, Types, Statement, Goto, Fail, NoStatement, Left, Same, Between
  <2> QED BY <2>1 DEF KindInv, NameInv, Named, Left, Same, NoStatement, InType, InColumn, InConstraint,
                     InNumber, InLoad, InGenerate, Between
<1>21. CASE Constraints(t)
  <2>1. pc \in {"constraints"} /\ (Left \/ (Same /\ pc' \in {"constraint_ref"}))
    BY <1>21, TokenFacts DEF Constraints, Types, Statement, Goto, Fail, NoStatement, Left, Same, Between
  <2> QED BY <2>1 DEF KindInv, NameInv, Named, Left, Same, NoStatement, InType, InColumn, InConstraint,
                     InNumber, InLoad, InGenerate, Between
<1>22. CASE Limit(t)
  <2>1. pc \in {"limit_value"} /\ (Left \/ (Same /\ pc' \in {"SEMICOLON"}))
    BY <1>22, TokenFacts DEF Limit, Throw, Types, Statement, Goto, Fail, NoStatement, Left, Same, Between
  <2> QED BY <2>1 DEF KindInv, NameInv, Named, Left, Same, NoStatement, InType, InColumn, InConstraint,
                     InNumber, InLoad, InGenerate, Between
<1>23. CASE expect(t)
  <2>1. PICK r \in Required :
           /\ pc = r.at
           /\ (pc' = r.to /\ stmt' = stmt) \/ Left
    BY <1>23 DEF expect, Goto, Fail, Left, Between
  <2>2. \/ r.at = "LBRACE" /\ r.to = "column"
        \/ r.at = "COLON" /\ r.to = "column_type"
        \/ r.at = "value" /\ r.to = "values"
        \/ r.at = "RBRACE" /\ r.to = "SEMICOLON"
        \/ r.at = "path" /\ r.to = "SEMICOLON"
        \/ r.at = "constraint" /\ r.to = "on"
        \/ r.at = "table_name" /\ r.to = "from"
        \/ r.at = "constraint_ref" /\ r.to = "limit"
    BY <2>1, RuleFacts
  <2>3. \/ Left
        \/ /\ Same
           /\ \/ pc = "LBRACE" /\ pc' = "column"
              \/ pc = "COLON" /\ pc' = "column_type"
              \/ pc = "value" /\ pc' = "values"
              \/ pc = "RBRACE" /\ pc' = "SEMICOLON"
              \/ pc = "path" /\ pc' = "SEMICOLON"
              \/ pc = "constraint" /\ pc' = "on"
              \/ pc = "table_name" /\ pc' = "from"
              \/ pc = "constraint_ref" /\ pc' = "limit"
    BY <2>1, <2>2 DEF Same
  <2> QED BY <2>3 DEF KindInv, NameInv, Named, Left, Same, NoStatement, InType, InColumn, InConstraint,
                     InNumber, InLoad, InGenerate, Between
<1>24. CASE expect_ignored(t)
  <2>1. PICK r \in Ignored :
           /\ pc = r.at
           /\ pc' = r.to /\ stmt' = stmt
    BY <1>24 DEF expect_ignored, Goto, Fail, Left, Between
  <2>2. \/ r.at = "LPAREN" /\ r.to = "value"
        \/ r.at = "RPAREN" /\ r.to = "modifiers"
        \/ r.at = "null" /\ r.to = "modifiers"
        \/ r.at = "and" /\ r.to = "max_sign"
        \/ r.at = "COMMA" /\ r.to = "max_sign"
        \/ r.at = "data" /\ r.to = "into"
        \/ r.at = "into" /\ r.to = "type_ref"
        \/ r.at = "load_from" /\ r.to = "path"
        \/ r.at = "on" /\ r.to = "type_ref"
        \/ r.at = "open" /\ r.to = "item"
        \/ r.at = "table" /\ r.to = "table_name"
        \/ r.at = "from" /\ r.to = "type_ref"
        \/ r.at = "with" /\ r.to = "constraints"
        \/ r.at = "limit" /\ r.to = "limit_value"
    BY <2>1, RuleFacts
  <2>3. /\ Same
        /\ \/ pc = "LPAREN" /\ pc' = "value"
           \/ pc = "RPAREN" /\ pc' = "modifiers"
           \/ pc = "null" /\ pc' = "modifiers"
           \/ pc = "and" /\ pc' = "max_sign"
           \/ pc = "COMMA" /\ pc' = "max_sign"
           \/ pc = "data" /\ pc' = "into"
           \/ pc = "into" /\ pc' = "type_ref"
           \/ pc = "load_from" /\ pc' = "path"
           \/ pc = "on" /\ pc' = "type_ref"
           \/ pc = "open" /\ pc' = "item"
           \/ pc = "table" /\ pc' = "table_name"
           \/ pc = "from" /\ pc' = "type_ref"
           \/ pc = "with" /\ pc' = "constraints"
           \/ pc = "limit" /\ pc' = "limit_value"
    BY <2>1, <2>2 DEF Same
  <2> QED BY <2>3 DEF KindInv, NameInv, Named, Left, Same, NoStatement, InType, InColumn, InConstraint,
                     InNumber, InLoad, InGenerate, Between
<1>25. CASE Accept(t)
  <2>1. Left
    BY <1>25, TokenFacts DEF Accept, Types, Statement, Goto, Fail, NoStatement, Left, Same, Between
  <2> QED BY <2>1 DEF KindInv, NameInv, Named, Left, Same, NoStatement, InType, InColumn, InConstraint,
                     InNumber, InLoad, InGenerate, Between
<1>26. CASE Skip(t)
  <2>1. Left
    BY <1>26, TokenFacts DEF Skip, Types, Statement, Goto, Fail, NoStatement, Left, Same, Between, KindInv
  <2> QED BY <2>1 DEF KindInv, NameInv, Named, Left, Same, NoStatement, InType, InColumn, InConstraint,
                     InNumber, InLoad, InGenerate, Between
<1>27. CASE ParseReturns(t)
  <2>1. Left
    BY <1>27, TokenFacts DEF ParseReturns, Types, Statement, Goto, Fail, NoStatement, Left, Same, Between, KindInv
  <2> QED BY <2>1 DEF KindInv, NameInv, Named, Left, Same, NoStatement, InType, InColumn, InConstraint,
                     InNumber, InLoad, InGenerate, Between
<1> QED
  BY <1>1, <1>2, <1>3, <1>4, <1>5, <1>6, <1>7, <1>8, <1>9, <1>10, <1>11, <1>12, <1>13, <1>14,
     <1>15, <1>16, <1>17, <1>18, <1>19, <1>20, <1>21, <1>22, <1>23, <1>24, <1>25, <1>26, <1>27
     DEF Parse

-----------------------------------------------------------------------------
(***************************************************************************)
(* The position in the input.                                              *)
(***************************************************************************)
\* Which steps there are between statements.
LEMMA Outside ==
  ASSUME NEW t \in Tokens, Parse(t), pc \in Between
  PROVE  \/ pc = "top" /\ (parse_statement(t) \/ ParseReturns(t))
         \/ pc = "skip" /\ Skip(t)
<1> USE RuleFacts DEF Between
<1>1. CASE parse_statement(t)
  BY <1>1 DEF parse_statement
<1>2. CASE Define(t)
  BY <1>2 DEF Define
<1>3. CASE TypeName(t)
  BY <1>3 DEF TypeName
<1>4. CASE TypeRef(t)
  BY <1>4 DEF TypeRef
<1>5. CASE ColumnName(t)
  BY <1>5 DEF ColumnName
<1>6. CASE ColumnType(t)
  BY <1>6 DEF ColumnType
<1>7. CASE OpenRange(t)
  BY <1>7 DEF OpenRange
<1>8. CASE Sign(t)
  BY <1>8 DEF Sign
<1>9. CASE Number(t)
  BY <1>9 DEF Number, Throw
<1>10. CASE RangeEnd(t)
  BY <1>10 DEF RangeEnd
<1>11. CASE EnumValues(t)
  BY <1>11 DEF EnumValues
<1>12. CASE Modifiers(t)
  BY <1>12 DEF Modifiers
<1>13. CASE AddColumn(t)
  BY <1>13 DEF AddColumn
<1>14. CASE NextColumn(t)
  BY <1>14 DEF NextColumn
<1>15. CASE Item(t)
  BY <1>15 DEF Item
<1>16. CASE Operator(t)
  BY <1>16 DEF Operator
<1>17. CASE Operand(t)
  BY <1>17 DEF Operand
<1>18. CASE OperandSign(t)
  BY <1>18 DEF OperandSign, Throw
<1>19. CASE Items(t)
  BY <1>19 DEF Items
<1>20. CASE Close(t)
  BY <1>20 DEF Close
<1>21. CASE Constraints(t)
  BY <1>21 DEF Constraints
<1>22. CASE Limit(t)
  BY <1>22 DEF Limit, Throw
<1>23. CASE expect(t)
  BY <1>23 DEF expect, Required, Rule
<1>24. CASE expect_ignored(t)
  BY <1>24 DEF expect_ignored, Ignored, Rule
<1>25. CASE Accept(t)
  BY <1>25 DEF Accept
<1>26. CASE Skip(t)
  BY <1>26 DEF Skip
<1>27. CASE ParseReturns(t)
  BY <1>27 DEF ParseReturns
<1> QED
  BY <1>1, <1>2, <1>3, <1>4, <1>5, <1>6, <1>7, <1>8, <1>9, <1>10, <1>11, <1>12, <1>13, <1>14,
     <1>15, <1>16, <1>17, <1>18, <1>19, <1>20, <1>21, <1>22, <1>23, <1>24, <1>25, <1>26, <1>27
     DEF Parse

\* A pass that starts at a token it cannot use skips that token.
LEMMA ConsumeStep ==
  ASSUME Types, ConsumeInv, NEW t \in Looking, Parse(t)
  PROVE  ConsumeInv'
<1>1. t \in Tokens /\ tok \in {t, Unread} /\ (Consume(t) \/ Keep(t))
  BY Position
<1>2. CASE pc = "top"
  <2>1. CASE parse_statement(t)
  BY <1>1, <1>2, <2>1, TokenFacts DEF parse_statement, Consume, Keep, Fail, ConsumeInv,
     SkipStops
  <2>2. CASE ParseReturns(t)
    BY <2>2 DEF ParseReturns, Goto, ConsumeInv
  <2> QED BY <1>1, <1>2, <2>1, <2>2, Outside DEF Between
<1>3. CASE pc = "skip"
  <2>1. Skip(t)
    BY <1>1, <1>3, Outside DEF Between
  <2>2. CASE consumed
    BY <1>1, <1>3, <2>2 DEF Consume, Keep, ConsumeInv
  <2>3. CASE ~consumed
    BY <1>1, <1>3, <2>1, <2>3, TokenFacts DEF Skip, Consume, ConsumeInv, SkipStops
  <2> QED BY <2>2, <2>3 DEF Types
<1>4. CASE pc \notin {"top", "skip"}
  <2>1. pc # "done"
    BY <1>1, Outside DEF Between
  <2>2. consumed
    BY <1>4, <2>1 DEF ConsumeInv
  <2> QED BY <1>1, <1>4, <2>2 DEF Consume, Keep, ConsumeInv
<1> QED BY <1>2, <1>3, <1>4

\* Of the keywords that start a statement a clean program loses none.
LEMMA CountStep ==
  ASSUME Types, KindInv, CountInv, NEW t \in Tokens, Parse(t)
  PROVE  CountInv'
<1> USE TokenFacts, RuleFacts DEF Types, CountInv, Doomed, Goto, Fail, Reported, Consume, Keep, IsNumber, Returned
<1>1. CASE parse_statement(t)
  BY <1>1 DEF parse_statement
<1>2. CASE Define(t)
  BY <1>2 DEF Define
<1>3. CASE TypeName(t)
  BY <1>3 DEF TypeName
<1>4. CASE TypeRef(t)
  <2>1. stmt.kind \in {"LOAD", "CONSTRAINT", "GENERATE"}
    BY <1>4 DEF TypeRef, KindInv
  <2>2. [LOAD |-> "load_from", CONSTRAINT |-> "open", GENERATE |-> "with"][stmt.kind]
           \in {"load_from", "open", "with"}
    BY <2>1, NextLabels
  <2> QED BY <1>4, <2>2 DEF TypeRef
<1>5. CASE ColumnName(t)
  BY <1>5 DEF ColumnName
<1>6. CASE ColumnType(t)
  BY <1>6 DEF ColumnType
<1>7. CASE OpenRange(t)
  BY <1>7 DEF OpenRange
<1>8. CASE Sign(t)
  BY <1>8 DEF Sign
<1>9. CASE Number(t)
  BY <1>9 DEF Number, Throw
<1>10. CASE RangeEnd(t)
  BY <1>10 DEF RangeEnd
<1>11. CASE EnumValues(t)
  BY <1>11 DEF EnumValues
<1>12. CASE Modifiers(t)
  BY <1>12 DEF Modifiers
<1>13. CASE AddColumn(t)
  BY <1>13 DEF AddColumn
<1>14. CASE NextColumn(t)
  BY <1>14 DEF NextColumn
<1>15. CASE Item(t)
  BY <1>15 DEF Item
<1>16. CASE Operator(t)
  BY <1>16 DEF Operator
<1>17. CASE Operand(t)
  BY <1>17 DEF Operand
<1>18. CASE OperandSign(t)
  BY <1>18 DEF OperandSign, Throw
<1>19. CASE Items(t)
  BY <1>19 DEF Items
<1>20. CASE Close(t)
  BY <1>20 DEF Close
<1>21. CASE Constraints(t)
  BY <1>21 DEF Constraints
<1>22. CASE Limit(t)
  BY <1>22 DEF Limit, Throw
<1>23. CASE expect(t)
  BY <1>23 DEF expect, Required, Rule
<1>24. CASE expect_ignored(t)
  BY <1>24 DEF expect_ignored, Ignored, Rule
<1>25. CASE Accept(t)
  BY <1>25 DEF Accept
<1>26. CASE Skip(t)
  BY <1>26 DEF Skip
<1>27. CASE ParseReturns(t)
  BY <1>27 DEF ParseReturns
<1> QED
  BY <1>1, <1>2, <1>3, <1>4, <1>5, <1>6, <1>7, <1>8, <1>9, <1>10, <1>11, <1>12, <1>13, <1>14,
     <1>15, <1>16, <1>17, <1>18, <1>19, <1>20, <1>21, <1>22, <1>23, <1>24, <1>25, <1>26, <1>27
     DEF Parse

-----------------------------------------------------------------------------
(***************************************************************************)
(* What a statement took from the input.                                   *)
(***************************************************************************)
\* Collecting a number or a column keeps the rest of the statement.
LEMMA StatementFields ==
  ASSUME NEW s \in Statement, NEW v, NEW b, NEW c
  PROVE  /\ LET r == [s EXCEPT !.reused = b]
            IN r.reused = b /\ r.kind = s.kind /\ r.columns = s.columns /\ r.col = s.col
         /\ LET r == [s EXCEPT !.col.range_min = v]
            IN r.reused = s.reused /\ r.kind = s.kind /\ r.columns = s.columns
                 /\ r.col = [s.col EXCEPT !.range_min = v]
         /\ LET r == [s EXCEPT !.col.range_max = v]
            IN r.reused = s.reused /\ r.kind = s.kind /\ r.columns = s.columns
                 /\ r.col = [s.col EXCEPT !.range_max = v]
         /\ LET r == [s EXCEPT !.columns = c, !.col = NoColumn]
            IN r.reused = s.reused /\ r.kind = s.kind /\ r.columns = c /\ r.col = NoColumn
  BY DEF Statement

\* At the end of the program the parser stays there.
LEMMA AtEnd ==
  ASSUME NEW t \in Tokens, tok \in {t, Unread}, tok = EOF, Consume(t) \/ Keep(t)
  PROVE  t = EOF /\ tok' = EOF
  BY TokenFacts DEF Consume, Keep

\* No statement is accepted that took the last token twice.
LEMMA ReusedStep ==
  ASSUME Types, KindInv, ReusedInv, NEW t \in Looking, Parse(t)
  PROVE  ReusedInv'
<1>0. t \in Tokens /\ tok \in {t, Unread} /\ (Consume(t) \/ Keep(t)) /\ (tok = EOF => t = EOF /\ tok' = EOF)
  BY Position, AtEnd
<1> USE <1>0, TokenFacts, RuleFacts
    DEF Types, ReusedInv, Statement, NoStatement, Goto, Fail, IsNumber, Returned, KindInv, InType,
        InColumn, InConstraint, InNumber, InLoad, InGenerate, Between
<1>1. CASE parse_statement(t)
  BY <1>1 DEF parse_statement
<1>2. CASE Define(t)
  BY <1>2, SMTT(40) DEF Define
<1>3. CASE TypeName(t)
  BY <1>3 DEF TypeName
<1>4. CASE TypeRef(t)
  BY <1>4 DEF TypeRef
<1>5. CASE ColumnName(t)
  BY <1>5, SMTT(40) DEF ColumnName
<1>6. CASE ColumnType(t)
  BY <1>6 DEF ColumnType
<1>7. CASE OpenRange(t)
  BY <1>7 DEF OpenRange
<1>8. CASE Sign(t)
  BY <1>8 DEF Sign
<1>9. CASE Number(t)
  <2> DEFINE n == Returned(t)
             value == stmt.sign * n.lexeme
             read == [stmt EXCEPT !.reused = @ \/ t = EOF]
  <2>1. read \in Statement /\ read.reused = (stmt.reused \/ t = EOF) /\ read.kind = stmt.kind
    <3>1. stmt \in Statement /\ (stmt.reused \/ t = EOF) \in BOOLEAN
      OBVIOUS
    <3>2. read \in Statement
      BY ONLY <3>1, StatementUpdates, ZenonT(60)
    <3>3. read.reused = (stmt.reused \/ t = EOF)
      BY ONLY <3>1 DEF Statement
    <3>4. read.kind = stmt.kind
      BY ONLY <3>1 DEF Statement
    <3> QED BY ONLY <3>2, <3>3, <3>4
  <2>2. /\ statements' = statements /\ Consume(t) /\ pc \in {"min", "max"}
        /\ pc' \in {"skip", "thrown", "and", "items", "COMMA", "RBRACKET"}
        /\ \/ stmt' = NoStatement
           \/ stmt' = read
           \/ stmt' = [read EXCEPT !.col.range_min = value]
           \/ stmt' = [read EXCEPT !.col.range_max = value]
    BY <1>9 DEF Number, Throw
  <2> HIDE DEF n, value, read, Statement
  <2>3. stmt'.reused => (stmt.reused \/ t = EOF) /\ stmt'.kind = stmt.kind
    <3>1. ~NoStatement.reused
      BY DEF NoStatement
    <3>2. /\ [read EXCEPT !.col.range_min = value].reused = read.reused
          /\ [read EXCEPT !.col.range_min = value].kind = read.kind
          /\ [read EXCEPT !.col.range_max = value].reused = read.reused
          /\ [read EXCEPT !.col.range_max = value].kind = read.kind
      BY ONLY <2>1, StatementFields
    <3> QED BY ONLY <2>1, <2>2, <3>1, <3>2
  <2>4. t = EOF => tok' = EOF
    BY <2>2 DEF Consume
  <2> QED BY <2>2, <2>3, <2>4
<1>10. CASE RangeEnd(t)
  BY <1>10 DEF RangeEnd
<1>11. CASE EnumValues(t)
  BY <1>11 DEF EnumValues
<1>12. CASE Modifiers(t)
  BY <1>12 DEF Modifiers
<1>13. CASE AddColumn(t)
  <2>1. /\ statements' = statements /\ pc = "columns" /\ pc' \in {"skip", "next_column", "RBRACE"}
        /\ \/ stmt' = NoStatement
           \/ stmt' = [stmt EXCEPT !.columns = Append(@, stmt.col), !.col = NoColumn]
    BY <1>13 DEF AddColumn
  <2>2. stmt'.reused => stmt.reused /\ stmt'.kind = stmt.kind
    <3>1. ~NoStatement.reused /\ stmt \in Statement
      OBVIOUS
    <3> QED BY ONLY <2>1, <3>1, StatementFields, ZenonT(120)
  <2> HIDE DEF Statement, NoStatement
  <2> QED BY <2>1, <2>2
<1>14. CASE NextColumn(t)
  BY <1>14 DEF NextColumn
<1>15. CASE Item(t)
  BY <1>15 DEF Item
<1>16. CASE Operator(t)
  BY <1>16 DEF Operator
<1>17. CASE Operand(t)
  <2>1. /\ statements' = statements /\ Consume(t) /\ pc = "operand" /\ pc' = "operand_sign"
        /\ stmt' = [stmt EXCEPT !.number = Returned(t), !.reused = @ \/ t = EOF]
    BY <1>17 DEF Operand
  <2>2. stmt'.reused = (stmt.reused \/ t = EOF) /\ stmt'.kind = stmt.kind
    <3>1. stmt \in Statement
      OBVIOUS
    <3> QED BY ONLY <2>1, <3>1 DEF Statement
  <2>3. t = EOF => tok' = EOF
    BY <2>1 DEF Consume
  <2> HIDE DEF Statement, NoStatement
  <2> QED BY <2>1, <2>2, <2>3
<1>18. CASE OperandSign(t)
  BY <1>18 DEF OperandSign, Throw
<1>19. CASE Items(t)
  BY <1>19 DEF Items
<1>20. CASE Close(t)
  BY <1>20 DEF Close
<1>21. CASE Constraints(t)
  BY <1>21 DEF Constraints
<1>22. CASE Limit(t)
  BY <1>22 DEF Limit, Throw
<1>23. CASE expect(t)
  <2>1. PICK r \in Required :
           /\ pc = r.at
           /\ \/ t.type = r.want /\ Consume(t) /\ pc' = r.to /\ stmt' = stmt
              \/ pc' = "skip" /\ stmt' = NoStatement
           /\ statements' = statements
    BY <1>23 DEF expect
  <2>2. CASE pc' = "skip" /\ stmt' = NoStatement
    BY <2>1, <2>2
  <2>3. CASE t.type = r.want /\ Consume(t) /\ pc' = r.to /\ stmt' = stmt
    <3>1. r.to = "SEMICOLON" => ~stmt.reused
      BY <2>1, <2>3
    <3>2. r.to = "limit" => ~IsNumber(previous')
      BY <2>1, <2>3 DEF Consume
    <3>3. r.to # "limit_value"
      BY <2>1
    <3> HIDE DEF Statement, NoStatement
    <3> QED BY <2>1, <2>3, <3>1, <3>2, <3>3
  <2> QED BY <2>1, <2>2, <2>3
<1>24. CASE expect_ignored(t)
  <2>1. PICK r \in Ignored :
           /\ pc = r.at /\ pc' = r.to /\ stmt' = stmt /\ statements' = statements
           /\ (t.type = r.want /\ Consume(t)) \/ Keep(t)
    BY <1>24 DEF expect_ignored
  <2>2. r.to # "SEMICOLON" /\ r.to # "limit"
    BY <2>1
  <2>3. r.to = "limit_value" => ~IsNumber(previous')
    BY <2>1 DEF Consume, Keep
  <2> HIDE DEF Statement, NoStatement
  <2> QED BY <2>1, <2>2, <2>3
<1>25. CASE Accept(t)
  BY <1>25 DEF Accept
<1>26. CASE Skip(t)
  BY <1>26 DEF Skip
<1>27. CASE ParseReturns(t)
  BY <1>27 DEF ParseReturns
<1> QED
  BY <1>1, <1>2, <1>3, <1>4, <1>5, <1>6, <1>7, <1>8, <1>9, <1>10, <1>11, <1>12, <1>13, <1>14,
     <1>15, <1>16, <1>17, <1>18, <1>19, <1>20, <1>21, <1>22, <1>23, <1>24, <1>25, <1>26, <1>27
     DEF Parse

\* The columns of a statement are the ones SchemaBuilder takes.
LEMMA ColumnStep ==
  ASSUME Types, KindInv, ColumnInv, NEW t \in Tokens, Parse(t)
  PROVE  ColumnInv'
<1> USE TokenFacts, RuleFacts DEF Types, ColumnInv, NoStatement, Goto, Fail, KindInv, InType,
        InColumn, InConstraint, InNumber, InLoad, InGenerate, Between
<1>1. CASE parse_statement(t)
  BY <1>1 DEF parse_statement
<1>2. CASE Define(t)
  <2>1. Left \/ (stmt'.columns = stmt.columns /\ pc' \in {"type_name", "constraint"})
    BY <1>2 DEF Define, Left, Statement
  <2> QED BY <2>1 DEF Left
<1>3. CASE TypeName(t)
  <2>1. Left \/ (stmt'.columns = stmt.columns /\ pc' = "LBRACE")
    BY <1>3 DEF TypeName, Left, Statement
  <2> QED BY <2>1 DEF Left
<1>4. CASE TypeRef(t)
  <2>1. stmt.kind \in {"LOAD", "CONSTRAINT", "GENERATE"}
    BY <1>4 DEF TypeRef
  <2>2. Left \/ (stmt'.columns = stmt.columns /\ pc' \in {"load_from", "open", "with"})
    BY <1>4, <2>1, NextLabels DEF TypeRef, Left, Statement
  <2> QED BY <2>2 DEF Left
<1>5. CASE ColumnName(t)
  <2>1. Left \/ (/\ stmt'.columns = stmt.columns /\ pc' = "COLON" /\ t.lexeme \in Names
                 /\ stmt'.col = [NoColumn EXCEPT !.name = t.lexeme])
    BY <1>5 DEF ColumnName, Left, Statement
  <2>2. /\ [NoColumn EXCEPT !.name = t.lexeme].name = t.lexeme
        /\ RangeOK([NoColumn EXCEPT !.name = t.lexeme])
    BY DEF NoColumn, RangeOK
  <2>3. CASE Left
    BY <2>3 DEF Left
  <2>4. CASE ~Left
    <3>1. stmt'.col.name \in Names /\ RangeOK(stmt'.col)
      BY ONLY <2>1, <2>2, <2>4
    <3> QED BY <2>1, <2>4, <3>1
  <2> QED BY <2>3, <2>4
<1>6. CASE ColumnType(t)
  BY <1>6 DEF ColumnType
<1>7. CASE OpenRange(t)
  BY <1>7 DEF OpenRange
<1>8. CASE Sign(t)
  BY <1>8 DEF Sign
<1>9. CASE Number(t)
  <2> DEFINE n == Returned(t)
             value == stmt.sign * n.lexeme
             read == [stmt EXCEPT !.reused = @ \/ t = EOF]
  <2>1. /\ read \in Statement /\ read.kind = stmt.kind /\ read.columns = stmt.columns
        /\ read.col = stmt.col /\ stmt.col \in ColumnPart
    <3>1. stmt \in Statement /\ (stmt.reused \/ t = EOF) \in BOOLEAN
      BY DEF Statement
    <3>2. read \in Statement
      BY ONLY <3>1, StatementUpdates
    <3>3. read.kind = stmt.kind /\ read.columns = stmt.columns /\ read.col = stmt.col
      BY ONLY <3>1 DEF Statement
    <3> QED BY <3>2, <3>3 DEF Statement
  <2>2. IsNumber(n) => value \in Int
    BY DEF Returned, Statement
  <2> HIDE DEF n, value, read
  <2>3. /\ pc \in {"min", "max"}
        /\ \/ Left
           \/ pc' \in {"and", "items"} /\ stmt' = read /\ stmt.kind = "CONSTRAINT"
           \/ IsNumber(n) /\ pc' = "COMMA" /\ stmt' = [read EXCEPT !.col.range_min = value]
           \/ /\ IsNumber(n) /\ pc = "max" /\ pc' = "RBRACKET" /\ stmt.kind # "CONSTRAINT"
              /\ stmt' = [read EXCEPT !.col.range_max = value]
    BY <1>9 DEF Number, Throw, Left, n, value, read
  <2>4. CASE Left
    BY <2>4 DEF Left
  <2>5. CASE pc' \in {"and", "items"} /\ stmt' = read /\ stmt.kind = "CONSTRAINT"
    BY <2>1, <2>5
  <2>6. CASE IsNumber(n) /\ pc' = "COMMA" /\ stmt' = [read EXCEPT !.col.range_min = value]
    <3>1. /\ stmt'.kind = stmt.kind /\ stmt'.columns = stmt.columns
          /\ stmt'.col = [stmt.col EXCEPT !.range_min = value]
      BY ONLY <2>1, <2>6, StatementFields
    <3>2. stmt'.col.name = stmt.col.name /\ stmt'.col.range_min = value
      BY ONLY <2>1, <3>1 DEF ColumnPart
    <3> QED BY <2>2, <2>3, <2>6, <3>1, <3>2
  <2>7. CASE /\ IsNumber(n) /\ pc = "max" /\ pc' = "RBRACKET" /\ stmt.kind # "CONSTRAINT"
             /\ stmt' = [read EXCEPT !.col.range_max = value]
    <3>1. /\ stmt'.kind = stmt.kind /\ stmt'.columns = stmt.columns
          /\ stmt'.col = [stmt.col EXCEPT !.range_max = value]
      BY ONLY <2>1, <2>7, StatementFields
    <3>2. /\ stmt'.col.name = stmt.col.name /\ stmt'.col.range_max = value
          /\ stmt'.col.range_min = stmt.col.range_min
      BY ONLY <2>1, <3>1 DEF ColumnPart
    <3>3. stmt.kind = "TYPE"
      BY <2>7
    <3> QED BY <2>2, <2>7, <3>1, <3>2, <3>3
  <2> QED BY <2>3, <2>4, <2>5, <2>6, <2>7
<1>10. CASE RangeEnd(t)
  <2>1. Left \/ (/\ stmt' = stmt /\ pc' = "modifiers" /\ pc = "RBRACKET"
                 /\ ~(stmt.col.range_min >= stmt.col.range_max))
    BY <1>10 DEF RangeEnd, Left
  <2> QED BY <2>1 DEF Left, RangeOK
<1>11. CASE EnumValues(t)
  BY <1>11 DEF EnumValues
<1>12. CASE Modifiers(t)
  BY <1>12 DEF Modifiers
<1>13. CASE AddColumn(t)
  <2> DEFINE cs == Append(stmt.columns, stmt.col)
  <2>1. /\ stmt.columns \in Seq(Column) /\ pc = "columns"
        /\ stmt.col.name \in Names /\ RangeOK(stmt.col) /\ stmt.kind = "TYPE"
    BY <1>13 DEF AddColumn, Statement
  <2>2. \/ Left
        \/ /\ \A i \in DOMAIN stmt.columns : stmt.columns[i].name # stmt.col.name
           /\ stmt' = [stmt EXCEPT !.columns = cs, !.col = NoColumn]
           /\ pc' \in {"next_column", "RBRACE"}
    BY <1>13 DEF AddColumn, Left
  <2>3. CASE Left
    BY <2>3 DEF Left
  <2>4. CASE /\ \A i \in DOMAIN stmt.columns : stmt.columns[i].name # stmt.col.name
             /\ stmt' = [stmt EXCEPT !.columns = cs, !.col = NoColumn]
             /\ pc' \in {"next_column", "RBRACE"}
    <3>1. stmt'.kind = stmt.kind /\ stmt'.columns = cs
      BY <2>4 DEF Statement
    <3>2. /\ DOMAIN cs = 1..(Len(stmt.columns) + 1) /\ DOMAIN stmt.columns = 1..Len(stmt.columns)
          /\ Len(stmt.columns) \in Nat /\ cs # <<>>
          /\ \A i \in DOMAIN stmt.columns : cs[i] = stmt.columns[i]
          /\ cs[Len(stmt.columns) + 1] = stmt.col
      BY ONLY <2>1
    <3> HIDE DEF cs
    <3>3. \A i \in DOMAIN cs : RangeOK(cs[i])
      BY <2>1, <3>2
    <3>4. \A i, j \in DOMAIN cs : cs[i].name = cs[j].name => i = j
      <4> SUFFICES ASSUME NEW i \in DOMAIN cs, NEW j \in DOMAIN cs, cs[i].name = cs[j].name
                   PROVE  i = j
        OBVIOUS
      <4>1. CASE i \in DOMAIN stmt.columns /\ j \in DOMAIN stmt.columns
        BY <3>2, <4>1
      <4>2. CASE i \notin DOMAIN stmt.columns
        <5>1. i = Len(stmt.columns) + 1 /\ cs[i] = stmt.col
          BY ONLY <3>2, <4>2, i \in DOMAIN cs
        <5>2. j \notin DOMAIN stmt.columns
          BY <2>4, <3>2, <5>1
        <5> QED BY ONLY <3>2, <5>1, <5>2, j \in DOMAIN cs
      <4>3. CASE j \notin DOMAIN stmt.columns
        <5>1. j = Len(stmt.columns) + 1 /\ cs[j] = stmt.col
          BY ONLY <3>2, <4>3, j \in DOMAIN cs
        <5>2. i \notin DOMAIN stmt.columns
          BY <2>4, <3>2, <5>1
        <5> QED BY ONLY <3>2, <5>1, <5>2, i \in DOMAIN cs
      <4> QED BY <4>1, <4>2, <4>3
    <3> QED BY <2>4, <3>1, <3>2, <3>3, <3>4
  <2> QED BY <2>2, <2>3, <2>4
<1>14. CASE NextColumn(t)
  BY <1>14 DEF NextColumn
<1>15. CASE Item(t)
  BY <1>15 DEF Item
<1>16. CASE Operator(t)
  BY <1>16 DEF Operator
<1>17. CASE Operand(t)
  BY <1>17 DEF Operand
<1>18. CASE OperandSign(t)
  <2>1. Left \/ (stmt'.columns = stmt.columns /\ pc' = "items")
    BY <1>18 DEF OperandSign, Throw, Left, Statement
  <2> QED BY <2>1 DEF Left
<1>19. CASE Items(t)
  BY <1>19 DEF Items
<1>20. CASE Close(t)
  BY <1>20 DEF Close
<1>21. CASE Constraints(t)
  BY <1>21 DEF Constraints
<1>22. CASE Limit(t)
  <2>1. pc = "limit_value" /\ (Left \/ (/\ stmt'.columns = stmt.columns /\ stmt'.kind = stmt.kind
                                     /\ pc' = "SEMICOLON"))
    BY <1>22 DEF Limit, Throw, Left, Statement
  <2> QED BY <2>1 DEF Left
<1>23. CASE expect(t)
  BY <1>23 DEF expect, Required, Rule
<1>24. CASE expect_ignored(t)
  BY <1>24 DEF expect_ignored, Ignored, Rule
<1>25. CASE Accept(t)
  BY <1>25 DEF Accept
<1>26. CASE Skip(t)
  BY <1>26 DEF Skip
<1>27. CASE ParseReturns(t)
  BY <1>27 DEF ParseReturns
<1> QED
  BY <1>1, <1>2, <1>3, <1>4, <1>5, <1>6, <1>7, <1>8, <1>9, <1>10, <1>11, <1>12, <1>13, <1>14,
     <1>15, <1>16, <1>17, <1>18, <1>19, <1>20, <1>21, <1>22, <1>23, <1>24, <1>25, <1>26, <1>27
     DEF Parse

-----------------------------------------------------------------------------
(***************************************************************************)
(* Which types a program knows.                                            *)
(***************************************************************************)
\* A step that ends the program with an error, and one that goes on in the
\* statement or stays outside of it.
Stopped == errors' # {} \/ pc' = "thrown"
Onward ==
    /\ UNCHANGED <<defined_types, errors, statements>>
    /\ Named(pc) <=> Named(pc')
    /\ Named(pc) => Same

LEMMA DefinedOnward ==
  ASSUME DefinedInv, pc # "thrown", Stopped \/ Onward
  PROVE  DefinedInv'
<1>1. CASE Stopped
  BY <1>1 DEF Stopped, DefinedInv
<1>2. CASE Onward
  BY <1>2 DEF Onward, Same, DefinedInv, DefinedBy
<1> QED BY <1>1, <1>2

\* Most steps do.
LEMMA Onwards ==
  ASSUME Types, KindInv, NEW t \in Tokens, Parse(t)
  PROVE  Stopped \/ Onward \/ TypeName(t) \/ TypeRef(t) \/ Accept(t)
<1> USE TokenFacts, RuleFacts DEF Types, Stopped, Onward, Same, Goto, Fail, Named, InType,
        InColumn, InConstraint, InNumber, InLoad, InGenerate
<1>1. CASE parse_statement(t)
  <2>1. /\ pc = "top"
        /\ Stopped \/ (/\ UNCHANGED <<defined_types, errors, statements>>
                       /\ pc' \in {"define", "data", "table"})
    BY <1>1, SMTT(60) DEF parse_statement
  <2> QED BY <2>1
<1>2. CASE Define(t)
  BY <1>2 DEF Define
<1>3. CASE TypeName(t)
  BY <1>3
<1>4. CASE TypeRef(t)
  BY <1>4
<1>5. CASE ColumnName(t)
  <2>1. /\ pc = "column"
        /\ Stopped \/ (Same /\ UNCHANGED <<defined_types, errors, statements>> /\ pc' = "COLON")
    BY <1>5, TokenFacts DEF ColumnName, Types, Statement, Goto, Fail, Same, Stopped
  <2> QED BY <2>1
<1>6. CASE ColumnType(t)
  BY <1>6, SMTT(60) DEF ColumnType
<1>7. CASE OpenRange(t)
  BY <1>7 DEF OpenRange
<1>8. CASE Sign(t)
  BY <1>8 DEF Sign
<1>9. CASE Number(t)
  <2>1. /\ pc \in {"min", "max"}
        /\ Stopped \/ (Same /\ UNCHANGED <<defined_types, errors, statements>> /\ pc' \in {"and", "items", "COMMA", "RBRACKET"})
    BY <1>9, TokenFacts DEF Number, Throw, Types, Statement, Goto, Fail, Same, Stopped
  <2> QED BY <2>1
<1>10. CASE RangeEnd(t)
  BY <1>10 DEF RangeEnd
<1>11. CASE EnumValues(t)
  BY <1>11 DEF EnumValues
<1>12. CASE Modifiers(t)
  BY <1>12 DEF Modifiers
<1>13. CASE AddColumn(t)
  <2>1. /\ pc = "columns"
        /\ Stopped \/ (Same /\ UNCHANGED <<defined_types, errors, statements>> /\ pc' \in {"next_column", "RBRACE"})
    BY <1>13, TokenFacts DEF AddColumn, Types, Statement, Goto, Fail, Same, Stopped
  <2> QED BY <2>1
<1>14. CASE NextColumn(t)
  BY <1>14 DEF NextColumn
<1>15. CASE Item(t)
  BY <1>15 DEF Item
<1>16. CASE Operator(t)
  BY <1>16 DEF Operator
<1>17. CASE Operand(t)
  BY <1>17 DEF Operand
<1>18. CASE OperandSign(t)
  <2>1. /\ pc = "operand_sign"
        /\ Stopped \/ (Same /\ UNCHANGED <<defined_types, errors, statements>> /\ pc' = "items")
    BY <1>18, TokenFacts DEF OperandSign, Throw, Types, Statement, Goto, Fail, Same, Stopped
  <2> QED BY <2>1
<1>19. CASE Items(t)
  BY <1>19 DEF Items
<1>20. CASE Close(t)
  BY <1>20 DEF Close
<1>21. CASE Constraints(t)
  BY <1>21 DEF Constraints
<1>22. CASE Limit(t)
  <2>1. /\ pc = "limit_value"
        /\ Stopped \/ (Same /\ UNCHANGED <<defined_types, errors, statements>> /\ pc' = "SEMICOLON")
    BY <1>22, TokenFacts DEF Limit, Throw, Types, Statement, Goto, Fail, Same, Stopped
  <2> QED BY <2>1
<1>23. CASE expect(t)
  BY <1>23 DEF expect, Required, Rule
<1>24. CASE expect_ignored(t)
  BY <1>24 DEF expect_ignored, Ignored, Rule
<1>25. CASE Accept(t)
  BY <1>25
<1>26. CASE Skip(t)
  BY <1>26 DEF Skip
<1>27. CASE ParseReturns(t)
  BY <1>27 DEF ParseReturns
<1> QED
  BY <1>1, <1>2, <1>3, <1>4, <1>5, <1>6, <1>7, <1>8, <1>9, <1>10, <1>11, <1>12, <1>13, <1>14,
     <1>15, <1>16, <1>17, <1>18, <1>19, <1>20, <1>21, <1>22, <1>23, <1>24, <1>25, <1>26, <1>27
     DEF Parse

\* In a program without errors every type referred to is one defined before.
LEMMA DefinedStep ==
  ASSUME Types, KindInv, DefinedInv, NEW t \in Tokens, Parse(t)
  PROVE  DefinedInv'
<1>0. pc # "thrown"
  BY Outside DEF Between
<1>1. CASE Stopped \/ Onward
  BY <1>0, <1>1, DefinedOnward
<1>2. CASE TypeName(t) /\ ~Stopped
  <2>1. /\ pc = "type_name" /\ stmt.kind = "TYPE" /\ pc' = "LBRACE"
        /\ stmt'.kind = "TYPE" /\ stmt'.type = t.lexeme
        /\ defined_types' = defined_types \union {t.lexeme}
        /\ UNCHANGED <<errors, statements>>
    BY <1>2 DEF TypeName, Stopped, Fail, KindInv, Types, Statement
  <2>2. ~Named(pc) /\ Named(pc')
    BY <2>1 DEF Named, InType, InColumn, InConstraint, InNumber, InLoad, InGenerate
  <2> QED BY <1>0, <2>1, <2>2 DEF DefinedInv, DefinedBy
<1>3. CASE TypeRef(t) /\ ~Stopped
  <2>1. /\ pc = "type_ref" /\ stmt.kind \in {"LOAD", "CONSTRAINT", "GENERATE"}
        /\ stmt'.kind = stmt.kind /\ stmt'.type = t.lexeme /\ t.lexeme \in defined_types
        /\ UNCHANGED <<defined_types, errors, statements>>
    BY <1>3 DEF TypeRef, Stopped, Fail, Goto, KindInv, Types, Statement
  <2>2. ~Named(pc)
    BY <2>1 DEF Named, InType, InColumn, InConstraint, InNumber, InLoad, InGenerate
  <2> QED BY <1>0, <2>1, <2>2 DEF DefinedInv, DefinedBy
<1>4. CASE Accept(t) /\ ~Stopped
  <2> DEFINE a == [kind |-> stmt.kind, type |-> stmt.type, reused |-> stmt.reused]
             by(m, k) == \E j \in 1..k : statements'[j].kind = "TYPE" /\ statements'[j].type = m
  <2>0. PICK n \in Nat : n = Len(statements)
    BY DEF Types
  <2>1. /\ statements' = Append(statements, a) /\ pc = "SEMICOLON" /\ pc' = "top"
        /\ UNCHANGED <<defined_types, errors>> /\ a.kind = stmt.kind /\ a.type = stmt.type
    BY <1>4 DEF Accept
  <2> HIDE DEF a
  <2>2. /\ Named(pc) /\ ~Named(pc')
    BY <2>1 DEF Named, InType, InColumn, InConstraint, InNumber, InLoad, InGenerate
  <2>3. /\ DOMAIN statements = 1..n /\ DOMAIN statements' = 1..(n + 1) /\ Len(statements') = n + 1
        /\ \A j \in 1..n : statements'[j] = statements[j]
        /\ statements'[n + 1] = a
    BY ONLY <2>0, <2>1, Types DEF Types
  <2>4. SUFFICES ASSUME errors = {} PROVE DefinedInv'
    BY <2>1 DEF DefinedInv
  <2>5. ASSUME NEW m, NEW k \in 0..n, DefinedBy(m, k)
        PROVE  by(m, k)
    BY <2>3, <2>5 DEF DefinedBy
  <2>6. ASSUME NEW m \in defined_types
        PROVE  by(m, n + 1)
    <3>1. CASE DefinedBy(m, n)
      BY <2>3, <3>1 DEF DefinedBy
    <3>2. CASE a.kind = "TYPE" /\ a.type = m
      BY <2>3, <3>2 DEF DefinedBy
    <3> QED BY <1>0, <2>1, <2>4, <3>1, <3>2, <2>0 DEF DefinedInv
  <2>7. ASSUME NEW i \in 1..(n + 1), statements'[i].kind # "TYPE"
        PROVE  by(statements'[i].type, i - 1)
    <3>1. CASE i \in 1..n
      <4>1. DefinedBy(statements[i].type, i - 1)
        BY <1>0, <2>3, <2>4, <2>7, <3>1 DEF DefinedInv
      <4>2. by(statements[i].type, i - 1)
        BY <2>3, <2>5, <3>1, <4>1
      <4> QED BY <2>3, <3>1, <4>2
    <3>2. CASE i = n + 1
      <4>1. stmt.type \in defined_types /\ stmt.kind # "TYPE"
        BY <1>0, <2>1, <2>2, <2>3, <2>4, <2>7, <3>2 DEF DefinedInv
      <4>2. DefinedBy(stmt.type, n)
        BY <1>0, <2>4, <4>1, <2>0 DEF DefinedInv
      <4> QED BY <2>1, <2>3, <3>2, <4>2 DEF DefinedBy
    <3> QED BY <2>3, <3>1, <3>2
  <2> QED BY <1>0, <2>1, <2>2, <2>3, <2>6, <2>7 DEF DefinedInv, DefinedBy
<1> QED BY <1>1, <1>2, <1>3, <1>4, Onwards

-----------------------------------------------------------------------------
(***************************************************************************)
(* IInv is inductive.                                                      *)
(***************************************************************************)
LEMMA InitOK == Init => IInv
<1> SUFFICES ASSUME Init PROVE IInv
  OBVIOUS
<1>1. pc = "top" /\ stmt = NoStatement /\ statements = <<>> /\ starts = 0 /\ consumed = TRUE
  BY DEF Init
<1>2. NoStatement.columns = <<>> /\ NoStatement.reused = FALSE
  BY DEF NoStatement
<1>3. Types
  BY <1>1, TokenFacts, StatementUpdates DEF Init, Types
<1>4. KindInv /\ NameInv /\ ConsumeInv /\ CountInv /\ ReusedInv
  BY <1>1, <1>2 DEF KindInv, NameInv, Named, ConsumeInv, CountInv, ReusedInv, InType, InColumn,
       InConstraint, InNumber, InLoad, InGenerate, Between
<1>5. ColumnInv
  BY <1>1, <1>2 DEF ColumnInv, InColumn, InNumber
<1>6. DefinedInv
  BY <1>1 DEF Init, DefinedInv, Named, InType, InColumn, InConstraint, InNumber, InLoad, InGenerate
<1> QED BY <1>3, <1>4, <1>5, <1>6 DEF IInv

LEMMA TypesStep ==
  ASSUME IInv, NEW t \in Looking, Parse(t)
  PROVE  Types'
<1>1. t \in Tokens /\ (Consume(t) \/ Keep(t))
  BY Position DEF IInv
<1>2. StatementTypes'
  BY <1>1, StatementStep DEF IInv
<1>3. tok' \in Tokens \union {Unread} /\ previous' \in Tokens /\ starts' \in Nat
  BY <1>1, TokenFacts DEF IInv, Types, Consume, Keep
<1>4. consumed' \in BOOLEAN
  BY <1>1 DEF IInv, Types, Consume, Keep
<1> QED BY <1>2, <1>3, <1>4 DEF Types, StatementTypes

LEMMA Inductive == IInv /\ [Next]_vars => IInv'
<1> SUFFICES ASSUME IInv, [Next]_vars PROVE IInv'
  OBVIOUS
<1>1. CASE Step
  <2>1. PICK t \in Looking : Parse(t)
    BY <1>1 DEF Step
  <2>2. t \in Tokens
    BY <2>1, Position DEF IInv
  <2>3. Types' /\ ConsumeInv' /\ ReusedInv'
    BY <2>1, TypesStep, ConsumeStep, ReusedStep DEF IInv
  <2>4. KindInv' /\ NameInv' /\ ColumnInv' /\ CountInv' /\ DefinedInv'
    BY <2>1, <2>2, KindStep, ColumnStep, CountStep, DefinedStep DEF IInv
  <2> QED BY <2>3, <2>4 DEF IInv
<1>2. CASE ParseAgain
  <2>1. Init'
    BY <1>2 DEF ParseAgain, Init
  <2> QED BY <2>1, InitOK, PTL
<1>3. CASE LexerRefuses
  <2>1. /\ pc \in {"done", "thrown"} /\ pc' = "done" /\ errors' = {"kSyntaxError"} /\ statements' = <<>>
        /\ UNCHANGED <<tok, previous, stmt, starts, consumed>>
    BY <1>3 DEF LexerRefuses, Ended
  <2>2. stmt = NoStatement /\ NoStatement.columns = <<>> /\ NoStatement.reused = FALSE
    BY <2>1 DEF IInv, KindInv, Between, NoStatement
  <2>3. Types'
    BY <2>1 DEF IInv, Types
  <2>4. KindInv' /\ NameInv' /\ ConsumeInv' /\ CountInv' /\ ReusedInv' /\ DefinedInv'
    BY <2>1, <2>2 DEF KindInv, NameInv, Named, ConsumeInv, CountInv, ReusedInv, DefinedInv, InType,
         InColumn, InConstraint, InNumber, InLoad, InGenerate, Between
  <2>5. ColumnInv'
    BY <2>1, <2>2 DEF ColumnInv, InColumn, InNumber
  <2> QED BY <2>3, <2>4, <2>5 DEF IInv
<1>4. CASE UNCHANGED vars
  BY <1>4 DEF vars, IInv, Types, KindInv, NameInv, ConsumeInv, ColumnInv, CountInv, Doomed,
       ReusedInv, DefinedInv, DefinedBy
<1> QED BY <1>1, <1>2, <1>3, <1>4 DEF Next

\* The invariant of the parser, on a fresh object or a reused one, for every
\* sequence of tokens.
THEOREM Invariance == Spec => []IInv
<1> QED BY InitOK, Inductive, PTL DEF Spec

\* Every value parse() keeps between two tokens has its type: a number is
\* computed from a token that is one, and an accepted statement has a kind and
\* the name of a type.
THEOREM TypeCorrect == Spec => []Types
<1>1. IInv => Types
  BY DEF IInv
<1> QED BY <1>1, Invariance, PTL

\* A program that parse() returns without an error has lost no statement and
\* took no token twice, whatever its length.
THEOREM Whole == Spec => []CleanProgramsWhole
<1>1. IInv => CleanProgramsWhole
  BY DEF IInv, Types, CountInv, Doomed, ReusedInv, CleanProgramsWhole
<1> QED BY <1>1, Invariance, PTL

\* In a program that parse() returns without an error every type referred to is
\* one that an earlier statement of it defines, also on a Parser that was used
\* before.
THEOREM Resolve == Spec => []CleanProgramsResolve
<1>1. IInv => CleanProgramsResolve
  BY DEF IInv, DefinedInv, DefinedBy, CleanProgramsResolve
<1> QED BY <1>1, Invariance, PTL

\* Every DEFINE TYPE that reaches its ';' passes Schema::validate: it has
\* columns, their names differ and their ranges are not empty.
THEOREM AcceptedBuild == Spec => []AcceptedTypesBuild
<1>1. IInv => AcceptedTypesBuild
  <2> SUFFICES ASSUME IInv, pc = "SEMICOLON", stmt.kind = "TYPE" PROVE validate(stmt)
    BY DEF AcceptedTypesBuild
  <2>1. stmt.type \in Names
    BY DEF IInv, NameInv, Named
  <2>2. stmt.columns # <<>> /\ \A i \in DOMAIN stmt.columns : RangeOK(stmt.columns[i])
    BY DEF IInv, ColumnInv
  <2>3. \A i, j \in DOMAIN stmt.columns : stmt.columns[i].name = stmt.columns[j].name => i = j
    BY DEF IInv, ColumnInv
  <2> QED BY <2>1, <2>2, <2>3 DEF validate, RangeOK
<1> QED BY <1>1, Invariance, PTL

\* Every pass of the loop of parse() consumes a token, so that its error
\* recovery cannot stay at one.
THEOREM PassesConsume == Spec => []EveryPassConsumes
<1>1. IInv => EveryPassConsumes
  BY DEF IInv, ConsumeInv, EveryPassConsumes
<1> QED BY <1>1, Invariance, PTL
=============================================================================
