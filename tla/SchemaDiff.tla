------------------------------ MODULE SchemaDiff ------------------------------
(***************************************************************************)
(* What the files of a database/ folder declare (parser.py), restricted by *)
(* area and schema (areas.py, schemas.py), what a database holds           *)
(* (introspect.py, mssql_introspect.py), and how the two are compared      *)
(* (diff.py).  Objects are keyed by <<type, schema, name>>; an index has   *)
(* no schema in its key.  SQL text is what it means and how it is spelled; *)
(* sqlglot's spelling of a text need not be the one the catalog reports.   *)
(***************************************************************************)
EXTENDS Naturals, Sequences, SequencesExt

CONSTANTS
  PathOrder,    \* the paths files can have, as sorted() orders them
  Canon,        \* type_synonyms: the catalog's name of a type as scripts spell it
  Rendered,     \* sqlglot: a spelling -> the one it writes after parsing that
  SystemSchema, \* schemas that are no project's
  LongReturn    \* return types of more than one word

Postgres == "postgres"
MSSQL == "mssql"
Dialect == {Postgres, MSSQL}

TypeOf(key) == key[1]
SchemaOf(key) == key[2]

\* A dict with one more entry, and one updated with another.
With(f, x, v) == [y \in DOMAIN f \cup {x} |-> IF y = x THEN v ELSE f[y]]
Over(f, g) == [x \in DOMAIN f \cup DOMAIN g |-> IF x \in DOMAIN f THEN f[x] ELSE g[x]]
Render(def) == [def EXCEPT !.spelled = Rendered[def.spelled]]
ASSUME PathAssumption == PathOrder \in Seq(Range(PathOrder))
-----------------------------------------------------------------------------
(* Filters.  A file is its lines, its statements, the schemas these refer to  *)
(* otherwise, and the types that DO blocks create; a filter is the values of  *)
(* the four options.                                                          *)

\* Areas are declared above the first line that is neither blank nor a comment.
ParseAreas(lines) ==
  UNION {lines[i].areas : i \in {j \in DOMAIN lines :
    lines[j].kind = "area" /\ \A k \in 1..(j - 1) : lines[k].kind # "code"}}

\* The schemas of what the statements create and refer to; without one, whatever
\* looks like a.b in the text.
SqlSchemas(file) ==
  LET Of(s) == IF TypeOf(s.key) = "index" THEN s.def.schema ELSE SchemaOf(s.key)
      named == ({Of(file.stmts[i]) : i \in DOMAIN file.stmts} \cup file.refs) \ SystemSchema
      text == {SchemaOf(s.key) : s \in file.block} \ SystemSchema
  IN IF named = {} THEN text ELSE named

Allowed(tags, only, exclude) ==
  /\ tags \cap exclude = {}
  /\ only # {} /\ tags # {} => tags \cap only # {}

InScope(file, filter) ==
  /\ Allowed(ParseAreas(file.lines), filter.areas, filter.excludeAreas)
  /\ Allowed(SqlSchemas(file), filter.schemas, filter.excludeSchemas)

NoFilter == [areas |-> {}, excludeAreas |-> {}, schemas |-> {}, excludeSchemas |-> {}]
-----------------------------------------------------------------------------
(* Parsing *)

\* A column is nullable unless it says otherwise or is of the primary key.
ParsedTable(def) ==
  [partition |-> def.partition,
   columns |-> [c \in DOMAIN def.columns |->
     [type |-> def.columns[c].type,
      nullable |-> ~(def.columns[c].notnull \/ def.columns[c].identity \/ c \in def.primary)]]]

\* The signature pattern takes one word for the return type; when it does not
\* match, nothing of the signature is known.
ParsedFunction(def) ==
  [means |-> def.means, returns |-> IF def.returns \in LongReturn THEN "" ELSE def.returns]

Parsed(s) ==
  CASE TypeOf(s.key) = "table" -> ParsedTable(s.def)
    [] TypeOf(s.key) = "function" -> ParsedFunction(s.def)
    [] TypeOf(s.key) \in {"view", "composite_type", "index"} -> Render(s.def)
    [] OTHER -> s.def

Supported(type, dialect) == dialect = Postgres \/ type \notin {"enum", "composite_type"}

\* A later CREATE of the same name replaces what an earlier one declared.
Declare(db, s, dialect) ==
  IF Supported(TypeOf(s.key), dialect) THEN With(db, s.key, Parsed(s)) ELSE db

DeclareAll(db, stmts, dialect) ==
  FoldLeft(LAMBDA d, s : Declare(d, s, dialect), db, stmts)

\* What a DO block creates counts when nothing else has declared it so far.
ParseFile(db, file, dialect) ==
  LET declared == DeclareAll(db, file.stmts, dialect)
      blocks == IF dialect = Postgres THEN file.block ELSE {}
  IN Over(declared, [k \in {s.key : s \in blocks} |-> (CHOOSE s \in blocks : s.key = k).def])

\* The files in the order of their paths; one the filter leaves out is skipped.
ParseDirectory(tree, filter, dialect) ==
  LET parsed[n \in 0..Len(PathOrder)] ==
        IF n = 0 THEN <<>>
        ELSE LET p == PathOrder[n]
             IN IF p \in DOMAIN tree /\ InScope(tree[p], filter)
                THEN ParseFile(parsed[n - 1], tree[p], dialect) ELSE parsed[n - 1]
  IN parsed[Len(PathOrder)]
-----------------------------------------------------------------------------
(* Introspection: one query, or a few, per type of object *)

LoadOrder == <<"schema", "table", "view", "function", "enum", "composite_type", "index">>

\* IndexDef.qualified_name is the bare name.
KeyOf(id) == IF TypeOf(id) = "index" THEN <<"index", "", id[3]>> ELSE id

\* To SQL Server, partitions are not tables.
IntrospectedTable(def, dialect) ==
  [partition |-> dialect = Postgres /\ def.partition,
   columns |-> [c \in DOMAIN def.columns |->
     [type |-> def.columns[c].type, nullable |-> ~def.columns[c].notnull]]]

\* SQL Server keeps the text of a function and of a view, which is parsed like a
\* script's; Postgres writes a view's query itself.
Introspected(id, object, dialect) ==
  CASE TypeOf(id) = "table" -> IntrospectedTable(object.def, dialect)
    [] TypeOf(id) = "function" /\ dialect = MSSQL -> ParsedFunction(object.def)
    [] TypeOf(id) = "view" /\ dialect = MSSQL -> Render(object.def)
    [] OTHER -> object.def

\* No system schemas, no indexes of primary keys.
Visible(id, object, type) ==
  /\ TypeOf(id) = type /\ SchemaOf(id) \notin SystemSchema
  /\ type = "index" => ~object.primary

Load(catalog, type, dialect) ==
  LET ids == {id \in DOMAIN catalog : Visible(id, catalog[id], type)}
      Row(key) == CHOOSE id \in ids : KeyOf(id) = key
  IN IF Supported(type, dialect)
     THEN [key \in {KeyOf(id) : id \in ids} |-> Introspected(Row(key), catalog[Row(key)], dialect)]
     ELSE <<>>
-----------------------------------------------------------------------------
(* Comparison: a set of <<kind, key, column>> *)

Entries(kind, keys) == {<<kind, k, "">> : k \in keys}

\* Types are compared by the catalog's name for them.
NormType(type) == IF type \in DOMAIN Canon THEN Canon[type] ELSE type

DiffTable(key, s, d) ==
  LET scols == DOMAIN s.columns
      dcols == DOMAIN d.columns
      Same(c) == /\ NormType(s.columns[c].type) = NormType(d.columns[c].type)
                 /\ s.columns[c].nullable = d.columns[c].nullable
  IN IF s.partition \/ d.partition THEN {}
     ELSE      {<<"missing_in_db", key, c>> : c \in scols \ dcols}
          \cup {<<"mismatch", key, c>> : c \in {x \in scols \cap dcols : ~Same(x)}}
          \cup {<<"missing_in_scripts", key, c>> : c \in dcols \ scols}

\* Views and the fields of composites are compared as text, indexes after both
\* texts have been parsed.
DiffObject(key, s, d) ==
  CASE TypeOf(key) = "table" -> DiffTable(key, s, d)
    [] TypeOf(key) = "function" ->
         IF s.means = d.means /\ NormType(s.returns) = NormType(d.returns) THEN {}
         ELSE Entries("mismatch", {key})
    [] TypeOf(key) \in {"view", "composite_type"} ->
         IF s.means = d.means /\ s.spelled = d.spelled THEN {} ELSE Entries("mismatch", {key})
    [] TypeOf(key) = "index" ->
         IF s.means = d.means /\ Rendered[s.spelled] = Rendered[d.spelled] THEN {}
         ELSE Entries("mismatch", {key})
    [] OTHER -> IF s.means = d.means THEN {} ELSE Entries("mismatch", {key})

\* An index is not reported when its table is.
Reported(one, other) ==
  LET absent == DOMAIN one \ DOMAIN other
      OfAbsentTable(k) == TypeOf(k) = "index" /\ <<"table", one[k].schema, one[k].table>> \in absent
  IN {k \in absent : ~OfAbsentTable(k)}

Diff(scripts, db, extra) ==
  (UNION {DiffObject(k, scripts[k], db[k]) : k \in DOMAIN scripts \cap DOMAIN db})
  \cup Entries("missing_in_db", Reported(scripts, db))
  \cup IF extra THEN Entries("missing_in_scripts", Reported(db, scripts)) ELSE {}
=============================================================================
