-------------------------- MODULE MCDatabaseFolder --------------------------
(* Small folders and catalogs, for TLC. *)
EXTENDS DatabaseFolder

CONSTANTS t1, t2

Text(m, s) == [means |-> m, spelled |-> s]
Plain(m) == Text(m, "plain")
\* 'x'::text is what Postgres writes for CAST('x' AS TEXT), which is what sqlglot writes.
MCRendered == [plain |-> "plain", cast |-> "call", call |-> "call"]

S == <<"schema", "sales", "">>
T == <<"table", "sales", "t">>
B == <<"table", "Sales", "t">>      \* the same file name and layer as T
R == <<"table", "sales", "r">>      \* partitioned
Q == <<"table", "sales", "q">>      \* a partition of it
V == <<"view", "ops", "v">>
F == <<"function", "ops", "f">>
G == <<"function", "ops", "g">>     \* a procedure
E == <<"enum", "ops", "e">>
I(n) == <<"index", "", n>>

Col(type, notnull, identity) == [type |-> type, notnull |-> notnull, identity |-> identity]
Cols(type) == [a |-> Col(type, TRUE, TRUE), b |-> Col("text", TRUE, FALSE), c |-> Col("text", FALSE, FALSE)]
TableDef(columns, pk, part) == [columns |-> columns, primary |-> pk, partition |-> part]
IndexDef(m) == [schema |-> "sales", table |-> "t", means |-> m, spelled |-> "cast"]

Path(l, s, n) == [layer |-> l, sub |-> s, name |-> n]
Layers == <<"1_sales", "2_ops", "3_late", "Sales", "ops", "sales">>
Places == << <<"indexes", "i">>, <<"scalar_functions", "f">>, <<"scalar_functions", "g">>,
             <<"table_functions", "f">>, <<"tables", "q">>, <<"tables", "r">>, <<"tables", "t">>,
             <<"types", "e">>, <<"views", "v">> >>
MCPathOrder == [i \in 1..54 |->
  Path(Layers[((i - 1) \div 9) + 1], Places[((i - 1) % 9) + 1][1], Places[((i - 1) % 9) + 1][2])]

TFile == Path("1_sales", "tables", "t")
EFile == Path("2_ops", "types", "e")
VFile == Path("2_ops", "views", "v")
IFile == Path("3_late", "indexes", "i")
LateT == Path("3_late", "tables", "t")
Line(kind, areas) == [kind |-> kind, areas |-> areas]
File(areas, stmts, block) ==
  [lines |-> <<Line("comment", {}), Line("area", areas), Line("code", {}), Line("area", {"y"})>>,
   stmts |-> stmts, block |-> block, refs |-> {}]
Create(key, def) == [key |-> key, def |-> def]
ScriptT(columns) == Create(T, TableDef(columns, {"a"}, FALSE))

Part1 == { <<>>, TFile :> File({"x"}, <<Create(S, Plain("")), ScriptT(Cols("int"))>>, {}),
           TFile :> File({}, <<Create(S, Plain(""))>>, {}) }
Part2 == { <<>>, EFile :> File({}, <<>>, {Create(E, Plain("1"))}) @@
                 VFile :> [File({"y"}, <<Create(V, Plain("1"))>>, {}) EXCEPT !.refs = {"sales"}] }
Part3 == { <<>>, IFile :> File({"x"}, <<Create(I("i"), IndexDef("2")), Create(V, Text("1", "call"))>>, {}),
           LateT :> File({"y"}, <<ScriptT([Cols("int") EXCEPT !.c.notnull = TRUE])>>, {}) }
MCFolders == {p @@ q @@ r : p \in Part1, q \in Part2, r \in Part3}

Object(def) == [def |-> def, plain |-> TRUE, set |-> FALSE, primary |-> FALSE, constraint |-> FALSE, refs |-> {}]
Whole ==
     S :> Object(Plain(""))
  @@ T :> Object(TableDef(Cols("integer"), {"a"}, FALSE))
  @@ B :> Object(TableDef(Cols("integer"), {}, FALSE))
  @@ R :> [Object(TableDef(Cols("integer"), {}, FALSE)) EXCEPT !.plain = FALSE]
  @@ Q :> Object(TableDef(Cols("integer"), {}, TRUE))
  @@ V :> [Object(Plain("1")) EXCEPT !.refs = {"sales"}]
  @@ F :> [Object([means |-> "1", returns |-> "long"]) EXCEPT !.set = TRUE]
  @@ G :> [Object([means |-> "1", returns |-> "integer"]) EXCEPT !.plain = FALSE]
  @@ E :> Object(Plain("1"))
  @@ <<"table", "pg_catalog", "z">> :> Object(TableDef(Cols("integer"), {}, FALSE))
  @@ <<"index", "sales", "p">> :> [Object(IndexDef("0")) EXCEPT !.primary = TRUE, !.constraint = TRUE]
  @@ <<"index", "sales", "i">> :> Object(IndexDef("1"))
  @@ <<"index", "sales", "u">> :> [Object(IndexDef("1")) EXCEPT !.constraint = TRUE]
OfT(id) == id = T \/ TypeOf(id) = "index"
Less(Out(_)) == [id \in {x \in DOMAIN Whole : ~Out(x)} |-> Whole[id]]
Cast == [Less(LAMBDA x : x \in {B, R, F, E}) EXCEPT ![V].def.spelled = "cast"]
MCCatalogs == {Whole, Less(OfT), Cast}
MCChanged == {Less(OfT), [Whole EXCEPT ![T].def.columns.c.notnull = TRUE], Less(LAMBDA x : x \in {V, F})}

Given(n, d, x, f, w, o) ==
  [name |-> n, dialect |-> d, extra |-> x, filter |-> f, write |-> w, only |-> o]
MCCommand ==
  {Given("compare", d, x, f, FALSE, {}) : d \in Dialect, x \in BOOLEAN,
     f \in {NoFilter, [NoFilter EXCEPT !.areas = {"x"}], [NoFilter EXCEPT !.excludeAreas = {"y"}],
            [NoFilter EXCEPT !.schemas = {"sales"}], [NoFilter EXCEPT !.excludeSchemas = {"sales"}]}}
  \cup {Given("fetch", Postgres, TRUE, NoFilter, w, o) : w \in BOOLEAN, o \in {{}, {T, V}}}

MCCanon == [int |-> "integer"]
MCBare == [l \in {"1_sales", "2_ops", "3_late", "Sales", "ops", "sales"} |->
  CASE l \in {"1_sales", "Sales", "sales"} -> "sales" [] l \in {"2_ops", "ops"} -> "ops" [] OTHER -> "late"]
MCLower == [s \in {"sales", "Sales", "ops"} |-> IF s = "Sales" THEN "sales" ELSE s]
=============================================================================
