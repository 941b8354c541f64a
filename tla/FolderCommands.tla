--------------------------- MODULE FolderCommands ---------------------------
(***************************************************************************)
(* pgdb compare and pgdb fetch-missing (cli.py, fetch_missing.py) on a     *)
(* database/ folder and a database that others change meanwhile.           *)
(***************************************************************************)
EXTENDS SchemaDiff, FiniteSets

CONSTANTS
  Command,      \* the commands that may be given
  Folders,      \* folders and catalogs to start from
  Catalogs,
  Changed,      \* catalogs others may turn the database into
  Bare,         \* a folder's name without its sort number, in lower case
  Lower,        \* a schema's name in lower case
  NotScanned    \* folders layer_folder_for passes over

ASSUME CommandAssumption ==
  \A c \in Command : /\ c.name \in {"compare", "fetch"} /\ c.dialect \in Dialect
                     /\ c.name = "fetch" => c.dialect = Postgres
ASSUME FolderAssumption ==
  \A t \in Folders : \A p \in DOMAIN t : t[p].stmts \in Seq(Range(t[p].stmts))
\* What pg_catalog holds of a table: every column has a name, and those of the
\* primary key or with an identity are NOT NULL.
CatalogTable(def) ==
  /\ DOMAIN def = {"columns", "primary", "partition"}
  /\ \A x \in DOMAIN def.columns :
       /\ x # "" /\ DOMAIN def.columns[x] = {"type", "notnull", "identity"}
       /\ def.columns[x].notnull \in BOOLEAN
       /\ x \in def.primary \/ def.columns[x].identity => def.columns[x].notnull
ASSUME CatalogAssumption ==
  \A c \in Catalogs \cup Changed :
    /\ IsFiniteSet(DOMAIN c)
    /\ \A id \in DOMAIN c : TypeOf(id) = "table" => CatalogTable(c[id].def)

\* The folder an object's kind goes to.
Sub(objects, key) ==
  CASE TypeOf(key) = "table" -> "tables"
    [] TypeOf(key) = "view" -> "views"
    [] key \in DOMAIN objects /\ objects[key].set -> "table_functions"
    [] OTHER -> "scalar_functions"

\* PathOrder has every path that a file may be fetched to.
ASSUME FetchedPaths ==
  \A c \in Catalogs : \A key \in DOMAIN c :
    TypeOf(key) \in {"table", "view", "function"} /\ SchemaOf(key) \notin SystemSchema =>
      \A layer \in {SchemaOf(other) : other \in {id \in DOMAIN c : SchemaOf(id) \notin SystemSchema}}
                  \cup {p.layer : p \in UNION {DOMAIN t : t \in Folders}} :
        [layer |-> layer, sub |-> Sub(c, key), name |-> key[3]] \in Range(PathOrder)

VARIABLES
  tree,      \* the folder: path -> file
  catalog,   \* the database
  pc, command,
  at,        \* how many types of objects have been loaded
  scripts,   \* what parse_directory returned
  db,        \* what introspection has found so far
  report,    \* what compute_diff returned
  missing,   \* MissingObjects not dealt with yet
  written, skipped, failed,
  before, changes  \* history: the tree the command found; the others' changes

runVars == <<command, scripts, db, report>>
doneVars == <<written, skipped, failed>>
vars == <<tree, catalog, pc, at, missing, runVars, doneVars, before, changes>>
-----------------------------------------------------------------------------
Init ==
  /\ tree \in Folders /\ catalog \in Catalogs /\ command \in Command
  /\ pc = "parse" /\ at = 0
  /\ scripts = <<>> /\ db = <<>> /\ report = {} /\ missing = {}
  /\ written = {} /\ skipped = {} /\ failed = {}
  /\ before = tree /\ changes = 0

\* fetch-missing has no filters and reports what is only in the database.
Filter == IF command.name = "compare" THEN command.filter ELSE NoFilter
Extra == command.name = "fetch" \/ command.extra

Parse ==
  /\ pc = "parse"
  /\ scripts' = ParseDirectory(tree, Filter, command.dialect)
  /\ pc' = "load"
  /\ UNCHANGED <<tree, catalog, at, command, db, report, missing, doneVars, before, changes>>

\* Mutant: the schema options restrict the database as well.
LoadNext_Filtered ==
  /\ pc = "load" /\ at < Len(LoadOrder)
  /\ LET found == Load(catalog, LoadOrder[at + 1], command.dialect) IN
     db' = Over([k \in {x \in DOMAIN found : Allowed({SchemaOf(x)}, Filter.schemas, Filter.excludeSchemas)}
                   |-> found[k]], db)
  /\ at' = at + 1
  /\ UNCHANGED <<tree, catalog, pc, command, scripts, report, missing, doneVars, before, changes>>

\* One type of objects: every query sees the database as it is then.
LoadNext ==
  /\ pc = "load" /\ at < Len(LoadOrder)
  /\ db' = Over(Load(catalog, LoadOrder[at + 1], command.dialect), db)
  /\ at' = at + 1
  /\ UNCHANGED <<tree, catalog, pc, command, scripts, report, missing, doneVars, before, changes>>

Wanted(key) ==
  /\ TypeOf(key) \in {"table", "view", "function"}
  /\ command.only # {} => key \in command.only

Compare ==
  /\ pc = "load" /\ at = Len(LoadOrder)
  /\ report' = Diff(scripts, db, Extra)
  /\ IF command.name = "fetch"
     THEN /\ missing' = {[key |-> e[2], sub |-> Sub(catalog, e[2])] :
               e \in {d \in report' : d[1] = "missing_in_scripts" /\ d[3] = "" /\ Wanted(d[2])}}
          /\ pc' = IF missing' # {} /\ command.write THEN "write" ELSE "done"
     ELSE missing' = {} /\ pc' = "done"
  /\ UNCHANGED <<tree, catalog, at, command, scripts, db, doneVars, before, changes>>
-----------------------------------------------------------------------------
(* Writing the files *)

\* The folder of the schema's layer, whichever is found first, or a new one.
LayerFolders(schema) ==
  LET found == {p.layer : p \in {q \in DOMAIN tree :
                  q.layer \notin NotScanned /\ Bare[q.layer] = Lower[schema]}}
  IN IF found = {} THEN {schema} ELSE found

\* What pg_catalog can be asked for: ordinary tables, views and functions.
Reconstructible(key) ==
  key \in DOMAIN catalog /\ (TypeOf(key) \in {"table", "function"} => catalog[key].plain)

\* Mutant: NOT NULL is left to the constraints.
TableDdl_Nullable(key) ==
  LET def == catalog[key].def IN
  <<[key |-> key, def |-> [def EXCEPT !.partition = FALSE,
      !.columns = [c \in DOMAIN def.columns |-> [def.columns[c] EXCEPT !.notnull = FALSE]]]]>>

\* Columns, constraints, and the indexes that belong to no constraint.  A
\* partition is written like any other table.
TableDdl(key) ==
  LET def == catalog[key].def
      indexes == {id \in DOMAIN catalog :
        /\ TypeOf(id) = "index" /\ ~catalog[id].constraint
        /\ <<"table", catalog[id].def.schema, catalog[id].def.table>> = key}
      table == [key |-> key, def |-> [def EXCEPT !.partition = FALSE,
                  !.columns = [c \in DOMAIN def.columns |-> [def.columns[c] EXCEPT
                    !.notnull = def.columns[c].notnull /\ ~def.columns[c].identity]]]]
  IN <<table>> \o SetToSeq({[key |-> KeyOf(id), def |-> catalog[id].def] : id \in indexes})

Ddl(key) ==
  IF TypeOf(key) = "table" THEN TableDdl(key)
  ELSE <<[key |-> key, def |-> catalog[key].def]>>

Fetched(key) == [lines |-> <<>>, stmts |-> Ddl(key), block |-> {}, refs |-> catalog[key].refs]

Taken(m) ==
  /\ missing' = missing \ {m}
  /\ pc' = IF missing' = {} THEN "done" ELSE "write"
  /\ UNCHANGED <<catalog, at, runVars, before, changes>>

\* Mutant: a file that exists is written over.
Write_Over(m) ==
  /\ pc = "write" /\ m \in missing
  /\ \E layer \in LayerFolders(SchemaOf(m.key)) :
       LET dest == [layer |-> layer, sub |-> m.sub, name |-> m.key[3]]
       IN \/ /\ ~Reconstructible(m.key)
             /\ failed' = failed \cup {m.key} /\ UNCHANGED <<tree, written, skipped>>
          \/ /\ Reconstructible(m.key)
             /\ tree' = With(tree, dest, Fetched(m.key))
             /\ written' = written \cup {m.key} /\ UNCHANGED <<skipped, failed>>
  /\ Taken(m)

Write(m) ==
  /\ pc = "write" /\ m \in missing
  /\ \E layer \in LayerFolders(SchemaOf(m.key)) :
       LET dest == [layer |-> layer, sub |-> m.sub, name |-> m.key[3]]
       IN \/ /\ dest \in DOMAIN tree
             /\ skipped' = skipped \cup {m.key} /\ UNCHANGED <<tree, written, failed>>
          \/ /\ dest \notin DOMAIN tree /\ ~Reconstructible(m.key)
             /\ failed' = failed \cup {m.key} /\ UNCHANGED <<tree, written, skipped>>
          \/ /\ dest \notin DOMAIN tree /\ Reconstructible(m.key)
             /\ tree' = With(tree, dest, Fetched(m.key))
             /\ written' = written \cup {m.key} /\ UNCHANGED <<skipped, failed>>
  /\ Taken(m)

\* Somebody else changes the database.
Alter ==
  /\ changes = 0 /\ pc # "done"
  /\ \E c \in Changed : c # catalog /\ catalog' = c
  /\ changes' = 1
  /\ UNCHANGED <<tree, pc, at, missing, runVars, doneVars, before>>

Next == Parse \/ LoadNext \/ Compare \/ (\E m \in missing : Write(m)) \/ Alter

Spec == Init /\ [][Next]_vars
-----------------------------------------------------------------------------
(* Properties *)

\* What introspection finds when nobody changes the database meanwhile.
LoadAll(dialect) ==
  [key \in UNION {DOMAIN Load(catalog, LoadOrder[n], dialect) : n \in DOMAIN LoadOrder} |->
     Load(catalog, TypeOf(key), dialect)[key]]

\* A view whose text sqlglot writes otherwise than the catalog does.
Respelled(key) == TypeOf(key) = "view" /\ Render(catalog[key].def) # catalog[key].def

\* The next comparison after a fetch finds no table, view or function missing in
\* the scripts but those fetch-missing said it skipped or failed on, and nothing
\* to say about the tables it wrote, nor about the views whose text survives
\* sqlglot: the DDL that is put together from the catalog parses back to what
\* introspection makes of the catalog.
FetchConverges ==
  pc = "done" /\ command.name = "fetch" /\ command.write /\ changes = 0 =>
    LET again == Diff(ParseDirectory(tree, NoFilter, Postgres), LoadAll(Postgres), TRUE) IN
    /\ \A e \in again : e[1] = "missing_in_scripts" /\ e[3] = "" /\ Wanted(e[2])
                            => e[2] \in skipped \cup failed
    /\ \A e \in again : e[2] \in written => TypeOf(e[2]) = "function" \/ Respelled(e[2])

\* Fetching never changes what a tracked object is declared as, wherever the new
\* files sort, whatever the folders are called and whatever others do to the
\* database meanwhile.  (Indexes are left out: the file of a fetched table holds
\* its indexes, also those another file declares.)
TrackedKept ==
  LET was == ParseDirectory(before, NoFilter, Postgres)
      is == ParseDirectory(tree, NoFilter, Postgres)
  IN \A key \in DOMAIN was : TypeOf(key) # "index" => key \in DOMAIN is /\ is[key] = was[key]

\* README: the default report "composes safely with area and schema filtering".
\* What a filtered comparison reports and an unfiltered one would not is about an
\* object that a file outside the filter declares as well, or an index whose
\* table only such files declare.
Declares(p, key) ==
  \/ \E i \in DOMAIN tree[p].stmts : tree[p].stmts[i].key = key
  \/ \E s \in tree[p].block : s.key = key

FilterExplained ==
  pc = "done" /\ command.name = "compare" /\ ~command.extra /\ changes = 0 =>
    \A e \in report \ Diff(ParseDirectory(tree, NoFilter, command.dialect),
                            LoadAll(command.dialect), FALSE) :
      LET about == IF TypeOf(e[2]) = "index"
                   THEN {e[2], <<"table", scripts[e[2]].schema, scripts[e[2]].table>>}
                   ELSE {e[2]}
      IN \E p \in DOMAIN tree, key \in about : Declares(p, key) /\ ~InScope(tree[p], command.filter)
=============================================================================
