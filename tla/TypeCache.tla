------------------------------ MODULE TypeCache ------------------------------
(***************************************************************************)
(* What a ComplexHelper knows about the database of its connection         *)
(* (db/complex_types.py), reduced to one table, and in it one composite    *)
(* column beside plain ones.  A type stands for its oid.  A part of the    *)
(* cache is a set: empty, or the one thing that is remembered.             *)
(***************************************************************************)
EXTENDS Naturals, FiniteSets

\* What the catalog has in place of a type: no table, or a table without the column.
NoTable == 0
NoColumn == 1

\* dict: the types of the catalog have been listed; info: the CompositeInfo that is
\* kept under the type's name; column, columns: what the lookups found.
EmptyCache == [dict |-> FALSE, info |-> {}, column |-> {}, columns |-> {}]
Parts == {"info", "column", "columns"}

\* The parts that a change of the catalog can leave out of date: the column is added
\* to the table, or its type is replaced.
Outdated(type) ==
  CASE type = NoTable -> {} [] type = NoColumn -> {"columns"} [] OTHER -> Parts

\* The statement a lookup (load_complex_type, load_all_complex_types) has to send
\* next, or "none"; found: what its own query has returned already.
Ask(cache, lookup, found) ==
  CASE cache[lookup] # {} -> "none"
    [] cache[lookup] = {} /\ ~cache.dict -> "dict"
    [] cache[lookup] = {} /\ cache.dict /\ found = {} -> "lookup"
    [] OTHER -> IF found \subseteq {NoTable, NoColumn} \/ cache.info # {} THEN "none" ELSE "info"

\* Mutant: load_complex_type remembers that the column is missing as well.
Remember_Missing(cache, lookup, found) ==
  IF cache[lookup] # {} \/ found = {NoTable} THEN cache
  ELSE [cache EXCEPT ![lookup] = IF found = {NoColumn} THEN found ELSE cache.info]

\* The end of a lookup.  load_complex_type does not remember a column that is missing,
\* which may just not exist yet; load_all_complex_types remembers the columns of any
\* table that has some, and so that there is no other.
Remember(cache, lookup, found) ==
  IF cache[lookup] # {} \/ found = {NoTable} \/ (lookup = "column" /\ found = {NoColumn})
  THEN cache
  ELSE [cache EXCEPT ![lookup] = IF found = {NoColumn} THEN found ELSE cache.info]

ClearCache(cache) == EmptyCache

\* What a statement is answered with: the catalog's type as it is now.
Learn(cache, stmt, type) ==
  CASE stmt = "dict" -> [cache EXCEPT !.dict = TRUE]
    [] stmt = "info" -> [cache EXCEPT !.info = {type}]
    [] OTHER -> cache
==============================================================================
