------------------------------- MODULE Stats -------------------------------
(***************************************************************************)
(* pgdb update-stats (stats.py): collects the statistics of all tables or  *)
(* of some, merges them into _stats/_tables.json and writes a file of      *)
(* column statistics per table, each file in place.  The process can die   *)
(* at any step and be started again; tables come and go meanwhile.         *)
(***************************************************************************)
EXTENDS Naturals, FiniteSets

CONSTANTS
  Table,
  Torn, Absent, \* a file cut off in the middle; no file
  MaxRuns,      \* bound: update-stats is run so many times
  MaxDrops      \* bound: changes of the database

VARIABLES
  present,    \* the database's tables
  listed,     \* _tables.json: table -> run that collected it, or Absent or Torn
  files,      \* the column files: table -> run, or Torn
  pc, only, exact, run,
  rows,       \* the tables the first query found
  writing,    \* the table whose column file is open
  tables,     \* collected: table -> what its column file will hold
  gone,       \* column files still to unlink
  existing,   \* the entries kept
  lost,       \* history: somebody removed a torn _tables.json
  found, drops \* history: both kinds of file as the run found them; changes

dirVars == <<listed, files>>
callVars == <<only, exact, run, rows, writing>>
vars == <<present, dirVars, pc, callVars, tables, gone, existing, lost, found, drops>>

Readable == listed \notin {Absent, Torn}
Entries == IF Readable THEN listed ELSE <<>>
With(f, x, v) == [y \in DOMAIN f \cup {x} |-> IF y = x THEN v ELSE f[y]]
Without(f, x) == [y \in DOMAIN f \ {x} |-> f[y]]
-----------------------------------------------------------------------------
Init ==
  /\ present \in SUBSET Table
  /\ listed = Absent /\ files = <<>>
  /\ pc = "idle" /\ only = {} /\ exact = FALSE /\ run = 0
  /\ rows = {} /\ writing = {} /\ tables = <<>> /\ gone = {} /\ existing = <<>>
  /\ lost = FALSE /\ found = <<<<>>, <<>>>> /\ drops = 0

\* No table named: all of them, and those that are gone are pruned.
Begin ==
  /\ pc = "idle" /\ run < MaxRuns
  /\ \E wanted \in SUBSET Table, counts \in BOOLEAN :
       /\ only' = wanted /\ exact' = counts
       /\ rows' = IF wanted = {} THEN present ELSE wanted
       /\ pc' = IF wanted \subseteq present THEN "collect" ELSE "idle"
  /\ run' = run + 1
  /\ writing' = {} /\ tables' = <<>> /\ gone' = {} /\ existing' = <<>>
  /\ found' = <<Entries, files>>
  /\ UNCHANGED <<present, dirVars, lost, drops>>

\* A table that has been dropped meanwhile has no columns; counting its rows or
\* analyzing it fails, and the run ends with nothing written.
CollectTable(t) ==
  /\ pc = "collect" /\ t \in rows \ DOMAIN tables
  /\ t \in present \/ ~exact
  /\ tables' = With(tables, t, IF t \in present THEN run ELSE 0)
  /\ UNCHANGED <<present, dirVars, pc, callVars, gone, existing, lost, found, drops>>

CollectFails(t) ==
  /\ pc = "collect" /\ t \in rows \ DOMAIN tables
  /\ t \notin present /\ exact
  /\ pc' = "idle"
  /\ UNCHANGED <<present, dirVars, callVars, tables, gone, existing, lost, found, drops>>

Prune == only = {}

\* Mutant: the entries of other tables are dropped by every run.
ReadExisting_Prunes ==
  /\ pc = "collect" /\ DOMAIN tables = rows /\ listed # Torn
  /\ pc' = "unlink" /\ gone' = {} /\ existing' = <<>>
  /\ UNCHANGED <<present, dirVars, callVars, tables, lost, found, drops>>

\* write_stats: a torn file cannot be parsed, and the run fails.
ReadExisting ==
  /\ pc = "collect" /\ DOMAIN tables = rows
  /\ IF listed = Torn THEN pc' = "idle" /\ UNCHANGED <<gone, existing>>
     ELSE /\ pc' = "unlink"
          /\ gone' = IF Prune THEN DOMAIN Entries \ DOMAIN tables ELSE {}
          /\ existing' = IF Prune THEN <<>> ELSE Entries
  /\ UNCHANGED <<present, dirVars, callVars, tables, lost, found, drops>>

\* Mutant: the entry goes first, and the files with it are forgotten.
TruncateTables_First ==
  /\ pc = "unlink"
  /\ listed' = Torn /\ pc' = "tables"
  /\ UNCHANGED <<present, files, callVars, tables, gone, existing, lost, found, drops>>

Unlink(t) ==
  /\ pc = "unlink" /\ t \in gone
  /\ gone' = gone \ {t}
  /\ files' = Without(files, t)
  /\ UNCHANGED <<present, listed, pc, callVars, tables, existing, lost, found, drops>>

\* write_text truncates the file and then writes it.
TruncateTables ==
  /\ pc = "unlink" /\ gone = {}
  /\ listed' = Torn /\ pc' = "tables"
  /\ UNCHANGED <<present, files, callVars, tables, gone, existing, lost, found, drops>>

WriteTables ==
  /\ pc = "tables"
  /\ listed' = [t \in DOMAIN tables \cup DOMAIN existing |->
                  IF t \in DOMAIN tables THEN run ELSE existing[t]]
  /\ pc' = "columns"
  /\ UNCHANGED <<present, files, callVars, tables, gone, existing, lost, found, drops>>

Pending == {t \in DOMAIN tables : t \notin DOMAIN files \/ files[t] # tables[t]}

\* One file after the other.
TruncateColumns(t) ==
  /\ pc = "columns" /\ writing = {} /\ t \in Pending
  /\ writing' = {t} /\ files' = With(files, t, Torn)
  /\ UNCHANGED <<present, listed, pc, only, exact, run, rows, tables, gone, existing, lost, found, drops>>

WriteColumns(t) ==
  /\ pc = "columns" /\ t \in Pending \cap writing
  /\ writing' = {} /\ files' = With(files, t, tables[t])
  /\ UNCHANGED <<present, listed, pc, only, exact, run, rows, tables, gone, existing, lost, found, drops>>

End ==
  /\ pc = "columns" /\ Pending = {}
  /\ pc' = "done"
  /\ UNCHANGED <<present, dirVars, callVars, tables, gone, existing, lost, found, drops>>

Leave ==
  /\ pc = "done" /\ pc' = "idle"
  /\ UNCHANGED <<present, dirVars, callVars, tables, gone, existing, lost, found, drops>>

\* The process dies; what it was writing stays cut off.
Crash ==
  /\ pc \notin {"idle", "done"} /\ pc' = "idle"
  /\ UNCHANGED <<present, dirVars, callVars, tables, gone, existing, lost, found, drops>>

\* Somebody removes a file no run can read.
RemoveTorn ==
  /\ pc = "idle" /\ listed = Torn
  /\ listed' = Absent /\ lost' = TRUE
  /\ UNCHANGED <<present, files, pc, callVars, tables, gone, existing, found, drops>>

Alter(t) ==
  /\ drops < MaxDrops /\ drops' = drops + 1
  /\ present' = IF t \in present THEN present \ {t} ELSE present \cup {t}
  /\ UNCHANGED <<dirVars, pc, callVars, tables, gone, existing, lost, found>>

Next ==
  \/ Begin \/ ReadExisting \/ TruncateTables \/ WriteTables \/ End \/ Leave
  \/ Crash \/ RemoveTorn
  \/ \E t \in Table : \/ CollectTable(t) \/ CollectFails(t) \/ Unlink(t)
                      \/ TruncateColumns(t) \/ WriteColumns(t) \/ Alter(t)

Spec == Init /\ [][Next]_vars
-----------------------------------------------------------------------------
(* read_stats, and properties *)

\* The tables a reader is told of, and those whose columns it cannot parse.
ReadStats(names) ==
  LET wanted == IF names = {} THEN DOMAIN Entries ELSE names
  IN IF ~Readable \/ ~(wanted \subseteq DOMAIN Entries) THEN "error"
     ELSE IF \E t \in wanted \cap DOMAIN files : files[t] = Torn THEN "error"
     ELSE [t \in wanted |-> IF t \in DOMAIN files THEN files[t] ELSE Absent]

\* Whatever step a run has died in, a column file belongs to a table that is
\* listed: pruning removes the file before the entry, collecting writes it after
\* the entry, so no later run overlooks it.  (Unless somebody had to remove a
\* _tables.json that was cut off: its tables' files stay for good.)
ColumnFilesListed ==
  /\ Readable /\ ~lost => DOMAIN files \subseteq DOMAIN listed
  /\ listed = Absent /\ ~lost => files = <<>>

\* What get-stats reads after a run is what that run collected, whatever runs
\* died before it; a full run leaves nothing of other tables, and a run for some
\* tables leaves the others' entries and files as they were.
UpdateExact ==
  pc = "done" =>
    /\ rows # {} => ReadStats(rows) = tables
    /\ \A t \in rows : listed[t] = run
    /\ IF Prune THEN DOMAIN listed = rows /\ (lost \/ DOMAIN files = rows)
       ELSE /\ \A t \in DOMAIN found[1] \ rows : t \in DOMAIN listed /\ listed[t] = found[1][t]
            /\ \A t \in DOMAIN found[2] \ rows : t \in DOMAIN files /\ files[t] = found[2][t]
            /\ DOMAIN listed = rows \cup DOMAIN found[1]
=============================================================================
