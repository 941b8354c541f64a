------------------------ MODULE DatabaseFolderProofs ------------------------
(***************************************************************************)
(* What TLAPS proves of the commands on a database/ folder: of             *)
(* update-stats for any tables, any number of runs, deaths and changes of  *)
(* the database; of compare and fetch-missing for any folder, catalog and  *)
(* filter.                                                                 *)
(***************************************************************************)
EXTENDS DatabaseFolder, FiniteSetTheorems, TLAPS

\* Types.
Listing == UNION {[T -> Nat] : T \in SUBSET Table}
StatsTypes ==
  /\ step \in {"idle", "collect", "unlink", "tables", "columns", "done"}
  /\ run \in Nat /\ rows \subseteq Table /\ present \subseteq Table
  /\ DOMAIN tables \subseteq rows /\ tables \in [DOMAIN tables -> Nat]
  /\ listed \in {Absent, Torn} \cup Listing
  /\ \A t \in DOMAIN files : files[t] \in Nat \cup {Torn}
  /\ DOMAIN existing \subseteq Table /\ \A t \in DOMAIN existing : existing[t] \in Nat

\* What a run has read stays as it was until the run writes.
FoundInv ==
  /\ step \in {"collect", "unlink"} => found[1] = Stats!Entries
  /\ step = "collect" => found[2] = files
  /\ step \in {"unlink", "tables", "columns", "done"} => DOMAIN tables = rows
  /\ step \in {"unlink", "tables", "columns", "done"} => existing = IF Stats!Prune THEN <<>> ELSE found[1]
  /\ step = "unlink" => listed # Torn /\ (~Stats!Prune => gone = {})
  /\ step \in {"unlink", "tables", "columns", "done"} /\ ~Stats!Prune =>
       \A t \in DOMAIN found[2] \ rows : t \in DOMAIN files /\ files[t] = found[2][t]

\* No file is forgotten: what is not listed is about to be removed or listed.
FilesInv ==
  ~lost =>
    /\ Stats!Readable => DOMAIN files \subseteq DOMAIN listed
    /\ listed = Absent => files = <<>>
    /\ step \in {"unlink", "tables"} =>
         DOMAIN files \subseteq rows \cup DOMAIN existing \cup (IF step = "unlink" THEN gone ELSE {})

\* What has been written.
WrittenInv ==
  /\ step \in {"columns", "done"} =>
       /\ Stats!Readable /\ DOMAIN listed = rows \cup DOMAIN existing
       /\ \A t \in rows : listed[t] = run
       /\ \A t \in DOMAIN existing \ rows : listed[t] = existing[t]
  /\ step = "done" => \A t \in rows : t \in DOMAIN files /\ files[t] = tables[t]

StatsInv == StatsTypes /\ FoundInv /\ FilesInv /\ WrittenInv
-----------------------------------------------------------------------------
\* A listing is no mark.
LEMMA Listed ==
  ASSUME NEW f \in Listing
  PROVE  /\ f \notin {Absent, Torn} /\ DOMAIN f \subseteq Table /\ f \in [DOMAIN f -> Nat]
         /\ \A t \in DOMAIN f : f[t] \in Nat
  <1>1. PICK T \in SUBSET Table : f \in [T -> Nat]
    BY DEF Listing
  <1> QED
    BY <1>1, MarkAssumption

\* What a reader finds in the folder.
LEMMA ReadEntries ==
  ASSUME StatsTypes
  PROVE  /\ DOMAIN Stats!Entries \subseteq Table /\ \A t \in DOMAIN Stats!Entries : Stats!Entries[t] \in Nat
         /\ Stats!Readable <=> listed \in Listing
         /\ Stats!Readable => Stats!Entries = listed
         /\ ~Stats!Readable => Stats!Entries = <<>>
  <1>1. Stats!Readable <=> listed \in Listing
    BY Listed DEF StatsTypes, Stats!Readable
  <1> QED
    BY <1>1, Listed DEF Stats!Entries

\* The empty sequence is the function on nothing.
LEMMA Nothing == DOMAIN <<>> = {} /\ <<>> \in [{} -> Nat]
  <1>1. <<>> \in Seq(Nat) /\ Len(<<>>) = 0
    OBVIOUS
  <1> QED
    BY <1>1

\* A run starts with nothing collected; it has found what is there.
LEMMA BeginKeeps == StatsInv /\ Stats!Begin => StatsInv'
  <1> SUFFICES ASSUME StatsInv, Stats!Begin PROVE StatsInv'
    OBVIOUS
  <1> USE DEF StatsInv, Stats!Begin, Stats!dirVars
  <1>1. StatsTypes'
    BY Nothing DEF StatsTypes
  <1>2. FoundInv'
    BY DEF FoundInv, Stats!Entries, Stats!Readable
  <1>3. FilesInv'
    BY DEF FilesInv, Stats!Readable
  <1>4. WrittenInv'
    BY DEF WrittenInv
  <1> QED
    BY <1>1, <1>2, <1>3, <1>4

\* What is collected are numbers of tables that were asked for.
LEMMA CollectTableKeeps ==
  ASSUME StatsInv, NEW t \in Table, Stats!CollectTable(t)
  PROVE  StatsInv'
  <1> USE DEF StatsInv, Stats!CollectTable, Stats!dirVars, Stats!callVars
  <1>1. StatsTypes'
    BY DEF StatsTypes, Stats!With, Stats!Without
  <1>2. FoundInv'
    BY ReadEntries DEF FoundInv, StatsTypes, Stats!Entries, Stats!Readable, Stats!Prune, Stats!With, Stats!Without
  <1>3. FilesInv'
    BY ReadEntries DEF FilesInv, FoundInv, StatsTypes, Stats!Readable, Stats!With, Stats!Without
  <1>4. WrittenInv'
    BY DEF WrittenInv, StatsTypes, FoundInv, Stats!Readable, Stats!With, Stats!Without
  <1> QED
    BY <1>1, <1>2, <1>3, <1>4

\* A table that is gone ends the run with nothing written.
LEMMA CollectFailsKeeps ==
  ASSUME StatsInv, NEW t \in Table, Stats!CollectFails(t)
  PROVE  StatsInv'
  <1> USE DEF StatsInv, Stats!CollectFails, Stats!dirVars, Stats!callVars
  <1>1. StatsTypes'
    BY DEF StatsTypes, Stats!With, Stats!Without
  <1>2. FoundInv'
    BY ReadEntries DEF FoundInv, StatsTypes, Stats!Entries, Stats!Readable, Stats!Prune, Stats!With, Stats!Without
  <1>3. FilesInv'
    BY ReadEntries DEF FilesInv, FoundInv, StatsTypes, Stats!Readable, Stats!With, Stats!Without
  <1>4. WrittenInv'
    BY DEF WrittenInv, StatsTypes, FoundInv, Stats!Readable, Stats!With, Stats!Without
  <1> QED
    BY <1>1, <1>2, <1>3, <1>4

\* From here on every file is of a table collected, of an entry kept, or to be removed.
LEMMA ReadExistingKeeps ==
  ASSUME StatsInv, Stats!ReadExisting
  PROVE  StatsInv'
  <1> USE DEF StatsInv, Stats!ReadExisting, Stats!dirVars, Stats!callVars
  <1>1. StatsTypes'
    BY ReadEntries, Nothing DEF StatsTypes
  <1>2. FoundInv'
    BY ReadEntries DEF FoundInv, StatsTypes, Stats!Entries, Stats!Readable, Stats!Prune, Stats!With, Stats!Without
  <1>3. FilesInv'
    BY ReadEntries DEF FilesInv, FoundInv, StatsTypes, Stats!Readable, Stats!With, Stats!Without
  <1>4. WrittenInv'
    BY DEF WrittenInv, StatsTypes, FoundInv, Stats!Readable, Stats!With, Stats!Without
  <1> QED
    BY <1>1, <1>2, <1>3, <1>4

\* A file that is removed had an entry, and keeps it for now.
LEMMA UnlinkKeeps ==
  ASSUME StatsInv, NEW t \in Table, Stats!Unlink(t)
  PROVE  StatsInv'
  <1> USE DEF StatsInv, Stats!Unlink, Stats!dirVars, Stats!callVars
  <1>1. StatsTypes'
    BY DEF StatsTypes, Stats!With, Stats!Without
  <1>2. FoundInv'
    BY ReadEntries DEF FoundInv, StatsTypes, Stats!Entries, Stats!Readable, Stats!Prune, Stats!With, Stats!Without
  <1>3. FilesInv'
    BY ReadEntries DEF FilesInv, FoundInv, StatsTypes, Stats!Readable, Stats!With, Stats!Without
  <1>4. WrittenInv'
    BY DEF WrittenInv, StatsTypes, FoundInv, Stats!Readable, Stats!With, Stats!Without
  <1> QED
    BY <1>1, <1>2, <1>3, <1>4

\* While _tables.json is cut off, nothing is said of it.
LEMMA TruncateTablesKeeps ==
  ASSUME StatsInv, Stats!TruncateTables
  PROVE  StatsInv'
  <1> USE DEF StatsInv, Stats!TruncateTables, Stats!dirVars, Stats!callVars
  <1>1. StatsTypes'
    BY DEF StatsTypes, Stats!With, Stats!Without
  <1>2. FoundInv'
    BY ReadEntries DEF FoundInv, StatsTypes, Stats!Entries, Stats!Readable, Stats!Prune, Stats!With, Stats!Without
  <1>3. FilesInv'
    BY MarkAssumption DEF FilesInv, Stats!Readable
  <1>4. WrittenInv'
    BY DEF WrittenInv, StatsTypes, FoundInv, Stats!Readable, Stats!With, Stats!Without
  <1> QED
    BY <1>1, <1>2, <1>3, <1>4

\* The new entries are those collected and those kept, so no file is without one.
LEMMA WriteTablesKeeps ==
  ASSUME StatsInv, Stats!WriteTables
  PROVE  StatsInv'
  <1> USE DEF StatsInv, Stats!WriteTables, Stats!dirVars, Stats!callVars
  <1> DEFINE D == DOMAIN tables \cup DOMAIN existing
  <1>5. listed' \in Listing /\ DOMAIN listed' = D
    <2>1. D \in SUBSET Table
      BY DEF StatsTypes
    <2>2. listed' \in [D -> Nat]
      BY DEF StatsTypes
    <2> QED
      BY <2>1, <2>2 DEF Listing
  <1>6. Stats!Readable'
    BY <1>5, Listed DEF Stats!Readable
  <1>1. StatsTypes'
    BY <1>5 DEF StatsTypes
  <1>2. FoundInv'
    BY ReadEntries DEF FoundInv, StatsTypes, Stats!Entries, Stats!Readable, Stats!Prune, Stats!With, Stats!Without
  <1>3. FilesInv'
    BY <1>5, <1>6 DEF FilesInv, FoundInv, StatsTypes, Stats!Readable
  <1>4. WrittenInv'
    BY <1>5, <1>6 DEF WrittenInv, FoundInv
  <1> QED
    BY <1>1, <1>2, <1>3, <1>4

\* A column file is written of a table that is listed by now.
LEMMA TruncateColumnsKeeps ==
  ASSUME StatsInv, NEW t \in Table, Stats!TruncateColumns(t)
  PROVE  StatsInv'
  <1> USE DEF StatsInv, Stats!TruncateColumns, Stats!dirVars, Stats!callVars
  <1>5. t \in rows /\ DOMAIN files' = DOMAIN files \cup {t} /\ \A u \in DOMAIN files : u # t => files'[u] = files[u]
    BY DEF FoundInv, Stats!Pending, Stats!With
  <1>1. StatsTypes'
    BY DEF StatsTypes, Stats!With, Stats!Without
  <1>2. FoundInv'
    BY <1>5 DEF FoundInv, Stats!Prune
  <1>3. FilesInv'
    BY <1>5 DEF FilesInv, WrittenInv, Stats!Readable
  <1>4. WrittenInv'
    BY DEF WrittenInv, StatsTypes, FoundInv, Stats!Readable, Stats!With, Stats!Without
  <1> QED
    BY <1>1, <1>2, <1>3, <1>4

\* It holds what has been collected.
LEMMA WriteColumnsKeeps ==
  ASSUME StatsInv, NEW t \in Table, Stats!WriteColumns(t)
  PROVE  StatsInv'
  <1> USE DEF StatsInv, Stats!WriteColumns, Stats!dirVars, Stats!callVars
  <1>5. t \in rows /\ DOMAIN files' = DOMAIN files \cup {t} /\ \A u \in DOMAIN files : u # t => files'[u] = files[u]
    BY DEF FoundInv, Stats!Pending, Stats!With
  <1>1. StatsTypes'
    BY <1>5 DEF StatsTypes, FoundInv, Stats!With
  <1>2. FoundInv'
    BY <1>5 DEF FoundInv, Stats!Prune
  <1>3. FilesInv'
    BY <1>5 DEF FilesInv, WrittenInv, Stats!Readable
  <1>4. WrittenInv'
    BY DEF WrittenInv, StatsTypes, FoundInv, Stats!Readable, Stats!With, Stats!Without
  <1> QED
    BY <1>1, <1>2, <1>3, <1>4

\* A run ends when every table's file holds what has been collected.
LEMMA EndKeeps ==
  ASSUME StatsInv, Stats!End
  PROVE  StatsInv'
  <1> USE DEF StatsInv, Stats!End, Stats!dirVars, Stats!callVars
  <1>1. StatsTypes'
    BY DEF StatsTypes, Stats!With, Stats!Without
  <1>2. FoundInv'
    BY ReadEntries DEF FoundInv, StatsTypes, Stats!Entries, Stats!Readable, Stats!Prune, Stats!With, Stats!Without
  <1>3. FilesInv'
    BY ReadEntries DEF FilesInv, FoundInv, StatsTypes, Stats!Readable, Stats!With, Stats!Without
  <1>4. WrittenInv'
    BY DEF WrittenInv, FoundInv, Stats!Pending, Stats!Readable
  <1> QED
    BY <1>1, <1>2, <1>3, <1>4

\* The next run may come.
LEMMA LeaveKeeps ==
  ASSUME StatsInv, Stats!Leave
  PROVE  StatsInv'
  <1> USE DEF StatsInv, Stats!Leave, Stats!dirVars, Stats!callVars
  <1>1. StatsTypes'
    BY DEF StatsTypes, Stats!With, Stats!Without
  <1>2. FoundInv'
    BY ReadEntries DEF FoundInv, StatsTypes, Stats!Entries, Stats!Readable, Stats!Prune, Stats!With, Stats!Without
  <1>3. FilesInv'
    BY ReadEntries DEF FilesInv, FoundInv, StatsTypes, Stats!Readable, Stats!With, Stats!Without
  <1>4. WrittenInv'
    BY DEF WrittenInv, StatsTypes, FoundInv, Stats!Readable, Stats!With, Stats!Without
  <1> QED
    BY <1>1, <1>2, <1>3, <1>4

\* A death leaves the files as they are, and only those bind the next run.
LEMMA CrashKeeps ==
  ASSUME StatsInv, Stats!Crash
  PROVE  StatsInv'
  <1> USE DEF StatsInv, Stats!Crash, Stats!dirVars, Stats!callVars
  <1>1. StatsTypes'
    BY DEF StatsTypes, Stats!With, Stats!Without
  <1>2. FoundInv'
    BY ReadEntries DEF FoundInv, StatsTypes, Stats!Entries, Stats!Readable, Stats!Prune, Stats!With, Stats!Without
  <1>3. FilesInv'
    BY ReadEntries DEF FilesInv, FoundInv, StatsTypes, Stats!Readable, Stats!With, Stats!Without
  <1>4. WrittenInv'
    BY DEF WrittenInv, StatsTypes, FoundInv, Stats!Readable, Stats!With, Stats!Without
  <1> QED
    BY <1>1, <1>2, <1>3, <1>4

\* Who removes a _tables.json is remembered.
LEMMA RemoveTornKeeps ==
  ASSUME StatsInv, Stats!RemoveTorn
  PROVE  StatsInv'
  <1> USE DEF StatsInv, Stats!RemoveTorn, Stats!dirVars, Stats!callVars
  <1>1. StatsTypes'
    BY DEF StatsTypes, Stats!With, Stats!Without
  <1>2. FoundInv'
    BY ReadEntries DEF FoundInv, StatsTypes, Stats!Entries, Stats!Readable, Stats!Prune, Stats!With, Stats!Without
  <1>3. FilesInv'
    BY ReadEntries DEF FilesInv, FoundInv, StatsTypes, Stats!Readable, Stats!With, Stats!Without
  <1>4. WrittenInv'
    BY DEF WrittenInv, StatsTypes, FoundInv, Stats!Readable, Stats!With, Stats!Without
  <1> QED
    BY <1>1, <1>2, <1>3, <1>4

\* The files do not depend on the database.
LEMMA AlterKeeps ==
  ASSUME StatsInv, NEW t \in Table, Stats!Alter(t)
  PROVE  StatsInv'
  <1> USE DEF StatsInv, Stats!Alter, Stats!dirVars, Stats!callVars
  <1>1. StatsTypes'
    BY DEF StatsTypes, Stats!With, Stats!Without
  <1>2. FoundInv'
    BY ReadEntries DEF FoundInv, StatsTypes, Stats!Entries, Stats!Readable, Stats!Prune, Stats!With, Stats!Without
  <1>3. FilesInv'
    BY ReadEntries DEF FilesInv, FoundInv, StatsTypes, Stats!Readable, Stats!With, Stats!Without
  <1>4. WrittenInv'
    BY DEF WrittenInv, StatsTypes, FoundInv, Stats!Readable, Stats!With, Stats!Without
  <1> QED
    BY <1>1, <1>2, <1>3, <1>4

\* The invariant holds of a folder without statistics.
LEMMA InitStats == FolderInit => StatsInv
  <1> SUFFICES ASSUME Stats!Init PROVE StatsInv
    BY DEF FolderInit
  <1> USE DEF Stats!Init
  <1>1. StatsTypes
    BY Nothing DEF StatsTypes
  <1>2. FoundInv /\ WrittenInv
    BY DEF FoundInv, WrittenInv
  <1>3. FilesInv
    BY DEF FilesInv, Stats!Readable
  <1> QED
    BY <1>1, <1>2, <1>3 DEF StatsInv

\* Every step keeps the invariant; compare and fetch-missing touch nothing of it.
LEMMA NextStats == StatsInv /\ [FolderNext]_<<tool, vars, statsVars>> => StatsInv'
  <1> SUFFICES ASSUME StatsInv, [FolderNext]_<<tool, vars, statsVars>> PROVE StatsInv'
    OBVIOUS
  <1>1. CASE UNCHANGED statsVars
    <2> USE <1>1 DEF statsVars
    <2>1. StatsTypes'
      BY DEF StatsInv, StatsTypes
    <2>2. FoundInv'
      BY DEF StatsInv, FoundInv, Stats!Entries, Stats!Readable, Stats!Prune
    <2>3. FilesInv' /\ WrittenInv'
      BY DEF StatsInv, FilesInv, WrittenInv, Stats!Readable
    <2> QED
      BY <2>1, <2>2, <2>3 DEF StatsInv
  <1>2. CASE Stats!Next
    BY <1>2, BeginKeeps, CollectTableKeeps, CollectFailsKeeps, ReadExistingKeeps, UnlinkKeeps, TruncateTablesKeeps,
       WriteTablesKeeps, TruncateColumnsKeeps, WriteColumnsKeeps, EndKeeps, LeaveKeeps, CrashKeeps, RemoveTornKeeps,
       AlterKeeps DEF Stats!Next
  <1> QED
    BY <1>1, <1>2 DEF FolderNext

\* Every column file belongs to a listed table (ColumnFilesListed), whatever step of
\* write_stats (stats.py) a run has died in and however often it was run again, unless
\* a _tables.json that was cut off has been removed by hand.
THEOREM FilesCorrect == FolderSpec => []ColumnFilesListed
  <1>1. StatsInv => ColumnFilesListed
    BY DEF StatsInv, FilesInv, ColumnFilesListed, Stats!ColumnFilesListed
  <1> QED
    BY InitStats, NextStats, <1>1, PTL DEF FolderSpec

\* After a run get-stats reads what that run collected, and a run for some tables
\* leaves the others' entries and files alone (UpdateExact; write_stats and read_stats
\* of stats.py).
THEOREM UpdateCorrect == FolderSpec => []UpdateExact
  <1>1. StatsInv => UpdateExact
    <2> SUFFICES ASSUME StatsInv, step = "done"
                 PROVE  /\ rows # {} => Stats!ReadStats(rows) = tables
                        /\ \A t \in rows : listed[t] = run
                        /\ IF Stats!Prune THEN DOMAIN listed = rows /\ (lost \/ DOMAIN files = rows)
                           ELSE /\ \A t \in DOMAIN found[1] \ rows : t \in DOMAIN listed /\ listed[t] = found[1][t]
                                /\ \A t \in DOMAIN found[2] \ rows : t \in DOMAIN files /\ files[t] = found[2][t]
                                /\ DOMAIN listed = rows \cup DOMAIN found[1]
      BY DEF UpdateExact, Stats!UpdateExact
    <2>1. /\ Stats!Readable /\ DOMAIN listed = rows \cup DOMAIN existing /\ DOMAIN tables = rows
          /\ \A t \in rows : t \in DOMAIN files /\ files[t] = tables[t] /\ listed[t] = run
      BY DEF StatsInv, WrittenInv, FoundInv
    <2>2. \A t \in rows : files[t] # Torn
      BY <2>1, MarkAssumption DEF StatsInv, StatsTypes
    <2>3. rows # {} => Stats!ReadStats(rows) = tables
      <3> SUFFICES ASSUME rows # {} PROVE Stats!ReadStats(rows) = tables
        OBVIOUS
      <3>1. rows \subseteq DOMAIN Stats!Entries
        BY <2>1 DEF Stats!Entries
      <3>2. Stats!ReadStats(rows) = [t \in rows |-> files[t]]
        BY <2>1, <2>2, <3>1 DEF Stats!ReadStats
      <3> QED
        BY <2>1, <3>2 DEF StatsInv, StatsTypes
    <2>4. CASE Stats!Prune
      BY <2>1, <2>3, <2>4, Nothing DEF StatsInv, FoundInv, FilesInv
    <2>5. CASE ~Stats!Prune
      BY <2>1, <2>3, <2>5 DEF StatsInv, FoundInv, WrittenInv
    <2> QED
      BY <2>4, <2>5
  <1> QED
    BY InitStats, NextStats, <1>1, PTL DEF FolderSpec
-----------------------------------------------------------------------------
(* Folding statements and files *)

\* A set of numbers has a least one: what an induction here rests on.
LEMMA Least ==
  ASSUME NEW T, T \subseteq Nat, T # {}
  PROVE  \E x \in T : \A y \in T : x <= y
<1>1. \A x, y \in Nat : <<y, x>> \in OpToRel(<, Nat) <=> y < x
  BY DEF OpToRel
<1>2. IsWellFoundedOn(OpToRel(<, Nat), Nat)
  BY NatLessThanWellFounded
<1> DEFINE R == OpToRel(<, Nat)
<1> HIDE DEF R
<1>3. IsWellFoundedOn(R, Nat) /\ \A x, y \in Nat : <<y, x>> \in R <=> y < x
  BY <1>1, <1>2 DEF R
<1>4. PICK x \in T : \A y \in T : ~ (<<y, x>> \in R)
  BY <1>3, WFMin
<1>5. ASSUME NEW y \in T
      PROVE  x <= y
  <2>1. ~(y < x)
    BY <1>3, <1>4
  <2>2. x \in Nat /\ y \in Nat
    OBVIOUS
  <2> QED
    BY <2>1, <2>2
<1> QED
  BY <1>5

\* Induction over a set of numbers.
LEMMA Induction ==
  ASSUME NEW L \in Nat, NEW T, 0 \in T, \A n \in 0..L : n \in T /\ n < L => n + 1 \in T
  PROVE  0..L \subseteq T
<1> DEFINE F == {n \in 0..L : n \notin T}
<1> SUFFICES ASSUME F # {} PROVE FALSE
  OBVIOUS
<1>1. F \subseteq Nat
  OBVIOUS
<1>2. PICK x \in F : \A y \in F : x <= y
  <2> HIDE DEF F
  <2> QED
    BY <1>1, Least
<1>3. x \in 1..L
  OBVIOUS
<1>4. x - 1 \in 0..L /\ ~(x <= x - 1) /\ (x - 1) + 1 = x /\ x - 1 < L
  BY <1>3
<1>5. x - 1 \in T
  BY <1>2, <1>4
<1> QED
  BY <1>2, <1>4, <1>5

\* The greatest of some of the first numbers, when the last is among them.
LEMMA MaxLast ==
  ASSUME NEW m \in Nat, NEW S \in SUBSET (1..m), m \in S
  PROVE  Max(S) = m
<1>1. \A y \in S : m >= y
  OBVIOUS
<1>2. \A x \in S : (\A y \in S : x >= y) => x = m
  OBVIOUS
<1> QED
  BY <1>1, <1>2 DEF Max

\* The first n numbers are the first n - 1 and n.
LEMMA Firsts ==
  ASSUME NEW L \in Nat, NEW n \in 1..L
  PROVE  1..n \in SUBSET (1..L) /\ 1..n # {} /\ (1..n) \ {n} = 1..(n - 1)
<1>1. n \in 1..n /\ \A i \in 1..n : i \in 1..L
  OBVIOUS
<1>2. \A i : i \in (1..n) \ {n} <=> i \in 1..(n - 1)
  OBVIOUS
<1> QED
  BY <1>1, <1>2

\* What the statements make of a dict, one after the other.
Steps(g, first, stmts, dialect, L) ==
  /\ g[0] = first /\ g[L] = DeclareAll(first, stmts, dialect)
  /\ \A n \in 1..L : g[n] = Declare(g[n - 1], stmts[n], dialect)

\* The statements of a file are declared one after the other.
LEMMA DeclareSteps ==
  ASSUME NEW db0, NEW stmts, NEW L \in Nat, DOMAIN stmts = 1..L, NEW dialect
  PROVE  \E g : Steps(g, db0, stmts, dialect, L)
<1> DEFINE Body(g, m) == [s \in SUBSET (1..m) |->
             IF s = {} THEN db0 ELSE Declare(g[s \ {Max(s)}], stmts[Max(s)], dialect)]
           Has(m) == \E g : g = Body(g, m)
<1>1. Has(0)
  <2> DEFINE g == [s \in SUBSET (1..0) |-> db0]
  <2>1. \A s \in SUBSET (1..0) : s = {}
    OBVIOUS
  <2>2. g = Body(g, 0)
    BY <2>1
  <2> QED
    BY <2>2
<1>2. ASSUME NEW m \in Nat, Has(m)
      PROVE  Has(m + 1)
  <2>1. PICK g : g = Body(g, m)
    BY <1>2
  <2> DEFINE h == [s \in SUBSET (1..(m + 1)) |->
                IF m + 1 \in s THEN Declare(g[s \ {m + 1}], stmts[m + 1], dialect) ELSE g[s]]
  <2>2. ASSUME NEW s \in SUBSET (1..(m + 1))
        PROVE  h[s] = IF s = {} THEN db0 ELSE Declare(h[s \ {Max(s)}], stmts[Max(s)], dialect)
    <3>1. CASE m + 1 \in s
      <4>1. Max(s) = m + 1
        BY <3>1, MaxLast
      <4>2. s \ {m + 1} \in SUBSET (1..(m + 1)) /\ m + 1 \notin s \ {m + 1} /\ s # {}
        BY <3>1
      <4>3. h[s \ {m + 1}] = g[s \ {m + 1}]
        BY <4>2
      <4> QED
        BY <3>1, <4>1, <4>2, <4>3
    <3>2. CASE m + 1 \notin s
      <4>1. s \in SUBSET (1..m) /\ h[s] = g[s]
        BY <3>2
      <4>2. g[s] = IF s = {} THEN db0 ELSE Declare(g[s \ {Max(s)}], stmts[Max(s)], dialect)
        BY <2>1, <4>1
      <4>3. h[s \ {Max(s)}] = g[s \ {Max(s)}]
        BY <3>2
      <4> QED
        BY <4>1, <4>2, <4>3
    <3> QED
      BY <3>1, <3>2
  <2> HIDE DEF h
  <2>3. h = [s \in SUBSET (1..(m + 1)) |-> h[s]]
    BY DEF h
  <2>4. h = Body(h, m + 1)
    BY <2>2, <2>3
  <2> QED
    BY <2>4
<1>3. Has(L)
  <2> HIDE DEF Has
  <2> DEFINE T == {n \in Nat : Has(n)}
  <2>1. 0 \in T /\ \A n \in 0..L : n \in T /\ n < L => n + 1 \in T
    BY <1>1, <1>2
  <2>2. 0..L \subseteq T
    <3> HIDE DEF T
    <3> QED
      BY <2>1, Induction
  <2> QED
    BY <2>2
<1> DEFINE it == CHOOSE g : g = Body(g, L)
<1>4. it = Body(it, L)
  BY <1>3
<1>5. DeclareAll(db0, stmts, dialect) = it[1..L]
  BY DEF DeclareAll, FoldLeft, MapThenFoldSet
<1> HIDE DEF it
<1>6. \A s \in SUBSET (1..L) :
        it[s] = IF s = {} THEN db0 ELSE Declare(it[s \ {Max(s)}], stmts[Max(s)], dialect)
  BY <1>4
<1>7. it[1..0] = db0
  <2>1. 1..0 = {} /\ 1..0 \in SUBSET (1..L)
    OBVIOUS
  <2> QED
    BY <1>6, <2>1
<1>8. ASSUME NEW n \in 1..L
      PROVE  it[1..n] = Declare(it[1..(n - 1)], stmts[n], dialect)
  <2>1. 1..n \in SUBSET (1..L) /\ 1..n # {} /\ (1..n) \ {n} = 1..(n - 1)
    BY Firsts
  <2>2. Max(1..n) = n
    BY MaxLast
  <2> QED
    BY <1>6, <2>1, <2>2
<1> DEFINE g == [n \in 0..L |-> it[1..n]]
<1>9. /\ g[0] = db0 /\ g[L] = DeclareAll(db0, stmts, dialect)
      /\ \A n \in 1..L : g[n] = Declare(g[n - 1], stmts[n], dialect)
  <2>1. 0 \in 0..L /\ L \in 0..L /\ \A n \in 1..L : n \in 0..L /\ n - 1 \in 0..L
    OBVIOUS
  <2> QED
    BY <1>5, <1>7, <1>8, <2>1
<1> QED
  BY <1>9 DEF Steps

\* Is the file taken into account, and what does it add to what the earlier ones gave?
Read(t, filter, n) == PathOrder[n] \in DOMAIN t /\ InScope(t[PathOrder[n]], filter)
ReadNext(dict, t, filter, dialect, n) ==
  IF Read(t, filter, n) THEN ParseFile(dict, t[PathOrder[n]], dialect) ELSE dict

\* What the files make of a directory, one after the other.
Files(g, t, filter, dialect) ==
  /\ g[0] = <<>> /\ g[Len(PathOrder)] = ParseDirectory(t, filter, dialect)
  /\ \A n \in 1..Len(PathOrder) : g[n] = ReadNext(g[n - 1], t, filter, dialect, n)

\* There are finitely many paths.
LEMMA PathCount == Len(PathOrder) \in Nat /\ DOMAIN PathOrder = 1..Len(PathOrder)
  BY PathAssumption

\* The files of a directory are parsed one after the other.
LEMMA DirectorySteps ==
  ASSUME NEW t, NEW filter, NEW dialect
  PROVE  \E g : Files(g, t, filter, dialect)
<1> DEFINE L == Len(PathOrder)
           Body(g, m) == [n \in 0..m |-> IF n = 0 THEN <<>> ELSE ReadNext(g[n - 1], t, filter, dialect, n)]
           Has(m) == \E g : g = Body(g, m)
<1>1. Has(0)
  <2> DEFINE g == [n \in 0..0 |-> <<>>]
  <2>1. g = Body(g, 0)
    OBVIOUS
  <2> QED
    BY <2>1
<1>2. ASSUME NEW m \in Nat, Has(m)
      PROVE  Has(m + 1)
  <2>1. PICK g : g = Body(g, m)
    BY <1>2
  <2> DEFINE h == [n \in 0..(m + 1) |-> IF n = m + 1 THEN ReadNext(g[m], t, filter, dialect, n) ELSE g[n]]
  <2>2. ASSUME NEW n \in 0..(m + 1)
        PROVE  h[n] = IF n = 0 THEN <<>> ELSE ReadNext(h[n - 1], t, filter, dialect, n)
    <3>1. CASE n = m + 1
      <4>1. h[n] = ReadNext(g[m], t, filter, dialect, n) /\ h[n - 1] = g[m] /\ n # 0
        BY <3>1
      <4> QED
        BY <4>1
    <3>2. CASE n # m + 1
      <4>1. n \in 0..m /\ h[n] = g[n]
        BY <3>2
      <4>2. g[n] = IF n = 0 THEN <<>> ELSE ReadNext(g[n - 1], t, filter, dialect, n)
        BY <2>1, <4>1
      <4>3. n # 0 => h[n - 1] = g[n - 1]
        BY <4>1
      <4> QED
        BY <4>1, <4>2, <4>3
    <3> QED
      BY <3>1, <3>2
  <2> HIDE DEF h
  <2>3. h = [n \in 0..(m + 1) |-> h[n]]
    BY DEF h
  <2>4. h = Body(h, m + 1)
    BY <2>2, <2>3
  <2> QED
    BY <2>4
<1>3. Has(L)
  <2> HIDE DEF Has
  <2> DEFINE T == {n \in Nat : Has(n)}
  <2>1. 0 \in T /\ \A n \in 0..L : n \in T /\ n < L => n + 1 \in T
    BY <1>1, <1>2
  <2>2. 0..L \subseteq T
    <3> HIDE DEF T
    <3> QED
      BY <2>1, Induction, PathCount
  <2> QED
    BY <2>2, PathCount
<1> DEFINE g == CHOOSE f : f = Body(f, L)
<1>4. g = Body(g, L)
  BY <1>3
<1>5. ParseDirectory(t, filter, dialect) = g[L]
  BY DEF ParseDirectory, ReadNext, Read
<1> HIDE DEF g
<1>6. /\ g[0] = <<>> /\ g[L] = ParseDirectory(t, filter, dialect)
      /\ \A n \in 1..L : g[n] = ReadNext(g[n - 1], t, filter, dialect, n)
  BY <1>4, <1>5, PathCount
<1> QED
  BY <1>6 DEF Files
-----------------------------------------------------------------------------
(* One key at a time *)

\* Two dicts say the same of a key.
Agree(key, f, g) == (key \in DOMAIN f <=> key \in DOMAIN g) /\ (key \in DOMAIN f => f[key] = g[key])

\* A file says something of a key; its statements are a sequence.
Says(file, key) ==
  (\E i \in DOMAIN file.stmts : file.stmts[i].key = key) \/ (\E s \in file.block : s.key = key)
Sequenced(file) == \E L \in Nat : DOMAIN file.stmts = 1..L

\* Statements add to both dicts alike, and only what they name.
LEMMA FoldAgree ==
  ASSUME NEW key, NEW f, NEW g, Agree(key, f, g), NEW stmts, NEW dialect,
         NEW L \in Nat, DOMAIN stmts = 1..L
  PROVE  /\ Agree(key, DeclareAll(f, stmts, dialect), DeclareAll(g, stmts, dialect))
         /\ (\A i \in DOMAIN stmts : stmts[i].key # key) => Agree(key, f, DeclareAll(f, stmts, dialect))
<1>1. PICK a : Steps(a, f, stmts, dialect, L)
  BY DeclareSteps
<1>2. PICK b : Steps(b, g, stmts, dialect, L)
  BY DeclareSteps
<1> DEFINE T == {n \in 0..L : /\ Agree(key, a[n], b[n])
                              /\ (\A i \in DOMAIN stmts : stmts[i].key # key) => Agree(key, f, a[n])}
<1>3. 0 \in T
  BY <1>1, <1>2 DEF Agree, Steps
<1>4. ASSUME NEW n \in 0..L, n \in T, n < L
      PROVE  n + 1 \in T
  <2>1. n + 1 \in 1..L /\ n + 1 \in 0..L /\ (n + 1) - 1 = n
    BY <1>4
  <2>2. a[n + 1] = Declare(a[n], stmts[n + 1], dialect) /\ b[n + 1] = Declare(b[n], stmts[n + 1], dialect)
    BY <1>1, <1>2, <2>1 DEF Steps
  <2>3. Agree(key, a[n], b[n]) /\ ((\A i \in DOMAIN stmts : stmts[i].key # key) => Agree(key, f, a[n]))
    BY <1>4
  <2>4. Agree(key, a[n + 1], b[n + 1])
    BY <2>2, <2>3 DEF Agree, Declare, With
  <2>5. (\A i \in DOMAIN stmts : stmts[i].key # key) => Agree(key, f, a[n + 1])
    BY <2>1, <2>2, <2>3 DEF Agree, Declare, With
  <2> QED
    BY <2>1, <2>4, <2>5
<1>5. L \in T
  <2> HIDE DEF T
  <2>1. 0..L \subseteq T
    BY <1>3, <1>4, Induction
  <2> QED
    BY <2>1
<1> QED
  BY <1>1, <1>2, <1>5 DEF Steps

\* A key is there already, or one of the statements is of it.
Named(key, f, stmts, dialect) ==
  key \in DOMAIN f \/ (dialect = Postgres /\ \E i \in DOMAIN stmts : stmts[i].key = key)

\* Nothing is forgotten, and what is named is there.
LEMMA FoldHas ==
  ASSUME NEW key, NEW f, NEW stmts, NEW dialect, NEW L \in Nat, DOMAIN stmts = 1..L
  PROVE  Named(key, f, stmts, dialect) => key \in DOMAIN DeclareAll(f, stmts, dialect)
<1>1. PICK a : Steps(a, f, stmts, dialect, L)
  BY DeclareSteps
<1> DEFINE Has(n) == key \in DOMAIN f \/ (dialect = Postgres /\ \E i \in 1..n : stmts[i].key = key)
                       => key \in DOMAIN a[n]
           T == {n \in 0..L : Has(n)}
<1>2. 0 \in T
  BY <1>1 DEF Steps
<1>3. ASSUME NEW n \in 0..L, n \in T, n < L
      PROVE  n + 1 \in T
  <2>1. /\ n + 1 \in 1..L /\ n + 1 \in 0..L /\ (n + 1) - 1 = n
        /\ \A i \in 1..(n + 1) : i \in 1..n \/ i = n + 1
    BY <1>3
  <2>2. a[n + 1] = Declare(a[n], stmts[n + 1], dialect) /\ Has(n)
    BY <1>1, <1>3, <2>1 DEF Steps
  <2>3. DOMAIN a[n] \subseteq DOMAIN a[n + 1]
    BY <2>2 DEF Declare, With
  <2>4. dialect = Postgres => stmts[n + 1].key \in DOMAIN a[n + 1]
    BY <2>2 DEF Declare, With, Supported
  <2>5. Has(n + 1)
    BY <2>1, <2>2, <2>3, <2>4
  <2> QED
    BY <2>1, <2>5
<1>4. L \in T
  <2> HIDE DEF T
  <2>1. 0..L \subseteq T
    BY <1>2, <1>3, Induction
  <2> QED
    BY <2>1
<1> QED
  BY <1>1, <1>4 DEF Named, Steps

\* What a dict holds under a key, if anything, and what statements give it.
Valued(f, key, value) == key \in DOMAIN f => f[key] = value
Mean(stmts, key, value) == \A i \in DOMAIN stmts : stmts[i].key = key => Parsed(stmts[i]) = value

\* What is there has the meaning that all statements give it.
LEMMA FoldHolds ==
  ASSUME NEW key, NEW f, NEW stmts, NEW dialect, NEW L \in Nat, DOMAIN stmts = 1..L, NEW value,
         Valued(f, key, value), Mean(stmts, key, value)
  PROVE  Valued(DeclareAll(f, stmts, dialect), key, value)
<1>1. PICK a : Steps(a, f, stmts, dialect, L)
  BY DeclareSteps
<1> DEFINE T == {n \in 0..L : Valued(a[n], key, value)}
<1>2. 0 \in T
  BY <1>1 DEF Steps
<1>3. ASSUME NEW n \in 0..L, n \in T, n < L
      PROVE  n + 1 \in T
  <2>1. n + 1 \in 1..L /\ n + 1 \in 0..L /\ (n + 1) - 1 = n
    BY <1>3
  <2> DEFINE s == stmts[n + 1]
  <2>2. a[n + 1] = Declare(a[n], s, dialect) /\ Valued(a[n], key, value)
    BY <1>1, <1>3, <2>1 DEF Steps
  <2>3. s.key = key => Parsed(s) = value
    BY <2>1 DEF Mean
  <2> HIDE DEF s
  <2>4. Valued(a[n + 1], key, value)
    BY <2>2, <2>3 DEF Declare, With, Valued
  <2> QED
    BY <2>1, <2>4
<1>4. L \in T
  <2> HIDE DEF T
  <2>1. 0..L \subseteq T
    BY <1>2, <1>3, Induction
  <2> QED
    BY <2>1
<1> QED
  BY <1>1, <1>4 DEF Steps

\* The same of a file,
LEMMA FileAgree ==
  ASSUME NEW key, NEW f, NEW g, Agree(key, f, g), NEW file, Sequenced(file), NEW dialect
  PROVE  /\ Agree(key, ParseFile(f, file, dialect), ParseFile(g, file, dialect))
         /\ ~Says(file, key) => Agree(key, f, ParseFile(f, file, dialect))
<1>1. PICK L \in Nat : DOMAIN file.stmts = 1..L
  BY DEF Sequenced
<1>2. /\ Agree(key, DeclareAll(f, file.stmts, dialect), DeclareAll(g, file.stmts, dialect))
      /\ ~Says(file, key) => Agree(key, f, DeclareAll(f, file.stmts, dialect))
  BY <1>1, FoldAgree DEF Says
<1> QED
  BY <1>2 DEF Agree, ParseFile, Over, Says

\* and of what it holds.
LEMMA FileHas ==
  ASSUME NEW key, NEW f, NEW file, Sequenced(file), NEW dialect,
         key \in DOMAIN f \/ (dialect = Postgres /\ Says(file, key))
  PROVE  key \in DOMAIN ParseFile(f, file, dialect)
<1>1. PICK L \in Nat : DOMAIN file.stmts = 1..L
  BY DEF Sequenced
<1>2. Named(key, f, file.stmts, dialect) => key \in DOMAIN DeclareAll(f, file.stmts, dialect)
  BY <1>1, FoldHas
<1> QED
  BY <1>2 DEF ParseFile, Over, Says, Named

\* A file without DO blocks of a key gives it the meaning its statements do.
LEMMA FileHolds ==
  ASSUME NEW key, NEW f, NEW file, Sequenced(file), NEW dialect, NEW value,
         Valued(f, key, value), Mean(file.stmts, key, value), \A s \in file.block : s.key # key
  PROVE  Valued(ParseFile(f, file, dialect), key, value)
<1>1. PICK L \in Nat : DOMAIN file.stmts = 1..L
  BY DEF Sequenced
<1>2. Valued(DeclareAll(f, file.stmts, dialect), key, value)
  BY <1>1, FoldHolds
<1> QED
  BY <1>2 DEF ParseFile, Over, Valued
-----------------------------------------------------------------------------
(* Directories *)

\* The files that are read have sequences of statements.
Regular(t, filter) == \A n \in 1..Len(PathOrder) : Read(t, filter, n) => Sequenced(t[PathOrder[n]])

\* Two directories hold the same files, those apart that say nothing of a key.
Alike(key, t, filter, u, other) ==
  \A n \in 1..Len(PathOrder) :
    \/ Read(t, filter, n) /\ Read(u, other, n) /\ t[PathOrder[n]] = u[PathOrder[n]]
    \/ /\ Read(t, filter, n) => ~Says(t[PathOrder[n]], key)
       /\ Read(u, other, n) => ~Says(u[PathOrder[n]], key)

\* Then they declare it alike.
LEMMA DirectoryAgree ==
  ASSUME NEW key, NEW t, NEW filter, NEW u, NEW other, NEW dialect,
         Regular(t, filter), Regular(u, other), Alike(key, t, filter, u, other)
  PROVE  Agree(key, ParseDirectory(t, filter, dialect), ParseDirectory(u, other, dialect))
<1> DEFINE L == Len(PathOrder)
<1>1. PICK a : Files(a, t, filter, dialect)
  BY DirectorySteps
<1>2. PICK b : Files(b, u, other, dialect)
  BY DirectorySteps
<1> DEFINE T == {n \in 0..L : Agree(key, a[n], b[n])}
<1>3. L \in Nat
  BY PathCount
<1> HIDE DEF L
<1>4. 0 \in T
  BY <1>1, <1>2, <1>3 DEF Agree, Files
<1>5. ASSUME NEW n \in 0..L, n \in T, n < L
      PROVE  n + 1 \in T
  <2>1. n + 1 \in 1..L /\ n + 1 \in 0..L /\ (n + 1) - 1 = n
    BY <1>3, <1>5
  <2> DEFINE p == PathOrder[n + 1]
  <2>2. a[n + 1] = ReadNext(a[n], t, filter, dialect, n + 1) /\ b[n + 1] = ReadNext(b[n], u, other, dialect, n + 1)
    BY <1>1, <1>2, <2>1 DEF Files, L
  <2>3. Agree(key, a[n], b[n])
    BY <1>5
  <2>4. /\ Read(t, filter, n + 1) => Sequenced(t[p])
        /\ Read(u, other, n + 1) => Sequenced(u[p])
    BY <2>1 DEF Regular, L
  <2>5. CASE Read(t, filter, n + 1) /\ Read(u, other, n + 1) /\ t[p] = u[p]
    <3>1. a[n + 1] = ParseFile(a[n], t[p], dialect) /\ b[n + 1] = ParseFile(b[n], t[p], dialect)
      BY <2>2, <2>5 DEF ReadNext
    <3>2. Agree(key, a[n + 1], b[n + 1])
      BY <2>3, <2>4, <2>5, <3>1, FileAgree
    <3> QED
      BY <2>1, <3>2
  <2>6. CASE /\ Read(t, filter, n + 1) => ~Says(t[p], key)
             /\ Read(u, other, n + 1) => ~Says(u[p], key)
    <3>1. Agree(key, a[n], a[n]) /\ Agree(key, b[n], b[n])
      BY DEF Agree
    <3>2. Agree(key, a[n], a[n + 1])
      BY <2>2, <2>4, <2>6, <3>1, FileAgree DEF ReadNext
    <3>3. Agree(key, b[n], b[n + 1])
      BY <2>2, <2>4, <2>6, <3>1, FileAgree DEF ReadNext
    <3>4. Agree(key, a[n + 1], b[n + 1])
      BY <2>3, <3>2, <3>3 DEF Agree
    <3> QED
      BY <2>1, <3>4
  <2> QED
    BY <2>1, <2>5, <2>6 DEF Alike, L
<1>6. L \in T
  <2> HIDE DEF T
  <2>1. 0..L \subseteq T
    BY <1>3, <1>4, <1>5, Induction
  <2> QED
    BY <1>3, <2>1
<1> QED
  BY <1>1, <1>2, <1>6 DEF Files, L

\* What a file that is read says something of is declared.
LEMMA DirectoryHas ==
  ASSUME NEW key, NEW t, NEW filter, Regular(t, filter),
         NEW i \in 1..Len(PathOrder), Read(t, filter, i), Says(t[PathOrder[i]], key)
  PROVE  key \in DOMAIN ParseDirectory(t, filter, Postgres)
<1> DEFINE L == Len(PathOrder)
<1>1. PICK a : Files(a, t, filter, Postgres)
  BY DirectorySteps
<1> DEFINE T == {n \in 0..L : n >= i => key \in DOMAIN a[n]}
<1>2. L \in Nat
  BY PathCount
<1>3. i \in 1..L
  OBVIOUS
<1> HIDE DEF L
<1>4. 0 \in T
  BY <1>3, <1>2
<1>5. ASSUME NEW n \in 0..L, n \in T, n < L
      PROVE  n + 1 \in T
  <2>1. n + 1 \in 1..L /\ n + 1 \in 0..L /\ (n + 1) - 1 = n /\ (n + 1 >= i => n >= i \/ n + 1 = i)
    BY <1>3, <1>2, <1>5
  <2>2. a[n + 1] = ReadNext(a[n], t, filter, Postgres, n + 1)
    BY <1>1, <2>1 DEF Files, L
  <2>3. Read(t, filter, n + 1) => Sequenced(t[PathOrder[n + 1]])
    BY <2>1 DEF Regular, L
  <2>4. key \in DOMAIN a[n] => key \in DOMAIN a[n + 1]
    BY <2>2, <2>3, FileHas DEF ReadNext
  <2>5. n + 1 = i => key \in DOMAIN a[n + 1]
    BY <2>2, <2>3, FileHas DEF ReadNext
  <2>6. n >= i => key \in DOMAIN a[n]
    BY <1>5
  <2> QED
    BY <2>1, <2>4, <2>5, <2>6
<1>6. L \in T
  <2> HIDE DEF T
  <2>1. 0..L \subseteq T
    BY <1>2, <1>4, <1>5, Induction
  <2> QED
    BY <1>2, <2>1
<1> QED
  BY <1>3, <1>1, <1>2, <1>6 DEF Files, L

\* An object that the files that are read all give the same meaning has it.
LEMMA DirectoryHolds ==
  ASSUME NEW key, NEW t, NEW filter, NEW dialect, Regular(t, filter), NEW value,
         \A n \in 1..Len(PathOrder) : Read(t, filter, n) =>
           Mean(t[PathOrder[n]].stmts, key, value) /\ \A s \in t[PathOrder[n]].block : s.key # key
  PROVE  Valued(ParseDirectory(t, filter, dialect), key, value)
<1> DEFINE L == Len(PathOrder)
<1>1. PICK a : Files(a, t, filter, dialect)
  BY DirectorySteps
<1> DEFINE T == {n \in 0..L : Valued(a[n], key, value)}
<1>2. L \in Nat
  BY PathCount
<1>3. 0 \in T
  BY <1>1, <1>2, Nothing DEF Valued, Files
<1>4. ASSUME NEW n \in 0..L, n \in T, n < L
      PROVE  n + 1 \in T
  <2>1. n + 1 \in 1..L /\ n + 1 \in 0..L /\ (n + 1) - 1 = n
    BY <1>2, <1>4
  <2>2. a[n + 1] = ReadNext(a[n], t, filter, dialect, n + 1) /\ Valued(a[n], key, value)
    BY <1>1, <1>4, <2>1 DEF Files
  <2>3. Read(t, filter, n + 1) => /\ Sequenced(t[PathOrder[n + 1]]) /\ Mean(t[PathOrder[n + 1]].stmts, key, value)
                                  /\ \A s \in t[PathOrder[n + 1]].block : s.key # key
    BY <2>1 DEF Regular
  <2>4. Valued(a[n + 1], key, value)
    BY <2>2, <2>3, FileHolds DEF ReadNext
  <2> QED
    BY <2>1, <2>4
<1>5. L \in T
  <2> HIDE DEF T, L
  <2>1. 0..L \subseteq T
    BY <1>2, <1>3, <1>4, Induction
  <2> QED
    BY <1>2, <2>1
<1> QED
  BY <1>1, <1>5 DEF Files
-----------------------------------------------------------------------------
(* What is loaded, and what a fetched file says *)

\* Without a filter every file is read.
LEMMA AllInScope == ASSUME NEW file PROVE InScope(file, NoFilter)
  BY DEF InScope, NoFilter, Allowed

\* The key of an index is one.
LEMMA IndexKey == ASSUME NEW id, TypeOf(id) = "index" PROVE TypeOf(KeyOf(id)) = "index"
<1>1. <<"index", "", id[3]>>[1] = "index"
  OBVIOUS
<1>2. KeyOf(id) = <<"index", "", id[3]>>
  BY DEF KeyOf
<1> QED
  BY <1>1, <1>2 DEF TypeOf

\* What is found is of the type that was asked for; but for indexes, it is found
\* under the name it has.
LEMMA LoadFinds ==
  ASSUME NEW objects, NEW type, NEW dialect, NEW key \in DOMAIN Load(objects, type, dialect)
  PROVE  /\ TypeOf(key) = type
         /\ type # "index" => /\ key \in DOMAIN objects /\ Visible(key, objects[key], type)
                              /\ Load(objects, type, dialect)[key] = Introspected(key, objects[key], dialect)
<1> DEFINE ids == {id \in DOMAIN objects : Visible(id, objects[id], type)}
           Row(k) == CHOOSE id \in ids : KeyOf(id) = k
<1>1. Supported(type, dialect)
  <2> SUFFICES ASSUME ~Supported(type, dialect) PROVE FALSE
    OBVIOUS
  <2>1. Load(objects, type, dialect) = <<>>
    BY DEF Load
  <2> QED
    BY <2>1, Nothing
<1>2. Load(objects, type, dialect)
        = [k \in {KeyOf(id) : id \in ids} |-> Introspected(Row(k), objects[Row(k)], dialect)]
  BY <1>1 DEF Load
<1>3. PICK id \in ids : key = KeyOf(id)
  BY <1>2
<1>4. TypeOf(key) = type
  BY <1>3 DEF KeyOf, TypeOf, Visible
<1>5. ASSUME type # "index"
      PROVE  Row(key) = key /\ key \in ids
  <2>1. \A x \in ids : KeyOf(x) = x
    BY <1>5 DEF KeyOf, Visible
  <2> QED
    BY <1>3, <2>1
<1> QED
  BY <1>2, <1>4, <1>5

\* All that can be seen is found.
LEMMA LoadSees ==
  ASSUME NEW objects, NEW type, NEW dialect, Supported(type, dialect), type # "index",
         NEW key \in DOMAIN objects, Visible(key, objects[key], type)
  PROVE  key \in DOMAIN Load(objects, type, dialect)
<1> DEFINE ids == {id \in DOMAIN objects : Visible(id, objects[id], type)}
           Row(k) == CHOOSE id \in ids : KeyOf(id) = k
<1>1. Load(objects, type, dialect)
        = [k \in {KeyOf(id) : id \in ids} |-> Introspected(Row(k), objects[Row(k)], dialect)]
  BY DEF Load
<1>2. key \in ids /\ KeyOf(key) = key
  BY DEF KeyOf, Visible
<1> QED
  BY <1>1, <1>2

\* A sequence made of a finite set is of its members.
LEMMA SetSequence ==
  ASSUME NEW S, IsFiniteSet(S)
  PROVE  SetToSeq(S) \in Seq(S)
<1>1. Cardinality(S) \in Nat /\ ExistsBijection(1..Cardinality(S), S)
  BY FS_CardinalityType
<1>2. \E f \in [1..Cardinality(S) -> S] : IsInjective(f)
  BY <1>1 DEF ExistsBijection, Bijection, Injection
<1>3. SetToSeq(S) \in [1..Cardinality(S) -> S]
  BY <1>2 DEF SetToSeq
<1> QED
  BY <1>1, <1>3

\* The statements of a fetched object's file: the object, then its indexes.
LEMMA DdlStatements ==
  ASSUME catalog \in Catalogs \cup Changed, NEW key \in DOMAIN catalog
  PROVE  \E L \in Nat \ {0} :
           /\ DOMAIN Ddl(key) = 1..L /\ Ddl(key)[1].key = key
           /\ \A i \in 2..L : TypeOf(Ddl(key)[i].key) = "index"
           /\ TypeOf(key) = "table" =>
                Ddl(key)[1].def = [catalog[key].def EXCEPT !.partition = FALSE,
                  !.columns = [c \in DOMAIN catalog[key].def.columns |-> [catalog[key].def.columns[c] EXCEPT
                    !.notnull = catalog[key].def.columns[c].notnull /\ ~catalog[key].def.columns[c].identity]]]
           /\ TypeOf(key) # "table" => Ddl(key)[1].def = catalog[key].def
<1>1. CASE TypeOf(key) # "table"
  <2>1. Ddl(key) = <<[key |-> key, def |-> catalog[key].def]>>
    BY <1>1 DEF Ddl
  <2>2. DOMAIN Ddl(key) = 1..1 /\ Ddl(key)[1] = [key |-> key, def |-> catalog[key].def]
    BY <2>1
  <2>3. 1 \in Nat \ {0} /\ 2..1 = {}
    OBVIOUS
  <2>4. Ddl(key)[1].key = key /\ Ddl(key)[1].def = catalog[key].def
    BY <2>2
  <2> QED
    BY <1>1, <2>2, <2>3, <2>4
<1>2. CASE TypeOf(key) = "table"
  <2> DEFINE def == catalog[key].def
             indexes == {id \in DOMAIN catalog :
               /\ TypeOf(id) = "index" /\ ~catalog[id].constraint
               /\ <<"table", catalog[id].def.schema, catalog[id].def.table>> = key}
             table == [key |-> key, def |-> [def EXCEPT !.partition = FALSE,
                         !.columns = [c \in DOMAIN def.columns |-> [def.columns[c] EXCEPT
                           !.notnull = def.columns[c].notnull /\ ~def.columns[c].identity]]]]
             stmts == {[key |-> KeyOf(id), def |-> catalog[id].def] : id \in indexes}
  <2>1. Ddl(key) = <<table>> \o SetToSeq(stmts)
    BY <1>2 DEF Ddl, TableDdl
  <2>2. IsFiniteSet(stmts)
    <3>1. IsFiniteSet(DOMAIN catalog)
      BY CatalogAssumption
    <3>2. IsFiniteSet(indexes)
      BY <3>1, FS_Subset
    <3> DEFINE f == [id \in indexes |-> [key |-> KeyOf(id), def |-> catalog[id].def]]
    <3>3. f \in Surjection(indexes, stmts)
      BY DEF Surjection
    <3> QED
      BY <3>2, <3>3, FS_Surjection
  <2>3. ASSUME NEW s \in stmts
        PROVE  TypeOf(s.key) = "index"
    <3>1. PICK id \in indexes : s = [key |-> KeyOf(id), def |-> catalog[id].def]
      OBVIOUS
    <3>2. s.key = KeyOf(id) /\ TypeOf(id) = "index"
      BY <3>1
    <3> QED
      BY <3>2, IndexKey
  <2>4. table.key = key /\ table.def = [def EXCEPT !.partition = FALSE,
                         !.columns = [c \in DOMAIN def.columns |-> [def.columns[c] EXCEPT
                           !.notnull = def.columns[c].notnull /\ ~def.columns[c].identity]]]
    OBVIOUS
  <2> DEFINE rest == SetToSeq(stmts)
  <2>5. rest \in Seq(stmts)
    BY <2>2, SetSequence
  <2> HIDE DEF table, stmts, rest
  <2>6. /\ Len(rest) \in Nat /\ DOMAIN Ddl(key) = 1..(Len(rest) + 1) /\ Ddl(key)[1] = table
        /\ \A i \in 2..(Len(rest) + 1) : Ddl(key)[i] \in stmts
    <3>1. Ddl(key) = <<table>> \o rest
      BY <2>1 DEF rest
    <3>2. \A i \in 2..(Len(rest) + 1) : Ddl(key)[i] = rest[i - 1] /\ i - 1 \in 1..Len(rest)
      BY <2>5, <3>1
    <3> QED
      BY <2>5, <3>1, <3>2
  <2>7. Len(rest) + 1 \in Nat \ {0}
    BY <2>6
  <2> QED
    BY <1>2, <2>3, <2>4, <2>6, <2>7
<1> QED
  BY <1>1, <1>2
-----------------------------------------------------------------------------
(* Fetching keeps what is tracked *)

Was == ParseDirectory(before, NoFilter, Postgres)
Fetchable(key) == TypeOf(key) \in {"table", "view", "function"}
Nameless(dict) == \A key \in DOMAIN dict : TypeOf(key) = "table" => "" \notin DOMAIN dict[key].columns

\* What a file that fetch-missing writes may say: nothing of a tracked object,
\* indexes aside.
Fresh(file) ==
  /\ Sequenced(file) /\ file.block = {}
  /\ \A i \in DOMAIN file.stmts :
       TypeOf(file.stmts[i].key) = "index" \/ file.stmts[i].key \notin DOMAIN Was

KeptInv ==
  /\ catalog \in Catalogs \cup Changed /\ command \in Command /\ before \in Folders
  /\ DOMAIN before \subseteq DOMAIN tree /\ \A p \in DOMAIN before : tree[p] = before[p]
  /\ \A p \in DOMAIN tree \ DOMAIN before : Fresh(tree[p])
  /\ pc \in {"parse", "load"} => tree = before
  /\ pc # "parse" => scripts = ParseDirectory(before, Filter, command.dialect)
  /\ Nameless(db)
  /\ \A m \in missing : Fetchable(m.key) /\ m.key \notin DOMAIN Was

\* The files of a folder to start from are regular, and stay so.
LEMMA BeforeRegular == ASSUME KeptInv, NEW p \in DOMAIN before PROVE Sequenced(before[p])
<1>1. before[p].stmts \in Seq(Range(before[p].stmts))
  BY FolderAssumption DEF KeptInv
<1>2. Len(before[p].stmts) \in Nat /\ DOMAIN before[p].stmts = 1..Len(before[p].stmts)
  BY <1>1
<1> QED
  BY <1>2 DEF Sequenced

\* What is in the folder now is regular, too.
LEMMA TreeRegular ==
  ASSUME KeptInv, NEW filter
  PROVE  Regular(before, filter) /\ Regular(tree, filter)
<1>1. \A p \in DOMAIN before : Sequenced(before[p])
  BY BeforeRegular
<1>2. \A p \in DOMAIN tree : Sequenced(tree[p])
  BY <1>1 DEF KeptInv, Fresh
<1> QED
  BY <1>1, <1>2 DEF Regular, Read

\* New files say nothing of what is tracked, so it stays what it is.
LEMMA KeptFollows == KeptInv => TrackedKept
<1> SUFFICES ASSUME KeptInv, NEW key \in DOMAIN Was, TypeOf(key) # "index"
             PROVE  /\ key \in DOMAIN ParseDirectory(tree, NoFilter, Postgres)
                    /\ ParseDirectory(tree, NoFilter, Postgres)[key] = Was[key]
  BY DEF TrackedKept, Was
<1>1. Alike(key, before, NoFilter, tree, NoFilter)
  <2> SUFFICES ASSUME NEW n \in 1..Len(PathOrder)
               PROVE  \/ /\ Read(before, NoFilter, n) /\ Read(tree, NoFilter, n)
                         /\ before[PathOrder[n]] = tree[PathOrder[n]]
                      \/ /\ Read(before, NoFilter, n) => ~Says(before[PathOrder[n]], key)
                         /\ Read(tree, NoFilter, n) => ~Says(tree[PathOrder[n]], key)
    BY DEF Alike
  <2> DEFINE p == PathOrder[n]
  <2>1. CASE p \in DOMAIN before
    BY <2>1, AllInScope DEF Read, KeptInv
  <2>2. CASE p \in DOMAIN tree \ DOMAIN before
    <3>1. Fresh(tree[p])
      BY <2>2 DEF KeptInv
    <3>2. ~Says(tree[p], key)
      BY <3>1 DEF Fresh, Says
    <3> QED
      BY <2>2, <3>2 DEF Read
  <2>3. CASE p \notin DOMAIN tree /\ p \notin DOMAIN before
    BY <2>3 DEF Read
  <2> QED
    BY <2>1, <2>2, <2>3
<1>2. Agree(key, Was, ParseDirectory(tree, NoFilter, Postgres))
  BY <1>1, TreeRegular, DirectoryAgree DEF Was
<1> QED
  BY <1>2 DEF Agree

\* At first the folder is what the command finds.
LEMMA KeptInit == Init => KeptInv
<1> SUFFICES ASSUME Init PROVE KeptInv
  OBVIOUS
<1>1. DOMAIN db = {}
  BY Nothing DEF Init
<1> QED
  BY <1>1 DEF Init, KeptInv, Nameless

\* parse_directory reads that folder.
LEMMA ParseKept == ASSUME KeptInv, Parse PROVE KeptInv'
<1> USE DEF Parse, runVars, doneVars
<1>1. Was' = Was
  BY DEF Was
<1>2. Filter' = Filter
  BY DEF Filter
<1>3. \A file : Fresh(file) => Fresh(file)'
  BY <1>1 DEF Fresh
<1> QED
  BY <1>1, <1>2, <1>3 DEF KeptInv, Nameless

\* Every column that is loaded has a name.
LEMMA LoadNameless ==
  ASSUME catalog \in Catalogs \cup Changed, NEW type, NEW dialect
  PROVE  Nameless(Load(catalog, type, dialect))
<1> SUFFICES ASSUME NEW key \in DOMAIN Load(catalog, type, dialect), TypeOf(key) = "table"
             PROVE  "" \notin DOMAIN Load(catalog, type, dialect)[key].columns
  BY DEF Nameless
<1>1. /\ key \in DOMAIN catalog
      /\ Load(catalog, type, dialect)[key] = Introspected(key, catalog[key], dialect)
  BY LoadFinds
<1>2. Load(catalog, type, dialect)[key] = IntrospectedTable(catalog[key].def, dialect)
  BY <1>1 DEF Introspected
<1>3. DOMAIN Load(catalog, type, dialect)[key].columns = DOMAIN catalog[key].def.columns
  BY <1>2 DEF IntrospectedTable
<1> QED
  BY <1>1, <1>3, CatalogAssumption DEF CatalogTable

\* Loading adds only tables whose columns have names.
LEMMA LoadNextKept == ASSUME KeptInv, LoadNext PROVE KeptInv'
<1> USE DEF LoadNext, doneVars
<1>1. Was' = Was
  BY DEF Was
<1>2. Filter' = Filter
  BY DEF Filter
<1>3. \A file : Fresh(file) => Fresh(file)'
  BY <1>1 DEF Fresh
<1>4. Nameless(db')
  <2> DEFINE new == Load(catalog, LoadOrder[at + 1], command.dialect)
  <2>1. Nameless(new)
    BY LoadNameless DEF KeptInv
  <2>2. db' = Over(new, db) /\ Nameless(db)
    BY DEF KeptInv
  <2> HIDE DEF new
  <2> QED
    BY <2>1, <2>2 DEF Over, Nameless
<1>5. Nameless(db)'
  BY <1>4 DEF Nameless
<1> QED
  BY <1>1, <1>2, <1>3, <1>5 DEF KeptInv

\* What an entry of a comparison is of.
LEMMA InEntries ==
  ASSUME NEW kind, NEW keys, NEW e \in Entries(kind, keys)
  PROVE  e[1] = kind /\ e[2] \in keys /\ e[3] = ""
<1>1. PICK k \in keys : e = <<kind, k, "">>
  BY DEF Entries
<1>2. <<kind, k, "">>[1] = kind /\ <<kind, k, "">>[2] = k /\ <<kind, k, "">>[3] = ""
  OBVIOUS
<1> QED
  BY <1>1, <1>2

\* An entry about a table; one that is of a column only the database has.
LEMMA InDiffTable ==
  ASSUME NEW key, NEW s, NEW d, NEW e \in DiffTable(key, s, d)
  PROVE  e[2] = key /\ (e[1] = "missing_in_scripts" => e[3] \in DOMAIN d.columns)
<1>1. PICK kind, c : /\ e = <<kind, key, c>>
                     /\ kind = "missing_in_scripts" => c \in DOMAIN d.columns
  <2>1. "missing_in_db" # "missing_in_scripts" /\ "mismatch" # "missing_in_scripts"
    OBVIOUS
  <2>2. \/ \E c \in DOMAIN s.columns : e = <<"missing_in_db", key, c>>
        \/ \E c \in DOMAIN s.columns : e = <<"mismatch", key, c>>
        \/ \E c \in DOMAIN d.columns : e = <<"missing_in_scripts", key, c>>
    BY Zenon DEF DiffTable
  <2> QED
    BY <2>1, <2>2
<1>2. <<kind, key, c>>[1] = kind /\ <<kind, key, c>>[2] = key /\ <<kind, key, c>>[3] = c
  OBVIOUS
<1> QED
  BY <1>1, <1>2

\* Objects that both sides have are reported as missing only by their columns.
LEMMA InDiffObject ==
  ASSUME NEW key, NEW s, NEW d, NEW e \in DiffObject(key, s, d)
  PROVE  /\ e[2] = key
         /\ e[1] = "missing_in_scripts" => TypeOf(key) = "table" /\ e[3] \in DOMAIN d.columns
<1>1. \/ TypeOf(key) = "table" /\ e \in DiffTable(key, s, d)
      \/ e \in Entries("mismatch", {key})
  BY Zenon DEF DiffObject
<1>2. ASSUME e \in Entries("mismatch", {key})
      PROVE  e[1] = "mismatch" /\ e[2] = key
  BY <1>2, InEntries
<1> QED
  BY <1>1, <1>2, InDiffTable

\* The three sources of entries.
LEMMA InDiff ==
  ASSUME NEW s, NEW d, NEW extra, NEW e
  PROVE  e \in Diff(s, d, extra) <=>
           \/ \E k \in DOMAIN s \cap DOMAIN d : e \in DiffObject(k, s[k], d[k])
           \/ e \in Entries("missing_in_db", Reported(s, d))
           \/ extra /\ e \in Entries("missing_in_scripts", Reported(d, s))
<1> DEFINE both == UNION {DiffObject(k, s[k], d[k]) : k \in DOMAIN s \cap DOMAIN d}
           less == Entries("missing_in_db", Reported(s, d))
           more == Entries("missing_in_scripts", Reported(d, s))
<1>1. Diff(s, d, extra) = both \cup less \cup (IF extra THEN more ELSE {})
  BY DEF Diff
<1>2. e \in both <=> \E k \in DOMAIN s \cap DOMAIN d : e \in DiffObject(k, s[k], d[k])
  OBVIOUS
<1> HIDE DEF both, less, more
<1>3. e \in Diff(s, d, extra) <=> e \in both \/ e \in less \/ (extra /\ e \in more)
  BY <1>1
<1> QED
  BY <1>2, <1>3 DEF less, more

\* Whatever is reported as missing in the scripts, columns aside, the database
\* has and they do not.
LEMMA ReportedMissing ==
  ASSUME NEW s, NEW d, Nameless(d), NEW extra, NEW e \in Diff(s, d, extra),
         e[1] = "missing_in_scripts", e[3] = ""
  PROVE  extra /\ e[2] \in Reported(d, s)
<1>1. ASSUME NEW k \in DOMAIN s \cap DOMAIN d, e \in DiffObject(k, s[k], d[k])
      PROVE  FALSE
  <2>1. TypeOf(k) = "table" /\ e[3] \in DOMAIN d[k].columns
    BY <1>1, InDiffObject
  <2> QED
    BY <2>1 DEF Nameless
<1>2. e \notin Entries("missing_in_db", Reported(s, d))
  BY InEntries
<1>3. extra /\ e \in Entries("missing_in_scripts", Reported(d, s))
  BY <1>1, <1>2, InDiff
<1> QED
  BY <1>3, InEntries

\* What is missing is what no tracked file declares.
LEMMA CompareKept == ASSUME KeptInv, Compare PROVE KeptInv'
<1> USE DEF Compare, doneVars
<1>1. Was' = Was
  BY DEF Was
<1>2. Filter' = Filter
  BY DEF Filter
<1>3. \A file : Fresh(file) => Fresh(file)'
  BY <1>1 DEF Fresh
<1>4. ASSUME NEW m \in missing'
      PROVE  Fetchable(m.key) /\ m.key \notin DOMAIN Was
  <2>1. command.name = "fetch"
    BY <1>4
  <2>2. PICK e \in Diff(scripts, db, Extra) :
          e[1] = "missing_in_scripts" /\ e[3] = "" /\ Wanted(e[2]) /\ m.key = e[2]
    <3>1. missing' = {[key |-> e[2], sub |-> Sub(catalog, e[2])] : e \in
            {d \in Diff(scripts, db, Extra) : d[1] = "missing_in_scripts" /\ d[3] = "" /\ Wanted(d[2])}}
      BY <2>1
    <3>2. PICK e \in {d \in Diff(scripts, db, Extra) :
                        d[1] = "missing_in_scripts" /\ d[3] = "" /\ Wanted(d[2])} :
            m = [key |-> e[2], sub |-> Sub(catalog, e[2])]
      BY <1>4, <3>1
    <3> QED
      BY <3>2
  <2>3. e[2] \in DOMAIN db \ DOMAIN scripts
    BY <2>2, ReportedMissing DEF KeptInv, Reported
  <2>4. scripts = Was
    BY <2>1, CommandAssumption DEF KeptInv, Was, Filter
  <2> QED
    BY <2>2, <2>3, <2>4 DEF Wanted, Fetchable
<1>5. pc' \in {"write", "done"}
  OBVIOUS
<1> QED
  BY <1>1, <1>2, <1>3, <1>4, <1>5 DEF KeptInv, Nameless

\* A new file holds what was missing, and its indexes.
LEMMA WriteKept == ASSUME KeptInv, NEW m \in missing, Write(m) PROVE KeptInv'
<1> USE DEF Taken, runVars
<1>1. Was' = Was
  BY DEF Was, Write
<1>2. Filter' = Filter
  BY DEF Filter, Write
<1>3. \A file : Fresh(file) => Fresh(file)'
  BY <1>1 DEF Fresh
<1>4. /\ DOMAIN before \subseteq DOMAIN tree' /\ \A p \in DOMAIN before : tree'[p] = before[p]
      /\ \A p \in DOMAIN tree' \ DOMAIN before : Fresh(tree'[p])
  <2>1. CASE tree' = tree
    BY <2>1 DEF KeptInv
  <2>2. CASE tree' # tree
    <3>1. PICK dest : /\ dest \notin DOMAIN tree /\ Reconstructible(m.key)
                      /\ tree' = With(tree, dest, Fetched(m.key))
      BY <2>2 DEF Write
    <3> DEFINE file == Fetched(m.key)
    <3>2. m.key \in DOMAIN catalog
      BY <3>1 DEF Reconstructible
    <3>3. PICK L \in Nat \ {0} : /\ DOMAIN Ddl(m.key) = 1..L /\ Ddl(m.key)[1].key = m.key
                                 /\ \A i \in 2..L : TypeOf(Ddl(m.key)[i].key) = "index"
      BY <3>2, DdlStatements DEF KeptInv
    <3>4. \A i \in 1..L : i = 1 \/ i \in 2..L
      OBVIOUS
    <3>5. Fresh(file)
      BY <3>3, <3>4 DEF Fresh, Sequenced, KeptInv, Fetched
    <3> HIDE DEF file
    <3>6. tree' = With(tree, dest, file)
      BY <3>1 DEF file
    <3> QED
      BY <3>1, <3>5, <3>6 DEF With, KeptInv
  <2> QED
    BY <2>1, <2>2
<1>5. /\ catalog' = catalog /\ command' = command /\ before' = before /\ scripts' = scripts /\ db' = db
      /\ pc = "write" /\ pc' \in {"write", "done"} /\ missing' \subseteq missing
  BY DEF Write
<1> QED
  BY <1>1, <1>2, <1>3, <1>4, <1>5 DEF KeptInv, Nameless

\* Others change the database, not the folder.
LEMMA AlterKept == ASSUME KeptInv, Alter PROVE KeptInv'
<1> USE DEF Alter, runVars, doneVars
<1>1. Was' = Was
  BY DEF Was
<1>2. Filter' = Filter
  BY DEF Filter
<1>3. \A file : Fresh(file) => Fresh(file)'
  BY <1>1 DEF Fresh
<1> QED
  BY <1>1, <1>2, <1>3 DEF KeptInv, Nameless

\* Nor does update-stats change anything here.
LEMMA SameKept == ASSUME KeptInv, UNCHANGED vars PROVE KeptInv'
<1> USE DEF vars, runVars, doneVars
<1>1. Was' = Was
  BY DEF Was
<1>2. Filter' = Filter
  BY DEF Filter
<1>3. \A file : Fresh(file) => Fresh(file)'
  BY <1>1 DEF Fresh
<1> QED
  BY <1>1, <1>2, <1>3 DEF KeptInv, Nameless

\* Every step keeps the invariant.
LEMMA NextKept == KeptInv /\ [FolderNext]_<<tool, vars, statsVars>> => KeptInv'
<1> SUFFICES ASSUME KeptInv, [FolderNext]_<<tool, vars, statsVars>> PROVE KeptInv'
  OBVIOUS
<1>1. CASE UNCHANGED vars
  BY <1>1, SameKept
<1>2. CASE Next
  BY <1>2, ParseKept, LoadNextKept, CompareKept, WriteKept, AlterKept DEF Next
<1> QED
  BY <1>1, <1>2 DEF FolderNext

\* Fetching never changes what a tracked object is declared as (TrackedKept; write_objects
\* of fetch_missing.py and parse_directory of parser.py), for any folder, any catalog and
\* any change of it, wherever the new files sort.
THEOREM Tracked == FolderSpec => []TrackedKept
<1>1. FolderInit => KeptInv
  BY KeptInit DEF FolderInit
<1> QED
  BY <1>1, NextKept, KeptFollows, PTL DEF FolderSpec
-----------------------------------------------------------------------------
(* A filtered comparison *)

\* What has been loaded of the first n types, when nobody changes the database.
Loaded(dict, n, dialect) ==
  /\ DOMAIN dict = UNION {DOMAIN Load(catalog, LoadOrder[i], dialect) : i \in 1..n}
  /\ \A key \in DOMAIN dict : dict[key] = Load(catalog, TypeOf(key), dialect)[key]

LoadedInv ==
  /\ at \in 0..Len(LoadOrder) /\ (pc = "parse" => at = 0)
  /\ changes = 0 => Loaded(db, at, command.dialect)
  /\ pc \in {"write", "done"} => at = Len(LoadOrder) /\ report = Diff(scripts, db, Extra)
  /\ command.name = "compare" => tree = before /\ missing = {}

\* There are seven types of objects.
LEMMA LoadOrderLength == Len(LoadOrder) = 7 /\ DOMAIN LoadOrder = 1..7
  BY DEF LoadOrder

\* At first nothing has been loaded.
LEMMA LoadedInit == Init => LoadedInv
<1> SUFFICES ASSUME Init PROVE LoadedInv
  OBVIOUS
<1>1. DOMAIN db = {} /\ 1..0 = {}
  BY Nothing DEF Init
<1>2. Loaded(db, 0, command.dialect)
  BY <1>1 DEF Loaded
<1> QED
  BY <1>2, LoadOrderLength DEF Init, LoadedInv

\* The next type adds its objects to those of the earlier ones.
LEMMA LoadNextLoaded == ASSUME LoadedInv, LoadNext PROVE LoadedInv'
<1> USE DEF LoadNext, doneVars
<1>1. at + 1 \in 1..Len(LoadOrder) /\ at' = at + 1 /\ at' \in 0..Len(LoadOrder)
      /\ 1..(at + 1) = (1..at) \cup {at + 1}
  BY LoadOrderLength DEF LoadedInv
<1>2. ASSUME changes = 0
      PROVE  Loaded(db, at, command.dialect)'
  <2> DEFINE type == LoadOrder[at + 1]
             d == command.dialect
             new == Load(catalog, type, d)
  <2>1. Loaded(db, at, d)
    BY <1>2 DEF LoadedInv
  <2>2. \A key \in DOMAIN new : TypeOf(key) = type
    BY LoadFinds
  <2>3. db' = Over(new, db)
    OBVIOUS
  <2>4. \A key \in DOMAIN new : new[key] = Load(catalog, TypeOf(key), d)[key]
    BY <2>2
  <2>5. UNION {DOMAIN Load(catalog, LoadOrder[i], d) : i \in 1..(at + 1)}
          = DOMAIN new \cup UNION {DOMAIN Load(catalog, LoadOrder[i], d) : i \in 1..at}
    BY <1>1
  <2> HIDE DEF new
  <2>6. DOMAIN db' = DOMAIN new \cup DOMAIN db
        /\ \A key \in DOMAIN db' : db'[key] = IF key \in DOMAIN new THEN new[key] ELSE db[key]
    BY <2>3 DEF Over
  <2>7. DOMAIN db' = UNION {DOMAIN Load(catalog, LoadOrder[i], d) : i \in 1..(at + 1)}
    BY <2>1, <2>5, <2>6 DEF Loaded
  <2>8. \A key \in DOMAIN db' : db'[key] = Load(catalog, TypeOf(key), d)[key]
    BY <2>1, <2>4, <2>6 DEF Loaded
  <2> QED
    BY <2>7, <2>8 DEF Loaded
<1> QED
  BY <1>1, <1>2 DEF LoadedInv

\* The other steps load nothing.
LEMMA OthersLoaded ==
  ASSUME KeptInv, LoadedInv, Parse \/ Compare \/ (\E m \in missing : Write(m)) \/ Alter \/ UNCHANGED vars
  PROVE  LoadedInv'
<1> USE DEF runVars, doneVars
<1>1. CASE Parse
  BY <1>1 DEF Parse, LoadedInv, Loaded
<1>2. CASE Compare
  BY <1>2 DEF Compare, LoadedInv, Loaded, Extra
<1>3. CASE \E m \in missing : Write(m)
  BY <1>3 DEF Write, Taken, LoadedInv, Loaded, Extra
<1>4. CASE Alter
  BY <1>4 DEF Alter, LoadedInv, Loaded, Extra
<1>5. CASE UNCHANGED vars
  BY <1>5 DEF vars, LoadedInv, Loaded, Extra
<1> QED
  BY <1>1, <1>2, <1>3, <1>4, <1>5

\* Every step of the commands keeps both.
LEMMA NextLoaded ==
  KeptInv /\ LoadedInv /\ [FolderNext]_<<tool, vars, statsVars>> => LoadedInv'
<1> SUFFICES ASSUME KeptInv, LoadedInv, [FolderNext]_<<tool, vars, statsVars>> PROVE LoadedInv'
  OBVIOUS
<1>1. CASE UNCHANGED vars
  BY <1>1, OthersLoaded
<1>2. CASE Next
  BY <1>2, LoadNextLoaded, OthersLoaded DEF Next
<1> QED
  BY <1>1, <1>2 DEF FolderNext

\* Without the database's extra objects, a comparison says the same of an object
\* that scripts declare alike, and of an index whose table they declare alike.
LEMMA SameReport ==
  ASSUME NEW s, NEW t, NEW d, NEW f, DOMAIN d = DOMAIN f, \A k \in DOMAIN d : d[k] = f[k],
         NEW e \in Diff(s, d, FALSE), Agree(e[2], s, t),
         TypeOf(e[2]) = "index" => Agree(<<"table", s[e[2]].schema, s[e[2]].table>>, s, t)
  PROVE  e \in Diff(t, f, FALSE)
<1>1. CASE \E k \in DOMAIN s \cap DOMAIN d : e \in DiffObject(k, s[k], d[k])
  <2>1. PICK k \in DOMAIN s \cap DOMAIN d : e \in DiffObject(k, s[k], d[k])
    BY <1>1
  <2>2. k = e[2]
    BY <2>1, InDiffObject
  <2>3. k \in DOMAIN t \cap DOMAIN f /\ t[k] = s[k] /\ f[k] = d[k]
    BY <2>1, <2>2 DEF Agree
  <2> QED
    BY <2>1, <2>3, InDiff
<1>2. CASE e \in Entries("missing_in_db", Reported(s, d))
  <2>1. PICK k \in Reported(s, d) : e = <<"missing_in_db", k, "">>
    BY <1>2 DEF Entries
  <2>2. k = e[2]
    BY <1>2, <2>1
  <2>3. k \in DOMAIN t \ DOMAIN f /\ t[k] = s[k]
    BY <2>1, <2>2 DEF Agree, Reported
  <2>4. ASSUME TypeOf(k) = "index", <<"table", t[k].schema, t[k].table>> \in DOMAIN t \ DOMAIN f
        PROVE  FALSE
    <3> DEFINE table == <<"table", s[k].schema, s[k].table>>
    <3>1. table = <<"table", t[k].schema, t[k].table>>
      BY <2>3
    <3>2. Agree(table, s, t)
      BY <2>2, <2>4
    <3> HIDE DEF table
    <3>3. table \in DOMAIN s \ DOMAIN d
      BY <2>4, <3>1, <3>2 DEF Agree
    <3> QED
      BY <2>1, <2>4, <3>3 DEF Reported, table
  <2>5. k \in Reported(t, f)
    BY <2>3, <2>4 DEF Reported
  <2>6. e \in Entries("missing_in_db", Reported(t, f))
    BY <2>1, <2>5 DEF Entries
  <2> QED
    BY <2>6, InDiff
<1> QED
  BY <1>1, <1>2, InDiff

\* What nobody outside the filter declares is declared alike with and without it.
LEMMA FilterFollows == KeptInv /\ LoadedInv => FilterExplained
<1> DEFINE full == ParseDirectory(tree, NoFilter, command.dialect)
           all == LoadAll(command.dialect)
           about(e) == IF TypeOf(e[2]) = "index"
                       THEN {e[2], <<"table", scripts[e[2]].schema, scripts[e[2]].table>>}
                       ELSE {e[2]}
<1> SUFFICES ASSUME KeptInv, LoadedInv, pc = "done", command.name = "compare", ~command.extra, changes = 0,
                    NEW e \in report,
                    ~ \E p \in DOMAIN tree, key \in about(e) :
                        Declares(p, key) /\ ~InScope(tree[p], command.filter)
             PROVE  e \in Diff(full, all, FALSE)
  BY DEF FilterExplained
<1>1. tree = before /\ scripts = ParseDirectory(tree, command.filter, command.dialect)
  BY DEF KeptInv, LoadedInv, Filter
<1>2. report = Diff(scripts, db, FALSE)
  BY DEF LoadedInv, Extra
<1>3. DOMAIN db = DOMAIN all /\ \A k \in DOMAIN db : db[k] = all[k]
  <2>1. Loaded(db, 7, command.dialect)
    BY LoadOrderLength DEF LoadedInv
  <2> QED
    BY <2>1, LoadOrderLength DEF Loaded, LoadAll
<1>4. ASSUME NEW key \in about(e)
      PROVE  Agree(key, scripts, full)
  <2>1. ASSUME NEW n \in 1..Len(PathOrder)
        PROVE  \/ /\ Read(tree, command.filter, n) /\ Read(tree, NoFilter, n)
                  /\ tree[PathOrder[n]] = tree[PathOrder[n]]
               \/ /\ Read(tree, command.filter, n) => ~Says(tree[PathOrder[n]], key)
                  /\ Read(tree, NoFilter, n) => ~Says(tree[PathOrder[n]], key)
    <3>1. CASE Read(tree, command.filter, n)
      BY <3>1, AllInScope DEF Read
    <3>2. CASE ~Read(tree, command.filter, n)
      <4>1. PathOrder[n] \in DOMAIN tree => ~Declares(PathOrder[n], key)
        BY <1>4, <3>2 DEF Read
      <4> QED
        BY <3>2, <4>1 DEF Read, Declares, Says
    <3> QED
      BY <3>1, <3>2
  <2>2. Alike(key, tree, command.filter, tree, NoFilter)
    BY <2>1 DEF Alike
  <2> QED
    BY <1>1, <2>2, TreeRegular, DirectoryAgree
<1> HIDE DEF full, all
<1>5. Agree(e[2], scripts, full)
  BY <1>4
<1>6. TypeOf(e[2]) = "index" => Agree(<<"table", scripts[e[2]].schema, scripts[e[2]].table>>, scripts, full)
  BY <1>4
<1> QED
  BY <1>2, <1>3, <1>5, <1>6, SameReport

\* A filtered comparison says nothing of its own but of what a file outside the filter
\* declares as well (FilterExplained; areas.py, schemas.py, parse_directory and compute_diff),
\* for any folder, catalog and filter and for both dialects.
THEOREM Explained == FolderSpec => []FilterExplained
<1>1. FolderInit => KeptInv /\ LoadedInv
  BY KeptInit, LoadedInit DEF FolderInit
<1> QED
  BY <1>1, NextKept, NextLoaded, FilterFollows, PTL DEF FolderSpec
-----------------------------------------------------------------------------
(* What fetch-missing leaves to be said *)

\* An object that is found and can be fetched, and the folders its file may go to.
Seen(key) == key \in DOMAIN catalog /\ SchemaOf(key) \notin SystemSchema /\ Fetchable(key)
Layers == {SchemaOf(id) : id \in {x \in DOMAIN catalog : SchemaOf(x) \notin SystemSchema}}
            \cup {p.layer : p \in UNION {DOMAIN t : t \in Folders}}

\* A file of a fetched object.
FileOf(p, key) == p \in DOMAIN tree \ DOMAIN before /\ tree[p].stmts = Ddl(key) /\ Seen(key)

\* As long as nobody changes the database, what was missing is dealt with object by
\* object, and every new file is of one.
FetchedInv ==
  /\ pc \in {"parse", "load"} => written = {}
  /\ changes = 0 => catalog \in Catalogs
  /\ changes = 0 /\ command.name = "fetch" /\ pc \in {"write", "done"} =>
       /\ \A m \in missing : Seen(m.key) /\ m.sub = Sub(catalog, m.key)
       /\ \A p \in DOMAIN tree \ DOMAIN before : \E key \in DOMAIN catalog : FileOf(p, key)
       /\ \A p \in DOMAIN tree : p.layer \in Layers
       /\ \A key \in written : key \notin DOMAIN Was
            /\ \E n \in 1..Len(PathOrder) : FileOf(PathOrder[n], key)
       /\ command.write =>
            /\ \A key \in DOMAIN db \ DOMAIN Was : Wanted(key) =>
                 key \in written \cup skipped \cup failed \/ \E m \in missing : m.key = key
            /\ pc = "done" => missing = {}

\* At first nothing has been written.
LEMMA FetchedInit == Init => FetchedInv
  BY DEF Init, FetchedInv

\* fetch-missing parses the whole folder, as PostgreSQL's.
LEMMA FetchScripts ==
  ASSUME KeptInv, command.name = "fetch"
  PROVE  command.dialect = Postgres /\ Filter = NoFilter /\ (pc # "parse" => scripts = Was)
  BY CommandAssumption DEF KeptInv, Filter, Was

\* What has been found of these types can be seen in the catalog.
LEMMA FoundSeen ==
  ASSUME KeptInv, LoadedInv, changes = 0, at = Len(LoadOrder), NEW key \in DOMAIN db, Fetchable(key)
  PROVE  Seen(key)
<1>1. PICK i \in 1..at : key \in DOMAIN Load(catalog, LoadOrder[i], command.dialect)
  BY DEF LoadedInv, Loaded
<1>2. TypeOf(key) = LoadOrder[i] /\ LoadOrder[i] # "index"
  BY <1>1, LoadFinds DEF Fetchable
<1>3. key \in DOMAIN catalog /\ Visible(key, catalog[key], LoadOrder[i])
  BY <1>1, <1>2, LoadFinds
<1> QED
  BY <1>3 DEF Seen, Visible

\* What is missing at first is all that is reported and wanted.
LEMMA CompareFetched == ASSUME KeptInv, LoadedInv, FetchedInv, Compare PROVE FetchedInv'
<1> USE DEF Compare, doneVars
<1>1. /\ pc = "load" /\ pc' \in {"write", "done"} /\ tree = before /\ tree' = tree /\ before' = before
      /\ catalog' = catalog /\ command' = command /\ db' = db /\ written' = {} /\ changes' = changes
      /\ scripts' = scripts /\ Was' = Was
  BY DEF KeptInv, FetchedInv, Was
<1> SUFFICES ASSUME changes = 0, command.name = "fetch"
             PROVE  /\ \A m \in missing' : Seen(m.key) /\ m.sub = Sub(catalog, m.key)
                    /\ \A p \in DOMAIN tree : p.layer \in Layers
                    /\ command.write =>
                         /\ \A key \in DOMAIN db \ DOMAIN Was : Wanted(key) => \E m \in missing' : m.key = key
                         /\ pc' = "done" => missing' = {}
  BY <1>1 DEF FetchedInv, Seen, Layers, Wanted
<1> DEFINE R == {e \in Diff(scripts, db, Extra) : e[1] = "missing_in_scripts" /\ e[3] = "" /\ Wanted(e[2])}
<1>2. missing' = {[key |-> e[2], sub |-> Sub(catalog, e[2])] : e \in R}
  OBVIOUS
<1>3. scripts = Was /\ Extra
  BY <1>1, FetchScripts DEF Extra
<1>4. ASSUME NEW m \in missing'
      PROVE  Seen(m.key) /\ m.sub = Sub(catalog, m.key)
  <2>1. PICK e \in R : m = [key |-> e[2], sub |-> Sub(catalog, e[2])]
    BY <1>2, <1>4
  <2>2. e[2] \in DOMAIN db /\ Fetchable(e[2])
    BY ReportedMissing DEF KeptInv, Reported, Wanted, Fetchable
  <2>3. Seen(e[2])
    BY <2>2, FoundSeen
  <2> QED
    BY <2>1, <2>3
<1>5. \A p \in DOMAIN tree : p.layer \in Layers
  BY <1>1 DEF KeptInv, Layers
<1>6. ASSUME NEW key \in DOMAIN db \ DOMAIN Was, Wanted(key)
      PROVE  \E m \in missing' : m.key = key
  <2> DEFINE e == <<"missing_in_scripts", key, "">>
  <2>1. key \in Reported(db, scripts)
    BY <1>3, <1>6 DEF Reported, Wanted
  <2>2. e \in Entries("missing_in_scripts", Reported(db, scripts))
    BY <2>1 DEF Entries
  <2>3. e \in Diff(scripts, db, Extra)
    BY <1>3, <2>2, InDiff
  <2>4. e[1] = "missing_in_scripts" /\ e[2] = key /\ e[3] = ""
    OBVIOUS
  <2> HIDE DEF e
  <2>5. e \in R
    BY <1>6, <2>3, <2>4
  <2>6. [key |-> e[2], sub |-> Sub(catalog, e[2])] \in missing'
    BY <1>2, <2>5
  <2> QED
    BY <2>4, <2>6
<1>7. command.write /\ pc' = "done" => missing' = {}
  OBVIOUS
<1> QED
  BY <1>4, <1>5, <1>6, <1>7

\* An object that is taken up is written, skipped or failed; a new file is at a
\* path that the next command reads.
LEMMA WriteFetched == ASSUME KeptInv, FetchedInv, NEW m \in missing, Write(m) PROVE FetchedInv'
<1>1. /\ pc = "write" /\ pc' \in {"write", "done"} /\ (pc' = "done" => missing' = {})
      /\ before' = before /\ missing' = missing \ {m}
      /\ catalog' = catalog /\ command' = command /\ db' = db /\ changes' = changes
  BY DEF Write, Taken, runVars
<1>2. /\ Was' = Was /\ Layers' = Layers /\ \A key : (Seen(key)' <=> Seen(key)) /\ (Wanted(key)' <=> Wanted(key))
      /\ \A key : Sub(catalog, key)' = Sub(catalog, key)
  BY <1>1 DEF Was, Layers, Seen, Wanted
<1>3. \A key : Ddl(key)' = Ddl(key)
  BY <1>1 DEF Ddl, TableDdl
<1> SUFFICES ASSUME changes = 0, command.name = "fetch"
             PROVE  /\ \A p \in DOMAIN tree' \ DOMAIN before : \E key \in DOMAIN catalog : FileOf(p, key)'
                    /\ \A p \in DOMAIN tree' : p.layer \in Layers
                    /\ \A key \in written' : key \notin DOMAIN Was
                         /\ \E n \in 1..Len(PathOrder) : FileOf(PathOrder[n], key)'
                    /\ command.write =>
                         \A key \in DOMAIN db \ DOMAIN Was : Wanted(key) =>
                           key \in written' \cup skipped' \cup failed' \/ \E o \in missing' : o.key = key
  BY <1>1, <1>2 DEF FetchedInv
<1>4. /\ \A p \in DOMAIN tree \ DOMAIN before : \E key \in DOMAIN catalog : FileOf(p, key)
      /\ \A p \in DOMAIN tree : p.layer \in Layers
      /\ \A key \in written : key \notin DOMAIN Was /\ \E n \in 1..Len(PathOrder) : FileOf(PathOrder[n], key)
      /\ command.write => \A key \in DOMAIN db \ DOMAIN Was : Wanted(key) =>
           key \in written \cup skipped \cup failed \/ \E o \in missing : o.key = key
      /\ Seen(m.key) /\ m.sub = Sub(catalog, m.key) /\ m.key \notin DOMAIN Was /\ catalog \in Catalogs
  BY <1>1 DEF FetchedInv, KeptInv
<1>5. /\ written \subseteq written' /\ skipped \subseteq skipped' /\ failed \subseteq failed'
      /\ m.key \in written' \cup skipped' \cup failed'
  BY DEF Write
<1>6. command.write => \A key \in DOMAIN db \ DOMAIN Was : Wanted(key) =>
        key \in written' \cup skipped' \cup failed' \/ \E o \in missing' : o.key = key
  BY <1>1, <1>4, <1>5
<1>7. CASE tree' = tree /\ written' = written
  <2>1. \A p, key : FileOf(p, key)' <=> FileOf(p, key)
    BY <1>1, <1>2, <1>3, <1>7 DEF FileOf
  <2> QED
    BY <1>4, <1>6, <1>7, <2>1
<1>8. CASE ~(tree' = tree /\ written' = written)
  <2>1. PICK layer, dest :
          /\ layer \in LayerFolders(SchemaOf(m.key))
          /\ dest = [layer |-> layer, sub |-> m.sub, name |-> m.key[3]] /\ dest \notin DOMAIN tree
          /\ tree' = With(tree, dest, Fetched(m.key))
          /\ written' = written \cup {m.key}
    BY <1>8 DEF Write
  <2> DEFINE file == Fetched(m.key)
  <2>2. file.stmts = Ddl(m.key)
    BY DEF Fetched
  <2> HIDE DEF file
  <2>3. /\ DOMAIN tree' = DOMAIN tree \cup {dest} /\ tree'[dest].stmts = Ddl(m.key)
        /\ \A p \in DOMAIN tree : tree'[p] = tree[p]
    <3>1. tree' = With(tree, dest, file)
      BY <2>1 DEF file
    <3> QED
      BY <2>1, <2>2, <3>1 DEF With
  <2>4. dest \notin DOMAIN before
    BY <2>1 DEF KeptInv
  <2>5. FileOf(dest, m.key)'
    BY <1>1, <1>2, <1>3, <1>4, <2>3, <2>4 DEF FileOf
  <2>6. \A p, key : FileOf(p, key) => FileOf(p, key)'
    BY <1>1, <1>2, <1>3, <2>3 DEF FileOf
  <2>7. layer \in Layers
    <3>1. SchemaOf(m.key) \in Layers
      BY <1>4 DEF Seen, Layers
    <3> QED
      BY <1>4, <2>1, <3>1 DEF LayerFolders
  <2>8. dest \in Range(PathOrder)
    BY <1>4, <2>1, <2>7, FetchedPaths DEF Seen, Layers, Fetchable
  <2>9. PICK n \in 1..Len(PathOrder) : PathOrder[n] = dest
    BY <2>8, PathCount DEF Range
  <2>10. \A p \in DOMAIN tree' \ DOMAIN before : \E key \in DOMAIN catalog : FileOf(p, key)'
    BY <1>4, <2>3, <2>5, <2>6 DEF Seen
  <2>11. \A p \in DOMAIN tree' : p.layer \in Layers
    BY <1>4, <2>1, <2>3, <2>7
  <2>12. \A key \in written' : key \notin DOMAIN Was /\ \E i \in 1..Len(PathOrder) : FileOf(PathOrder[i], key)'
    BY <1>4, <2>1, <2>5, <2>6, <2>9
  <2> QED
    BY <1>6, <2>10, <2>11, <2>12
<1> QED
  BY <1>7, <1>8

\* Before the comparison there is nothing to keep; after a change of the database neither.
LEMMA OthersFetched ==
  ASSUME FetchedInv, Parse \/ LoadNext \/ Alter \/ UNCHANGED vars
  PROVE  FetchedInv'
<1> USE DEF runVars, doneVars
<1>1. CASE Parse
  BY <1>1 DEF Parse, FetchedInv
<1>2. CASE LoadNext
  BY <1>2 DEF LoadNext, FetchedInv
<1>3. CASE Alter
  BY <1>3 DEF Alter, FetchedInv
<1>4. CASE UNCHANGED vars
  <2>1. Was' = Was /\ Layers' = Layers /\ \A key : (Seen(key)' <=> Seen(key)) /\ (Wanted(key)' <=> Wanted(key))
    BY <1>4 DEF vars, Was, Layers, Seen, Wanted
  <2>2. \A key : Ddl(key)' = Ddl(key)
    BY <1>4 DEF vars, Ddl, TableDdl
  <2>3. \A p, key : FileOf(p, key)' <=> FileOf(p, key)
    BY <1>4, <2>1, <2>2 DEF vars, FileOf
  <2> QED
    BY <1>4, <2>1, <2>3 DEF vars, FetchedInv
<1> QED
  BY <1>1, <1>2, <1>3, <1>4

\* Every step keeps the invariant.
LEMMA NextFetched ==
  KeptInv /\ LoadedInv /\ FetchedInv /\ [FolderNext]_<<tool, vars, statsVars>> => FetchedInv'
<1> SUFFICES ASSUME KeptInv, LoadedInv, FetchedInv, [FolderNext]_<<tool, vars, statsVars>> PROVE FetchedInv'
  OBVIOUS
<1>1. CASE UNCHANGED vars
  BY <1>1, OthersFetched
<1>2. CASE Next
  BY <1>2, CompareFetched, WriteFetched, OthersFetched DEF Next
<1> QED
  BY <1>1, <1>2 DEF FolderNext

\* A table parsed from the DDL that is put together from the catalog is what
\* introspection makes of the catalog; so is a view whose text survives sqlglot.
LEMMA DdlParsesBack ==
  ASSUME catalog \in Catalogs \cup Changed, NEW key, Seen(key), TypeOf(key) # "function", ~Respelled(key)
  PROVE  DiffObject(key, Parsed(Ddl(key)[1]), Introspected(key, catalog[key], Postgres)) = {}
<1> DEFINE def == catalog[key].def
           stmt == Ddl(key)[1]
<1>1. PICK L \in Nat \ {0} :
        /\ stmt.key = key
        /\ TypeOf(key) = "table" =>
             stmt.def = [def EXCEPT !.partition = FALSE,
               !.columns = [c \in DOMAIN def.columns |-> [def.columns[c] EXCEPT
                 !.notnull = def.columns[c].notnull /\ ~def.columns[c].identity]]]
        /\ TypeOf(key) # "table" => stmt.def = def
  BY DdlStatements DEF Seen
<1>2. CASE TypeOf(key) = "table"
  <2> DEFINE s == ParsedTable(stmt.def)
             d == IntrospectedTable(def, Postgres)
  <2>1. Parsed(stmt) = s /\ Introspected(key, catalog[key], Postgres) = d
    BY <1>1, <1>2 DEF Parsed, Introspected
  <2>2. /\ DOMAIN def = {"columns", "primary", "partition"}
        /\ \A x \in DOMAIN def.columns :
             /\ DOMAIN def.columns[x] = {"type", "notnull", "identity"} /\ def.columns[x].notnull \in BOOLEAN
             /\ x \in def.primary \/ def.columns[x].identity => def.columns[x].notnull
    <3>1. CatalogTable(def)
      BY <1>2, CatalogAssumption DEF Seen
    <3> HIDE DEF def
    <3> QED
      BY <3>1 DEF CatalogTable
  <2> DEFINE columns == [c \in DOMAIN def.columns |-> [def.columns[c] EXCEPT
                 !.notnull = def.columns[c].notnull /\ ~def.columns[c].identity]]
  <2>3. stmt.def = [def EXCEPT !.partition = FALSE, !.columns = columns]
    BY <1>1, <1>2
  <2>4. /\ DOMAIN columns = DOMAIN def.columns
        /\ \A x \in DOMAIN def.columns :
             /\ columns[x].type = def.columns[x].type /\ columns[x].identity = def.columns[x].identity
             /\ columns[x].notnull = (def.columns[x].notnull /\ ~def.columns[x].identity)
    BY <2>2
  <2>5. stmt.def.primary = def.primary /\ stmt.def.columns = columns
    <3> HIDE DEF stmt, def, columns
    <3> QED
      BY <2>2, <2>3
  <2>6. /\ stmt.def.primary = def.primary /\ DOMAIN stmt.def.columns = DOMAIN def.columns
        /\ \A x \in DOMAIN def.columns :
             /\ stmt.def.columns[x].type = def.columns[x].type
             /\ stmt.def.columns[x].identity = def.columns[x].identity
             /\ stmt.def.columns[x].notnull = (def.columns[x].notnull /\ ~def.columns[x].identity)
    <3> HIDE DEF stmt, columns
    <3> QED
      BY <2>4, <2>5
  <2> HIDE DEF stmt
  <2>7. /\ DOMAIN s.columns = DOMAIN stmt.def.columns
         /\ \A x \in DOMAIN stmt.def.columns :
              /\ s.columns[x].type = stmt.def.columns[x].type
              /\ s.columns[x].nullable = ~(stmt.def.columns[x].notnull \/ stmt.def.columns[x].identity
                                             \/ x \in stmt.def.primary)
    BY DEF ParsedTable
  <2>8. /\ DOMAIN d.columns = DOMAIN def.columns
         /\ \A x \in DOMAIN def.columns :
              d.columns[x].type = def.columns[x].type /\ d.columns[x].nullable = ~def.columns[x].notnull
    <3> HIDE DEF def
    <3> QED
      BY DEF IntrospectedTable
  <2> HIDE DEF s, d, def
  <2>9. /\ DOMAIN s.columns = DOMAIN def.columns /\ DOMAIN d.columns = DOMAIN def.columns
        /\ \A x \in DOMAIN def.columns :
             /\ s.columns[x].type = def.columns[x].type /\ d.columns[x].type = def.columns[x].type
             /\ s.columns[x].nullable = ~(stmt.def.columns[x].notnull \/ stmt.def.columns[x].identity
                                            \/ x \in stmt.def.primary)
             /\ d.columns[x].nullable = ~def.columns[x].notnull
    BY <2>6, <2>7, <2>8
  <2>10. \A x \in DOMAIN def.columns : s.columns[x].nullable = d.columns[x].nullable
    BY <2>2, <2>6, <2>9
  <2>11. DiffTable(key, s, d) = {}
    BY <2>9, <2>10 DEF DiffTable
  <2>12. DiffObject(key, s, d) = {}
    BY Zenon, <1>2, <2>11 DEF DiffObject
  <2> QED
    BY <2>1, <2>12 DEF stmt
<1>3. CASE TypeOf(key) = "view"
  <2>1. Render(def) = def
    BY <1>3 DEF Respelled
  <2>2. Parsed(stmt) = Render(def)
    BY <1>1, <1>3 DEF Parsed
  <2>3. Introspected(key, catalog[key], Postgres) = def
    BY <1>3 DEF Introspected, Postgres, MSSQL
  <2>4. DiffObject(key, def, def) = {}
    BY <1>3 DEF DiffObject
  <2> QED
    BY <2>1, <2>2, <2>3, <2>4
<1> QED
  BY <1>2, <1>3 DEF Seen, Fetchable

\* What has been written is declared as the catalog has it, for no other file says
\* anything of it.
LEMMA WrittenDeclared ==
  ASSUME KeptInv, FetchedInv, pc = "done", command.name = "fetch", changes = 0, NEW key \in written
  PROVE  /\ key \in DOMAIN ParseDirectory(tree, NoFilter, Postgres)
         /\ ParseDirectory(tree, NoFilter, Postgres)[key] = Parsed(Ddl(key)[1])
<1> DEFINE is == ParseDirectory(tree, NoFilter, Postgres)
           value == Parsed(Ddl(key)[1])
<1>1. /\ key \notin DOMAIN Was /\ catalog \in Catalogs
      /\ \A p \in DOMAIN tree \ DOMAIN before : \E k \in DOMAIN catalog : FileOf(p, k)
  BY DEF FetchedInv
<1>2. PICK n \in 1..Len(PathOrder) : FileOf(PathOrder[n], key)
  BY DEF FetchedInv
<1>3. Regular(tree, NoFilter) /\ Regular(before, NoFilter)
  BY TreeRegular
<1>4. key \in DOMAIN is
  <2>1. Says(tree[PathOrder[n]], key)
    <3>1. PICK L \in Nat \ {0} : DOMAIN Ddl(key) = 1..L /\ Ddl(key)[1].key = key
      BY <1>1, <1>2, DdlStatements DEF FileOf, Seen
    <3>2. 1 \in 1..L
      OBVIOUS
    <3> QED
      BY <1>2, <3>1, <3>2 DEF FileOf, Says
  <2>2. Read(tree, NoFilter, n)
    BY <1>2, AllInScope DEF Read, FileOf
  <2> QED
    BY <1>3, <2>1, <2>2, DirectoryHas
<1>5. ASSUME NEW i \in 1..Len(PathOrder), Read(tree, NoFilter, i)
      PROVE  Mean(tree[PathOrder[i]].stmts, key, value) /\ \A s \in tree[PathOrder[i]].block : s.key # key
  <2> DEFINE p == PathOrder[i]
  <2>1. CASE p \in DOMAIN before
    <3>1. Read(before, NoFilter, i) /\ tree[p] = before[p]
      BY <2>1, AllInScope DEF Read, KeptInv
    <3>2. ~Says(before[p], key)
      BY <1>1, <1>3, <3>1, DirectoryHas DEF Was
    <3> QED
      BY <3>1, <3>2 DEF Says, Mean
  <2>2. CASE p \notin DOMAIN before
    <3>1. PICK k \in DOMAIN catalog : FileOf(p, k)
      BY <1>1, <1>5, <2>2 DEF Read
    <3>2. PICK L \in Nat \ {0} : /\ DOMAIN Ddl(k) = 1..L /\ Ddl(k)[1].key = k
                                 /\ \A j \in 2..L : TypeOf(Ddl(k)[j].key) = "index"
      BY <1>1, <3>1, DdlStatements
    <3>3. \A j \in 1..L : j = 1 \/ j \in 2..L
      OBVIOUS
    <3>4. TypeOf(key) # "index"
      BY <1>2 DEF FileOf, Seen, Fetchable
    <3>5. \A j \in DOMAIN Ddl(k) : Ddl(k)[j].key = key => j = 1 /\ k = key
      BY <3>2, <3>3, <3>4
    <3>6. Mean(tree[p].stmts, key, value)
      BY <3>1, <3>5 DEF Mean, FileOf
    <3>7. tree[p].block = {}
      BY <1>5, <2>2 DEF KeptInv, Fresh, Read
    <3> QED
      BY <3>6, <3>7
  <2> QED
    BY <2>1, <2>2
<1>6. Valued(is, key, value)
  BY <1>3, <1>5, DirectoryHolds
<1> QED
  BY <1>4, <1>6 DEF Valued

\* So nothing is left to be said.
LEMMA FetchedFollows == KeptInv /\ LoadedInv /\ FetchedInv => FetchConverges
<1> DEFINE is == ParseDirectory(tree, NoFilter, Postgres)
           all == LoadAll(Postgres)
<1> SUFFICES ASSUME KeptInv, LoadedInv, FetchedInv, pc = "done", command.name = "fetch", command.write,
                    changes = 0, NEW e \in Diff(is, all, TRUE)
             PROVE  /\ e[1] = "missing_in_scripts" /\ e[3] = "" /\ Wanted(e[2]) => e[2] \in skipped \cup failed
                    /\ e[2] \in written => TypeOf(e[2]) = "function" \/ Respelled(e[2])
  BY DEF FetchConverges
<1>1. command.dialect = Postgres /\ scripts = Was /\ at = Len(LoadOrder) /\ missing = {} /\ catalog \in Catalogs
  BY FetchScripts DEF LoadedInv, FetchedInv
<1>2. DOMAIN db = DOMAIN all /\ \A k \in DOMAIN db : db[k] = all[k]
  <2>1. Loaded(db, 7, Postgres)
    BY <1>1, LoadOrderLength DEF LoadedInv
  <2> QED
    BY <2>1, LoadOrderLength DEF Loaded, LoadAll
<1>3. Nameless(all)
  BY <1>2 DEF KeptInv, Nameless
<1> HIDE DEF is, all
<1>4. ASSUME e[1] = "missing_in_scripts", e[3] = "", Wanted(e[2])
      PROVE  e[2] \in skipped \cup failed
  <2>1. e[2] \in DOMAIN all \ DOMAIN is
    BY <1>3, <1>4, ReportedMissing DEF Reported
  <2>2. TypeOf(e[2]) # "index"
    BY <1>4 DEF Wanted
  <2>3. e[2] \notin DOMAIN Was
    BY <2>1, <2>2, KeptFollows DEF TrackedKept, Was, is
  <2>4. e[2] \in written \cup skipped \cup failed
    BY <1>1, <1>2, <1>4, <2>1, <2>3 DEF FetchedInv
  <2>5. e[2] \notin written
    BY <2>1, WrittenDeclared DEF is
  <2> QED
    BY <2>4, <2>5
<1>5. ASSUME TypeOf(e[2]) # "function", ~Respelled(e[2]), e[2] \in written
      PROVE  FALSE
  <2> DEFINE k == e[2]
  <2>1. Seen(k)
    BY <1>5 DEF FetchedInv, FileOf
  <2>2. k \in DOMAIN is /\ is[k] = Parsed(Ddl(k)[1])
    BY <1>5, WrittenDeclared DEF is
  <2>3. k \in DOMAIN all /\ all[k] = Introspected(k, catalog[k], Postgres)
    <3>1. Visible(k, catalog[k], TypeOf(k)) /\ TypeOf(k) # "index" /\ Supported(TypeOf(k), Postgres)
      BY <2>1 DEF Seen, Fetchable, Visible, Supported
    <3>2. k \in DOMAIN Load(catalog, TypeOf(k), Postgres)
      BY <2>1, <3>1, LoadSees DEF Seen
    <3>3. Load(catalog, TypeOf(k), Postgres)[k] = Introspected(k, catalog[k], Postgres)
      BY <3>1, <3>2, LoadFinds
    <3>4. \E i \in DOMAIN LoadOrder : LoadOrder[i] = TypeOf(k)
      <4>1. LoadOrder[2] = "table" /\ LoadOrder[3] = "view" /\ LoadOrder[4] = "function"
        BY DEF LoadOrder
      <4> QED
        BY <2>1, <4>1, LoadOrderLength DEF Seen, Fetchable
    <3> HIDE DEF k
    <3> QED
      BY <3>2, <3>3, <3>4 DEF LoadAll, all
  <2>4. DiffObject(k, is[k], all[k]) = {}
    BY <1>1, <1>5, <2>1, <2>2, <2>3, DdlParsesBack
  <2>5. ~ \E j \in DOMAIN is \cap DOMAIN all : e \in DiffObject(j, is[j], all[j])
    BY <2>4, InDiffObject
  <2>6. e \notin Entries("missing_in_db", Reported(is, all)) /\ e \notin Entries("missing_in_scripts", Reported(all, is))
    <3>1. k \notin Reported(is, all) /\ k \notin Reported(all, is)
      BY <2>2, <2>3 DEF Reported
    <3> QED
      BY <3>1, InEntries
  <2> QED
    BY <2>5, <2>6, InDiff
<1> QED
  BY <1>4, <1>5

\* The comparison after a fetch finds nothing missing but what was skipped or failed, and
\* nothing to say of the tables that were written, nor of the views whose text sqlglot
\* writes as the catalog does (FetchConverges; fetch_missing.py against parser.py,
\* introspect.py and diff.py), for any folder and catalog that nobody else changes and
\* whatever sqlglot makes of a text.
THEOREM Converged == FolderSpec => []FetchConverges
<1>1. FolderInit => KeptInv /\ LoadedInv /\ FetchedInv
  BY KeptInit, LoadedInit, FetchedInit DEF FolderInit
<1> QED
  BY <1>1, NextKept, NextLoaded, NextFetched, FetchedFollows, PTL DEF FolderSpec
=============================================================================
