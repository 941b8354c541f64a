--------------------------- MODULE DatabaseFolder ---------------------------
(***************************************************************************)
(* The commands that work on a database/ folder: compare and fetch-missing *)
(* on its SQL files, update-stats on its _stats/ folder.  They share no    *)
(* file; a behaviour is of one kind or the other.                          *)
(***************************************************************************)
EXTENDS FolderCommands

CONSTANTS Table, Torn, Absent, MaxRuns, MaxDrops
ASSUME BoundAssumption == MaxRuns \in Nat /\ MaxDrops \in Nat
ASSUME MarkAssumption ==
  /\ Torn # Absent /\ Torn \notin Nat
  /\ \A T \in SUBSET Table : {Torn, Absent} \cap [T -> Nat] = {}

VARIABLES
  tool, present, listed, files, step, only, exact, run, rows, writing, tables, gone,
  existing, lost, found, drops

statsVars == <<present, listed, files, step, only, exact, run, rows, writing, tables, gone,
               existing, lost, found, drops>>

Stats == INSTANCE Stats WITH pc <- step

FolderInit ==
  /\ tool \in {"files", "stats"}
  /\ IF tool = "files" THEN Stats!Init /\ present = {} /\ Init
     ELSE /\ Stats!Init /\ Init
          /\ tree = (CHOOSE t \in Folders : TRUE) /\ catalog = (CHOOSE c \in Catalogs : TRUE)
          /\ command = (CHOOSE c \in Command : TRUE)

FolderNext ==
  \/ tool = "files" /\ Next /\ UNCHANGED <<tool, statsVars>>
  \/ tool = "stats" /\ Stats!Next /\ UNCHANGED <<tool, vars>>

FolderSpec == FolderInit /\ [][FolderNext]_<<tool, vars, statsVars>>

ColumnFilesListed == Stats!ColumnFilesListed
UpdateExact == Stats!UpdateExact
=============================================================================
