------------------------- MODULE SchemaApplyProofs -------------------------
(***************************************************************************)
(* Proofs about SchemaApply, for any directory, number of files and of     *)
(* calls, wherever statements fail and calls die.                          *)
(***************************************************************************)
EXTENDS SchemaApply, WellFoundedInduction, TLAPS

\* What the assumptions say of the directory the call reads.
LEMMA DirectoryFacts ==
  ASSUME TypeOK
  PROVE  /\ names \in [File -> Name \cup {NoName}]
         /\ deps \in [File -> SUBSET Name] /\ needs \in [File -> SUBSET Name]
         /\ refs \in [File -> SUBSET Name] /\ seed \in [File -> Nat]
         /\ \A f \in File : names[f] \notin deps[f]
         /\ \A f \in Permission : names[f] = NoName
         /\ \A f \in File : Declares(f) \subseteq Name
BY DirectoryAssumption, FileAssumption
   DEF TypeOK, Directory, names, deps, needs, refs, seed, Declares

\* A file number is not NoFile, and both are positions.
LEMMA FileFacts ==
  /\ NoFile \in Nat \ {0} /\ NoFile \notin File /\ NoFile \in 1..NoFile
  /\ \A f \in File : f \in Nat /\ f \in 1..NoFile /\ f < NoFile
  /\ \A x \in 1..NoFile : x # NoFile => x \in File
BY FileAssumption DEF File, NoFile

\* The type invariant holds initially.
LEMMA InitTypeOK == Init => TypeOK
<1> SUFFICES ASSUME Init PROVE TypeOK
  OBVIOUS
<1>1. i \in 1..NoFile /\ cur \in 1..NoFile /\ rows \in [Name -> Nat]
  BY FileFacts DEF Init
<1>2. failures \in Seq(File) /\ still_failing \in Seq(File) /\ phase \in Ended
  BY DEF Init, Ended
<1>3. reset \in BOOLEAN /\ progressed \in BOOLEAN /\ fresh \in BOOLEAN
  BY Zenon DEF Init
<1> QED
  BY <1>1, <1>2, <1>3 DEF Init, TypeOK

\* The generator's steps keep the types.
LEMMA GenerateTypeOK ==
  ASSUME TypeOK, Generate
  PROVE  TypeOK'
<1> USE FileFacts, DirectoryFacts DEF dbVars, callVars, retryVars, genVars
<1>1. CASE EndFirst \/ EndPass \/ EndGenerator
  BY <1>1 DEF TypeOK, EndFirst, EndPass, EndGenerator, Generating, Ended
<1>2. ASSUME NEW f \in File, Looks(f)
      PROVE  /\ UNCHANGED <<dbVars, callVars, phase, i, progressed, retryVars, faults>>
             /\ todo' \subseteq File
  BY <1>2 DEF Looks, TypeOK
<1>3. ASSUME NEW f \in File, Hold(f) \/ Deliver(f) \/ Delay(f)
      PROVE  TypeOK'
  BY <1>2, <1>3 DEF Hold, Deliver, Delay, Yield, TypeOK
<1>4. ASSUME NEW f \in File, Release(f) \/ Leave(f)
      PROVE  TypeOK'
  BY <1>4 DEF Release, Leave, Reconsiders, Yield, TypeOK
<1>5. ASSUME NEW f \in File, YieldPermission(f)
      PROVE  TypeOK'
  BY <1>5 DEF YieldPermission, Yield, TypeOK
<1> QED
  BY <1>1, <1>3, <1>4, <1>5 DEF Generate

\* So does a file that is done with.
LEMMA SettleTypes ==
  ASSUME TypeOK, cur \in File, NEW ok \in BOOLEAN, Settle(ok)
  PROVE  /\ UNCHANGED <<callVars, phase, genVars>>
         /\ cur' \in 1..NoFile /\ at' \in {"exec", "seed", "copy"}
         /\ failures' \in Seq(File) /\ still_failing' \in Seq(File) /\ k' \in Nat \ {0}
<1>1. /\ UNCHANGED <<callVars, phase, genVars>>
      /\ cur' \in 1..NoFile /\ at' \in {"exec", "seed", "copy"}
  BY FileFacts DEF Settle
<1>2. Append(failures, cur) \in Seq(File) /\ Append(still_failing, cur) \in Seq(File)
  BY DEF TypeOK
<1>3. /\ failures' \in {failures, Append(failures, cur)}
      /\ still_failing' \in {still_failing, Append(still_failing, cur)}
      /\ k' \in {k, k + 1}
  BY DEF Settle
<1>4. k' \in Nat \ {0}
  BY <1>3 DEF TypeOK
<1>5. failures' \in Seq(File) /\ still_failing' \in Seq(File)
  BY <1>2, <1>3 DEF TypeOK
<1> QED
  BY <1>1, <1>4, <1>5

\* Setting the number of a table's rows keeps them numbers.
LEMMA RowsType ==
  ASSUME NEW r \in [Name -> Nat], NEW n, NEW x \in Nat
  PROVE  [r EXCEPT ![n] = x] \in [Name -> Nat]
OBVIOUS

\* Executing, seeding and retrying keep the types.
LEMMA ApplyTypeOK ==
  ASSUME TypeOK, Apply \/ Hiccup \/ Crash
  PROVE  TypeOK'
<1> USE FileFacts, DirectoryFacts DEF dbVars, callVars, retryVars, genVars
<1>1. CASE Retry
  BY <1>1 DEF TypeOK, Retry
<1>2. CASE EndRetry
  BY <1>2 DEF TypeOK, EndRetry, Ended
<1>3. ASSUME Settle(TRUE) \/ Settle(FALSE), cur \in File,
             made' \subseteq Name, rows' \in [Name -> Nat], granted' \subseteq Name, faults' \in Nat
      PROVE  TypeOK'
  BY <1>3, SettleTypes DEF TypeOK
<1>4. ASSUME NEW step \in {"seed", "copy"}, Continue(step),
             made' \subseteq Name, rows' \in [Name -> Nat], granted' \subseteq Name, faults' \in Nat
      PROVE  TypeOK'
  BY <1>4 DEF TypeOK, Continue
<1>5. ASSUME NEW f \in File, ExecFile(f)
      PROVE  TypeOK'
  <2>1. cur \in File /\ made' \subseteq Name /\ UNCHANGED <<rows, granted, faults>>
    BY <1>5 DEF ExecFile, Executes, TypeOK
  <2> QED
    BY <1>3, <1>4, <1>5, <2>1 DEF ExecFile, TypeOK
<1>6. ASSUME NEW f \in File, ExecPermission(f) \/ SeedPresent(f) \/ ApplyFails(f)
      PROVE  TypeOK'
  <2>1. /\ cur \in File /\ UNCHANGED <<made, rows, faults>> /\ granted' \subseteq Name
        /\ Settle(TRUE) \/ Settle(FALSE)
    BY <1>6 DEF ExecPermission, SeedPresent, ApplyFails, Fails, Executes, TypeOK
  <2> QED
    BY <1>3, <2>1 DEF TypeOK
<1>7. ASSUME NEW f \in File, SeedDelete(f) \/ SeedCopy(f)
      PROVE  TypeOK'
  <2>1. /\ cur \in File /\ UNCHANGED <<made, granted, faults>>
        /\ Continue("copy") \/ Settle(TRUE)
    BY <1>7 DEF SeedDelete, SeedCopy
  <2>2. rows' \in [Name -> Nat]
    <3>1. 0 \in Nat /\ seed[f] \in Nat /\ rows \in [Name -> Nat]
      BY DEF TypeOK
    <3>2. CASE SeedDelete(f)
      BY <3>1, <3>2, RowsType DEF SeedDelete
    <3>3. CASE SeedCopy(f)
      BY <3>1, <3>3, RowsType DEF SeedCopy
    <3> QED
      BY <1>7, <3>2, <3>3
  <2> QED
    BY <1>3, <1>4, <2>1, <2>2 DEF TypeOK
<1>8. CASE Hiccup
  <2>1. cur \in File
    BY <1>8 DEF Hiccup, TypeOK
  <2>2. Settle(FALSE) /\ UNCHANGED <<made, rows, granted>>
    BY <1>8, Zenon DEF Hiccup
  <2>3. faults' \in Nat
    BY <1>8 DEF Hiccup, Fault, TypeOK
  <2>4. made' \subseteq Name /\ rows' \in [Name -> Nat] /\ granted' \subseteq Name
    BY <2>2 DEF TypeOK
  <2> QED
    BY <1>3, <2>1, <2>2, <2>3, <2>4
<1>9. CASE Crash
  BY <1>9 DEF TypeOK, Crash, Fault, Ended
<1> QED
  BY <1>1, <1>2, <1>5, <1>6, <1>7, <1>8, <1>9 DEF Apply

\* A call starts with the types right.
LEMMA CallTypeOK ==
  ASSUME TypeOK, NEW S \in Scopes, NEW force \in BOOLEAN, Call(S, force)
  PROVE  TypeOK'
<1>1. dir' \in Version /\ scope' \subseteq File /\ fresh' \in BOOLEAN
  BY ScopeAssumption, EditAssumption DEF TypeOK, Call
<1>2. made' \subseteq Name /\ rows' \in [Name -> Nat] /\ granted' \subseteq Name
  BY DEF TypeOK, Call
<1>3. failures' \in Seq(File) /\ still_failing' \in Seq(File) /\ k' \in Nat \ {0}
  BY DEF Call
<1>4. /\ phase' \in Generating /\ todo' \subseteq File /\ delivered' = {} /\ declared' = {}
      /\ delayed' = {} /\ held' = {} /\ yielded' = {} /\ i' \in 1..NoFile
      /\ progressed' = FALSE /\ cur' \in 1..NoFile /\ at' = "exec"
      /\ calls' \in Nat /\ faults' \in Nat /\ reset' \in BOOLEAN
  BY FileFacts, ScopeAssumption DEF TypeOK, Call, Generating
<1> QED
  BY <1>1, <1>2, <1>3, <1>4 DEF TypeOK

\* Every step keeps the types.
LEMMA NextTypeOK == TypeOK /\ [Next]_vars => TypeOK'
<1>1. ASSUME TypeOK, UNCHANGED vars
      PROVE  TypeOK'
  BY <1>1 DEF TypeOK, vars, dbVars, callVars, genVars, retryVars
<1> QED
  BY <1>1, GenerateTypeOK, ApplyTypeOK, CallTypeOK DEF Next

\* The state of a call keeps its types, whatever the directory holds.
THEOREM TypeCorrect == Spec => []TypeOK
BY InitTypeOK, NextTypeOK, PTL DEF Spec
-----------------------------------------------------------------------------
(* The generator *)

\* While the directory stays, so does what its files declare and depend on.
LEMMA SameDirectory ==
  ASSUME UNCHANGED dir
  PROVE  UNCHANGED <<names, deps>> /\ \A S : NamesOf(S)' = {names[f] : f \in S} \cap Name
BY DEF names, deps, NamesOf

\* What one more file declares is added to the names of the others.
LEMMA NamesGrow ==
  ASSUME NEW S, NEW f
  PROVE  NamesOf(S \cup {f}) = NamesOf(S) \cup Declares(f)
BY DEF NamesOf, Declares

\* The generator's variables and the phases it runs in.
GenState == <<dir, scope, genVars>>

\* Applying, retrying and dying leave the generator alone; the phase moves on
\* only after it has ended.
LEMMA ApplyKeepsGen ==
  ASSUME Apply \/ Hiccup \/ Crash
  PROVE  /\ UNCHANGED GenState
         /\ \/ phase' \in {phase, "off"}
            \/ phase = "retry" /\ phase' \in {"retry", "done", "stuck"}
<1> USE DEF GenState, callVars
<1>1. CASE Retry \/ EndRetry \/ Crash
  BY <1>1 DEF Retry, EndRetry, Crash, Resume
<1>2. ASSUME NEW ok, Settle(ok)
      PROVE  UNCHANGED <<callVars, phase, genVars>>
  BY <1>2, Zenon DEF Settle
<1>3. ASSUME NEW step, Continue(step)
      PROVE  UNCHANGED <<callVars, phase, genVars>>
  BY <1>3, Zenon DEF Continue
<1>4. ASSUME Settle(TRUE) \/ Settle(FALSE) \/ Continue("seed") \/ Continue("copy")
      PROVE  UNCHANGED <<callVars, phase, genVars>>
  BY <1>2, <1>3, <1>4, Zenon
<1>5. ASSUME NEW f \in File, ExecFile(f) \/ ExecPermission(f) \/ SeedPresent(f) \/ SeedDelete(f)
                             \/ SeedCopy(f) \/ ApplyFails(f)
      PROVE  UNCHANGED <<callVars, phase, genVars>>
  BY <1>4, <1>5, Zenon DEF ExecFile, ExecPermission, SeedPresent, SeedDelete, SeedCopy, ApplyFails
<1>6. CASE Hiccup
  BY <1>4, <1>6, Zenon DEF Hiccup
<1> QED
  BY <1>1, <1>4, <1>5, <1>6 DEF Apply

\* The invariant of the generator does not depend on anything else.
LEMMA SameGen ==
  ASSUME GenInv, UNCHANGED GenState,
         \/ phase' \in {phase, "off"}
         \/ phase = "retry" /\ phase' \in {"retry", "done", "stuck"}
  PROVE  GenInv'
<1>1. UNCHANGED <<names, deps>>
  BY SameDirectory DEF GenState
<1> QED
  BY <1>1 DEF GenState, genVars, GenInv, Placed, Emptied, Waiting, NamesOf, Resolved

\* The first loop moves a file from todo to where it belongs.
LEMMA FirstLoop ==
  ASSUME TypeOK, GenInv, NEW f \in File, Hold(f) \/ Deliver(f) \/ Delay(f)
  PROVE  GenInv'
<1> USE DEF callVars
<1>1. /\ phase = "first" /\ phase' = "first" /\ f \in todo /\ todo' = todo \ {f}
      /\ UNCHANGED <<scope, i, progressed, names, deps>>
  BY SameDirectory DEF Hold, Deliver, Delay, Looks, First, Resume
<1>2. f \notin yielded /\ f \notin delayed
  BY <1>1 DEF GenInv, Placed
<1>3. CASE Hold(f)
  <2>1. held' = held \cup {f} /\ f \in Permission
        /\ UNCHANGED <<delivered, declared, delayed, yielded>>
    BY <1>3 DEF Hold
  <2> QED
    BY <1>1, <1>2, <2>1 DEF GenInv, Placed, Emptied, Waiting, NamesOf
<1>4. CASE Deliver(f)
  <2>1. /\ f \notin Permission /\ yielded' = yielded \cup {f} /\ UNCHANGED <<delayed, held>>
        /\ declared' = declared \cup Declares(f) /\ delivered' = delivered \cup Declares(f)
    BY <1>4 DEF Deliver, Yield
  <2>2. f \notin held
    BY <2>1 DEF GenInv, Placed
  <2>3. NamesOf(yielded)' = delivered'
    BY <1>1, <2>1, NamesGrow DEF GenInv, Placed, NamesOf
  <2>4. NamesOf(yielded \cup delayed)' = declared'
    <3>1. yielded' \cup delayed' = (yielded \cup delayed) \cup {f}
      BY <2>1
    <3>2. NamesOf(yielded \cup delayed)' = NamesOf((yielded \cup delayed) \cup {f})
      BY <1>1, <3>1 DEF NamesOf
    <3> QED
      BY <2>1, <3>2, NamesGrow DEF GenInv, Placed
  <2>5. Placed'
    <3>1. /\ scope' = (todo \cup delayed \cup held \cup yielded)'
          /\ (yielded \cap (todo \cup delayed \cup held))' = {}
          /\ (delayed \cap Permission)' = {} /\ (delayed \cap todo)' = {} /\ held' \subseteq Permission
      BY <1>1, <1>2, <2>1, <2>2 DEF GenInv, Placed
    <3> QED
      BY <2>3, <2>4, <3>1 DEF Placed
  <2> QED
    BY <1>1, <2>1, <2>5 DEF GenInv, Emptied, Waiting
<1>5. CASE Delay(f)
  <2>1. /\ f \notin Permission /\ delayed' = delayed \cup {f} /\ UNCHANGED <<held, yielded, delivered>>
        /\ declared' = declared \cup Declares(f)
    BY <1>5 DEF Delay
  <2>2. NamesOf(yielded \cup delayed)' = declared'
    <3>1. yielded' \cup delayed' = (yielded \cup delayed) \cup {f}
      BY <2>1
    <3>2. NamesOf(yielded \cup delayed)' = NamesOf((yielded \cup delayed) \cup {f})
      BY <1>1, <3>1 DEF NamesOf
    <3> QED
      BY <2>1, <3>2, NamesGrow DEF GenInv, Placed
  <2>3. NamesOf(yielded)' = delivered'
    BY <1>1, <2>1 DEF GenInv, Placed, NamesOf
  <2>4. Placed'
    BY <1>1, <1>2, <2>1, <2>2, <2>3 DEF GenInv, Placed
  <2> QED
    BY <1>1, <2>1, <2>4 DEF GenInv, Emptied, Waiting
<1> QED
  BY <1>3, <1>4, <1>5

\* The delayed loop releases a file or leaves it, from the end of the list.
LEMMA DelayedLoop ==
  ASSUME TypeOK, GenInv, NEW f \in File, Release(f) \/ Leave(f)
  PROVE  GenInv'
<1> USE DEF callVars
<1>1. /\ phase = "delayed" /\ phase' = "delayed" /\ f \in delayed /\ i' = f
      /\ \A g \in delayed : g < i => g <= f
      /\ UNCHANGED <<scope, todo, held, declared, names, deps>>
  BY SameDirectory DEF Release, Leave, Reconsiders, Latest, Resume
<1>2. CASE Release(f)
  <2>1. /\ delayed' = delayed \ {f} /\ yielded' = yielded \cup {f} /\ progressed' = TRUE
        /\ delivered' = delivered \cup Declares(f)
    BY <1>2 DEF Release, Yield
  <2>2. f \notin Permission /\ f \notin held /\ f \notin todo
    BY <1>1 DEF GenInv, Placed
  <2>3. NamesOf(yielded)' = delivered'
    BY <1>1, <2>1, NamesGrow DEF GenInv, Placed, NamesOf
  <2>4. yielded' \cup delayed' = yielded \cup delayed
    BY <1>1, <2>1
  <2>5. NamesOf(yielded \cup delayed)' = declared'
    BY <1>1, <2>4 DEF GenInv, Placed, NamesOf
  <2>6. Placed'
    BY <1>1, <2>1, <2>2, <2>3, <2>5 DEF GenInv, Placed
  <2> QED
    BY <1>1, <2>1, <2>2, <2>6 DEF GenInv, Emptied, Waiting
<1>3. CASE Leave(f)
  <2>1. UNCHANGED <<delayed, yielded, progressed, delivered>> /\ ~Resolved(f)
    BY <1>3 DEF Leave
  <2>2. \A g \in delayed : g >= f => g = f \/ g >= i
    <3>1. i \in Nat /\ \A g \in delayed : g \in Nat
      BY FileFacts DEF TypeOK
    <3> QED
      BY <1>1, <3>1
  <2>3. \A g : Resolved(g)' <=> Resolved(g)
    BY <1>1, <2>1 DEF Resolved
  <2>4. Waiting'
    BY <1>1, <2>1, <2>2, <2>3 DEF GenInv, Waiting
  <2> QED
    BY <1>1, <2>1, <2>4 DEF GenInv, Placed, Emptied, NamesOf
<1> QED
  BY <1>2, <1>3

\* The ends of the loops, and the permissions files.
LEMMA LoopEnds ==
  ASSUME TypeOK, GenInv, EndFirst \/ EndPass \/ EndGenerator \/ (\E f \in File : YieldPermission(f))
  PROVE  GenInv'
<1> USE FileFacts DEF callVars
<1>1. CASE EndFirst
  <2>1. /\ phase = "first" /\ todo = {} /\ phase' = IF delayed = {} THEN "permissions" ELSE "delayed"
        /\ UNCHANGED <<scope, names, deps, genVars>>
    BY <1>1, SameDirectory DEF EndFirst, Resume
  <2>2. Waiting'
    BY <2>1 DEF GenInv, Emptied, Waiting, genVars, TypeOK
  <2> QED
    BY <2>1, <2>2 DEF GenInv, Placed, Emptied, NamesOf, genVars
<1>2. CASE EndPass
  <2>1. /\ phase = "delayed" /\ \A f \in delayed : f >= i
        /\ phase' = IF ~progressed THEN "circular" ELSE IF delayed = {} THEN "permissions" ELSE "delayed"
        /\ i' = NoFile
        /\ UNCHANGED <<scope, names, deps, todo, delivered, declared, delayed, held, yielded>>
    BY <1>2, SameDirectory DEF EndPass, Resume
  <2>2. Waiting'
    BY <2>1 DEF GenInv, Waiting, Resolved, TypeOK
  <2>3. Placed'
    BY <2>1 DEF GenInv, Placed, NamesOf
  <2> QED
    BY <2>1, <2>2, <2>3 DEF GenInv, Emptied
<1>3. CASE EndGenerator
  BY <1>3, SameDirectory
     DEF EndGenerator, Resume, genVars, GenInv, Placed, Emptied, Waiting, NamesOf
<1>4. ASSUME NEW f \in File, YieldPermission(f)
      PROVE  GenInv'
  <2>1. /\ phase = "permissions" /\ phase' = "permissions" /\ f \in held /\ held' = held \ {f}
        /\ yielded' = yielded \cup {f}
        /\ UNCHANGED <<scope, names, deps, todo, delivered, declared, delayed>>
    BY <1>4, SameDirectory DEF YieldPermission, Resume, Yield, First
  <2>2. f \in Permission /\ Declares(f) = {}
    BY <2>1, DirectoryFacts, NameAssumption DEF GenInv, Placed, Declares
  <2>3. NamesOf(yielded)' = delivered'
    <3>1. NamesOf(yielded)' = NamesOf(yielded \cup {f})
      BY <2>1 DEF NamesOf
    <3> QED
      BY <2>1, <2>2, <3>1, NamesGrow DEF GenInv, Placed
  <2>4. NamesOf(yielded \cup delayed)' = declared'
    <3>1. yielded' \cup delayed' = (yielded \cup delayed) \cup {f}
      BY <2>1
    <3>2. NamesOf(yielded \cup delayed)' = NamesOf((yielded \cup delayed) \cup {f})
      BY <2>1, <3>1 DEF NamesOf
    <3> QED
      BY <2>1, <2>2, <3>2, NamesGrow DEF GenInv, Placed
  <2>5. Placed'
    BY <2>1, <2>2, <2>3, <2>4 DEF GenInv, Placed, Emptied
  <2> QED
    BY <2>1, <2>5 DEF GenInv, Emptied, Waiting
<1> QED
  BY <1>1, <1>2, <1>3, <1>4

\* A call starts with its whole scope in todo.
LEMMA CallGen ==
  ASSUME NEW S, NEW force, Call(S, force)
  PROVE  GenInv'
BY DEF Call, GenInv, Placed, Emptied, Waiting, NamesOf

\* The invariant holds initially ...
LEMMA InitGen == Init => GenInv
BY DEF Init, GenInv, Placed, Emptied, Waiting, NamesOf

\* ... and every step keeps it.
LEMMA NextGen == TypeOK /\ GenInv /\ [Next]_vars => GenInv'
<1>1. ASSUME GenInv, UNCHANGED vars
      PROVE  GenInv'
  BY <1>1, SameGen DEF vars, GenState, callVars
<1>2. ASSUME TypeOK, GenInv, Generate
      PROVE  GenInv'
  BY <1>2, FirstLoop, DelayedLoop, LoopEnds DEF Generate
<1> QED
  BY <1>1, <1>2, CallGen, ApplyKeepsGen, SameGen DEF Next

\* A step that yields a file takes one the build order allows.
LEMMA YieldTakes ==
  ASSUME TypeOK, GenInv, NEW f \in File, Deliver(f) \/ Release(f) \/ YieldPermission(f)
  PROVE  Order!Take(f)
<1> USE DEF callVars
<1>1. yielded' = yielded \cup {f} /\ UNCHANGED <<scope, names, deps>>
  BY SameDirectory DEF Deliver, Looks, Release, Reconsiders, YieldPermission, Yield
<1>2. f \in scope \ yielded
  BY DEF Deliver, Looks, First, Release, Reconsiders, Latest, YieldPermission, GenInv, Placed
<1>3. Order!Ready(f)
  <2>1. CASE Deliver(f)
    <3>1. f \notin Permission /\ deps[f] \subseteq NamesOf(yielded)
      BY <2>1 DEF Deliver, GenInv, Placed
    <3> QED
      BY <3>1 DEF Order!Ready, NamesOf
  <2>2. CASE Release(f)
    <3>1. /\ f \notin Permission /\ scope \ Permission \subseteq yielded \cup delayed
          /\ Resolved(f)
      BY <2>2 DEF Release, Reconsiders, Latest, Resume, GenInv, Placed, Emptied
    <3>2. ASSUME NEW g \in scope \ Permission, names[g] \in deps[f]
          PROVE  names[g] \in NamesOf(yielded)
      <4>1. names[g] \in Name
        BY <3>2, DirectoryFacts
      <4>2. names[g] \in declared
        BY <3>1, <4>1 DEF GenInv, Placed, NamesOf
      <4> QED
        BY <3>1, <3>2, <4>2 DEF Resolved, GenInv, Placed
    <3> QED
      BY <3>1, <3>2 DEF Order!Ready, NamesOf
  <2>3. CASE YieldPermission(f)
    <3>1. f \in Permission /\ todo = {} /\ delayed = {}
      BY <2>3 DEF YieldPermission, Resume, First, GenInv, Placed, Emptied
    <3>2. scope \ Permission \subseteq yielded
      BY <3>1 DEF GenInv, Placed
    <3> QED
      BY <3>1, <3>2 DEF Order!Ready
  <2> QED
    BY <2>1, <2>2, <2>3
<1> QED
  BY <1>1, <1>2, <1>3 DEF Order!Take

\* The generator implements the build order of BuildOrder: no file is yielded
\* twice, none before a file of the scope that declares what it depends on,
\* and permissions files come after all the others.
THEOREM OrderKept == Spec => KeepsOrder
<1>1. Init => Order!Init
  BY DEF Init, Order!Init
<1>2. TypeOK /\ GenInv /\ [Next]_vars => [Order!Next]_Order!vars
  <2> SUFFICES ASSUME TypeOK, GenInv, [Next]_vars
               PROVE  [Order!Next]_Order!vars
    OBVIOUS
  <2>1. ASSUME UNCHANGED <<dir, scope, yielded>>
        PROVE  [Order!Next]_Order!vars
    BY <2>1, SameDirectory DEF Order!vars
  <2>2. ASSUME NEW S, NEW force, Call(S, force)
        PROVE  Order!Next
    BY <2>2 DEF Call, Order!Next, Order!Start
  <2>3. ASSUME NEW f \in File, Deliver(f) \/ Release(f) \/ YieldPermission(f)
        PROVE  Order!Next
    BY <2>3, YieldTakes DEF Order!Next
  <2>4. ASSUME NEW f \in File, Hold(f) \/ Delay(f) \/ Leave(f)
        PROVE  UNCHANGED <<dir, scope, yielded>>
    BY <2>4 DEF Hold, Delay, Leave, Looks, Reconsiders, callVars
  <2>5. CASE EndFirst \/ EndPass \/ EndGenerator
    BY <2>1, <2>5 DEF EndFirst, EndPass, EndGenerator, callVars, genVars
  <2>6. CASE Apply \/ Hiccup \/ Crash
    BY <2>1, <2>6, ApplyKeepsGen DEF GenState, genVars
  <2>7. CASE UNCHANGED vars
    BY <2>1, <2>7 DEF vars, callVars, genVars
  <2> QED
    BY <2>1, <2>2, <2>3, <2>4, <2>5, <2>6, <2>7 DEF Next, Generate
<1> QED
  BY <1>1, <1>2, InitTypeOK, NextTypeOK, InitGen, NextGen, PTL DEF Spec, KeepsOrder, Order!Spec

\* Before the retries begin the whole scope has been yielded.
THEOREM AllYielded == Spec => []YieldsAll
<1>1. GenInv => YieldsAll
  BY DEF GenInv, Placed, Emptied, YieldsAll
<1> QED
  BY <1>1, InitTypeOK, NextTypeOK, InitGen, NextGen, PTL DEF Spec

\* The generator gives up only when every file it still holds waits for a name
\* that only such files declare.
THEOREM StopsOnCycles == Spec => []OnlyCyclesStop
<1>1. TypeOK /\ GenInv => OnlyCyclesStop
  <2> SUFFICES ASSUME TypeOK, GenInv, phase = "circular"
               PROVE  /\ delayed # {} /\ yielded \cap delayed = {}
                      /\ \A f \in delayed : \E n \in deps[f] :
                           /\ \E g \in delayed : names[g] = n
                           /\ \A g \in scope : names[g] = n => g \in delayed
    BY DEF OnlyCyclesStop
  <2>1. delayed # {} /\ yielded \cap delayed = {}
    BY DEF GenInv, Placed, Emptied
  <2>2. ASSUME NEW f \in delayed
        PROVE  \E n \in deps[f] : /\ \E g \in delayed : names[g] = n
                                  /\ \A g \in scope : names[g] = n => g \in delayed
    <3>1. PICK n \in deps[f] : n \notin delivered /\ n \in declared
      BY <2>2 DEF GenInv, Waiting, Resolved
    <3>2. n \in Name /\ n \notin {names[g] : g \in yielded} /\ n \in {names[g] : g \in yielded \cup delayed}
      BY <3>1 DEF GenInv, Placed, NamesOf
    <3>3. \A g \in Permission : names[g] # n
      BY <3>2, DirectoryFacts, NameAssumption
    <3>4. scope \subseteq delayed \cup yielded \cup Permission
      BY DEF GenInv, Placed, Emptied
    <3> QED
      BY <3>1, <3>2, <3>3, <3>4
  <2> QED
    BY <2>1, <2>2
<1> QED
  BY <1>1, InitTypeOK, NextTypeOK, InitGen, NextGen, PTL DEF Spec
-----------------------------------------------------------------------------
(* What a finished call has built *)

\* Two files of a scope that seed the same table bring as many rows: they are
\* variants of one file for different environments and share its fixture.
FixturesAgree ==
  \A v \in Version, S \in Scopes : \A f, g \in S :
    LET d == Content[v] IN
    /\ d.names[f] = d.names[g] /\ d.names[f] # NoName
    /\ d.seed[f] > 0 /\ d.seed[g] > 0
    => d.seed[f] = d.seed[g]

Calling == Generating \cup {"retry"}
ElemsFrom(s, n) == {s[j] : j \in {x \in DOMAIN s : x >= n}}

\* Files the call has yet to apply (again): the one it works on, those of this
\* pass and those for the next.
Awaited == {cur} \cup ElemsFrom(failures, k) \cup ElemsFrom(still_failing, 1)

\* The name exists, and the rows are there, once nobody is going to touch them.
Made(f) == f \in Awaited \/ Declares(f) \subseteq made
Filled(f) == seed[f] > 0 =>
  \/ rows[names[f]] = seed[f]
  \/ \E g \in scope \cap Awaited : names[g] = names[f] /\ seed[g] > 0

\* What apply_schema works on, and where it is with it.
WorkInv ==
  /\ scope \in Scopes \cup {{}}
  /\ phase \in Ended => cur = NoFile
  /\ phase \in Calling /\ cur = NoFile => at = "exec"
  /\ cur # NoFile => cur \in scope /\ (at # "exec" => seed[cur] > 0 /\ Declares(cur) \subseteq made)
  /\ ElemsFrom(failures, 1) \cup ElemsFrom(still_failing, 1) \subseteq scope

\* A pass takes the failed files one after the other.
PassInv ==
  /\ phase \in Generating => k = 1 /\ still_failing = <<>>
  /\ phase = "retry" => k <= Len(failures) + 1 /\ Len(still_failing) < k
  /\ phase = "retry" /\ cur # NoFile => k <= Len(failures) /\ cur = failures[k]
  /\ phase = "done" => failures = <<>> /\ still_failing = <<>>

BuiltInv ==
  /\ WorkInv /\ PassInv
  /\ phase \in Calling \cup {"done", "stuck"} => \A f \in yielded : Made(f) /\ Filled(f)

\* The elements of a sequence one longer, and from one place further on.
LEMMA ElemsAppend ==
  ASSUME NEW s \in Seq(File), NEW f \in File, NEW n \in Nat \ {0}
  PROVE  /\ ElemsFrom(s, n) \subseteq ElemsFrom(Append(s, f), n)
         /\ n <= Len(s) + 1 => ElemsFrom(Append(s, f), n) = ElemsFrom(s, n) \cup {f}
<1> DEFINE t == Append(s, f)
<1>1. /\ DOMAIN s = 1..Len(s) /\ DOMAIN t = 1..(Len(s) + 1) /\ Len(s) \in Nat
      /\ \A j \in 1..Len(s) : t[j] = s[j]
      /\ t[Len(s) + 1] = f
  OBVIOUS
<1> HIDE DEF t
<1>2. ElemsFrom(s, n) \subseteq ElemsFrom(t, n)
  BY <1>1 DEF ElemsFrom
<1>3. ASSUME n <= Len(s) + 1
      PROVE  ElemsFrom(t, n) = ElemsFrom(s, n) \cup {f}
  BY <1>1, <1>3 DEF ElemsFrom
<1> QED
  BY <1>2, <1>3 DEF t

\* Dropping the place n loses at most its element.
LEMMA ElemsNext ==
  ASSUME NEW s \in Seq(File), NEW n \in Nat \ {0}
  PROVE  /\ n <= Len(s) => ElemsFrom(s, n) = ElemsFrom(s, n + 1) \cup {s[n]}
         /\ n > Len(s) => ElemsFrom(s, n) = {}
<1>1. DOMAIN s = 1..Len(s) /\ Len(s) \in Nat
  OBVIOUS
<1> QED
  BY <1>1 DEF ElemsFrom
\* While the directory stays, so do the names and fixtures.
LEMMA SameFixtures ==
  ASSUME UNCHANGED dir
  PROVE  UNCHANGED <<names, seed>> /\ \A f : Declares(f)' = Declares(f)
BY DEF names, seed, Declares

\* Within a scope, FixturesAgree speaks of the call's directory.
LEMMA ScopeAgrees ==
  ASSUME FixturesAgree, TypeOK, scope \in Scopes \cup {{}}, NEW f \in scope, NEW g \in scope,
         names[f] = names[g], names[f] # NoName, seed[f] > 0, seed[g] > 0
  PROVE  seed[f] = seed[g]
BY DEF FixturesAgree, TypeOK, names, seed

\* A table with a fixture has a name.
LEMMA SeededNamed ==
  ASSUME TypeOK, NEW f \in File, seed[f] > 0
  PROVE  names[f] # NoName /\ names[f] \in Name
<1>1. names[f] # NoName
  BY DirectoryAssumption DEF TypeOK, names, seed
<1> QED
  BY <1>1, DirectoryFacts

\* A file that is done with leaves Awaited only if it was applied.
LEMMA SettleWork ==
  ASSUME TypeOK, WorkInv, PassInv, cur \in File, NEW ok \in BOOLEAN, Settle(ok)
  PROVE  /\ WorkInv' /\ PassInv' /\ phase \in Calling /\ UNCHANGED <<dir, scope, phase, yielded>>
         /\ Awaited \ {cur} \subseteq Awaited'
         /\ ~ok => cur \in Awaited'
<1> USE FileFacts
<1>t. /\ failures \in Seq(File) /\ still_failing \in Seq(File) /\ k \in Nat \ {0}
      /\ Len(failures) \in Nat /\ Len(still_failing) \in Nat
  BY DEF TypeOK
<1>1. phase \in Calling /\ cur # NoFile
  BY DEF TypeOK, WorkInv, Calling
<1>2. /\ cur' = NoFile /\ at' = "exec"
      /\ UNCHANGED <<dir, scope, phase, yielded>>
  BY DEF Settle, callVars, genVars
<1>3. CASE phase \in Generating
  <2>1. /\ phase # "retry" /\ k = 1 /\ still_failing = <<>> /\ UNCHANGED <<still_failing, k>>
        /\ failures' = IF ok THEN failures ELSE Append(failures, cur)
    BY <1>3 DEF Settle, PassInv, Generating
  <2>2. /\ ElemsFrom(failures, 1) \subseteq ElemsFrom(failures', 1)
        /\ ElemsFrom(failures', 1) \subseteq ElemsFrom(failures, 1) \cup {cur}
        /\ ~ok => cur \in ElemsFrom(failures', 1)
    <3>1. 1 \in Nat \ {0} /\ 1 <= Len(failures) + 1
      BY <1>t
    <3>2. ElemsFrom(Append(failures, cur), 1) = ElemsFrom(failures, 1) \cup {cur}
      BY <1>t, <3>1, ElemsAppend
    <3> QED
      BY <2>1, <3>2
  <2>3. WorkInv'
    BY <1>1, <1>2, <2>1, <2>2 DEF WorkInv, Calling, Ended
  <2>4. PassInv'
    BY <1>2, <1>3, <2>1 DEF PassInv, Generating
  <2>5. Awaited \ {cur} \subseteq Awaited' /\ (~ok => cur \in Awaited')
    BY <2>1, <2>2 DEF Awaited
  <2> QED
    BY <1>1, <1>2, <2>3, <2>4, <2>5
<1>4. CASE phase = "retry"
  <2>1. /\ still_failing' = IF ok THEN still_failing ELSE Append(still_failing, cur)
        /\ k' = k + 1 /\ failures' = failures
    BY <1>4 DEF Settle
  <2>2. k <= Len(failures) /\ cur = failures[k] /\ Len(still_failing) < k
    BY <1>1, <1>4 DEF PassInv
  <2>3. ElemsFrom(failures, k) = ElemsFrom(failures', k') \cup {cur}
    BY <1>t, <2>1, <2>2, ElemsNext
  <2>4. /\ ElemsFrom(still_failing, 1) \subseteq ElemsFrom(still_failing', 1)
        /\ ElemsFrom(still_failing', 1) \subseteq ElemsFrom(still_failing, 1) \cup {cur}
        /\ ~ok => cur \in ElemsFrom(still_failing', 1)
    <3>1. 1 \in Nat \ {0} /\ 1 <= Len(still_failing) + 1
      BY <1>t
    <3>2. ElemsFrom(Append(still_failing, cur), 1) = ElemsFrom(still_failing, 1) \cup {cur}
      BY <1>t, <3>1, ElemsAppend
    <3> QED
      BY <2>1, <3>2
  <2>5. WorkInv'
    BY <1>1, <1>2, <2>1, <2>4 DEF WorkInv, Calling, Ended
  <2>6. PassInv'
    <3>1. Len(still_failing') <= Len(still_failing) + 1
      <4>1. Len(Append(still_failing, cur)) = Len(still_failing) + 1
        BY <1>t
      <4> QED
        BY <1>t, <2>1, <4>1
    <3>2. k' <= Len(failures') + 1 /\ Len(still_failing') < k'
      <4>1. Len(still_failing') \in Nat
        BY <1>t, <2>1
      <4> QED
        BY <1>t, <2>1, <2>2, <3>1, <4>1
    <3> QED
      BY <1>2, <1>4, <3>2 DEF PassInv, Generating
  <2>7. Awaited \ {cur} \subseteq Awaited' /\ (~ok => cur \in Awaited')
    BY <2>3, <2>4 DEF Awaited
  <2> QED
    BY <1>1, <1>2, <2>5, <2>6, <2>7
<1> QED
  BY <1>1, <1>3, <1>4 DEF Calling
\* A file that is applied has its name and its rows, and spoils no other's.
LEMMA SettleBuilt ==
  ASSUME TypeOK, FixturesAgree, BuiltInv, GenInv, cur \in File, Settle(TRUE), made \subseteq made',
         Declares(cur) \subseteq made',
         rows' = rows \/ (seed[cur] > 0 /\ \A n \in Name \ {names[cur]} : rows'[n] = rows[n]),
         seed[cur] > 0 => rows'[names[cur]] = seed[cur]
  PROVE  BuiltInv'
<1>1. /\ WorkInv' /\ PassInv' /\ phase \in Calling /\ UNCHANGED <<dir, scope, phase, yielded>>
      /\ Awaited \ {cur} \subseteq Awaited'
  BY SettleWork DEF BuiltInv
<1>2. UNCHANGED <<names, seed>> /\ \A f : Declares(f)' = Declares(f)
  BY <1>1, SameFixtures
<1>3. /\ cur \in scope /\ scope \in Scopes \cup {{}} /\ yielded \subseteq scope /\ scope \subseteq File
      /\ seed \in [File -> Nat]
  BY FileFacts, DirectoryFacts DEF BuiltInv, WorkInv, GenInv, Placed, TypeOK
<1>4. ASSUME NEW f \in yielded
      PROVE  Made(f)'
  <2>1. Made(f)
    BY <1>1 DEF BuiltInv
  <2> QED
    BY <1>1, <1>2, <2>1 DEF Made
<1>5. ASSUME NEW f \in yielded, seed[f] > 0
      PROVE  rows'[names[f]] = seed[f] \/ \E g \in scope \cap Awaited' : names[g] = names[f] /\ seed[g] > 0
  <2>0. f \in scope /\ f \in File /\ names[f] # NoName /\ names[f] \in Name
    BY <1>3, <1>5, SeededNamed
  <2>1. CASE names[f] = names[cur] /\ seed[cur] > 0
    BY <1>3, <1>5, <2>0, <2>1, ScopeAgrees
  <2>2. CASE ~(names[f] = names[cur] /\ seed[cur] > 0)
    <3>1. rows'[names[f]] = rows[names[f]]
      BY <2>0, <2>2
    <3>2. \A g \in scope \cap Awaited : names[g] = names[f] /\ seed[g] > 0 => g \in Awaited'
      BY <1>1, <2>2
    <3>3. Filled(f)
      BY <1>1 DEF BuiltInv
    <3> QED
      BY <1>5, <3>1, <3>2, <3>3 DEF Filled
  <2> QED
    BY <2>1, <2>2
<1>6. \A f \in yielded : Filled(f)'
  BY <1>1, <1>2, <1>5 DEF Filled
<1> QED
  BY <1>1, <1>4, <1>6 DEF BuiltInv

\* A step that only adds to what exists and to what is awaited keeps the rest.
LEMMA MoreAwaited ==
  ASSUME GenInv, TypeOK, BuiltInv, WorkInv', PassInv', UNCHANGED <<dir, scope, yielded, rows>>,
         made \subseteq made', Awaited \ {NoFile} \subseteq Awaited',
         phase' \in Calling \cup {"done", "stuck"} => phase \in Calling \cup {"done", "stuck"}
  PROVE  BuiltInv'
<1>1. UNCHANGED <<names, seed>> /\ \A f : Declares(f)' = Declares(f)
  BY SameFixtures
<1>2. yielded \subseteq scope /\ scope \subseteq File /\ NoFile \notin File
  BY FileFacts DEF GenInv, Placed, TypeOK
<1>3. \A f \in yielded : Made(f) => Made(f)'
  BY <1>1, <1>2 DEF Made
<1>4. \A f \in yielded : Filled(f) => Filled(f)'
  BY <1>1, <1>2 DEF Filled
<1> QED
  BY <1>3, <1>4 DEF BuiltInv

\* Executing and seeding keep the invariant.
LEMMA ApplyBuilt ==
  ASSUME TypeOK, FixturesAgree, GenInv, BuiltInv, NEW f \in File,
         \/ ExecFile(f) \/ ExecPermission(f) \/ SeedPresent(f) \/ SeedDelete(f) \/ SeedCopy(f)
         \/ ApplyFails(f) \/ (Hiccup /\ cur = f)
  PROVE  BuiltInv'
<1> USE DirectoryFacts
<1>c. cur = f
  BY DEF ExecFile, ExecPermission, SeedPresent, SeedDelete, SeedCopy, ApplyFails, Fails, Executes
<1>w. /\ f \in scope /\ (at # "exec" => seed[f] > 0 /\ Declares(f) \subseteq made)
      /\ f # NoFile /\ phase \in Calling
  BY <1>c, FileFacts DEF BuiltInv, WorkInv, TypeOK, Calling
<1>p. f \in Permission => Declares(f) = {} /\ seed[f] = 0
  BY DirectoryAssumption, NameAssumption DEF TypeOK, names, seed, Declares
<1>a. ASSUME NEW step \in {"seed", "copy"}, Continue(step), seed[f] > 0, Declares(f) \subseteq made',
             made \subseteq made'
      PROVE  WorkInv' /\ PassInv' /\ UNCHANGED <<dir, scope, yielded, phase>> /\ Awaited' = Awaited
  <2>1. /\ at' = step
        /\ UNCHANGED <<dir, scope, yielded, phase, cur, failures, still_failing, k>>
    BY <1>a DEF Continue, callVars, genVars, retryVars
  <2>2. UNCHANGED <<names, seed>> /\ \A g : Declares(g)' = Declares(g)
    BY <2>1, SameFixtures
  <2> QED
    BY <1>a, <1>c, <1>w, <2>1, <2>2 DEF WorkInv, PassInv, BuiltInv, Awaited
<1>1. CASE ExecFile(f)
  <2>1. made' = made \cup Declares(f) /\ rows' = rows
    BY <1>1 DEF ExecFile
  <2>2. CASE seed[f] > 0
    <3>1. Continue("seed")
      BY <1>1, <2>2 DEF ExecFile
    <3> QED
      BY <1>a, <1>w, <2>1, <2>2, <3>1, MoreAwaited
  <2>3. CASE ~(seed[f] > 0)
    <3>1. Settle(TRUE)
      BY <1>1, <2>3 DEF ExecFile
    <3> QED
      BY <1>c, <2>1, <2>3, <3>1, SettleBuilt
  <2> QED
    BY <2>2, <2>3
<1>2. CASE ExecPermission(f)
  BY <1>2, <1>c, <1>p, SettleBuilt DEF ExecPermission
<1>3. CASE SeedPresent(f)
  BY <1>3, <1>c, <1>w, SettleBuilt DEF SeedPresent, Seeded, dbVars
<1>4. CASE SeedDelete(f)
  <2>1. /\ Continue("copy") /\ made' = made /\ rows' = [rows EXCEPT ![names[f]] = 0]
        /\ seed[f] > 0 /\ Declares(f) \subseteq made
    BY <1>4, <1>w DEF SeedDelete
  <2>2. WorkInv' /\ PassInv' /\ UNCHANGED <<dir, scope, yielded, phase>> /\ Awaited' = Awaited
    BY <1>a, <2>1
  <2>3. UNCHANGED <<names, seed>> /\ \A g : Declares(g)' = Declares(g)
    BY <2>2, SameFixtures
  <2>4. \A g \in yielded : Made(g)'
    BY <1>w, <2>1, <2>2, <2>3 DEF BuiltInv, Made
  <2>5. ASSUME NEW g \in yielded
        PROVE  Filled(g)'
    <3>1. CASE names[g] = names[f]
      BY <1>c, <1>w, <2>1, <2>2, <2>3, <3>1 DEF Filled, Awaited
    <3>2. CASE names[g] # names[f]
      <4>1. rows'[names[g]] = rows[names[g]]
        BY <2>1, <3>2
      <4>2. Filled(g)
        BY <1>w DEF BuiltInv
      <4> QED
        BY <2>2, <2>3, <4>1, <4>2 DEF Filled
    <3> QED
      BY <3>1, <3>2
  <2> QED
    BY <2>2, <2>4, <2>5 DEF BuiltInv
<1>5. CASE SeedCopy(f)
  <2>1. /\ Settle(TRUE) /\ made' = made /\ rows' = [rows EXCEPT ![names[f]] = seed[f]]
        /\ seed[f] > 0 /\ Declares(f) \subseteq made
    BY <1>5, <1>w DEF SeedCopy
  <2>2. names[f] \in Name /\ rows \in [Name -> Nat]
    BY <2>1, SeededNamed DEF TypeOK
  <2>3. rows'[names[f]] = seed[f] /\ \A n \in Name \ {names[f]} : rows'[n] = rows[n]
    BY <2>1, <2>2
  <2> QED
    BY <1>c, <2>1, <2>3, SettleBuilt
<1>6. CASE ApplyFails(f) \/ Hiccup
  <2>1. Settle(FALSE) /\ UNCHANGED dbVars
    <3>1. CASE ApplyFails(f)
      BY <3>1, Zenon DEF ApplyFails
    <3>2. CASE Hiccup
      BY <3>2, Zenon DEF Hiccup
    <3> QED
      BY <1>6, <3>1, <3>2
  <2>2. /\ WorkInv' /\ PassInv' /\ UNCHANGED <<dir, scope, phase, yielded>>
        /\ Awaited \subseteq Awaited'
    BY <1>c, <2>1, SettleWork DEF BuiltInv
  <2> QED
    BY <1>w, <2>1, <2>2, MoreAwaited DEF dbVars
<1> QED
  BY <1>1, <1>2, <1>3, <1>4, <1>5, <1>6
\* The retry loop takes the next file, or turns to the next pass.
LEMMA RetryBuilt ==
  ASSUME TypeOK, GenInv, BuiltInv, Retry \/ EndRetry \/ Crash
  PROVE  BuiltInv'
<1> USE FileFacts
<1>t. /\ failures \in Seq(File) /\ still_failing \in Seq(File) /\ k \in Nat \ {0}
      /\ Len(failures) \in Nat /\ Len(still_failing) \in Nat
      /\ DOMAIN failures = 1..Len(failures)
  BY DEF TypeOK
<1>1. CASE Retry
  <2>1. /\ phase = "retry" /\ cur = NoFile /\ k <= Len(failures) /\ cur' = failures[k]
        /\ UNCHANGED <<dir, scope, yielded, rows, made, phase, at, failures, still_failing, k>>
    BY <1>1 DEF Retry, Resume, dbVars, callVars, genVars, retryVars
  <2>2. k \in DOMAIN failures /\ failures[k] \in ElemsFrom(failures, 1) /\ failures[k] \in File
    BY <1>t, <2>1 DEF ElemsFrom
  <2>3. at = "exec" /\ failures[k] \in scope
    BY <2>1, <2>2 DEF BuiltInv, WorkInv, Calling
  <2>4. WorkInv'
    BY <2>1, <2>3 DEF BuiltInv, WorkInv, Calling, Ended
  <2>5. PassInv'
    BY <2>1 DEF BuiltInv, PassInv, Generating
  <2>6. Awaited \ {NoFile} \subseteq Awaited'
    BY <2>1 DEF Awaited
  <2> QED
    BY <2>1, <2>4, <2>5, <2>6, MoreAwaited
<1>2. CASE EndRetry
  <2>1. /\ phase = "retry" /\ cur = NoFile /\ k > Len(failures)
        /\ phase' = IF failures = <<>> THEN "done"
                    ELSE IF Len(still_failing) = Len(failures) THEN "stuck" ELSE "retry"
        /\ failures' = still_failing /\ still_failing' = <<>> /\ k' = 1
        /\ UNCHANGED <<dir, scope, yielded, rows, made, at, cur>>
    BY <1>2 DEF EndRetry, Resume, dbVars, callVars, genVars
  <2>2. failures = <<>> => still_failing = <<>>
    <3> SUFFICES ASSUME failures = <<>> PROVE Len(still_failing) = 0
      BY <1>t
    <3>1. k <= Len(failures) + 1 /\ Len(still_failing) < k /\ Len(failures) = 0
      BY <2>1 DEF BuiltInv, PassInv
    <3> QED
      BY <1>t, <3>1
  <2>3. ElemsFrom(failures, k) = {} /\ ElemsFrom(<<>>, 1) = {}
    BY <1>t, <2>1 DEF ElemsFrom
  <2>4. Awaited' = Awaited
    BY <2>1, <2>3 DEF Awaited
  <2>5. at = "exec"
    BY <2>1 DEF BuiltInv, WorkInv, Calling
  <2>6. WorkInv'
    BY <2>1, <2>3, <2>5 DEF BuiltInv, WorkInv, Calling, Ended
  <2>7. PassInv'
    <3>1. Len(still_failing') = 0 /\ Len(failures') \in Nat
      BY <1>t, <2>1
    <3> QED
      BY <2>1, <2>2, <3>1 DEF PassInv, Generating
  <2> QED
    BY <2>1, <2>4, <2>6, <2>7, MoreAwaited DEF Calling
<1>3. CASE Crash
  <2>1. /\ phase' = "off" /\ cur' = NoFile
        /\ UNCHANGED <<scope, failures, still_failing>>
    BY <1>3 DEF Crash, callVars, retryVars
  <2> QED
    BY <2>1 DEF BuiltInv, WorkInv, PassInv, Calling, Generating, Ended
<1> QED
  BY <1>1, <1>2, <1>3

\* The generator hands over one file of the scope at a time.
LEMMA GenerateBuilt ==
  ASSUME TypeOK, GenInv, BuiltInv, Generate
  PROVE  BuiltInv'
<1> USE FileFacts DEF dbVars, callVars, retryVars, genVars
<1>0. phase \in Generating /\ cur = NoFile
  BY DEF Generate, EndFirst, EndPass, EndGenerator, Hold, Deliver, Delay, Looks, Release, Leave,
         Reconsiders, YieldPermission, Resume, Generating
<1>1. at = "exec" /\ k = 1 /\ still_failing = <<>>
  BY <1>0 DEF BuiltInv, WorkInv, PassInv, Calling
<1>2. ASSUME NEW f \in scope, Yield(f), phase' = phase,
             UNCHANGED <<dir, scope, rows, made, failures, still_failing, k>>
      PROVE  BuiltInv'
  <2>1. cur' = f /\ at' = "exec" /\ yielded' = yielded \cup {f} /\ f \in File
    BY <1>2 DEF Yield, TypeOK
  <2>2. WorkInv'
    BY <1>0, <1>2, <2>1 DEF BuiltInv, WorkInv, Ended, Generating
  <2>3. PassInv'
    BY <1>0, <1>2 DEF BuiltInv, PassInv, Generating
  <2>4. UNCHANGED <<names, seed>> /\ \A g : Declares(g)' = Declares(g)
    BY <1>2, SameFixtures
  <2>5. Awaited \ {NoFile} \subseteq Awaited' /\ f \in Awaited'
    BY <1>0, <1>2, <2>1 DEF Awaited
  <2>6. yielded \subseteq scope /\ scope \subseteq File
    BY DEF GenInv, Placed, TypeOK
  <2>7. \A g \in yielded : Made(g) /\ Filled(g)
    BY <1>0 DEF BuiltInv, Calling
  <2>8. \A g \in yielded' : Made(g)'
    BY <1>2, <2>1, <2>4, <2>5, <2>6, <2>7 DEF Made
  <2>9. \A g \in yielded' : Filled(g)'
    BY <1>2, <2>1, <2>4, <2>5, <2>6, <2>7 DEF Filled
  <2> QED
    BY <2>2, <2>3, <2>8, <2>9 DEF BuiltInv
<1>3. ASSUME NEW f \in File, Deliver(f) \/ Release(f) \/ YieldPermission(f)
      PROVE  BuiltInv'
  <2>1. /\ f \in todo \cup delayed \cup held /\ Yield(f)
        /\ UNCHANGED <<phase, dir, scope, rows, made, failures, still_failing, k>>
    BY <1>3 DEF Deliver, Looks, First, Release, Reconsiders, Latest, YieldPermission
  <2>2. f \in scope
    BY <2>1 DEF GenInv, Placed
  <2> QED
    BY <1>2, <2>1, <2>2
<1>4. ASSUME UNCHANGED <<dir, scope, rows, made, yielded, cur, at, failures, still_failing, k>>,
             phase' \in Calling \cup {"circular"}
      PROVE  BuiltInv'
  <2>1. Len(failures) \in Nat /\ Len(<<>>) = 0
    BY DEF TypeOK
  <2>2. WorkInv'
    BY <1>0, <1>1, <1>4, SameFixtures DEF BuiltInv, WorkInv, Calling, Ended, Generating
  <2>3. PassInv'
    BY <1>0, <1>1, <1>4, <2>1 DEF BuiltInv, PassInv, Calling, Generating
  <2>4. Awaited' = Awaited
    BY <1>4 DEF Awaited
  <2> QED
    BY <1>0, <1>4, <2>2, <2>3, <2>4, MoreAwaited DEF Calling
<1>5. ASSUME NEW f \in File, Hold(f) \/ Delay(f) \/ Leave(f)
      PROVE  BuiltInv'
  <2>1. UNCHANGED <<phase, dir, scope, rows, made, yielded, cur, at, failures, still_failing, k>>
    BY <1>5 DEF Hold, Delay, Leave, Looks, Reconsiders
  <2> QED
    BY <1>0, <1>4, <2>1 DEF Calling
<1>6. CASE EndFirst \/ EndPass \/ EndGenerator
  <2>1. /\ UNCHANGED <<dir, scope, rows, made, yielded, cur, at, failures, still_failing, k>>
        /\ phase' \in Calling \cup {"circular"}
    BY <1>6 DEF EndFirst, EndPass, EndGenerator, Calling, Generating
  <2> QED
    BY <1>4, <2>1
<1> QED
  BY <1>3, <1>5, <1>6 DEF Generate

\* A call starts with nothing yielded.
LEMMA CallBuilt ==
  ASSUME TypeOK, NEW S \in Scopes, NEW force, Call(S, force)
  PROVE  BuiltInv'
<1>1. /\ phase' = "first" /\ scope' = S /\ yielded' = {} /\ cur' = NoFile /\ at' = "exec"
      /\ failures' = <<>> /\ still_failing' = <<>> /\ k' = 1
  BY DEF Call
<1>2. ElemsFrom(<<>>, 1) = {}
  BY DEF ElemsFrom
<1> QED
  BY <1>1, <1>2 DEF BuiltInv, WorkInv, PassInv, Calling, Generating, Ended

\* BuiltInv holds initially ...
LEMMA InitBuilt == Init => BuiltInv
<1>1. ElemsFrom(<<>>, 1) = {}
  BY DEF ElemsFrom
<1> QED
  BY <1>1 DEF Init, BuiltInv, WorkInv, PassInv, Calling, Generating, Ended

\* ... and every step keeps it.
LEMMA NextBuilt == FixturesAgree /\ TypeOK /\ GenInv /\ BuiltInv /\ [Next]_vars => BuiltInv'
<1> SUFFICES ASSUME FixturesAgree, TypeOK, GenInv, BuiltInv, [Next]_vars
             PROVE  BuiltInv'
  OBVIOUS
<1>1. CASE UNCHANGED vars
  <2>1. UNCHANGED <<scope, phase, cur, at, failures, still_failing, k, dir, yielded, rows, made>>
    BY <1>1 DEF vars, dbVars, callVars, genVars, retryVars
  <2>2. WorkInv' /\ PassInv' /\ Awaited' = Awaited
    BY <2>1, SameFixtures DEF BuiltInv, WorkInv, PassInv, Awaited
  <2> QED
    BY <2>1, <2>2, MoreAwaited
<1>2. CASE Apply
  BY <1>2, ApplyBuilt, RetryBuilt DEF Apply
<1>3. CASE Hiccup
  <2>1. cur \in File
    BY <1>3, FileFacts DEF Hiccup, TypeOK
  <2> QED
    BY <1>3, <2>1, ApplyBuilt
<1> QED
  BY <1>1, <1>2, <1>3, GenerateBuilt, CallBuilt, RetryBuilt DEF Next

\* A call of apply_schema that returns has built everything: each file's name
\* exists and each fixture's rows are there, for any directory and any edits
\* between the calls, wherever statements fail and earlier calls died.
THEOREM DoneBuilt == FixturesAgree => (Spec => []DoneIsBuilt)
<1> SUFFICES ASSUME FixturesAgree
             PROVE  Spec => []DoneIsBuilt
  OBVIOUS
<1>1. TypeOK /\ GenInv /\ BuiltInv => DoneIsBuilt
  <2> SUFFICES ASSUME TypeOK, GenInv, BuiltInv, phase = "done", NEW f \in scope
               PROVE  /\ Declares(f) \subseteq made
                      /\ seed[f] > 0 => rows[names[f]] = seed[f]
    BY DEF DoneIsBuilt
  <2>1. f \in yielded /\ scope \subseteq File
    BY DEF GenInv, Placed, Emptied, TypeOK
  <2>2. Awaited = {NoFile}
    BY DEF Awaited, ElemsFrom, BuiltInv, WorkInv, PassInv, Ended
  <2>3. scope \cap Awaited = {}
    BY <2>1, <2>2, FileFacts
  <2>4. Made(f) /\ Filled(f)
    BY <2>1 DEF BuiltInv
  <2> QED
    BY <2>1, <2>3, <2>4 DEF Made, Filled
<1>2. TypeOK /\ GenInv /\ BuiltInv /\ [Next]_vars => BuiltInv'
  BY NextBuilt
<1> QED
  BY <1>1, <1>2, InitTypeOK, NextTypeOK, InitGen, NextGen, InitBuilt, PTL DEF Spec
-----------------------------------------------------------------------------
(* When the retries give up *)

\* In a scope one file brings the rows of a table; files that declare the same
\* table give it the same foreign keys.
OneSeeder ==
  \A v \in Version, S \in Scopes : \A f \in S, g \in File :
    LET d == Content[v] IN
    d.names[f] = d.names[g] /\ d.names[f] # NoName /\ d.seed[f] > 0 =>
      /\ d.refs[f] = d.refs[g]
      /\ g \in S /\ d.seed[g] > 0 => f = g

\* A call on an empty database, nothing having failed for a reason of its own.
Clean == fresh /\ faults = 0

Failed == ElemsFrom(failures, 1)
Distinct(s) == \A x, y \in DOMAIN s : s[x] = s[y] => x = y

\* Every failed file is in line once; those that failed again in this pass come
\* from the part of the line that is behind, and are that part if all did.
LineInv ==
  /\ Distinct(failures) /\ Distinct(still_failing) /\ Failed \subseteq yielded
  /\ phase \in Generating /\ cur # NoFile => cur \in yielded \ Failed
  /\ phase = "retry" =>
       /\ \A x \in DOMAIN still_failing : \E y \in DOMAIN failures : y < k /\ still_failing[x] = failures[y]
       /\ Len(still_failing) = k - 1 => \A x \in DOMAIN still_failing : still_failing[x] = failures[x]

\* Only tables that exist have rows ...
RowsMade == \A n \in Name : rows[n] > 0 => n \in made

\* ... and in a clean call, only those of files it is done with, which have
\* found the rows they point at.
Owned(n) == \E g \in yielded \ Awaited :
  names[g] = n /\ seed[g] > 0 /\ \A m \in refs[g] : rows[m] > 0
RowsOwned == Clean /\ phase \in Calling => \A n \in Name : rows[n] > 0 => Owned(n)

\* What fails in a pass was not ready when the pass began.
Unready ==
  /\ Clean /\ phase = "retry" => \A f \in ElemsFrom(still_failing, 1) : ~Ready(f, scope \ Failed)
  /\ Clean /\ phase = "stuck" => Failed # {} /\ \A f \in Failed : ~Ready(f, scope \ Failed)

GainInv == LineInv /\ RowsMade /\ RowsOwned /\ Unready

\* A set of numbers has a least one: what an induction here rests on.
LEMMA Least ==
  ASSUME NEW T, T \subseteq Nat, T # {}
  PROVE  \E x \in T : \A y \in T : x <= y
<1>1. \A x, y \in Nat : <<y, x>> \in OpToRel(<, Nat) <=> y < x
  BY DEF OpToRel
<1>2. IsWellFoundedOn(OpToRel(<, Nat), Nat)
  BY NatLessThanWellFounded
<1> DEFINE R == OpToRel(<, Nat)
<1> HIDE DEF R
<1>3. IsWellFoundedOn(R, Nat) /\ \A x, y \in Nat : <<y, x>> \in R <=> y < x
  BY <1>1, <1>2 DEF R
<1>4. PICK x \in T : \A y \in T : ~ (<<y, x>> \in R)
  BY <1>3, WFMin
<1>5. ASSUME NEW y \in T
      PROVE  x <= y
  <2>1. ~(y < x)
    BY <1>3, <1>4
  <2>2. x \in Nat /\ y \in Nat
    OBVIOUS
  <2> QED
    BY <2>1, <2>2
<1> QED
  BY <1>5

\* The rounds are what their recursion says.
LEMMA RoundEquation ==
  \A n \in 0..NumFiles :
    Round[n] = IF n = 0 THEN {} ELSE {f \in scope : Ready(f, Round[n - 1])}
<1> DEFINE Body(g, m) == [n \in 0..m |-> IF n = 0 THEN {} ELSE {f \in scope : Ready(f, g[n - 1])}]
           Has(m) == \E g : g = Body(g, m)
           T == {m \in Nat : ~Has(m)}
<1>1. Has(0)
  <2> DEFINE g == [n \in 0..0 |-> {}]
  <2>1. g = Body(g, 0)
    OBVIOUS
  <2> QED
    BY <2>1
<1>2. ASSUME NEW m \in Nat, Has(m)
      PROVE  Has(m + 1)
  <2>1. PICK g : g = Body(g, m)
    BY <1>2
  <2> DEFINE h == [n \in 0..(m + 1) |-> IF n = m + 1 THEN {f \in scope : Ready(f, g[m])} ELSE g[n]]
  <2>2. ASSUME NEW n \in 0..(m + 1)
        PROVE  h[n] = IF n = 0 THEN {} ELSE {f \in scope : Ready(f, h[n - 1])}
    <3>1. CASE n = m + 1
      <4>1. h[n] = {f \in scope : Ready(f, g[m])} /\ h[n - 1] = g[m] /\ n # 0
        BY <3>1
      <4> QED
        BY <4>1
    <3>2. CASE n # m + 1
      <4>1. n \in 0..m /\ h[n] = g[n]
        BY <3>2
      <4>2. g[n] = IF n = 0 THEN {} ELSE {f \in scope : Ready(f, g[n - 1])}
        BY <2>1, <4>1
      <4>3. n # 0 => h[n - 1] = g[n - 1]
        BY <4>1
      <4> QED
        BY <4>1, <4>2, <4>3
    <3> QED
      BY <3>1, <3>2
  <2> HIDE DEF h
  <2>3. h = [n \in 0..(m + 1) |-> h[n]]
    BY DEF h
  <2>4. h = Body(h, m + 1)
    BY <2>2, <2>3
  <2> QED
    BY <2>4
<1>3. T = {}
  <2> HIDE DEF Has
  <2> SUFFICES ASSUME T # {} PROVE FALSE
    OBVIOUS
  <2>1. PICK x \in T : \A y \in T : x <= y
    BY Least
  <2>2. x \in Nat /\ ~Has(x)
    OBVIOUS
  <2>3. CASE x = 0
    BY <1>1, <2>2, <2>3
  <2>4. CASE x # 0
    <3>1. x - 1 \in Nat /\ (x - 1) + 1 = x /\ ~(x <= x - 1)
      BY <2>2, <2>4
    <3>2. Has(x - 1)
      BY <2>1, <3>1
    <3> QED
      BY <1>2, <2>2, <3>1, <3>2
  <2> QED
    BY <2>3, <2>4
<1>4. Has(NumFiles)
  <2> HIDE DEF Has
  <2> QED
    BY <1>3, FileAssumption
<1>5. Round = Body(Round, NumFiles)
  BY <1>4 DEF Round
<1> QED
  BY <1>5

\* What OneSeeder says of the call's directory.
LEMMA SoleSeeder ==
  ASSUME OneSeeder, TypeOK, scope \in Scopes \cup {{}}, NEW f \in scope, NEW g \in File,
         names[f] = names[g], seed[f] > 0
  PROVE  refs[f] = refs[g] /\ (g \in scope /\ seed[g] > 0 => f = g)
<1>1. f \in File /\ names[f] # NoName
  BY SeededNamed DEF TypeOK
<1> QED
  BY <1>1 DEF OneSeeder, TypeOK, names, seed, refs

\* It is more than FixturesAgree.
LEMMA SeedersAgree == OneSeeder => FixturesAgree
BY ScopeAssumption DEF OneSeeder, FixturesAgree

\* A sequence and one that is an element longer.
LEMMA AppendFacts ==
  ASSUME NEW s \in Seq(File), NEW f \in File
  PROVE  /\ DOMAIN s = 1..Len(s) /\ Len(s) \in Nat
         /\ Append(s, f) \in Seq(File) /\ Len(Append(s, f)) = Len(s) + 1
         /\ DOMAIN Append(s, f) = 1..(Len(s) + 1)
         /\ \A j \in 1..Len(s) : Append(s, f)[j] = s[j]
         /\ Append(s, f)[Len(s) + 1] = f
OBVIOUS

\* The elements of a whole sequence.
LEMMA ElemsAll ==
  ASSUME NEW s \in Seq(File)
  PROVE  ElemsFrom(s, 1) = {s[j] : j \in DOMAIN s}
<1>1. \A j \in DOMAIN s : j \in Nat /\ j >= 1
  OBVIOUS
<1> QED
  BY <1>1 DEF ElemsFrom

\* A new element keeps the others apart.
LEMMA DistinctAppend ==
  ASSUME NEW s \in Seq(File), NEW f \in File, Distinct(s), \A j \in DOMAIN s : s[j] # f
  PROVE  Distinct(Append(s, f))
<1> DEFINE t == Append(s, f)
<1>1. /\ DOMAIN s = 1..Len(s) /\ DOMAIN t = 1..(Len(s) + 1) /\ Len(s) \in Nat
      /\ \A j \in 1..Len(s) : t[j] = s[j]
      /\ t[Len(s) + 1] = f
  BY AppendFacts
<1> HIDE DEF t
<1>2. ASSUME NEW x \in DOMAIN t, NEW y \in DOMAIN t, t[x] = t[y]
      PROVE  x = y
  <2>1. x \in 1..Len(s) \/ x = Len(s) + 1
    BY <1>1
  <2>2. y \in 1..Len(s) \/ y = Len(s) + 1
    BY <1>1
  <2> QED
    BY <1>1, <1>2, <2>1, <2>2 DEF Distinct
<1> QED
  BY <1>2 DEF Distinct, t

\* A file that is done with leaves its place in the line, and goes to the end
\* of the next one if it failed.
LEMMA SettleLine ==
  ASSUME TypeOK, WorkInv, PassInv, LineInv, cur \in File, NEW ok \in BOOLEAN, Settle(ok)
  PROVE  /\ LineInv'
         /\ Awaited' \subseteq Awaited \cup {NoFile}
         /\ ok => cur \notin Awaited'
         /\ phase = "retry" =>
              /\ Failed' = Failed
              /\ ElemsFrom(still_failing, 1)' \subseteq
                   ElemsFrom(still_failing, 1) \cup (IF ok THEN {} ELSE {cur})
<1>t. /\ failures \in Seq(File) /\ still_failing \in Seq(File) /\ k \in Nat \ {0}
      /\ Len(failures) \in Nat /\ Len(still_failing) \in Nat
      /\ DOMAIN failures = 1..Len(failures) /\ DOMAIN still_failing = 1..Len(still_failing)
  BY DEF TypeOK
<1>c. phase \in Calling /\ cur # NoFile /\ NoFile \notin File
  BY FileFacts DEF TypeOK, WorkInv, Calling
<1>1. cur' = NoFile /\ UNCHANGED <<phase, yielded>>
  BY DEF Settle, genVars
<1>2. CASE phase \in Generating
  <2>1. /\ phase # "retry" /\ k = 1 /\ still_failing = <<>> /\ UNCHANGED <<still_failing, k>>
        /\ failures' = IF ok THEN failures ELSE Append(failures, cur)
    BY <1>2 DEF Settle, PassInv, Generating
  <2>2. cur \in yielded \ Failed /\ \A j \in DOMAIN failures : failures[j] # cur
    BY <1>c, <1>2, <1>t, ElemsAll DEF LineInv, Failed
  <2>3. Distinct(failures')
    BY <1>t, <2>1, <2>2, DistinctAppend DEF LineInv
  <2>4. ElemsFrom(failures', 1) = Failed \cup (IF ok THEN {} ELSE {cur})
    <3>1. 1 \in Nat \ {0} /\ 1 <= Len(failures) + 1
      BY <1>t
    <3> QED
      BY <1>t, <2>1, <3>1, ElemsAppend DEF Failed
  <2>5. LineInv'
    BY <1>1, <1>2, <2>1, <2>2, <2>3, <2>4 DEF LineInv, Failed, Generating
  <2>6. Awaited' = {NoFile} \cup Failed \cup (IF ok THEN {} ELSE {cur}) \cup ElemsFrom(<<>>, 1)
    BY <1>1, <2>1, <2>4 DEF Awaited
  <2>7. ElemsFrom(<<>>, 1) = {}
    BY DEF ElemsFrom
  <2>8. Failed \cup {cur} \subseteq Awaited
    BY <2>1 DEF Awaited, Failed
  <2> QED
    BY <1>c, <2>1, <2>2, <2>5, <2>6, <2>7, <2>8
<1>3. CASE phase = "retry"
  <2>1. /\ still_failing' = IF ok THEN still_failing ELSE Append(still_failing, cur)
        /\ k' = k + 1 /\ failures' = failures
    BY <1>3 DEF Settle
  <2>2. k \in DOMAIN failures /\ cur = failures[k] /\ Len(still_failing) < k
    BY <1>c, <1>3, <1>t DEF PassInv
  <2>3. ElemsFrom(still_failing', 1) = ElemsFrom(still_failing, 1) \cup (IF ok THEN {} ELSE {cur})
    <3>1. 1 \in Nat \ {0} /\ 1 <= Len(still_failing) + 1
      BY <1>t
    <3> QED
      BY <1>t, <2>1, <3>1, ElemsAppend
  <2>4. ElemsFrom(failures, k) = ElemsFrom(failures, k + 1) \cup {cur}
    BY <1>t, <2>2, ElemsNext
  <2>5. \A x \in DOMAIN still_failing : \E y \in DOMAIN failures : y < k /\ still_failing[x] = failures[y]
    BY <1>3 DEF LineInv
  <2>6. \A x \in DOMAIN still_failing : still_failing[x] # cur
    BY <1>t, <2>2, <2>5 DEF LineInv, Distinct
  <2>7. cur \notin ElemsFrom(failures, k + 1) /\ cur \notin ElemsFrom(still_failing, 1)
    <3>1. \A j \in DOMAIN failures : j >= k + 1 => failures[j] # cur
      BY <1>t, <2>2 DEF LineInv, Distinct
    <3> QED
      BY <2>6, <3>1 DEF ElemsFrom
  <2>8. Distinct(still_failing')
    BY <1>t, <2>1, <2>6, DistinctAppend DEF LineInv
  <2>9. \A x \in DOMAIN still_failing' : \E y \in DOMAIN failures : y < k' /\ still_failing'[x] = failures[y]
    <3>1. \A y \in DOMAIN failures : y < k => y < k + 1
      BY <1>t
    <3>2. k < k + 1
      BY <1>t
    <3>3. CASE ok
      BY <2>1, <2>5, <3>1, <3>3
    <3>4. CASE ~ok
      <4>1. /\ DOMAIN still_failing' = 1..(Len(still_failing) + 1)
            /\ \A j \in 1..Len(still_failing) : still_failing'[j] = still_failing[j]
            /\ still_failing'[Len(still_failing) + 1] = cur
        BY <1>t, <2>1, <3>4, AppendFacts
      <4>2. \A x \in DOMAIN still_failing' : x \in DOMAIN still_failing \/ x = Len(still_failing) + 1
        BY <1>t, <4>1
      <4> QED
        BY <1>t, <2>1, <2>2, <2>5, <3>1, <3>2, <4>1, <4>2
    <3> QED
      BY <3>3, <3>4
  <2>10. ASSUME Len(still_failing') = k' - 1, NEW x \in DOMAIN still_failing'
         PROVE  still_failing'[x] = failures[x]
    <3>0. Len(still_failing') = k
      <4>1. k' = k + 1 /\ (k + 1) - 1 = k
        BY <1>t, <2>1
      <4> QED
        BY <2>10, <4>1
    <3>1. ~ok
      <4> SUFFICES ASSUME ok PROVE FALSE
        OBVIOUS
      <4>1. Len(still_failing) = k
        BY <2>1, <3>0
      <4> QED
        BY <1>t, <2>2, <4>1
    <3>2. /\ DOMAIN still_failing' = 1..(Len(still_failing) + 1) /\ Len(still_failing') = Len(still_failing) + 1
          /\ \A j \in 1..Len(still_failing) : still_failing'[j] = still_failing[j]
          /\ still_failing'[Len(still_failing) + 1] = cur
      BY <1>t, <2>1, <3>1, AppendFacts
    <3>3. Len(still_failing) = k - 1 /\ Len(still_failing) + 1 = k
      BY <1>t, <3>0, <3>2
    <3>4. CASE x = k
      BY <2>2, <3>2, <3>3, <3>4
    <3>5. CASE x # k
      <4>1. x \in DOMAIN still_failing
        BY <1>t, <3>2, <3>3, <3>5
      <4> QED
        BY <1>3, <1>t, <3>2, <3>3, <4>1 DEF LineInv
    <3> QED
      BY <3>4, <3>5
  <2>11. LineInv'
    BY <1>1, <1>3, <2>1, <2>8, <2>9, <2>10 DEF LineInv, Failed, Generating
  <2>12. Awaited' = {NoFile} \cup ElemsFrom(failures, k + 1) \cup ElemsFrom(still_failing', 1)
    BY <1>1, <2>1 DEF Awaited
  <2>13. Awaited' \subseteq Awaited \cup {NoFile} /\ (ok => cur \notin Awaited')
    BY <1>c, <2>3, <2>4, <2>7, <2>12 DEF Awaited
  <2> QED
    BY <2>1, <2>3, <2>11, <2>13 DEF Failed
<1> QED
  BY <1>c, <1>2, <1>3 DEF Calling

\* While the directory stays, so does what being ready means.
LEMMA SameReady ==
  ASSUME UNCHANGED dir
  PROVE  UNCHANGED <<names, seed, refs, needs>> /\ \A f, S : Ready(f, S)' <=> Ready(f, S)
BY DEF names, seed, refs, needs, Ready

\* More files applied leave a file ready.
LEMMA ReadyGrows ==
  ASSUME NEW f, NEW S, NEW T, S \subseteq T, Ready(f, S)
  PROVE  Ready(f, T)
BY DEF Ready

\* Once the generator has ended, every file is yielded, and those a retry may
\* still touch are among the failed.
LEMMA RetryAwaits ==
  ASSUME TypeOK, GenInv, BuiltInv, LineInv, phase = "retry"
  PROVE  /\ yielded = scope /\ scope \subseteq File /\ Awaited \cap scope \subseteq Failed
         /\ cur # NoFile => cur \in Failed
<1>t. /\ failures \in Seq(File) /\ still_failing \in Seq(File) /\ k \in Nat \ {0}
      /\ Len(failures) \in Nat /\ DOMAIN failures = 1..Len(failures)
  BY DEF TypeOK
<1>1. yielded = scope /\ scope \subseteq File /\ NoFile \notin scope
  BY FileFacts DEF GenInv, Placed, Emptied, TypeOK
<1>2. Failed = {failures[j] : j \in DOMAIN failures}
  BY <1>t, ElemsAll DEF Failed
<1>3. cur # NoFile => cur \in Failed
  BY <1>t, <1>2 DEF BuiltInv, PassInv
<1>4. ElemsFrom(failures, k) \subseteq Failed
  BY <1>2 DEF ElemsFrom
<1>5. ElemsFrom(still_failing, 1) \subseteq Failed
  BY <1>2 DEF ElemsFrom, LineInv
<1> QED
  BY <1>1, <1>3, <1>4, <1>5 DEF Awaited

\* In a clean call a file that was ready when the pass began does not fail:
\* what it needs is there, the rows it points at are, and nobody's rows point
\* at its own, which it has yet to bring.
LEMMA ReadyApplies ==
  ASSUME OneSeeder, TypeOK, GenInv, BuiltInv, LineInv, RowsOwned, Clean, phase = "retry",
         NEW f \in File, Fails(f)
  PROVE  ~Ready(f, scope \ Failed)
<1> SUFFICES ASSUME Ready(f, scope \ Failed) PROVE FALSE
  OBVIOUS
<1>1. /\ yielded = scope /\ scope \subseteq File /\ Awaited \cap scope \subseteq Failed
      /\ cur = f /\ f \in scope /\ f \in Awaited
  <2>1. cur = f /\ f # NoFile
    BY FileFacts DEF Fails
  <2> QED
    BY <2>1, RetryAwaits DEF BuiltInv, WorkInv, Awaited
<1>2. scope \in Scopes \cup {{}} /\ \A g \in scope : Made(g) /\ Filled(g)
  BY <1>1 DEF BuiltInv, WorkInv, Calling
<1>3. ASSUME NEW g \in scope \ Failed
      PROVE  Declares(g) \subseteq made /\ (seed[g] > 0 => rows[names[g]] > 0)
  <2>1. g \notin Awaited /\ g \in File
    BY <1>1
  <2>2. ASSUME seed[g] > 0, NEW h \in scope \cap Awaited, names[h] = names[g], seed[h] > 0
        PROVE  FALSE
    BY <1>1, <1>2, <2>1, <2>2, SoleSeeder
  <2> QED
    BY <1>2, <2>1, <2>2 DEF Made, Filled
<1>4. needs[f] \subseteq made
  <2> SUFFICES ASSUME NEW n \in needs[f] PROVE n \in made
    OBVIOUS
  <2>1. PICK g \in scope \ Failed : n = names[g]
    BY DEF Ready
  <2>2. n \in Name
    BY DirectoryFacts
  <2> QED
    BY <1>3, <2>1, <2>2 DEF Declares
<1>5. CASE at = "exec"
  BY <1>4, <1>5 DEF Fails
<1>6. ASSUME at # "exec"
      PROVE  seed[f] > 0 /\ names[f] \in Name /\ names[f] # NoName
  BY <1>1, <1>6, FileFacts, SeededNamed DEF BuiltInv, WorkInv
<1>7. CASE at = "copy"
  <2>1. PICK n \in refs[f] : ~(rows[n] > 0)
    BY <1>7 DEF Fails, CanCopy
  <2>2. PICK g \in scope \ Failed : seed[g] > 0 /\ n = names[g]
    BY <1>6, <1>7 DEF Ready
  <2> QED
    BY <1>3, <2>1, <2>2
<1>8. CASE at = "seed"
  <2>1. PICK g \in File : names[f] \in refs[g] /\ names[g] # NoName /\ rows[names[g]] > 0
    BY <1>8 DEF Fails, Referenced
  <2>2. \A n \in Name : rows[n] > 0 => Owned(n)
    BY DEF RowsOwned, Calling
  <2>3. names[g] \in Name
    BY <2>1, DirectoryFacts
  <2>4. PICK h \in scope \ Awaited : names[h] = names[g] /\ seed[h] > 0 /\ \A m \in refs[h] : rows[m] > 0
    BY <1>1, <2>1, <2>2, <2>3 DEF Owned
  <2>5. refs[h] = refs[g]
    BY <1>2, <2>4, SoleSeeder
  <2>6. rows[names[f]] > 0
    BY <2>1, <2>4, <2>5
  <2>7. PICK e \in scope \ Awaited : names[e] = names[f] /\ seed[e] > 0
    BY <1>1, <1>6, <1>8, <2>2, <2>6 DEF Owned
  <2>8. f = e
    BY <1>1, <1>2, <1>6, <1>8, <2>7, SoleSeeder
  <2> QED
    BY <1>1, <2>7, <2>8
<1> QED
  BY <1>5, <1>7, <1>8 DEF Fails

\* Rows a file has found stay found.
LEMMA OwnedStays ==
  ASSUME TypeOK, UNCHANGED dir, yielded \subseteq yielded', yielded \subseteq File,
         Awaited' \cap yielded \subseteq Awaited, NEW n, Owned(n),
         \A g \in yielded : names[g] = n => \A m \in refs[g] : rows[m] > 0 => rows'[m] > 0
  PROVE  Owned(n)'
<1>1. PICK g \in yielded \ Awaited : names[g] = n /\ seed[g] > 0 /\ \A m \in refs[g] : rows[m] > 0
  BY DEF Owned
<1>2. g \in yielded' \ Awaited'
  BY <1>1
<1>3. UNCHANGED <<names, seed, refs>>
  BY SameReady
<1> QED
  BY <1>1, <1>2, <1>3 DEF Owned

\* A file that is done with keeps the invariant, if all that it changes are the
\* rows of its own table, and in a clean retry it fails only if it was not ready.
LEMMA SettleGain ==
  ASSUME TypeOK, GenInv, BuiltInv, GainInv, cur \in File, NEW ok \in BOOLEAN, Settle(ok),
         RowsMade', UNCHANGED faults,
         \A n \in Name : rows[n] > 0 => rows'[n] > 0,
         \A n \in Name : rows'[n] > 0 /\ ~(rows[n] > 0) =>
           ok /\ n = names[cur] /\ seed[cur] > 0 /\ \A m \in refs[cur] : rows[m] > 0,
         ~ok /\ Clean /\ phase = "retry" => ~Ready(cur, scope \ Failed)
  PROVE  GainInv'
<1>1. /\ LineInv' /\ Awaited' \subseteq Awaited \cup {NoFile} /\ (ok => cur \notin Awaited')
      /\ phase = "retry" =>
           /\ Failed' = Failed
           /\ ElemsFrom(still_failing, 1)' \subseteq ElemsFrom(still_failing, 1) \cup (IF ok THEN {} ELSE {cur})
  BY SettleLine DEF BuiltInv, GainInv
<1>2. phase \in Calling /\ UNCHANGED <<dir, scope, phase, yielded, fresh>> /\ (Clean' <=> Clean)
  <2>1. UNCHANGED <<dir, scope, phase, yielded, fresh>>
    BY DEF Settle, callVars, genVars
  <2>2. phase \in Calling
    BY FileFacts DEF BuiltInv, WorkInv, TypeOK, Calling
  <2> QED
    BY <2>1, <2>2 DEF Clean
<1>3. cur \in yielded /\ yielded \subseteq File /\ NoFile \notin File
  <2>1. yielded \subseteq File /\ NoFile \notin File
    BY FileFacts DEF TypeOK
  <2>2. phase \in Generating => cur \in yielded
    BY <2>1 DEF GainInv, LineInv
  <2>3. phase = "retry" => cur \in yielded
    BY <2>1, RetryAwaits DEF GainInv, LineInv
  <2> QED
    BY <1>2, <2>1, <2>2, <2>3 DEF Calling
<1>4. UNCHANGED <<names, seed, refs>> /\ \A f, S : Ready(f, S)' <=> Ready(f, S)
  BY <1>2, SameReady
<1>5. RowsOwned'
  <2> SUFFICES ASSUME Clean, NEW n \in Name, rows'[n] > 0
               PROVE  Owned(n)'
    BY <1>2 DEF RowsOwned
  <2>1. \A g \in yielded : refs[g] \subseteq Name
    BY <1>3, DirectoryFacts
  <2>2. CASE rows[n] > 0
    <3>1. Owned(n)
      BY <1>2, <2>2 DEF GainInv, RowsOwned
    <3> QED
      BY <1>1, <1>2, <1>3, <2>1, <3>1, OwnedStays
  <2>3. CASE ~(rows[n] > 0)
    <3>1. ok /\ n = names[cur] /\ seed[cur] > 0 /\ \A m \in refs[cur] : rows[m] > 0
      BY <2>3
    <3> QED
      BY <1>1, <1>2, <1>3, <1>4, <2>1, <3>1 DEF Owned
  <2> QED
    BY <2>2, <2>3
<1>6. Unready'
  <2> SUFFICES ASSUME Clean, phase = "retry", NEW f \in ElemsFrom(still_failing, 1)'
               PROVE  ~Ready(f, scope \ Failed)
    BY <1>1, <1>2, <1>4 DEF Unready, Calling, Generating
  <2>1. f \in ElemsFrom(still_failing, 1) => ~Ready(f, scope \ Failed)
    BY DEF GainInv, Unready
  <2> QED
    BY <1>1, <2>1
<1> QED
  BY <1>1, <1>5, <1>6 DEF GainInv

\* A step within a file leaves the lists alone; rows it takes away are of a
\* table that nobody's rows point at.
LEMMA ContinueGain ==
  ASSUME TypeOK, GainInv, NEW step, Continue(step), RowsMade', UNCHANGED faults,
         \A n \in Name : rows'[n] > 0 => rows[n] > 0,
         \A g \in File : names[g] \in Name /\ rows'[names[g]] > 0 =>
           \A m \in refs[g] : rows[m] > 0 => rows'[m] > 0
  PROVE  GainInv'
<1>1. /\ UNCHANGED <<dir, scope, fresh, phase, yielded, cur, failures, still_failing, k>>
      /\ yielded \subseteq File
  BY DEF Continue, callVars, genVars, retryVars, TypeOK
<1>2. UNCHANGED <<names, seed, refs>> /\ \A f, S : Ready(f, S)' <=> Ready(f, S)
  BY <1>1, SameReady
<1>3. Awaited' = Awaited /\ Failed' = Failed /\ (Clean' <=> Clean)
  BY <1>1 DEF Awaited, Failed, Clean
<1>4. LineInv'
  BY <1>1, <1>3 DEF GainInv, LineInv
<1>5. Unready'
  BY <1>1, <1>2, <1>3 DEF GainInv, Unready
<1>6. RowsOwned'
  <2> SUFFICES ASSUME Clean, phase \in Calling, NEW n \in Name, rows'[n] > 0
               PROVE  Owned(n)'
    BY <1>1, <1>3 DEF RowsOwned
  <2>1. Owned(n)
    BY DEF GainInv, RowsOwned
  <2> QED
    BY <1>1, <1>3, <2>1, OwnedStays
<1> QED
  BY <1>4, <1>5, <1>6 DEF GainInv

\* What exists only grows while the rows stay.
LEMMA MoreMade ==
  ASSUME RowsMade, made \subseteq made', UNCHANGED rows
  PROVE  RowsMade'
BY DEF RowsMade

\* Executing and seeding keep the invariant.
LEMMA ApplyGain ==
  ASSUME OneSeeder, TypeOK, GenInv, BuiltInv, GainInv, NEW f \in File,
         \/ ExecFile(f) \/ ExecPermission(f) \/ SeedPresent(f) \/ SeedDelete(f) \/ SeedCopy(f)
         \/ ApplyFails(f)
  PROVE  GainInv'
<1>c. cur = f /\ f # NoFile /\ RowsMade /\ UNCHANGED faults
  BY FileFacts
     DEF ExecFile, ExecPermission, SeedPresent, SeedDelete, SeedCopy, ApplyFails, Fails, Executes, GainInv
<1>w. at # "exec" => seed[f] > 0 /\ Declares(f) \subseteq made /\ names[f] \in Name /\ names[f] \in made
  BY <1>c, SeededNamed DEF BuiltInv, WorkInv, Declares
<1>r. rows \in [Name -> Nat] /\ seed[f] \in Nat /\ \A g \in File : refs[g] \subseteq Name
  BY DirectoryFacts DEF TypeOK
<1>1. CASE ExecFile(f)
  <2>1. made \subseteq made' /\ rows' = rows
    BY <1>1 DEF ExecFile
  <2>2. RowsMade'
    BY <1>c, <2>1, MoreMade
  <2>3. CASE seed[f] > 0
    <3>1. Continue("seed")
      BY <1>1, <2>3 DEF ExecFile
    <3> QED
      BY <1>c, <2>1, <2>2, <3>1, ContinueGain
  <2>4. CASE ~(seed[f] > 0)
    <3>1. Settle(TRUE)
      BY <1>1, <2>4 DEF ExecFile
    <3> QED
      BY <1>c, <2>1, <2>2, <3>1, SettleGain
  <2> QED
    BY <2>3, <2>4
<1>2. CASE ExecPermission(f) \/ SeedPresent(f)
  <2>1. Settle(TRUE) /\ made' = made /\ rows' = rows
    BY <1>2 DEF ExecPermission, SeedPresent, dbVars
  <2>2. RowsMade'
    BY <1>c, <2>1, MoreMade
  <2> QED
    BY <1>c, <2>1, <2>2, SettleGain
<1>3. CASE SeedDelete(f)
  <2>1. /\ Continue("copy") /\ made' = made /\ rows' = [rows EXCEPT ![names[f]] = 0]
        /\ at # "exec" /\ ~Referenced(f)
    BY <1>3 DEF SeedDelete
  <2>2. /\ ~(rows'[names[f]] > 0)
        /\ \A n \in Name : n # names[f] => rows'[n] = rows[n]
    BY <1>r, <1>w, <2>1
  <2>3. \A n \in Name : rows'[n] > 0 => rows[n] > 0
    BY <2>2
  <2>4. RowsMade'
    BY <1>c, <2>1, <2>3 DEF RowsMade
  <2>5. ASSUME NEW g \in File, names[g] \in Name, rows'[names[g]] > 0, NEW m \in refs[g], rows[m] > 0
        PROVE  rows'[m] > 0
    <3>1. names[g] # NoName /\ rows[names[g]] > 0
      BY <2>3, <2>5, NameAssumption
    <3>2. m # names[f]
      BY <2>1, <2>5, <3>1 DEF Referenced
    <3> QED
      BY <1>r, <2>2, <2>5, <3>2
  <2> QED
    BY <1>c, <2>1, <2>3, <2>4, <2>5, ContinueGain
<1>4. CASE SeedCopy(f)
  <2>1. /\ Settle(TRUE) /\ made' = made /\ rows' = [rows EXCEPT ![names[f]] = seed[f]]
        /\ at # "exec" /\ \A m \in refs[f] : rows[m] > 0
    BY <1>4 DEF SeedCopy, CanCopy
  <2>2. /\ rows'[names[f]] > 0
        /\ \A n \in Name : n # names[f] => rows'[n] = rows[n]
    BY <1>r, <1>w, <2>1
  <2>3. RowsMade'
    BY <1>c, <1>w, <2>1, <2>2 DEF RowsMade
  <2>4. \A n \in Name : rows[n] > 0 => rows'[n] > 0
    BY <2>2
  <2>5. \A n \in Name : rows'[n] > 0 /\ ~(rows[n] > 0) => n = names[f]
    BY <2>2
  <2> QED
    BY <1>c, <1>w, <2>1, <2>3, <2>4, <2>5, SettleGain
<1>5. CASE ApplyFails(f)
  <2>1. Fails(f) /\ Settle(FALSE) /\ made' = made /\ rows' = rows
    BY <1>5, Zenon DEF ApplyFails, dbVars
  <2>2. RowsMade'
    BY <1>c, <2>1, MoreMade
  <2>3. Clean /\ phase = "retry" => ~Ready(f, scope \ Failed)
    BY <2>1, ReadyApplies DEF GainInv
  <2> QED
    BY <1>c, <2>1, <2>2, <2>3, SettleGain
<1> QED
  BY <1>1, <1>2, <1>3, <1>4, <1>5

\* A failure without a reason, or a death, makes the call unclean.
LEMMA FaultGain ==
  ASSUME TypeOK, GenInv, BuiltInv, GainInv, Hiccup \/ Crash
  PROVE  GainInv'
<1>1. ~Clean' /\ made' = made /\ rows' = rows
  <2>1. faults \in Nat /\ faults' = faults + 1
    BY DEF Hiccup, Crash, Fault, TypeOK
  <2>2. UNCHANGED dbVars
    BY Zenon DEF Hiccup, Crash
  <2> QED
    BY <2>1, <2>2 DEF Clean, dbVars
<1>2. RowsMade' /\ RowsOwned' /\ Unready'
  BY <1>1, MoreMade DEF RowsOwned, Unready, GainInv
<1>3. CASE Hiccup
  <2>1. cur \in File /\ Settle(FALSE)
    BY <1>3, FileFacts DEF Hiccup, TypeOK
  <2> QED
    BY <1>2, <2>1, SettleLine DEF GainInv, BuiltInv
<1>4. CASE Crash
  <2>1. phase' = "off" /\ UNCHANGED <<yielded, failures, still_failing>>
    BY <1>4 DEF Crash, genVars, retryVars
  <2> QED
    BY <1>2, <2>1 DEF GainInv, LineInv, Failed, Generating
<1> QED
  BY <1>3, <1>4

\* If all of the line failed again, the next line is the same, and nothing that
\* was not ready has become so.
LEMMA RetryGain ==
  ASSUME TypeOK, GenInv, BuiltInv, GainInv, Retry \/ EndRetry
  PROVE  GainInv'
<1>t. /\ failures \in Seq(File) /\ still_failing \in Seq(File) /\ k \in Nat \ {0}
      /\ Len(failures) \in Nat /\ Len(still_failing) \in Nat
      /\ DOMAIN failures = 1..Len(failures) /\ DOMAIN still_failing = 1..Len(still_failing)
  BY DEF TypeOK
<1>0. /\ phase = "retry" /\ cur = NoFile
      /\ UNCHANGED <<dir, scope, fresh, faults, yielded, made, rows>>
  BY DEF Retry, EndRetry, Resume, dbVars, callVars, genVars
<1>1. UNCHANGED <<names, seed, refs>> /\ (\A f, S : Ready(f, S)' <=> Ready(f, S)) /\ (Clean' <=> Clean)
  BY <1>0, SameReady DEF Clean
<1>2. RowsMade'
  BY <1>0, MoreMade DEF GainInv
<1>3. ASSUME Awaited' \subseteq Awaited
      PROVE  RowsOwned'
  BY <1>0, <1>1, <1>3 DEF GainInv, RowsOwned, Owned, Calling
<1>4. CASE Retry
  <2>1. /\ k <= Len(failures) /\ cur' = failures[k]
        /\ UNCHANGED <<phase, failures, still_failing, k>>
    BY <1>4 DEF Retry, retryVars
  <2>2. cur' \in ElemsFrom(failures, k)
    BY <1>t, <2>1 DEF ElemsFrom
  <2>3. Awaited' \subseteq Awaited /\ Failed' = Failed
    BY <2>1, <2>2 DEF Awaited, Failed
  <2>4. LineInv' /\ Unready'
    BY <1>0, <1>1, <2>1, <2>3 DEF GainInv, LineInv, Unready, Generating
  <2> QED
    BY <1>2, <1>3, <2>3, <2>4 DEF GainInv
<1>5. CASE EndRetry
  <2>1. /\ k > Len(failures)
        /\ phase' = IF failures = <<>> THEN "done"
                    ELSE IF Len(still_failing) = Len(failures) THEN "stuck" ELSE "retry"
        /\ failures' = still_failing /\ still_failing' = <<>> /\ k' = 1 /\ cur' = cur
    BY <1>5 DEF EndRetry
  <2>2. ElemsFrom(<<>>, 1) = {}
    BY DEF ElemsFrom
  <2>3. Awaited' \subseteq Awaited
    BY <2>1, <2>2 DEF Awaited
  <2>4. Failed' = ElemsFrom(still_failing, 1) /\ Failed' \subseteq Failed
    <3>1. Failed' = {still_failing[j] : j \in DOMAIN still_failing}
      BY <1>t, <2>1, ElemsAll DEF Failed
    <3>2. Failed = {failures[j] : j \in DOMAIN failures}
      BY <1>t, ElemsAll DEF Failed
    <3> QED
      BY <1>0, <2>1, <3>1, <3>2 DEF GainInv, LineInv, Failed
  <2>5. LineInv'
    <3>1. DOMAIN <<>> = {}
      OBVIOUS
    <3>2. Distinct(failures') /\ Distinct(still_failing') /\ Failed' \subseteq yielded'
      BY <1>0, <2>1, <2>4, <3>1 DEF GainInv, LineInv, Distinct
    <3>3. phase' \notin Generating
      BY <2>1 DEF Generating
    <3> QED
      BY <2>1, <3>1, <3>2, <3>3 DEF LineInv
  <2>6. ASSUME Clean, phase' = "stuck"
        PROVE  Failed' # {} /\ \A f \in Failed' : ~Ready(f, scope \ Failed')
    <3>1. Len(still_failing) = Len(failures) /\ Len(failures) # 0
      <4>1. failures # <<>> /\ Len(still_failing) = Len(failures)
        BY <2>1, <2>6
      <4> QED
        BY <1>t, <4>1
    <3>2. k = Len(failures) + 1
      <4>1. k > Len(failures) /\ k <= Len(failures) + 1
        BY <1>0, <2>1 DEF BuiltInv, PassInv
      <4> QED
        BY <1>t, <4>1
    <3>3. \A x \in DOMAIN still_failing : still_failing[x] = failures[x]
      <4>1. Len(still_failing) = k - 1
        BY <1>t, <3>1, <3>2
      <4> QED
        BY <1>0, <4>1 DEF GainInv, LineInv
    <3>4. Failed' = Failed /\ Failed # {}
      <4>1. DOMAIN still_failing = DOMAIN failures /\ 1 \in DOMAIN failures
        BY <1>t, <3>1
      <4>2. Failed = {failures[j] : j \in DOMAIN failures}
        BY <1>t, ElemsAll DEF Failed
      <4>3. Failed' = {still_failing[j] : j \in DOMAIN still_failing}
        BY <1>t, <2>4, ElemsAll
      <4> QED
        BY <3>3, <4>1, <4>2, <4>3
    <3> QED
      BY <1>0, <2>4, <2>6, <3>4 DEF GainInv, Unready
  <2>7. Unready'
    BY <1>0, <1>1, <2>1, <2>2, <2>6 DEF Unready
  <2> QED
    BY <1>2, <1>3, <2>3, <2>5, <2>7 DEF GainInv
<1> QED
  BY <1>4, <1>5

\* A file the generator hands over is new to the lists.
LEMMA GenerateGain ==
  ASSUME TypeOK, GenInv, BuiltInv, GainInv, Generate
  PROVE  GainInv'
<1> USE DEF dbVars, callVars, retryVars, genVars
<1>0. phase \in Generating /\ cur = NoFile
  BY DEF Generate, EndFirst, EndPass, EndGenerator, Hold, Deliver, Delay, Looks, Release, Leave,
         Reconsiders, YieldPermission, Resume, Generating
<1>1. k = 1 /\ still_failing = <<>>
  BY <1>0 DEF BuiltInv, PassInv
<1>2. UNCHANGED <<dir, scope, fresh, faults, made, rows, failures, still_failing, k>>
  BY DEF Generate, EndFirst, EndPass, EndGenerator, Hold, Deliver, Delay, Looks, Release, Leave,
         Reconsiders, YieldPermission
<1>3. /\ UNCHANGED <<names, seed, refs>> /\ (\A f, S : Ready(f, S)' <=> Ready(f, S)) /\ (Clean' <=> Clean)
      /\ Failed' = Failed
  BY <1>2, SameReady DEF Clean, Failed
<1>4. RowsMade'
  BY <1>2, MoreMade DEF GainInv
<1>5. CASE UNCHANGED <<yielded, cur>> /\ phase' \in Calling \cup {"circular"}
  <2>1. DOMAIN <<>> = {} /\ ElemsFrom(<<>>, 1) = {}
    BY DEF ElemsFrom
  <2>2. LineInv'
    BY <1>0, <1>1, <1>2, <1>3, <1>5, <2>1 DEF GainInv, LineInv, Calling, Generating
  <2>3. Awaited' = Awaited
    BY <1>2, <1>5 DEF Awaited
  <2>4. RowsOwned'
    BY <1>0, <1>2, <1>3, <1>5, <2>3 DEF GainInv, RowsOwned, Owned, Calling
  <2>5. Unready'
    BY <1>1, <1>2, <1>5, <2>1 DEF Unready, Calling, Generating
  <2> QED
    BY <1>4, <2>2, <2>4, <2>5 DEF GainInv
<1>6. ASSUME NEW f \in File \ yielded, Yield(f), phase' = phase
      PROVE  GainInv'
  <2>1. cur' = f /\ yielded' = yielded \cup {f} /\ f # NoFile
    BY <1>6, FileFacts DEF Yield
  <2>2. LineInv'
    BY <1>0, <1>2, <1>3, <1>6, <2>1 DEF GainInv, LineInv, Generating
  <2>3. Awaited' \cap yielded \subseteq Awaited
    BY <1>2, <1>6, <2>1 DEF Awaited
  <2>4. RowsOwned'
    BY <1>0, <1>2, <1>3, <1>6, <2>1, <2>3 DEF GainInv, RowsOwned, Owned, Calling
  <2>5. Unready'
    BY <1>0, <1>6 DEF Unready, Generating
  <2> QED
    BY <1>4, <2>2, <2>4, <2>5 DEF GainInv
<1>7. ASSUME NEW f \in File, Deliver(f) \/ Release(f) \/ YieldPermission(f)
      PROVE  GainInv'
  <2>1. f \in todo \cup delayed \cup held /\ Yield(f) /\ phase' = phase
    BY <1>7 DEF Deliver, Looks, First, Release, Reconsiders, Latest, YieldPermission
  <2>2. f \notin yielded
    BY <2>1 DEF GenInv, Placed
  <2> QED
    BY <1>6, <2>1, <2>2
<1>8. ASSUME NEW f \in File, Hold(f) \/ Delay(f) \/ Leave(f)
      PROVE  GainInv'
  <2>1. UNCHANGED <<phase, yielded, cur>>
    BY <1>8 DEF Hold, Delay, Leave, Looks, Reconsiders
  <2> QED
    BY <1>0, <1>5, <2>1 DEF Calling
<1>9. CASE EndFirst \/ EndPass \/ EndGenerator
  <2>1. UNCHANGED <<yielded, cur>> /\ phase' \in Calling \cup {"circular"}
    BY <1>9 DEF EndFirst, EndPass, EndGenerator, Calling, Generating
  <2> QED
    BY <1>5, <2>1
<1> QED
  BY <1>7, <1>8, <1>9 DEF Generate

\* A call starts with empty lists, and on an empty database without rows.
LEMMA CallGain ==
  ASSUME TypeOK, GainInv, NEW S \in Scopes, NEW force \in BOOLEAN, Call(S, force)
  PROVE  GainInv'
<1>1. /\ phase' = "first" /\ yielded' = {} /\ cur' = NoFile
      /\ failures' = <<>> /\ still_failing' = <<>> /\ fresh' = (made' = {})
  BY DEF Call
<1>2. ElemsFrom(<<>>, 1) = {} /\ DOMAIN <<>> = {}
  BY DEF ElemsFrom
<1>3. LineInv' /\ Unready'
  BY <1>1, <1>2 DEF LineInv, Failed, Distinct, Unready, Generating
<1>4. RowsMade'
  BY DEF Call, GainInv, RowsMade
<1>5. RowsOwned'
  BY <1>1, <1>4 DEF RowsMade, RowsOwned, Clean
<1> QED
  BY <1>3, <1>4, <1>5 DEF GainInv

\* GainInv holds initially ...
LEMMA InitGain == Init => GainInv
<1>1. ElemsFrom(<<>>, 1) = {} /\ DOMAIN <<>> = {}
  BY DEF ElemsFrom
<1> QED
  BY <1>1 DEF Init, GainInv, LineInv, RowsMade, RowsOwned, Unready, Clean, Failed, Distinct,
              Generating, Calling

\* ... and every step keeps it.
LEMMA NextGain ==
  OneSeeder /\ TypeOK /\ GenInv /\ BuiltInv /\ GainInv /\ [Next]_vars => GainInv'
<1> SUFFICES ASSUME OneSeeder, TypeOK, GenInv, BuiltInv, GainInv, [Next]_vars
             PROVE  GainInv'
  OBVIOUS
<1>1. CASE UNCHANGED vars
  <2>1. UNCHANGED <<dir, scope, fresh, faults, phase, cur, failures, still_failing, k, yielded, rows, made>>
    BY <1>1 DEF vars, dbVars, callVars, genVars, retryVars
  <2>2. UNCHANGED <<names, seed, refs>> /\ \A f, S : Ready(f, S)' <=> Ready(f, S)
    BY <2>1, SameReady
  <2>3. Awaited' = Awaited /\ Failed' = Failed /\ (Clean' <=> Clean)
    BY <2>1 DEF Awaited, Failed, Clean
  <2>4. LineInv' /\ RowsMade'
    BY <2>1, <2>3 DEF GainInv, LineInv, RowsMade
  <2>5. RowsOwned' /\ Unready'
    BY <2>1, <2>2, <2>3 DEF GainInv, RowsOwned, Owned, Unready
  <2> QED
    BY <2>4, <2>5 DEF GainInv
<1>2. CASE Apply
  BY <1>2, ApplyGain, RetryGain DEF Apply
<1> QED
  BY <1>1, <1>2, GenerateGain, CallGain, FaultGain DEF Next

\* What is stuck is not buildable: the first round to hold a failed file would
\* hold one that was ready with the files that did not fail.
LEMMA StuckUnbuildable ==
  ASSUME TypeOK, GenInv, LineInv, phase = "stuck", Failed # {},
         \A f \in Failed : ~Ready(f, scope \ Failed)
  PROVE  ~Buildable
<1> SUFFICES ASSUME Buildable PROVE FALSE
  OBVIOUS
<1>1. Failed \subseteq scope
  BY DEF LineInv, GenInv, Placed
<1> DEFINE T == {n \in 0..NumFiles : Round[n] \cap Failed # {}}
<1>2. NumFiles \in T
  BY <1>1, FileAssumption DEF Buildable
<1>3. PICK n \in T : \A m \in T : n <= m
  <2>1. T \subseteq Nat /\ T # {}
    BY <1>2
  <2> HIDE DEF T
  <2> QED
    BY <2>1, Least
<1>4. n \in 0..NumFiles /\ Round[n] = IF n = 0 THEN {} ELSE {f \in scope : Ready(f, Round[n - 1])}
  BY RoundEquation
<1>5. n # 0
  BY <1>4
<1>6. n - 1 \in 0..NumFiles /\ ~(n <= n - 1)
  BY <1>4, <1>5, FileAssumption
<1>7. Round[n - 1] \cap Failed = {}
  BY <1>3, <1>6
<1>8. Round[n - 1] \subseteq scope
  BY <1>6, RoundEquation
<1>9. PICK f \in Failed : Ready(f, Round[n - 1])
  BY <1>4, <1>5
<1>10. Ready(f, scope \ Failed)
  BY <1>7, <1>8, <1>9, ReadyGrows
<1> QED
  BY <1>10

\* "Looping until a full pass makes no progress converges on any resolvable
\* ordering": on an empty database, when nothing fails for a reason of its own,
\* apply_schema gives up only on files that no order would have built.
THEOREM Converges == OneSeeder => (Spec => []RetriesConverge)
<1> SUFFICES ASSUME OneSeeder
             PROVE  Spec => []RetriesConverge
  OBVIOUS
<1>1. TypeOK /\ GenInv /\ GainInv => RetriesConverge
  BY StuckUnbuildable DEF RetriesConverge, GainInv, Unready, Clean
<1>2. TypeOK /\ GenInv /\ BuiltInv /\ [Next]_vars => BuiltInv'
  BY NextBuilt, SeedersAgree
<1>3. TypeOK /\ GenInv /\ BuiltInv /\ GainInv /\ [Next]_vars => GainInv'
  BY NextGain
<1> QED
  BY <1>1, <1>2, <1>3, InitTypeOK, NextTypeOK, InitGen, NextGen, InitBuilt, InitGain, PTL DEF Spec
=============================================================================
