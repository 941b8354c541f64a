--------------------------- MODULE MCSchemaApply ---------------------------
(***************************************************************************)
(* Three tables, the permissions file and an index file, in that order.    *)
(* A version of the directory is a number whose digits choose what each    *)
(* table depends on (cycles included), what execution needs and the parser *)
(* does not see, and the fixtures.                                         *)
(***************************************************************************)
EXTENDS SchemaApply

CONSTANTS a, b, c, outside   \* the tables, and a name no file declares

Tables == <<a, b, c>>
MCNames == [f \in 1..5 |-> IF f <= 3 THEN Tables[f] ELSE NoName]

\* One of the four sets of tables f may depend on.
Choice(f, n) == {t \in {<<1, (f % 3) + 1>>, <<2, ((f + 1) % 3) + 1>>} : (n \div t[1]) % 2 = 1}
DepsOf(f, n) == {Tables[t[2]] : t \in Choice(f, n)}

None == [f \in 1..5 |-> {}]
Hidden == <<None, [None EXCEPT ![1] = {b}, ![2] = {c}]>>

Unseeded == [f \in 1..5 |-> 0]
Seeds == <<Unseeded, [f \in 1..5 |-> IF f <= 3 THEN 1 ELSE 0],
           [Unseeded EXCEPT ![1] = 2, ![2] = 1]>>

Graphs == 32   \* 4 * 4 * 2: c depends on nothing or on a
Scripts == Graphs * Len(Hidden)
MCVersion == 0..(Scripts * Len(Seeds) - 1)

MCContent == [v \in MCVersion |->
  LET graph   == <<v % 4, (v \div 4) % 4, (v \div 16) % 2>>
      hidden  == Hidden[((v \div Graphs) % Len(Hidden)) + 1]
      fixture == Seeds[(v \div Scripts) + 1]
      parsed  == [f \in 1..5 |-> IF f <= 3 THEN DepsOf(f, graph[f])
                                 ELSE IF f = 5 THEN {c, outside} ELSE {}]
  IN [names |-> MCNames,
      deps  |-> parsed,
      needs |-> [f \in 1..5 |-> (parsed[f] \ {outside}) \cup hidden[f]],
      refs  |-> [f \in 1..5 |-> IF f <= 3 THEN parsed[f] ELSE {}],
      seed  |-> fixture]]

\* Between two calls fixtures change; the scripts stay.
MCEdits == [v \in MCVersion |-> {(v % Scripts) + s * Scripts : s \in 0..(Len(Seeds) - 1)}]
MCScopes == {1..5, {1, 2, 4}}
=============================================================================
